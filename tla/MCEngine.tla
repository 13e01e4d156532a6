------------------------------- MODULE MCEngine -------------------------------
(***************************************************************************)
(* What the engine promises a run that nobody stops looking after: its     *)
(* handler's attempts (HandlerAttempts), the effects those attempts leave  *)
(* unsettled (EffectExecution) and the delivery of its outcome             *)
(* (TerminalProjection). The three share no state, so a behaviour is one   *)
(* of one of them; the others stay as they began.                          *)
(***************************************************************************)
EXTENDS HandlerAttempts

CONSTANTS
  w1,                                            \* the process that runs effects
  Processes, DeliveryClaims, DeliveryLease,      \* of TerminalProjection
  DeliveryDelay, DeliveryPauses, Resumes

VARIABLES
  part,     \* the component that moves
  projection, delivered, offers, deliverer, pausesD, resumes,
  kind, run, effect, calls, worker, overrun, pausesE, unresolved

outboxVars == <<projection, deliverer, delivered, offers, pausesD, resumes>>
effectVars == <<kind, run, effect, calls, worker, overrun, pausesE, unresolved>>

Outbox == INSTANCE TerminalProjection WITH
  Workers <- Processes, LeaseTerm <- DeliveryLease, MaxDelay <- DeliveryDelay,
  MaxPauses <- DeliveryPauses, MaxResumes <- Resumes,
  row <- projection, worker <- deliverer, calls <- offers, pauses <- pausesD

Effect == INSTANCE EffectExecution WITH
  Workers <- {w1}, MaxAttempts <- 2, LeaseTerm <- 1, EffectTimeout <- 2,
  MaxDelay <- 1, MaxPauses <- 2, MaxUnresolved <- 2, pauses <- pausesE,
  Kinds <- {"read_only", "target_idempotency", "reconcile_before_replay"}

ASSUME OutboxIs == Outbox!OutboxAssumption
ASSUME EffectIs == Effect!EffectAssumption

MCInit ==
  /\ part \in {"attempts", "outbox", "effect"}
  /\ Init /\ Outbox!Init /\ Effect!Init
  /\ part # "effect" => kind = "read_only"

Attempts == part = "attempts" /\ UNCHANGED <<part, outboxVars, effectVars>>
Delivery == part = "outbox" /\ UNCHANGED <<part, vars, effectVars>>
Effects == part = "effect" /\ UNCHANGED <<part, vars, outboxVars>>

MCNext == (Attempts /\ Next) \/ (Delivery /\ Outbox!Next) \/ (Effects /\ Effect!Next)

mcVars == <<part, vars, outboxVars, effectVars>>

MCSpec ==
  /\ MCInit /\ [][MCNext]_mcVars
  /\ \A w \in Workers : WF_vars(Attempts /\ Step(w))
  /\ \A w \in Runners : SF_vars(Attempts /\ Claim(w))
  /\ WF_vars(Attempts /\ AbandonedClaimExpires)
  /\ WF_outboxVars(Delivery /\ Outbox!Tick)
  /\ WF_outboxVars(Delivery /\ \E w \in Processes : Outbox!ClaimTerminalProjection(w))
  /\ \A w \in Processes : /\ WF_outboxVars(Delivery /\ Outbox!WorkerStep(w))
                         /\ WF_outboxVars(Delivery /\ Outbox!Unpause(w))
  /\ WF_effectVars(Effects /\ Effect!Tick)
  /\ WF_effectVars(Effects /\ Effect!Claim(w1))
  /\ WF_effectVars(Effects /\ Effect!WorkerStep(w1))
  /\ WF_effectVars(Effects /\ Effect!Unpause(w1))
-------------------------------------------------------------------------------
\* Processes that pause, die or answer late around the product's callback: an
\* outcome is recorded as delivered only when the product has it, the callback
\* runs on fewer claims than the limit, and the row keeps its CHECKed shapes.
OutboxHolds ==
  /\ Outbox!TypeOK /\ Outbox!OutboxShapes
  /\ Outbox!SucceededWasDelivered /\ Outbox!DeliveriesBounded

\* However its attempts end, a run settles or is blocked for an operator; and
\* no mix of workers and errors keeps claiming a run that was stopped.
AttemptsEnd == part = "attempts" => RunEnds /\ StopEnds

\* An outcome is delivered, or left blocked as evidence for an operator; and an
\* acknowledged delivery is never delivered again.
DeliveryEnds == (part = "outbox" => Outbox!ObligationResolved) /\ Outbox!DeliveredForGood

\* Whatever becomes of the calls of its effect, a run ends or is stopped; and a
\* Stop ends it, unless the outcome was recorded as unknown for good.
EffectEnds == part = "effect" => Effect!RunEnds /\ Effect!StopResolved
===============================================================================
