-------------------------- MODULE TerminalProjection --------------------------
(***************************************************************************)
(* The terminal projection outbox: one row of                              *)
(* execution_terminal_projections, written in the statement that settled a *)
(* managed run (ExecutionLedger), and the workers that deliver it to the   *)
(* product through DurableExecutionEngine.processProjectionReceipt and     *)
(* FencedTerminalProjectionLease.                                          *)
(*                                                                         *)
(* Every statement on the row is one action. Between two of them a worker  *)
(* may be paused, its lease may lapse and another worker may take the row. *)
(* Timestamps are kept as the time left until them.                        *)
(***************************************************************************)
EXTENDS Integers

CONSTANTS
  Workers,       \* processes that drain the outbox
  DeliveryClaims,\* MAX_TERMINAL_PROJECTION_DELIVERY_CLAIMS
  LeaseTerm,     \* leaseMs, in clock ticks
  MaxDelay,      \* longest retry delay, in clock ticks
  MaxPauses,     \* bound of the model on processes paused or killed
  MaxResumes     \* bound of the model on operator repairs

OutboxAssumption ==
  /\ DeliveryClaims \in Nat \ {0}
  /\ LeaseTerm \in Nat \ {0}
  /\ MaxDelay \in Nat \ {0}
  /\ MaxPauses \in Nat
  /\ MaxResumes \in Nat

VARIABLES
  row,       \* the outbox row
  worker,    \* worker[w]: where w is in processProjectionReceipt
  delivered, \* the product has recorded the outcome
  calls,     \* projector calls made so far
  pauses,    \* pauses so far
  resumes    \* repairs so far

vars == <<row, worker, delivered, calls, pauses, resumes>>

\* Every claim ends in a settlement, a pause of its owner or the next claim.
MaxClaims == DeliveryClaims + MaxPauses + MaxResumes

NoLease == -1
NoToken == 0   \* the n-th claim is issued token n

Codes == {"none", "failed", "exhausted", "invalid"}

Row ==
  [state       : {"pending", "running", "retry_wait", "succeeded", "blocked"},
   availableIn : 0 .. MaxDelay,
   token       : 0 .. MaxClaims,
   lease       : NoLease .. LeaseTerm,
   claims      : 0 .. MaxClaims,
   code        : Codes]

\* "claimed": before the revalidation; "projecting": the callback runs and the
\* heartbeat renews; the others name the statement w sends next.
Steps == {"idle", "claimed", "projecting", "acknowledge", "requeue", "block"}

TypeOK ==
  /\ row \in Row
  /\ worker \in [Workers -> [pc     : Steps,
                             token  : 0 .. MaxClaims,
                             code   : Codes,
                             paused : BOOLEAN]]
  /\ delivered \in BOOLEAN
  /\ calls \in 0 .. MaxClaims
  /\ pauses \in 0 .. MaxPauses
  /\ resumes \in 0 .. MaxResumes

Idle == [pc |-> "idle", token |-> NoToken, code |-> "none", paused |-> FALSE]

Init ==
  /\ row = [state |-> "pending", availableIn |-> 0, token |-> NoToken,
            lease |-> NoLease, claims |-> 0, code |-> "none"]
  /\ worker = [w \in Workers |-> Idle]
  /\ delivered = FALSE
  /\ calls = 0
  /\ pauses = 0
  /\ resumes = 0
-------------------------------------------------------------------------------
Fenced(w) ==
  /\ row.state = "running"
  /\ row.token = worker[w].token
  /\ row.lease > 0

\* Mutant: a row whose owner died is never claimable again.
ClaimableOnce ==
  row.state \in {"pending", "retry_wait"} /\ row.availableIn = 0

Claimable ==
  \/ row.state \in {"pending", "retry_wait"} /\ row.availableIn = 0
  \/ row.state = "running" /\ row.lease = 0

Go(w, step, code) ==
  worker' = [worker EXCEPT ![w].pc = step, ![w].code = code]

Leave(w) == worker' = [worker EXCEPT ![w] = Idle]

\* Settles the row as s, if w still owns it: otherwise nothing is written and w
\* reports lease_lost.
Settle(w, s, delay, code) ==
  /\ row' = IF Fenced(w)
            THEN [row EXCEPT !.state = s, !.availableIn = delay,
                             !.token = NoToken, !.lease = NoLease, !.code = code]
            ELSE row
  /\ Leave(w)
  /\ UNCHANGED <<delivered, calls, pauses, resumes>>

\* What processProjectionReceipt decides about its n-th claim before any
\* callback: deliver it, put it back because this process has no handler for
\* it, or park it as exhausted or invalid.
Verdict(n) ==
  IF n >= DeliveryClaims
  THEN {<<"block", "exhausted">>}
  ELSE {<<"claimed", "none">>, <<"requeue", "failed">>, <<"block", "invalid">>}

ClaimTerminalProjection(w) ==
  /\ worker[w].pc = "idle"
  /\ Claimable
  /\ row.claims < MaxClaims
  /\ row' = [row EXCEPT !.state = "running", !.token = row.claims + 1,
                        !.lease = LeaseTerm, !.claims = @ + 1]
  /\ \E v \in Verdict(row.claims + 1) :
       worker' = [worker EXCEPT ![w] = [Idle EXCEPT !.pc = v[1], !.code = v[2],
                                                    !.token = row.claims + 1]]
  /\ UNCHANGED <<delivered, calls, pauses, resumes>>

\* The lease is renewed before the callback is called: a process paused since
\* its claim must not deliver.
Revalidate(w) ==
  /\ worker[w].pc = "claimed"
  /\ ~worker[w].paused
  /\ \/ /\ Fenced(w)
        /\ row' = [row EXCEPT !.lease = LeaseTerm]
        /\ calls' = calls + 1
        /\ Go(w, "projecting", "none")
     \/ /\ ~Fenced(w)
        /\ Leave(w)
        /\ UNCHANGED <<row, calls>>
  /\ UNCHANGED <<delivered, pauses, resumes>>

\* A heartbeat that is refused marks the lease lost and aborts the callback.
Heartbeat(w) ==
  /\ worker[w].pc = "projecting"
  /\ ~worker[w].paused
  /\ \/ /\ Fenced(w)
        /\ row' = [row EXCEPT !.lease = LeaseTerm]
        /\ UNCHANGED worker
     \/ /\ ~Fenced(w)
        /\ Leave(w)
        /\ UNCHANGED row
  /\ UNCHANGED <<delivered, calls, pauses, resumes>>

\* Mutant: a callback that was interrupted counts as delivered.
CallbackEndsAnyhow(w) ==
  /\ worker[w].pc = "projecting"
  /\ ~worker[w].paused
  /\ \/ delivered' = TRUE /\ Go(w, "acknowledge", "none")
     \/ delivered' \in {delivered, TRUE} /\ Go(w, "acknowledge", "failed")
  /\ UNCHANGED <<row, calls, pauses, resumes>>

\* projectTerminal returns, having written the product, or it fails, passes its
\* deadline or is interrupted, whether or not it had written the product.
CallbackEnds(w) ==
  /\ worker[w].pc = "projecting"
  /\ ~worker[w].paused
  /\ \/ delivered' = TRUE /\ Go(w, "acknowledge", "none")
     \/ delivered' \in {delivered, TRUE} /\ Go(w, "requeue", "failed")
  /\ UNCHANGED <<row, calls, pauses, resumes>>

AcknowledgeTerminalProjection(w) ==
  /\ worker[w].pc = "acknowledge"
  /\ ~worker[w].paused
  /\ Settle(w, "succeeded", row.availableIn, "none")

RequeueTerminalProjection(w) ==
  /\ worker[w].pc = "requeue"
  /\ ~worker[w].paused
  /\ \E delay \in 1 .. MaxDelay :
       Settle(w, "retry_wait", delay, worker[w].code)

BlockTerminalProjection(w) ==
  /\ worker[w].pc = "block"
  /\ ~worker[w].paused
  /\ Settle(w, "blocked", row.availableIn, worker[w].code)

\* The operator's repair of the incident it has read. The claim count stays.
ResumeBlockedTerminalProjection ==
  /\ row.state = "blocked"
  /\ resumes < MaxResumes
  /\ row' = [row EXCEPT !.state = "pending", !.availableIn = 0, !.code = "none"]
  /\ resumes' = resumes + 1
  /\ UNCHANGED <<worker, delivered, calls, pauses>>
-------------------------------------------------------------------------------
(* The environment *)

\* A process is suspended, and resumed later with what it remembers, or dies.
Pause(w) ==
  /\ worker[w].pc # "idle"
  /\ ~worker[w].paused
  /\ pauses < MaxPauses
  /\ worker' = [worker EXCEPT ![w].paused = TRUE]
  /\ pauses' = pauses + 1
  /\ UNCHANGED <<row, delivered, calls, resumes>>

Unpause(w) ==
  /\ worker[w].paused
  /\ \/ worker' = [worker EXCEPT ![w].paused = FALSE]
     \/ Leave(w)
  /\ UNCHANGED <<row, delivered, calls, pauses, resumes>>

Elapsed(n) == IF n > 0 THEN n - 1 ELSE n

\* The database clock. A process that runs renews or settles within its lease
\* (the heartbeat fires every third of it): only a paused one lets it lapse.
Tick ==
  /\ row.availableIn > 0 \/ row.lease > 0
  /\ row.lease = 1 => \A w \in Workers : Fenced(w) => worker[w].paused
  /\ row' = [row EXCEPT !.availableIn = Elapsed(@), !.lease = Elapsed(@)]
  /\ UNCHANGED <<worker, delivered, calls, pauses, resumes>>
-------------------------------------------------------------------------------
WorkerStep(w) ==
  \/ Revalidate(w)
  \/ CallbackEnds(w)
  \/ AcknowledgeTerminalProjection(w)
  \/ RequeueTerminalProjection(w)
  \/ BlockTerminalProjection(w)

Next ==
  \/ Tick
  \/ ResumeBlockedTerminalProjection
  \/ \E w \in Workers :
       \/ ClaimTerminalProjection(w)
       \/ WorkerStep(w)
       \/ Heartbeat(w)
       \/ Pause(w)
       \/ Unpause(w)

\* Callbacks are bounded by the handler deadline and statements return, so a
\* worker that is not paused goes on; idle workers keep polling; time passes; a
\* process that died is started again (docker-compose.yml, restart).
Fairness ==
  /\ WF_vars(Tick)
  /\ WF_vars(\E w \in Workers : ClaimTerminalProjection(w))
  /\ \A w \in Workers : WF_vars(WorkerStep(w)) /\ WF_vars(Unpause(w))

Spec == Init /\ [][Next]_vars /\ Fairness
-------------------------------------------------------------------------------
(* Properties *)

\* The row keeps the shapes its CHECK constraints demand, through crashes,
\* takeovers and repairs: a lease exactly while running, an error code exactly
\* where an incident is waiting for its retry or its repair.
OutboxShapes ==
  /\ row.state = "running" <=> row.token # NoToken
  /\ row.state = "running" <=> row.lease # NoLease
  /\ row.state \in {"retry_wait", "blocked"} => row.code # "none"
  /\ row.state \in {"pending", "succeeded"} => row.code = "none"

\* An outcome is recorded as delivered only after the product has it.
SucceededWasDelivered == row.state = "succeeded" => delivered

\* The product callback is called on fewer claims than the delivery limit,
\* however many processes die, lose their lease or are repaired by hand.
DeliveriesBounded == calls < DeliveryClaims

\* A delivery that any process has acknowledged is never delivered again:
\* no later claim, retry or repair takes it out of the succeeded state.
DeliveredForGood == [][row.state = "succeeded" => row' = row]_vars

\* An obligation is never forgotten: it is delivered or left blocked as
\* evidence for an operator, although processes pause and die.
ObligationResolved ==
  row.state \in {"pending", "running", "retry_wait"}
    ~> row.state \in {"succeeded", "blocked"}
===============================================================================
