--------------------------------- MODULE MCChat ---------------------------------
(***************************************************************************)
(* A chat turn and what carries it: its admission (AtomicAdmission), its   *)
(* life with up to two faults (AgentTurn), the durable record of its       *)
(* deliveries (DurableDelivery) and the queue of the connectors that may   *)
(* run it (LocalConnector). They share no state here, so a behaviour is    *)
(* one of one of them; the others stay as they began.                      *)
(***************************************************************************)
EXTENDS AtomicAdmission, TLC

CONSTANTS
  t1, t2, s1, s2, c1, k1, m1, b1,
  Tokens, MaxFaults,                        \* of AgentTurn
  Calls, Keys, Messages, Depth,             \* of DurableDelivery
  Sessions, MaxJobs, MaxReopens, MaxLosses  \* of LocalConnector

VARIABLES
  part,    \* the component that moves
  turnDispatch, turnParent, child, originStopped, cards, prints, tomb, stop, mc,
  worker, turnAnswer, invoked, retried, faults,
  call, data, made, final, safeDirs, safeData, safeNames,
  session, late, seen, works, job, owner, stale, step, hand, taken, takers, told,
  reopens, faultsC

MCTokens == {t1, t2}
MCSessions == {s1, s2}

turnVars == <<turnDispatch, turnParent, child, originStopped, cards, prints, tomb,
              stop, mc, worker, turnAnswer, invoked, retried, faults>>
deliveryVars == <<call, data, made, final, safeDirs, safeData, safeNames>>
connectorVars == <<session, late, seen, works, job, owner, stale, step, hand, taken,
                   takers, told, reopens, faultsC>>

Turn == INSTANCE AgentTurn WITH
  dispatch <- turnDispatch, parent <- turnParent, answer <- turnAnswer

Delivery == INSTANCE DurableDelivery

Connector == INSTANCE LocalConnector WITH
  MaxFaults <- MaxLosses, pc <- step, faults <- faultsC

ASSUME TurnIs == Turn!TurnAssumption
ASSUME DeliveryIs == Delivery!DeliveryAssumption
ASSUME ConnectorIs == Connector!ConnectorAssumption

Symmetry == Permutations(Tokens)

MCInit ==
  /\ part \in {"admission", "turn", "delivery", "connector"}
  /\ Init /\ Turn!Init /\ Delivery!Init /\ Connector!Init
  /\ call[c1].key = k1 /\ call[c1].msg = m1   \* by symmetry
  /\ part # "delivery" => \A c \in Calls : call[c] = call[c1]

\* The bodies are alike: the first run has the first.
Admitting ==
  /\ body'[1] \in {None, b1}
  /\ UNCHANGED <<part, turnVars, deliveryVars, connectorVars>>

\* Two faults, or one and a transport that breaks.
Turning ==
  /\ faults' > 0 \/ \A t \in Tokens : ~retried'[t]
  /\ UNCHANGED <<part, vars, deliveryVars, connectorVars>>

Delivering == UNCHANGED <<part, vars, turnVars, connectorVars>>

\* Two jobs and no fault, or one job and a fault.
Connecting ==
  /\ faultsC' = 0 \/ \A j \in 2 .. MaxJobs : job'[j] = "none"
  /\ UNCHANGED <<part, vars, turnVars, deliveryVars>>

MCNext ==
  \/ part = "admission" /\ Next /\ Admitting
  \/ part = "turn" /\ Turn!Next /\ Turning
  \/ part = "delivery" /\ Delivery!Next /\ Delivering
  \/ part = "connector" /\ Connector!Next /\ Connecting

mcVars == <<part, vars, turnVars, deliveryVars, connectorVars>>

MCSpec == MCInit /\ [][MCNext]_mcVars
-------------------------------------------------------------------------------
\* Whatever is lost, late or taken over in a turn: its message goes to the model
\* from one turn of the plugin, which may send it once more when its transport
\* breaks; a turn shown as cancelled has no durable work in flight, one that ended
\* has told its reader, and the ledger closes it as completed only after that.
TurnHolds ==
  /\ Turn!TypeOK /\ Turn!InvokedByOneTurn /\ Turn!StopNeverLies
  /\ Turn!EndIsVisible /\ Turn!FinishedDispatchHasEndedParent

\* Whenever the power is lost under three writers of the delivery records: what
\* a call acknowledged is there with its message, no reader finds a record that
\* is not whole, a key has one creator, and a reported conflict stands.
DeliveryHolds ==
  /\ Delivery!TypeOK /\ Delivery!AcknowledgedIsKept /\ Delivery!NoPartialRecord
  /\ Delivery!OneCreator /\ Delivery!ConflictStands

\* Two bridges of one person, claims that go stale and answers that are lost: a
\* turn runs once for every time it was queued, and is recorded as dispatched
\* under a bridge that took it.
ConnectorHolds ==
  Connector!TypeOK /\ Connector!TakenOncePerClaim /\ Connector!DispatchedWasTaken

\* What the first writer of a delivery made is never replaced, and a connector's
\* job that was reported on is never queued again.
WrittenStays == Delivery!FirstWriterWins /\ Connector!FinishedStays
===============================================================================
