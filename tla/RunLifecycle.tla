----------------------------- MODULE RunLifecycle -----------------------------
(***************************************************************************)
(* What the execution ledger promises about a durable run, whatever the    *)
(* workers, operators and clocks do:                                       *)
(*   - a run settles at most once, and its outcome never changes;          *)
(*   - once a stop is recorded the first receipt stands, and the run can   *)
(*     only settle as cancelled;                                           *)
(*   - settling a managed run creates, in the same step, the obligation to *)
(*     deliver exactly that outcome to the product.                        *)
(* ExecutionLedger is shown to implement this module.                      *)
(***************************************************************************)
CONSTANTS
  Runs,         \* the runs that may be admitted
  ManagedRuns,  \* the runs whose outcome is owed to a product
  StopIds,      \* identities of stop requests
  Outcomes,     \* how a run may settle
  None

VARIABLES
  phase,    \* phase[r] is "absent", "open" or "settled"
  stop,     \* stop[r] is the recorded stop request, or None
  outcome,  \* outcome[r] is how r settled, or None
  owed      \* owed[r] is the outcome the product must be told, or None

lifecycle == <<phase, stop, outcome, owed>>

Init ==
  /\ phase = [r \in Runs |-> "absent"]
  /\ stop = [r \in Runs |-> None]
  /\ outcome = [r \in Runs |-> None]
  /\ owed = [r \in Runs |-> None]

Admit(r) ==
  /\ phase[r] = "absent"
  /\ phase' = [phase EXCEPT ![r] = "open"]
  /\ UNCHANGED <<stop, outcome, owed>>

\* The run is told to stop while work on it is under way.
RequestStop(r, c) ==
  /\ phase[r] = "open"
  /\ stop[r] = None
  /\ stop' = [stop EXCEPT ![r] = c]
  /\ UNCHANGED <<phase, outcome, owed>>

\* r settles as o; s is the stop request on record afterwards.
Settle(r, o, s) ==
  /\ phase[r] = "open"
  /\ s = stop[r] \/ (stop[r] = None /\ s \in StopIds)
  /\ s # None => o = "cancelled"
  /\ phase' = [phase EXCEPT ![r] = "settled"]
  /\ stop' = [stop EXCEPT ![r] = s]
  /\ outcome' = [outcome EXCEPT ![r] = o]
  /\ owed' = [owed EXCEPT ![r] = IF r \in ManagedRuns THEN o ELSE None]

Next ==
  \E r \in Runs :
    \/ Admit(r)
    \/ \E c \in StopIds : RequestStop(r, c)
    \/ \E o \in Outcomes, s \in StopIds \cup {None} : Settle(r, o, s)

Spec == Init /\ [][Next]_lifecycle
===============================================================================
