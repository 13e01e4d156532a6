--------------------------- MODULE MCExecutionLedger ---------------------------
(***************************************************************************)
(* The three kinds of rows of the execution ledger: a managed and an       *)
(* unmanaged run (ExecutionLedger), an origin (ExecutionOrigin: two Stops  *)
(* of three children, or one Stop, two children and two commands), and an  *)
(* effect between two workers (EffectExecution). Each is modelled with     *)
(* what it needs of the others, so a behaviour is one of one of them; the  *)
(* others stay as they began.                                              *)
(***************************************************************************)
EXTENDS ExecutionLedger

CONSTANTS
  r1, r2, c1, c2, w1, w2,
  N, Stops, Commands, Operator, PageSize,                 \* of ExecutionOrigin
  Workers, Kinds, EffectAttempts, EffectLease,            \* of EffectExecution
  EffectTimeout, MaxPauses, MaxUnresolved

VARIABLES
  part,    \* the kind of row that moves
  origin, child, claim, stop,
  kind, effectRun, effect, calls, worker, overrun, pauses, unresolved

originVars == <<origin, child, claim, stop>>
effectVars == <<kind, effectRun, effect, calls, worker, overrun, pauses, unresolved>>

Origin == INSTANCE ExecutionOrigin

Effect == INSTANCE EffectExecution WITH
  MaxAttempts <- EffectAttempts, LeaseTerm <- EffectLease, run <- effectRun

ASSUME OriginIs == Origin!OriginAssumption
ASSUME EffectIs == Effect!EffectAssumption

MCRuns == {r1, r2}
MCManagedRuns == {r1}
MCCancelIds == {c1, c2}
MCWorkers == {w1, w2}

MCInit ==
  /\ part \in {"runs", "stops", "commands", "effect"}
  /\ Init /\ Origin!Init /\ Effect!Init
  /\ part # "effect" => kind = "read_only"

RunsMove == part = "runs" /\ UNCHANGED <<part, originVars, effectVars>>
OriginMoves ==
  /\ \/ part = "stops" /\ UNCHANGED claim
     \/ part = "commands" /\ child'[3] = child[3] /\ stop'[w2] = stop[w2]
  /\ UNCHANGED <<part, run, effectVars>>
EffectMoves == part = "effect" /\ UNCHANGED <<part, run, originVars>>

MCNext ==
  \/ RunsMove /\ Next
  \/ Origin!Next /\ OriginMoves
  \/ EffectMoves /\ Effect!Next

mcVars == <<part, run, originVars, effectVars>>

MCSpec == MCInit /\ [][MCNext]_mcVars
-------------------------------------------------------------------------------
\* When the Stop of an origin reports success, every child has ended or was asked
\* to stop: the fan-out loses no child it has passed, although children are
\* admitted and end between its pages.
StopsHold == Origin!TypeOK /\ Origin!StopCoversChildren /\ Origin!NothingBehindCursor

\* What the row of an effect says of the provider is so: no receipt of what was
\* not performed; and only a call that outlived its deadline performs an effect
\* twice, or one recorded as not performed.
EffectHolds ==
  /\ Effect!TypeOK /\ Effect!PerformedOnce
  /\ Effect!SucceededWasPerformed /\ Effect!FailureIsDefinite

\* Late workers and second requests change nothing that was settled: the Stop of
\* an origin and its receipt, its external command, an effect's outcome; and a
\* run is cancelled only when the outcome of its effect is known.
SettledStands ==
  /\ Origin!StopIsForEver /\ Origin!FirstCommandWins
  /\ Effect!StopAcknowledgedWhenSettled /\ Effect!SettledForGood
===============================================================================
