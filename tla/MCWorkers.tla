------------------------------- MODULE MCWorkers -------------------------------
(***************************************************************************)
(* A worker of the process: beside the slots that its scope competes for   *)
(* (WorkerCapacity, checked by itself), what it does while it has one      *)
(* (WorkerLoop). The two share no state; here only the worker moves.       *)
(***************************************************************************)
EXTENDS MCWorkerCapacity

CONSTANTS
  Runs, NoRun, MaxClaims, MaxProjections, MaxTasks, MaxErrors, MaxClosings, MaxDeaths

VARIABLES
  phase, closing, draining, tasks, wakeRequested, at, projections, commands, mine,
  policy, queued, expired, later, orphans, finished, backlog, owed, late, errors,
  closings, deaths

Loop == INSTANCE WorkerLoop

ASSUME LoopIs == Loop!LoopAssumption

MCInit == Init /\ Loop!Init

\* The drain, its timer, wakes and closing, with two of a failed call, a
\* closing and a death.
MCNext == UNCHANGED vars /\ Loop!Next /\ errors' + closings' + deaths' <= 2

MCSpec == MCInit /\ [][MCNext]_<<vars, Loop!vars>> /\ Loop!Fairness
-------------------------------------------------------------------------------
\* A timer, wakes, drains, retirement and stop that overlap at every await: no
\* wake is lost, one drain runs at most, neither queue starves the other within
\* a pass, and a closed worker claims once at most and is quiet in the end.
LoopHolds == Loop!LoopHolds

\* Every run in the queue is claimed in the end, once the scope stays permitted.
EveryRunIsClaimed == Loop!EveryRunIsClaimed

\* retire() and stop() resolve.
ClosingEnds == Loop!ClosingEnds
===============================================================================
