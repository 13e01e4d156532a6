------------------------------ MODULE WorkerLoop ------------------------------
(***************************************************************************)
(* DurableExecutionWorker of durable-execution/runtime.ts: the polling     *)
(* loop of one scope, in the process that runs it, over the queue of that  *)
(* scope in PostgreSQL.                                                    *)
(*                                                                         *)
(* JavaScript runs one thing at a time: an action here is what runs        *)
(* between two awaits. tasks is the microtask queue, as far as the worker  *)
(* fills it: the polls of wake() and the finally() of a drain, in order.   *)
(* A process that dies is followed by another, with a worker of its own;   *)
(* the lease of a run it held expires later. The queue is the order in     *)
(* which claimEligibleRun takes the rows.                                  *)
(***************************************************************************)
EXTENDS Naturals, Sequences, FiniteSets

CONSTANTS
  Runs,            \* runs of the scope
  NoRun,           \* the worker holds no run
  MaxClaims,       \* maxClaimsPerDrain
  MaxProjections,  \* maxProjectionClaimsPerDrain
  MaxTasks,        \* bound: microtasks pending
  MaxErrors,       \* bound: calls of the repository that fail
  MaxClosings,     \* bound: workers retired or stopped in an orderly way
  MaxDeaths        \* bound: processes that die

LoopAssumption ==
  /\ NoRun \notin Runs
  /\ MaxClaims \in Nat \ {0}
  /\ MaxProjections \in Nat \ {0}
  /\ MaxTasks \in Nat \ {0}
  /\ {MaxErrors, MaxClosings, MaxDeaths} \subseteq Nat

VARIABLES
  phase,         \* started, everStarted and terminated of the worker
  closing,       \* how far retire() or stop() is
  draining,      \* this.draining # null
  tasks,         \* pending microtasks of the worker
  wakeRequested, \* this.wakeRequested
  at,            \* where drain() awaits
  projections,   \* projectionClaims and projectionsDrained of this pass
  commands,      \* commandClaims and commandsDrained of this pass
  mine,          \* the run whose handler this worker executes
  policy,        \* what drainPolicy.mayDrain answers
  queued,        \* available queued runs, by available_at
  expired,       \* running runs whose lease is over, by its end
  later,         \* queued runs that are not yet available
  orphans,       \* running runs whose lease nobody renews
  finished,      \* runs that left the queue
  backlog,       \* terminal projections are waiting
  owed,          \* ghost: a wake() that no pass has begun after
  late,          \* ghost: claims made since the worker was told to close
  errors, closings, deaths

worker == <<phase, closing, draining, tasks, wakeRequested, at, projections,
            commands, mine>>
rows == <<queued, expired, later, orphans, finished>>
bounds == <<errors, closings, deaths>>
vars == <<worker, policy, rows, backlog, owed, late, bounds>>

Fresh == [claims |-> 0, drained |-> FALSE]
Elements(s) == {s[i] : i \in 1 .. Len(s)}
Known == Elements(queued) \cup Elements(expired) \cup later \cup orphans
           \cup finished \cup ({mine} \ {NoRun})

TypeOK ==
  /\ phase \in {"new", "started", "terminated"}
  /\ closing \in {"open", "retiring", "stopping", "closed"}
  /\ {draining, wakeRequested, policy, backlog, owed} \subseteq BOOLEAN
  /\ tasks \in Seq({"poll", "finally"})
  /\ at \in {"nowhere", "reconcile", "projection", "command", "handler", "inspect"}
  /\ projections \in [claims : 0 .. MaxProjections, drained : BOOLEAN]
  /\ commands \in [claims : 0 .. MaxClaims, drained : BOOLEAN]
  /\ mine \in Runs \cup {NoRun}
  /\ {queued, expired} \subseteq Seq(Runs)
  /\ {later, orphans, finished} \subseteq SUBSET Runs
  /\ {late, errors, closings, deaths} \subseteq Nat

FreshWorker ==
  /\ phase' = "new"
  /\ closing' = "open"
  /\ draining' = FALSE
  /\ tasks' = <<>>
  /\ wakeRequested' = FALSE
  /\ at' = "nowhere"
  /\ projections' = Fresh
  /\ commands' = Fresh
  /\ mine' = NoRun

Init ==
  /\ phase = "new"
  /\ closing = "open"
  /\ draining = FALSE
  /\ tasks = <<>>
  /\ wakeRequested = FALSE
  /\ at = "nowhere"
  /\ projections = Fresh
  /\ commands = Fresh
  /\ mine = NoRun
  /\ policy = TRUE
  /\ queued = <<>>
  /\ expired = <<>>
  /\ later = {}
  /\ orphans = {}
  /\ finished = {}
  /\ backlog = FALSE
  /\ owed = FALSE
  /\ late = 0
  /\ errors = 0
  /\ closings = 0
  /\ deaths = 0

Started == phase = "started"

-----------------------------------------------------------------------------
(* The life of a worker. *)

\* start(): once. Its wake() leaves the first poll to a microtask.
Start ==
  /\ phase = "new"
  /\ phase' = "started"
  /\ wakeRequested' = TRUE
  /\ tasks' = Append(tasks, "poll")
  /\ owed' = TRUE
  /\ UNCHANGED <<closing, draining, at, projections, commands, mine, policy,
                 rows, backlog, late, bounds>>

\* wake(), when the runtime has been told of new work.
Wake ==
  /\ Started
  /\ Len(tasks) < MaxTasks
  /\ wakeRequested' = TRUE
  /\ tasks' = Append(tasks, "poll")
  /\ owed' = TRUE
  /\ UNCHANGED <<phase, closing, draining, at, projections, commands, mine,
                 policy, rows, backlog, late, bounds>>

\* retire(): no new work, but what runs may end.
Retire ==
  /\ Started
  /\ closings < MaxClosings
  /\ phase' = "terminated"
  /\ closing' = "retiring"
  /\ wakeRequested' = FALSE
  /\ owed' = FALSE
  /\ late' = 0
  /\ closings' = closings + 1
  /\ UNCHANGED <<draining, tasks, at, projections, commands, mine, policy,
                 rows, backlog, errors, deaths>>

\* stop(): the same, and the signal aborts the handler. A worker that is
\* being retired may still be stopped.
Stop ==
  /\ \/ Started /\ closings < MaxClosings
     \/ closing = "retiring"
  /\ phase' = "terminated"
  /\ closing' = "stopping"
  /\ wakeRequested' = FALSE
  /\ owed' = FALSE
  /\ late' = IF Started THEN 0 ELSE late
  /\ closings' = IF Started THEN closings + 1 ELSE closings
  /\ UNCHANGED <<draining, tasks, at, projections, commands, mine, policy,
                 rows, backlog, errors, deaths>>

\* retire() and stop() resolve once the drain they await has ended.
Closed ==
  /\ closing \in {"retiring", "stopping"}
  /\ ~draining
  /\ closing' = "closed"
  /\ UNCHANGED <<phase, draining, tasks, wakeRequested, at, projections,
                 commands, mine, policy, rows, backlog, owed, late, bounds>>

\* The runtime gives the scope another worker.
Replace ==
  /\ closing = "closed"
  /\ tasks = <<>>
  /\ FreshWorker
  /\ UNCHANGED <<policy, rows, backlog, owed, late, bounds>>

\* The process dies and another one takes the scope.
Die ==
  /\ deaths < MaxDeaths
  /\ deaths' = deaths + 1
  /\ FreshWorker
  /\ orphans' = orphans \cup ({mine} \ {NoRun})
  /\ owed' = FALSE
  /\ UNCHANGED <<policy, queued, expired, later, finished, backlog, late,
                 errors, closings>>

-----------------------------------------------------------------------------
(* The drain. *)

\* A pass begins. Suspended work ends it, and the drain, at once.
BeginPass ==
  /\ wakeRequested' = FALSE
  /\ owed' = FALSE
  /\ at' = IF policy THEN "reconcile" ELSE "nowhere"

\* Mutant: a drain that finds the scope suspended does not end.
PollBodyStuck(rest) ==
  IF ~Started
  THEN /\ tasks' = rest
       /\ UNCHANGED <<draining, wakeRequested, at, owed>>
  ELSE IF draining
  THEN /\ tasks' = rest
       /\ wakeRequested' = TRUE
       /\ UNCHANGED <<draining, at, owed>>
  ELSE /\ draining' = TRUE
       /\ BeginPass
       /\ tasks' = rest

\* poll(), leaving rest of the microtasks: nothing once closed, another pass
\* for a drain that is there, or a drain.
PollBody(rest) ==
  IF ~Started
  THEN /\ tasks' = rest
       /\ UNCHANGED <<draining, wakeRequested, at, owed>>
  ELSE IF draining
  THEN /\ tasks' = rest
       /\ wakeRequested' = TRUE
       /\ UNCHANGED <<draining, at, owed>>
  ELSE /\ draining' = TRUE
       /\ BeginPass
       /\ tasks' = IF policy THEN rest ELSE Append(rest, "finally")

PollTask ==
  /\ tasks # <<>>
  /\ Head(tasks) = "poll"
  /\ PollBody(Tail(tasks))
  /\ UNCHANGED <<phase, closing, projections, commands, mine, policy, rows,
                 backlog, late, bounds>>

\* The interval timer, when no microtask is left.
Tick ==
  /\ tasks = <<>>
  /\ Started
  /\ PollBody(<<>>)
  /\ UNCHANGED <<phase, closing, projections, commands, mine, policy, rows,
                 backlog, late, bounds>>

\* finally() of the drain.
FinallyTask ==
  /\ tasks # <<>>
  /\ Head(tasks) = "finally"
  /\ draining' = FALSE
  /\ tasks' = Tail(tasks)
  /\ UNCHANGED <<phase, closing, wakeRequested, at, projections, commands, mine,
                 policy, rows, backlog, owed, late, bounds>>

MoreProjections(p) == ~p.drained /\ p.claims < MaxProjections
MoreCommands(c) == ~c.drained /\ c.claims < MaxClaims

\* The head of the inner loop.
LoopTop(p, c) ==
  IF Started /\ policy /\ (MoreProjections(p) \/ MoreCommands(c))
  THEN IF MoreProjections(p) THEN "projection" ELSE "command"
  ELSE "inspect"

\* The second half of the inner loop.
AfterProjection(p, c) ==
  IF Started /\ policy /\ MoreCommands(c) THEN "command" ELSE LoopTop(p, c)

\* reconcileTerminal has answered, or failed.
Reconciled ==
  /\ at = "reconcile"
  /\ \/ UNCHANGED errors
     \/ errors < MaxErrors /\ errors' = errors + 1
  /\ projections' = Fresh
  /\ commands' = Fresh
  /\ at' = LoopTop(Fresh, Fresh)
  /\ UNCHANGED <<phase, closing, draining, tasks, wakeRequested, mine, policy,
                 rows, backlog, owed, late, closings, deaths>>

ClaimedLate == late' = IF Started THEN late ELSE late + 1

\* processNextProjection: it delivers one, finds none, or fails.
ProjectionTurn ==
  /\ at = "projection"
  /\ \/ /\ backlog
        /\ backlog' \in BOOLEAN
        /\ projections' = [projections EXCEPT !.claims = @ + 1]
        /\ ClaimedLate
        /\ UNCHANGED errors
     \/ /\ ~backlog
        /\ projections' = [projections EXCEPT !.drained = TRUE]
        /\ UNCHANGED <<backlog, late, errors>>
     \/ /\ errors < MaxErrors
        /\ errors' = errors + 1
        /\ projections' = [projections EXCEPT !.drained = TRUE]
        /\ UNCHANGED <<backlog, late>>
  /\ at' = AfterProjection(projections', commands)
  /\ UNCHANGED <<phase, closing, draining, tasks, wakeRequested, commands, mine,
                 policy, rows, owed, closings, deaths>>

HasWork == expired # <<>> \/ queued # <<>>

\* Mutant: the newest queued row comes first.
CandidateNewest == IF expired # <<>> THEN Head(expired) ELSE queued[Len(queued)]

\* The row that claimEligibleRun takes: one whose lease is over before a
\* queued one, and each kind in the order of its time.
Candidate == IF expired # <<>> THEN Head(expired) ELSE Head(queued)

\* What is left of a queue once the runs of S have left it.
Without(q, S) ==
  LET kept[i \in 0 .. Len(q)] ==
        IF i = 0 THEN <<>>
        ELSE IF q[i] \in S THEN kept[i - 1] ELSE Append(kept[i - 1], q[i])
  IN  kept[Len(q)]

\* processNext has claimed a run and begins its handler.
ClaimCommand ==
  /\ at = "command"
  /\ policy
  /\ HasWork
  /\ mine' = Candidate
  /\ queued' = Without(queued, {Candidate})
  /\ expired' = Without(expired, {Candidate})
  /\ at' = "handler"
  /\ ClaimedLate
  /\ UNCHANGED <<phase, closing, draining, tasks, wakeRequested, projections,
                 commands, policy, later, orphans, finished, backlog, owed, bounds>>

\* processNext has claimed a run and finds the scope suspended: the run is
\* put back, available at once.
ClaimSuspended ==
  /\ at = "command"
  /\ ~policy
  /\ HasWork
  /\ queued' = Append(Without(queued, {Candidate}), Candidate)
  /\ expired' = Without(expired, {Candidate})
  /\ commands' = [commands EXCEPT !.claims = @ + 1]
  /\ at' = LoopTop(projections, commands')
  /\ ClaimedLate
  /\ UNCHANGED <<phase, closing, draining, tasks, wakeRequested, projections,
                 mine, policy, later, orphans, finished, backlog, owed, bounds>>

\* processNext finds no run, or its claim fails.
NoCommand ==
  /\ at = "command"
  /\ \/ ~HasWork /\ UNCHANGED errors
     \/ errors < MaxErrors /\ errors' = errors + 1
  /\ commands' = [commands EXCEPT !.drained = TRUE]
  /\ at' = LoopTop(projections, commands')
  /\ UNCHANGED <<phase, closing, draining, tasks, wakeRequested, projections,
                 mine, policy, rows, backlog, owed, late, closings, deaths>>

\* The handler has ended, by itself, at its deadline or because of the
\* signal: the run is finished or blocked, put back with a delay, or, when
\* the repository fails, left to its lease.
HandlerEnds ==
  /\ at = "handler"
  /\ \/ /\ finished' = finished \cup {mine}
        /\ commands' = [commands EXCEPT !.claims = @ + 1]
        /\ UNCHANGED <<later, orphans, errors>>
     \/ /\ later' = later \cup {mine}
        /\ commands' = [commands EXCEPT !.claims = @ + 1]
        /\ UNCHANGED <<finished, orphans, errors>>
     \/ /\ errors < MaxErrors
        /\ errors' = errors + 1
        /\ orphans' = orphans \cup {mine}
        /\ commands' = [commands EXCEPT !.drained = TRUE]
        /\ UNCHANGED <<later, finished>>
  /\ mine' = NoRun
  /\ at' = LoopTop(projections, commands')
  /\ UNCHANGED <<phase, closing, draining, tasks, wakeRequested, projections,
                 policy, queued, expired, backlog, owed, late, closings, deaths>>

\* Mutant: the request for another pass is dropped where the pass ends.
EndPassForgets ==
  /\ at = "inspect"
  /\ wakeRequested' = FALSE
  /\ at' = "nowhere"
  /\ tasks' = Append(tasks, "finally")
  /\ UNCHANGED <<phase, closing, draining, projections, commands, mine, policy,
                 rows, backlog, owed, late, bounds>>

\* getBlockedProjection has answered: another pass if one was asked for.
EndPass ==
  /\ at = "inspect"
  /\ IF Started /\ wakeRequested
     THEN /\ BeginPass
          /\ tasks' = IF policy THEN tasks ELSE Append(tasks, "finally")
     ELSE /\ at' = "nowhere"
          /\ tasks' = Append(tasks, "finally")
          /\ UNCHANGED <<wakeRequested, owed>>
  /\ UNCHANGED <<phase, closing, draining, projections, commands, mine, policy,
                 rows, backlog, late, bounds>>

-----------------------------------------------------------------------------
(* Everything else. *)

\* Another process admits a run, or a delay is over.
Arrive(r) ==
  /\ r \in later \/ r \notin Known
  /\ queued' = Append(queued, r)
  /\ later' = later \ {r}
  /\ UNCHANGED <<worker, policy, expired, orphans, finished, backlog, owed, late,
                 bounds>>

\* The lease of a run that nobody renews is over.
Expire(r) ==
  /\ r \in orphans
  /\ expired' = Append(expired, r)
  /\ orphans' = orphans \ {r}
  /\ UNCHANGED <<worker, policy, queued, later, finished, backlog, owed, late,
                 bounds>>

\* Terminal projections become due.
ProjectionsDue ==
  /\ ~backlog
  /\ backlog' = TRUE
  /\ UNCHANGED <<worker, policy, rows, owed, late, bounds>>

\* The runtime's authority over the scope is withdrawn or restored.
PolicyChanges ==
  /\ policy' = ~policy
  /\ UNCHANGED <<worker, rows, backlog, owed, late, bounds>>

DrainStep ==
  \/ Reconciled
  \/ ProjectionTurn
  \/ ClaimCommand
  \/ ClaimSuspended
  \/ NoCommand
  \/ HandlerEnds
  \/ EndPass

Microtask ==
  \/ PollTask
  \/ FinallyTask

Next ==
  \/ Start
  \/ Wake
  \/ Retire
  \/ Stop
  \/ Closed
  \/ Replace
  \/ Die
  \/ Microtask
  \/ Tick
  \/ DrainStep
  \/ \E r \in Runs : Arrive(r) \/ Expire(r)
  \/ ProjectionsDue
  \/ PolicyChanges

Spec == Init /\ [][Next]_vars

\* The event loop runs, the timer fires, handlers have deadlines, leases end,
\* delays are over, and a scope with work is given a worker.
Fairness ==
  /\ WF_vars(DrainStep)
  /\ WF_vars(Microtask)
  /\ WF_vars(Tick)
  /\ WF_vars(Closed)
  /\ WF_vars(Replace)
  /\ WF_vars(Start)
  /\ \A r \in Runs : WF_vars(r \in later /\ Arrive(r)) /\ WF_vars(Expire(r))

FairSpec == Spec /\ Fairness

-----------------------------------------------------------------------------
(* Properties. *)

\* A wake() is never lost: until a pass begins after it, a poll is still to
\* come or the drain has been asked for another pass.
WakeNotLost ==
  owed => \/ "poll" \in Elements(tasks)
          \/ at # "nowhere" /\ wakeRequested

\* When retire() or stop() has resolved, nothing of the worker runs: a worker
\* that replaces it in the same process shares no run with it.
ClosedIsQuiet ==
  closing = "closed" => ~draining /\ at = "nowhere" /\ mine = NoRun

\* A worker that was told to close makes at most the one claim that was in
\* flight.
OneLateClaim == late <= 1

\* A drain has one finally() to come, after its last await.
DrainShape ==
  /\ (at # "nowhere" => draining)
  /\ (draining <=> at # "nowhere" \/ "finally" \in Elements(tasks))
  /\ ~(at # "nowhere" /\ "finally" \in Elements(tasks))

\* Neither queue takes two turns while the other one, not yet found empty and
\* within its budget, waits for its own.
TurnsAlternate ==
  at \in {"projection", "command", "handler"} =>
    /\ MoreCommands(commands) => projections.claims <= commands.claims + 1
    /\ MoreProjections(projections) => commands.claims <= projections.claims

\* Every run that is in the queue is claimed in the end: not the projections,
\* nor the other runs, retried without end, keep it waiting, once the scope
\* stays permitted.
EveryRunIsClaimed ==
  \A r \in Runs :
    <>[]policy => ((r \in Elements(queued) \cup Elements(expired) \cup orphans)
                     ~> mine = r)

\* retire() and stop() resolve.
ClosingEnds == closing \in {"retiring", "stopping"} ~> closing \in {"closed", "open"}

\* A timer, wakes, drains, retirement and stop that overlap at every await: no
\* wake is lost, one drain runs at most, neither queue starves the other within
\* a pass, and a closed worker claims once at most and is quiet in the end.
LoopHolds ==
  TypeOK /\ WakeNotLost /\ ClosedIsQuiet /\ OneLateClaim /\ DrainShape /\ TurnsAlternate
=============================================================================
