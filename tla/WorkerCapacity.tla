---------------------------- MODULE WorkerCapacity ----------------------------
(***************************************************************************)
(* One process, several products.  Each product has a durable execution    *)
(* runtime (runtime.ts) and a scope supervisor (scope-discovery.ts), and   *)
(* all of them share one capacity limiter (worker-capacity.ts): at most    *)
(* MaxWorkers workers, and one FIFO of tickets for the scopes that wait.   *)
(*                                                                         *)
(* A scan reads the runnable scopes, drops stale tickets, retires workers  *)
(* whose scope was absent from two scans in a row, hands at most one slot  *)
(* over when somebody waits, and then starts or wakes a worker for every   *)
(* scope it saw.  The process is single threaded: between two awaits a     *)
(* scan is not interrupted, so the start loop, whose iterations are steps  *)
(* here, runs with everything else held (Quiet).  The other synchronous    *)
(* stretches that are more than one step gain interleavings by it and lose *)
(* none.                                                                   *)
(*                                                                         *)
(* The scopes of two products are disjoint, each operation being           *)
(* registered by one of them, so the limiter never meets a competing owner *)
(* of the same scope and DurableExecutionWorkerScopeReservedError and      *)
(* DuplicateDurableExecutionWorkerError do not arise.  The limiter's       *)
(* reservation of a scope and the runtime's entry for it change in the     *)
(* same synchronous code and are one variable.                             *)
(***************************************************************************)
EXTENDS Naturals, Sequences, FiniteSets

CONSTANTS Products,        \* the products: leads, partnerships
          Scopes,          \* the exact scopes, each <<product, place in key order>>
          MaxWorkers,      \* slots of the process
          MaxFailures,     \* bound: failed scans in a behaviour
          Stoppable        \* bound: the products that may be shut down

ASSUME CapacityAssumption ==
    /\ Scopes \subseteq Products \X Nat
    /\ IsFiniteSet(Scopes)
    /\ MaxWorkers \in Nat \ {0}
    /\ MaxFailures \in Nat
    /\ Stoppable \subseteq Products

Owner(k) == k[1]
Owned(p) == {k \in Scopes : Owner(k) = p}

VARIABLES
    runnable,   \* the scopes with runnable work in PostgreSQL
    demands,    \* the limiter's FIFO of tickets
    worker,     \* a scope's slot: free, a polling worker, one that drains
    scan,       \* where the supervisor's scan stands
    seen,       \* the runnable scopes this scan read
    managed,    \* the scopes whose worker the supervisor started
    missed,     \* the managed scopes absent from the last full scan
    demanded,   \* the tickets the supervisor believes it holds
    todo,       \* what is left of the scan's current loop
    stopping,   \* shutdown() was called
    failures    \* failed scans so far (bounded)

vars == <<runnable, demands, worker, scan, seen, managed, missed, demanded,
          todo, stopping, failures>>

own == <<seen, managed, missed, demanded, todo>>

\* Where a scan can be: not running, reading the database, in possession of
\* the runnable set, in the retirement loop, awaiting a retirement, awaiting
\* the drain of the worker it yielded, in the start loop; or shut down.
ScanStates == {"idle", "discovering", "listed", "retiring", "retire_wait",
               "yield_wait", "starting", "stopped"}

TicketSet == {demands[i] : i \in 1..Len(demands)}

\* Mutant: a slot is free again as soon as its worker is asked to stop.
OccupiedPolling == {k \in Scopes : worker[k] = "polling"}

\* Every slot in use, a draining worker's included.
Occupied == {k \in Scopes : worker[k] # "none"}

\* enqueueDemand: a ticket keeps its place when it is asked for again.
Enqueue(q, k) == IF \E i \in 1..Len(q) : q[i] = k THEN q ELSE Append(q, k)

\* removeDemand, for every ticket of a set.
Without(q, S) ==
    LET kept[i \in 0 .. Len(q)] ==
          IF i = 0 THEN <<>>
          ELSE IF q[i] \in S THEN kept[i - 1] ELSE Append(kept[i - 1], q[i])
    IN  kept[Len(q)]

\* The supervisors walk their scopes in key order.
Lowest(S) == CHOOSE k \in S : \A j \in S : k[2] <= j[2]

\* No other supervisor is inside the uninterrupted start loop.
Quiet(p) == \A q \in Products \ {p} : scan[q] # "starting"
AllQuiet == \A q \in Products : scan[q] # "starting"

Init ==
    /\ runnable = {}
    /\ demands = <<>>
    /\ worker = [k \in Scopes |-> "none"]
    /\ scan = [p \in Products |-> "idle"]
    /\ seen = [p \in Products |-> {}]
    /\ managed = [p \in Products |-> {}]
    /\ missed = [p \in Products |-> {}]
    /\ demanded = [p \in Products |-> {}]
    /\ todo = [p \in Products |-> {}]
    /\ stopping = [p \in Products |-> FALSE]
    /\ failures = 0

-----------------------------------------------------------------------------
(* The database: work for a scope arrives, or its last runnable run ends. *)

ScopeChanges(k) ==
    /\ runnable' = IF k \in runnable THEN runnable \ {k} ELSE runnable \cup {k}
    /\ UNCHANGED <<demands, worker, scan, own, stopping, failures>>

-----------------------------------------------------------------------------
(* A scan. *)

\* The interval timer, or wakeOrScan: a scan in flight is shared.
BeginScan(p) ==
    /\ Quiet(p)
    /\ scan[p] = "idle"
    /\ ~stopping[p]
    /\ scan' = [scan EXCEPT ![p] = "discovering"]
    /\ UNCHANGED <<runnable, demands, worker, own, stopping, failures>>

\* The runnable pages are read; the pages of blocked scopes, which only feed
\* the readiness report, are still to come, so the set may be stale when used.
ReadScopes(p) ==
    /\ Quiet(p)
    /\ scan[p] = "discovering"
    /\ seen' = [seen EXCEPT ![p] = runnable \cap Owned(p)]
    /\ scan' = [scan EXCEPT ![p] = "listed"]
    /\ UNCHANGED <<runnable, demands, worker, managed, missed, demanded, todo,
                   stopping, failures>>

\* Mutant: the supervisor forgets its tickets without cancelling them.
FailScanForgets(p) ==
    /\ Quiet(p)
    /\ scan[p] \in {"discovering", "listed"}
    /\ failures < MaxFailures
    /\ failures' = failures + 1
    /\ UNCHANGED demands
    /\ demanded' = [demanded EXCEPT ![p] = {}]
    /\ missed' = [missed EXCEPT ![p] = {}]
    /\ seen' = [seen EXCEPT ![p] = {}]
    /\ scan' = [scan EXCEPT ![p] = "idle"]
    /\ UNCHANGED <<runnable, worker, managed, todo, stopping>>

\* A page cannot be read: the supervisor gives up all its tickets, so that a
\* dead head never blocks another product, and forgets the absences it counted.
FailScan(p) ==
    /\ Quiet(p)
    /\ scan[p] \in {"discovering", "listed"}
    /\ failures < MaxFailures
    /\ failures' = failures + 1
    /\ demands' = Without(demands, demanded[p])
    /\ demanded' = [demanded EXCEPT ![p] = {}]
    /\ missed' = [missed EXCEPT ![p] = {}]
    /\ seen' = [seen EXCEPT ![p] = {}]
    /\ scan' = [scan EXCEPT ![p] = "idle"]
    /\ UNCHANGED <<runnable, worker, managed, todo, stopping>>

\* The full scan drops the tickets of scopes no longer runnable and counts the
\* absences of managed ones; the second absence in a row retires the worker.
AbsorbScan(p) ==
    LET absent == managed[p] \ seen[p]
    IN  /\ Quiet(p)
        /\ scan[p] = "listed"
        /\ demands' = Without(demands, demanded[p] \ seen[p])
        /\ demanded' = [demanded EXCEPT ![p] = @ \cap seen[p]]
        /\ IF stopping[p]
           THEN UNCHANGED <<missed, todo>>
           ELSE /\ missed' = [missed EXCEPT ![p] = absent]
                /\ todo' = [todo EXCEPT ![p] = absent \cap missed[p]]
        /\ scan' = [scan EXCEPT ![p] = "retiring"]
        /\ UNCHANGED <<runnable, worker, seen, managed, stopping, failures>>

\* retireWorker: the worker stops claiming and finishes what it holds.
RetireNext(p) ==
    LET k == Lowest(todo[p])
    IN  /\ Quiet(p)
        /\ scan[p] = "retiring"
        /\ ~stopping[p]
        /\ todo[p] # {}
        /\ worker' = [worker EXCEPT ![k] = "draining"]
        /\ scan' = [scan EXCEPT ![p] = "retire_wait"]
        /\ UNCHANGED <<runnable, demands, own, stopping, failures>>

\* The await of retireWorker returns; a shutdown meanwhile ends the loop.
RetireDone(p) ==
    LET k == Lowest(todo[p])
    IN  /\ Quiet(p)
        /\ scan[p] = "retire_wait"
        /\ worker[k] = "none"
        /\ managed' = [managed EXCEPT ![p] = @ \ {k}]
        /\ missed' = [missed EXCEPT ![p] = @ \ {k}]
        /\ todo' = [todo EXCEPT ![p] = IF stopping[p] THEN {} ELSE @ \ {k}]
        /\ scan' = [scan EXCEPT ![p] = "retiring"]
        /\ UNCHANGED <<runnable, demands, worker, seen, demanded, stopping,
                       failures>>

\* Mutant: a worker whose scope is runnable is never handed over.
YieldableNever(p) == managed[p] \cap {}

\* The managed workers that claimFairnessYield lets p hand over: somebody
\* waits, no slot is free, and no worker is already on its way out.
Yieldable(p) ==
    IF /\ demands # <<>>
       /\ Cardinality(Occupied) >= MaxWorkers
       /\ \A k \in Scopes : worker[k] # "draining"
    THEN managed[p] \cap seen[p]
    ELSE {}

\* yieldWorker: the scope queues at the tail and its worker retires.
Yield(p) ==
    LET k == Lowest(Yieldable(p))
    IN  /\ Quiet(p)
        /\ scan[p] = "retiring"
        /\ todo[p] = {}
        /\ ~stopping[p]
        /\ Yieldable(p) # {}
        /\ demands' = Enqueue(demands, k)
        /\ worker' = [worker EXCEPT ![k] = "draining"]
        /\ todo' = [todo EXCEPT ![p] = {k}]
        /\ scan' = [scan EXCEPT ![p] = "yield_wait"]
        /\ UNCHANGED <<runnable, seen, managed, missed, demanded, stopping,
                       failures>>

\* Mutant: the shutdown that came during the await is not seen.
YieldDoneStarts(p) ==
    LET k == Lowest(todo[p])
    IN  /\ Quiet(p)
        /\ scan[p] = "yield_wait"
        /\ worker[k] = "none"
        /\ managed' = [managed EXCEPT ![p] = @ \ {k}]
        /\ missed' = [missed EXCEPT ![p] = @ \ {k}]
        /\ demanded' = [demanded EXCEPT ![p] = @ \cup {k}]
        /\ todo' = [todo EXCEPT ![p] = seen[p] \ {k}]
        /\ scan' = [scan EXCEPT ![p] = "starting"]
        /\ UNCHANGED <<runnable, demands, worker, seen, stopping, failures>>

\* The yielded scope is left out of this scan's starts; a supervisor that
\* began to stop starts nothing.
YieldDone(p) ==
    LET k == Lowest(todo[p])
    IN  /\ Quiet(p)
        /\ scan[p] = "yield_wait"
        /\ worker[k] = "none"
        /\ managed' = [managed EXCEPT ![p] = @ \ {k}]
        /\ missed' = [missed EXCEPT ![p] = @ \ {k}]
        /\ demanded' = [demanded EXCEPT ![p] = @ \cup {k}]
        /\ todo' = [todo EXCEPT ![p] =
                       IF stopping[p] THEN {} ELSE seen[p] \ {k}]
        /\ scan' = [scan EXCEPT ![p] = "starting"]
        /\ UNCHANGED <<runnable, demands, worker, seen, stopping, failures>>

SkipYield(p) ==
    /\ Quiet(p)
    /\ scan[p] = "retiring"
    /\ \/ stopping[p]
       \/ todo[p] = {} /\ Yieldable(p) = {}
    /\ todo' = [todo EXCEPT ![p] = IF stopping[p] THEN {} ELSE seen[p]]
    /\ scan' = [scan EXCEPT ![p] = "starting"]
    /\ UNCHANGED <<runnable, demands, worker, seen, managed, missed, demanded,
                   stopping, failures>>

-----------------------------------------------------------------------------
(* The start loop, scope by scope. *)

Turn(p, k) ==
    /\ scan[p] = "starting"
    /\ todo[p] # {}
    /\ k = Lowest(todo[p])
    /\ todo' = [todo EXCEPT ![p] = @ \ {k}]
    /\ UNCHANGED <<runnable, scan, seen, stopping, failures>>

\* The scope has a worker: it is woken, and a ticket left over is cancelled.
Wake(p, k) ==
    /\ Turn(p, k)
    /\ worker[k] = "polling"
    /\ demands' = Without(demands, {k})
    /\ demanded' = [demanded EXCEPT ![p] = @ \ {k}]
    /\ UNCHANGED <<worker, managed, missed>>

\* reserve grants a slot only to the head of the queue.
Granted(k) ==
    /\ Cardinality(Occupied) < MaxWorkers
    /\ Head(Enqueue(demands, k)) = k

StartWorker(p, k) ==
    /\ Turn(p, k)
    /\ worker[k] = "none"
    /\ Granted(k)
    /\ demands' = Without(demands, {k})
    /\ demanded' = [demanded EXCEPT ![p] = @ \ {k}]
    /\ worker' = [worker EXCEPT ![k] = "polling"]
    /\ managed' = [managed EXCEPT ![p] = @ \cup {k}]
    /\ missed' = [missed EXCEPT ![p] = @ \ {k}]

\* DurableExecutionWorkerCapacityError: the scope keeps, or takes, a ticket.
DeferScope(p, k) ==
    /\ Turn(p, k)
    /\ worker[k] = "none"
    /\ ~Granted(k)
    /\ demands' = Enqueue(demands, k)
    /\ demanded' = [demanded EXCEPT ![p] = @ \cup {k}]
    /\ managed' = [managed EXCEPT ![p] = @ \ {k}]
    /\ missed' = [missed EXCEPT ![p] = @ \ {k}]
    /\ UNCHANGED worker

EndScan(p) ==
    /\ scan[p] = "starting"
    /\ todo[p] = {}
    /\ seen' = [seen EXCEPT ![p] = {}]
    /\ scan' = [scan EXCEPT ![p] = "idle"]
    /\ UNCHANGED <<runnable, demands, worker, managed, missed, demanded, todo,
                   stopping, failures>>

-----------------------------------------------------------------------------
(* Workers and shutdown. *)

\* The worker's loop has ended: only now is its slot released.
WorkerDrains(k) ==
    /\ AllQuiet
    /\ worker[k] = "draining"
    /\ worker' = [worker EXCEPT ![k] = "none"]
    /\ UNCHANGED <<runnable, demands, scan, own, stopping, failures>>

\* shutdown(): the tickets of managed and demanded scopes are cancelled at
\* once and every managed worker is stopped, even one that was retiring.
BeginShutdown(p) ==
    /\ AllQuiet
    /\ p \in Stoppable
    /\ ~stopping[p]
    /\ stopping' = [stopping EXCEPT ![p] = TRUE]
    /\ demands' = Without(demands, managed[p] \cup demanded[p])
    /\ demanded' = [demanded EXCEPT ![p] = {}]
    /\ worker' = [k \in Scopes |->
                     IF k \in managed[p] /\ worker[k] = "polling"
                     THEN "draining" ELSE worker[k]]
    /\ UNCHANGED <<runnable, scan, seen, managed, missed, todo, failures>>

\* The scan in flight has settled and every stopped worker has drained.
EndShutdown(p) ==
    /\ Quiet(p)
    /\ stopping[p]
    /\ scan[p] = "idle"
    /\ \A k \in managed[p] : worker[k] = "none"
    /\ demands' = Without(demands, demanded[p])
    /\ demanded' = [demanded EXCEPT ![p] = {}]
    /\ managed' = [managed EXCEPT ![p] = {}]
    /\ missed' = [missed EXCEPT ![p] = {}]
    /\ scan' = [scan EXCEPT ![p] = "stopped"]
    /\ UNCHANGED <<runnable, worker, seen, todo, stopping, failures>>

ScanStep(p) ==
    \/ BeginScan(p) \/ ReadScopes(p) \/ AbsorbScan(p)
    \/ RetireNext(p) \/ RetireDone(p)
    \/ Yield(p) \/ YieldDone(p) \/ SkipYield(p)
    \/ \E k \in Owned(p) : Wake(p, k) \/ StartWorker(p, k) \/ DeferScope(p, k)
    \/ EndScan(p)

Next ==
    \/ \E k \in Scopes : ScopeChanges(k) \/ WorkerDrains(k)
    \/ \E p \in Products : \/ ScanStep(p)
                           \/ FailScan(p)
                           \/ BeginShutdown(p)
                           \/ EndShutdown(p)

\* The interval timer and the event loop run every supervisor again and again;
\* a retired worker finishes, its handler having a deadline.  Strong fairness,
\* because the other supervisors' start loops hold these steps up now and then.
Fairness ==
    /\ \A p \in Products : SF_vars(ScanStep(p) \/ EndShutdown(p))
    /\ \A k \in Scopes : SF_vars(WorkerDrains(k))

Spec == Init /\ [][Next]_vars

FairSpec == Spec /\ Fairness

-----------------------------------------------------------------------------
(* Properties. *)

\* Every variable has its type; in particular the queue is bounded by the
\* number of scopes, since asking again for a ticket never adds one.
TypeOK ==
    /\ runnable \subseteq Scopes
    /\ demands \in Seq(Scopes)
    /\ Len(demands) <= Cardinality(Scopes)
    /\ worker \in [Scopes -> {"none", "polling", "draining"}]
    /\ scan \in [Products -> ScanStates]
    /\ \A f \in {seen, managed, missed, demanded, todo} :
           f \in [Products -> SUBSET Scopes]
    /\ stopping \in [Products -> BOOLEAN]
    /\ failures \in 0..MaxFailures

\* Workers that are alive, the draining ones included, never exceed the slots,
\* whatever starts, yields, retirements and shutdowns overlap.
WorkersWithinCapacity ==
    Cardinality({k \in Scopes : worker[k] \in {"polling", "draining"}})
        <= MaxWorkers

\* A scope with a polling worker holds no place in the queue: it would take a
\* second slot's turn from a scope that has none.
NoTicketWhileServed == \A k \in TicketSet : worker[k] # "polling"

\* Every ticket has a supervisor that will use or cancel it: it is among those
\* the supervisor knows of, or its worker is being yielded this moment.
NoOrphanTicket ==
    \A k \in TicketSet :
        LET p == Owner(k)
        IN  k \in demanded[p] \/ (scan[p] = "yield_wait" /\ k \in todo[p])

\* A supervisor that is shutting down queues for nothing from the moment it
\* begins, although a scan of its own may still be retiring or yielding.
StoppingHoldsNoTicket ==
    \A k \in TicketSet : ~stopping[Owner(k)]

\* When shutdown() returns, nothing of the product is left in the process.
StoppedLeavesNothing ==
    \A p \in Products : scan[p] = "stopped" =>
        \A k \in Owned(p) : worker[k] = "none" /\ k \notin TicketSet

\* A ticket in the FIFO is one somebody will use or cancel: of a scope without a
\* worker, kept by a supervisor that is not shutting down; and a supervisor that
\* has shut down leaves neither tickets nor workers.
TicketsHold ==
    TypeOK /\ NoTicketWhileServed /\ NoOrphanTicket /\ StoppingHoldsNoTicket /\ StoppedLeavesNothing

\* One scope never keeps another out for ever: a scope that stays runnable is
\* served again and again, however many scopes compete for the slots, unless
\* its product shuts down.
RunnableServed ==
    \A k \in Scopes :
        []<>(k \notin runnable \/ worker[k] = "polling" \/ stopping[Owner(k)])

\* shutdown() returns.
ShutdownEnds == \A p \in Products : stopping[p] ~> scan[p] = "stopped"
=============================================================================
