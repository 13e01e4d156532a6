# Durable execution in Sancho: a verification project

Sancho runs long, expensive and externally visible work (chat turns, lead searches, partnership
discovery) as *durable executions*: rows of a PostgreSQL ledger that worker processes claim under
a lease, drive through handlers with declared external effects, and settle with an outcome the
product is told of exactly when it has been recorded. This directory models that core in TLA+,
checks it with TLC, and proves with TLAPS every safety property that a run checks. Paths are relative
to the repository.

## 1. Inventory

| component | state | operations | talks to |
|---|---|---|---|
| execution ledger `src/lib/execution-control/postgres.ts` | `execution_runs`: status, lease token and expiry, cancellation columns, output, handler attempts | create, claim, renew, checkpoint, requeue, block, resume, finish, request and acknowledge a cancellation, transition | every other component; one SQL statement per operation, database clock |
| terminal projection outbox (same file, `durable-execution/terminal-projection.ts`, `runtime.ts`) | `execution_terminal_projections`: state, lease, claim count, error code | insert with the settling statement, claim, renew, acknowledge, requeue, block, manual repair | ledger, engine, the product's `projectTerminal` |
| effect ledger and executor (`effect-executor.ts`, `effect-contract.ts`, `leased-worker.ts`) | `execution_effects`: status, attempts, retry time, last deadline, error code, receipt | prepare, invoke, complete, record failure, look up, exhaust, settle for a cancellation | ledger, engine, third-party providers |
| execution origins and Stop (`origin-cancellation.ts`, `pages/api/chat/cancel.ts`) | `execution_origins`, `execution_run_origins` | admit a child, claim for an external command, record a Stop, page over the children | ledger, chat |
| engine and worker loop (`runtime.ts`) | claimed receipts, drain flags, budgets | process a run or a projection, drain, wake, stop, retire | ledger, outbox, executor |
| worker capacity (`worker-capacity.ts`) | reservations, FIFO of demands, one yield | reserve, cancel, yield, release | runtimes of one process |
| scope discovery and supervisor (`scope-discovery.ts`) | managed workers, demanded scopes | full scan, retire, yield, start, shut down | runtimes, ledger |
| admission, registry, JSON contracts | none | validate, fingerprint, retry an ambiguous admission | ledger |
| chat agent turns `src/lib/chat/agent-turn-*.ts`, `pages/api/chat/` | dispatch row, AgentRun, cards of the thread | admit, claim, start, requeue, call back, complete, Stop | ledger, origins, mc-chat plugin, AgentRun registry |
| mc-chat plugin `plugins/mc-chat/src` | sessions, pending admissions, turns of a process | take a turn, run the model, post the reply | Mission Control over HTTP |
| AgentRun registry `src/lib/data/agent-runs-postgres.ts` | `agent_runs` and their events | create with a receipt, transition, claim a callback | chat, runtimes |
| durable chat deliveries `src/lib/data/mc-chat-durable-delivery.ts` | one immutable file per delivery | append | chat webhook, file system |
| runtime adapters `src/lib/runtime`, `docker/runtimes`, `scripts/sancho-local-connector.mjs` | sessions, jobs, child processes | pair, queue, claim, report, expire, revoke; spawn, stop, answer | people's computers, bridges |
| lead search `src/lib/leads/search-durable-worker.ts` | - | gate, admit, start the supervisor | ledger, origins, supervisor |
| SQL migrations `scripts/lib/tracked-sql-migrations.mjs` | tracking table, advisory lock, schema | preflight, apply, adopt | PostgreSQL, other deploys, operators |
| partnership discovery, product data, MCP server, publishing, metrics, support, web pages, other scripts, skills | product records | one record at a time | - |

Hard behaviours, by component (PROJECT.json lists every hazard with its line):

* *ledger*: stale lease tokens, a Stop racing a requeue, a block or a finish, administrative
  transitions that could strand a run, five statements that may settle one.
* *outbox*: an owner that dies or freezes, a callback interrupted before or after it wrote, late
  acknowledgements, the delivery limit, the repair of an incident.
* *effects*: a call whose answer is lost, a takeover while a call is under way, a lookup that is
  too early, the last attempt, a Stop of an ambiguous effect.
* *origins*: admission against Stop, paging over a set that changes, a fan-out that dies half way,
  a statement that mixes a fresh row with a stale snapshot.
* *capacity and supervisor*: FIFO heads nobody wants any more, stale scans, shutdown while awaiting.
* *worker loop*: a wake that arrives while a drain ends, a retirement while it awaits, a run that
  kills its worker again and again.
* *attempts*: a deadline, a missing dependency, a stranger of a rolling deploy, a Stop in each of them.
* *chat turns*: two attempts alive at once, callbacks that overtake each other, a Stop between two
  writes of a handler, crashes of either process.
* *connectors and bridges*: lost responses of a claim or a report, expiry under way, timers and
  streams that outlive what they belong to.
* *registry and admission*: a read in another statement than the insert it explains, aborted and
  repeated transactions, a gate that closes between its check and the admission.
* *deliveries and migrations*: power loss between two system calls, racing deploys with different
  files, lost answers to COMMIT, changes by hand.

What makes each correct is stated as the properties of its module (section 3).

## 2. Modules and plan

| module | models | built on |
|---|---|---|
| `RunLifecycle` | the abstract promise: absent, open, settled; the first stop request stands; a managed outcome is owed | - |
| `ExecutionLedger` | every statement on a run row | implements `RunLifecycle` |
| `TerminalProjection` | one outbox row and the processes that deliver it | the `projection` column of the ledger |
| `EffectExecution` | one effect, its provider, workers and a Stop | the fenced statements of the ledger |
| `ExecutionOrigin` | one origin, its children and Stop fan-outs | the life of a run as the ledger has it |
| `WorkerCapacity` (+ `MCWorkerCapacity`) | the slots and the FIFO of one process, its runtimes and their supervisors | - |
| `WorkerLoop` | the polling loop of one scope: drain, budgets, wake, retire, stop, death | the queue of the ledger |
| `HandlerAttempts` | what the engine makes of one run, claim after claim | the row of the ledger |
| `AgentTurn` | one durable chat turn across Mission Control and the plugin: composes a dispatch row, an AgentRun, the thread and the origin of a child | the statements of `ExecutionLedger`, the gate of `ExecutionOrigin` |
| `AtomicAdmission` | how such a turn is admitted by concurrent requests | - |
| `DirectTurn` | the turns of a thread that are not durable, with the session lane of the gateway | - |
| `DurableDelivery` | the publication of immutable delivery files | a file system that forgets what was not synced |
| `RunRegistry` | the abstract promise of the AgentRun registry | - |
| `PostgresRuns` | its statements in Postgres | implements `RunRegistry` |
| `LocalConnector` | pairing, queue and claims of people's computers | - |
| `RuntimeBridge` | one thread of a bridge that runs turns as child processes | - |
| `SearchAdmission` (+ `MCSearchAdmission`) | the admission of a lead search behind its gate, in processes of a rolling deploy | the ledger, the origin's command claim, the supervisor |
| `SqlMigrations` | racing runs of the tracked migrations | - |
| `MCExecutionLedger`, `MCEngine`, `MCChat`, `MCTurnsEnd`, `MCRuns`, `MCDirectTurn`, `MCWorkers` | what TLC checks, several components side by side (section 4) | the modules above |
| `ExecutionLedgerProofs` | proofs: the rows, the origins and the effects | `MCExecutionLedger` |
| `HandlerAttemptsProofs` | proofs: the attempts and the outbox | `MCEngine` |
| `WorkersProofs` | proofs: the slots, their tickets and the worker loop | `MCWorkers` |
| `ChatProofs` | proofs: admission, chat turn, deliveries and connectors | `MCChat` |
| `DirectTurnProofs` | proofs: the direct turns of a thread | `DirectTurn` |
| `RunsProofs` | proofs: the registry and the bridge | `MCRuns` |
| `SearchAdmissionProofs` | proofs: the admission of a lead search | `SearchAdmission` |
| `SqlMigrationsProofs` | proofs: the tracked migrations | `SqlMigrations` |

Order of the work, most important first: the ledger and its proof (every other part stands on its
fenced statements), the outbox, the effects, the origins, the capacity; then the loop and the engine
that drive them, the chat turns that are their main client, and what surrounds these (registry,
admission, deliveries, connectors, bridges, migrations). What is left, in this order:

1. Abstract specifications for the outbox (an obligation is delivered at least once, then for good),
   for the effect (at most one performance) and for the capacity (slots and a fair queue), as
   refinements in the style of `RunLifecycle` and `RunRegistry`.
2. The proofs of these refinements, step by step, from the inductive invariants of section 5, which
   already relate each record to what it stands for.
3. The phases of the partnership discovery and of a lead search (a durable discovery, its supervisor
   and the searches it starts), several effects of one handler.

## 3. Modules and code

Time is the time *left* until a timestamp of the database (`Elapsed`, `Tick`), so a state does not
grow with the clock. A lease token is named by the claim that issued it. Every `UPDATE ... WHERE` is
one atomic action whose guard is its `WHERE`.

**`ExecutionLedger`.** `run[r]` is the row: `status`, `lease` and `token`, `availableIn`, the pending
or acknowledged cancellation (`cancel`, `acked`), the claim whose output is stored, handler attempts,
and the outcome in the outbox (`projection`) of a managed run. There is an action for each statement, named
like its method: `CreateRun`, `Claim`, `RenewRunLease`, `CheckpointRun`, `RequeueRun`, `BlockRun`,
`FinishRun`, `AcknowledgeRunCancellation`, `RequestRunCancellation`, `ResumeBlockedRun`,
`TransitionRun`. The caller is anyone: the action takes any token ever issued, so a worker that was
frozen for hours is a caller like another. `Released`, `Settled` and `CancelledRow` are the three
column lists that the statements share.

**`TerminalProjection`.** `row` is the outbox row, `worker[w]` where a process stands between the
claim and the statement that ends it, `delivered` whether the product has the outcome. `Verdict` is
the decision of `processProjectionReceipt` before the callback (deliver, or park as exhausted);
`Pause`/`Unpause` freeze a process or kill and restart it at any step.

**`EffectExecution`.** `run` and `effect` are the two rows, `calls[n]` the provider's side of the n-th
attempt (never sent, in flight, applied, refused), `worker[w]` the program counter through
`executeEffect`, `invoke`, `recordInvocationFailure`, `reconcile` and the settling of the run.
`overrun` records the one thing the code cannot prevent: a call that is still under way when the
deadline written for it passes. The kinds of effect safety are initial choices.

**`ExecutionOrigin`.** `origin` is the origin row, `child[c]` the row of the c-th run in cursor order,
`stop[s]` a fan-out (receipt, page, requests, cursor), `claim[k]` the claim of an external command
between the moment its statement took its snapshot and the moment it got the row lock. The actions of the children
(claim, requeue, finish, cancel) are the ones of the ledger, reduced to the columns a fan-out reads.

**`WorkerCapacity`.** `demands` is the limiter's FIFO; `worker[k]` is the reservation and the
runtime's entry of a scope (no slot, polling, draining); `scan`, `seen`, `managed`, `missed`,
`demanded` and `stopping` are the supervisor's; `todo` is what the loop of the scan has left. The
start loop has no `await`, and nothing else of the process moves while it runs. A draining worker
keeps its slot until its loop has ended.

**`WorkerLoop`.** JavaScript runs one thing at a time, so an action is what runs between two awaits.
`tasks` is the microtask queue as far as the worker fills it (the polls of `wake`, the `finally` of a
drain), `at` the await of `drain()`, `projections` and `claims` the budgets of a pass, `closing` how
far a retirement or a stop is. `queue` is the order in which `claimEligibleRun` takes the rows; a
process that dies is followed by another (`Replace`), and the lease of its run expires later.

**`HandlerAttempts`.** `run` is the row (status, stop request, attempts, outcome owed), `worker[w]` the
claim a worker holds. One action per way out of `processReceipt`: `Succeed`, `Fail`, a deadline, a
missing dependency, an interruption, a stranger, an incompatible run, each with what the fenced
statement does when a Stop is pending. The version of the handler's contract is a constant: the first
one never looks for a Stop.

**`AgentTurn`.** `dispatch` is the ledger row of the turn, `parent` the AgentRun, `child` the durable run
the turn may start, `cards` and `prints` the thread and the fingerprints of callbacks. `mc[t]` is the
handler of Mission Control that acts with token `t`, `worker[t]` the plugin's turn that holds it, `stop`
the handler of `/api/chat/cancel`. A handler takes one step per await; its caller may give up and go
on. `CrashMC` and `CrashPlugin` end what their process runs, a stall lets a lease expire. `invoked` counts
how often the message went to the model: `Invoke`, and `InvokeAgain` when the transport broke before the
reader saw anything (`retried` is `transportAbortRetryUsed`; mc-chat/src/index.js 1459-1473). The plugin
asks neither the lease nor the durable turn before the second dispatch, so the model lets it happen after
the turn started a child, and after another worker took the turn over.

**`DirectTurn`.** `req`, `try` and `stop` are the handlers of Mission Control, `hand[r][n]` the gateway's
handler of the n-th delivery of a run, `cb[r][k]` the handler of the k-th post of its reply. The rows
survive a crash of Mission Control, nothing survives one of the gateway (`admission`, `turn`). A turn says
a reply, an error or nothing: when all that a turn delivered is filtered away (index.js 936) nothing is
posted, and the fallback (1480) keeps silent because a final text was counted (`EndsSilently`).

**`DurableDelivery`.** A call is a program counter over its system calls: directories made and synced
component by component, the temporary file written and synced, linked, read back. What was not synced
may be forgotten when the machine stops.

**`AtomicAdmission`.** A request draws an id, inserts parent and dispatch in one statement and then
reads, statement by statement, what it or another inserted. Turns end and processes die in between.

**`PostgresRuns`, `RunRegistry`.** `status`, `key` and `accepted` are the columns the promise is about;
`call[c]` is a create between its three statements. The refinement is the identity on these columns.
Events are written by the statement of their transition, and by `AppendEvent` without one: the handler of
`/api/chat/cancel` appends "cancel_requested" while a durable Stop waits (cancel.ts 168-182), and the run
may then end as anything.

**`LocalConnector`.** `session` and `job` are the store, `conn` the connectors that poll it. A call of
the store is one step, as in the code (a synchronous read, change and rename); between the calls
responses are lost and connectors die. **`RuntimeBridge`.** `slot` is the entry of a thread in
`activeRuns`; each child keeps the entry it was started with but looks the entry to answer for up by
its thread. `CancelThread` clears no timer, so `TimesOut` may come for a stopped child until it closes,
and a turn whose entry was taken while its context was fetched is started under a second one (`Second`).

**`SearchAdmission`.** `run` and `claimed` are the ledger, `up` and the supervisor's fields the processes,
a caller's place is the await it is at: receipt, rollout, readiness, command claim, ledger.

**`SqlMigrations`.** `schema` is what the verifier of each migration reports of the committed catalog,
`tracked` the checksum of each row, `lock` the advisory lock, `at` the transaction a runner is in. The
SQL of a transaction is in `found` until its commit publishes schema and row together. `Touch` and
`DropTable` are an operator's.

## 4. Runs

A run checks one *area* of the system. Where an area has several components that share no state in
their models, its MC module extends one, instantiates the others, and adds a variable `part` (`scene`
in `MCSearchAdmission`) that is chosen in the initial state and names the component that moves; the
others stay as they began. The states of such a run are the sum of the components' and not their
product, and a property of one component is checked in exactly the behaviours that component has by
itself. A part may narrow a component further where two cases are interesting apart and large together
(two Stops of three children, or two commands; one fault or two jobs; a second fault or a broken transport); the actions that do so are named
and commented in the MC module. Fairness is conjoined for each part's steps, and a liveness property of
a component is stated of its part.

A property of a run is a conjunction of named parts, each a definition of its component's module with a
comment of its own: `RowsHold`, for instance, is `TypeOK`, `SchemaShapes`, `NoStrandedRun` and
`OutboxMatchesOutcome` of `ExecutionLedger`.

| run and its properties | shows | bounds and why they are enough |
|---|---|---|
| `ledger`: `RowsHold`, `OutputNeverRegresses`, `ImplementsLifecycle`; `StopsHold`; `EffectHolds`; `SettledStands` | *runs*: row shapes, no stranded run, an outbox row exactly for a settled managed run, no regress of the output, refinement of `RunLifecycle`. *stops*, *commands*: a Stop that reported success left no child open; nothing behind its cursor; the first Stop and the first command win. *effect*: a reconciled effect is performed once, records are truthful and final, a worker acknowledges a Stop only when settled | one managed and one unmanaged run (rows do not interact), two claims per run so that a stale token exists, two cancellation ids so that a second Stop exists (the proofs lift every bound); three children and pages of two, so that a fan-out has a second page and an admission can fall before, on or behind it; two workers and two attempts of the effect: a takeover and a retry, and a timeout longer than a lease, so that a call outlives the claim that sent it; one pause |
| `origin_adoption`: `ChildrenNeverAdopted` | the finding | one command, two children |
| `capacity`: `WorkersWithinCapacity`, `TicketsHold`; `RunnableServed`, `ShutdownEnds` | slots, tickets and shutdown; every runnable scope is served; shutdown returns | a product with two scopes and one with a single scope compete for one slot, so two always wait and both kinds of yield occur; one failed scan; one product shuts down. Slots and tickets are proved for every number |
| `engine`: `AttemptsHold`, `OutboxHolds`; `AttemptsEnd`, `DeliveryEnds`, `EffectEnds` | *attempts*: a run fails only when it deserves it, no Stop is lost in a block, outcomes are owed, a Stop ends, a run settles. *outbox*: truthful and final delivery, bounded deliveries, every obligation delivered or parked. *effect*: a Stop and a run come to an end | two workers with the handler, a stranger and a blocker; two attempts: one is the last; two setbacks. Two processes, a limit of three deliveries, two pauses (one owner lost while the next is frozen), one repair. One worker of the effect, restarted twice, lookups that fail twice |
| `worker_loop`: `LoopHolds`; `EveryRunIsClaimed`, `ClosingEnds` | no wake is lost, a closed worker is quiet and claims at most once late, runs and projections alternate; every queued run is claimed, behind one that kills its worker too; closings end | two runs; budgets of one claim and one projection, so that a pass ends by its budget and by an empty queue; two of an error, a closing and a death at a time |
| `chat`: `AdmissionHolds`, `FreshAttempt`; `TurnHolds`; `DeliveryHolds`; `ConnectorHolds`; `WrittenStays` | *admission*: a run has its dispatch, a key one holder, one request accepts. *turn*: the message goes to the model from one turn of the plugin, which sends it twice at most; no side tells the user what the other contradicts. *delivery*: acknowledged deliveries are kept, whole and the first writer's. *connector*: a job runs once per claim, records name who took it | two requests, two bodies (alike), three ids (each draws one and one again), a crash; two tokens: a new attempt with the old one still alive, two faults, or one and a broken transport; three calls, two keys and two messages, a path of two components; two sessions, two jobs or a job and a fault, one claim that goes stale under a *slow* connector (one that died is reopened without bound) |
| `turns_end`: `TurnsEnd` | a durable turn settles in the ledger and in the thread; a direct turn ends, unless it had nothing to say or the mark of a Stop took its reply | one fault of the durable turn or a broken transport; two direct turns of one thread with a lost message or a Stop, of either run at any moment (both in one behaviour make the graph too large for its liveness check); no process dies (it leaves a row that nothing ends, observation 7) |
| `direct_turn`: `ThreadHolds`, `EndIsFinal` | one lane, one reply card, ends are final | two runs, alike up to a permutation; two tries of a delivery and two posts of a reply, where the code has three each: first and last; one loss; a crash or a Stop |
| `runs`: `RegistryHolds`, `ReceiptIsWinner`, `RegistrySpec`; `BridgeHolds`, `TakenNotLost`; `AcceptedEnds` | *creates*, *callbacks*: one winner per key, events tell statuses (a Stop on record does not), receipts, refinement of `RunRegistry`, a create gets its receipt. *connector*: accepted jobs end. *bridge*: no turn is answered twice; each is, unless a person stopped it, until the timer of a stopped one rings, and then no more answers are missing than stopped turns have spoken; the thread frees | two clients and three ids, one key and none, one broken connection; two fingerprints kept where the code keeps 100, four accepted; two connectors and a job; four messages: one in the thread, two that meet it, one after |
| `search`: `AnswersHold`, `CreatedAsClaimed` | *turn*, *twice*: nothing is created outside the gate, beside the claim of the turn or after its Stop; one creator of an id, receipts are the caller's own | two agent calls of one turn in two processes with every environment, one death, one failed scan; three callers of one id, two of them for one search |
| `search_served`: `AdmittedIsServed`, `AnsweredWhereOn` | *served*: admitted searches are carried out. *answered*: callers are answered | one request, two processes that may boot with the rollout withdrawn; a request and an agent call where the rollout is on; one death, one failed scan, one block |
| `migrations`: `HistoryHolds`, `RunnersRely`; `RunnerEnds` | SQL takes effect once, rows stand for schemas, no mixed history, success is complete, each deploy is done or refused | two deploys that apply, one with an edited file, and one that adopts; three migrations, a fault and two things done by hand, dropping the table among them |

Besides the sets of actors, ids and keys, the constants bound what a clock or a count could do: leases,
delays and timeouts are small numbers of ticks (`LeaseTerm`, `MaxDelay`; `EffectLease`, `EffectTimeout`;
`DeliveryLease`, `DeliveryDelay`), attempts, deliveries and pages are limits the code has (`MaxAttempts`,
`EffectAttempts`, `DeliveryClaims`, `PageSize`, `Kept`), and the rest says how often something happens
that could happen for ever (`MaxClaims`, `MaxPauses`, `MaxUnresolved`, `DeliveryPauses`, `Resumes`,
`MaxSetbacks`, `MaxFaults`, `MaxCrashes`, `MaxJobs`, `MaxReopens`, `MaxLosses`, `ConnectorFaults`,
`MaxMessages`, `MaxAccepted`). `Depth` is the length of the path of a delivery file. The theorems of
section 5 hold for all their values.

Every property of a passing run has a mutant in its module: a definition, marked "Mutant" and used
nowhere, that changes a modelled definition the way a bug in that code would. Substituted for the
original it makes TLC find that property violated.

Deadlock is not checked where a settled row leaves nothing to do, that is in every run except
`capacity` and `worker_loop`.

### Fairness

* `TerminalProjection` and `EffectExecution`: weak fairness of the clock, of claiming (workers poll),
  of the steps of a worker that is not paused (handler, effect and statement timeouts bound every
  await), and of the restart of a paused one (the containers restart). Pauses are bounded; a worker
  that is killed for ever and again proves nothing about the code. The provider is not fair.
* `WorkerCapacity`: strong fairness of each supervisor's scan (an interval timer starts it, the event
  loop continues it) and of the end of a drain (a handler has a deadline). Strong, because the start
  loop of another supervisor disables these steps for a moment, again and again. Failed scans, and
  changes in the database, are not fair and need not happen.
* The ledger and the origins state safety only.
* `WorkerLoop`: weak fairness of the drain's steps, of microtasks, of the poll timer, of a closing that
  waits, and of a new process after a death.
* `HandlerAttempts`: weak fairness of the steps of a claim (each await has a deadline), strong fairness
  of claiming for each worker that has the handler (each polls, and the row leaves and enters the queue
  again and again), and expiry of a lease nobody attends.
* `AgentTurn`: handlers, turns, polls and expiries go on, and the user presses Stop again when it was
  cut off (`StopAgain`), which the page offers. Nothing else ends such a turn (observation 6).
* `DirectTurn`: requests, handlers, turns, posts and Stops go on; nothing obliges a caller to retry.
* `RuntimeBridge`: the context pack comes and a child ends or is killed by its timer.
* `LocalConnector`: connectors that are on go on, and the clock makes a claim stale that nobody carries;
  `AcceptedEnds` is, of jobs, about behaviours in which some connector is on, with a pairing that has not run out, again
  and again.
* `PostgresRuns`: statements are answered, and a create that threw is called again.
* `SearchAdmission`: timers and scans end, workers serve a scope again and again (strong, deaths
  disable them), operators resume blocked runs, callers ask until they are answered.
* `SqlMigrations`: a runner that can go on does, and a deploy that failed is started again. That
  is weak fairness: a waiting runner gets the lock because the others are done after finitely many
  transactions.

### Finding and observations

The run `origin_adoption` shows a disagreement between a comment and the code:
`claimExecutionOriginCommand` can adopt an origin that has a child, when the child is admitted while
the claim waits for the row lock: the row is read afresh, the `NOT EXISTS` over the children is not.

What follows was seen in the models while they were written. No run is kept for it; the properties above
are stated so that they hold with it, and each says where.

1. `requeueRun` and `resumeBlockedRun` return an active run to `queued`; the comment of the lifecycle
   guard says that active runs never do. The comment holds of `transitionRun` only.
2. Repairing a projection that was blocked because its claims were exhausted keeps the claim count:
   the next claim parks it again before the product's callback runs.
3. A Stop cancels a queued run at once, and says so, while an effect of it is ambiguous; a Stop of a
   running run is acknowledged only after the lookup (`StopAcknowledgedWhenSettled`, in `SettledStands`, is of the latter).
4. A failed scan cancels its supervisor's tickets, as the catch block means it to; an older comment
   of the same function says they are preserved.
5. A callback that was authorised before a Stop, or stalls past its lease, still writes its card: a turn
   may show two last cards, or one after it was cancelled (`EndIsVisible`, in `TurnHolds`, asks for one of the right kind).
6. Mission Control dies between cancelling a queued dispatch and cancelling its AgentRun: no worker
   claims a cancelled dispatch, so nothing ends the run until Stop is pressed again.
7. Mission Control dies before it posts a direct turn: the row stays queued and holds its key, so
   `TurnsEnd` is, of direct turns, about behaviours without such a death.
8. A post that times out after the gateway began the turn tells the reader that nothing was started.
9. The "/stop" of a direct turn carries no run id, the plugin refuses it, and the turn goes on.
10. The cancel marker belongs to the thread: it drops the reply of a run that nobody stopped, and that run
    stays active (`Discarded`, in `TurnsEnd`).
11. A Stop clears no timer (bridge.mjs 467, 544). That of a stopped child may ring before its close, in the
    second between SIGTERM and SIGKILL or later when its streams outlive it: it posts for the stopped turn
    and takes the entry of the thread's next turn, which then ends unanswered. Where such a timer has
    spoken, `EndedWasAnswered` and `OneChildPerThread` say nothing (`StopsAreSilent`) and `TakenNotLost`
    bounds the loss.
12. A connector that is on stops being served when its *pairing* is a quarter of an hour old.
13. When the report that a turn was dispatched is lost or refused, the thread is told that the turn
    could not be run, while the bridge runs it.
14. Under the first contract (`ContractV2 = FALSE`) a Stop of a running run refuses its requeue and its
    end and is never acknowledged; the handler runs again whenever the lease expires.
15. When the answer to COMMIT is lost, the migration runner reports a rollback of what is committed.
16. A broken transport sends the message of a durable turn to the model a second time, also when the turn
    has begun durable work, or when another worker has taken it over and told the reader that it was lost
    (`InvokedByOneTurn`, in `TurnHolds`, allows one repetition by the turn that sent it).
17. A direct turn whose only words are filtered away ends without a post, and its run stays running
    (`says[r] = "nothing"`, in `TurnsEnd`).

## 5. Proofs

Every invariant and every action property that a passing run checks, and both refinements, are theorems:
for all values of the constants, from the assumption its module states of them and no other (bounds are
naturals, positive where the code divides work by them; sets that are counted are finite; `None` and its
like are not among the values they are told apart from). Each proof has the same shape: an inductive
invariant, a lemma that `Init` gives it, a lemma per action or group of actions that the step keeps it,
and theorems that draw the run's property from it. Each invariant was first checked by TLC, on the run's
instance or a larger one; the numbers below are the distinct states of that check.

A theorem about `Spec` of a component covers more than its run does, since an MC module narrows the
component (`OriginMoves`), adds bounds or permutes model values. `EachAlone`, `EachPart` and `LoopMoves`
say that a behaviour of the MC module is one of each component, so that `ChatHolds`, `RunsHold` and
`LoopHoldsAlways` speak of the run too.

**`ExecutionLedgerProofs`**, rows: `RowsHold`, `OutputNeverRegresses` and `ImplementsLifecycle`, from
`LedgerAssumption`. They are not inductive on their own. `OutputNeverRegresses`, for instance, needs that
the only token that passes the fence is the one of the latest claim (`token = claims`) and that the stored
output is of no later claim (`output <= claims`); `SchemaShapes` needs that a pending cancellation
occurs on running rows only, or a requeue would carry it into the queue; and no statement may find a lease
on a queued or blocked row, or the next claim could be taken from nobody. `IInv` is `TypeOK` and one
predicate `Shape` per row, the conjunction of these facts. A statement writes one row, so the others keep
what they had (`Write`).

*Origins*: `StopsHold` and the origin's part of `SettledStands`. What `StopCoversChildren` needs besides
`NothingBehindCursor` is that a fan-out that has started has left its receipt (`StartedIsRecorded`), so no
child is admitted behind the cursor from then on; that between two pages nothing of the page is left to
ask for (`PageAskedFor`); and that a page read as the last was the last (`LastPageIsLast`), although the
set of children grew and shrank before.

*Effects*: `EffectHolds` and the rest of `SettledStands`. `EffectInv` says of each worker what it knows
whether or not its lease is alive (`Held`: the attempt it holds was granted, its call was not made before
the send), what the row says while its lease is alive (`Current`), that no two workers hold one attempt
(`OneHolder`), and relates calls to deadlines: unless a call outlived its deadline, only the last attempt
may be in flight, and not after its deadline (`CallsInTime`). A row that says that an effect succeeded,
failed for good, or was not found by a lookup promises that the last attempt is not sent any more
(`Sealed`, in `RowPromises`). That is why a reconciled effect is performed once.

**`HandlerAttemptsProofs`**: `AttemptsHold` for any number of workers of each kind and any limits.
Attempts are never given back, so a decision taken on the attempts that were read still stands when the
statement is reached; a block reads the Stop in the statement that writes it. *Outbox*: `OutboxHolds` and
`DeliveredForGood`. A worker's token is of a claim that was made, its callback only on one below the
limit, its acknowledgement only of what the product has (`Claimed`); the row is fenced by its last claim
(`LastClaimOwns`), and a claim has one holder (`OneClaimant`). `DeliveriesBounded` follows because an
offer is counted behind the claim it needs.

**`WorkersProofs`**, slots: `WorkersWithinCapacity` (`CapacityAssumption`: finitely many scopes, each a
product and a natural; at least one slot). A slot is taken by `StartWorker` alone, behind a look at the
free ones; the difficulty is that `RetireNext` and `Yield` write `draining` for a scope that is merely
*managed*, which would make a worker out of nothing if its worker had gone. So `IInv` adds `ManagedPolls`
(a managed scope has a polling worker, or it is the one the scan awaits, unless the product shuts down),
`RetiresManaged` (the retirement loop walks over managed scopes) and `OwnScopes` (products do not touch
each other's).

*Tickets*: `TicketsHold`. `TInv` adds to `IInv` that the queue has no scope twice (`OneTicketEach`), that
every worker, a draining one included, is in its supervisor's map (`WorkersManaged`), that a yield hands
over one managed worker, and what a supervisor that stops still does: its start loop is empty, and once it
has stopped it manages nothing (748,416 states, with two slots and both products stopping).

*Worker loop*: `LoopHolds`, for all budgets. `LoopInv` says where a wake that no pass has begun after is
kept: in the flag the drain looks at, or in the poll that ends the microtasks (`WakeComes`); that one
drain runs, in `drain()` or in its `finally`, never both (`Shape`); what a closing worker still has
(`Phases`, `Lateness`); and how the two budgets stand to each other at the awaits of each queue
(`ProjectionNext`, `CommandNext`) (1,910,628 states, budgets of two and three).

What `Without` leaves of a queue is an induction over its length. The induction theorems of the library
take an operator and are out of reach, so `WithoutIs` shows that the naturals at which the recursive
function fails its equation have no least member (`WellFoundedInduction`: `WFMin`), and `WithoutFacts`
derives members and duplicates from that. `StopCoversChildren` descends along the cursor in the same way.

**`ChatProofs`**, admission: `AdmissionHolds` and `FreshAttempt`. An id belongs to the one request that
drew it, so of all requests that see a run exactly one finds its own id in it; and what a request has
found is bound to its body.

*Turn*: `TurnHolds`. The order of the proof is the order of the turn: while a claim is decided nobody has
started under it (`OneAtATime`); a holder that may still commit finds the dispatch uncommitted
(`CommitsOnce`), nobody is on the way to the model before the commit (`NoneBeforeCommit`); after it one
holder is at most, while the message has not been sent, and then one holder has sent it, as often as its
retry says (`OnceCommitted`), which gives `InvokedByOneTurn`. Whoever shows the
turn as cancelled has seen the child settled behind the Stop (`StopWaits`), whoever ends it otherwise has
told its reader (`ReaderTold`), whoever completes the dispatch has seen it ended (`EndSeen`) (1,381,920
states, two tokens and two faults).

*Deliveries*: `DeliveryHolds`. `PathOnDisk`, `Named` and `Achieved` say what of directory, file and name
is on the disk at each system call, `Judged` what the answer of a call says of the record in place: what
was synced before the link is what a reader finds after the power was lost (7,456 states).
*Connectors*: `ConnectorHolds`. A connector that has a job in hand is at one of the steps that carry it
(`CarriesItsJob`), and the runs of a job, with those about to be sent, are no more than its claims
(`EachClaimOnce`); a job is given up once per slow connector, fault or lost session (`ReopensBounded`)
(299,348 states). `WrittenStays` follows from both.

**`DirectTurnProofs`**: `ThreadHolds` and `EndIsFinal`. One lane (`OneLane`); an admission counts the
turns of a run, so that the gateway starts another only if it has forgotten the first
(`AdmissionStands`); the card of a reply is there before its run is marked, and is one (`CardStands`)
(3,529,267 states).

**`RunsProofs`**: `RegistryHolds`, `ReceiptIsWinner` and the refinement `Spec => RegistrySpec`
(`RegistryAssumption`: no key is `NoKey`, no id is "none", at least one fingerprint is kept). What the
inductive invariant adds: a call's id is its own until it is inserted, a run id without a row has no
data, and the fingerprints a row keeps are the last `Kept` of those it has accepted, which is what makes
a forgotten fingerprint old enough for `RunRegistry`. *Bridge*: `BridgeHolds`.
`PostedOnce` holds always: a turn's child answers for it once, whoever's entry it takes. As long as no
stopped turn has spoken, `TurnStands` ties, turn by turn, the entry of the thread to the child: a child
that works has the entry; one that works without it was told to die, by a Stop, and nothing was posted for
it, or by its timer, and its failure was. That this is an invariant although a stopped turn may speak
later needs that what was said stays said (`SilentBefore`). `TakenNotLost` is not inductive: before a turn
ends without an answer its entry has long been taken. `DebtInv` counts the turns that wait, work or have
ended and are owed an answer (`Owed`): they are no more than the stopped turns that spoke, and the one that
has the thread (`Held`). Each step leaves the count, pays or takes an answer, or is a message that comes to
a free thread (`KindsOfSteps`), because no entry is used again (`EntriesUsedOnce`) (86,539 states).

**`SearchAdmissionProofs`**: `AnswersHold` and `CreatedAsClaimed`. Each caller is at an await between two
statements, so the invariant says of each place what its caller still relies on there: a claim never
changes, a receipt's command never changes, a process's supervisor was ready once and stays started until
the process dies, which ends its callers too.

**`SqlMigrationsProofs`**: `HistoryHolds` for any number of runners and migrations, though an operator
drops the tracking table, and `RunnersRely`, which speaks of the time before the table was ever dropped
(`dropped`; afterwards TLC has counterexamples: a runner between two transactions relies on rows that are
gone). The invariant says that who is past the lock holds it, what a runner has seen in its transaction
still holds or was touched by hand, and that rows before the one a runner is at are of its own files.

Only model-checked, because the prover cannot treat fairness: `RunnableServed`, `ShutdownEnds`,
`AttemptsEnd`, the eventual half of `DeliveryEnds`, `EffectEnds`, `EveryRunIsClaimed`, `ClosingEnds`, `TurnsEnd`,
`AcceptedEnds`, `AdmittedIsServed`, `AnsweredWhereOn` and `RunnerEnds`. They hold of the instances of
section 4, and that these are large enough is argued there and not proved.

## 6. Not modelled

* The event log of a ledger run, the paged reads and the inspector: they change nothing.
* Several effects of one handler and capability suspension outside the runners.
* Keyset paging of a scope discovery (one read here), the readiness reports and counters.
* Validation, canonical JSON and fingerprints: pure functions of their input, in reach of unit tests.
* `WorkerLoop`: a scheduler whose `setInterval` throws, and the health counters.
* `DirectTurn`: the synchronous final text (Hermes, and the text "/stop"), the minute a pending
  admission lives, the retry of an aborted transport (`turns` counts the gateway's turns of a run, each of
  which may send its message twice; `AgentTurn` has the retry), the watchdog's suppression.
* `AtomicAdmission`: more than one key; keys never meet.
* `RuntimeBridge` is the Claude Code bridge, which Codex and Hermes are built like; other threads, progress
  posts and the delivery of the webhook are left out. `LocalConnector` has one provider and one bridge
  per connector; installation and script routes are left out.
* `HandlerAttempts`: the effects of a handler, which have settled (`EffectExecution` has them).
* `SqlMigrations`: splitting and policy checks of SQL, dry runs, the catalog expectations of each
  verifier; the table is dropped between transactions only.
* `PostgresRuns`: the JSON repository (development only), the check of the thread, outputs and errors;
  `update`, which writes a status without an event (agent-runs-postgres.ts 250-269): its only way in,
  `updateAgentRunAsync`, has no caller; events that name no status (progress, artifacts read back).
* `SearchAdmission`: one scope; injected bundles, credentials, the provider's effect and its projection.
* Partnership discovery, product data, MCP tools, publishing, metrics, outreach and support: product
  features over one record or one third-party call at a time. Web pages, prompts and the remaining
  scripts have no control logic of their own.
