-------------------------- MODULE SearchAdmission --------------------------
(***************************************************************************)
(* lib/leads/search-durable-worker.ts and search-agent-bridge.ts: how a    *)
(* lead search is admitted to the ledger and how the process that admits   *)
(* it runs its workers.  A request looks for a receipt, then at the        *)
(* rollout, then at the readiness of the process's scope supervisor, then  *)
(* (from an agent) claims the one command of its chat turn, and only then  *)
(* reaches the ledger; anything may happen in between.  Processes of a     *)
(* rolling deploy have different environments; each dies and boots again;  *)
(* scans of the scopes fail; runs are blocked until an operator resumes    *)
(* them.  The ledger is the one of ExecutionLedger, reduced to what an     *)
(* admission and a supervisor see of it.                                   *)
(***************************************************************************)
EXTENDS Integers, FiniteSets, TLC

CONSTANTS
  Processes, Callers,
  Requests,      \* request ids; an agent's is derived from its chat turn
  Turns,         \* the requests that come from an agent
  Asks,          \* Asks[c]: the request and the command of a caller
  Environments,  \* the environments a process may boot with
  MaxDeaths, MaxFailedScans, MaxBlocks  \* bounds

ASSUME SearchAssumption ==
  /\ Turns \subseteq Requests
  /\ \A c \in Callers : Asks[c].request \in Requests /\ Asks[c].command # "nothing"
  /\ Environments \subseteq [boot : BOOLEAN, rollout : BOOLEAN] /\ Processes # {}
  /\ MaxDeaths \in Nat /\ MaxFailedScans \in Nat /\ MaxBlocks \in Nat

VARIABLES
  run,       \* the ledger: the command and status of each request's run
  turn,      \* of each agent's turn: the command it claimed, whether it was stopped
  env,       \* the environment each process has booted with
  sup,       \* the scope supervisor of each process
  worker,    \* whether each process has a worker for the scope
  caller,    \* where each caller is, and in which process
  deaths, failed, blocks

ledger == <<run, turn>>
vars   == <<run, turn, env, sup, worker, caller, deaths, failed, blocks>>

Nothing == "nothing"
Runnable == {"queued", "running"}
Commands == {Asks[c].command : c \in Callers}

Booted == [boot : BOOLEAN, rollout : BOOLEAN]

TypeOK ==
  /\ run \in [Requests -> [command : Commands \cup {Nothing}, status : {"absent", "queued", "running", "blocked", "done"}]]
  /\ turn \in [Turns -> [command : Commands \cup {Nothing}, stopped : BOOLEAN]]
  /\ env \in [Processes -> Booted]
  /\ sup \in [Processes -> [started : BOOLEAN, scan : {"no", "reading", "sees", "sees nothing"},
                            succeeded : BOOLEAN, error : BOOLEAN, blocked : BOOLEAN]]
  /\ worker \in [Processes -> BOOLEAN]
  /\ caller \in [Callers -> [at : {"away", "lookup", "rollout", "start", "gate", "claim", "sticky", "admit",
                                   "created", "replayed", "conflict", "refused"},
                             process : Processes]]
  /\ \A p \in Processes : worker[p] => sup[p].started
  /\ \A q \in Requests : (run[q].status = "absent") = (run[q].command = Nothing)

Off == [started |-> FALSE, scan |-> "no", succeeded |-> FALSE, error |-> FALSE, blocked |-> FALSE]

Init ==
  /\ run = [q \in Requests |-> [command |-> Nothing, status |-> "absent"]]
  /\ turn = [q \in Turns |-> [command |-> Nothing, stopped |-> FALSE]]
  /\ env \in [Processes -> Environments] /\ sup = [p \in Processes |-> Off]
  /\ worker = [p \in Processes |-> FALSE]
  /\ caller = [c \in Callers |-> [at |-> "away", process |-> CHOOSE p \in Processes : TRUE]]
  /\ deaths = 0 /\ failed = 0 /\ blocks = 0

At(c, place) == caller[c].at = place
Go(c, place) == caller' = [caller EXCEPT ![c].at = place]
Asked(c) == run[Asks[c].request]
Home(c)  == caller[c].process
Bounds   == UNCHANGED <<deaths, failed, blocks>>

----------------------------------------------------------------------------
(* admitLeadsSearch.                                                       *)

(* A request arrives at some process; one that got no answer comes again.  *)
Ask(c) ==
  /\ At(c, "away")
  /\ \E p \in Processes : caller' = [caller EXCEPT ![c] = [at |-> "lookup", process |-> p]]
  /\ UNCHANGED <<ledger, env, sup, worker>> /\ Bounds

(* A receipt that exists is sticky: rollout and readiness are not asked.   *)
Lookup(c) ==
  /\ At(c, "lookup")
  /\ \/ Asked(c).status = "absent" /\ Go(c, "rollout")
     \/ Asked(c).status # "absent" /\ Asked(c).command # Asks[c].command /\ Go(c, "conflict")
     \/ Asked(c).status # "absent" /\ Asked(c).command = Asks[c].command /\ Go(c, "sticky")
  /\ UNCHANGED <<ledger, env, sup, worker>> /\ Bounds

(* With the worker switched off a sticky receipt is answered from what was *)
(* read, and nothing is woken.                                             *)
Sticky(c) ==
  /\ At(c, "sticky")
  /\ Go(c, IF Asks[c].request \in Turns THEN "claim"
           ELSE IF env[Home(c)].boot THEN "admit" ELSE "replayed")
  /\ UNCHANGED <<ledger, env, sup, worker>> /\ Bounds

(* resolveLeadsSearchPolicy, and the boot flag.                            *)
Rollout(c) ==
  /\ At(c, "rollout")
  /\ Go(c, IF env[Home(c)].rollout /\ env[Home(c)].boot THEN "start" ELSE "refused")
  /\ UNCHANGED <<ledger, env, sup, worker>> /\ Bounds

Started == [Off EXCEPT !.started = TRUE, !.scan = "reading"]

(* startLeadsSearchWorkers: the supervisor starts with its timer and a     *)
(* first scan, which is waited for and whose failure is swallowed.         *)
Start(p) == IF sup[p].started THEN UNCHANGED sup ELSE sup' = [sup EXCEPT ![p] = Started]

StartWorkers(c) ==
  /\ At(c, "start")
  /\ Start(Home(c)) /\ Go(c, "gate")
  /\ UNCHANGED <<ledger, env, worker>> /\ Bounds

(* The readiness of the supervisor: a full scan has succeeded, the last    *)
(* one did not fail and it saw nothing blocked.                            *)
Ready(p) == sup[p].started /\ sup[p].succeeded /\ ~sup[p].error /\ ~sup[p].blocked

(* The first scan has ended; the answer is the readiness of the moment.    *)
Gate(c) ==
  /\ At(c, "gate") /\ (sup[Home(c)].scan # "no" => sup[Home(c)].succeeded \/ sup[Home(c)].error)
  /\ Go(c, IF Ready(Home(c)) THEN "claim" ELSE "refused")
  /\ UNCHANGED <<ledger, env, sup, worker>> /\ Bounds

(* claimExecutionOriginCommand: a turn that was stopped commands nothing,  *)
(* and one that has a command has no other.  A turn of a disabled worker   *)
(* that only replays answers after its claim.                              *)
Claim(c) ==
  /\ At(c, "claim")
  /\ LET q == Asks[c].request
     IN IF q \notin Turns
        THEN Go(c, "admit") /\ UNCHANGED turn
        ELSE \/ /\ turn[q].stopped
                /\ Go(c, "refused") /\ UNCHANGED turn
             \/ /\ ~turn[q].stopped /\ turn[q].command \notin {Nothing, Asks[c].command}
                /\ Go(c, "conflict") /\ UNCHANGED turn
             \/ /\ ~turn[q].stopped /\ turn[q].command \in {Nothing, Asks[c].command}
                /\ turn' = [turn EXCEPT ![q].command = Asks[c].command]
                /\ Go(c, IF env[Home(c)].boot THEN "admit" ELSE "replayed")
  /\ UNCHANGED <<run, env, sup, worker>> /\ Bounds

(* wakeLeadsSearchWorker, a hint: workers are started where there are none, *)
(* otherwise a worker is woken or a scan asked for.                        *)
Wake(p) ==
  IF ~sup[p].started THEN Start(p)
  ELSE sup' = [sup EXCEPT ![p].scan = IF @ = "no" /\ ~worker[p] THEN "reading" ELSE @]

(* Mutant: the ledger does not look at the turn again.                     *)
NeverStopped(q) == FALSE

(* A turn that was stopped.                                                *)
Stopped(q) == q \in Turns /\ turn[q].stopped

(* Mutant: the run is inserted without a look for one of the same request. *)
AdmitBlindly(c) ==
  /\ At(c, "admit")
  /\ run' = [run EXCEPT ![Asks[c].request] = [command |-> Asks[c].command, status |-> "queued"]]
  /\ Go(c, "created") /\ Wake(Home(c))
  /\ UNCHANGED <<turn, env, worker>> /\ Bounds

(* admitDurableExecutionV2: the run of the request is created, or it is    *)
(* there with the same command, or with another; a turn that was stopped   *)
(* since its claim creates nothing.                                        *)
Admit(c) ==
  /\ At(c, "admit")
  /\ \/ /\ Asked(c).status = "absent" /\ Stopped(Asks[c].request)
        /\ Go(c, "refused") /\ UNCHANGED <<run, sup>>
     \/ /\ Asked(c).status = "absent" /\ ~Stopped(Asks[c].request)
        /\ run' = [run EXCEPT ![Asks[c].request] = [command |-> Asks[c].command, status |-> "queued"]]
        /\ Go(c, "created") /\ Wake(Home(c))
     \/ /\ Asked(c).status # "absent" /\ Asked(c).command = Asks[c].command
        /\ Go(c, "replayed") /\ UNCHANGED run /\ Wake(Home(c))
     \/ /\ Asked(c).status # "absent" /\ Asked(c).command # Asks[c].command
        /\ Go(c, "conflict") /\ UNCHANGED <<run, sup>>
  /\ UNCHANGED <<turn, env, worker>> /\ Bounds

(* A refused request may be asked again.                                   *)
AskAgain(c) ==
  /\ At(c, "refused") /\ ~Stopped(Asks[c].request)
  /\ Go(c, "away")
  /\ UNCHANGED <<ledger, env, sup, worker>> /\ Bounds

(* The user stops an agent's turn.                                         *)
Stop(q) ==
  /\ ~turn[q].stopped
  /\ turn' = [turn EXCEPT ![q].stopped = TRUE]
  /\ run' = [run EXCEPT ![q].status = IF @ = "queued" THEN "done" ELSE @]
  /\ UNCHANGED <<env, sup, worker, caller>> /\ Bounds

----------------------------------------------------------------------------
(* The supervisor and the worker of a process.                             *)

(* instrumentation.ts: a process that may have workers starts them.        *)
Boot(p) ==
  /\ env[p].boot /\ ~sup[p].started
  /\ Start(p)
  /\ UNCHANGED <<ledger, env, worker, caller>> /\ Bounds

(* The timer, or a wake, asks for a scan; one in flight is shared.         *)
BeginScan(p) ==
  /\ sup[p].started /\ sup[p].scan = "no"
  /\ sup' = [sup EXCEPT ![p].scan = "reading"]
  /\ UNCHANGED <<ledger, env, worker, caller>> /\ Bounds

(* The runnable scopes are read.                                           *)
ReadScopes(p) ==
  /\ sup[p].scan = "reading"
  /\ sup' = [sup EXCEPT ![p].scan = IF \E q \in Requests : run[q].status \in Runnable THEN "sees" ELSE "sees nothing"]
  /\ UNCHANGED <<ledger, env, worker, caller>> /\ Bounds

(* Mutant: a complete scan does not clear the error of the one before it.  *)
EndScanKeepingError(p) ==
  /\ sup[p].scan \in {"sees", "sees nothing"}
  /\ sup' = [sup EXCEPT ![p] = [@ EXCEPT !.scan = "no", !.succeeded = TRUE,
                                         !.blocked = \E q \in Requests : run[q].status = "blocked"]]
  /\ worker' = [worker EXCEPT ![p] = @ \/ sup[p].scan = "sees"]
  /\ UNCHANGED <<ledger, env, caller>> /\ Bounds

(* Mutant: only tenants of the rollout get workers.                        *)
EndScanOfRollout(p) ==
  /\ sup[p].scan \in {"sees", "sees nothing"}
  /\ sup' = [sup EXCEPT ![p] = [@ EXCEPT !.scan = "no", !.succeeded = TRUE, !.error = FALSE]]
  /\ worker' = [worker EXCEPT ![p] = sup[p].scan = "sees" /\ env[p].rollout]
  /\ UNCHANGED <<ledger, env, caller>> /\ Bounds

(* The scan is complete: a scope that was seen has its worker, one that    *)
(* was not may lose it, and what is blocked degrades the supervisor.       *)
EndScan(p) ==
  /\ sup[p].scan \in {"sees", "sees nothing"}
  /\ sup' = [sup EXCEPT ![p] = [@ EXCEPT !.scan = "no", !.succeeded = TRUE, !.error = FALSE,
                                         !.blocked = \E q \in Requests : run[q].status = "blocked"]]
  /\ \E keeps \in BOOLEAN :
       worker' = [worker EXCEPT ![p] = sup[p].scan = "sees" \/ (@ /\ keeps)]
  /\ UNCHANGED <<ledger, env, caller>> /\ Bounds

(* The scan fails; the supervisor goes on with its timer.                  *)
FailScan(p) ==
  /\ sup[p].scan # "no" /\ failed < MaxFailedScans
  /\ sup' = [sup EXCEPT ![p].scan = "no", ![p].error = TRUE]
  /\ failed' = failed + 1
  /\ UNCHANGED <<ledger, env, worker, caller, deaths, blocks>>

Become(q, from, to) == run[q].status = from /\ run' = [run EXCEPT ![q].status = to]

Serve(p, q) ==
  /\ worker[p] /\ (Become(q, "queued", "running") \/ Become(q, "running", "done"))
  /\ UNCHANGED <<turn, env, sup, worker, caller>> /\ Bounds

(* A run is blocked, and an operator resumes it.                           *)
Block(q) ==
  /\ blocks < MaxBlocks /\ Become(q, "running", "blocked") /\ blocks' = blocks + 1
  /\ UNCHANGED <<turn, env, sup, worker, caller, deaths, failed>>

ResumeRun(q) ==
  /\ Become(q, "blocked", "queued")
  /\ UNCHANGED <<turn, env, sup, worker, caller>> /\ Bounds

(* A process dies and boots with another environment; its requests get no  *)
(* answer and come again.                                                  *)
Die(p) ==
  /\ deaths < MaxDeaths /\ deaths' = deaths + 1
  /\ \E e \in Environments : env' = [env EXCEPT ![p] = e]
  /\ sup' = [sup EXCEPT ![p] = Off] /\ worker' = [worker EXCEPT ![p] = FALSE]
  /\ caller' = [c \in Callers |->
       IF Home(c) = p /\ caller[c].at \notin {"created", "replayed", "conflict", "refused"}
       THEN [caller[c] EXCEPT !.at = "away"] ELSE caller[c]]
  /\ UNCHANGED <<ledger, failed, blocks>>

Request(c) ==
  Lookup(c) \/ Sticky(c) \/ Rollout(c) \/ StartWorkers(c) \/ Gate(c) \/ Claim(c) \/ Admit(c)

Supervise(p) == Boot(p) \/ BeginScan(p) \/ ReadScopes(p) \/ EndScan(p)

Next ==
  \/ \E c \in Callers : Ask(c) \/ Request(c) \/ AskAgain(c)
  \/ \E p \in Processes : Supervise(p) \/ FailScan(p) \/ Die(p)
  \/ \E p \in Processes, q \in Requests : Serve(p, q)
  \/ \E q \in Requests : Block(q) \/ ResumeRun(q)
  \/ \E q \in Turns : Stop(q)

Spec == Init /\ [][Next]_vars

(* Timers fire and scans end, workers work, operators resume what is       *)
(* blocked, and callers ask until they are answered.                       *)
FairSpec ==
  /\ Spec
  /\ \A p \in Processes : WF_vars(Supervise(p))
  /\ \A q \in Requests : SF_vars(\E p \in Processes : Serve(p, q)) /\ WF_vars(ResumeRun(q))
  /\ \A c \in Callers : WF_vars(Ask(c)) /\ WF_vars(Request(c)) /\ WF_vars(AskAgain(c))

----------------------------------------------------------------------------
(* A receipt is for the caller's own command, and one caller at most is    *)
(* told that it created the run: whichever processes two requests with one *)
(* id meet in, and however often they are asked again.                     *)
ReceiptsAreTheCallersOwn ==
  /\ \A c \in Callers : caller[c].at \in {"created", "replayed"} => Asked(c).command = Asks[c].command
  /\ \A c, d \in Callers : At(c, "created") /\ At(d, "created") /\ Asks[c].request = Asks[d].request => c = d

(* Processes that die, wake, degrade and change their rollout between a     *)
(* caller's steps never make it take another's answer for its own.         *)
AnswersHold == TypeOK /\ ReceiptsAreTheCallersOwn

(* search-durable-worker.ts:973: the ledger gets a new run only in a       *)
(* process with the rollout on, the worker on and a full scan that         *)
(* succeeded; the sticky path never creates one.                           *)
CreatedBehindGate ==
  [][\A c \in Callers : ~At(c, "created") /\ caller'[c].at = "created" =>
       env[Home(c)].rollout /\ env[Home(c)].boot /\ sup[Home(c)].succeeded]_vars

(* A turn has at most the one search it claimed, and after its Stop none   *)
(* is created, although the claim and the creation are apart.              *)
TurnCreatesItsClaim ==
  [][\A q \in Turns : run[q].status = "absent" /\ run'[q].status # "absent" =>
       ~turn[q].stopped /\ run'[q].command = turn[q].command]_vars

(* Between its look at the gate, its claim and its admission a caller      *)
(* awaits, and the process and the turn change: a run is created behind    *)
(* the gate, and only as the turn claimed it.                              *)
CreatedAsClaimed == CreatedBehindGate /\ TurnCreatesItsClaim

(* What was admitted is carried out, although the rollout is withdrawn,    *)
(* processes die, scans fail and runs are blocked for a while: the scans   *)
(* of the ledger decide, not the wake of the request.                      *)
AdmittedIsServed == \A q \in Requests : (run[q].status = "queued") ~> (run[q].status = "done")

(* A caller that asks until it is answered is answered, when every process *)
(* has the rollout on: a degraded supervisor refuses for a while only.     *)
CallersAreAnswered ==
  \A c \in Callers : <>(caller[c].at \in {"created", "replayed", "conflict"} \/ Stopped(Asks[c].request))

=============================================================================
