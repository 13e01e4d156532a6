----------------------------- MODULE HandlerAttempts -----------------------------
(***************************************************************************)
(* What DurableExecutionEngine.processReceipt makes of one run, claim      *)
(* after claim: workers whose registry has the handler, workers that do    *)
(* not know it and workers that find the run incompatible; a handler that  *)
(* succeeds, fails, overruns its deadline, misses a dependency or is       *)
(* interrupted; the attempts it has; and a Stop at any moment. The run's   *)
(* row is the part of ExecutionLedger the engine decides on; effects are   *)
(* in EffectExecution and have all settled here.                           *)
(***************************************************************************)
EXTENDS Integers

CONSTANTS
  Runners,      \* workers that have the handler
  Strangers,    \* workers that do not know it (a rolling deploy)
  Blockers,     \* workers that find the run incompatible
  None,
  ContractV2,   \* whether the handler has the second contract version
  MaxAttempts,  \* maxAttempts of the engine
  MaxSetbacks   \* bound of the model: leases lost at work, interruptions,
                \* missing dependencies, suspensions and resumptions

Workers == Runners \cup Strangers \cup Blockers

ASSUME AttemptsAssumption ==
  /\ None \notin Workers
  /\ Runners \cap (Strangers \cup Blockers) = {} /\ Strangers \cap Blockers = {}
  /\ ContractV2 \in BOOLEAN
  /\ MaxAttempts \in Nat \ {0} /\ MaxSetbacks \in Nat

VARIABLES
  status, cancel,   \* the run's status, and whether a Stop is requested
  holder,           \* the worker whose lease is alive
  owed,             \* whether its outcome is owed to the product
  attempt,          \* handler_attempt, as far as maxAttempts tells it apart
  pc, error,        \* each worker: where it is, what the handler threw
  cause,            \* what made the run fail
  setbacks

row == <<status, cancel, holder, owed, attempt>>
vars == <<row, pc, error, cause, setbacks>>

Settled == {"completed", "failed", "cancelled"}
Errors == {"deadline", "retryable", "final", "interrupted", "dependency"}

\* Errors that retry until the run is cancelled, and those that use up attempts.
Unbounded == {"interrupted", "dependency"}
Retryable == {"deadline", "retryable"}

TypeOK ==
  /\ status \in {"queued", "running", "blocked"} \cup Settled
  /\ cancel \in BOOLEAN /\ owed \in BOOLEAN
  /\ holder \in Workers \cup {None}
  /\ attempt \in 0 .. MaxAttempts
  /\ pc \in [Workers -> {"idle", "release", "block", "start", "execute", "decide",
                         "requeue", "fail", "complete", "race", "boundary"}]
  /\ error \in [Workers -> Errors \cup {None}]
  /\ cause \in Errors \cup {None}
  /\ setbacks \in 0 .. MaxSetbacks

Init ==
  /\ status = "queued" /\ cancel = FALSE
  /\ holder = None /\ owed = FALSE /\ attempt = 0
  /\ pc = [w \in Workers |-> "idle"]
  /\ error = [w \in Workers |-> None]
  /\ cause = None /\ setbacks = 0
-------------------------------------------------------------------------------
At(w, p) == pc[w] = p
Go(w, p) == pc' = [pc EXCEPT ![w] = p]
Leave(w) == Go(w, "idle") /\ error' = [error EXCEPT ![w] = None]

Fenced(w) == status = "running" /\ holder = w
Setback == setbacks < MaxSetbacks /\ setbacks' = setbacks + 1

Settle(s) ==
  /\ status' = s /\ holder' = None
  /\ owed' = ContractV2

\* A claim, and what the engine makes of its receipt: a worker that has the
\* handler starts it or, under the second contract, sees to a Stop it reads
\* there. A claim under a suspended authority is released; so is one whose
\* handler is unknown, to keep the run for another worker.
Claim(w) ==
  /\ At(w, "idle")
  /\ status = "queued" \/ (status = "running" /\ holder = None)
  /\ status' = "running" /\ holder' = w
  /\ \/ w \in Runners /\ Go(w, IF ContractV2 /\ cancel THEN "boundary" ELSE "start")
        /\ UNCHANGED setbacks
     \/ w \in Runners /\ Setback /\ Go(w, "release")
     \/ w \in Strangers /\ Go(w, "release") /\ UNCHANGED setbacks
     \/ w \in Blockers /\ Go(w, "block") /\ UNCHANGED setbacks
  /\ UNCHANGED <<cancel, owed, attempt, error, cause>>

\* The lease is lost, or a Stop refuses the requeue: the claim is left to expire.
Release(w) ==
  /\ At(w, "release")
  /\ IF Fenced(w) /\ ~cancel
     THEN status' = "queued" /\ holder' = None
     ELSE UNCHANGED <<status, holder>>
  /\ Leave(w)
  /\ UNCHANGED <<cancel, owed, attempt, cause, setbacks>>

\* Mutant: the block goes ahead whether or not a Stop is pending.
BlockAnyway(w) ==
  /\ At(w, "block")
  /\ IF Fenced(w) THEN status' = "blocked" /\ holder' = None /\ UNCHANGED owed
                  ELSE UNCHANGED <<status, holder, owed>>
  /\ Leave(w)
  /\ UNCHANGED <<cancel, attempt, cause, setbacks>>

\* blockLease: one statement blocks the run or settles a pending Stop.
Block(w) ==
  /\ At(w, "block")
  /\ \/ Fenced(w) /\ cancel /\ Settle("cancelled")
     \/ Fenced(w) /\ ~cancel /\ status' = "blocked" /\ holder' = None /\ UNCHANGED owed
     \/ ~Fenced(w) /\ UNCHANGED <<status, holder, owed>>
  /\ Leave(w)
  /\ UNCHANGED <<cancel, attempt, cause, setbacks>>

\* The checkpoint that counts the attempt, then the handler.
Start(w) ==
  /\ At(w, "start")
  /\ IF Fenced(w)
     THEN /\ attempt' = IF attempt < MaxAttempts THEN attempt + 1 ELSE attempt
          /\ Go(w, "execute") /\ UNCHANGED error
     ELSE Leave(w) /\ UNCHANGED attempt
  /\ UNCHANGED <<status, cancel, holder, owed, cause, setbacks>>

\* The handler returns, throws or is aborted; a handler of the second contract
\* that asks may find the Stop itself.
Execute(w) ==
  /\ At(w, "execute")
  /\ \/ Go(w, "complete") /\ UNCHANGED <<error, setbacks>>
     \/ \E e \in Errors :
          /\ IF e \in Unbounded THEN Setback ELSE UNCHANGED setbacks
          /\ error' = [error EXCEPT ![w] = e] /\ Go(w, "decide")
     \/ ContractV2 /\ cancel /\ Go(w, "boundary") /\ UNCHANGED <<error, setbacks>>
  /\ UNCHANGED <<row, cause>>

\* Mutant: the last attempt is retried too.
RetriesOnceMore(e) ==
  e \in Unbounded \/ (e \in Retryable /\ attempt <= MaxAttempts)

Retries(e) == e \in Unbounded \/ (e \in Retryable /\ attempt < MaxAttempts)

\* The lease is renewed, and with it what the worker knows of a Stop.
Decide(w) ==
  /\ At(w, "decide")
  /\ IF ~Fenced(w) THEN Leave(w)
     ELSE /\ Go(w, IF ContractV2 /\ cancel THEN "boundary"
                   ELSE IF Retries(error[w]) THEN "requeue" ELSE "fail")
          /\ UNCHANGED error
  /\ UNCHANGED <<row, cause, setbacks>>

\* A fenced statement that was refused: a lost lease, or a Stop that came first.
Refused(w) == IF ContractV2 THEN Go(w, "race") /\ UNCHANGED error ELSE Leave(w)

Requeue(w) ==
  /\ At(w, "requeue")
  /\ \/ Fenced(w) /\ ~cancel /\ status' = "queued" /\ holder' = None /\ Leave(w)
     \/ ~(Fenced(w) /\ ~cancel) /\ Refused(w) /\ UNCHANGED <<status, holder>>
  /\ UNCHANGED <<cancel, owed, attempt, cause, setbacks>>

\* finishFailure
Fail(w) ==
  /\ At(w, "fail")
  /\ \/ /\ Fenced(w) /\ ~cancel
        /\ Settle("failed") /\ cause' = error[w]
        /\ Leave(w)
     \/ ~(Fenced(w) /\ ~cancel) /\ Refused(w) /\ UNCHANGED <<status, holder, owed, cause>>
  /\ UNCHANGED <<cancel, attempt, setbacks>>

Complete(w) ==
  /\ At(w, "complete")
  /\ \/ Fenced(w) /\ ~cancel /\ Settle("completed") /\ Leave(w)
     \/ ~(Fenced(w) /\ ~cancel) /\ Refused(w) /\ UNCHANGED <<status, holder, owed>>
  /\ UNCHANGED <<cancel, attempt, cause, setbacks>>

Race(w) ==
  /\ At(w, "race")
  /\ IF Fenced(w) /\ cancel THEN Go(w, "boundary") /\ UNCHANGED error ELSE Leave(w)
  /\ UNCHANGED <<row, cause, setbacks>>

\* finishCancellationAtBoundary
Acknowledge(w) ==
  /\ At(w, "boundary")
  /\ IF Fenced(w) /\ cancel THEN Settle("cancelled") ELSE UNCHANGED <<status, holder, owed>>
  /\ Leave(w)
  /\ UNCHANGED <<cancel, attempt, cause, setbacks>>
-------------------------------------------------------------------------------
(* The lease clock and the people *)

\* A claim nobody works on expires, and so may one that somebody does.
LeaseRunsOut ==
  /\ holder # None
  /\ IF At(holder, "idle") THEN UNCHANGED setbacks ELSE Setback
  /\ holder' = None
  /\ UNCHANGED <<status, cancel, owed, attempt, pc, error, cause>>

\* requestRunCancellation: a running run is only marked.
RequestStop ==
  /\ status \notin Settled /\ ~cancel
  /\ cancel' = TRUE
  /\ IF status = "running" THEN UNCHANGED <<status, holder, owed>>
                           ELSE Settle("cancelled")
  /\ UNCHANGED <<attempt, pc, error, cause, setbacks>>

Resume ==
  /\ status = "blocked" /\ Setback
  /\ status' = "queued"
  /\ UNCHANGED <<cancel, holder, owed, attempt, pc, error, cause>>
-------------------------------------------------------------------------------
Step(w) ==
  \/ Release(w) \/ Block(w) \/ Start(w) \/ Execute(w) \/ Decide(w)
  \/ Requeue(w) \/ Fail(w) \/ Complete(w) \/ Race(w) \/ Acknowledge(w)

Next ==
  \/ \E w \in Workers : Claim(w) \/ Step(w)
  \/ LeaseRunsOut \/ RequestStop \/ Resume

Spec == Init /\ [][Next]_vars

\* Claims nobody works on expire.
AbandonedClaimExpires == holder # None /\ At(holder, "idle") /\ LeaseRunsOut

\* Workers go on, and of workers that poll at their own pace none that has the
\* handler loses every race for an open run.
FairSpec ==
  /\ Spec
  /\ \A w \in Workers : WF_vars(Step(w))
  /\ \A w \in Runners : SF_vars(Claim(w))
  /\ WF_vars(AbandonedClaimExpires)
-------------------------------------------------------------------------------
(* Properties *)

\* A run fails because its handler said so or has used up its attempts: a deploy
\* that interrupts it or a dependency that is away never makes it fail.
FailedIsDeserved ==
  status = "failed" =>
    cause = "final" \/ (cause \in Retryable /\ attempt = MaxAttempts)

\* A run waits for an operator only if nobody wants it stopped.
BlockedIsNotStopped == status = "blocked" => ~cancel

\* Whatever settles a managed run (the handler, a failure, a Stop at a boundary
\* or in the middle of a block) leaves its outcome owed to the product.
OwedWhenSettled == ContractV2 => (owed <=> status \in Settled)

\* Whichever of its workers meets what error, deadline, missing dependency or
\* Stop: a run fails only when it deserves it, is not blocked while a Stop
\* waits, and is owed to the product when it has settled.
AttemptsHold == TypeOK /\ FailedIsDeserved /\ BlockedIsNotStopped /\ OwedWhenSettled

\* A Stop ends: no mix of workers and errors keeps claiming a stopped run.
StopEnds == cancel ~> status \in Settled

\* Every run settles or is blocked for an operator.
RunEnds == <>[](status \in Settled \cup {"blocked"})
===============================================================================
