---------------------------- MODULE EffectExecution ----------------------------
(***************************************************************************)
(* One external effect of one managed run: its row in execution_effects,   *)
(* the workers that drive it through DurableEffectExecutor and             *)
(* DurableExecutionEngine.processReceipt, the provider that performs it,   *)
(* and a Stop.                                                             *)
(*                                                                         *)
(* Every SQL statement, every provider call and every answer is a step of  *)
(* its own, and a worker may be frozen or killed between any two of them.  *)
(* The provider is external: a call that was sent may be performed at any  *)
(* later time, even after its deadline, and its answer may never arrive.   *)
(* The run row is the part of ExecutionLedger an effect depends on; the    *)
(* lease token of a run is named by the worker it was issued to, for a     *)
(* worker drives one claim at a time. Timestamps are the time left.        *)
(***************************************************************************)
EXTENDS Integers

CONSTANTS
  Workers,       \* processes that drain the scope
  Kinds,         \* the DurableEffectSafety kinds to check
  None,          \* SQL NULL
  MaxAttempts,   \* retry.maxAttempts of the effect
  LeaseTerm,     \* leaseMs, in clock ticks
  EffectTimeout, \* timeoutMs of the effect, in clock ticks
  MaxDelay,      \* longest retry delay, in clock ticks
  MaxPauses,     \* bound of the model on workers frozen or killed
  MaxUnresolved  \* bound of the model on lookups that fail or conflict

EffectAssumption ==
  /\ Kinds \subseteq {"read_only", "target_idempotency", "reconcile_before_replay"}
  /\ None \notin Workers
  /\ MaxAttempts \in Nat \ {0}
  /\ LeaseTerm \in Nat \ {0}
  /\ EffectTimeout \in Nat \ {0}
  /\ MaxDelay \in Nat \ {0}
  /\ MaxPauses \in Nat
  /\ MaxUnresolved \in Nat

VARIABLES
  kind,       \* safety.kind of the effect
  run,        \* the run row
  effect,     \* the effect row
  calls,      \* calls[n]: the provider call of the n-th attempt
  worker,     \* worker[w]: where w is
  overrun,    \* a call was still under way at its last_deadline_at
  pauses,     \* pauses so far
  unresolved  \* failed or conflicting lookups so far

vars == <<kind, run, effect, calls, worker, overrun, pauses, unresolved>>
program == <<run, effect, worker>>
environment == <<kind, calls, overrun, pauses, unresolved>>

Attempts == 1 .. MaxAttempts
Terminal == {"completed", "failed", "cancelled"}

RunRow ==
  [status      : {"queued", "running"} \cup Terminal,
   owner       : Workers \cup {None},
   lease       : 0 .. LeaseTerm,
   cancel      : BOOLEAN,
   availableIn : 0 .. MaxDelay + EffectTimeout]

EffectRow ==
  [status      : {"none", "prepared", "retry_wait", "uncertain", "succeeded",
                  "failed"},
   attempts    : 0 .. MaxAttempts,
   code        : {"none", "rejected", "unknown", "not_found", "conflict",
                  "reconcile_unknown", "outcome_unknown", "exhausted",
                  "cancelled_before_invoke"},
   availableIn : 0 .. MaxDelay,
   deadline    : 0 .. EffectTimeout]

Lookups == {"reconcile", "final", "drain"}

Steps == {"idle", "enter", "prepare", "invoke", "send", "await", "complete",
          "rejected", "unknown", "after_failure", "record", "exhaust",
          "requeue", "finish", "fail", "boundary", "acknowledge"} \cup Lookups

TypeOK ==
  /\ kind \in Kinds
  /\ run \in RunRow
  /\ effect \in EffectRow
  /\ calls \in [Attempts -> {"unsent", "flying", "applied", "refused"}]
  /\ worker \in [Workers -> [pc     : Steps,
                             call   : 0 .. MaxAttempts,
                             safe   : BOOLEAN,
                             lookup : Lookups \cup {"none"},
                             answer : {"none", "found", "not_found", "unknown",
                                       "conflict"},
                             paused : BOOLEAN]]
  /\ overrun \in BOOLEAN
  /\ pauses \in 0 .. MaxPauses
  /\ unresolved \in 0 .. MaxUnresolved

Idle == [pc |-> "idle", call |-> 0, safe |-> FALSE, lookup |-> "none",
         answer |-> "none", paused |-> FALSE]

Init ==
  /\ kind \in Kinds
  /\ run = [status |-> "queued", owner |-> None, lease |-> 0, cancel |-> FALSE,
            availableIn |-> 0]
  /\ effect = [status |-> "none", attempts |-> 0, code |-> "none",
               availableIn |-> 0, deadline |-> 0]
  /\ calls = [n \in Attempts |-> "unsent"]
  /\ worker = [w \in Workers |-> Idle]
  /\ overrun = FALSE
  /\ pauses = 0
  /\ unresolved = 0
-------------------------------------------------------------------------------
(* What the code reads off the rows *)

Fenced(w) == run.status = "running" /\ run.owner = w /\ run.lease > 0

Unsettled == effect.status \in {"prepared", "retry_wait", "uncertain"}

\* The provider may or may not have performed the last attempt.
Ambiguous ==
  /\ effect.status \in {"prepared", "uncertain"}
  /\ effect.code # "not_found"

\* effectRetryAt: an ambiguous attempt is left alone until its deadline.
RetryIn ==
  IF Ambiguous /\ effect.deadline > effect.availableIn
  THEN effect.deadline
  ELSE effect.availableIn

\* prepareEffect grants the next attempt.
Authorized ==
  /\ Unsettled
  /\ effect.availableIn = 0
  /\ effect.attempts < MaxAttempts
  /\ Ambiguous => effect.deadline = 0 /\ kind # "reconcile_before_replay"

MustReconcile ==
  kind = "reconcile_before_replay" /\ Ambiguous /\ RetryIn = 0

\* Mutant: an effect without attempts left is retried for ever.
DispositionNeverExhausts ==
  CASE effect.status = "succeeded" -> "finish"
    [] effect.status = "failed"    -> "fail"
    [] MustReconcile               -> "reconcile"
    [] OTHER                       -> "requeue"

\* What w does with a row prepareEffect did not authorize (handleDisposition,
\* handleRetryWait).
Disposition ==
  IF effect.status = "succeeded" THEN "finish" ELSE
  IF effect.status = "failed"    THEN "fail" ELSE
  IF MustReconcile               THEN "reconcile" ELSE
  IF \/ RetryIn > 0 \/ effect.attempts < MaxAttempts
     \/ Ambiguous /\ kind = "reconcile_before_replay" THEN "requeue" ELSE
  IF Ambiguous /\ kind = "target_idempotency" THEN "final"
                                             ELSE "exhaust"

\* handleCancellationEffect: a settled effect lets the run stop, an ambiguous
\* one is looked up first; until it can be, the cancellation stays pending.
CancellationStep ==
  IF effect.status = "succeeded" THEN "finish" ELSE
  IF \/ effect.status \in {"failed", "retry_wait"}
     \/ effect.code = "not_found"
     \/ kind = "read_only" THEN "boundary" ELSE
  IF RetryIn > 0 THEN "idle" ELSE "drain"

\* Mutant: an effect whose call is under way lets the Stop be acknowledged.
CanAcknowledgeAnything ==
  ~(effect.status = "failed" /\ effect.code = "outcome_unknown")

CanAcknowledge ==
  /\ ~(effect.status = "failed" /\ effect.code = "outcome_unknown")
  /\ Ambiguous => kind = "read_only"
-------------------------------------------------------------------------------
At(w, step) == worker[w].pc = step /\ ~worker[w].paused

\* Steps that use nothing of what the worker learned about the effect.
Forgetting == {"idle", "enter", "after_failure", "requeue", "finish", "fail",
               "boundary", "acknowledge"}

Go(w, step) ==
  worker' = [worker EXCEPT ![w] = IF step \in Forgetting
                                  THEN [Idle EXCEPT !.pc = step]
                                  ELSE [@ EXCEPT !.pc = step, !.answer = "none"]]

\* The lease is gone: nothing is written, and w reports lease_lost.
LeaseLost(w) == ~Fenced(w) /\ Go(w, "idle") /\ UNCHANGED <<run, effect>>

Renewed == [run EXCEPT !.lease = LeaseTerm]

\* A claim takes a queued run, or a running one whose lease has expired. A Stop
\* that precedes any effect is acknowledged before the handler.
Claim(w) ==
  /\ worker[w].pc = "idle"
  /\ \/ run.status = "queued" /\ run.availableIn = 0
     \/ run.status = "running" /\ run.lease = 0
  /\ run' = [Renewed EXCEPT !.status = "running", !.owner = w]
  /\ Go(w, IF run.cancel /\ effect.status = "none" THEN "acknowledge" ELSE "enter")
  /\ UNCHANGED <<effect, environment>>

\* executeEffect up to prepareEffect.
EnterEffect(w) ==
  /\ At(w, "enter")
  /\ \/ LeaseLost(w)
     \/ /\ Fenced(w)
        /\ run' = Renewed
        /\ Go(w, IF ~run.cancel             THEN "prepare" ELSE
                 IF effect.status = "none"  THEN "boundary"
                                            ELSE CancellationStep)
        /\ UNCHANGED effect
  /\ UNCHANGED environment

\* prepareEffect is refused once a Stop is requested; after a lookup the
\* executor takes that refusal for a lost lease.
PrepareEffect(w) ==
  /\ At(w, "prepare")
  /\ \/ LeaseLost(w)
     \/ /\ Fenced(w) /\ run.cancel
        /\ Go(w, IF worker[w].lookup = "none" THEN "enter" ELSE "idle")
        /\ UNCHANGED effect
     \/ /\ Fenced(w) /\ ~run.cancel
        /\ effect.status = "none" \/ Authorized
        /\ effect' = [status |-> "prepared", attempts |-> effect.attempts + 1,
                      code |-> "none", availableIn |-> 0,
                      deadline |-> EffectTimeout]
        /\ worker' = [worker EXCEPT
             ![w] = [@ EXCEPT !.pc = "invoke",
                              !.call = effect.attempts + 1,
                              !.safe = \/ effect.status = "none"
                                       \/ worker[w].lookup # "none"]]
     \/ /\ Fenced(w) /\ ~run.cancel
        /\ effect.status # "none" /\ ~Authorized
        /\ Go(w, Disposition)
        /\ UNCHANGED effect
  /\ UNCHANGED <<run, environment>>

\* invoke, up to the call: the last look at the lease and at the Stop.
BeforeInvoke(w) ==
  /\ At(w, "invoke")
  /\ \/ LeaseLost(w)
     \/ /\ Fenced(w)
        /\ run' = Renewed
        /\ IF run.cancel /\ (worker[w].safe \/ kind = "read_only")
           THEN /\ effect' = [effect EXCEPT !.status = "failed",
                                            !.code = "cancelled_before_invoke"]
                /\ Go(w, "boundary")
           ELSE /\ Go(w, IF run.cancel THEN CancellationStep ELSE "send")
                /\ UNCHANGED effect
  /\ UNCHANGED environment

\* The request leaves the process. Nothing is checked any more.
Send(w) ==
  /\ At(w, "send")
  /\ calls' = [calls EXCEPT ![worker[w].call] = "flying"]
  /\ overrun' = (overrun \/ effect.deadline = 0 \/ effect.attempts # worker[w].call)
  /\ Go(w, "await")
  /\ UNCHANGED <<kind, run, effect, pauses, unresolved>>

\* Mutant: any answer counts as an acceptance.
AnsweredAnyhow(w) ==
  /\ At(w, "await")
  /\ \/ calls[worker[w].call] \in {"applied", "refused"} /\ Go(w, "complete")
     \/ Go(w, "unknown")
     \/ Go(w, "requeue")
     \/ Go(w, "fail")
  /\ UNCHANGED <<run, effect, environment>>

\* The answer arrives; or it is lost, late, unreadable or cannot be classified;
\* or the handler's own deadline or a shutdown aborts the wait, and the row is
\* left as it is.
Answered(w) ==
  /\ At(w, "await")
  /\ \/ calls[worker[w].call] = "applied" /\ Go(w, "complete")
     \/ calls[worker[w].call] = "refused" /\ Go(w, "rejected")
     \/ Go(w, "unknown")
     \/ Go(w, "requeue")
     \/ Go(w, "fail")
  /\ UNCHANGED <<run, effect, environment>>

\* The statement may also fail in the database; then the outcome is unknown.
CompleteEffect(w) ==
  /\ At(w, "complete")
  /\ \/ LeaseLost(w)
     \/ /\ Fenced(w) /\ Unsettled
        /\ effect' = [effect EXCEPT !.status = "succeeded", !.code = "none"]
        /\ Go(w, "finish")
     \/ /\ Go(w, "unknown")
        /\ UNCHANGED effect
  /\ UNCHANGED <<run, environment>>

\* recordInvocationFailure: a rejection is final when it is not retryable or
\* was the last attempt, an unknown outcome only when it cannot be looked up.
RecordFailure(w) ==
  /\ \/ At(w, "rejected")
     \/ At(w, "unknown")
  /\ \/ LeaseLost(w)
     \/ /\ Fenced(w) /\ Unsettled
        /\ LET last == worker[w].call = MaxAttempts
               Failed(code) == [effect EXCEPT !.status = "failed", !.code = code]
               Waiting(s, code, delay) ==
                 [effect EXCEPT !.status = s, !.code = code, !.availableIn = delay]
           IN \E delay \in 1 .. MaxDelay :
             \/ /\ worker[w].pc = "rejected"
                /\ \/ effect' = Failed("rejected")
                   \/ ~last /\ effect' = Waiting("retry_wait", "rejected", delay)
             \/ /\ worker[w].pc = "unknown"
                /\ effect' = IF last /\ kind = "read_only"
                             THEN Failed("outcome_unknown")
                             ELSE Waiting("uncertain", "unknown", delay)
        /\ run' = Renewed
        /\ Go(w, "after_failure")
  /\ UNCHANGED environment

AfterFailure(w) ==
  /\ At(w, "after_failure")
  /\ \/ LeaseLost(w)
     \/ /\ Fenced(w)
        /\ run' = Renewed
        /\ Go(w, IF run.cancel               THEN CancellationStep ELSE
                 IF effect.status = "failed" THEN "fail" ELSE "requeue")
        /\ UNCHANGED effect
  /\ UNCHANGED environment

\* The lookup by effect key. Absence is authoritative: it is what the provider
\* knows at that moment. A final lookup is not made once a Stop is seen, and an
\* aborted one leaves the row to the next claim.
Lookup(w) ==
  /\ \E l \in Lookups : At(w, l)
  /\ \/ LeaseLost(w) /\ UNCHANGED unresolved
     \/ /\ Fenced(w) /\ worker[w].pc = "final" /\ run.cancel
        /\ run' = Renewed
        /\ Go(w, CancellationStep)
        /\ UNCHANGED <<effect, unresolved>>
     \/ /\ Fenced(w) /\ ~(worker[w].pc = "final" /\ run.cancel)
        /\ run' = Renewed
        /\ LET Learns(a) ==
                 worker' = [worker EXCEPT ![w].pc = "record",
                                          ![w].lookup = worker[w].pc,
                                          ![w].answer = a]
           IN \/ /\ Learns(IF \E n \in Attempts : calls[n] = "applied"
                           THEN "found" ELSE "not_found")
                 /\ UNCHANGED unresolved
              \/ /\ unresolved < MaxUnresolved
                 /\ unresolved' = unresolved + 1
                 /\ \/ Learns("unknown")
                    \/ Learns("conflict")
                    \/ worker[w].pc # "drain" /\ Go(w, "requeue")
        /\ UNCHANGED effect
  /\ UNCHANGED <<kind, calls, overrun, pauses>>

\* recordEffectReconcile, and what each kind of lookup does next.
RecordLookup(w) ==
  /\ At(w, "record")
  /\ \/ LeaseLost(w)
     \/ /\ Fenced(w)
        /\ effect.status \in {"prepared", "uncertain"}
        /\ LET l == worker[w].lookup IN
           \/ /\ worker[w].answer = "found"
              /\ effect' = [effect EXCEPT !.status = "succeeded", !.code = "none",
                                          !.availableIn = 0]
              /\ Go(w, "finish")
           \/ /\ worker[w].answer = "conflict"
              /\ effect' = [effect EXCEPT !.status = "failed", !.code = "conflict",
                                          !.availableIn = 0]
              /\ Go(w, "fail")
           \/ /\ worker[w].answer = "not_found"
              /\ effect' = [effect EXCEPT !.status = "prepared",
                                          !.code = "not_found", !.availableIn = 0]
              /\ Go(w, CASE l = "reconcile" -> "prepare"
                         [] l = "final"     -> "exhaust"
                         [] OTHER           -> "boundary")
           \/ /\ worker[w].answer = "unknown"
              /\ \E delay \in IF l = "final" THEN {0} ELSE 1 .. MaxDelay :
                   effect' = [effect EXCEPT !.status = "uncertain",
                                            !.code = "reconcile_unknown",
                                            !.availableIn = delay]
              /\ Go(w, CASE l = "reconcile" -> "requeue"
                         [] l = "final"     -> "exhaust"
                         [] OTHER           -> "idle")
        /\ run' = Renewed
  /\ UNCHANGED environment

\* No attempt is left. A Stop seen after a final lookup takes precedence.
Exhaust(w) ==
  /\ At(w, "exhaust")
  /\ \/ LeaseLost(w)
     \/ /\ Fenced(w)
        /\ run' = Renewed
        /\ IF run.cancel /\ worker[w].lookup = "final"
           THEN /\ Go(w, IF Ambiguous THEN "idle" ELSE "boundary")
                /\ UNCHANGED effect
           ELSE /\ effect' = [effect EXCEPT
                     !.status = "failed",
                     !.code = IF Ambiguous THEN "outcome_unknown" ELSE "exhausted"]
                /\ Go(w, "fail")
  /\ UNCHANGED environment
-------------------------------------------------------------------------------
(* The end of a claim *)

\* A fenced statement that a requested Stop refuses; w then goes to the
\* cancellation boundary.
SettleRun(w, row) ==
  /\ \/ LeaseLost(w)
     \/ Fenced(w) /\ run.cancel /\ Go(w, "boundary") /\ UNCHANGED <<run, effect>>
     \/ Fenced(w) /\ ~run.cancel /\ Go(w, "idle") /\ run' = row /\ UNCHANGED effect
  /\ UNCHANGED environment

Released(s) == [run EXCEPT !.status = s, !.owner = None, !.lease = 0]

\* A scheduled effect retry waits for the effect; an aborted handler only for
\* its own backoff.
RequeueRun(w) ==
  /\ At(w, "requeue")
  /\ \E delay \in {0, RetryIn} :
       SettleRun(w, [Released("queued") EXCEPT !.availableIn = delay])

FinishRun(w) == At(w, "finish") /\ SettleRun(w, Released("completed"))

FailRun(w) == At(w, "fail") /\ SettleRun(w, Released("failed"))

\* finishCancellationAtBoundary: unless the effect is settled, the run is left
\* running, to be claimed again when the lease has expired.
CancellationBoundary(w) ==
  /\ At(w, "boundary")
  /\ \/ LeaseLost(w)
     \/ /\ Fenced(w)
        /\ run' = Renewed
        /\ Go(w, IF run.cancel /\ CanAcknowledge THEN "acknowledge" ELSE "idle")
        /\ UNCHANGED effect
  /\ UNCHANGED environment

AcknowledgeCancellation(w) ==
  /\ At(w, "acknowledge")
  /\ \/ LeaseLost(w)
     \/ /\ Fenced(w) /\ run.cancel
        /\ run' = Released("cancelled")
        /\ Go(w, "idle")
        /\ UNCHANGED effect
  /\ UNCHANGED environment

\* requestRunCancellation: a queued run is cancelled there and then.
RequestStop ==
  /\ run.status \in {"queued", "running"}
  /\ ~run.cancel
  /\ run' = [(IF run.status = "queued" THEN Released("cancelled") ELSE run)
               EXCEPT !.cancel = TRUE]
  /\ UNCHANGED <<effect, worker, environment>>
-------------------------------------------------------------------------------
(* The environment *)

\* The provider performs or refuses a call. A target with idempotency keys
\* answers a repeated call with the receipt of the first.
ProviderApplies(n) ==
  /\ calls[n] = "flying"
  /\ calls' = [calls EXCEPT ![n] = "applied"]
  /\ UNCHANGED <<kind, program, overrun, pauses, unresolved>>

ProviderRefuses(n) ==
  /\ calls[n] = "flying"
  /\ \A m \in Attempts : calls[m] # "applied"
  /\ calls' = [calls EXCEPT ![n] = "refused"]
  /\ UNCHANGED <<kind, program, overrun, pauses, unresolved>>

Pause(w) ==
  /\ worker[w].pc # "idle"
  /\ ~worker[w].paused
  /\ pauses < MaxPauses
  /\ worker' = [worker EXCEPT ![w].paused = TRUE]
  /\ pauses' = pauses + 1
  /\ UNCHANGED <<kind, run, effect, calls, overrun, unresolved>>

\* A frozen process goes on with what it remembers, or is restarted.
Unpause(w) ==
  /\ worker[w].paused
  /\ \/ worker' = [worker EXCEPT ![w].paused = FALSE]
     \/ Go(w, "idle")
  /\ UNCHANGED <<run, effect, environment>>

Elapsed(n) == IF n > 0 THEN n - 1 ELSE n

\* The database clock. The heartbeat of a process at work keeps its lease.
Tick ==
  /\ LET alive == \E w \in Workers : Fenced(w) /\ worker[w].pc # "idle"
                                               /\ ~worker[w].paused
     IN run' = [run EXCEPT !.availableIn = Elapsed(@),
                           !.lease = IF alive THEN LeaseTerm ELSE Elapsed(@)]
  /\ effect' = [effect EXCEPT !.availableIn = Elapsed(@), !.deadline = Elapsed(@)]
  /\ overrun' = \/ overrun
                \/ /\ effect.deadline = 1
                   /\ calls[effect.attempts] = "flying"
  /\ UNCHANGED <<kind, calls, worker, pauses, unresolved>>
-------------------------------------------------------------------------------
WorkerStep(w) ==
  \/ EnterEffect(w)
  \/ PrepareEffect(w)
  \/ BeforeInvoke(w)
  \/ Send(w)
  \/ Answered(w)
  \/ CompleteEffect(w)
  \/ RecordFailure(w)
  \/ AfterFailure(w)
  \/ Lookup(w)
  \/ RecordLookup(w)
  \/ Exhaust(w)
  \/ RequeueRun(w)
  \/ FinishRun(w)
  \/ FailRun(w)
  \/ CancellationBoundary(w)
  \/ AcknowledgeCancellation(w)

Next ==
  \/ Tick
  \/ RequestStop
  \/ \E n \in Attempts : ProviderApplies(n) \/ ProviderRefuses(n)
  \/ \E w \in Workers : Claim(w) \/ WorkerStep(w) \/ Pause(w) \/ Unpause(w)

\* Waits are bounded by the effect and handler timeouts, so a worker that is not
\* paused goes on; idle workers poll; time passes; dead processes are restarted.
\* The provider promises nothing.
Fairness ==
  /\ WF_vars(Tick)
  /\ WF_vars(\E w \in Workers : Claim(w))
  /\ \A w \in Workers : WF_vars(WorkerStep(w)) /\ WF_vars(Unpause(w))

Spec == Init /\ [][Next]_vars /\ Fairness
-------------------------------------------------------------------------------
(* Properties *)

Performed == {n \in Attempts : calls[n] = "applied"}

\* An effect that must be reconciled before it is replayed is performed twice
\* only by a call that outlived the deadline recorded for it: no takeover,
\* retry, crash or stale worker repeats one that kept to its deadline.
PerformedOnce ==
  kind = "reconcile_before_replay" /\ ~overrun
    => \A m, n \in Performed : m = n

\* A receipt is stored only for an effect the provider performed.
SucceededWasPerformed == effect.status = "succeeded" => Performed # {}

\* An effect recorded as rejected, exhausted or cancelled before its call was
\* not performed by any attempt, unless a call outlived its deadline.
FailureIsDefinite ==
  /\ kind # "read_only"
  /\ effect.status = "failed"
  /\ effect.code \in {"rejected", "exhausted", "cancelled_before_invoke"}
  /\ ~overrun
  => Performed = {}

\* A worker acknowledges a Stop only when the outcome of the effect is known
\* and no call is under way (read-only calls, and calls past their deadline,
\* excepted).
StopAcknowledgedWhenSettled ==
  [][run.status = "running" /\ run'.status = "cancelled" /\ kind # "read_only"
       => /\ ~Ambiguous
          /\ overrun \/ \A n \in Attempts : calls[n] # "flying"]_vars

\* A settled effect stays as it is, whatever late answers and stale workers
\* come in.
SettledForGood ==
  [][effect.status \in {"succeeded", "failed"} =>
       effect'.status = effect.status /\ effect'.code = effect.code]_vars

\* A requested Stop ends the run, unless the effect was terminally recorded as
\* outcome-unknown: then the cancellation is never acknowledged.
StopResolved ==
  run.cancel ~> \/ run.status \in Terminal
                \/ effect.status = "failed" /\ effect.code = "outcome_unknown"

\* Whatever becomes of its calls, lookups and workers, a run is never left to
\* wait for ever: it ends, or a Stop is requested.
RunEnds == <>(run.status \in Terminal \/ run.cancel)
===============================================================================
