---------------------------- MODULE ExecutionLedger ----------------------------
(***************************************************************************)
(* The run rows of the durable execution ledger and every statement of     *)
(* PostgresExecutionControlRepository that changes them.                   *)
(*                                                                         *)
(* Each mutation of the repository is one SQL statement over one row, and  *)
(* takes its time from the database clock; it is one action here. The      *)
(* callers (workers, operators, the Stop fan-out, product code) are the    *)
(* most general ones: any call, in any order, with any lease token that    *)
(* was ever issued, however stale.                                         *)
(*                                                                         *)
(* Timestamps are kept as the time left until them, so that the model      *)
(* stays finite while the clock runs for ever: availableIn = 0 says that   *)
(* available_at has passed, lease = 0 that lease_expires_at has passed.    *)
(***************************************************************************)
EXTENDS Integers

CONSTANTS
  Runs,          \* idempotency identities a run may be created for
  ManagedRuns,   \* runs with metadata.authority = 'execution_ledger_v2'
  CancelIds,     \* cancellation request identities
  BlockReasons,  \* blocked_reason_code values
  None,          \* SQL NULL
  LeaseTerm,     \* leaseMs, in clock ticks
  MaxDelay,      \* longest delay a requeue asks for, in clock ticks
  MaxClaims,     \* bound of the model on claim_count
  MaxAttempts    \* bound of the model on handler_attempt

Terminal == {"completed", "partial", "failed", "cancelled"}

ASSUME LedgerAssumption ==
  /\ ManagedRuns \subseteq Runs
  /\ LeaseTerm \in Nat \ {0}
  /\ MaxDelay \in Nat
  /\ MaxClaims \in Nat
  /\ MaxAttempts \in Nat
  /\ None \notin CancelIds
  /\ None \notin BlockReasons
  /\ None \notin Terminal

VARIABLE run  \* run[r] is the row of r in execution_runs

Cancellable == {"queued", "running", "waiting_approval", "blocked"}

Status == {"absent"} \cup Cancellable \cup Terminal

NoLease == -1  \* lease_expires_at IS NULL
NoToken == 0   \* lease_token_hash IS NULL; the n-th claim is issued token n

Row ==
  [status      : Status,
   availableIn : 0 .. MaxDelay,
   token       : 0 .. MaxClaims,
   lease       : NoLease .. LeaseTerm,
   claims      : 0 .. MaxClaims,
   attempts    : 0 .. MaxAttempts,
   reason      : BlockReasons \cup {None},
   cancel      : CancelIds \cup {None},
   acked       : BOOLEAN,               \* cancel_acknowledged_at IS NOT NULL
   finished    : BOOLEAN,               \* finished_at IS NOT NULL
   output      : 0 .. MaxClaims,        \* the claim whose output is stored
   projection  : Terminal \cup {None}]  \* terminal_status owed to the product

NoRow ==
  [status |-> "absent", availableIn |-> 0, token |-> NoToken,
   lease |-> NoLease, claims |-> 0, attempts |-> 0, reason |-> None,
   cancel |-> None, acked |-> FALSE, finished |-> FALSE, output |-> 0,
   projection |-> None]

TypeOK == run \in [Runs -> Row]

Init == run = [r \in Runs |-> NoRow]

-------------------------------------------------------------------------------
(* Parts of the statements *)

Write(r, row) == run' = [run EXCEPT ![r] = row]

\* The lease columns set to NULL.
Released(row) == [row EXCEPT !.token = NoToken, !.lease = NoLease]

\* The row settles as s; a managed run gets its outbox row in the same
\* statement (INSERT ... ON CONFLICT DO NOTHING).
Settled(r, row, s) ==
  [row EXCEPT !.status = s,
              !.finished = TRUE,
              !.projection = IF r \in ManagedRuns /\ @ = None THEN s ELSE @]

\* The row is cancelled, its cancellation acknowledged and its lease released.
CancelledRow(r, row, c) ==
  [Released(Settled(r, row, "cancelled")) EXCEPT !.cancel = c, !.acked = TRUE]

\* Mutant: the WHERE clause forgets the token.
FencedWithoutToken(row, t) ==
  /\ row.status = "running"
  /\ row.lease > 0

\* The WHERE clause of every token-fenced statement.
Fenced(row, t) ==
  /\ row.status = "running"
  /\ row.token = t
  /\ row.lease > 0

\* Mutant: an expired lease is enough to be claimed, whatever the status.
ClaimableByExpiry(row) ==
  \/ row.status = "queued" /\ row.availableIn = 0
  \/ row.lease = 0

Claimable(row) ==
  \/ row.status = "queued" /\ row.availableIn = 0
  \/ row.status = "running" /\ row.lease = 0

Tokens(r) == 1 .. run[r].claims
-------------------------------------------------------------------------------
(* Admission and claims *)

CreateRun(r) ==
  /\ run[r].status = "absent"
  /\ Write(r, [NoRow EXCEPT !.status = "queued"])

\* claimRun names the run, claimNextRun takes one that no other statement has
\* locked: either way any claimable row may be the one. A running row whose
\* lease has expired is taken from its holder.
Claim(r) ==
  /\ Claimable(run[r])
  /\ run[r].claims < MaxClaims
  /\ Write(r, [run[r] EXCEPT !.status = "running",
                             !.token = run[r].claims + 1,
                             !.lease = LeaseTerm,
                             !.claims = @ + 1,
                             !.finished = FALSE])
-------------------------------------------------------------------------------
(* Statements fenced by a lease token *)

RenewRunLease(r, t) ==
  /\ Fenced(run[r], t)
  /\ Write(r, [run[r] EXCEPT !.lease = LeaseTerm])

CheckpointRun(r, t, stores, increments) ==
  /\ Fenced(run[r], t)
  /\ increments => run[r].attempts < MaxAttempts
  /\ Write(r, [run[r] EXCEPT !.output = IF stores THEN t ELSE @,
                             !.attempts = IF increments THEN @ + 1 ELSE @])

RequeueRun(r, t, delay) ==
  /\ Fenced(run[r], t)
  /\ run[r].cancel = None
  /\ Write(r, [Released(run[r]) EXCEPT !.status = "queued",
                                       !.availableIn = delay])

\* A pending cancellation wins over the block.
BlockRun(r, t, b) ==
  /\ Fenced(run[r], t)
  /\ ~run[r].acked
  /\ \/ /\ run[r].cancel = None
        /\ Write(r, [Released(run[r]) EXCEPT !.status = "blocked",
                                             !.reason = b,
                                             !.finished = FALSE])
     \/ /\ run[r].cancel # None
        /\ Write(r, CancelledRow(r, run[r], run[r].cancel))

FinishRun(r, t, s, stores) ==
  /\ Fenced(run[r], t)
  /\ run[r].cancel = None
  /\ Write(r, [Released(Settled(r, run[r], s))
                 EXCEPT !.output = IF stores THEN t ELSE @])

AcknowledgeRunCancellation(r, t, c) ==
  /\ Fenced(run[r], t)
  /\ run[r].cancel = c
  /\ ~run[r].acked
  /\ Write(r, CancelledRow(r, run[r], c))
-------------------------------------------------------------------------------
(* Statements of operators and of the Stop fan-out *)

\* A run that nobody works on is cancelled at once, a running one is only
\* marked. A second request never replaces the first.
RequestRunCancellation(r, c) ==
  /\ run[r].status \in Cancellable
  /\ run[r].cancel = None
  /\ \/ /\ run[r].status = "running"
        /\ Write(r, [run[r] EXCEPT !.cancel = c, !.reason = None])
     \/ /\ run[r].status # "running"
        /\ Write(r, [CancelledRow(r, run[r], c) EXCEPT !.reason = None])

ResumeBlockedRun(r, b) ==
  /\ run[r].status = "blocked"
  /\ run[r].reason = b
  /\ run[r].cancel = None
  /\ Write(r, [Released(run[r]) EXCEPT !.status = "queued",
                                       !.availableIn = 0,
                                       !.reason = None,
                                       !.finished = FALSE])

\* Mutant: a run set running carries no lease at all.
TransitionWithoutLease(r, s, stores) ==
  LET row == [run[r] EXCEPT !.output = IF stores THEN run[r].claims ELSE @] IN
  /\ run[r].token = NoToken
  /\ run[r].cancel = None
  /\ \/ s = "queued" /\ run[r].status = "queued"
     \/ s # "queued" /\ run[r].status \in {"queued", "running", "waiting_approval"}
  /\ Write(r, IF s \in Terminal THEN Settled(r, row, s)
              ELSE [row EXCEPT !.status = s])

\* The un-fenced transition of operators and approvals. It cannot mint a
\* token: a run it sets running carries a lease that has already expired.
\* An output stored here is credited to the newest claim.
TransitionRun(r, s, stores) ==
  LET row == [run[r] EXCEPT !.output = IF stores THEN run[r].claims ELSE @] IN
  /\ run[r].token = NoToken
  /\ run[r].cancel = None
  /\ \/ s = "queued" /\ run[r].status = "queued"
     \/ s # "queued" /\ run[r].status \in {"queued", "running", "waiting_approval"}
  /\ \/ /\ s \in Terminal
        /\ Write(r, Settled(r, row, s))
     \/ /\ s = "running"
        /\ Write(r, [row EXCEPT !.status = s, !.lease = 0])
     \/ /\ s \in {"queued", "waiting_approval"}
        /\ Write(r, [row EXCEPT !.status = s])
-------------------------------------------------------------------------------
(* The database clock *)

Elapsed(n) == IF n > 0 THEN n - 1 ELSE n

Tick ==
  /\ \E r \in Runs : run[r].availableIn > 0 \/ run[r].lease > 0
  /\ run' = [r \in Runs |->
               [run[r] EXCEPT !.availableIn = Elapsed(@), !.lease = Elapsed(@)]]
-------------------------------------------------------------------------------
FencedStep(r) ==
  \E t \in Tokens(r) :
    \/ RenewRunLease(r, t)
    \/ \E stores, increments \in BOOLEAN : CheckpointRun(r, t, stores, increments)
    \/ \E delay \in 0 .. MaxDelay : RequeueRun(r, t, delay)
    \/ \E b \in BlockReasons : BlockRun(r, t, b)
    \/ \E s \in Terminal \ {"cancelled"}, stores \in BOOLEAN : FinishRun(r, t, s, stores)
    \/ \E c \in CancelIds : AcknowledgeRunCancellation(r, t, c)

OperatorStep(r) ==
  \/ \E c \in CancelIds : RequestRunCancellation(r, c)
  \/ \E b \in BlockReasons : ResumeBlockedRun(r, b)
  \/ \E s \in Status \ {"absent", "blocked"}, stores \in BOOLEAN :
       TransitionRun(r, s, stores)

Next ==
  \/ Tick
  \/ \E r \in Runs : CreateRun(r) \/ Claim(r) \/ FencedStep(r) \/ OperatorStep(r)

Spec == Init /\ [][Next]_run
-------------------------------------------------------------------------------
(* Properties *)

\* No statement ever writes a row the CHECK constraints of execution_runs
\* reject: a blocked row has its reason and no lease, and a cancellation is
\* pending only on a running row, acknowledged only on a cancelled one.
SchemaShapes ==
  \A r \in Runs :
    LET row == run[r] IN
    /\ row.status = "blocked" <=> row.reason # None
    /\ row.status = "blocked" =>
         row.token = NoToken /\ row.lease = NoLease /\ ~row.finished
    /\ row.cancel = None => ~row.acked
    /\ row.cancel # None =>
         row.status = IF row.acked THEN "cancelled" ELSE "running"

\* No run is lost to the workers: a queued row holds no lease (so it becomes
\* claimable, and COALESCE(lease_expires_at, available_at) orders it by
\* available_at), and a running row always has an expiry to recover it by,
\* also after an administrative hand-off that issued no token.
NoStrandedRun ==
  \A r \in Runs :
    /\ run[r].status = "queued" => run[r].token = NoToken /\ run[r].lease = NoLease
    /\ run[r].status = "running" => run[r].lease # NoLease
    /\ run[r].status # "running" => run[r].token = NoToken

\* The outbox row of a managed run exists exactly when the run has settled,
\* and says how it settled, whichever statement settled it.
OutboxMatchesOutcome ==
  \A r \in Runs :
    run[r].projection =
      IF r \in ManagedRuns /\ run[r].status \in Terminal
      THEN run[r].status ELSE None

\* Whatever statements were executed in whatever order, with whatever token: a
\* row has its columns in order, a worker can get at an open run some day, and
\* the product is owed the outcome of a managed run that settled.
RowsHold == TypeOK /\ SchemaShapes /\ NoStrandedRun /\ OutboxMatchesOutcome

\* A worker that lost its lease cannot overwrite what a later claim stored:
\* the stored output never goes back to an earlier claim.
OutputNeverRegresses ==
  [][\A r \in Runs : run'[r].output >= run[r].output]_run

\* The ledger implements the lifecycle of RunLifecycle.
phase ==
  [r \in Runs |-> IF run[r].status = "absent" THEN "absent"
                  ELSE IF run[r].status \in Terminal THEN "settled" ELSE "open"]
Lifecycle ==
  INSTANCE RunLifecycle WITH
    StopIds <- CancelIds,
    Outcomes <- Terminal,
    stop <- [r \in Runs |-> run[r].cancel],
    outcome <- [r \in Runs |-> IF run[r].status \in Terminal
                               THEN run[r].status ELSE None],
    owed <- [r \in Runs |-> run[r].projection]

\* Settling is final, the first stop request stands and a stopped run can only
\* end cancelled, and a managed outcome is owed from the step that settles it.
ImplementsLifecycle == Lifecycle!Spec
===============================================================================
