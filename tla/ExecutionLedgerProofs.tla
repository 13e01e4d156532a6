------------------------ MODULE ExecutionLedgerProofs ------------------------
(***************************************************************************)
(* Proofs about the three tables of the execution ledger, for every set of *)
(* runs and every bound: the rows of runs (ExecutionLedger), and the       *)
(* origins with their Stop (ExecutionOrigin) and the external effects      *)
(* (EffectExecution) as MCExecutionLedger instantiates them.               *)
(*                                                                         *)
(* All statements on a run but the clock rewrite one row, so its inductive *)
(* invariant IInv is a predicate RowInv on one row, and each action is     *)
(* proved to write a row that satisfies it.  OriginInv and EffectInv are   *)
(* the inductive invariants of the other two.                              *)
(***************************************************************************)
EXTENDS MCExecutionLedger, FiniteSetTheorems, WellFoundedInduction, TLAPS
-------------------------------------------------------------------------------
(* A row of a run                                                          *)


\* The relations between the columns of the row of r that hold between
\* statements. Beside the properties the runs check they say that a live token
\* is that of the newest claim and that no output is newer: together they make
\* a fenced write the newest one.
Shape(r, row) ==
  /\ row.status = "blocked" <=> row.reason # None
  /\ row.status = "blocked" => ~row.finished
  /\ row.cancel = None => ~row.acked
  /\ row.cancel # None =>
       row.status = IF row.acked THEN "cancelled" ELSE "running"
  /\ row.status \in {"queued", "blocked"} => row.lease = NoLease
  /\ row.status = "running" => row.lease # NoLease
  /\ row.status # "running" => row.token = NoToken
  /\ row.projection = IF r \in ManagedRuns /\ row.status \in Terminal
                      THEN row.status ELSE None
  /\ row.token # NoToken => row.token = row.claims
  /\ row.output <= row.claims
  /\ row.status = "absent" => row.output = 0

RowInv(r, row) == row \in Row /\ Shape(r, row)

IInv == TypeOK /\ \A r \in Runs : Shape(r, run[r])

-------------------------------------------------------------------------------
(* The values the statements write *)

\* The constants the statements write are in the types of their columns.
LEMMA Values ==
  /\ NoLease \in NoLease .. LeaseTerm
  /\ LeaseTerm \in NoLease .. LeaseTerm
  /\ 0 \in NoLease .. LeaseTerm
  /\ LeaseTerm # NoLease /\ 0 # NoLease
  /\ NoToken \in 0 .. MaxClaims /\ 0 \in 0 .. MaxClaims
  /\ 0 \in 0 .. MaxDelay
  /\ 0 \in 0 .. MaxAttempts
  /\ None \in BlockReasons \cup {None}
  /\ None \in CancelIds \cup {None}
  /\ None \in Terminal \cup {None}
BY LedgerAssumption DEF LedgerAssumption, NoLease, NoToken

\* The statuses, spelt out.
LEMMA Statuses ==
  /\ Status = {"absent", "queued", "running", "waiting_approval", "blocked",
               "completed", "partial", "failed", "cancelled"}
  /\ Terminal = {"completed", "partial", "failed", "cancelled"}
BY DEF Status, Cancellable, Terminal

\* Writing one good row keeps the invariant.
LEMMA WriteKeeps ==
  ASSUME IInv, NEW r \in Runs, NEW row, RowInv(r, row), Write(r, row)
  PROVE  IInv'
BY DEF IInv, TypeOK, RowInv, Write, Shape

\* Every row satisfies the row invariant.
LEMMA RowOfInv ==
  ASSUME IInv, NEW r \in Runs PROVE RowInv(r, run[r])
BY DEF IInv, TypeOK, RowInv

\* Admission (createRun) inserts a good row.
LEMMA CreateRunKeeps ==
  ASSUME IInv, NEW r \in Runs, CreateRun(r) PROVE IInv'
<1> DEFINE row == [NoRow EXCEPT !.status = "queued"]
<1>1. NoRow \in Row
  BY Values, Statuses DEF Row, NoRow
<1>2. row \in Row
  BY <1>1, Statuses DEF Row
<1>3. Shape(r, row)
  BY Statuses DEF Shape, NoRow, NoToken
<1> QED BY <1>2, <1>3, WriteKeeps DEF CreateRun, RowInv

\* A claim issues the next token on the row it takes.
LEMMA ClaimKeeps ==
  ASSUME IInv, NEW r \in Runs, Claim(r) PROVE IInv'
<1> DEFINE old == run[r]
           row == [run[r] EXCEPT !.status = "running",
                             !.token = run[r].claims + 1,
                             !.lease = LeaseTerm,
                             !.claims = @ + 1,
                             !.finished = FALSE]
<1>1. old \in Row /\ Shape(r, old)
  BY RowOfInv DEF RowInv
<1>2. old.claims + 1 \in 0 .. MaxClaims
  BY <1>1, LedgerAssumption DEF Claim, Row, LedgerAssumption
<1>3. row \in Row
  BY <1>1, <1>2, Values, Statuses DEF Row
<1>4. Shape(r, row)
  BY <1>1, Values, Statuses DEF Shape, Row, Claim, Claimable
<1> QED BY <1>3, <1>4, WriteKeeps DEF Claim, RowInv

-------------------------------------------------------------------------------
(* Statements fenced by a lease token *)

\* What the WHERE clause of a fenced statement gives: the caller holds the
\* newest claim of a running row.
LEMMA FencedRow ==
  ASSUME IInv, NEW r \in Runs, NEW t, t \in Tokens(r), Fenced(run[r], t)
  PROVE  /\ run[r] \in Row /\ Shape(r, run[r])
         /\ run[r].status = "running"
         /\ t = run[r].claims /\ t \in 0 .. MaxClaims
         /\ run[r].projection = None
BY RowOfInv, Statuses DEF RowInv, Shape, Row, Fenced, Tokens, NoToken

\* Renewing a lease only moves its expiry.
LEMMA RenewRunLeaseKeeps ==
  ASSUME IInv, NEW r \in Runs, NEW t \in Tokens(r), RenewRunLease(r, t)
  PROVE  IInv'
<1> DEFINE row == [run[r] EXCEPT !.lease = LeaseTerm]
<1>1. run[r] \in Row /\ Shape(r, run[r]) /\ run[r].status = "running"
  BY FencedRow DEF RenewRunLease
<1>2. row \in Row
  BY <1>1, Values DEF Row
<1>3. Shape(r, row)
  BY <1>1, Values DEF Shape, Row
<1> QED BY <1>2, <1>3, WriteKeeps DEF RenewRunLease, RowInv

\* A checkpoint stores the output of the newest claim.
LEMMA CheckpointRunKeeps ==
  ASSUME IInv, NEW r \in Runs, NEW t \in Tokens(r),
         NEW stores \in BOOLEAN, NEW increments \in BOOLEAN,
         CheckpointRun(r, t, stores, increments)
  PROVE  IInv'
<1> DEFINE out == IF stores THEN t ELSE run[r].output
           att == IF increments THEN run[r].attempts + 1 ELSE run[r].attempts
           row == [run[r] EXCEPT !.output = out, !.attempts = att]
<1>1. /\ run[r] \in Row /\ Shape(r, run[r]) /\ run[r].status = "running"
      /\ t = run[r].claims /\ t \in 0 .. MaxClaims
  BY FencedRow DEF CheckpointRun
<1>2. out \in 0 .. MaxClaims /\ out <= run[r].claims
  BY <1>1, LedgerAssumption DEF Row, Shape, LedgerAssumption
<1>3. att \in 0 .. MaxAttempts
  BY <1>1, LedgerAssumption DEF Row, CheckpointRun, LedgerAssumption
<1>4. Write(r, row)
  BY DEF CheckpointRun
<1> HIDE DEF out, att
<1>5. row \in Row
  BY <1>1, <1>2, <1>3 DEF Row
<1>6. Shape(r, row)
  BY <1>1, <1>2 DEF Shape, Row
<1> QED BY <1>4, <1>5, <1>6, WriteKeeps DEF RowInv

\* A requeue releases the lease of a run nobody stopped.
LEMMA RequeueRunKeeps ==
  ASSUME IInv, NEW r \in Runs, NEW t \in Tokens(r), NEW delay \in 0 .. MaxDelay,
         RequeueRun(r, t, delay)
  PROVE  IInv'
<1> DEFINE row == [Released(run[r]) EXCEPT !.status = "queued",
                                           !.availableIn = delay]
<1>1. /\ run[r] \in Row /\ Shape(r, run[r]) /\ run[r].status = "running"
      /\ run[r].cancel = None /\ run[r].projection = None
  BY FencedRow DEF RequeueRun
<1>2. row \in Row
  BY <1>1, Values, Statuses DEF Row, Released
<1>3. Shape(r, row)
  BY <1>1, Statuses DEF Shape, Row, Released
<1> QED BY <1>2, <1>3, WriteKeeps DEF RequeueRun, RowInv

\* A cancelled row is well formed whatever open row it is made from.
LEMMA CancelledRowInv ==
  ASSUME NEW r \in Runs, NEW old \in Row, Shape(r, old),
         old.status \in Cancellable, NEW c \in CancelIds
  PROVE  /\ CancelledRow(r, old, c) \in Row
         /\ old.status # "blocked" => Shape(r, CancelledRow(r, old, c))
         /\ Shape(r, [CancelledRow(r, old, c) EXCEPT !.reason = None])
<1> DEFINE owes == IF r \in ManagedRuns /\ old.projection = None
                   THEN "cancelled" ELSE old.projection
           row == [old EXCEPT !.status = "cancelled", !.finished = TRUE,
                              !.projection = owes, !.token = NoToken,
                              !.lease = NoLease, !.cancel = c, !.acked = TRUE]
<1>1. row = CancelledRow(r, old, c)
  BY DEF CancelledRow, Settled, Released, Row
<1>2. owes \in Terminal \cup {None}
  BY Statuses DEF Row
<1>3. owes = IF r \in ManagedRuns THEN "cancelled" ELSE None
  BY Statuses DEF Shape, Cancellable
<1>4. c # None
  BY LedgerAssumption DEF LedgerAssumption
<1> HIDE DEF owes
<1>5. row \in Row
  BY <1>2, Values, Statuses DEF Row
<1>6. old.status # "blocked" => Shape(r, row)
  BY <1>3, <1>4, Statuses DEF Shape, Row, Cancellable
<1>7. Shape(r, [row EXCEPT !.reason = None])
  BY <1>3, <1>4, Statuses DEF Shape, Row, Cancellable
<1> QED BY <1>1, <1>5, <1>6, <1>7

\* A block either parks the run or lets the pending stop win.
LEMMA BlockRunKeeps ==
  ASSUME IInv, NEW r \in Runs, NEW t \in Tokens(r), NEW b \in BlockReasons,
         BlockRun(r, t, b)
  PROVE  IInv'
<1>1. /\ run[r] \in Row /\ Shape(r, run[r]) /\ run[r].status = "running"
      /\ run[r].projection = None
  BY FencedRow DEF BlockRun
<1>2. CASE run[r].cancel = None
  <2> DEFINE row == [Released(run[r]) EXCEPT !.status = "blocked",
                                             !.reason = b,
                                             !.finished = FALSE]
  <2>1. b # None
    BY LedgerAssumption DEF LedgerAssumption
  <2>2. row \in Row
    BY <1>1, Values, Statuses DEF Row, Released
  <2>3. Shape(r, row)
    BY <1>1, <1>2, <2>1, Statuses DEF Shape, Row, Released
  <2> QED BY <1>2, <2>2, <2>3, WriteKeeps DEF BlockRun, RowInv
<1>3. CASE run[r].cancel # None
  <2>1. run[r].cancel \in CancelIds /\ run[r].status \in Cancellable
    BY <1>1, <1>3 DEF Row, Cancellable
  <2> QED BY <1>1, <1>3, <2>1, CancelledRowInv, WriteKeeps DEF BlockRun, RowInv
<1> QED BY <1>2, <1>3

\* A row settled without a cancellation.
LEMMA SettledInv ==
  ASSUME NEW r \in Runs, NEW old \in Row, Shape(r, old), old.cancel = None,
         old.status \in Cancellable \ {"blocked"}, old.token = NoToken,
         NEW s \in Terminal
  PROVE  RowInv(r, Settled(r, old, s))
<1> DEFINE owes == IF r \in ManagedRuns /\ old.projection = None
                   THEN s ELSE old.projection
           row == [old EXCEPT !.status = s, !.finished = TRUE,
                              !.projection = owes]
<1>1. row = Settled(r, old, s)
  BY DEF Settled, Row
<1>2. owes \in Terminal \cup {None}
  BY Statuses DEF Row
<1>3. owes = IF r \in ManagedRuns THEN s ELSE None
  BY Statuses DEF Shape, Cancellable
<1> HIDE DEF owes
<1>4. row \in Row
  BY <1>2, Statuses DEF Row
<1>5. Shape(r, row)
  BY <1>3, Statuses DEF Shape, Row, Cancellable
<1> QED BY <1>1, <1>4, <1>5 DEF RowInv

\* Finishing settles the run, owes its outcome and releases its lease.
LEMMA FinishRunKeeps ==
  ASSUME IInv, NEW r \in Runs, NEW t \in Tokens(r),
         NEW s \in Terminal \ {"cancelled"}, NEW stores \in BOOLEAN,
         FinishRun(r, t, s, stores)
  PROVE  IInv'
<1> DEFINE out == IF stores THEN t ELSE run[r].output
           freed == [Released(run[r]) EXCEPT !.status = "queued", !.output = out]
           row == [Released(Settled(r, run[r], s)) EXCEPT !.output = out]
<1>1. /\ run[r] \in Row /\ Shape(r, run[r]) /\ run[r].status = "running"
      /\ t = run[r].claims /\ t \in 0 .. MaxClaims
      /\ run[r].cancel = None /\ run[r].projection = None
  BY FencedRow DEF FinishRun
<1>2. out \in 0 .. MaxClaims /\ out <= run[r].claims
  BY <1>1, LedgerAssumption DEF Row, Shape, LedgerAssumption
<1>3. row = Settled(r, freed, s)
  BY <1>1 DEF Settled, Released, Row
<1>4. Write(r, row)
  BY <1>1 DEF FinishRun, Settled, Released, Row
<1> HIDE DEF out
<1>5. freed \in Row
  BY <1>1, <1>2, Values, Statuses DEF Row, Released
<1>6. /\ Shape(r, freed) /\ freed.token = NoToken /\ freed.cancel = None
      /\ freed.status \in Cancellable \ {"blocked"}
  BY <1>1, <1>2, Statuses DEF Shape, Row, Released, Cancellable
<1> HIDE DEF freed, row
<1>7. RowInv(r, row)
  BY <1>3, <1>5, <1>6, SettledInv
<1> QED BY <1>4, <1>7, WriteKeeps

\* Acknowledging a stop settles the run as cancelled.
LEMMA AcknowledgeRunCancellationKeeps ==
  ASSUME IInv, NEW r \in Runs, NEW t \in Tokens(r), NEW c \in CancelIds,
         AcknowledgeRunCancellation(r, t, c)
  PROVE  IInv'
<1>1. /\ run[r] \in Row /\ Shape(r, run[r]) /\ run[r].status = "running"
  BY FencedRow DEF AcknowledgeRunCancellation
<1> QED BY <1>1, CancelledRowInv, WriteKeeps
        DEF AcknowledgeRunCancellation, RowInv, Cancellable
-------------------------------------------------------------------------------
(* Statements of operators, the clock *)

\* A stop marks a running run and cancels any other open one.
LEMMA RequestRunCancellationKeeps ==
  ASSUME IInv, NEW r \in Runs, NEW c \in CancelIds, RequestRunCancellation(r, c)
  PROVE  IInv'
<1>1. run[r] \in Row /\ Shape(r, run[r])
  BY RowOfInv DEF RowInv
<1>2. CASE run[r].status = "running"
  <2> DEFINE row == [run[r] EXCEPT !.cancel = c, !.reason = None]
  <2>1. row \in Row
    BY <1>1, Values DEF Row
  <2>2. Shape(r, row)
    BY <1>1, <1>2, LedgerAssumption
    DEF Shape, Row, RequestRunCancellation, LedgerAssumption
  <2> QED BY <1>2, <2>1, <2>2, WriteKeeps DEF RequestRunCancellation, RowInv
<1>3. CASE run[r].status # "running"
  <2> DEFINE row == [CancelledRow(r, run[r], c) EXCEPT !.reason = None]
  <2>1. CancelledRow(r, run[r], c) \in Row /\ Shape(r, row)
    BY <1>1, CancelledRowInv DEF RequestRunCancellation
  <2>2. row \in Row
    BY <2>1, Values DEF Row
  <2> QED BY <1>3, <2>1, <2>2, WriteKeeps DEF RequestRunCancellation, RowInv
<1> QED BY <1>2, <1>3

\* Resuming puts a blocked run back in the queue.
LEMMA ResumeBlockedRunKeeps ==
  ASSUME IInv, NEW r \in Runs, NEW b \in BlockReasons, ResumeBlockedRun(r, b)
  PROVE  IInv'
<1> DEFINE row == [Released(run[r]) EXCEPT !.status = "queued",
                                           !.availableIn = 0,
                                           !.reason = None,
                                           !.finished = FALSE]
<1>1. run[r] \in Row /\ Shape(r, run[r])
  BY RowOfInv DEF RowInv
<1>2. row \in Row
  BY <1>1, Values, Statuses DEF Row, Released
<1>3. Shape(r, row)
  BY <1>1, Statuses DEF Shape, Row, Released, ResumeBlockedRun
<1> QED BY <1>2, <1>3, WriteKeeps DEF ResumeBlockedRun, RowInv

\* The administrative transition keeps rows good without a token.
LEMMA TransitionRunKeeps ==
  ASSUME IInv, NEW r \in Runs, NEW s \in Status \ {"absent", "blocked"},
         NEW stores \in BOOLEAN, TransitionRun(r, s, stores)
  PROVE  IInv'
<1> DEFINE out == IF stores THEN run[r].claims ELSE run[r].output
           row == [run[r] EXCEPT !.output = out]
<1>1. run[r] \in Row /\ Shape(r, run[r]) /\ run[r].cancel = None
  BY RowOfInv DEF RowInv, TransitionRun
<1>2. out \in 0 .. MaxClaims /\ out <= run[r].claims
  BY <1>1, LedgerAssumption DEF Row, Shape, LedgerAssumption
<1>3. /\ run[r].token = NoToken
      /\ run[r].status \in Cancellable \ {"blocked"}
      /\ s = "queued" => run[r].status = "queued"
  BY DEF TransitionRun, Cancellable
<1>4. \/ s \in Terminal /\ Write(r, Settled(r, row, s))
      \/ s = "running" /\ Write(r, [row EXCEPT !.status = s, !.lease = 0])
      \/ s \in {"queued", "waiting_approval"} /\ Write(r, [row EXCEPT !.status = s])
  BY DEF TransitionRun
<1> HIDE DEF out
<1>5. row \in Row
  BY <1>1, <1>2 DEF Row
<1>6. Shape(r, row)
  BY <1>1, <1>2, <1>3 DEF Shape, Row, Cancellable
<1>7. /\ row.token = NoToken /\ row.status = run[r].status
      /\ row.cancel = None
  BY <1>1, <1>3 DEF Row
<1> HIDE DEF row
<1>8. CASE s \in Terminal /\ Write(r, Settled(r, row, s))
  BY <1>3, <1>5, <1>6, <1>7, <1>8, SettledInv, WriteKeeps
<1>9. CASE s = "running" /\ Write(r, [row EXCEPT !.status = s, !.lease = 0])
  <2> DEFINE new == [row EXCEPT !.status = s, !.lease = 0]
  <2>1. new \in Row
    BY <1>5, <1>9, Values, Statuses DEF Row
  <2>2. Shape(r, new)
    BY <1>3, <1>5, <1>6, <1>7, <1>9, Values, Statuses DEF Shape, Row, Cancellable
  <2> QED BY <1>9, <2>1, <2>2, WriteKeeps DEF RowInv
<1>10. CASE s \in {"queued", "waiting_approval"} /\ Write(r, [row EXCEPT !.status = s])
  <2> DEFINE new == [row EXCEPT !.status = s]
  <2>1. new \in Row
    BY <1>5, <1>10, Statuses DEF Row
  <2>2. Shape(r, new)
    BY <1>3, <1>5, <1>6, <1>7, <1>10, Statuses DEF Shape, Row, Cancellable
  <2> QED BY <1>10, <2>1, <2>2, WriteKeeps DEF RowInv
<1> QED BY <1>4, <1>8, <1>9, <1>10

\* The clock never turns an expiry into NULL nor NULL into an expiry.
LEMMA TickKeeps ==
  ASSUME IInv, Tick PROVE IInv'
<1> SUFFICES ASSUME NEW r \in Runs PROVE RowInv(r, run'[r])
  <2>1. \A r \in Runs : RowInv(r, run'[r])
    OBVIOUS
  <2>2. run' = [r \in Runs |-> run'[r]]
    BY DEF Tick
  <2> QED BY <2>1, <2>2 DEF IInv, TypeOK, RowInv, Shape
<1> DEFINE wait == Elapsed(run[r].availableIn)
           left == Elapsed(run[r].lease)
           row == [run[r] EXCEPT !.availableIn = wait, !.lease = left]
<1>1. run[r] \in Row /\ Shape(r, run[r])
  BY RowOfInv DEF RowInv
<1>2. wait \in 0 .. MaxDelay
  BY <1>1, LedgerAssumption DEF Row, Elapsed, LedgerAssumption
<1>3. left \in NoLease .. LeaseTerm /\ (left = NoLease <=> run[r].lease = NoLease)
  BY <1>1, LedgerAssumption DEF Row, Elapsed, LedgerAssumption, NoLease
<1>4. run'[r] = row
  BY DEF Tick
<1> HIDE DEF wait, left
<1>5. row \in Row
  BY <1>1, <1>2, <1>3 DEF Row
<1>6. Shape(r, row)
  BY <1>1, <1>3 DEF Shape, Row
<1> QED BY <1>4, <1>5, <1>6 DEF RowInv
-------------------------------------------------------------------------------
(* The inductive invariant and what follows from it *)

\* The empty ledger satisfies the invariant.
LEMMA InitInv == Init => IInv
<1>1. NoRow \in Row
  BY Values, Statuses DEF Row, NoRow
<1>2. ASSUME NEW r \in Runs PROVE Shape(r, NoRow)
  BY Statuses DEF Shape, NoRow, NoToken
<1> QED BY <1>1, <1>2 DEF Init, IInv, TypeOK

\* Every step keeps the invariant.
LEMMA NextKeeps == IInv /\ [Next]_run => IInv'
<1> SUFFICES ASSUME IInv, [Next]_run PROVE IInv'
  OBVIOUS
<1>1. CASE UNCHANGED run
  BY <1>1 DEF IInv, TypeOK, Shape
<1>2. CASE Tick
  BY <1>2, TickKeeps
<1>3. ASSUME NEW r \in Runs, CreateRun(r) PROVE IInv'
  BY <1>3, CreateRunKeeps
<1>4. ASSUME NEW r \in Runs, Claim(r) PROVE IInv'
  BY <1>4, ClaimKeeps
<1>5. ASSUME NEW r \in Runs, FencedStep(r) PROVE IInv'
  BY <1>5, RenewRunLeaseKeeps, CheckpointRunKeeps, RequeueRunKeeps,
     BlockRunKeeps, FinishRunKeeps, AcknowledgeRunCancellationKeeps
  DEF FencedStep
<1>6. ASSUME NEW r \in Runs, OperatorStep(r) PROVE IInv'
  BY <1>6, RequestRunCancellationKeeps, ResumeBlockedRunKeeps, TransitionRunKeeps
  DEF OperatorStep
<1> QED BY <1>1, <1>2, <1>3, <1>4, <1>5, <1>6 DEF Next

\* The inductive invariant holds of every behaviour.
THEOREM Invariant == Spec => []IInv
BY InitInv, NextKeeps, PTL DEF Spec

\* Every row keeps its type, for any number of runs, claims and leases.
THEOREM TypeCorrect == Spec => []TypeOK
<1>1. IInv => TypeOK
  BY DEF IInv
<1> QED BY <1>1, Invariant, PTL

\* No statement ever writes a row that the CHECK constraints of
\* execution_runs reject.
THEOREM ShapesHold == Spec => []SchemaShapes
<1>1. IInv => SchemaShapes
  BY DEF IInv, TypeOK, Shape, SchemaShapes
<1> QED BY <1>1, Invariant, PTL

\* No run is ever lost to the workers.
THEOREM NoneStranded == Spec => []NoStrandedRun
<1>1. IInv => NoStrandedRun
  BY DEF IInv, TypeOK, Shape, NoStrandedRun
<1> QED BY <1>1, Invariant, PTL

\* The product is owed exactly the outcome of every settled managed run.
THEOREM OutboxSound == Spec => []OutboxMatchesOutcome
<1>1. IInv => OutboxMatchesOutcome
  BY DEF IInv, TypeOK, Shape, OutboxMatchesOutcome
<1> QED BY <1>1, Invariant, PTL
-------------------------------------------------------------------------------
(* Stored outputs *)

\* A claim leaves the stored outputs alone.
LEMMA OutputOfClaim ==
  ASSUME IInv, NEW r \in Runs, Claim(r), NEW q \in Runs
  PROVE  run'[q].output = run[q].output
BY DEF IInv, TypeOK, Claim, Write, Row

\* The clock leaves the stored outputs alone.
LEMMA OutputOfTick ==
  ASSUME IInv, Tick, NEW q \in Runs
  PROVE  run'[q].output = run[q].output
BY DEF IInv, TypeOK, Tick, Row

\* A fenced statement credits an output to the newest claim only.
LEMMA OutputOfFencedStep ==
  ASSUME IInv, NEW r \in Runs, FencedStep(r), NEW q \in Runs
  PROVE  run'[q].output \in {run[q].output, run[q].claims}
<1> run \in [Runs -> Row]
  BY DEF IInv, TypeOK
<1>1. ASSUME NEW t \in Tokens(r), Fenced(run[r], t) PROVE t = run[r].claims
  BY <1>1, FencedRow
<1>2. ASSUME NEW t \in Tokens(r), RenewRunLease(r, t)
      PROVE  run'[q].output \in {run[q].output, run[q].claims}
  BY <1>2 DEF RenewRunLease, Write, Row
<1>3. ASSUME NEW t \in Tokens(r), NEW stores \in BOOLEAN, NEW increments \in BOOLEAN,
             CheckpointRun(r, t, stores, increments)
      PROVE  run'[q].output \in {run[q].output, run[q].claims}
  BY <1>1, <1>3 DEF CheckpointRun, Write, Row
<1>4. ASSUME NEW t \in Tokens(r), NEW delay \in 0 .. MaxDelay, RequeueRun(r, t, delay)
      PROVE  run'[q].output = run[q].output
  BY <1>4 DEF RequeueRun, Released, Write, Row
<1>5. ASSUME NEW t \in Tokens(r), NEW b \in BlockReasons, BlockRun(r, t, b)
      PROVE  run'[q].output = run[q].output
  <2>1. \/ Write(r, [Released(run[r]) EXCEPT !.status = "blocked",
                                              !.reason = b, !.finished = FALSE])
        \/ Write(r, CancelledRow(r, run[r], run[r].cancel))
    BY <1>5 DEF BlockRun
  <2>2. CASE Write(r, [Released(run[r]) EXCEPT !.status = "blocked",
                                               !.reason = b, !.finished = FALSE])
    BY <2>2 DEF Released, Write, Row
  <2>3. CASE Write(r, CancelledRow(r, run[r], run[r].cancel))
    BY <2>3 DEF CancelledRow, Settled, Released, Write, Row
  <2> QED BY <2>1, <2>2, <2>3
<1>6. ASSUME NEW t \in Tokens(r), NEW s \in Terminal, NEW stores \in BOOLEAN,
             FinishRun(r, t, s, stores)
      PROVE  run'[q].output \in {run[q].output, run[q].claims}
  BY <1>1, <1>6 DEF FinishRun, Settled, Released, Write, Row
<1>7. ASSUME NEW t \in Tokens(r), NEW c \in CancelIds,
             AcknowledgeRunCancellation(r, t, c)
      PROVE  run'[q].output = run[q].output
  BY <1>7 DEF AcknowledgeRunCancellation, CancelledRow, Settled, Released, Write, Row
<1> QED BY <1>2, <1>3, <1>4, <1>5, <1>6, <1>7 DEF FencedStep

\* So does a statement of an operator.
LEMMA OutputOfOperatorStep ==
  ASSUME IInv, NEW r \in Runs, OperatorStep(r), NEW q \in Runs
  PROVE  run'[q].output \in {run[q].output, run[q].claims}
<1> run \in [Runs -> Row]
  BY DEF IInv, TypeOK
<1>1. ASSUME NEW c \in CancelIds, RequestRunCancellation(r, c)
      PROVE  run'[q].output = run[q].output
  <2>1. \/ Write(r, [run[r] EXCEPT !.cancel = c, !.reason = None])
        \/ Write(r, [CancelledRow(r, run[r], c) EXCEPT !.reason = None])
    BY <1>1 DEF RequestRunCancellation
  <2>2. CASE Write(r, [run[r] EXCEPT !.cancel = c, !.reason = None])
    BY <2>2 DEF Write, Row
  <2>3. CASE Write(r, [CancelledRow(r, run[r], c) EXCEPT !.reason = None])
    BY <2>3 DEF CancelledRow, Settled, Released, Write, Row
  <2> QED BY <2>1, <2>2, <2>3
<1>2. ASSUME NEW b \in BlockReasons, ResumeBlockedRun(r, b)
      PROVE  run'[q].output = run[q].output
  BY <1>2 DEF ResumeBlockedRun, Released, Write, Row
<1>3. ASSUME NEW s \in Status \ {"absent", "blocked"}, NEW stores \in BOOLEAN,
             TransitionRun(r, s, stores)
      PROVE  run'[q].output \in {run[q].output, run[q].claims}
  <2> DEFINE out == IF stores THEN run[r].claims ELSE run[r].output
             row == [run[r] EXCEPT !.output = out]
  <2>1. \/ Write(r, Settled(r, row, s))
        \/ Write(r, [row EXCEPT !.status = s, !.lease = 0])
        \/ Write(r, [row EXCEPT !.status = s])
    BY <1>3 DEF TransitionRun
  <2>2. out \in {run[r].output, run[r].claims}
    OBVIOUS
  <2> HIDE DEF out
  <2>3. CASE Write(r, Settled(r, row, s))
    BY <2>2, <2>3 DEF Settled, Write, Row
  <2>4. CASE Write(r, [row EXCEPT !.status = s, !.lease = 0])
    BY <2>2, <2>4 DEF Write, Row
  <2>5. CASE Write(r, [row EXCEPT !.status = s])
    BY <2>2, <2>5 DEF Write, Row
  <2> QED BY <2>1, <2>3, <2>4, <2>5
<1> QED BY <1>1, <1>2, <1>3 DEF OperatorStep

\* A worker that lost its lease cannot overwrite what a later claim stored.
THEOREM OutputMonotone == Spec => OutputNeverRegresses
<1>1. IInv /\ IInv' /\ [Next]_run => [\A r \in Runs : run'[r].output >= run[r].output]_run
  <2> SUFFICES ASSUME IInv, IInv', Next, NEW q \in Runs
               PROVE  run'[q].output >= run[q].output
    OBVIOUS
  <2>1. /\ run[q].output \in Nat /\ run[q].claims \in Nat /\ run'[q].output \in Nat
        /\ run[q].output <= run[q].claims
        /\ run[q].status = "absent" => run[q].output = 0
    <3>1. run[q] \in Row /\ run'[q] \in Row /\ Shape(q, run[q])
      BY DEF IInv, TypeOK
    <3> QED BY <3>1, LedgerAssumption DEF Row, Shape, LedgerAssumption
  <2>2. ASSUME NEW r \in Runs, CreateRun(r)
        PROVE  run'[q].output = run[q].output \/ run[q].status = "absent"
    BY <2>2 DEF CreateRun, Write, IInv, TypeOK
  <2>3. \/ run'[q].output \in {run[q].output, run[q].claims}
        \/ run[q].status = "absent"
    BY <2>2, OutputOfClaim, OutputOfTick, OutputOfFencedStep, OutputOfOperatorStep DEF Next
  <2> QED BY <2>1, <2>3
<1> QED BY <1>1, Invariant, PTL DEF Spec, OutputNeverRegresses
-------------------------------------------------------------------------------
(* Refinement of RunLifecycle *)

\* A write that leaves a run open and its stop alone changes nothing the
\* lifecycle sees.
LEMMA KeepsLifecycle ==
  ASSUME IInv, NEW r \in Runs, Write(r, run'[r]),
         run[r].status \in Cancellable, run'[r].status \in Cancellable,
         run'[r].cancel = run[r].cancel, run'[r].projection = run[r].projection
  PROVE  UNCHANGED Lifecycle!lifecycle
<1> USE DEF IInv, TypeOK, Write
<1>1. UNCHANGED phase
  BY Statuses DEF phase, Cancellable
<1>2. UNCHANGED [x \in Runs |-> run[x].cancel]
  OBVIOUS
<1>3. UNCHANGED [x \in Runs |-> IF run[x].status \in Terminal THEN run[x].status ELSE None]
  BY Statuses DEF Cancellable
<1>4. UNCHANGED [x \in Runs |-> run[x].projection]
  OBVIOUS
<1> QED BY <1>1, <1>2, <1>3, <1>4 DEF Lifecycle!lifecycle

\* A write that settles an open run is a Settle step of the lifecycle.
LEMMA SettlesLifecycle ==
  ASSUME IInv, IInv', NEW r \in Runs, Write(r, run'[r]),
         run[r].status \in Cancellable, NEW o \in Terminal, run'[r].status = o,
         NEW c \in CancelIds \cup {None}, run'[r].cancel = c,
         c = run[r].cancel \/ run[r].cancel = None
  PROVE  Lifecycle!Next
<1> USE DEF IInv, TypeOK, Write
<1>1. run' = [run EXCEPT ![r] = run'[r]]
  OBVIOUS
<1>2. /\ c # None => o = "cancelled"
      /\ run'[r].projection = IF r \in ManagedRuns THEN o ELSE None
  BY <1>1, Statuses DEF Shape, Row
<1>3. Lifecycle!Settle(r, o, c)
  <2>1. phase[r] = "open"
    BY Statuses DEF phase, Cancellable
  <2>2. phase' = [phase EXCEPT ![r] = "settled"]
    BY Statuses DEF phase, Cancellable
  <2> QED BY <1>1, <1>2, <2>1, <2>2 DEF Lifecycle!Settle
<1> QED BY <1>3 DEF Lifecycle!Next

\* A write that records the first stop of an open run is a RequestStop step.
LEMMA StopsLifecycle ==
  ASSUME IInv, NEW r \in Runs, Write(r, run'[r]),
         run[r].status \in Cancellable, run'[r].status \in Cancellable,
         run[r].cancel = None, NEW c \in CancelIds, run'[r].cancel = c,
         run'[r].projection = run[r].projection
  PROVE  Lifecycle!Next
<1> USE DEF IInv, TypeOK, Write
<1>1. phase[r] = "open" /\ UNCHANGED phase
  BY Statuses DEF phase, Cancellable
<1>2. UNCHANGED [x \in Runs |-> IF run[x].status \in Terminal THEN run[x].status ELSE None]
  BY Statuses DEF Cancellable
<1>3. UNCHANGED [x \in Runs |-> run[x].projection]
  OBVIOUS
<1>4. Lifecycle!RequestStop(r, c)
  BY <1>1, <1>2, <1>3 DEF Lifecycle!RequestStop
<1> QED BY <1>4 DEF Lifecycle!Next

\* Admission is an Admit step.
LEMMA CreateRunImplements ==
  ASSUME IInv, NEW r \in Runs, CreateRun(r) PROVE Lifecycle!Next
<1> DEFINE row == [NoRow EXCEPT !.status = "queued"]
<1> USE DEF IInv, TypeOK, Write
<1>1. /\ run' = [run EXCEPT ![r] = row] /\ run[r].status = "absent"
      /\ run[r].cancel = None /\ run[r].projection = None
      /\ row.status = "queued" /\ row.cancel = None /\ row.projection = None
  BY Statuses DEF CreateRun, Shape, NoRow
<1> HIDE DEF row
<1>2. phase[r] = "absent" /\ phase' = [phase EXCEPT ![r] = "open"]
  BY <1>1, Statuses DEF phase
<1>3. UNCHANGED [x \in Runs |-> run[x].cancel]
  BY <1>1
<1>4. UNCHANGED [x \in Runs |-> IF run[x].status \in Terminal THEN run[x].status ELSE None]
  BY <1>1, Statuses
<1>5. UNCHANGED [x \in Runs |-> run[x].projection]
  BY <1>1
<1>6. Lifecycle!Admit(r)
  BY <1>2, <1>3, <1>4, <1>5 DEF Lifecycle!Admit
<1> QED BY <1>6 DEF Lifecycle!Next

\* The clock is invisible to the lifecycle.
LEMMA TickImplements ==
  ASSUME IInv, Tick PROVE UNCHANGED Lifecycle!lifecycle
<1>1. ASSUME NEW r \in Runs
      PROVE  /\ run'[r].status = run[r].status
             /\ run'[r].cancel = run[r].cancel
             /\ run'[r].projection = run[r].projection
  BY RowOfInv DEF Tick, RowInv, Row
<1> QED BY <1>1 DEF Lifecycle!lifecycle, phase

\* A fenced statement settles the run as the lifecycle allows, or is invisible.
LEMMA FencedStepImplements ==
  ASSUME IInv, IInv', NEW r \in Runs, FencedStep(r)
  PROVE  Lifecycle!Next \/ UNCHANGED Lifecycle!lifecycle
<1> PICK t \in Tokens(r) :
      \/ RenewRunLease(r, t)
      \/ \E stores, increments \in BOOLEAN : CheckpointRun(r, t, stores, increments)
      \/ \E delay \in 0 .. MaxDelay : RequeueRun(r, t, delay)
      \/ \E b \in BlockReasons : BlockRun(r, t, b)
      \/ \E s \in Terminal \ {"cancelled"}, stores \in BOOLEAN : FinishRun(r, t, s, stores)
      \/ \E c \in CancelIds : AcknowledgeRunCancellation(r, t, c)
  BY DEF FencedStep
<1>1. /\ run[r] \in Row /\ run[r].status = "running" /\ run[r].projection = None
      /\ run[r].status \in Cancellable /\ run \in [Runs -> Row]
  BY FencedRow DEF RenewRunLease, CheckpointRun, RequeueRun, BlockRun, FinishRun,
     AcknowledgeRunCancellation, Cancellable, IInv, TypeOK
<1>2. CASE RenewRunLease(r, t)
  <2>1. /\ Write(r, run'[r]) /\ run'[r].status = "running"
        /\ run'[r].cancel = run[r].cancel /\ run'[r].projection = None
    BY <1>1, <1>2 DEF RenewRunLease, Write, Row
  <2> QED BY <1>1, <2>1, KeepsLifecycle
<1>3. ASSUME NEW stores \in BOOLEAN, NEW increments \in BOOLEAN,
             CheckpointRun(r, t, stores, increments)
      PROVE  UNCHANGED Lifecycle!lifecycle
  <2>1. /\ Write(r, run'[r]) /\ run'[r].status = "running"
        /\ run'[r].cancel = run[r].cancel /\ run'[r].projection = None
    BY <1>1, <1>3 DEF CheckpointRun, Write, Row
  <2> QED BY <1>1, <2>1, KeepsLifecycle
<1>4. ASSUME NEW delay \in 0 .. MaxDelay, RequeueRun(r, t, delay)
      PROVE  UNCHANGED Lifecycle!lifecycle
  <2>1. /\ Write(r, run'[r]) /\ run'[r].status = "queued"
        /\ run'[r].cancel = run[r].cancel /\ run'[r].projection = None
    BY <1>1, <1>4 DEF RequeueRun, Released, Write, Row
  <2> QED BY <1>1, <2>1, KeepsLifecycle DEF Cancellable
<1>5. ASSUME NEW b \in BlockReasons, BlockRun(r, t, b)
      PROVE  Lifecycle!Next \/ UNCHANGED Lifecycle!lifecycle
  <2>1. CASE run[r].cancel = None
    <3>1. Write(r, [Released(run[r]) EXCEPT !.status = "blocked",
                                            !.reason = b, !.finished = FALSE])
      BY <1>5, <2>1 DEF BlockRun
    <3>2. /\ Write(r, run'[r]) /\ run'[r].status = "blocked"
          /\ run'[r].cancel = run[r].cancel /\ run'[r].projection = None
      BY <1>1, <3>1 DEF Released, Write, Row
    <3> QED BY <1>1, <3>2, KeepsLifecycle DEF Cancellable
  <2>2. CASE run[r].cancel # None
    <3>1. Write(r, CancelledRow(r, run[r], run[r].cancel))
      BY <1>5, <2>2 DEF BlockRun
    <3>2. /\ Write(r, run'[r]) /\ run'[r].status = "cancelled"
          /\ run'[r].cancel = run[r].cancel
      BY <1>1, <3>1 DEF CancelledRow, Settled, Released, Write, Row
    <3> QED BY <1>1, <3>2, SettlesLifecycle, Statuses DEF Row
  <2> QED BY <2>1, <2>2
<1>6. ASSUME NEW s \in Terminal \ {"cancelled"}, NEW stores \in BOOLEAN,
             FinishRun(r, t, s, stores)
      PROVE  Lifecycle!Next
  <2>1. /\ Write(r, run'[r]) /\ run'[r].status = s
        /\ run'[r].cancel = run[r].cancel
    BY <1>1, <1>6 DEF FinishRun, Settled, Released, Write, Row
  <2> QED BY <1>1, <2>1, SettlesLifecycle DEF Row
<1>7. ASSUME NEW c \in CancelIds, AcknowledgeRunCancellation(r, t, c)
      PROVE  Lifecycle!Next
  <2>1. /\ Write(r, run'[r]) /\ run'[r].status = "cancelled"
        /\ run'[r].cancel = run[r].cancel
    BY <1>1, <1>7
    DEF AcknowledgeRunCancellation, CancelledRow, Settled, Released, Write, Row
  <2> QED BY <1>1, <2>1, SettlesLifecycle, Statuses DEF Row
<1> QED BY <1>2, <1>3, <1>4, <1>5, <1>6, <1>7

\* A claim is invisible to the lifecycle.
LEMMA ClaimImplements ==
  ASSUME IInv, NEW r \in Runs, Claim(r) PROVE UNCHANGED Lifecycle!lifecycle
<1>1. run[r] \in Row /\ run \in [Runs -> Row] /\ run[r].status \in Cancellable
  BY DEF IInv, TypeOK, Claim, Claimable, Cancellable
<1>2. /\ Write(r, run'[r]) /\ run'[r].status = "running"
      /\ run'[r].cancel = run[r].cancel /\ run'[r].projection = run[r].projection
  BY <1>1 DEF Claim, Write, Row
<1> QED BY <1>1, <1>2, KeepsLifecycle DEF Cancellable

\* A statement of an operator stops or settles the run, or is invisible.
LEMMA OperatorStepImplements ==
  ASSUME IInv, IInv', NEW r \in Runs, OperatorStep(r)
  PROVE  Lifecycle!Next \/ UNCHANGED Lifecycle!lifecycle
<1>1. /\ run[r] \in Row /\ run \in [Runs -> Row]
      /\ run[r].status \in Cancellable => run[r].projection = None
  BY Statuses DEF IInv, TypeOK, Shape, Cancellable
<1>2. ASSUME NEW c \in CancelIds, RequestRunCancellation(r, c)
      PROVE  Lifecycle!Next
  <2>1. CASE run[r].status = "running"
    <3>1. Write(r, [run[r] EXCEPT !.cancel = c, !.reason = None])
      BY <1>2, <2>1 DEF RequestRunCancellation
    <3>2. /\ Write(r, run'[r]) /\ run'[r].status = "running"
          /\ run'[r].cancel = c /\ run'[r].projection = run[r].projection
      BY <1>1, <2>1, <3>1 DEF Write, Row
    <3> QED BY <1>2, <2>1, <3>2, StopsLifecycle
            DEF RequestRunCancellation, Cancellable
  <2>2. CASE run[r].status # "running"
    <3>1. Write(r, [CancelledRow(r, run[r], c) EXCEPT !.reason = None])
      BY <1>2, <2>2 DEF RequestRunCancellation
    <3>2. /\ Write(r, run'[r]) /\ run'[r].status = "cancelled" /\ run'[r].cancel = c
      BY <1>1, <3>1 DEF CancelledRow, Settled, Released, Write, Row
    <3> QED BY <1>2, <3>2, SettlesLifecycle, Statuses DEF RequestRunCancellation
  <2> QED BY <2>1, <2>2
<1>3. ASSUME NEW b \in BlockReasons, ResumeBlockedRun(r, b)
      PROVE  UNCHANGED Lifecycle!lifecycle
  <2>1. /\ Write(r, run'[r]) /\ run'[r].status = "queued"
        /\ run'[r].cancel = run[r].cancel /\ run'[r].projection = run[r].projection
    BY <1>1, <1>3 DEF ResumeBlockedRun, Released, Write, Row
  <2> QED BY <1>3, <2>1, KeepsLifecycle DEF ResumeBlockedRun, Cancellable
<1>4. ASSUME NEW s \in Status \ {"absent", "blocked"}, NEW stores \in BOOLEAN,
             TransitionRun(r, s, stores)
      PROVE  Lifecycle!Next \/ UNCHANGED Lifecycle!lifecycle
  <2>1. run[r].status \in Cancellable /\ run[r].cancel = None
    BY <1>4 DEF TransitionRun, Cancellable
  <2>2. CASE s \in Terminal
    <3>1. PICK out : Write(r, Settled(r, [run[r] EXCEPT !.output = out], s))
      BY <1>4, <2>2, Statuses DEF TransitionRun
    <3>2. /\ Write(r, run'[r]) /\ run'[r].status = s
          /\ run'[r].cancel = run[r].cancel
      BY <1>1, <3>1 DEF Settled, Write, Row
    <3> QED BY <1>1, <2>1, <2>2, <3>2, SettlesLifecycle DEF Row
  <2>3. CASE s \notin Terminal
    <3>1. s \in Cancellable
      BY <2>3, <1>4 DEF TransitionRun, Cancellable
    <3> DEFINE out == IF stores THEN run[r].claims ELSE run[r].output
    <3>2. \/ Write(r, [[run[r] EXCEPT !.output = out] EXCEPT !.status = s, !.lease = 0])
          \/ Write(r, [[run[r] EXCEPT !.output = out] EXCEPT !.status = s])
      BY <1>4, <2>3 DEF TransitionRun
    <3> HIDE DEF out
    <3>3. /\ Write(r, run'[r]) /\ run'[r].status = s
          /\ run'[r].cancel = run[r].cancel /\ run'[r].projection = run[r].projection
      <4>1. CASE Write(r, [[run[r] EXCEPT !.output = out] EXCEPT !.status = s])
        BY <1>1, <4>1 DEF Write, Row
      <4>2. CASE Write(r, [[run[r] EXCEPT !.output = out]
                             EXCEPT !.status = s, !.lease = 0])
        BY <1>1, <4>2 DEF Write, Row
      <4> QED BY <3>2, <4>1, <4>2
    <3> QED BY <2>1, <3>1, <3>3, KeepsLifecycle
  <2> QED BY <2>2, <2>3
<1> QED BY <1>2, <1>3, <1>4 DEF OperatorStep

\* The empty ledger is the empty lifecycle.
LEMMA InitImplements == Init => Lifecycle!Init
<1> SUFFICES ASSUME Init PROVE Lifecycle!Init
  OBVIOUS
<1>1. /\ NoRow.status = "absent" /\ NoRow.cancel = None /\ NoRow.projection = None
      /\ "absent" \notin Terminal
  BY Statuses DEF NoRow
<1> QED BY <1>1 DEF Init, Lifecycle!Init, phase

\* The ledger implements the lifecycle: settling is final, the first stop
\* stands, and a managed outcome is owed from the step that settles it.
THEOREM Implements == Spec => ImplementsLifecycle
<1>1. IInv /\ IInv' /\ [Next]_run => [Lifecycle!Next]_(Lifecycle!lifecycle)
  <2> SUFFICES ASSUME IInv, IInv', [Next]_run
               PROVE  Lifecycle!Next \/ UNCHANGED Lifecycle!lifecycle
    OBVIOUS
  <2>1. CASE UNCHANGED run
    BY <2>1 DEF Lifecycle!lifecycle, phase
  <2>2. CASE Next
    BY <2>2, TickImplements, CreateRunImplements, ClaimImplements,
       FencedStepImplements, OperatorStepImplements
    DEF Next
  <2> QED BY <2>1, <2>2
<1> QED BY <1>1, InitImplements, Invariant, PTL
        DEF Spec, ImplementsLifecycle, Lifecycle!Spec

\* What every statement on a run row keeps, in one.
THEOREM RowsHoldAlways == Spec => []RowsHold
BY TypeCorrect, ShapesHold, NoneStranded, OutboxSound, PTL DEF RowsHold

-------------------------------------------------------------------------------
(* An origin: its receipt, its children, and the pages of a fan-out        *)


\* Every started fan-out has left its receipt: from then on no child is admitted.
StartedIsRecorded ==
  \A s \in Stops : stop[s].pc # "idle" => origin.cancel # None

\* Between pages nothing is left to ask for.
PageAskedFor ==
  \A s \in Stops : stop[s].pc = "paging" => stop[s].todo = {}

\* A page that was reported to be the last one is.
LastPageIsLast ==
  \A s \in Stops : stop[s].pc = "requesting" /\ ~stop[s].more =>
    \A c \in Origin!Registered : c <= stop[s].after

\* What the proofs about an origin carry along.
OriginInv ==
  /\ Origin!TypeOK
  /\ StartedIsRecorded
  /\ PageAskedFor
  /\ LastPageIsLast
  /\ Origin!NothingBehindCursor
  /\ Origin!StopCoversChildren

\* The order of run ids, as a relation, has no infinite descent.
Below == {ss \in Nat \X Nat : ss[1] < ss[2]}

\* The order of the numbers, as a relation one can descend along.
LEMMA BelowWellFounded == IsWellFoundedOn(Below, Nat)
BY NatLessThanWellFounded DEF OpToRel, Below

\* A nonempty set of naturals with an upper bound has a greatest element.
LEMMA Greatest ==
  ASSUME NEW S \in SUBSET Nat, S # {}, NEW b \in Nat, \A x \in S : x <= b
  PROVE  \E m \in S : \A x \in S : x <= m
<1> DEFINE Bounds == {n \in Nat : \A x \in S : x <= n}
<1>1. Bounds \subseteq Nat /\ Bounds # {}
  OBVIOUS
<1> HIDE DEF Bounds
<1>2. PICK n \in Bounds : \A m \in Bounds : ~(<<m, n>> \in Below)
  BY ONLY <1>1, BelowWellFounded, WFMin, Zenon
<1>3. n \in Nat /\ \A x \in S : x <= n
  BY DEF Bounds
<1>4. n \in S
  <2> SUFFICES ASSUME n \notin S PROVE FALSE
    OBVIOUS
  <2>1. \A x \in S : x <= n - 1
    BY <1>3
  <2>2. n # 0
    <3>1. PICK x \in S : x \in Nat
      OBVIOUS
    <3> QED BY <1>3, <3>1
  <2>3. n - 1 \in Bounds
    BY <1>3, <2>1, <2>2 DEF Bounds
  <2>4. <<n - 1, n>> \in Below
    BY <1>3, <2>2 DEF Below
  <2> QED BY <1>2, <2>3, <2>4
<1> QED BY <1>3, <1>4

\* The instance counts as the standard module does.
LEMMA SameCardinality == \A S : Origin!Cardinality(S) = Cardinality(S)
BY DEF Origin!Cardinality, Cardinality

\* The cursor moves to the last child of the page: nothing of the page is beyond
\* it, and every registered child between the cursors is on the page.
LEMMA PageReachesCursor ==
  ASSUME Origin!OriginAssumption, NEW after \in 0 .. N
  PROVE  /\ Origin!Page(after) \subseteq 1 .. N
         /\ Origin!Cursor(after) \in 0 .. N
         /\ \A c \in Origin!Registered :
              after < c /\ c <= Origin!Cursor(after) => c \in Origin!Page(after)
<1> DEFINE page == Origin!Page(after)
           last == Origin!Cursor(after)
           upTo(c) == {d \in Origin!Registered : after < d /\ d <= c}
<1>1. N \in Nat /\ PageSize \in Nat
  BY DEF Origin!OriginAssumption
<1>2. Origin!Registered \subseteq 1 .. N
  BY DEF Origin!Registered, Origin!Children
<1>3. page = {c \in Origin!Registered : c > after /\ Cardinality(upTo(c)) <= PageSize}
  BY SameCardinality DEF Origin!Page
<1>4. page \subseteq 1 .. N
  BY <1>2, <1>3
<1>5. last = CHOOSE c \in page \cup {after} : \A d \in page : d <= c
  BY DEF Origin!Cursor
<1> HIDE DEF page, last
<1>6. \E c \in page \cup {after} : \A d \in page : d <= c
  <2> DEFINE S == page \cup {after}
  <2>1. S \in SUBSET Nat /\ S # {} /\ \A x \in S : x <= N
    BY <1>1, <1>4
  <2> HIDE DEF S
  <2>2. PICK m \in S : \A d \in S : d <= m
    BY <1>1, <2>1, Greatest
  <2> QED BY <2>2 DEF S
<1>7. last \in page \cup {after} /\ \A d \in page : d <= last
  BY <1>5, <1>6
<1>8. ASSUME NEW c \in Origin!Registered, after < c, c <= last PROVE c \in page
  <2>1. c \in 1 .. N
    BY <1>2
  <2>2. last \in page
    BY <1>1, <1>7, <1>8, <2>1
  <2>3. last \in 1 .. N
    BY <1>4, <2>2
  <2>4. IsFiniteSet(upTo(last)) /\ upTo(c) \subseteq upTo(last)
    <3>1. IsFiniteSet(1 .. N)
      BY <1>1, FS_Interval
    <3>2. upTo(last) \subseteq 1 .. N
      BY <1>2
    <3>3. \A d \in 1 .. N : d <= c => d <= last
      BY <1>8, <2>1, <2>3
    <3> QED BY <1>2, <3>1, <3>2, <3>3, FS_Subset
  <2>5. Cardinality(upTo(c)) <= Cardinality(upTo(last))
    BY <2>4, FS_Subset
  <2>6. Cardinality(upTo(c)) \in Nat /\ Cardinality(upTo(last)) \in Nat
    BY <2>4, FS_Subset, FS_CardinalityType
  <2>7. Cardinality(upTo(last)) <= PageSize
    BY <1>3, <2>2
  <2>8. Cardinality(upTo(c)) <= PageSize
    BY <1>1, <2>5, <2>6, <2>7
  <2> QED BY <1>3, <1>8, <2>8, <2>1
<1>9. last \in 0 .. N
  BY <1>4, <1>7
<1> QED
  BY <1>4, <1>8, <1>9 DEF page, last

-------------------------------------------------------------------------------
(* The Stop fan-out keeps its invariant *)

\* A child, once registered, stays registered; and one that ended, or was asked
\* to stop, is never again without both.
ChildrenMoveOn ==
  /\ Origin!Registered \subseteq Origin!Registered'
  /\ \A c \in Origin!Registered : Origin!Unstopped(c)' => Origin!Unstopped(c)

\* A step that only moves children on, and admits one only while no Stop is
\* recorded, keeps what the fan-outs rely on.
LEMMA ChildrenStepKeeps ==
  ASSUME OriginInv, Origin!TypeOK', ChildrenMoveOn, UNCHANGED <<origin, stop>>,
         origin.cancel # None => Origin!Registered' = Origin!Registered
  PROVE  OriginInv'
<1>1. \A s \in Stops : stop[s].pc # "idle" => Origin!Registered' = Origin!Registered
  BY DEF OriginInv, StartedIsRecorded
<1>2. StartedIsRecorded' /\ PageAskedFor' /\ LastPageIsLast'
  BY <1>1 DEF OriginInv, StartedIsRecorded, PageAskedFor, LastPageIsLast
<1>3. Origin!NothingBehindCursor'
  BY <1>1 DEF OriginInv, Origin!NothingBehindCursor, ChildrenMoveOn
<1>4. Origin!StopCoversChildren'
  BY <1>1 DEF OriginInv, Origin!StopCoversChildren, ChildrenMoveOn, Origin!Unstopped
<1> QED BY <1>2, <1>3, <1>4 DEF OriginInv

\* A step on the life of one child moves the children on.
LEMMA BecomeMovesOn ==
  ASSUME Origin!TypeOK, NEW c \in Origin!Children,
         NEW from \in {"queued", "running"},
         NEW to \in {"queued", "running", "completed", "cancelled"},
         Origin!Become(c, from, to)
  PROVE  /\ Origin!TypeOK' /\ ChildrenMoveOn
         /\ Origin!Registered' = Origin!Registered
         /\ UNCHANGED <<origin, stop>>
<1>1. Origin!TypeOK'
  BY DEF Origin!TypeOK, Origin!Become, Origin!Terminal
<1>2. \A d \in Origin!Children : /\ child'[d].cancel = child[d].cancel
                                 /\ child'[d].status = child[d].status \/ d = c
  BY DEF Origin!TypeOK, Origin!Become
<1>3. child[c].status = from /\ child'[c].status = to
  BY DEF Origin!TypeOK, Origin!Become
<1> QED
  BY <1>1, <1>2, <1>3 DEF Origin!Become, ChildrenMoveOn, Origin!Registered,
                          Origin!Unstopped, Origin!Terminal

\* No Stop has been recorded and no fan-out has begun.
LEMMA OriginInit == Origin!Init => OriginInv
BY OriginIs DEF Origin!OriginAssumption, Origin!Init, Origin!Fresh, OriginInv,
   Origin!TypeOK, Origin!Terminal, StartedIsRecorded, PageAskedFor, LastPageIsLast,
   Origin!NothingBehindCursor, Origin!StopCoversChildren, Origin!Children

\* Steps on one child.
LEMMA ChildKeeps ==
  ASSUME OriginInv, NEW c \in Origin!Children,
         \/ Origin!CreateRunWithTrustedOrigin(c) \/ Origin!ClaimRun(c)
         \/ Origin!RequeueRun(c) \/ Origin!FinishRun(c)
         \/ Origin!AcknowledgeCancellation(c) \/ Origin!CancelOneRun(c)
  PROVE  OriginInv'
<1>1. Origin!TypeOK
  BY DEF OriginInv
<1>2. CASE Origin!CreateRunWithTrustedOrigin(c)
  <2>1. Origin!TypeOK'
    BY <1>1, <1>2 DEF Origin!TypeOK, Origin!CreateRunWithTrustedOrigin, Origin!Terminal
  <2>2. /\ child[c].status = "absent" /\ origin.cancel = None
        /\ UNCHANGED <<origin, stop>>
        /\ \A d \in Origin!Children : d # c => child'[d] = child[d]
    BY <1>1, <1>2 DEF Origin!TypeOK, Origin!CreateRunWithTrustedOrigin
  <2>3. ChildrenMoveOn
    BY <2>2 DEF ChildrenMoveOn, Origin!Registered, Origin!Unstopped
  <2> QED BY <2>1, <2>2, <2>3, ChildrenStepKeeps
<1>3. CASE Origin!CancelOneRun(c)
  <2>1. Origin!TypeOK'
    BY <1>1, <1>3 DEF Origin!TypeOK, Origin!CancelOneRun, Origin!Terminal
  <2>2. /\ child[c].status \in {"queued", "running"}
        /\ child'[c].status \in {"running", "cancelled"}
        /\ Origin!Unstopped(c)
        /\ UNCHANGED <<origin, stop>>
        /\ \A d \in Origin!Children : d # c => child'[d] = child[d]
    BY <1>1, <1>3 DEF Origin!TypeOK, Origin!CancelOneRun
  <2>3. ChildrenMoveOn /\ Origin!Registered' = Origin!Registered
    BY <2>2 DEF ChildrenMoveOn, Origin!Registered, Origin!Unstopped
  <2> QED BY <2>1, <2>2, <2>3, ChildrenStepKeeps
<1>4. CASE \/ Origin!ClaimRun(c) \/ Origin!RequeueRun(c) \/ Origin!FinishRun(c)
           \/ Origin!AcknowledgeCancellation(c)
  <2>1. PICK from \in {"queued", "running"},
             to \in {"queued", "running", "completed", "cancelled"} :
               Origin!Become(c, from, to)
    BY <1>4 DEF Origin!ClaimRun, Origin!RequeueRun, Origin!FinishRun,
                Origin!AcknowledgeCancellation
  <2> QED BY <1>1, <2>1, BecomeMovesOn, ChildrenStepKeeps
<1> QED BY <1>2, <1>3, <1>4

\* A command may take the origin, but leaves its receipt and children alone.
LEMMA CommandKeeps ==
  ASSUME OriginInv, NEW k \in Commands,
         Origin!BeginClaim(k) \/ Origin!ClaimExecutionOriginCommand(k)
  PROVE  OriginInv'
<1>1. Origin!TypeOK'
  BY DEF OriginInv, Origin!TypeOK, Origin!BeginClaim, Origin!ClaimExecutionOriginCommand
<1>2. UNCHANGED <<child, stop>> /\ origin'.cancel = origin.cancel
  BY DEF OriginInv, Origin!TypeOK, Origin!BeginClaim, Origin!ClaimExecutionOriginCommand
<1> QED
  BY <1>1, <1>2 DEF OriginInv, StartedIsRecorded, PageAskedFor, LastPageIsLast,
     Origin!NothingBehindCursor, Origin!StopCoversChildren, Origin!Registered, Origin!Unstopped

\* A fan-out that starts leaves its receipt first.
LEMMA RequestOriginCancellationKeeps ==
  ASSUME OriginInv, NEW s \in Stops, Origin!RequestOriginCancellation(s)
  PROVE  OriginInv'
<1>1. 0 \in 0 .. N /\ None \notin Stops
  BY OriginIs DEF Origin!OriginAssumption
<1>2. Origin!TypeOK'
  BY <1>1 DEF OriginInv, Origin!TypeOK, Origin!RequestOriginCancellation, Origin!Fresh
<1>3. /\ stop'[s] = Origin!Fresh("paging")
      /\ \A u \in Stops : u # s => stop'[u] = stop[u]
      /\ origin'.cancel # None /\ UNCHANGED child
  BY <1>1 DEF OriginInv, Origin!TypeOK, Origin!RequestOriginCancellation
<1>4. \A c \in Origin!Registered : ~(c <= 0)
  BY OriginIs DEF Origin!Registered, Origin!Children, Origin!OriginAssumption
<1> QED
  BY <1>2, <1>3, <1>4 DEF OriginInv, StartedIsRecorded, PageAskedFor, LastPageIsLast,
     Origin!NothingBehindCursor, Origin!StopCoversChildren, Origin!Registered,
     Origin!Unstopped, Origin!Fresh

\* The next page: what lies between the two cursors is on it.
LEMMA ListPageKeeps ==
  ASSUME OriginInv, NEW s \in Stops, Origin!ListPage(s) PROVE OriginInv'
<1> DEFINE after == stop[s].after
           last == Origin!Cursor(after)
<1>1. after \in 0 .. N /\ stop[s].todo = {} /\ stop[s].pc = "paging"
  BY DEF OriginInv, Origin!TypeOK, PageAskedFor, Origin!ListPage
<1>2. /\ Origin!Page(after) \subseteq 1 .. N /\ last \in 0 .. N
      /\ \A c \in Origin!Registered : after < c /\ c <= last => c \in Origin!Page(after)
  BY <1>1, OriginIs, PageReachesCursor
<1>3. /\ stop' = [stop EXCEPT ![s] =
             [pc |-> "requesting", after |-> last,
              todo |-> {c \in Origin!Page(after) : Origin!Unstopped(c)},
              more |-> \E c \in Origin!Registered : c > last]]
      /\ UNCHANGED <<origin, child, claim>>
  BY DEF Origin!ListPage
<1> HIDE DEF last, after
<1>4. Origin!TypeOK'
  BY <1>2, <1>3 DEF OriginInv, Origin!TypeOK, Origin!Children
<1>5. /\ stop'[s].pc = "requesting" /\ stop'[s].after = last
      /\ stop'[s].todo = {c \in Origin!Page(after) : Origin!Unstopped(c)}
      /\ stop'[s].more = (\E c \in Origin!Registered : c > last)
      /\ \A u \in Stops : u # s => stop'[u] = stop[u]
  BY <1>3 DEF OriginInv, Origin!TypeOK
<1>6. Origin!Registered' = Origin!Registered /\ Origin!Registered \subseteq 1 .. N
  BY <1>3 DEF Origin!Registered, Origin!Children
<1>7. \A c : Origin!Unstopped(c)' = Origin!Unstopped(c)
  BY <1>3 DEF Origin!Unstopped
<1>8. StartedIsRecorded' /\ PageAskedFor'
  BY <1>1, <1>3, <1>5 DEF OriginInv, StartedIsRecorded, PageAskedFor
<1>9. LastPageIsLast'
  <2>1. \A c \in Origin!Registered : ~(c > last) => c <= last
    BY <1>2, <1>6
  <2> QED BY <1>5, <1>6, <2>1 DEF OriginInv, LastPageIsLast
<1>10. Origin!NothingBehindCursor'
  <2>1. ASSUME NEW c \in Origin!Registered, c <= last, Origin!Unstopped(c)
        PROVE  c \in Origin!Page(after)
    <3>1. c \in 1 .. N
      BY <1>6
    <3>2. ~(c <= after)
      BY <1>1, <2>1 DEF after, OriginInv, Origin!NothingBehindCursor
    <3> QED BY <1>1, <1>2, <2>1, <3>1, <3>2 DEF after
  <2> QED BY <1>5, <1>6, <1>7, <2>1 DEF OriginInv, Origin!NothingBehindCursor
<1>11. Origin!StopCoversChildren'
  BY <1>3, <1>5, <1>6 DEF OriginInv, Origin!StopCoversChildren
<1> QED BY <1>4, <1>8, <1>9, <1>10, <1>11 DEF OriginInv

\* The next child of the page is cancelled or asked to stop.
LEMMA RequestChildKeeps ==
  ASSUME OriginInv, NEW s \in Stops, Origin!RequestChild(s) PROVE OriginInv'
<1>1. PICK c \in stop[s].todo :
        \/ /\ Origin!Unstopped(c)
           /\ child' = [child EXCEPT
                ![c] = [status |-> IF @.status = "queued" THEN "cancelled"
                                                          ELSE @.status,
                        cancel |-> s]]
           /\ stop' = [stop EXCEPT ![s].todo = @ \ {c}]
        \/ stop' = [stop EXCEPT ![s] = Origin!Fresh("idle")] /\ UNCHANGED child
  BY DEF Origin!RequestChild
<1>2. /\ stop[s].pc = "requesting" /\ UNCHANGED <<origin, claim>> /\ c \in Origin!Children
      /\ s # None /\ 0 \in 0 .. N
  BY OriginIs DEF Origin!RequestChild, OriginInv, Origin!TypeOK, Origin!OriginAssumption
<1>3. CASE stop' = [stop EXCEPT ![s] = Origin!Fresh("idle")] /\ UNCHANGED child
  BY <1>2, <1>3 DEF OriginInv, Origin!TypeOK, StartedIsRecorded, PageAskedFor,
     LastPageIsLast, Origin!NothingBehindCursor, Origin!StopCoversChildren,
     Origin!Registered, Origin!Unstopped, Origin!Fresh
<1>4. CASE /\ Origin!Unstopped(c)
           /\ child' = [child EXCEPT
                ![c] = [status |-> IF @.status = "queued" THEN "cancelled"
                                                          ELSE @.status,
                        cancel |-> s]]
           /\ stop' = [stop EXCEPT ![s].todo = @ \ {c}]
  <2>1. Origin!TypeOK'
    BY <1>2, <1>4 DEF OriginInv, Origin!TypeOK, Origin!Terminal
  <2>2. /\ child'[c].cancel # None
        /\ child[c].status # "absent" <=> child'[c].status # "absent"
        /\ \A d \in Origin!Children : d # c => child'[d] = child[d]
    BY <1>2, <1>4 DEF OriginInv, Origin!TypeOK
  <2>3. /\ stop'[s].pc = "requesting" /\ stop'[s].after = stop[s].after
        /\ stop'[s].more = stop[s].more /\ stop'[s].todo = stop[s].todo \ {c}
        /\ \A u \in Stops : u # s => stop'[u] = stop[u]
    BY <1>2, <1>4 DEF OriginInv, Origin!TypeOK
  <2>4. Origin!Registered' = Origin!Registered /\ ~Origin!Unstopped(c)'
    BY <2>2 DEF Origin!Registered, Origin!Unstopped
  <2>5. \A d \in Origin!Registered : Origin!Unstopped(d)' => Origin!Unstopped(d) /\ d # c
    BY <2>2, <2>4 DEF Origin!Registered, Origin!Unstopped
  <2>6. StartedIsRecorded' /\ PageAskedFor' /\ LastPageIsLast'
    BY <1>2, <2>3, <2>4 DEF OriginInv, StartedIsRecorded, PageAskedFor, LastPageIsLast
  <2>7. Origin!NothingBehindCursor'
    <3> SUFFICES ASSUME NEW u \in Stops, stop[u].pc \in {"paging", "requesting"},
                        NEW d \in Origin!Registered, d <= stop[u].after,
                        d \notin stop'[u].todo, Origin!Unstopped(d)'
                 PROVE  FALSE
      BY <1>2, <2>3, <2>4 DEF Origin!NothingBehindCursor
    <3>1. d \notin stop[u].todo
      BY <2>3, <2>5
    <3> QED BY <2>5, <3>1 DEF OriginInv, Origin!NothingBehindCursor
  <2>8. Origin!StopCoversChildren'
    <3>1. \A u \in Stops : stop'[u].pc = "done" => stop[u].pc = "done"
      BY <1>2, <2>3
    <3>2. \A d \in Origin!Registered :
            Origin!Unstopped(d) = ~(child[d].status \in Origin!Terminal \/ child[d].cancel # None)
      BY DEF Origin!Unstopped
    <3>3. \A d \in Origin!Registered : Origin!Unstopped(d)' =
              ~(child'[d].status \in Origin!Terminal \/ child'[d].cancel # None)
      BY DEF Origin!Unstopped
    <3> QED BY <2>4, <2>5, <3>1, <3>2, <3>3 DEF OriginInv, Origin!StopCoversChildren
  <2> QED BY <2>1, <2>6, <2>7, <2>8 DEF OriginInv
<1> QED BY <1>1, <1>3, <1>4

\* The end of a page, or of the fan-out: after the last page every child is covered.
LEMMA EndPageKeeps ==
  ASSUME OriginInv, NEW s \in Stops, Origin!EndPage(s) PROVE OriginInv'
<1>1. /\ stop[s].pc = "requesting" /\ stop[s].todo = {} /\ 0 \in 0 .. N
      /\ UNCHANGED <<origin, child>>
  BY OriginIs DEF Origin!EndPage, Origin!OriginAssumption
<1>2. Origin!TypeOK'
  BY <1>1 DEF OriginInv, Origin!TypeOK, Origin!EndPage, Origin!Fresh
<1>3. /\ stop'[s].todo = {}
      /\ \/ stop'[s].pc = "paging" /\ stop'[s].after = stop[s].after
         \/ stop'[s].pc = "done" /\ ~stop[s].more
      /\ \A u \in Stops : u # s => stop'[u] = stop[u]
  BY <1>1 DEF OriginInv, Origin!TypeOK, Origin!EndPage, Origin!Fresh
<1>4. /\ Origin!Registered' = Origin!Registered
      /\ \A c : Origin!Unstopped(c)' = Origin!Unstopped(c)
  BY <1>1 DEF Origin!Registered, Origin!Unstopped
<1>5. StartedIsRecorded' /\ PageAskedFor' /\ LastPageIsLast'
  BY <1>1, <1>3, <1>4 DEF OriginInv, StartedIsRecorded, PageAskedFor, LastPageIsLast
<1>6. Origin!NothingBehindCursor'
  BY <1>1, <1>3, <1>4 DEF OriginInv, Origin!NothingBehindCursor
<1>7. stop'[s].pc = "done" => \A c \in Origin!Registered : ~Origin!Unstopped(c)
  BY <1>1, <1>3 DEF OriginInv, LastPageIsLast, Origin!NothingBehindCursor
<1>8. Origin!StopCoversChildren'
  BY <1>1, <1>3, <1>4, <1>7 DEF OriginInv, Origin!StopCoversChildren, Origin!Unstopped
<1> QED BY <1>2, <1>5, <1>6, <1>8 DEF OriginInv

\* The end of a fan-out reports what its last page found.
LEMMA EndStopKeeps ==
  ASSUME OriginInv, NEW s \in Stops, Origin!EndStop(s) PROVE OriginInv'
<1>1. 0 \in 0 .. N /\ UNCHANGED <<origin, child>>
  BY OriginIs DEF Origin!EndStop, Origin!OriginAssumption
<1>2. /\ stop'[s] = Origin!Fresh("idle")
      /\ \A u \in Stops : u # s => stop'[u] = stop[u]
      /\ Origin!TypeOK'
  BY <1>1 DEF OriginInv, Origin!TypeOK, Origin!EndStop, Origin!Fresh
<1> QED
  BY <1>1, <1>2 DEF OriginInv, StartedIsRecorded, PageAskedFor, LastPageIsLast,
     Origin!NothingBehindCursor, Origin!StopCoversChildren, Origin!Registered,
     Origin!Unstopped, Origin!Fresh

\* Every step of an origin keeps its invariant.
LEMMA OriginStep == OriginInv /\ [Origin!Next]_originVars => OriginInv'
<1> SUFFICES ASSUME OriginInv, [Origin!Next]_originVars PROVE OriginInv'
  OBVIOUS
<1>1. CASE UNCHANGED originVars
  BY <1>1 DEF originVars, OriginInv, Origin!TypeOK, StartedIsRecorded, PageAskedFor,
     LastPageIsLast, Origin!NothingBehindCursor, Origin!StopCoversChildren,
     Origin!Registered, Origin!Unstopped
<1>2. CASE Origin!Next
  BY <1>2, ChildKeeps, CommandKeeps, RequestOriginCancellationKeeps, ListPageKeeps,
     RequestChildKeeps, EndPageKeeps, EndStopKeeps DEF Origin!Next
<1> QED BY <1>1, <1>2

\* In the composition a step of the origin is one of Origin!Next, or leaves it alone.
LEMMA OriginMovesAlone == [MCNext]_mcVars => [Origin!Next]_originVars
BY DEF MCNext, mcVars, RunsMove, EffectMoves, originVars

\* The inductive invariant of the origin, along the behaviours of the composition.
LEMMA OriginInvAlways == MCSpec => []OriginInv
<1>1. MCInit => OriginInv
  BY OriginInit DEF MCInit
<1>2. OriginInv /\ [MCNext]_mcVars => OriginInv'
  BY OriginStep, OriginMovesAlone
<1> QED BY <1>1, <1>2, PTL DEF MCSpec

\* A Stop that reports success has reached every child its pages passed, for any
\* number of children, Stops and commands and any size of the pages.
THEOREM StopsHoldAlways == MCSpec => []StopsHold
<1>1. OriginInv => StopsHold
  BY DEF OriginInv, StopsHold
<1> QED BY OriginInvAlways, <1>1, PTL

-------------------------------------------------------------------------------
(* What a step may never undo *)

\* Once a Stop is recorded neither the row of the origin nor the set of its
\* children changes any more.
LEMMA StopStands ==
  ASSUME OriginInv, [Origin!Next]_originVars, origin.cancel # None
  PROVE  origin' = origin /\ Origin!Registered' = Origin!Registered
<1>1. Origin!TypeOK
  BY DEF OriginInv
<1>2. ASSUME NEW c \in Origin!Children,
             \/ Origin!CreateRunWithTrustedOrigin(c) \/ Origin!ClaimRun(c)
             \/ Origin!RequeueRun(c) \/ Origin!FinishRun(c)
             \/ Origin!AcknowledgeCancellation(c) \/ Origin!CancelOneRun(c)
      PROVE  UNCHANGED origin /\ Origin!Registered' = Origin!Registered
  <2>1. CASE Origin!CreateRunWithTrustedOrigin(c)
    BY <2>1 DEF Origin!CreateRunWithTrustedOrigin
  <2>2. CASE Origin!CancelOneRun(c)
    BY <1>1, <2>2 DEF Origin!CancelOneRun, Origin!Registered, Origin!TypeOK
  <2>3. CASE \/ Origin!ClaimRun(c) \/ Origin!RequeueRun(c) \/ Origin!FinishRun(c)
             \/ Origin!AcknowledgeCancellation(c)
    <3>1. PICK from \in {"queued", "running"},
               to \in {"queued", "running", "completed", "cancelled"} :
                 Origin!Become(c, from, to)
      BY <2>3 DEF Origin!ClaimRun, Origin!RequeueRun, Origin!FinishRun,
                  Origin!AcknowledgeCancellation
    <3> QED BY <1>1, <3>1, BecomeMovesOn
  <2> QED BY <1>2, <2>1, <2>2, <2>3
<1>3. ASSUME NEW k \in Commands,
             Origin!BeginClaim(k) \/ Origin!ClaimExecutionOriginCommand(k)
      PROVE  UNCHANGED origin /\ Origin!Registered' = Origin!Registered
  BY <1>3 DEF Origin!BeginClaim, Origin!ClaimExecutionOriginCommand, Origin!Registered
<1>4. ASSUME NEW s \in Stops, Origin!RequestOriginCancellation(s)
      PROVE  UNCHANGED origin /\ Origin!Registered' = Origin!Registered
  <2>1. origin \in [cancel : Stops \cup {None}, command : Commands \cup {None}]
    BY <1>1 DEF Origin!TypeOK
  <2>2. origin' = [origin EXCEPT !.cancel = origin.cancel] /\ UNCHANGED child
    BY <1>4 DEF Origin!RequestOriginCancellation
  <2> QED BY <2>1, <2>2 DEF Origin!Registered
<1>5. ASSUME NEW s \in Stops,
             Origin!ListPage(s) \/ Origin!EndPage(s) \/ Origin!EndStop(s)
      PROVE  UNCHANGED origin /\ Origin!Registered' = Origin!Registered
  BY <1>5 DEF Origin!ListPage, Origin!EndPage, Origin!EndStop, Origin!Registered
<1>6. ASSUME NEW s \in Stops, Origin!RequestChild(s)
      PROVE  UNCHANGED origin /\ Origin!Registered' = Origin!Registered
  <2>1. \A d \in Origin!Children :
          child'[d].status # "absent" <=> child[d].status # "absent"
    BY <1>1, <1>6 DEF Origin!RequestChild, Origin!TypeOK, Origin!Unstopped
  <2> QED BY <1>6, <2>1 DEF Origin!RequestChild, Origin!Registered
<1>7. CASE UNCHANGED originVars
  BY <1>7 DEF originVars, Origin!Registered
<1> QED
  BY <1>2, <1>3, <1>4, <1>5, <1>6, <1>7 DEF Origin!Next

\* A command that has the origin keeps it.
LEMMA CommandStands ==
  ASSUME OriginInv, [Origin!Next]_originVars, origin.command # None
  PROVE  origin'.command = origin.command
<1>1. origin \in [cancel : Stops \cup {None}, command : Commands \cup {None}]
  BY DEF OriginInv, Origin!TypeOK
<1>2. ASSUME NEW s \in Stops, Origin!RequestOriginCancellation(s)
      PROVE  origin'.command = origin.command
  BY <1>1, <1>2 DEF Origin!RequestOriginCancellation
<1>3. ASSUME NEW k \in Commands, Origin!ClaimExecutionOriginCommand(k)
      PROVE  origin'.command = origin.command
  BY <1>3 DEF Origin!ClaimExecutionOriginCommand
<1> QED
  BY <1>2, <1>3 DEF originVars, Origin!Next, Origin!CreateRunWithTrustedOrigin,
     Origin!ClaimRun, Origin!RequeueRun, Origin!FinishRun,
     Origin!AcknowledgeCancellation, Origin!CancelOneRun, Origin!Become,
     Origin!BeginClaim, Origin!ListPage, Origin!RequestChild, Origin!EndPage,
     Origin!EndStop

\* Along every behaviour an origin keeps its receipt once recorded, with the
\* children registered at that moment, and its external command.
THEOREM OriginStands == MCSpec => Origin!StopIsForEver /\ Origin!FirstCommandWins
<1>1. OriginInv /\ [MCNext]_mcVars =>
        [origin.cancel # None =>
           origin' = origin /\ Origin!Registered' = Origin!Registered]_(Origin!vars)
  BY StopStands, OriginMovesAlone
<1>2. OriginInv /\ [MCNext]_mcVars =>
        [origin.command # None => origin'.command = origin.command]_(Origin!vars)
  BY CommandStands, OriginMovesAlone
<1>3. MCSpec => Origin!StopIsForEver
  BY OriginInvAlways, <1>1, PTL DEF MCSpec, Origin!StopIsForEver
<1>4. MCSpec => Origin!FirstCommandWins
  BY OriginInvAlways, <1>2, PTL DEF MCSpec, Origin!FirstCommandWins
<1> QED BY <1>3, <1>4
-------------------------------------------------------------------------------
(* An external effect: what its row, its calls and its workers know *)

\* A worker between the grant of an attempt and the record of its outcome.
Calling == {"invoke", "send", "await", "complete", "rejected", "unknown"}

\* What a worker holds of the effect, whether or not its lease is alive: its
\* attempt is one that was granted, its call was not made before "send", and an
\* answer it goes by was given.
Held(w) ==
  LET me == worker[w] IN
  /\ me.call <= effect.attempts
  /\ me.pc \in Effect!Forgetting => me.call = 0 /\ me.lookup = "none"
  /\ me.pc \in Calling => me.call >= 1
  /\ me.pc \in {"invoke", "send"} => calls[me.call] = "unsent"
  /\ me.pc = "complete" => calls[me.call] = "applied"
  /\ me.pc = "rejected" => calls[me.call] = "refused"
  /\ me.answer = "found" => Effect!Performed # {}
  /\ me.pc = "after_failure" => effect.attempts >= 1

\* What the row says while a worker with a live lease stands at its step.
Current(w) ==
  LET me == worker[w] IN
  Effect!Fenced(w) =>
    /\ me.pc \in Calling =>
         /\ me.call = effect.attempts
         /\ effect.status = "prepared" /\ effect.code = "none"
    /\ me.pc \in Effect!Lookups \cup {"record"} =>
         Effect!Ambiguous /\ effect.deadline = 0
    /\ me.pc = "record" /\ me.answer = "not_found" /\ ~overrun => Effect!Performed = {}
    /\ me.pc = "prepare" /\ me.lookup # "none" => effect.code = "not_found"
    /\ me.pc = "invoke" /\ me.safe /\ ~overrun => Effect!Performed = {}
    /\ me.pc = "exhaust" => Effect!Unsettled
    /\ me.pc = "acknowledge" => Effect!CanAcknowledge

\* No two workers hold the same attempt.
OneHolder ==
  \A u, w \in Workers :
    worker[u].call = worker[w].call /\ worker[u].call # 0 => u = w

\* Unless a call outlived its deadline, only the last attempt may be under way,
\* and not after its deadline; a refusal of it says that none was performed; and
\* a reconciled effect was not performed by an earlier attempt.
CallsInTime ==
  ~overrun =>
    /\ \A n \in Effect!Attempts : n < effect.attempts =>
         /\ calls[n] # "flying"
         /\ kind = "reconcile_before_replay" => calls[n] # "applied"
    /\ effect.attempts >= 1 /\ effect.deadline = 0 =>
         calls[effect.attempts] # "flying"
    /\ effect.attempts >= 1 /\ calls[effect.attempts] = "refused" =>
         Effect!Performed = {}

\* The call of the last attempt is not made any more, unless past its deadline.
Sealed ==
  \/ effect.attempts = 0
  \/ effect.deadline = 0
  \/ calls[effect.attempts] \in {"applied", "refused"}
  \/ /\ calls[effect.attempts] = "unsent"
     /\ \A w \in Workers : worker[w].call # effect.attempts

\* What the row itself promises.
RowPromises ==
  /\ effect.status = "none" <=> effect.attempts = 0
  /\ \A n \in Effect!Attempts : n > effect.attempts => calls[n] = "unsent"
  /\ effect.code = "not_found" => effect.status = "prepared"
  /\ effect.code \in {"exhausted", "cancelled_before_invoke"} => effect.status = "failed"
  /\ \/ effect.status \in {"none", "succeeded", "retry_wait"}
     \/ effect.code = "not_found"
     \/ effect.status = "failed" /\ effect.code # "outcome_unknown"
     => Sealed
  /\ \/ effect.status = "retry_wait"
     \/ effect.status = "failed" /\ effect.code = "rejected"
     => calls[effect.attempts] = "refused"
  /\ \/ effect.code = "not_found"
     \/ kind # "read_only" /\ effect.code \in {"exhausted", "cancelled_before_invoke"}
     => overrun \/ Effect!Performed = {}
  /\ Effect!SucceededWasPerformed

\* What the proofs about an effect carry along.
EffectInv ==
  /\ Effect!TypeOK
  /\ \A w \in Workers : Held(w) /\ Current(w)
  /\ OneHolder
  /\ CallsInTime
  /\ RowPromises

-------------------------------------------------------------------------------
(* Typing of an effect's workers and rows *)

\* A worker's own variables.
WorkerRow ==
  [pc     : Effect!Steps,
   call   : 0 .. EffectAttempts,
   safe   : BOOLEAN,
   lookup : Effect!Lookups \cup {"none"},
   answer : {"none", "found", "not_found", "unknown", "conflict"},
   paused : BOOLEAN]

\* The parts of the type invariant, one by one.
LEMMA EffectTypes ==
  ASSUME Effect!TypeOK
  PROVE  /\ kind \in Kinds /\ effectRun \in Effect!RunRow /\ effect \in Effect!EffectRow
         /\ calls \in [Effect!Attempts -> {"unsent", "flying", "applied", "refused"}]
         /\ worker \in [Workers -> WorkerRow]
         /\ overrun \in BOOLEAN /\ pauses \in 0 .. MaxPauses
         /\ unresolved \in 0 .. MaxUnresolved
BY DEF Effect!TypeOK, WorkerRow

\* A worker that goes on to a step keeps what it learned, or forgets it.
LEMMA GoShape ==
  ASSUME Effect!TypeOK, NEW w \in Workers, NEW step \in Effect!Steps, Effect!Go(w, step)
  PROVE  /\ worker' \in [Workers -> WorkerRow]
         /\ \A u \in Workers : u # w => worker'[u] = worker[u]
         /\ worker'[w].pc = step
         /\ step \in Effect!Forgetting =>
              /\ worker'[w].call = 0 /\ worker'[w].lookup = "none"
              /\ worker'[w].answer = "none"
         /\ step \notin Effect!Forgetting =>
              /\ worker'[w].call = worker[w].call /\ worker'[w].lookup = worker[w].lookup
              /\ worker'[w].safe = worker[w].safe /\ worker'[w].answer = "none"
         /\ worker'[w].call \in {0, worker[w].call}
<1>1. worker \in [Workers -> WorkerRow]
  BY EffectTypes
<1>2. 0 \in 0 .. EffectAttempts
  BY EffectIs DEF Effect!EffectAssumption
<1>3. CASE step \in Effect!Forgetting
  <2>1. worker' = [worker EXCEPT ![w] = [Effect!Idle EXCEPT !.pc = step]]
    BY <1>3 DEF Effect!Go
  <2>2. [Effect!Idle EXCEPT !.pc = step] \in WorkerRow
    BY <1>2 DEF Effect!Idle, WorkerRow
  <2> QED BY <1>1, <1>3, <2>1, <2>2 DEF Effect!Idle, WorkerRow
<1>4. CASE step \notin Effect!Forgetting
  <2>1. worker' = [worker EXCEPT ![w] = [worker[w] EXCEPT !.pc = step, !.answer = "none"]]
    BY <1>4 DEF Effect!Go
  <2>2. [worker[w] EXCEPT !.pc = step, !.answer = "none"] \in WorkerRow
    BY <1>1 DEF WorkerRow
  <2> QED BY <1>1, <1>4, <2>1, <2>2 DEF WorkerRow
<1> QED BY <1>3, <1>4

\* The rows the statements write.
LEMMA RenewedTyped ==
  ASSUME Effect!TypeOK
  PROVE  /\ Effect!Renewed \in Effect!RunRow
         /\ Effect!Renewed.owner = effectRun.owner
         /\ Effect!Renewed.status = effectRun.status
         /\ Effect!Renewed.cancel = effectRun.cancel
<1>1. EffectLease \in 0 .. EffectLease
  BY EffectIs DEF Effect!EffectAssumption
<1> QED BY <1>1, EffectTypes DEF Effect!Renewed, Effect!RunRow

\* A run that was released has no lease.
LEMMA ReleasedTyped ==
  ASSUME Effect!TypeOK, NEW s \in Effect!Terminal \cup {"queued"}
  PROVE  /\ Effect!Released(s) \in Effect!RunRow
         /\ Effect!Released(s).status = s /\ s # "running"
         /\ Effect!Released(s).owner = None
         /\ Effect!Released(s).cancel = effectRun.cancel
<1>1. 0 \in 0 .. EffectLease
  BY EffectIs DEF Effect!EffectAssumption
<1> QED BY <1>1, EffectTypes DEF Effect!Released, Effect!RunRow, Effect!Terminal

\* At most one worker has a live lease, and renewing it gives it to no other.
LEMMA OneFenced ==
  ASSUME Effect!TypeOK, NEW w \in Workers, Effect!Fenced(w),
         effectRun' \in {effectRun, Effect!Renewed}
  PROVE  \A u \in Workers : u # w => ~Effect!Fenced(u) /\ ~Effect!Fenced(u)'
BY RenewedTyped, EffectTypes DEF Effect!Fenced, Effect!RunRow

\* An undecided row with nothing left to wait for.
LEMMA DueIsPastDeadline ==
  ASSUME Effect!TypeOK, Effect!Ambiguous, ~(Effect!RetryIn > 0)
  PROVE  effect.deadline = 0
BY EffectTypes, EffectIs DEF Effect!RetryIn, Effect!EffectRow, Effect!EffectAssumption

-------------------------------------------------------------------------------
(* Kinds of steps *)

\* A step that leaves the row and the calls alone and moves at most one worker.
LEMMA QuietStep ==
  ASSUME EffectInv, Effect!TypeOK', NEW w \in Workers,
         UNCHANGED <<kind, effect, calls, overrun>>,
         \A u \in Workers : u # w => /\ worker'[u] = worker[u]
                                     /\ Effect!Fenced(u)' => Effect!Fenced(u),
         worker'[w].call \in {0, worker[w].call},
         Held(w)', Current(w)'
  PROVE  EffectInv'
<1>1. ASSUME NEW u \in Workers, u # w PROVE Held(u)' /\ Current(u)'
  BY <1>1 DEF EffectInv, Held, Current, Effect!Performed, Effect!Ambiguous,
     Effect!Unsettled, Effect!CanAcknowledge, Effect!Attempts
<1>2. OneHolder'
  BY DEF EffectInv, OneHolder
<1>3. CallsInTime'
  BY DEF EffectInv, CallsInTime, Effect!Performed, Effect!Attempts
<1>4. Sealed => Sealed'
  BY DEF Sealed
<1>5. RowPromises'
  BY <1>4 DEF EffectInv, RowPromises, Effect!Performed, Effect!SucceededWasPerformed,
     Effect!Attempts
<1> QED BY <1>1, <1>2, <1>3, <1>5 DEF EffectInv

\* Such a step to a place where the worker needs nothing.
Resting == {"idle", "enter", "requeue", "finish", "fail", "boundary"}

\* A step of a worker that ends at rest and leaves the rows alone.
LEMMA RestStep ==
  ASSUME EffectInv, Effect!TypeOK', NEW w \in Workers, NEW step \in Resting,
         UNCHANGED <<kind, effect, calls, overrun>>, Effect!Go(w, step),
         \A u \in Workers : u # w => (Effect!Fenced(u)' => Effect!Fenced(u))
  PROVE  EffectInv'
<1>1. step \in Effect!Steps /\ step \in Effect!Forgetting
  BY DEF Resting, Effect!Steps, Effect!Forgetting
<1>2. /\ \A u \in Workers : u # w => worker'[u] = worker[u]
      /\ worker'[w].pc = step /\ worker'[w].call = 0 /\ worker'[w].lookup = "none"
      /\ worker'[w].answer = "none"
  BY <1>1, GoShape DEF EffectInv
<1>3. Held(w)' /\ Current(w)'
  BY <1>2, EffectTypes DEF EffectInv, Held, Current, Resting, Calling, Effect!Lookups,
     Effect!EffectRow, Effect!Attempts
<1> QED BY <1>2, <1>3, QuietStep

\* A statement of the worker with the lease that writes the row of its attempt.
LEMMA WriteStep ==
  ASSUME EffectInv, Effect!TypeOK', NEW w \in Workers,
         UNCHANGED <<kind, calls, overrun>>,
         effect'.attempts = effect.attempts, effect'.deadline = effect.deadline,
         \A u \in Workers : u # w => worker'[u] = worker[u] /\ ~Effect!Fenced(u)',
         worker'[w].call \in {0, worker[w].call},
         Held(w)', Current(w)', RowPromises'
  PROVE  EffectInv'
<1>1. ASSUME NEW u \in Workers, u # w PROVE Held(u)' /\ Current(u)'
  BY <1>1 DEF EffectInv, Held, Current, Effect!Performed, Effect!Attempts
<1>2. OneHolder'
  BY DEF EffectInv, OneHolder
<1>3. CallsInTime'
  BY DEF EffectInv, CallsInTime, Effect!Performed, Effect!Attempts
<1> QED BY <1>1, <1>2, <1>3 DEF EffectInv

\* The lease of a worker is gone: it writes nothing and returns.
LEMMA LeaseLostKeeps ==
  ASSUME EffectInv, NEW w \in Workers, Effect!LeaseLost(w),
         UNCHANGED <<kind, calls, overrun, pauses, unresolved>>
  PROVE  EffectInv'
<1>1. Effect!Go(w, "idle") /\ UNCHANGED <<effectRun, effect>>
  BY DEF Effect!LeaseLost
<1>2. worker' \in [Workers -> WorkerRow]
  BY <1>1, GoShape DEF EffectInv, Effect!Steps
<1>3. Effect!TypeOK'
  BY <1>1, <1>2 DEF EffectInv, Effect!TypeOK, WorkerRow
<1> QED BY <1>1, <1>3, RestStep DEF Resting, Effect!Fenced

\* A worker with the lease renews it and rests.
LEMMA RenewAndRest ==
  ASSUME EffectInv, NEW w \in Workers, NEW step \in Resting, Effect!Fenced(w),
         effectRun' \in {effectRun, Effect!Renewed}, Effect!Go(w, step),
         UNCHANGED <<effect, kind, calls, overrun, pauses>>,
         unresolved' \in 0 .. MaxUnresolved
  PROVE  EffectInv'
<1>1. worker' \in [Workers -> WorkerRow]
  BY GoShape DEF EffectInv, Effect!Steps, Resting
<1>2. Effect!TypeOK'
  BY <1>1, RenewedTyped DEF EffectInv, Effect!TypeOK, WorkerRow
<1>3. \A u \in Workers : u # w => ~Effect!Fenced(u)'
  BY OneFenced DEF EffectInv
<1> QED BY <1>2, <1>3, RestStep

\* A worker with the lease renews it and goes on.
LEMMA RenewAndGo ==
  ASSUME EffectInv, NEW w \in Workers, NEW step \in Effect!Steps, Effect!Fenced(w),
         effectRun' \in {effectRun, Effect!Renewed}, Effect!Go(w, step),
         UNCHANGED <<effect, kind, calls, overrun, pauses>>,
         unresolved' \in 0 .. MaxUnresolved,
         Held(w)', Current(w)'
  PROVE  EffectInv'
<1>1. /\ worker' \in [Workers -> WorkerRow]
      /\ worker'[w].call \in {0, worker[w].call}
      /\ \A u \in Workers : u # w => worker'[u] = worker[u]
  BY GoShape DEF EffectInv
<1>2. Effect!TypeOK'
  BY <1>1, RenewedTyped DEF EffectInv, Effect!TypeOK, WorkerRow
<1>3. \A u \in Workers : u # w => ~Effect!Fenced(u)'
  BY OneFenced DEF EffectInv
<1> QED BY <1>1, <1>2, <1>3, QuietStep

\* The next lookup of an undecided row that is due.
LEMMA GoLookUp ==
  ASSUME EffectInv, NEW w \in Workers, NEW step \in Effect!Lookups, Effect!Fenced(w),
         effectRun' \in {effectRun, Effect!Renewed}, Effect!Go(w, step),
         UNCHANGED <<effect, kind, calls, overrun, pauses>>,
         unresolved' \in 0 .. MaxUnresolved,
         Effect!Ambiguous, effect.deadline = 0
  PROVE  EffectInv'
<1>1. step \in Effect!Steps /\ step \notin Effect!Forgetting
  BY DEF Effect!Lookups, Effect!Steps, Effect!Forgetting
<1>2. /\ worker'[w].pc = step /\ worker'[w].call = worker[w].call
      /\ worker'[w].answer = "none"
  BY <1>1, GoShape DEF EffectInv
<1>3. Held(w)' /\ Current(w)'
  BY <1>1, <1>2 DEF EffectInv, Held, Current, Effect!Lookups, Calling,
     Effect!Ambiguous, Effect!Forgetting
<1> QED BY <1>1, <1>3, RenewAndGo

\* handleCancellationEffect.
LEMMA CancellationStepKeeps ==
  ASSUME EffectInv, NEW w \in Workers, Effect!Fenced(w),
         effectRun' \in {effectRun, Effect!Renewed},
         Effect!Go(w, Effect!CancellationStep),
         UNCHANGED <<effect, kind, calls, overrun, pauses>>,
         unresolved' \in 0 .. MaxUnresolved,
         effect.attempts >= 1
  PROVE  EffectInv'
<1>1. effect.status # "none"
  BY EffectTypes DEF EffectInv, RowPromises
<1>2. CASE Effect!CancellationStep \in Resting
  BY <1>2, RenewAndRest
<1>3. CASE Effect!CancellationStep \notin Resting
  <2>1. /\ Effect!CancellationStep = "drain"
        /\ effect.status \notin {"succeeded", "failed", "retry_wait"}
        /\ effect.code # "not_found" /\ ~(Effect!RetryIn > 0)
    BY <1>3 DEF Effect!CancellationStep, Resting
  <2>2. Effect!Ambiguous
    BY <1>1, <2>1, EffectTypes DEF EffectInv, Effect!Ambiguous, Effect!EffectRow
  <2>3. effect.deadline = 0
    BY <2>1, <2>2, DueIsPastDeadline DEF EffectInv
  <2> QED BY <2>1, <2>2, <2>3, GoLookUp DEF Effect!Lookups
<1> QED BY <1>2, <1>3

-------------------------------------------------------------------------------
(* The steps of a worker *)

\* What is known of a worker with a live lease.
LEMMA AtCurrent ==
  ASSUME EffectInv, NEW w \in Workers
  PROVE  /\ Effect!TypeOK /\ Held(w) /\ Current(w)
         /\ worker[w] \in WorkerRow /\ effect \in Effect!EffectRow
         /\ effect.attempts \in 0 .. EffectAttempts
BY EffectTypes DEF EffectInv, Effect!EffectRow

\* A claim takes a run nobody holds, so no other worker has its fence.
LEMMA EffectClaimKeeps ==
  ASSUME EffectInv, NEW w \in Workers, Effect!Claim(w) PROVE EffectInv'
<1> DEFINE step == IF effectRun.cancel /\ effect.status = "none"
                   THEN "acknowledge" ELSE "enter"
<1>1. /\ effectRun' = [Effect!Renewed EXCEPT !.status = "running", !.owner = w]
      /\ Effect!Go(w, step)
      /\ UNCHANGED <<effect, kind, calls, overrun, pauses, unresolved>>
  BY DEF Effect!Claim, Effect!environment
<1>2. step \in Effect!Steps /\ step \in Effect!Forgetting
  BY DEF Effect!Steps, Effect!Forgetting
<1>3. effectRun' \in Effect!RunRow /\ effectRun'.owner = w
  BY <1>1, RenewedTyped DEF EffectInv, Effect!RunRow
<1>4. /\ worker' \in [Workers -> WorkerRow] /\ worker'[w].pc = step
      /\ worker'[w].call = 0 /\ worker'[w].lookup = "none" /\ worker'[w].answer = "none"
      /\ \A u \in Workers : u # w => worker'[u] = worker[u]
  BY <1>1, <1>2, GoShape DEF EffectInv
<1>5. Effect!TypeOK'
  BY <1>1, <1>3, <1>4 DEF EffectInv, Effect!TypeOK, WorkerRow
<1>6. \A u \in Workers : u # w => ~Effect!Fenced(u)'
  BY <1>3 DEF Effect!Fenced
<1>7. Held(w)' /\ Current(w)'
  BY <1>1, <1>4, EffectTypes DEF EffectInv, Held, Current, Calling, Effect!Lookups,
     Effect!EffectRow, Effect!CanAcknowledge, Effect!Ambiguous
<1> QED BY <1>1, <1>4, <1>5, <1>6, <1>7, QuietStep

\* A handler enters its effect: it only reads where the row stands.
LEMMA EnterEffectKeeps ==
  ASSUME EffectInv, NEW w \in Workers, Effect!EnterEffect(w) PROVE EffectInv'
<1> DEFINE step == IF ~effectRun.cancel      THEN "prepare" ELSE
                   IF effect.status = "none" THEN "boundary"
                                             ELSE Effect!CancellationStep
<1>1. CASE Effect!LeaseLost(w)
  BY <1>1, LeaseLostKeeps DEF Effect!EnterEffect, Effect!environment
<1>2. CASE /\ Effect!Fenced(w) /\ effectRun' = Effect!Renewed
           /\ Effect!Go(w, step) /\ UNCHANGED effect
  <2>1. /\ UNCHANGED <<kind, calls, overrun, pauses, unresolved>>
        /\ worker[w].pc = "enter" /\ unresolved' \in 0 .. MaxUnresolved
    BY EffectTypes DEF EffectInv, Effect!EnterEffect, Effect!environment, Effect!At
  <2>2. CASE ~effectRun.cancel
    <3>1. Effect!Go(w, "prepare") /\ "prepare" \in Effect!Steps \ Effect!Forgetting
      BY <1>2, <2>2 DEF Effect!Steps, Effect!Forgetting
    <3>2. /\ worker'[w].pc = "prepare" /\ worker'[w].call = 0
          /\ worker'[w].lookup = "none" /\ worker'[w].answer = "none"
      BY <2>1, <3>1, GoShape DEF EffectInv, Held, Effect!Forgetting
    <3>3. Held(w)' /\ Current(w)'
      BY <1>2, <2>1, <3>1, <3>2, AtCurrent DEF Held, Current, Calling, Effect!Lookups
    <3> QED BY <1>2, <2>1, <3>1, <3>3, RenewAndGo
  <2>3. CASE effectRun.cancel /\ effect.status = "none"
    BY <1>2, <2>1, <2>3, RenewAndRest DEF Resting
  <2>4. CASE effectRun.cancel /\ effect.status # "none"
    <3>1. effect.attempts >= 1
      BY <2>4, AtCurrent DEF EffectInv, RowPromises
    <3> QED BY <1>2, <2>1, <2>4, <3>1, CancellationStepKeeps
  <2> QED BY <2>2, <2>3, <2>4
<1> QED BY <1>1, <1>2 DEF Effect!EnterEffect

\* Before a granted attempt: no earlier call is under way, and if the effect was
\* known not to be performed it still is.
LEMMA GrantIsSafe ==
  ASSUME EffectInv, NEW w \in Workers, effect.status = "none" \/ Effect!Authorized, ~overrun
  PROVE  /\ \A n \in Effect!Attempts : calls[n] # "flying"
         /\ kind = "reconcile_before_replay" => Effect!Performed = {}
<1> DEFINE A == effect.attempts
<1>1. A \in 0 .. EffectAttempts /\ EffectAttempts \in Nat
  BY AtCurrent, EffectIs DEF Effect!EffectAssumption
<1>2. \A n \in Effect!Attempts : n < A \/ n = A \/ n > A
  BY <1>1 DEF Effect!Attempts
<1>3. \A n \in Effect!Attempts : n > A => calls[n] = "unsent"
  BY DEF EffectInv, RowPromises
<1>4. \A n \in Effect!Attempts : n < A => calls[n] # "flying"
  BY DEF EffectInv, CallsInTime
<1>5. CASE A = 0
  BY <1>1, <1>3, <1>5 DEF Effect!Attempts, Effect!Performed
<1>6. CASE A # 0
  <2>1. A >= 1 /\ A \in Effect!Attempts /\ effect.status # "none" /\ Effect!Authorized
    BY <1>1, <1>6 DEF Effect!Attempts, EffectInv, RowPromises
  <2>2. CASE Effect!Ambiguous
    <3>1. effect.deadline = 0 /\ kind # "reconcile_before_replay"
      BY <2>1, <2>2 DEF Effect!Authorized
    <3>2. calls[A] # "flying"
      BY <2>1, <3>1 DEF EffectInv, CallsInTime
    <3> QED BY <1>2, <1>3, <1>4, <3>1, <3>2
  <2>3. CASE ~Effect!Ambiguous
    <3>1. effect.status = "retry_wait" \/ effect.code = "not_found"
      BY <2>1, <2>3 DEF Effect!Authorized, Effect!Unsettled, Effect!Ambiguous
    <3>2. Sealed
      BY <3>1 DEF EffectInv, RowPromises
    <3>3. calls[A] # "flying"
      BY <2>1, <3>2 DEF EffectInv, CallsInTime, Sealed
    <3>4. Effect!Performed = {}
      BY <2>1, <3>1 DEF EffectInv, RowPromises, CallsInTime
    <3> QED BY <1>2, <1>3, <1>4, <3>3, <3>4
  <2> QED BY <2>2, <2>3
<1> QED BY <1>5, <1>6

\* The prepare transaction grants an attempt or explains why it does not.
LEMMA PrepareEffectKeeps ==
  ASSUME EffectInv, NEW w \in Workers, Effect!PrepareEffect(w) PROVE EffectInv'
<1>1. /\ UNCHANGED <<kind, calls, overrun, pauses, unresolved, effectRun>>
      /\ worker[w].pc = "prepare" /\ unresolved' \in 0 .. MaxUnresolved
  BY EffectTypes DEF EffectInv, Effect!PrepareEffect, Effect!environment, Effect!At
<1>2. CASE Effect!LeaseLost(w)
  BY <1>1, <1>2, LeaseLostKeeps
<1>3. CASE /\ Effect!Fenced(w)
           /\ Effect!Go(w, IF worker[w].lookup = "none" THEN "enter" ELSE "idle")
           /\ UNCHANGED effect
  BY <1>1, <1>3, RenewAndRest DEF Resting
<1>4. CASE /\ Effect!Fenced(w) /\ effect.status # "none" /\ ~Effect!Authorized
           /\ Effect!Go(w, Effect!Disposition) /\ UNCHANGED effect
  <2>1. CASE Effect!Disposition \in Resting
    BY <1>1, <1>4, <2>1, RenewAndRest
  <2>2. CASE Effect!Disposition \in {"reconcile", "final"}
    <3>1. Effect!Ambiguous /\ ~(Effect!RetryIn > 0)
      BY <2>2, EffectTypes DEF EffectInv, Effect!Disposition, Effect!MustReconcile
    <3>2. effect.deadline = 0
      BY <3>1, DueIsPastDeadline DEF EffectInv
    <3> QED BY <1>1, <1>4, <2>2, <3>1, <3>2, GoLookUp DEF Effect!Lookups
  <2>3. CASE Effect!Disposition = "exhaust"
    <3>1. effect.status \notin {"none", "succeeded", "failed"}
      BY <1>4, <2>3 DEF Effect!Disposition
    <3>2. Effect!Unsettled
      BY <3>1, EffectTypes DEF EffectInv, Effect!EffectRow, Effect!Unsettled
    <3>3. "exhaust" \in Effect!Steps \ Effect!Forgetting
      BY DEF Effect!Steps, Effect!Forgetting
    <3>4. worker'[w].pc = "exhaust" /\ worker'[w].call = worker[w].call
          /\ worker'[w].answer = "none"
      BY <1>4, <2>3, <3>3, GoShape DEF EffectInv
    <3>5. Held(w)' /\ Current(w)'
      BY <1>4, <3>2, <3>3, <3>4, AtCurrent DEF Held, Current, Calling, Effect!Lookups,
         Effect!Unsettled
    <3> QED BY <1>1, <1>4, <2>3, <3>3, <3>5, RenewAndGo
  <2>4. Effect!Disposition \in Resting \cup {"reconcile", "final", "exhaust"}
    BY DEF Effect!Disposition, Resting
  <2> QED BY <2>1, <2>2, <2>3, <2>4
<1>5. CASE /\ Effect!Fenced(w)
           /\ effect.status = "none" \/ Effect!Authorized
           /\ effect' = [status |-> "prepared", attempts |-> effect.attempts + 1,
                         code |-> "none", availableIn |-> 0,
                         deadline |-> EffectTimeout]
           /\ worker' = [worker EXCEPT
                ![w] = [@ EXCEPT !.pc = "invoke",
                                 !.call = effect.attempts + 1,
                                 !.safe = \/ effect.status = "none"
                                          \/ worker[w].lookup # "none"]]
  <2> DEFINE A == effect.attempts
  <2>1. A \in Nat /\ A + 1 \in Effect!Attempts /\ A + 1 \in 0 .. EffectAttempts
    BY <1>5, AtCurrent, EffectIs DEF EffectInv, RowPromises, Effect!EffectAssumption,
       Effect!Authorized, Effect!Attempts
  <2>2. 0 \in 0 .. MaxDelay /\ EffectTimeout \in 0 .. EffectTimeout /\ EffectTimeout # 0
    BY EffectIs DEF Effect!EffectAssumption
  <2>3. /\ effect' \in Effect!EffectRow /\ effect'.attempts = A + 1
        /\ effect'.status = "prepared" /\ effect'.code = "none" /\ effect'.deadline # 0
    BY <1>5, <2>1, <2>2 DEF Effect!EffectRow
  <2>4. /\ worker' \in [Workers -> WorkerRow] /\ worker'[w].pc = "invoke"
        /\ worker'[w].call = A + 1 /\ worker'[w].answer = worker[w].answer
        /\ worker'[w].safe = (effect.status = "none" \/ worker[w].lookup # "none")
        /\ \A u \in Workers : u # w => worker'[u] = worker[u]
    <3> DEFINE safely == effect.status = "none" \/ worker[w].lookup # "none"
    <3>1. safely \in BOOLEAN
      OBVIOUS
    <3> DEFINE row == [worker[w] EXCEPT !.pc = "invoke", !.call = A + 1, !.safe = safely]
    <3>2. worker' = [worker EXCEPT ![w] = row]
      BY <1>5
    <3> HIDE DEF safely
    <3>3. worker \in [Workers -> WorkerRow] /\ "invoke" \in Effect!Steps
      BY EffectTypes DEF EffectInv, Effect!Steps
    <3>4. row \in WorkerRow
      BY <2>1, <3>1, <3>3 DEF WorkerRow
    <3>5. /\ worker' \in [Workers -> WorkerRow] /\ worker'[w].pc = "invoke"
          /\ worker'[w].call = A + 1 /\ worker'[w].answer = worker[w].answer
          /\ worker'[w].safe = safely
          /\ \A u \in Workers : u # w => worker'[u] = worker[u]
      BY <3>2, <3>3, <3>4 DEF WorkerRow
    <3> QED BY <3>5 DEF safely
  <2>5. Effect!TypeOK'
    BY <1>1, <2>3, <2>4 DEF EffectInv, Effect!TypeOK, WorkerRow
  <2>6. calls[A + 1] = "unsent" /\ \A n \in Effect!Attempts : n > A + 1 => calls[n] = "unsent"
    BY <2>1 DEF EffectInv, RowPromises, Effect!Attempts
  <2>7. \A u \in Workers : u # w => ~Effect!Fenced(u)'
    BY <1>1, <1>5, OneFenced DEF EffectInv
  <2>8. ASSUME NEW u \in Workers, u # w PROVE Held(u)' /\ Current(u)'
    <3>1. worker[u].call \in Nat /\ Held(u)
      BY AtCurrent, EffectIs DEF WorkerRow, Effect!EffectAssumption
    <3> QED
      BY <1>1, <2>1, <2>3, <2>4, <2>7, <2>8, <3>1 DEF Held, Current, Effect!Performed,
         Effect!Attempts
  <2>9. Held(w)'
    BY <1>1, <2>1, <2>3, <2>4, <2>6, AtCurrent DEF Held, Effect!Forgetting, Calling,
       Effect!Performed, Effect!Attempts
  <2>10. effect.status = "none" => Effect!Performed = {}
    BY AtCurrent, EffectIs DEF EffectInv, RowPromises, Effect!Performed, Effect!Attempts,
       Effect!EffectAssumption
  <2>11. worker[w].lookup # "none" /\ ~overrun => Effect!Performed = {}
    BY <1>1, <1>5, AtCurrent DEF Current, EffectInv, RowPromises
  <2>12. Current(w)'
    BY <1>1, <2>3, <2>4, <2>10, <2>11 DEF Current, Effect!Lookups, Calling,
       Effect!Performed, Effect!Attempts
  <2>13. OneHolder'
    BY <2>1, <2>4, AtCurrent DEF EffectInv, OneHolder, Held, WorkerRow
  <2>14. CallsInTime'
    <3>1. \A n \in Effect!Attempts : n < A + 1 => n < A \/ n = A
      BY <2>1 DEF Effect!Attempts
    <3> QED
      BY <1>1, <1>5, <2>3, <2>6, <3>1, GrantIsSafe DEF CallsInTime, Effect!Performed,
         Effect!Attempts
  <2>15. RowPromises'
    BY <1>1, <2>1, <2>3, <2>6 DEF RowPromises, Effect!Attempts, Effect!SucceededWasPerformed
  <2> QED BY <2>5, <2>8, <2>9, <2>12, <2>13, <2>14, <2>15 DEF EffectInv
<1> QED BY <1>2, <1>3, <1>4, <1>5 DEF Effect!PrepareEffect

\* The last look before a call: on a Stop an attempt that is surely the first is closed.
LEMMA BeforeInvokeKeeps ==
  ASSUME EffectInv, NEW w \in Workers, Effect!BeforeInvoke(w) PROVE EffectInv'
<1>1. /\ UNCHANGED <<kind, calls, overrun, pauses, unresolved>>
      /\ worker[w].pc = "invoke" /\ unresolved' \in 0 .. MaxUnresolved
  BY EffectTypes DEF EffectInv, Effect!BeforeInvoke, Effect!environment, Effect!At
<1>2. CASE Effect!LeaseLost(w)
  BY <1>1, <1>2, LeaseLostKeeps
<1>3. CASE Effect!Fenced(w) /\ effectRun' = Effect!Renewed
  <2>1. /\ worker[w].call = effect.attempts /\ effect.attempts >= 1
        /\ effect.status = "prepared" /\ effect.code = "none"
        /\ calls[effect.attempts] = "unsent"
        /\ worker[w].safe /\ ~overrun => Effect!Performed = {}
    BY <1>1, <1>3, AtCurrent DEF Held, Current, Calling
  <2>2. CASE /\ worker[w].safe \/ kind = "read_only"
             /\ effect' = [effect EXCEPT !.status = "failed",
                                         !.code = "cancelled_before_invoke"]
             /\ Effect!Go(w, "boundary")
    <3>1. /\ effect' \in Effect!EffectRow /\ effect'.status = "failed"
          /\ effect'.code = "cancelled_before_invoke"
          /\ effect'.attempts = effect.attempts /\ effect'.deadline = effect.deadline
      BY <2>2, AtCurrent DEF Effect!EffectRow
    <3>2. "boundary" \in Effect!Steps /\ "boundary" \in Effect!Forgetting
      BY DEF Effect!Steps, Effect!Forgetting
    <3>3. /\ worker' \in [Workers -> WorkerRow] /\ worker'[w].pc = "boundary"
          /\ worker'[w].call = 0 /\ worker'[w].lookup = "none" /\ worker'[w].answer = "none"
          /\ \A u \in Workers : u # w => worker'[u] = worker[u]
      BY <2>2, <3>2, GoShape DEF EffectInv
    <3>4. Effect!TypeOK'
      BY <1>1, <1>3, <3>1, <3>3, RenewedTyped DEF EffectInv, Effect!TypeOK, WorkerRow
    <3>5. \A u \in Workers : u # w => ~Effect!Fenced(u)'
      BY <1>3, OneFenced DEF EffectInv
    <3>6. Held(w)' /\ Current(w)'
      BY <2>1, <3>1, <3>3, AtCurrent DEF Held, Current, Calling, Effect!Lookups
    <3>7. Sealed'
      BY <1>1, <2>1, <3>1, <3>3 DEF Sealed, EffectInv, OneHolder
    <3>8. RowPromises'
      BY <1>1, <2>1, <2>2, <3>1, <3>7 DEF EffectInv, RowPromises, Effect!Performed,
         Effect!SucceededWasPerformed, Effect!Attempts
    <3> QED BY <1>1, <3>1, <3>3, <3>4, <3>5, <3>6, <3>8, WriteStep
  <2>3. CASE effectRun.cancel /\ Effect!Go(w, Effect!CancellationStep) /\ UNCHANGED effect
    BY <1>1, <1>3, <2>1, <2>3, CancellationStepKeeps
  <2>4. CASE Effect!Go(w, "send") /\ UNCHANGED effect
    <3>1. "send" \in Effect!Steps \ Effect!Forgetting
      BY DEF Effect!Steps, Effect!Forgetting
    <3>2. /\ worker'[w].pc = "send" /\ worker'[w].call = worker[w].call
          /\ worker'[w].answer = "none"
      BY <2>4, <3>1, GoShape DEF EffectInv
    <3>3. Held(w)' /\ Current(w)'
      BY <1>1, <2>1, <2>4, <3>1, <3>2, AtCurrent DEF Held, Current, Calling, Effect!Lookups
    <3> QED BY <1>1, <1>3, <2>4, <3>1, <3>3, RenewAndGo
  <2> QED BY <1>3, <2>2, <2>3, <2>4 DEF Effect!BeforeInvoke, Effect!LeaseLost
<1> QED BY <1>2, <1>3 DEF Effect!BeforeInvoke

\* The call goes out; past the deadline of its attempt it counts as an overrun.
LEMMA SendKeeps ==
  ASSUME EffectInv, NEW w \in Workers, Effect!Send(w) PROVE EffectInv'
<1> DEFINE n == worker[w].call
           A == effect.attempts
<1>1. /\ worker[w].pc = "send" /\ Effect!Go(w, "await")
      /\ calls' = [calls EXCEPT ![n] = "flying"]
      /\ overrun' = (overrun \/ effect.deadline = 0 \/ A # n)
      /\ UNCHANGED <<kind, effectRun, effect, pauses, unresolved>>
  BY DEF Effect!Send, Effect!At
<1>2. n \in Effect!Attempts /\ n <= A /\ calls[n] = "unsent" /\ A \in Nat /\ A >= 1
  BY <1>1, AtCurrent, EffectIs DEF Held, Calling, WorkerRow, Effect!Attempts,
     Effect!EffectAssumption
<1>3. "await" \in Effect!Steps \ Effect!Forgetting
  BY DEF Effect!Steps, Effect!Forgetting
<1>4. /\ worker' \in [Workers -> WorkerRow] /\ worker'[w].pc = "await"
      /\ worker'[w].call = n /\ worker'[w].answer = "none"
      /\ \A u \in Workers : u # w => worker'[u] = worker[u]
  BY <1>1, <1>3, GoShape DEF EffectInv
<1>5. /\ calls' \in [Effect!Attempts -> {"unsent", "flying", "applied", "refused"}]
      /\ calls'[n] = "flying"
      /\ \A m \in Effect!Attempts : m # n => calls'[m] = calls[m]
  BY <1>1, <1>2, EffectTypes DEF EffectInv
<1> HIDE DEF n
<1>6. overrun' \in BOOLEAN /\ (overrun => overrun')
      /\ (~overrun' => ~overrun /\ effect.deadline # 0 /\ A = n)
  BY <1>1
<1>7. Effect!TypeOK'
  BY <1>1, <1>4, <1>5, <1>6 DEF EffectInv, Effect!TypeOK, WorkerRow
<1>8. Effect!Performed' = Effect!Performed
  BY <1>2, <1>5 DEF Effect!Performed, Effect!Attempts
<1>9. ASSUME NEW u \in Workers, u # w PROVE Held(u)' /\ Current(u)'
  <2>1. worker[u].call # n \/ worker[u].call = 0
    BY <1>9 DEF EffectInv, OneHolder, n
  <2>2. worker[u].call \in 0 .. EffectAttempts /\ Held(u) /\ Current(u)
    BY AtCurrent DEF WorkerRow
  <2>3. worker[u].call >= 1 => worker[u].call \in Effect!Attempts
    BY <2>2, EffectIs DEF Effect!Attempts, Effect!EffectAssumption
  <2>4. worker[u].call >= 1 => calls'[worker[u].call] = calls[worker[u].call]
    BY <1>5, <2>1, <2>3, <1>2
  <2>5. Held(u)'
    BY <1>1, <1>4, <1>8, <1>9, <2>2, <2>4 DEF Held, Calling
  <2>6. Current(u)'
    BY <1>1, <1>4, <1>6, <1>8, <1>9, <2>2 DEF Current, Effect!Fenced, Effect!Ambiguous,
       Effect!Unsettled, Effect!CanAcknowledge
  <2> QED BY <2>5, <2>6
<1>10. Held(w)'
  BY <1>1, <1>2, <1>3, <1>4, <1>8 DEF Held, Calling, Effect!Attempts
<1>11. Current(w)'
  BY <1>1, <1>4, AtCurrent DEF Current, Calling, Effect!Lookups, Effect!Fenced, n
<1>12. OneHolder'
  BY <1>4 DEF EffectInv, OneHolder, n
<1>13. CallsInTime'
  <2> SUFFICES ASSUME ~overrun' PROVE CallsInTime'
    BY DEF CallsInTime
  <2>1. ~overrun /\ effect.deadline # 0 /\ A = n
    BY <1>6
  <2>2. \A m \in Effect!Attempts : m < A => m # n
    BY <1>2, <2>1
  <2> QED BY <1>1, <1>2, <1>5, <2>1, <2>2 DEF EffectInv, CallsInTime
<1>14. Sealed => Sealed'
  <2>1. A # n => calls'[A] = calls[A]
    BY <1>2, <1>5, AtCurrent DEF Effect!Attempts
  <2> QED BY <1>1, <1>2, <1>4, <2>1 DEF Sealed, n
<1>15. RowPromises'
  <2>1. \A m \in Effect!Attempts : m > A => m # n
    BY <1>2 DEF Effect!Attempts
  <2>2. calls[A] = "refused" => calls'[A] = "refused"
    BY <1>2, <1>5, AtCurrent DEF Effect!Attempts
  <2> QED BY <1>1, <1>5, <1>6, <1>8, <1>14, <2>1, <2>2 DEF EffectInv, RowPromises,
             Effect!SucceededWasPerformed
<1> QED BY <1>7, <1>9, <1>10, <1>11, <1>12, <1>13, <1>15 DEF EffectInv

\* The wait for the provider ends, with or without an answer.
LEMMA AnsweredKeeps ==
  ASSUME EffectInv, NEW w \in Workers, Effect!Answered(w) PROVE EffectInv'
<1>1. /\ UNCHANGED <<effectRun, effect, kind, calls, overrun, pauses, unresolved>>
      /\ worker[w].pc = "await"
  BY DEF Effect!Answered, Effect!environment, Effect!At
<1>2. worker[w].call >= 1
  BY <1>1, AtCurrent DEF Held, Calling
<1>3. ASSUME NEW step \in {"complete", "rejected", "unknown"}, Effect!Go(w, step),
             step = "complete" => calls[worker[w].call] = "applied",
             step = "rejected" => calls[worker[w].call] = "refused"
      PROVE  EffectInv'
  <2>1. step \in Effect!Steps \ Effect!Forgetting
    BY DEF Effect!Steps, Effect!Forgetting
  <2>2. /\ worker' \in [Workers -> WorkerRow] /\ worker'[w].pc = step
        /\ worker'[w].call = worker[w].call /\ worker'[w].answer = "none"
        /\ \A u \in Workers : u # w => worker'[u] = worker[u]
    BY <1>3, <2>1, GoShape DEF EffectInv
  <2>3. Effect!TypeOK'
    BY <1>1, <2>2 DEF EffectInv, Effect!TypeOK, WorkerRow
  <2>4. Held(w)'
    BY <1>1, <1>2, <1>3, <2>1, <2>2, AtCurrent DEF Held, Calling
  <2>5. Current(w)'
    BY <1>1, <1>3, <2>2, AtCurrent DEF Current, Calling, Effect!Lookups, Effect!Fenced
  <2> QED BY <1>1, <2>2, <2>3, <2>4, <2>5, QuietStep DEF Effect!Fenced
<1>4. ASSUME NEW step \in {"requeue", "fail"}, Effect!Go(w, step) PROVE EffectInv'
  <2>1. worker' \in [Workers -> WorkerRow] /\ step \in Resting
    BY <1>4, GoShape DEF EffectInv, Effect!Steps, Resting
  <2>2. Effect!TypeOK'
    BY <1>1, <2>1 DEF EffectInv, Effect!TypeOK, WorkerRow
  <2> QED BY <1>1, <1>4, <2>1, <2>2, RestStep DEF Effect!Fenced
<1> QED BY <1>3, <1>4 DEF Effect!Answered

\* A success is recorded by the holder of the lease only.
LEMMA CompleteEffectKeeps ==
  ASSUME EffectInv, NEW w \in Workers, Effect!CompleteEffect(w) PROVE EffectInv'
<1>1. /\ UNCHANGED <<effectRun, kind, calls, overrun, pauses, unresolved>>
      /\ worker[w].pc = "complete"
  BY DEF Effect!CompleteEffect, Effect!environment, Effect!At
<1>2. CASE Effect!LeaseLost(w)
  BY <1>1, <1>2, LeaseLostKeeps
<1>3. CASE Effect!Go(w, "unknown") /\ UNCHANGED effect
  <2>1. "unknown" \in Effect!Steps \ Effect!Forgetting
    BY DEF Effect!Steps, Effect!Forgetting
  <2>2. /\ worker' \in [Workers -> WorkerRow] /\ worker'[w].pc = "unknown"
        /\ worker'[w].call = worker[w].call /\ worker'[w].answer = "none"
        /\ \A u \in Workers : u # w => worker'[u] = worker[u]
    BY <1>3, <2>1, GoShape DEF EffectInv
  <2>3. Effect!TypeOK'
    BY <1>1, <1>3, <2>2 DEF EffectInv, Effect!TypeOK, WorkerRow
  <2>4. Held(w)'
    BY <1>1, <1>3, <2>1, <2>2, AtCurrent DEF Held, Calling
  <2>5. Current(w)'
    BY <1>1, <1>3, <2>2, AtCurrent DEF Current, Calling, Effect!Lookups, Effect!Fenced
  <2> QED BY <1>1, <1>3, <2>2, <2>3, <2>4, <2>5, QuietStep DEF Effect!Fenced
<1>4. CASE /\ Effect!Fenced(w)
           /\ effect' = [effect EXCEPT !.status = "succeeded", !.code = "none"]
           /\ Effect!Go(w, "finish")
  <2>1. /\ effect' \in Effect!EffectRow /\ effect'.status = "succeeded"
        /\ effect'.code = "none"
        /\ effect'.attempts = effect.attempts /\ effect'.deadline = effect.deadline
    BY <1>4, AtCurrent DEF Effect!EffectRow
  <2>2. "finish" \in Effect!Steps /\ "finish" \in Effect!Forgetting
    BY DEF Effect!Steps, Effect!Forgetting
  <2>3. /\ worker' \in [Workers -> WorkerRow] /\ worker'[w].pc = "finish"
        /\ worker'[w].call = 0 /\ worker'[w].lookup = "none" /\ worker'[w].answer = "none"
        /\ \A u \in Workers : u # w => worker'[u] = worker[u]
    BY <1>4, <2>2, GoShape DEF EffectInv
  <2>4. Effect!TypeOK'
    BY <1>1, <2>1, <2>3 DEF EffectInv, Effect!TypeOK, WorkerRow
  <2>5. \A u \in Workers : u # w => ~Effect!Fenced(u)'
    BY <1>1, <1>4, OneFenced DEF EffectInv
  <2>6. Held(w)' /\ Current(w)'
    BY <2>1, <2>3, AtCurrent DEF Held, Current, Calling, Effect!Lookups, Effect!EffectRow
  <2>7. /\ effect.attempts >= 1 /\ effect.attempts \in Effect!Attempts
        /\ calls[effect.attempts] = "applied"
    BY <1>1, <1>4, AtCurrent DEF Held, Current, Calling, Effect!Attempts
  <2>8. RowPromises'
    BY <1>1, <2>1, <2>7 DEF EffectInv, RowPromises, Sealed, Effect!Performed,
       Effect!SucceededWasPerformed, Effect!Attempts
  <2> QED BY <1>1, <2>1, <2>3, <2>4, <2>5, <2>6, <2>8, WriteStep
<1> QED BY <1>2, <1>3, <1>4 DEF Effect!CompleteEffect

\* A refusal or an unknown outcome is recorded by the holder of the lease only.
LEMMA RecordFailureKeeps ==
  ASSUME EffectInv, NEW w \in Workers, Effect!RecordFailure(w) PROVE EffectInv'
<1>1. /\ UNCHANGED <<kind, calls, overrun, pauses, unresolved>>
      /\ worker[w].pc \in {"rejected", "unknown"}
  BY DEF Effect!RecordFailure, Effect!environment, Effect!At
<1>2. CASE Effect!LeaseLost(w)
  BY <1>1, <1>2, LeaseLostKeeps
<1>3. CASE Effect!Fenced(w) /\ ~Effect!LeaseLost(w)
  <2>1. effectRun' = Effect!Renewed /\ Effect!Go(w, "after_failure")
    BY <1>3 DEF Effect!RecordFailure
  <2>2. /\ effect' \in Effect!EffectRow
        /\ effect'.attempts = effect.attempts /\ effect'.deadline = effect.deadline
        /\ \/ /\ worker[w].pc = "rejected" /\ effect'.code = "rejected"
              /\ effect'.status \in {"failed", "retry_wait"}
           \/ effect'.status = "failed" /\ effect'.code = "outcome_unknown"
           \/ effect'.status = "uncertain" /\ effect'.code = "unknown"
    <3> DEFINE Failed(code) == [effect EXCEPT !.status = "failed", !.code = code]
               Waiting(s, code, delay) ==
                 [effect EXCEPT !.status = s, !.code = code, !.availableIn = delay]
    <3>1. PICK delay \in 1 .. MaxDelay :
            \/ /\ worker[w].pc = "rejected"
               /\ effect' \in {Failed("rejected"), Waiting("retry_wait", "rejected", delay)}
            \/ effect' \in {Failed("outcome_unknown"), Waiting("uncertain", "unknown", delay)}
      BY <1>3 DEF Effect!RecordFailure
    <3>2. delay \in 0 .. MaxDelay
      BY EffectIs DEF Effect!EffectAssumption
    <3> QED BY <3>1, <3>2, AtCurrent DEF Effect!EffectRow
  <2>3. "after_failure" \in Effect!Steps /\ "after_failure" \in Effect!Forgetting
    BY DEF Effect!Steps, Effect!Forgetting
  <2>4. /\ worker' \in [Workers -> WorkerRow] /\ worker'[w].pc = "after_failure"
        /\ worker'[w].call = 0 /\ worker'[w].lookup = "none" /\ worker'[w].answer = "none"
        /\ \A u \in Workers : u # w => worker'[u] = worker[u]
    BY <2>1, <2>3, GoShape DEF EffectInv
  <2>5. Effect!TypeOK'
    BY <1>1, <2>1, <2>2, <2>4, RenewedTyped DEF EffectInv, Effect!TypeOK, WorkerRow
  <2>6. \A u \in Workers : u # w => ~Effect!Fenced(u)'
    BY <1>3, <2>1, OneFenced DEF EffectInv
  <2>7. /\ effect.attempts >= 1 /\ effect.attempts = worker[w].call
        /\ worker[w].pc = "rejected" => calls[effect.attempts] = "refused"
    BY <1>1, <1>3, AtCurrent DEF Held, Current, Calling
  <2>8. Held(w)' /\ Current(w)'
    BY <2>2, <2>4, <2>7, AtCurrent DEF Held, Current, Calling, Effect!Lookups
  <2>9. RowPromises'
    BY <1>1, <2>2, <2>7 DEF EffectInv, RowPromises, Sealed, Effect!Performed,
       Effect!SucceededWasPerformed, Effect!Attempts
  <2> QED BY <1>1, <2>2, <2>4, <2>5, <2>6, <2>8, <2>9, WriteStep
<1> QED BY <1>2, <1>3 DEF Effect!RecordFailure

\* What follows a recorded failure: the end of the run, a retry, or the path of a Stop.
LEMMA AfterFailureKeeps ==
  ASSUME EffectInv, NEW w \in Workers, Effect!AfterFailure(w) PROVE EffectInv'
<1>1. /\ UNCHANGED <<kind, calls, overrun, pauses, unresolved>>
      /\ worker[w].pc = "after_failure" /\ unresolved' \in 0 .. MaxUnresolved
  BY EffectTypes DEF EffectInv, Effect!AfterFailure, Effect!environment, Effect!At
<1>2. CASE Effect!LeaseLost(w)
  BY <1>1, <1>2, LeaseLostKeeps
<1>3. CASE /\ Effect!Fenced(w) /\ effectRun' = Effect!Renewed /\ UNCHANGED effect
           /\ Effect!Go(w, IF effectRun.cancel THEN Effect!CancellationStep ELSE
                           IF effect.status = "failed" THEN "fail" ELSE "requeue")
  <2>1. effect.attempts >= 1
    BY <1>1, AtCurrent DEF Held
  <2>2. CASE effectRun.cancel
    BY <1>1, <1>3, <2>1, <2>2, CancellationStepKeeps
  <2>3. CASE ~effectRun.cancel
    BY <1>1, <1>3, <2>3, RenewAndRest DEF Resting
  <2> QED BY <2>2, <2>3
<1> QED BY <1>2, <1>3 DEF Effect!AfterFailure

\* A look at the provider finds only what was performed.
LEMMA LookupKeeps ==
  ASSUME EffectInv, NEW w \in Workers, Effect!Lookup(w) PROVE EffectInv'
<1>1. UNCHANGED <<kind, calls, overrun, pauses>> /\ worker[w].pc \in Effect!Lookups
  BY DEF Effect!Lookup, Effect!At
<1>2. CASE Effect!LeaseLost(w) /\ UNCHANGED unresolved
  BY <1>1, <1>2, LeaseLostKeeps
<1>3. CASE Effect!Fenced(w) /\ effectRun' = Effect!Renewed /\ UNCHANGED effect
  <2>1. Effect!Ambiguous /\ effect.deadline = 0
    BY <1>1, <1>3, AtCurrent DEF Current
  <2>2. effect.attempts >= 1
    BY <2>1, AtCurrent DEF EffectInv, RowPromises, Effect!Ambiguous
  <2>3. CASE Effect!Go(w, Effect!CancellationStep) /\ UNCHANGED unresolved
    BY <1>1, <1>3, <2>2, <2>3, CancellationStepKeeps, EffectTypes DEF EffectInv
  <2>4. CASE unresolved' \in 0 .. MaxUnresolved /\ Effect!Go(w, "requeue")
    BY <1>1, <1>3, <2>4, RenewAndRest DEF Resting
  <2>5. ASSUME unresolved' \in 0 .. MaxUnresolved,
               NEW a \in {"found", "not_found", "unknown", "conflict"},
               worker' = [worker EXCEPT ![w].pc = "record", ![w].lookup = worker[w].pc,
                                        ![w].answer = a],
               a = "found" => Effect!Performed # {},
               a = "not_found" => Effect!Performed = {}
        PROVE  EffectInv'
    <3> DEFINE row == [worker[w] EXCEPT !.pc = "record", !.lookup = worker[w].pc, !.answer = a]
    <3>1. worker' = [worker EXCEPT ![w] = row]
      BY <2>5
    <3>2. row \in WorkerRow
      BY <1>1, <2>5, AtCurrent DEF WorkerRow, Effect!Steps
    <3>3. /\ worker' \in [Workers -> WorkerRow] /\ worker'[w].pc = "record"
          /\ worker'[w].call = worker[w].call /\ worker'[w].answer = a
          /\ \A u \in Workers : u # w => worker'[u] = worker[u]
      BY <3>1, <3>2, EffectTypes, AtCurrent DEF EffectInv, WorkerRow
    <3>4. Effect!TypeOK'
      BY <1>1, <1>3, <2>5, <3>3, RenewedTyped DEF EffectInv, Effect!TypeOK, WorkerRow
    <3>5. \A u \in Workers : u # w => ~Effect!Fenced(u)'
      BY <1>3, OneFenced DEF EffectInv
    <3>6. Held(w)'
      BY <1>1, <1>3, <2>5, <3>3, AtCurrent DEF Held, Calling, Effect!Forgetting,
         Effect!Performed
    <3>7. Current(w)'
      BY <1>1, <1>3, <2>1, <2>5, <3>3 DEF Current, Calling, Effect!Lookups,
         Effect!Performed, Effect!Ambiguous
    <3> QED BY <1>1, <1>3, <3>3, <3>4, <3>5, <3>6, <3>7, QuietStep
  <2>6. unresolved < MaxUnresolved /\ unresolved' = unresolved + 1
          => unresolved' \in 0 .. MaxUnresolved
    BY EffectTypes, EffectIs DEF EffectInv, Effect!EffectAssumption
  <2>7. unresolved \in 0 .. MaxUnresolved
    BY EffectTypes DEF EffectInv
  <2>8. ASSUME UNCHANGED unresolved,
               worker' = [worker EXCEPT ![w].pc = "record", ![w].lookup = worker[w].pc,
                            ![w].answer = IF \E n \in Effect!Attempts : calls[n] = "applied"
                                          THEN "found" ELSE "not_found"]
        PROVE  EffectInv'
    <3>1. CASE \E n \in Effect!Attempts : calls[n] = "applied"
      BY <2>5, <2>7, <2>8, <3>1 DEF Effect!Performed
    <3>2. CASE ~\E n \in Effect!Attempts : calls[n] = "applied"
      BY <2>5, <2>7, <2>8, <3>2 DEF Effect!Performed
    <3> QED BY <3>1, <3>2
  <2> QED
    BY <1>3, <2>3, <2>4, <2>5, <2>6, <2>8 DEF Effect!Lookup, Effect!LeaseLost
<1> QED BY <1>2, <1>3 DEF Effect!Lookup

\* A step of the worker with the lease that ends in one place or another, having
\* written a row that keeps its promises.
LEMMA WriteAndGo ==
  ASSUME EffectInv, NEW w \in Workers, NEW step \in Effect!Steps, Effect!Fenced(w),
         effectRun' = Effect!Renewed, Effect!Go(w, step),
         UNCHANGED <<kind, calls, overrun, pauses, unresolved>>,
         effect' \in Effect!EffectRow,
         effect'.attempts = effect.attempts, effect'.deadline = effect.deadline,
         RowPromises',
         step \in Resting \/ step \in {"prepare", "exhaust"},
         worker[w].call <= effect.attempts,
         step = "prepare" => effect'.code = "not_found",
         step = "exhaust" => effect'.status \in {"prepared", "uncertain"}
  PROVE  EffectInv'
<1>1. /\ worker' \in [Workers -> WorkerRow] /\ worker'[w].pc = step
      /\ worker'[w].call \in {0, worker[w].call} /\ worker'[w].answer = "none"
      /\ step \in Effect!Forgetting => worker'[w].call = 0 /\ worker'[w].lookup = "none"
      /\ \A u \in Workers : u # w => worker'[u] = worker[u]
  BY GoShape DEF EffectInv
<1>2. Effect!TypeOK'
  BY <1>1, RenewedTyped DEF EffectInv, Effect!TypeOK, WorkerRow
<1>3. \A u \in Workers : u # w => ~Effect!Fenced(u)'
  BY OneFenced DEF EffectInv
<1>4. Held(w)'
  BY <1>1, AtCurrent DEF Held, Calling, Effect!Forgetting, Resting
<1>5. Current(w)'
  BY <1>1 DEF Current, Calling, Effect!Lookups, Effect!Unsettled, Resting
<1> QED BY <1>1, <1>2, <1>3, <1>4, <1>5, WriteStep

\* What the look found is recorded by the holder of the lease only.
LEMMA RecordLookupKeeps ==
  ASSUME EffectInv, NEW w \in Workers, Effect!RecordLookup(w) PROVE EffectInv'
<1> DEFINE l == worker[w].lookup
           afterAbsence == CASE l = "reconcile" -> "prepare"
                             [] l = "final"     -> "exhaust"
                             [] OTHER           -> "boundary"
           afterUnknown == CASE l = "reconcile" -> "requeue"
                             [] l = "final"     -> "exhaust"
                             [] OTHER           -> "idle"
<1>1. /\ UNCHANGED <<kind, calls, overrun, pauses, unresolved>>
      /\ worker[w].pc = "record"
  BY DEF Effect!RecordLookup, Effect!environment, Effect!At
<1>2. CASE Effect!LeaseLost(w)
  BY <1>1, <1>2, LeaseLostKeeps
<1>3. CASE /\ Effect!Fenced(w) /\ effectRun' = Effect!Renewed
           /\ effect.status \in {"prepared", "uncertain"}
           /\ ~Effect!LeaseLost(w)
  <2>1. /\ effect.deadline = 0 /\ Sealed /\ worker[w].call <= effect.attempts
        /\ worker[w].answer = "not_found" => overrun \/ Effect!Performed = {}
        /\ worker[w].answer = "found" => Effect!Performed # {}
        /\ 0 \in 0 .. MaxDelay
    BY <1>1, <1>3, AtCurrent, EffectIs DEF Held, Current, Sealed, Effect!EffectAssumption
  <2>2. /\ afterAbsence \in {"prepare", "exhaust", "boundary"}
        /\ afterUnknown \in {"requeue", "exhaust", "idle"}
    OBVIOUS
  <2> HIDE DEF afterAbsence, afterUnknown
  <2>3. CASE /\ worker[w].answer = "found"
             /\ effect' = [effect EXCEPT !.status = "succeeded", !.code = "none",
                                         !.availableIn = 0]
             /\ Effect!Go(w, "finish")
    <3>1. /\ effect' \in Effect!EffectRow /\ effect'.status = "succeeded"
          /\ effect'.code = "none"
          /\ effect'.attempts = effect.attempts /\ effect'.deadline = effect.deadline
      BY <2>1, <2>3, AtCurrent DEF Effect!EffectRow
    <3>2. RowPromises'
      BY <1>1, <1>3, <2>1, <2>3, <3>1 DEF EffectInv, RowPromises, Sealed,
         Effect!Performed, Effect!SucceededWasPerformed, Effect!Attempts
    <3> QED BY <1>1, <1>3, <2>1, <2>3, <3>1, <3>2, WriteAndGo DEF Effect!Steps, Resting
  <2>4. CASE /\ effect' = [effect EXCEPT !.status = "failed", !.code = "conflict",
                                         !.availableIn = 0]
             /\ Effect!Go(w, "fail")
    <3>1. /\ effect' \in Effect!EffectRow /\ effect'.status = "failed"
          /\ effect'.code = "conflict"
          /\ effect'.attempts = effect.attempts /\ effect'.deadline = effect.deadline
      BY <2>1, <2>4, AtCurrent DEF Effect!EffectRow
    <3>2. RowPromises'
      BY <1>1, <1>3, <2>1, <3>1 DEF EffectInv, RowPromises, Sealed,
         Effect!Performed, Effect!SucceededWasPerformed, Effect!Attempts
    <3> QED BY <1>1, <1>3, <2>1, <2>4, <3>1, <3>2, WriteAndGo DEF Effect!Steps, Resting
  <2>5. CASE /\ worker[w].answer = "not_found"
             /\ effect' = [effect EXCEPT !.status = "prepared", !.code = "not_found",
                                         !.availableIn = 0]
             /\ Effect!Go(w, afterAbsence)
    <3>1. /\ effect' \in Effect!EffectRow /\ effect'.status = "prepared"
          /\ effect'.code = "not_found"
          /\ effect'.attempts = effect.attempts /\ effect'.deadline = effect.deadline
      BY <2>1, <2>5, AtCurrent DEF Effect!EffectRow
    <3>2. RowPromises'
      BY <1>1, <1>3, <2>1, <2>5, <3>1 DEF EffectInv, RowPromises, Sealed,
         Effect!Performed, Effect!SucceededWasPerformed, Effect!Attempts
    <3> QED
      BY <1>1, <1>3, <2>1, <2>2, <2>5, <3>1, <3>2, WriteAndGo DEF Effect!Steps, Resting
  <2>6. CASE /\ \E delay \in IF l = "final" THEN {0} ELSE 1 .. MaxDelay :
                  effect' = [effect EXCEPT !.status = "uncertain",
                                           !.code = "reconcile_unknown",
                                           !.availableIn = delay]
             /\ Effect!Go(w, afterUnknown)
    <3>1. PICK delay \in 0 .. MaxDelay :
            effect' = [effect EXCEPT !.status = "uncertain",
                                     !.code = "reconcile_unknown",
                                     !.availableIn = delay]
      <4>1. \A d \in 1 .. MaxDelay : d \in 0 .. MaxDelay
        BY EffectIs DEF Effect!EffectAssumption
      <4> QED BY <2>1, <2>6, <4>1
    <3>2. /\ effect' \in Effect!EffectRow /\ effect'.status = "uncertain"
          /\ effect'.code = "reconcile_unknown"
          /\ effect'.attempts = effect.attempts /\ effect'.deadline = effect.deadline
      BY <3>1, AtCurrent DEF Effect!EffectRow
    <3>3. RowPromises'
      BY <1>1, <1>3, <2>1, <3>2 DEF EffectInv, RowPromises, Sealed,
         Effect!Performed, Effect!SucceededWasPerformed, Effect!Attempts
    <3> QED
      BY <1>1, <1>3, <2>1, <2>2, <2>6, <3>2, <3>3, WriteAndGo DEF Effect!Steps, Resting
  <2> QED
    BY <1>3, <2>3, <2>4, <2>5, <2>6 DEF Effect!RecordLookup, afterAbsence, afterUnknown
<1> QED BY <1>2, <1>3 DEF Effect!RecordLookup

\* An effect out of attempts is closed with what is known of it.
LEMMA ExhaustKeeps ==
  ASSUME EffectInv, NEW w \in Workers, Effect!Exhaust(w) PROVE EffectInv'
<1>1. /\ UNCHANGED <<kind, calls, overrun, pauses, unresolved>>
      /\ worker[w].pc = "exhaust" /\ unresolved' \in 0 .. MaxUnresolved
  BY EffectTypes DEF EffectInv, Effect!Exhaust, Effect!environment, Effect!At
<1>2. CASE Effect!LeaseLost(w)
  BY <1>1, <1>2, LeaseLostKeeps
<1>3. CASE /\ Effect!Fenced(w) /\ effectRun' = Effect!Renewed /\ UNCHANGED effect
           /\ Effect!Go(w, IF Effect!Ambiguous THEN "idle" ELSE "boundary")
  BY <1>1, <1>3, RenewAndRest DEF Resting
<1>4. CASE /\ Effect!Fenced(w) /\ effectRun' = Effect!Renewed
           /\ effect' = [effect EXCEPT
                !.status = "failed",
                !.code = IF Effect!Ambiguous THEN "outcome_unknown" ELSE "exhausted"]
           /\ Effect!Go(w, "fail")
  <2>1. /\ effect' \in Effect!EffectRow /\ effect'.status = "failed"
        /\ effect'.code = IF Effect!Ambiguous THEN "outcome_unknown" ELSE "exhausted"
        /\ effect'.attempts = effect.attempts /\ effect'.deadline = effect.deadline
    BY <1>4, AtCurrent DEF Effect!EffectRow
  <2>2. "fail" \in Effect!Steps /\ "fail" \in Effect!Forgetting
    BY DEF Effect!Steps, Effect!Forgetting
  <2>3. /\ worker' \in [Workers -> WorkerRow] /\ worker'[w].pc = "fail"
        /\ worker'[w].call = 0 /\ worker'[w].lookup = "none" /\ worker'[w].answer = "none"
        /\ \A u \in Workers : u # w => worker'[u] = worker[u]
    BY <1>4, <2>2, GoShape DEF EffectInv
  <2>4. Effect!TypeOK'
    BY <1>1, <1>4, <2>1, <2>3, RenewedTyped DEF EffectInv, Effect!TypeOK, WorkerRow
  <2>5. \A u \in Workers : u # w => ~Effect!Fenced(u)'
    BY <1>4, OneFenced DEF EffectInv
  <2>6. Held(w)' /\ Current(w)'
    BY <2>1, <2>3, AtCurrent DEF Held, Current, Calling, Effect!Lookups
  <2>7. Effect!Unsettled /\ effect.attempts >= 1
    BY <1>1, <1>4, AtCurrent DEF EffectInv, RowPromises, Current, Effect!Unsettled
  <2>8. ~Effect!Ambiguous =>
          Sealed /\ (kind # "read_only" => overrun \/ Effect!Performed = {})
    BY <2>7 DEF EffectInv, RowPromises, CallsInTime, Effect!Ambiguous, Effect!Unsettled
  <2>9. ~Effect!Ambiguous => Sealed'
    BY <1>1, <2>1, <2>3, <2>7, <2>8 DEF Sealed
  <2>10. RowPromises'
    BY <1>1, <2>1, <2>7, <2>8, <2>9 DEF EffectInv, RowPromises, Effect!Performed,
       Effect!SucceededWasPerformed, Effect!Attempts
  <2> QED BY <1>1, <2>1, <2>3, <2>4, <2>5, <2>6, <2>10, WriteStep
<1> QED BY <1>2, <1>3, <1>4 DEF Effect!Exhaust

-------------------------------------------------------------------------------
(* The end of a claim, and the environment *)

\* A step that releases the run leaves no worker with a live lease.
LEMMA SettleRunKeeps ==
  ASSUME EffectInv, NEW w \in Workers, NEW row \in Effect!RunRow,
         row.status # "running", Effect!SettleRun(w, row)
  PROVE  EffectInv'
<1>1. UNCHANGED <<kind, calls, overrun, pauses, unresolved>>
  BY DEF Effect!SettleRun, Effect!environment
<1>2. CASE Effect!LeaseLost(w)
  BY <1>1, <1>2, LeaseLostKeeps
<1>3. CASE Effect!Fenced(w) /\ Effect!Go(w, "boundary") /\ UNCHANGED <<effectRun, effect>>
  BY <1>1, <1>3, RenewAndRest, EffectTypes DEF EffectInv, Resting
<1>4. CASE Effect!Go(w, "idle") /\ effectRun' = row /\ UNCHANGED effect
  <2>1. worker' \in [Workers -> WorkerRow]
    BY <1>4, GoShape DEF EffectInv, Effect!Steps
  <2>2. Effect!TypeOK'
    BY <1>1, <1>4, <2>1 DEF EffectInv, Effect!TypeOK, WorkerRow
  <2>3. \A u \in Workers : ~Effect!Fenced(u)'
    BY <1>4 DEF Effect!Fenced
  <2> QED BY <1>1, <1>4, <2>2, <2>3, RestStep DEF Resting
<1> QED BY <1>2, <1>3, <1>4 DEF Effect!SettleRun

\* The three ends of a claim release the run.
LEMMA EndOfClaimKeeps ==
  ASSUME EffectInv, NEW w \in Workers,
         \/ Effect!RequeueRun(w) \/ Effect!FinishRun(w) \/ Effect!FailRun(w)
  PROVE  EffectInv'
<1>1. ASSUME NEW delay \in {0, Effect!RetryIn}
      PROVE  /\ [Effect!Released("queued") EXCEPT !.availableIn = delay] \in Effect!RunRow
             /\ [Effect!Released("queued") EXCEPT !.availableIn = delay].status # "running"
  <2>1. delay \in 0 .. MaxDelay + EffectTimeout
    BY EffectTypes, EffectIs DEF EffectInv, Effect!RetryIn, Effect!EffectRow,
       Effect!EffectAssumption
  <2> QED BY <2>1, ReleasedTyped DEF EffectInv, Effect!RunRow
<1>2. \A s \in {"completed", "failed"} :
        Effect!Released(s) \in Effect!RunRow /\ Effect!Released(s).status # "running"
  BY ReleasedTyped DEF EffectInv, Effect!Terminal
<1> QED
  BY <1>1, <1>2, SettleRunKeeps DEF Effect!RequeueRun, Effect!FinishRun, Effect!FailRun

\* At the boundary of a claim the Stop is acknowledged or the lease is left to expire.
LEMMA CancellationBoundaryKeeps ==
  ASSUME EffectInv, NEW w \in Workers, Effect!CancellationBoundary(w) PROVE EffectInv'
<1>1. /\ UNCHANGED <<kind, calls, overrun, pauses, unresolved>>
      /\ unresolved' \in 0 .. MaxUnresolved
  BY EffectTypes DEF EffectInv, Effect!CancellationBoundary, Effect!environment
<1>2. CASE Effect!LeaseLost(w)
  BY <1>1, <1>2, LeaseLostKeeps
<1>3. CASE /\ Effect!Fenced(w) /\ effectRun' = Effect!Renewed /\ UNCHANGED effect
           /\ Effect!Go(w, "idle")
  BY <1>1, <1>3, RenewAndRest DEF Resting
<1>4. CASE /\ Effect!Fenced(w) /\ effectRun' = Effect!Renewed /\ UNCHANGED effect
           /\ Effect!Go(w, "acknowledge") /\ Effect!CanAcknowledge
  <2>1. "acknowledge" \in Effect!Steps /\ "acknowledge" \in Effect!Forgetting
    BY DEF Effect!Steps, Effect!Forgetting
  <2>2. /\ worker'[w].pc = "acknowledge" /\ worker'[w].call = 0
        /\ worker'[w].lookup = "none" /\ worker'[w].answer = "none"
    BY <1>4, <2>1, GoShape DEF EffectInv
  <2>3. Held(w)' /\ Current(w)'
    BY <1>1, <1>4, <2>2, AtCurrent DEF Held, Current, Calling, Effect!Lookups,
       Effect!CanAcknowledge, Effect!Ambiguous
  <2> QED BY <1>1, <1>4, <2>1, <2>3, RenewAndGo
<1> QED BY <1>2, <1>3, <1>4 DEF Effect!CancellationBoundary

\* A Stop is acknowledged by the holder, when nothing is ambiguous.
LEMMA EffectAcknowledgeKeeps ==
  ASSUME EffectInv, NEW w \in Workers, Effect!AcknowledgeCancellation(w) PROVE EffectInv'
<1>1. UNCHANGED <<kind, calls, overrun, pauses, unresolved>>
  BY DEF Effect!AcknowledgeCancellation, Effect!environment
<1>2. CASE Effect!LeaseLost(w)
  BY <1>1, <1>2, LeaseLostKeeps
<1>3. CASE /\ effectRun' = Effect!Released("cancelled") /\ Effect!Go(w, "idle")
           /\ UNCHANGED effect
  <2>1. effectRun' \in Effect!RunRow /\ effectRun'.status # "running"
    BY <1>3, ReleasedTyped DEF EffectInv, Effect!Terminal
  <2>2. worker' \in [Workers -> WorkerRow]
    BY <1>3, GoShape DEF EffectInv, Effect!Steps
  <2>3. Effect!TypeOK'
    BY <1>1, <1>3, <2>1, <2>2 DEF EffectInv, Effect!TypeOK, WorkerRow
  <2>4. \A u \in Workers : ~Effect!Fenced(u)'
    BY <2>1 DEF Effect!Fenced
  <2> QED BY <1>1, <1>3, <2>3, <2>4, RestStep DEF Resting
<1> QED BY <1>2, <1>3 DEF Effect!AcknowledgeCancellation

\* A step that moves no worker, and leaves the row and the calls alone.
LEMMA RunStep ==
  ASSUME EffectInv, Effect!TypeOK', UNCHANGED <<kind, effect, calls, overrun, worker>>,
         \A u \in Workers : Effect!Fenced(u)' => Effect!Fenced(u)
  PROVE  EffectInv'
<1>1. ASSUME NEW w \in Workers PROVE Held(w)' /\ Current(w)'
  BY DEF EffectInv, Held, Current, Effect!Performed, Effect!Ambiguous,
     Effect!Unsettled, Effect!CanAcknowledge
<1> QED
  BY <1>1 DEF EffectInv, OneHolder, CallsInTime, RowPromises, Sealed, Effect!Performed,
     Effect!SucceededWasPerformed

\* A request to Stop marks the run and no more.
LEMMA RequestStopKeeps ==
  ASSUME EffectInv, Effect!RequestStop PROVE EffectInv'
<1>1. /\ effectRun' = [(IF effectRun.status = "queued" THEN Effect!Released("cancelled")
                                                       ELSE effectRun)
                         EXCEPT !.cancel = TRUE]
      /\ UNCHANGED <<effect, worker, kind, calls, overrun, pauses, unresolved>>
  BY DEF Effect!RequestStop, Effect!environment
<1>2. CASE effectRun.status = "queued"
  <2>1. Effect!Released("cancelled") \in Effect!RunRow
        /\ Effect!Released("cancelled").status = "cancelled"
    BY ReleasedTyped DEF EffectInv, Effect!Terminal
  <2>2. effectRun' \in Effect!RunRow /\ effectRun'.status = "cancelled"
    BY <1>1, <1>2, <2>1 DEF Effect!RunRow
  <2>3. Effect!TypeOK' /\ \A u \in Workers : ~Effect!Fenced(u)'
    BY <1>1, <2>2 DEF EffectInv, Effect!TypeOK, Effect!Fenced
  <2> QED BY <1>1, <2>3, RunStep
<1>3. CASE effectRun.status # "queued"
  <2>1. /\ effectRun' \in Effect!RunRow /\ effectRun'.status = effectRun.status
        /\ effectRun'.owner = effectRun.owner /\ effectRun'.lease = effectRun.lease
    BY <1>1, <1>3, EffectTypes DEF EffectInv, Effect!RunRow
  <2>2. Effect!TypeOK' /\ \A u \in Workers : Effect!Fenced(u)' => Effect!Fenced(u)
    BY <1>1, <2>1 DEF EffectInv, Effect!TypeOK, Effect!Fenced
  <2> QED BY <1>1, <2>2, RunStep
<1> QED BY <1>2, <1>3

\* A frozen process remembers what it knew.
LEMMA PauseKeeps ==
  ASSUME EffectInv, NEW w \in Workers, Effect!Pause(w) PROVE EffectInv'
<1>1. /\ worker' = [worker EXCEPT ![w].paused = TRUE] /\ pauses' = pauses + 1
      /\ pauses < MaxPauses
      /\ UNCHANGED <<kind, effectRun, effect, calls, overrun, unresolved>>
  BY DEF Effect!Pause
<1>2. /\ worker' \in [Workers -> WorkerRow]
      /\ worker'[w].call = worker[w].call /\ worker'[w].pc = worker[w].pc
      /\ worker'[w].lookup = worker[w].lookup /\ worker'[w].answer = worker[w].answer
      /\ worker'[w].safe = worker[w].safe
      /\ \A u \in Workers : u # w => worker'[u] = worker[u]
  BY <1>1, EffectTypes DEF EffectInv, WorkerRow
<1>3. pauses' \in 0 .. MaxPauses
  BY <1>1, EffectTypes, EffectIs DEF EffectInv, Effect!EffectAssumption
<1>4. Effect!TypeOK'
  BY <1>1, <1>2, <1>3 DEF EffectInv, Effect!TypeOK, WorkerRow
<1>5. Held(w)' /\ Current(w)'
  BY <1>1, <1>2, AtCurrent DEF Held, Current, Effect!Performed, Effect!Ambiguous,
     Effect!Unsettled, Effect!CanAcknowledge, Effect!Fenced
<1> QED BY <1>1, <1>2, <1>4, <1>5, QuietStep DEF Effect!Fenced

\* A process goes on with what it remembers, or is restarted with nothing.
LEMMA UnpauseKeeps ==
  ASSUME EffectInv, NEW w \in Workers, Effect!Unpause(w) PROVE EffectInv'
<1>1. UNCHANGED <<effectRun, effect, kind, calls, overrun, pauses, unresolved>>
  BY DEF Effect!Unpause, Effect!environment
<1>2. CASE worker' = [worker EXCEPT ![w].paused = FALSE]
  <2>1. /\ worker' \in [Workers -> WorkerRow]
        /\ worker'[w].call = worker[w].call /\ worker'[w].pc = worker[w].pc
        /\ worker'[w].lookup = worker[w].lookup /\ worker'[w].answer = worker[w].answer
        /\ worker'[w].safe = worker[w].safe
        /\ \A u \in Workers : u # w => worker'[u] = worker[u]
    BY <1>2, EffectTypes DEF EffectInv, WorkerRow
  <2>2. Effect!TypeOK'
    BY <1>1, <2>1 DEF EffectInv, Effect!TypeOK, WorkerRow
  <2>3. Held(w)' /\ Current(w)'
    BY <1>1, <2>1, AtCurrent DEF Held, Current, Effect!Performed, Effect!Ambiguous,
       Effect!Unsettled, Effect!CanAcknowledge, Effect!Fenced
  <2> QED BY <1>1, <2>1, <2>2, <2>3, QuietStep DEF Effect!Fenced
<1>3. CASE Effect!Go(w, "idle")
  <2>1. worker' \in [Workers -> WorkerRow]
    BY <1>3, GoShape DEF EffectInv, Effect!Steps
  <2>2. Effect!TypeOK'
    BY <1>1, <2>1 DEF EffectInv, Effect!TypeOK, WorkerRow
  <2> QED BY <1>1, <1>3, <2>2, RestStep DEF Effect!Fenced, Resting
<1> QED BY <1>2, <1>3 DEF Effect!Unpause

\* A sealed effect has no call under way within its deadline.
LEMMA SealedIsQuiet ==
  ASSUME EffectInv, Sealed, ~overrun
  PROVE  \A n \in Effect!Attempts : calls[n] # "flying"
<1>1. effect.attempts \in Nat
  BY EffectTypes, EffectIs DEF EffectInv, Effect!EffectRow, Effect!EffectAssumption
<1>2. \A n \in Effect!Attempts : n < effect.attempts \/ n = effect.attempts \/ n > effect.attempts
  BY <1>1 DEF Effect!Attempts
<1>3. effect.attempts \in Effect!Attempts => effect.attempts >= 1
  BY DEF Effect!Attempts
<1> QED
  BY <1>1, <1>2, <1>3 DEF EffectInv, CallsInTime, RowPromises, Sealed

\* The provider's answers: only the last call can still be performed or refused.
LEMMA ProviderKeeps ==
  ASSUME EffectInv, NEW n \in Effect!Attempts,
         Effect!ProviderApplies(n) \/ Effect!ProviderRefuses(n)
  PROVE  EffectInv'
<1> DEFINE A == effect.attempts
<1>1. /\ calls[n] = "flying" /\ calls' = [calls EXCEPT ![n] = calls'[n]]
      /\ calls'[n] \in {"applied", "refused"}
      /\ calls'[n] = "refused" => Effect!Performed = {}
      /\ UNCHANGED <<kind, effectRun, effect, worker, overrun, pauses, unresolved>>
  BY EffectTypes DEF EffectInv, Effect!ProviderApplies, Effect!ProviderRefuses,
     Effect!program, Effect!Performed
<1>2. /\ calls' \in [Effect!Attempts -> {"unsent", "flying", "applied", "refused"}]
      /\ \A m \in Effect!Attempts : m # n => calls'[m] = calls[m]
  BY <1>1, EffectTypes DEF EffectInv
<1>3. Effect!TypeOK'
  BY <1>1, <1>2 DEF EffectInv, Effect!TypeOK
<1>4. /\ Effect!Performed \subseteq Effect!Performed'
      /\ Effect!Performed' # {} => Effect!Performed # {} \/ calls'[n] = "applied"
  BY <1>1, <1>2 DEF Effect!Performed
<1>5. A \in Nat /\ A <= EffectAttempts /\ EffectAttempts \in Nat
  BY EffectTypes, EffectIs DEF EffectInv, Effect!EffectRow, Effect!EffectAssumption
<1>6. ~overrun => n = A /\ A >= 1 /\ effect.deadline # 0 /\ ~Sealed
  BY <1>1, <1>5, SealedIsQuiet DEF EffectInv, CallsInTime, RowPromises, Effect!Attempts, Sealed
<1>7. ASSUME NEW w \in Workers PROVE Held(w)' /\ Current(w)'
  <2> DEFINE m == worker[w].call
  <2>1. Held(w) /\ Current(w) /\ m \in 0 .. EffectAttempts
    BY AtCurrent DEF WorkerRow
  <2>2. m >= 1 => m \in Effect!Attempts
    BY <1>5, <2>1 DEF Effect!Attempts
  <2>3. m >= 1 /\ calls[m] # "flying" => calls'[m] = calls[m]
    BY <1>1, <1>2, <2>2
  <2>4. Held(w)'
    BY <1>1, <1>4, <2>1, <2>3 DEF Held, Calling
  <2>5. ASSUME Effect!Fenced(w), ~overrun,
               \/ worker[w].pc = "record" \/ worker[w].pc = "invoke"
        PROVE  FALSE
    BY <1>1, <1>6, <2>1, <2>5 DEF Held, Current, Calling
  <2>6. Current(w)'
    BY <1>1, <2>1, <2>5 DEF Current, Effect!Ambiguous, Effect!Unsettled,
       Effect!CanAcknowledge, Effect!Fenced
  <2> QED BY <2>4, <2>6
<1>8. OneHolder'
  BY <1>1 DEF EffectInv, OneHolder
<1>9. CallsInTime'
  <2> SUFFICES ASSUME ~overrun PROVE CallsInTime'
    BY <1>1 DEF CallsInTime
  <2>1. \A m \in Effect!Attempts : m < A => m # n
    BY <1>5, <1>6 DEF Effect!Attempts
  <2>2. calls'[A] = "refused" => Effect!Performed' = {}
    BY <1>1, <1>4, <1>6
  <2> QED BY <1>1, <1>2, <1>6, <2>1, <2>2 DEF EffectInv, CallsInTime
<1>10. A >= 1 => A \in Effect!Attempts
  BY <1>5 DEF Effect!Attempts
<1>11. Sealed => Sealed'
  BY <1>1, <1>2, <1>5, <1>10 DEF Sealed
<1>12. RowPromises'
  <2>1. \A m \in Effect!Attempts : m > A => m # n
    BY <1>1 DEF EffectInv, RowPromises
  <2>2. \/ effect.code = "not_found"
        \/ effect.code \in {"exhausted", "cancelled_before_invoke"}
        => Sealed
    BY DEF EffectInv, RowPromises
  <2>3. calls[A] = "refused" /\ A >= 1 => calls'[A] = "refused"
    BY <1>1, <1>2, <1>10
  <2> QED
    BY <1>1, <1>2, <1>4, <1>5, <1>6, <1>11, <2>1, <2>2, <2>3
    DEF EffectInv, RowPromises, Effect!SucceededWasPerformed
<1> QED BY <1>3, <1>7, <1>8, <1>9, <1>12 DEF EffectInv

\* Time passes: a call still under way at its deadline has outlived it.
LEMMA ClockKeeps ==
  ASSUME EffectInv, Effect!Tick PROVE EffectInv'
<1> DEFINE alive == \E w \in Workers : /\ Effect!Fenced(w) /\ worker[w].pc # "idle"
                                       /\ ~worker[w].paused
<1>1. /\ effectRun' = [effectRun EXCEPT
                         !.availableIn = Effect!Elapsed(effectRun.availableIn),
                         !.lease = IF alive THEN EffectLease
                                            ELSE Effect!Elapsed(effectRun.lease)]
      /\ effect' = [effect EXCEPT !.availableIn = Effect!Elapsed(effect.availableIn),
                                  !.deadline = Effect!Elapsed(effect.deadline)]
      /\ overrun' = \/ overrun
                    \/ effect.deadline = 1 /\ calls[effect.attempts] = "flying"
      /\ UNCHANGED <<kind, calls, worker, pauses, unresolved>>
  BY DEF Effect!Tick
<1>2. \A b \in Nat : \A x \in 0 .. b : Effect!Elapsed(x) \in 0 .. b
  BY DEF Effect!Elapsed
<1>3. /\ EffectLease \in Nat /\ MaxDelay \in Nat /\ EffectTimeout \in Nat
      /\ MaxDelay + EffectTimeout \in Nat
  BY EffectIs DEF Effect!EffectAssumption
<1>4. /\ effectRun' \in Effect!RunRow /\ effectRun'.status = effectRun.status
      /\ effectRun'.owner = effectRun.owner
      /\ effectRun'.lease = IF alive THEN EffectLease ELSE Effect!Elapsed(effectRun.lease)
  <2> HIDE DEF alive
  <2>1. effectRun \in Effect!RunRow
    BY EffectTypes DEF EffectInv
  <2>2. Effect!Elapsed(effectRun.availableIn) \in 0 .. MaxDelay + EffectTimeout
    BY <1>2, <1>3, <2>1 DEF Effect!RunRow
  <2>3. Effect!Elapsed(effectRun.lease) \in 0 .. EffectLease /\ EffectLease \in 0 .. EffectLease
    BY <1>2, <1>3, <2>1 DEF Effect!RunRow
  <2> QED BY <1>1, <2>1, <2>2, <2>3 DEF Effect!RunRow
<1>5. /\ effect' \in Effect!EffectRow /\ effect'.status = effect.status
      /\ effect'.code = effect.code /\ effect'.attempts = effect.attempts
      /\ effect'.deadline = Effect!Elapsed(effect.deadline)
  <2>1. effect \in Effect!EffectRow
    BY EffectTypes DEF EffectInv
  <2>2. /\ Effect!Elapsed(effect.availableIn) \in 0 .. MaxDelay
        /\ Effect!Elapsed(effect.deadline) \in 0 .. EffectTimeout
    BY <1>2, <1>3, <2>1 DEF Effect!EffectRow
  <2> QED BY <1>1, <2>1, <2>2 DEF Effect!EffectRow
<1>6. effect.deadline \in Nat
  BY EffectTypes, <1>3 DEF EffectInv, Effect!EffectRow
<1>7. /\ effect.deadline = 0 => effect'.deadline = 0
      /\ effect'.deadline = 0 => effect.deadline = 0 \/ effect.deadline = 1
  BY <1>5, <1>6 DEF Effect!Elapsed
<1>8. overrun' \in BOOLEAN /\ (overrun => overrun')
  BY <1>1, EffectTypes DEF EffectInv
<1>9. Effect!TypeOK'
  BY <1>1, <1>4, <1>5, <1>8 DEF EffectInv, Effect!TypeOK
<1>10. \A u \in Workers : Effect!Fenced(u)' => Effect!Fenced(u)
  <2>1. effectRun.lease \in Nat
    BY EffectTypes, <1>3 DEF EffectInv, Effect!RunRow
  <2>2. ~alive /\ effectRun'.lease > 0 => effectRun.lease > 0
    BY <1>4, <2>1 DEF Effect!Elapsed
  <2>3. alive => effectRun.lease > 0
    BY DEF Effect!Fenced
  <2> QED BY <1>4, <2>2, <2>3 DEF Effect!Fenced
<1>11. ASSUME NEW w \in Workers PROVE Held(w)' /\ Current(w)'
  BY <1>1, <1>5, <1>7, <1>8, <1>10, AtCurrent DEF Held, Current, Effect!Performed,
     Effect!Ambiguous, Effect!Unsettled, Effect!CanAcknowledge
<1>12. OneHolder'
  BY <1>1 DEF EffectInv, OneHolder
<1>13. CallsInTime'
  BY <1>1, <1>5, <1>7, <1>8 DEF EffectInv, CallsInTime, Effect!Performed
<1>14. Sealed => Sealed'
  BY <1>1, <1>5, <1>7 DEF Sealed
<1>15. RowPromises'
  BY <1>1, <1>5, <1>8, <1>14 DEF EffectInv, RowPromises, Effect!Performed,
     Effect!SucceededWasPerformed
<1> QED BY <1>9, <1>11, <1>12, <1>13, <1>15 DEF EffectInv

-------------------------------------------------------------------------------
(* The effect: its invariant, and what no step undoes *)

\* No attempt has been granted and no worker has claimed.
LEMMA EffectInit == Effect!Init => EffectInv
<1> SUFFICES ASSUME Effect!Init PROVE EffectInv
  OBVIOUS
<1>1. /\ 0 \in 0 .. EffectLease /\ 0 \in 0 .. MaxDelay + EffectTimeout
      /\ 0 \in 0 .. EffectAttempts /\ 0 \in 0 .. MaxDelay /\ 0 \in 0 .. EffectTimeout
      /\ 0 \in 0 .. MaxPauses /\ 0 \in 0 .. MaxUnresolved
  BY EffectIs DEF Effect!EffectAssumption
<1>2. Effect!TypeOK
  BY <1>1 DEF Effect!Init, Effect!TypeOK, Effect!RunRow, Effect!EffectRow, Effect!Idle,
     Effect!Steps, Effect!Lookups
<1>3. \A w \in Workers : Held(w) /\ Current(w)
  BY DEF Effect!Init, Effect!Idle, Held, Current, Calling, Effect!Forgetting,
     Effect!Fenced
<1>4. OneHolder /\ CallsInTime /\ RowPromises
  BY DEF Effect!Init, Effect!Idle, OneHolder, CallsInTime, RowPromises, Sealed,
     Effect!SucceededWasPerformed, Effect!Attempts
<1> QED BY <1>2, <1>3, <1>4 DEF EffectInv

\* Every step of an effect keeps its inductive invariant.
LEMMA EffectStep == EffectInv /\ [Effect!Next]_effectVars => EffectInv'
<1> SUFFICES ASSUME EffectInv, [Effect!Next]_effectVars PROVE EffectInv'
  OBVIOUS
<1>1. CASE UNCHANGED effectVars
  <2>1. Effect!TypeOK' /\ \A u \in Workers : Effect!Fenced(u)' => Effect!Fenced(u)
    BY <1>1 DEF effectVars, EffectInv, Effect!TypeOK, Effect!Fenced
  <2> QED BY <1>1, <2>1, RunStep DEF effectVars
<1>2. ASSUME NEW w \in Workers, Effect!WorkerStep(w) PROVE EffectInv'
  BY <1>2, EnterEffectKeeps, PrepareEffectKeeps, BeforeInvokeKeeps, SendKeeps,
     AnsweredKeeps, CompleteEffectKeeps, RecordFailureKeeps, AfterFailureKeeps,
     LookupKeeps, RecordLookupKeeps, ExhaustKeeps, EndOfClaimKeeps,
     CancellationBoundaryKeeps, EffectAcknowledgeKeeps DEF Effect!WorkerStep
<1>3. CASE Effect!Next
  BY <1>2, <1>3, ClockKeeps, RequestStopKeeps, ProviderKeeps, EffectClaimKeeps,
     PauseKeeps, UnpauseKeeps DEF Effect!Next
<1> QED BY <1>1, <1>3

\* The three properties of the row and its calls.
LEMMA EffectInvHolds == EffectInv => EffectHolds
<1> SUFFICES ASSUME EffectInv PROVE EffectHolds
  OBVIOUS
<1>1. Effect!TypeOK /\ Effect!SucceededWasPerformed
  BY DEF EffectInv, RowPromises
<1>2. Effect!PerformedOnce
  <2> SUFFICES ASSUME kind = "reconcile_before_replay", ~overrun,
                      NEW n \in Effect!Performed
               PROVE  n = effect.attempts
    BY DEF Effect!PerformedOnce
  <2>1. n \in Effect!Attempts /\ calls[n] = "applied"
    BY DEF Effect!Performed
  <2>2. ~(n < effect.attempts) /\ ~(n > effect.attempts)
    BY <2>1 DEF EffectInv, CallsInTime, RowPromises
  <2> QED
    BY <2>1, <2>2, EffectTypes, EffectIs DEF EffectInv, Effect!EffectRow, Effect!Attempts,
       Effect!EffectAssumption
<1>3. Effect!FailureIsDefinite
  <2> SUFFICES ASSUME kind # "read_only", effect.status = "failed", ~overrun,
                      effect.code \in {"rejected", "exhausted", "cancelled_before_invoke"}
               PROVE  Effect!Performed = {}
    BY DEF Effect!FailureIsDefinite
  <2>1. effect.attempts >= 1
    BY EffectTypes, EffectIs DEF EffectInv, RowPromises, Effect!EffectRow,
       Effect!EffectAssumption
  <2> QED BY <2>1 DEF EffectInv, RowPromises, CallsInTime
<1> QED BY <1>1, <1>2, <1>3 DEF EffectHolds

\* A settled outcome is never written again: each statement that writes the row
\* finds it unsettled.
LEMMA SettledStandsStep ==
  ASSUME EffectInv, [Effect!Next]_effectVars, effect.status \in {"succeeded", "failed"}
  PROVE  effect'.status = effect.status /\ effect'.code = effect.code
<1>1. effect.attempts >= 1 /\ ~Effect!Unsettled /\ effect.status # "none"
  BY EffectTypes, EffectIs DEF EffectInv, RowPromises, Effect!EffectRow,
     Effect!EffectAssumption, Effect!Unsettled
<1>2. ASSUME NEW w \in Workers, Effect!WorkerStep(w) PROVE UNCHANGED effect
  <2>1. CASE Effect!PrepareEffect(w)
    BY <1>1, <2>1 DEF Effect!PrepareEffect, Effect!LeaseLost, Effect!Authorized
  <2>2. CASE Effect!BeforeInvoke(w) \/ Effect!Exhaust(w)
    BY <1>1, <2>2, AtCurrent DEF Effect!BeforeInvoke, Effect!Exhaust, Effect!LeaseLost,
       Effect!At, Current, Calling
  <2>3. CASE Effect!CompleteEffect(w) \/ Effect!RecordFailure(w) \/ Effect!RecordLookup(w)
    BY <1>1, <2>3 DEF Effect!CompleteEffect, Effect!RecordFailure, Effect!RecordLookup,
       Effect!LeaseLost, Effect!Unsettled
  <2>4. CASE \/ Effect!EnterEffect(w) \/ Effect!Send(w) \/ Effect!Answered(w)
             \/ Effect!AfterFailure(w) \/ Effect!Lookup(w)
             \/ Effect!CancellationBoundary(w) \/ Effect!AcknowledgeCancellation(w)
    BY <2>4 DEF Effect!EnterEffect, Effect!Send, Effect!Answered, Effect!AfterFailure,
       Effect!Lookup, Effect!CancellationBoundary, Effect!AcknowledgeCancellation,
       Effect!LeaseLost
  <2>5. CASE Effect!RequeueRun(w) \/ Effect!FinishRun(w) \/ Effect!FailRun(w)
    BY <2>5 DEF Effect!RequeueRun, Effect!FinishRun, Effect!FailRun, Effect!SettleRun,
       Effect!LeaseLost
  <2> QED BY <1>2, <2>1, <2>2, <2>3, <2>4, <2>5 DEF Effect!WorkerStep
<1>3. CASE Effect!Tick
  BY <1>3, EffectTypes DEF EffectInv, Effect!Tick, Effect!EffectRow
<1>4. CASE UNCHANGED effect
  BY <1>4
<1> QED
  BY <1>2, <1>3, <1>4 DEF Effect!Next, effectVars, Effect!RequestStop,
     Effect!ProviderApplies, Effect!ProviderRefuses, Effect!Claim, Effect!Pause,
     Effect!Unpause, Effect!program

\* A worker acknowledges a Stop only of a settled effect with no call under way.
LEMMA AcknowledgedWhenSettledStep ==
  ASSUME EffectInv, [Effect!Next]_effectVars, kind # "read_only",
         effectRun.status = "running", effectRun'.status = "cancelled"
  PROVE  /\ ~Effect!Ambiguous
         /\ overrun \/ \A n \in Effect!Attempts : calls[n] # "flying"
<1>1. PICK w \in Workers : Effect!AcknowledgeCancellation(w) /\ Effect!Fenced(w)
  <2>1. ASSUME NEW w \in Workers, Effect!WorkerStep(w)
        PROVE  Effect!AcknowledgeCancellation(w) /\ Effect!Fenced(w)
    <3>1. ASSUME NEW s \in {"queued", "completed", "failed"}
          PROVE  Effect!Released(s).status # "cancelled"
      BY ReleasedTyped DEF EffectInv, Effect!Terminal
    <3>2. ASSUME NEW delay
          PROVE  [Effect!Released("queued") EXCEPT !.availableIn = delay].status # "cancelled"
      BY ReleasedTyped DEF EffectInv, Effect!RunRow
    <3>3. ~Effect!RequeueRun(w) /\ ~Effect!FinishRun(w) /\ ~Effect!FailRun(w)
      BY <3>1, <3>2 DEF Effect!RequeueRun, Effect!FinishRun, Effect!FailRun,
         Effect!SettleRun, Effect!LeaseLost
    <3>4. effectRun' # effectRun /\ effectRun' # Effect!Renewed
      BY RenewedTyped DEF EffectInv
    <3> QED
      BY <2>1, <3>3, <3>4 DEF Effect!WorkerStep, Effect!EnterEffect, Effect!PrepareEffect,
         Effect!BeforeInvoke, Effect!Send, Effect!Answered, Effect!CompleteEffect,
         Effect!RecordFailure, Effect!AfterFailure, Effect!Lookup, Effect!RecordLookup,
         Effect!Exhaust, Effect!CancellationBoundary, Effect!AcknowledgeCancellation,
         Effect!LeaseLost
  <2>2. ~Effect!Tick
    BY EffectTypes DEF EffectInv, Effect!Tick, Effect!RunRow
  <2>3. ~Effect!RequestStop
    BY EffectTypes DEF EffectInv, Effect!RequestStop, Effect!RunRow
  <2>4. ASSUME NEW w \in Workers PROVE ~Effect!Claim(w)
    BY RenewedTyped DEF EffectInv, Effect!Claim, Effect!RunRow
  <2> QED
    BY <2>1, <2>2, <2>3, <2>4 DEF Effect!Next, effectVars, Effect!ProviderApplies,
       Effect!ProviderRefuses, Effect!Pause, Effect!Unpause, Effect!program
<1>2. Effect!CanAcknowledge
  BY <1>1, AtCurrent DEF Current, Effect!AcknowledgeCancellation, Effect!At
<1>3. Sealed
  BY <1>2, EffectTypes DEF EffectInv, RowPromises, Effect!CanAcknowledge, Effect!Ambiguous,
     Effect!EffectRow
<1> QED BY <1>2, <1>3, SealedIsQuiet DEF Effect!CanAcknowledge

-------------------------------------------------------------------------------
(* Along the behaviours of the composition *)

\* In the composition a step of the effect is one of Effect!Next, or leaves it alone.
LEMMA EffectMovesAlone == [MCNext]_mcVars => [Effect!Next]_effectVars
BY DEF MCNext, mcVars, RunsMove, OriginMoves, effectVars

\* The inductive invariant of the effect.
LEMMA EffectInvAlways == MCSpec => []EffectInv
<1>1. MCInit => EffectInv
  BY EffectInit DEF MCInit
<1>2. EffectInv /\ [MCNext]_mcVars => EffectInv'
  BY EffectStep, EffectMovesAlone
<1> QED BY <1>1, <1>2, PTL DEF MCSpec

\* The row of an effect tells the truth about the provider, and only a call that
\* outlived its deadline performs an effect twice: for any number of workers,
\* attempts and pauses, and any lease, timeout and kind of effect.
THEOREM EffectHoldsAlways == MCSpec => []EffectHolds
BY EffectInvAlways, EffectInvHolds, PTL

\* Along every behaviour a settled effect keeps its outcome, and the run of an
\* effect is cancelled only when that outcome is known.
THEOREM EffectStands ==
  MCSpec => Effect!StopAcknowledgedWhenSettled /\ Effect!SettledForGood
<1>1. EffectInv /\ [MCNext]_mcVars =>
        [effect.status \in {"succeeded", "failed"} =>
           effect'.status = effect.status /\ effect'.code = effect.code]_(Effect!vars)
  BY SettledStandsStep, EffectMovesAlone
<1>2. EffectInv /\ [MCNext]_mcVars =>
        [effectRun.status = "running" /\ effectRun'.status = "cancelled"
           /\ kind # "read_only"
         => /\ ~Effect!Ambiguous
            /\ overrun \/ \A n \in Effect!Attempts : calls[n] # "flying"]_(Effect!vars)
  BY AcknowledgedWhenSettledStep, EffectMovesAlone
<1>3. MCSpec => Effect!SettledForGood
  BY EffectInvAlways, <1>1, PTL DEF MCSpec, Effect!SettledForGood
<1>4. MCSpec => Effect!StopAcknowledgedWhenSettled
  BY EffectInvAlways, <1>2, PTL DEF MCSpec, Effect!StopAcknowledgedWhenSettled
<1> QED BY <1>3, <1>4

\* Nothing that was settled is ever undone: a recorded Stop, a command's claim, an
\* effect's outcome.
THEOREM SettledStandsAlways == MCSpec => SettledStands
BY OriginStands, EffectStands DEF SettledStands
===============================================================================
