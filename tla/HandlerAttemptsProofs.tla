------------------------ MODULE HandlerAttemptsProofs ------------------------
(***************************************************************************)
(* What settles a run, for any workers and any number of attempts.  A      *)
(* worker decides to fail the run in one step and does so in a later one,  *)
(* with other workers in between; that the reason still holds then rests   *)
(* on attempts never being given back.  And what becomes of the outcome    *)
(* the run owes (TerminalProjection, as MCEngine instantiates it), for any *)
(* processes, limits and delays: OutboxInv is the inductive invariant.     *)
(***************************************************************************)
EXTENDS MCEngine, TLAPS

Places == {"idle", "release", "block", "start", "execute", "decide",
           "requeue", "fail", "complete", "race", "boundary"}

RowTypes ==
  /\ status \in {"queued", "running", "blocked"} \cup Settled
  /\ cancel \in BOOLEAN /\ owed \in BOOLEAN /\ holder \in Workers \cup {None}
  /\ cause \in Errors \cup {None}

Counts == attempt \in 0 .. MaxAttempts /\ setbacks \in 0 .. MaxSetbacks

WorkerTypes == pc \in [Workers -> Places] /\ error \in [Workers -> Errors \cup {None}]

Deserves(e) == e = "final" \/ (e \in Retryable /\ attempt = MaxAttempts)

(* A worker that decides has an error to decide on, and one that is about  *)
(* to fail the run has one that deserves it.                               *)
DecisionsStand ==
  \A w \in Workers : /\ pc[w] = "decide" => error[w] \in Errors
                     /\ pc[w] = "fail" => Deserves(error[w])

Deserved == status = "failed" => Deserves(cause)

IInv ==
  /\ RowTypes /\ Counts /\ WorkerTypes /\ DecisionsStand /\ Deserved
  /\ BlockedIsNotStopped /\ OwedWhenSettled

-----------------------------------------------------------------------------
\* Before the first claim nobody holds anything and nothing is settled.
LEMMA InitInv == Init => IInv
<1> SUFFICES ASSUME Init PROVE IInv
  OBVIOUS
<1>1. RowTypes /\ WorkerTypes
  BY DEF Init, RowTypes, WorkerTypes, Places
<1>2. Counts
  BY AttemptsAssumption DEF AttemptsAssumption, Init, Counts
<1>3. DecisionsStand
  BY DEF Init, DecisionsStand
<1>4. Deserved /\ BlockedIsNotStopped /\ OwedWhenSettled
  BY DEF Init, Deserved, BlockedIsNotStopped, OwedWhenSettled, Settled
<1> QED
  BY <1>1, <1>2, <1>3, <1>4 DEF IInv

(* No step takes an attempt back.                                          *)
LEMMA AttemptsStand ==
  ASSUME IInv, [Next]_vars
  PROVE  Counts' /\ \A e \in Errors : Deserves(e) => Deserves(e)'
<1>1. /\ MaxAttempts \in Nat /\ MaxSetbacks \in Nat
      /\ attempt \in 0 .. MaxAttempts /\ setbacks \in 0 .. MaxSetbacks
  BY AttemptsAssumption DEF AttemptsAssumption, IInv, Counts
<1>2. attempt' = attempt \/ (attempt < MaxAttempts /\ attempt' = attempt + 1)
  <2>1. ASSUME NEW w \in Workers, Start(w) PROVE <1>2!1 \/ <1>2!2
    BY <2>1 DEF Start
  <2>2. ASSUME NEW w \in Workers, Claim(w) \/ (Step(w) /\ ~Start(w)) PROVE attempt' = attempt
    BY <2>2 DEF Step, Claim, Release, Block, Execute, Decide, Requeue, Fail, Complete, Race, Acknowledge, row
  <2>3. LeaseRunsOut \/ RequestStop \/ Resume \/ UNCHANGED vars => attempt' = attempt
    BY DEF LeaseRunsOut, RequestStop, Resume, vars, row
  <2> QED
    BY <2>1, <2>2, <2>3 DEF Next, Step
<1>3. setbacks' = setbacks \/ (setbacks < MaxSetbacks /\ setbacks' = setbacks + 1)
  <2>1. ASSUME NEW w \in Workers, Claim(w) \/ Step(w) PROVE <1>3!1 \/ <1>3!2
    BY <2>1 DEF Step, Claim, Release, Block, Start, Execute, Decide, Requeue, Fail, Complete, Race, Acknowledge, Setback
  <2>2. LeaseRunsOut \/ RequestStop \/ Resume \/ UNCHANGED vars => <1>3!1 \/ <1>3!2
    BY DEF LeaseRunsOut, RequestStop, Resume, vars, Setback
  <2> QED
    BY <2>1, <2>2 DEF Next
<1>4. Counts'
  BY <1>1, <1>2, <1>3 DEF Counts
<1>5. attempt = MaxAttempts => attempt' = MaxAttempts
  BY <1>1, <1>2
<1> QED
  BY <1>4, <1>5 DEF Deserves

(* What a step may do to a row.                                            *)
Keeps     == UNCHANGED <<status, cancel, owed, cause>>
Reopens   == /\ status \notin Settled /\ status' \in {"queued", "running"}
             /\ UNCHANGED <<cancel, owed, cause>>
Blocks    == /\ status \notin Settled /\ status' = "blocked" /\ ~cancel
             /\ UNCHANGED <<cancel, owed, cause>>
Marks     == status = "running" /\ cancel' = TRUE /\ UNCHANGED <<status, owed, cause>>
Ends      == /\ status \notin Settled /\ status' \in {"completed", "cancelled"} /\ owed' = ContractV2
             /\ cancel' \in BOOLEAN /\ cause' = cause
Fails     == /\ status \notin Settled /\ status' = "failed" /\ owed' = ContractV2
             /\ cause' \in Errors /\ Deserves(cause') /\ cancel' = cancel

\* What a step can do to the row is one of six things, and a claim names a worker.
LEMMA RowStep ==
  ASSUME IInv, [Next]_vars
  PROVE  (Keeps \/ Reopens \/ Blocks \/ Marks \/ Ends \/ Fails) /\ holder' \in Workers \cup {None}
<1> DEFINE Good == (Keeps \/ Reopens \/ Blocks \/ Marks \/ Ends \/ Fails) /\ holder' \in Workers \cup {None}
<1> USE DEF Settled
<1>1. holder \in Workers \cup {None} /\ cancel \in BOOLEAN /\ None \in Workers \cup {None}
  BY DEF IInv, RowTypes
<1>2. ASSUME NEW w \in Workers, Claim(w) PROVE Good
  BY <1>1, <1>2 DEF Claim, Reopens
<1>3. ASSUME NEW w \in Workers, Release(w) \/ Requeue(w) PROVE Good
  BY <1>1, <1>3 DEF Release, Requeue, Fenced, Reopens, Keeps
<1>4. ASSUME NEW w \in Workers, Block(w) PROVE Good
  BY <1>1, <1>4 DEF Block, Settle, Fenced, Blocks, Ends, Keeps
<1>5. ASSUME NEW w \in Workers, Start(w) \/ Execute(w) \/ Decide(w) \/ Race(w) PROVE Good
  BY <1>1, <1>5 DEF Start, Execute, Decide, Race, row, Keeps
<1>6. ASSUME NEW w \in Workers, Fail(w) PROVE Good
  <2>1. Deserves(error[w]) /\ error[w] \in Errors
    BY <1>6 DEF Fail, At, IInv, DecisionsStand, Deserves, Errors, Retryable
  <2> QED
    BY <1>1, <1>6, <2>1 DEF Fail, Settle, Fenced, Fails, Keeps
<1>7. ASSUME NEW w \in Workers, Complete(w) \/ Acknowledge(w) PROVE Good
  BY <1>1, <1>7 DEF Complete, Acknowledge, Settle, Fenced, Ends, Keeps
<1>8. LeaseRunsOut => Good
  BY <1>1 DEF LeaseRunsOut, Keeps
<1>9. RequestStop => Good
  BY <1>1 DEF RequestStop, Settle, Marks, Ends
<1>10. Resume => Good
  BY <1>1 DEF Resume, Reopens
<1>11. UNCHANGED vars => Good
  BY <1>1 DEF vars, row, Keeps
<1> QED
  BY <1>2, <1>3, <1>4, <1>5, <1>6, <1>7, <1>8, <1>9, <1>10, <1>11 DEF Next, Step

(* What a step may do to a worker: it goes somewhere, to a decision only   *)
(* with an error and to a failure only with one that deserves it.          *)
LEMMA WorkerStep ==
  ASSUME IInv, [Next]_vars
  PROVE  \/ UNCHANGED <<pc, error>>
         \/ \E w \in Workers, p \in Places, e \in Errors \cup {None} :
              /\ pc' = [pc EXCEPT ![w] = p] /\ error' = [error EXCEPT ![w] = e]
              /\ p = "decide" => e \in Errors
              /\ p = "fail" => Deserves(e)
<1> DEFINE Moves(w, p, e) == /\ pc' = [pc EXCEPT ![w] = p] /\ error' = [error EXCEPT ![w] = e]
                             /\ p = "decide" => e \in Errors
                             /\ p = "fail" => Deserves(e)
           Good == UNCHANGED <<pc, error>> \/ \E w \in Workers, p \in Places, e \in Errors \cup {None} : Moves(w, p, e)
<1>1. \A w \in Workers : error[w] \in Errors \cup {None} /\ (error' = error => error' = [error EXCEPT ![w] = error[w]])
  BY DEF IInv, WorkerTypes
<1>2. ASSUME NEW w \in Workers, NEW p \in Places \ {"decide", "fail"}, pc' = [pc EXCEPT ![w] = p],
             error' = error \/ error' = [error EXCEPT ![w] = None]
      PROVE  Good
  <2>1. Moves(w, p, error[w]) \/ Moves(w, p, None)
    BY <1>1, <1>2
  <2> QED
    BY <1>1, <2>1
<1>3. ASSUME NEW w \in Workers, Leave(w) PROVE Good
  BY <1>2, <1>3 DEF Leave, Go, Places
<1>4. ASSUME NEW w \in Workers, Refused(w) PROVE Good
  BY <1>2, <1>3, <1>4 DEF Refused, Go, Places
<1>5. ASSUME NEW w \in Workers, Claim(w) PROVE Good
  <2>1. error' = error /\ \E p \in {"boundary", "start", "release", "block"} : pc' = [pc EXCEPT ![w] = p]
    BY <1>5 DEF Claim, Go
  <2> QED
    BY <1>2, <2>1 DEF Places
<1>6. ASSUME NEW w \in Workers, Start(w) \/ Race(w) PROVE Good
  <2>1. Leave(w) \/ (error' = error /\ \E p \in {"execute", "boundary"} : pc' = [pc EXCEPT ![w] = p])
    BY <1>6 DEF Start, Race, Go
  <2> QED
    BY <1>2, <1>3, <2>1 DEF Places
<1>7. ASSUME NEW w \in Workers, Execute(w) PROVE Good
  <2>1. \/ error' = error /\ \E p \in {"complete", "boundary"} : pc' = [pc EXCEPT ![w] = p]
        \/ \E e \in Errors : error' = [error EXCEPT ![w] = e] /\ pc' = [pc EXCEPT ![w] = "decide"]
    BY <1>7 DEF Execute, Go
  <2> QED
    BY <1>2, <2>1 DEF Places
<1>8. ASSUME NEW w \in Workers, Decide(w) PROVE Good
  <2>1. pc[w] = "decide" /\ error[w] \in Errors
    BY <1>8 DEF Decide, At, IInv, DecisionsStand
  <2>2. \/ Leave(w)
        \/ error' = error /\ \E p \in {"boundary", "requeue"} : pc' = [pc EXCEPT ![w] = p]
        \/ error' = error /\ ~Retries(error[w]) /\ pc' = [pc EXCEPT ![w] = "fail"]
    BY <1>8 DEF Decide, Go
  <2>3. ~Retries(error[w]) => Deserves(error[w])
    <3>1. attempt \in Nat /\ MaxAttempts \in Nat /\ attempt <= MaxAttempts
      BY AttemptsAssumption DEF AttemptsAssumption, IInv, Counts
    <3> QED
      BY <2>1, <3>1 DEF Retries, Deserves, Errors, Retryable, Unbounded
  <2> QED
    BY <1>1, <1>2, <1>3, <2>2, <2>3 DEF Places
<1>9. ASSUME NEW w \in Workers,
             Release(w) \/ Block(w) \/ Requeue(w) \/ Fail(w) \/ Complete(w) \/ Acknowledge(w)
      PROVE  Good
  BY <1>3, <1>4, <1>9 DEF Release, Block, Requeue, Fail, Complete, Acknowledge
<1>10. LeaseRunsOut \/ RequestStop \/ Resume \/ UNCHANGED vars => UNCHANGED <<pc, error>>
  BY DEF LeaseRunsOut, RequestStop, Resume, vars
<1> QED
  BY <1>5, <1>6, <1>7, <1>8, <1>9, <1>10 DEF Next, Step

\* Every step keeps the invariant: by cases of what it does to the row.
LEMMA Inductive == IInv /\ [Next]_vars => IInv'
<1> SUFFICES ASSUME IInv, [Next]_vars PROVE IInv'
  OBVIOUS
<1>1. Counts' /\ \A e \in Errors : Deserves(e) => Deserves(e)'
  BY AttemptsStand
<1>2. (Keeps \/ Reopens \/ Blocks \/ Marks \/ Ends \/ Fails) /\ holder' \in Workers \cup {None}
  BY RowStep
<1>3. RowTypes'
  <2>1. /\ status \in {"queued", "running", "blocked"} \cup Settled /\ cancel \in BOOLEAN /\ owed \in BOOLEAN
        /\ cause \in Errors \cup {None} /\ ContractV2 \in BOOLEAN
    BY AttemptsAssumption DEF AttemptsAssumption, IInv, RowTypes
  <2>2. status' \in {"queued", "running", "blocked"} \cup Settled
    BY <1>2, <2>1 DEF Keeps, Reopens, Blocks, Marks, Ends, Fails, Settled
  <2>3. cancel' \in BOOLEAN /\ owed' \in BOOLEAN
    BY <1>2, <2>1, Zenon DEF Keeps, Reopens, Blocks, Marks, Ends, Fails
  <2>4. cause' \in Errors \cup {None}
    BY <1>2, <2>1 DEF Keeps, Reopens, Blocks, Marks, Ends, Fails
  <2> QED
    BY <1>2, <2>2, <2>3, <2>4 DEF RowTypes
<1>4. Deserved'
  <2>1. \A e \in {cause, cause'} : Deserves(e) => e \in Errors
    BY DEF Deserves, Errors, Retryable
  <2>2. status' = "failed" => Deserves(cause')
    BY <1>2 DEF IInv, Deserved, Keeps, Reopens, Blocks, Marks, Ends, Fails
  <2>3. status' = "failed" => cause' = "final" \/ (cause' \in Retryable /\ attempt' = MaxAttempts)
    BY <1>1, <2>1, <2>2 DEF Deserves
  <2> QED
    BY <2>3 DEF Deserved, Deserves
<1>5. BlockedIsNotStopped'
  BY <1>2 DEF IInv, BlockedIsNotStopped, Keeps, Reopens, Blocks, Marks, Ends, Fails
<1>6. OwedWhenSettled'
  <2>1. ContractV2 => (owed <=> status \in Settled)
    BY DEF IInv, OwedWhenSettled
  <2>2. \/ owed' = owed /\ (status' \in Settled <=> status \in Settled)
        \/ owed' = ContractV2 /\ status' \in Settled
    BY <1>2 DEF Keeps, Reopens, Blocks, Marks, Ends, Fails, Settled
  <2> QED
    BY <2>1, <2>2, Zenon DEF OwedWhenSettled
<1>7. WorkerTypes' /\ DecisionsStand'
  <2>1. \A e : Deserves(e) => e \in Errors
    BY DEF Deserves, Errors, Retryable
  <2>2. \A e : Deserves(e) => e = "final" \/ (e \in Retryable /\ attempt' = MaxAttempts)
    BY <1>1, <2>1 DEF Deserves
  <2>3. CASE UNCHANGED <<pc, error>>
    BY <2>2, <2>3 DEF IInv, WorkerTypes, DecisionsStand, Deserves
  <2>4. ASSUME NEW w \in Workers, NEW p \in Places, NEW e \in Errors \cup {None},
               pc' = [pc EXCEPT ![w] = p], error' = [error EXCEPT ![w] = e],
               p = "decide" => e \in Errors, p = "fail" => Deserves(e)
        PROVE  WorkerTypes' /\ DecisionsStand'
    <3>1. WorkerTypes'
      BY <2>4 DEF IInv, WorkerTypes
    <3>2. /\ pc'[w] = p /\ error'[w] = e
          /\ \A v \in Workers : v # w => pc'[v] = pc[v] /\ error'[v] = error[v]
      BY <2>4 DEF IInv, WorkerTypes
    <3>3. \A v \in Workers : /\ pc'[v] = "decide" => error'[v] \in Errors
                             /\ pc'[v] = "fail" => Deserves(error'[v])
      BY <2>4, <3>2 DEF IInv, DecisionsStand
    <3>4. DecisionsStand'
      BY <2>2, <3>3 DEF DecisionsStand, Deserves
    <3> QED
      BY <3>1, <3>4
  <2> QED
    BY <2>3, <2>4, WorkerStep
<1> QED
  BY <1>1, <1>3, <1>4, <1>5, <1>6, <1>7 DEF IInv

\* The invariant holds at all times.
LEMMA Invariant == Spec => []IInv
BY InitInv, Inductive, PTL DEF Spec

----------------------------------------------------------------------------
(* The run's row, its attempts and the workers keep their types.           *)
THEOREM TypesHold == Spec => []TypeOK
<1>1. IInv => TypeOK
  BY DEF IInv, RowTypes, Counts, WorkerTypes, Places, TypeOK
<1> QED
  BY <1>1, Invariant, PTL

(* finishFailure: a run fails for an error that is final or has used up    *)
(* its attempts, never for an interruption or a missing dependency.        *)
THEOREM FailedIsDeservedHolds == Spec => []FailedIsDeserved
<1>1. IInv => FailedIsDeserved
  BY DEF IInv, Deserved, Deserves, FailedIsDeserved
<1> QED
  BY <1>1, Invariant, PTL

(* blockLease: a run that a Stop waits for is never left to an operator.   *)
THEOREM BlockedIsNotStoppedHolds == Spec => []BlockedIsNotStopped
<1>1. IInv => BlockedIsNotStopped
  BY DEF IInv
<1> QED
  BY <1>1, Invariant, PTL

(* Whoever settles a run of the second contract leaves its outcome owed,   *)
(* and nothing else does.                                                  *)
THEOREM OwedWhenSettledHolds == Spec => []OwedWhenSettled
<1>1. IInv => OwedWhenSettled
  BY DEF IInv
<1> QED
  BY <1>1, Invariant, PTL

(* The four invariants of a run's attempts in one.                         *)
THEOREM AttemptsHoldAlways == Spec => []AttemptsHold
BY TypesHold, FailedIsDeservedHolds, BlockedIsNotStoppedHolds, OwedWhenSettledHolds, PTL
   DEF AttemptsHold

-------------------------------------------------------------------------------
(* The outbox of a settled run: its row, its claims and their callbacks     *)

\* What a worker remembers of its claim: a token issued before, a callback only on
\* a claim below the limit, and an acknowledgement only of what was delivered.
Claimed(w) ==
  LET me == deliverer[w] IN
  /\ me.pc = "idle" => me.token = Outbox!NoToken /\ ~me.paused
  /\ me.pc # "idle" => me.token \in 1 .. projection.claims
  /\ me.pc = "claimed" => me.token < DeliveryClaims
  /\ me.pc = "claimed" /\ projection.token = me.token => offers < projection.claims
  /\ me.pc = "acknowledge" => delivered
  /\ me.pc \in {"requeue", "block"} => me.code # "none"

\* The row is fenced by its last claim, and due while it runs.
LastClaimOwns ==
  /\ projection.token \in {Outbox!NoToken, projection.claims}
  /\ projection.state \in {"running", "succeeded"} => projection.availableIn = 0
  /\ offers <= projection.claims

\* No two processes hold the same claim.
OneClaimant ==
  \A u, w \in Processes :
    deliverer[u].token = deliverer[w].token /\ deliverer[u].token # Outbox!NoToken => u = w

\* What the proofs about the outbox carry along.
OutboxInv ==
  /\ OutboxHolds
  /\ OneClaimant
  /\ LastClaimOwns
  /\ \A w \in Processes : Claimed(w)

\* A worker's own variables.
DelivererRow ==
  [pc     : Outbox!Steps,
   token  : 0 .. Outbox!MaxClaims,
   code   : Outbox!Codes,
   paused : BOOLEAN]

\* The parts of the type invariant, one by one.
LEMMA OutboxTypes ==
  ASSUME Outbox!TypeOK
  PROVE  /\ projection \in Outbox!Row
         /\ deliverer \in [Processes -> DelivererRow]
         /\ offers \in Nat /\ pausesD \in 0 .. DeliveryPauses
         /\ Outbox!MaxClaims \in Nat /\ DeliveryClaims <= Outbox!MaxClaims
         /\ DeliveryClaims \in Nat \ {0} /\ DeliveryLease \in Nat \ {0}
         /\ DeliveryDelay \in Nat \ {0} /\ DeliveryPauses \in Nat /\ Resumes \in Nat
BY OutboxIs DEF Outbox!TypeOK, Outbox!OutboxAssumption, Outbox!MaxClaims, DelivererRow

\* No claim has been made yet.
LEMMA OutboxInit == Outbox!Init => OutboxInv
<1> SUFFICES ASSUME Outbox!Init PROVE OutboxInv
  OBVIOUS
<1>1. Outbox!TypeOK
  <2>1. /\ Outbox!MaxClaims \in Nat /\ DeliveryLease \in Nat /\ DeliveryDelay \in Nat
        /\ DeliveryPauses \in Nat /\ Resumes \in Nat
    BY OutboxIs DEF Outbox!OutboxAssumption, Outbox!MaxClaims
  <2>2. projection \in Outbox!Row
    BY <2>1 DEF Outbox!Init, Outbox!Row, Outbox!NoLease, Outbox!NoToken, Outbox!Codes
  <2>3. deliverer \in [Processes -> DelivererRow]
    BY <2>1 DEF Outbox!Init, DelivererRow, Outbox!Idle, Outbox!NoToken, Outbox!Codes,
       Outbox!Steps
  <2>4. delivered = FALSE /\ offers = 0 /\ pausesD = 0 /\ resumes = 0
    BY DEF Outbox!Init
  <2>5. delivered \in BOOLEAN
    BY <2>4, Zenon
  <2>6. offers \in 0 .. Outbox!MaxClaims /\ pausesD \in 0 .. DeliveryPauses
        /\ resumes \in 0 .. Resumes
    <3>1. offers = 0 /\ pausesD = 0 /\ resumes = 0
      BY <2>4, Zenon
    <3> QED BY <2>1, <3>1
  <2> QED BY <2>2, <2>3, <2>5, <2>6, Zenon DEF Outbox!TypeOK, DelivererRow
<1>2. OutboxHolds
  BY <1>1, OutboxIs DEF OutboxHolds, Outbox!Init, Outbox!OutboxShapes, Outbox!NoToken,
     Outbox!NoLease, Outbox!SucceededWasDelivered, Outbox!DeliveriesBounded,
     Outbox!OutboxAssumption
<1>3. LastClaimOwns /\ OneClaimant /\ \A w \in Processes : Claimed(w)
  BY DEF OneClaimant, Outbox!Init, LastClaimOwns, Claimed, Outbox!Idle, Outbox!NoToken
<1> QED BY <1>2, <1>3 DEF OutboxInv

\* A claim is issued the next token, which no process remembers, and runs the
\* callback only below the limit.
LEMMA ClaimProjectionKeeps ==
  ASSUME OutboxInv, NEW w \in Processes, Outbox!ClaimTerminalProjection(w)
  PROVE  OutboxInv'
<1> DEFINE n == projection.claims + 1
<1>1. Outbox!TypeOK /\ LastClaimOwns /\ OutboxHolds
  BY DEF OutboxInv, OutboxHolds
<1>2. PICK v \in Outbox!Verdict(n) :
        deliverer' = [deliverer EXCEPT ![w] =
          [Outbox!Idle EXCEPT !.pc = v[1], !.code = v[2], !.token = n]]
  BY DEF Outbox!ClaimTerminalProjection
<1>3. /\ projection \in Outbox!Row /\ n \in 1 .. Outbox!MaxClaims
      /\ projection' = [projection EXCEPT !.state = "running", !.token = n,
                          !.lease = DeliveryLease, !.claims = n]
      /\ UNCHANGED <<delivered, offers, pausesD, resumes>>
      /\ deliverer[w].pc = "idle" /\ Outbox!Claimable
  BY <1>1, OutboxTypes DEF Outbox!ClaimTerminalProjection, Outbox!Row
<1>4. /\ v[1] \in {"claimed", "requeue", "block"} /\ v[2] \in Outbox!Codes
      /\ v[1] = "claimed" => n < DeliveryClaims
      /\ v[1] # "claimed" => v[2] # "none"
  BY <1>1, <1>3, OutboxTypes DEF Outbox!Verdict, Outbox!Codes
<1>5. /\ projection' \in Outbox!Row
      /\ projection'.state = "running" /\ projection'.token = n
      /\ projection'.lease = DeliveryLease /\ projection'.claims = n
      /\ projection'.code = projection.code
      /\ projection'.availableIn = projection.availableIn
  <2>1. DeliveryLease \in Outbox!NoLease .. DeliveryLease /\ n \in 0 .. Outbox!MaxClaims
    BY <1>1, <1>3, OutboxTypes DEF Outbox!NoLease
  <2> QED BY <1>3, <2>1 DEF Outbox!Row
<1>6. /\ deliverer' \in [Processes -> DelivererRow]
      /\ deliverer'[w].pc = v[1] /\ deliverer'[w].token = n /\ deliverer'[w].code = v[2]
      /\ \A u \in Processes : u # w => deliverer'[u] = deliverer[u]
  <2>1. n \in 0 .. Outbox!MaxClaims /\ deliverer \in [Processes -> DelivererRow]
    BY <1>1, <1>3, OutboxTypes
  <2> DEFINE me == [Outbox!Idle EXCEPT !.pc = v[1], !.code = v[2], !.token = n]
  <2>2. v[1] \in Outbox!Steps /\ v[2] \in Outbox!Codes
    BY <1>4 DEF Outbox!Steps
  <2>3. me \in DelivererRow /\ me.pc = v[1] /\ me.token = n /\ me.code = v[2]
    <3> DEFINE step == v[1]
               code == v[2]
               fresh == [Outbox!Idle EXCEPT !.pc = step, !.code = code, !.token = n]
    <3>1. step \in Outbox!Steps /\ code \in Outbox!Codes /\ n \in 0 .. Outbox!MaxClaims
      BY <2>1, <2>2
    <3> HIDE DEF n, step, code
    <3>2. fresh \in DelivererRow /\ fresh.pc = step /\ fresh.token = n /\ fresh.code = code
      BY <3>1 DEF Outbox!Idle, DelivererRow
    <3> QED BY <3>2 DEF step, code
  <2>4. deliverer' = [deliverer EXCEPT ![w] = me]
    BY <1>2
  <2> HIDE DEF me
  <2> QED BY <2>1, <2>3, <2>4
<1>7. Outbox!TypeOK'
  BY <1>1, <1>3, <1>5, <1>6 DEF Outbox!TypeOK, DelivererRow
<1>8. OutboxHolds'
  BY <1>1, <1>3, <1>5, <1>7, OutboxTypes DEF OutboxHolds, Outbox!OutboxShapes,
     Outbox!SucceededWasDelivered, Outbox!DeliveriesBounded, Outbox!NoToken,
     Outbox!NoLease, Outbox!Claimable
<1>9. LastClaimOwns'
  BY <1>1, <1>3, <1>5, OutboxTypes DEF LastClaimOwns, Outbox!Claimable, Outbox!Row
<1>10. Claimed(w)'
  BY <1>1, <1>3, <1>4, <1>5, <1>6, OutboxTypes DEF Claimed, LastClaimOwns, Outbox!NoToken,
     Outbox!Row
<1>11. ASSUME NEW u \in Processes, u # w PROVE Claimed(u)'
  <2>1. Claimed(u) /\ deliverer[u] \in DelivererRow
    BY <1>1, OutboxTypes DEF OutboxInv
  <2> QED BY <1>3, <1>5, <1>6, <1>11, <2>1 DEF Claimed, Outbox!Row, DelivererRow
<1>12. OneClaimant'
  <2>1. ASSUME NEW u \in Processes, u # w PROVE deliverer'[u].token # n
    <3>1. Claimed(u) /\ projection.claims \in Nat
      BY <1>1, OutboxTypes DEF OutboxInv, Outbox!Row
    <3> QED BY <1>6, <2>1, <3>1 DEF Claimed, Outbox!NoToken
  <2> QED BY <1>6, <2>1 DEF OutboxInv, OneClaimant
<1> QED BY <1>8, <1>9, <1>10, <1>11, <1>12 DEF OutboxInv

\* A step of one process that issues no token: the others keep what they remember.
LEMMA OthersKeep ==
  ASSUME OutboxInv, Outbox!TypeOK', NEW w \in Processes,
         \A u \in Processes : u # w => deliverer'[u] = deliverer[u],
         deliverer'[w].token \in {Outbox!NoToken, deliverer[w].token},
         projection'.claims = projection.claims,
         projection'.token \in {Outbox!NoToken, projection.token},
         offers' = offers \/ Outbox!Fenced(w),
         delivered => delivered'
  PROVE  OneClaimant' /\ \A u \in Processes : u # w => Claimed(u)'
<1>1. OneClaimant'
  BY DEF OutboxInv, OneClaimant
<1>2. ASSUME NEW u \in Processes, u # w PROVE Claimed(u)'
  <2>1. Claimed(u) /\ Claimed(w) /\ deliverer'[u] = deliverer[u]
    BY <1>2 DEF OutboxInv
  <2>2. projection.token # Outbox!NoToken /\ offers' # offers => deliverer[u].token # projection.token
    BY <1>2 DEF OutboxInv, OneClaimant, Outbox!Fenced
  <2>3. deliverer[u].pc # "idle" => deliverer[u].token # Outbox!NoToken
    BY <2>1, OutboxTypes DEF OutboxInv, OutboxHolds, Claimed, Outbox!NoToken, Outbox!Row
  <2> QED BY <2>1, <2>2, <2>3 DEF Claimed
<1> QED BY <1>1, <1>2

\* The record of a process that leaves its claim, or goes on with it.
LEMMA LeaveShape ==
  ASSUME Outbox!TypeOK, NEW w \in Processes, Outbox!Leave(w)
  PROVE  /\ deliverer' \in [Processes -> DelivererRow]
         /\ \A u \in Processes : u # w => deliverer'[u] = deliverer[u]
         /\ deliverer'[w].token = Outbox!NoToken /\ deliverer'[w].pc = "idle"
         /\ ~deliverer'[w].paused
<1>1. Outbox!Idle \in DelivererRow
  BY OutboxTypes DEF Outbox!Idle, DelivererRow, Outbox!NoToken, Outbox!Codes, Outbox!Steps
<1> QED BY <1>1, OutboxTypes DEF Outbox!Leave, Outbox!Idle

\* A settlement writes the row of its holder only, as what the holder knows.
LEMMA SettleKeeps ==
  ASSUME OutboxInv, NEW w \in Processes,
         NEW s \in {"succeeded", "retry_wait", "blocked"},
         NEW delay \in 0 .. DeliveryDelay, NEW code \in Outbox!Codes,
         deliverer[w].pc # "idle",
         Outbox!Settle(w, s, delay, code),
         s = "succeeded" <=> code = "none",
         s = "succeeded" => delivered /\ delay = projection.availableIn
  PROVE  OutboxInv'
<1>1. Outbox!TypeOK /\ LastClaimOwns /\ OutboxHolds /\ projection \in Outbox!Row
  BY OutboxTypes DEF OutboxInv, OutboxHolds
<1>2. /\ UNCHANGED <<delivered, offers, pausesD, resumes>> /\ Outbox!Leave(w)
      /\ Outbox!NoLease \in Outbox!NoLease .. DeliveryLease
      /\ Outbox!NoToken \in 0 .. Outbox!MaxClaims
  BY <1>1, OutboxTypes DEF Outbox!Settle, Outbox!NoLease, Outbox!NoToken
<1>3. CASE ~Outbox!Fenced(w)
  <2>1. projection' = projection
    BY <1>3 DEF Outbox!Settle
  <2>2. Outbox!TypeOK'
    BY <1>1, <1>2, <2>1, LeaveShape DEF Outbox!TypeOK, DelivererRow
  <2>3. OutboxHolds' /\ LastClaimOwns'
    BY <1>1, <1>2, <2>1, <2>2 DEF OutboxHolds, Outbox!OutboxShapes,
       Outbox!SucceededWasDelivered, Outbox!DeliveriesBounded, LastClaimOwns
  <2>4. OneClaimant' /\ \A u \in Processes : u # w => Claimed(u)'
    BY <1>1, <1>2, <2>1, <2>2, LeaveShape, OthersKeep
  <2>5. Claimed(w)'
    BY <1>1, <1>2, LeaveShape DEF Claimed
  <2> QED BY <2>3, <2>4, <2>5 DEF OutboxInv
<1>4. CASE Outbox!Fenced(w)
  <2>1. projection' = [projection EXCEPT !.state = s, !.availableIn = delay,
          !.token = Outbox!NoToken, !.lease = Outbox!NoLease, !.code = code]
    BY <1>4 DEF Outbox!Settle
  <2>2. /\ projection' \in Outbox!Row
        /\ projection'.state = s /\ projection'.availableIn = delay
        /\ projection'.token = Outbox!NoToken /\ projection'.lease = Outbox!NoLease
        /\ projection'.code = code /\ projection'.claims = projection.claims
    BY <1>1, <1>2, <2>1 DEF Outbox!Row
  <2>3. Outbox!TypeOK'
    BY <1>1, <1>2, <2>2, LeaveShape DEF Outbox!TypeOK, DelivererRow
  <2>4. OutboxHolds'
    BY <1>1, <1>2, <2>2, <2>3 DEF OutboxHolds, Outbox!OutboxShapes,
       Outbox!SucceededWasDelivered, Outbox!DeliveriesBounded
  <2>5. LastClaimOwns'
    BY <1>1, <1>2, <1>4, <2>2 DEF LastClaimOwns, Outbox!Fenced
  <2>6. OneClaimant' /\ \A u \in Processes : u # w => Claimed(u)'
    BY <1>1, <1>2, <2>2, <2>3, LeaveShape, OthersKeep
  <2>7. Claimed(w)'
    BY <1>1, <1>2, LeaveShape DEF Claimed
  <2> QED BY <2>4, <2>5, <2>6, <2>7 DEF OutboxInv
<1> QED BY <1>3, <1>4

\* The three statements that settle a claim.
LEMMA SettlementsKeep ==
  ASSUME OutboxInv, NEW w \in Processes,
         \/ Outbox!AcknowledgeTerminalProjection(w)
         \/ Outbox!RequeueTerminalProjection(w)
         \/ Outbox!BlockTerminalProjection(w)
  PROVE  OutboxInv'
<1>1. /\ Claimed(w) /\ deliverer[w].code \in Outbox!Codes /\ "none" \in Outbox!Codes
      /\ projection.availableIn \in 0 .. DeliveryDelay
      /\ 1 .. DeliveryDelay \subseteq 0 .. DeliveryDelay
  BY OutboxTypes DEF OutboxInv, OutboxHolds, DelivererRow, Outbox!Codes, Outbox!Row
<1>2. CASE Outbox!AcknowledgeTerminalProjection(w)
  BY <1>1, <1>2, SettleKeeps DEF Claimed, Outbox!AcknowledgeTerminalProjection
<1>3. CASE Outbox!RequeueTerminalProjection(w)
  BY <1>1, <1>3, SettleKeeps DEF Claimed, Outbox!RequeueTerminalProjection
<1>4. CASE Outbox!BlockTerminalProjection(w)
  BY <1>1, <1>4, SettleKeeps DEF Claimed, Outbox!BlockTerminalProjection
<1> QED BY <1>2, <1>3, <1>4

\* The lease is renewed and the callback called, or the claim was lost.
LEMMA RevalidateKeeps ==
  ASSUME OutboxInv, NEW w \in Processes, Outbox!Revalidate(w)
  PROVE  OutboxInv'
<1>1. /\ Outbox!TypeOK /\ LastClaimOwns /\ OutboxHolds /\ projection \in Outbox!Row
      /\ Claimed(w) /\ deliverer[w] \in DelivererRow /\ offers \in Nat
  BY OutboxTypes DEF OutboxInv, OutboxHolds
<1>2. UNCHANGED <<delivered, pausesD, resumes>> /\ deliverer[w].pc = "claimed"
  BY DEF Outbox!Revalidate
<1>3. CASE ~Outbox!Fenced(w)
  <2>1. UNCHANGED <<projection, offers>> /\ Outbox!Leave(w)
    BY <1>3 DEF Outbox!Revalidate
  <2>2. Outbox!TypeOK'
    BY <1>1, <1>2, <2>1, LeaveShape DEF Outbox!TypeOK, DelivererRow
  <2>3. OutboxHolds' /\ LastClaimOwns'
    BY <1>1, <1>2, <2>1, <2>2 DEF OutboxHolds, Outbox!OutboxShapes,
       Outbox!SucceededWasDelivered, Outbox!DeliveriesBounded, LastClaimOwns
  <2>4. OneClaimant' /\ \A u \in Processes : u # w => Claimed(u)'
    BY <1>1, <1>2, <2>1, <2>2, LeaveShape, OthersKeep
  <2>5. Claimed(w)'
    BY <1>1, <2>1, LeaveShape DEF Claimed
  <2> QED BY <2>3, <2>4, <2>5 DEF OutboxInv
<1>4. CASE Outbox!Fenced(w)
  <2>1. /\ projection' = [projection EXCEPT !.lease = DeliveryLease]
        /\ offers' = offers + 1 /\ Outbox!Go(w, "projecting", "none")
    BY <1>4 DEF Outbox!Revalidate
  <2>2. /\ projection' \in Outbox!Row
        /\ projection'.lease = DeliveryLease
        /\ \A f \in {"state", "availableIn", "token", "claims", "code"} :
             projection'[f] = projection[f]
    <3>1. DeliveryLease \in Outbox!NoLease .. DeliveryLease
      BY <1>1, OutboxTypes DEF Outbox!NoLease
    <3> QED BY <1>1, <2>1, <3>1 DEF Outbox!Row
  <2>3. /\ deliverer' \in [Processes -> DelivererRow]
        /\ \A u \in Processes : u # w => deliverer'[u] = deliverer[u]
        /\ deliverer'[w].pc = "projecting" /\ deliverer'[w].token = deliverer[w].token
    BY <1>1, <2>1, OutboxTypes DEF Outbox!Go, DelivererRow, Outbox!Steps, Outbox!Codes
  <2>4. /\ projection.token = projection.claims /\ projection.token = deliverer[w].token
        /\ offers < projection.claims /\ projection.claims < DeliveryClaims
    BY <1>1, <1>2, <1>4 DEF Claimed, LastClaimOwns, Outbox!Fenced, OutboxHolds,
       Outbox!OutboxShapes
  <2>5. offers' < DeliveryClaims /\ offers' <= projection'.claims
        /\ offers' \in 0 .. Outbox!MaxClaims
    <3>1. /\ projection.claims \in Nat /\ projection'.claims = projection.claims
          /\ DeliveryClaims \in Nat /\ Outbox!MaxClaims \in Nat
          /\ DeliveryClaims <= Outbox!MaxClaims
      BY <1>1, <2>2, OutboxTypes DEF Outbox!Row
    <3> QED BY <1>1, <2>1, <2>4, <3>1
  <2>6. Outbox!TypeOK'
    BY <1>1, <1>2, <2>2, <2>3, <2>5 DEF Outbox!TypeOK, DelivererRow
  <2>7. OutboxHolds' /\ LastClaimOwns'
    BY <1>1, <1>2, <1>4, <2>2, <2>5, <2>6, OutboxTypes DEF OutboxHolds,
       Outbox!OutboxShapes, Outbox!SucceededWasDelivered, Outbox!DeliveriesBounded,
       LastClaimOwns, Outbox!Fenced, Outbox!NoLease
  <2>8. OneClaimant' /\ \A u \in Processes : u # w => Claimed(u)'
    BY <1>2, <1>4, <2>2, <2>3, <2>6, OthersKeep
  <2>9. Claimed(w)'
    BY <1>1, <1>2, <2>2, <2>3 DEF Claimed
  <2> QED BY <2>7, <2>8, <2>9 DEF OutboxInv
<1> QED BY <1>3, <1>4

\* A heartbeat renews the lease of its holder, or learns that it was lost.
LEMMA HeartbeatKeeps ==
  ASSUME OutboxInv, NEW w \in Processes, Outbox!Heartbeat(w)
  PROVE  OutboxInv'
<1>1. /\ Outbox!TypeOK /\ LastClaimOwns /\ OutboxHolds /\ projection \in Outbox!Row
      /\ Claimed(w)
  BY OutboxTypes DEF OutboxInv, OutboxHolds
<1>2. UNCHANGED <<delivered, offers, pausesD, resumes>>
  BY DEF Outbox!Heartbeat
<1>3. CASE ~Outbox!Fenced(w)
  <2>1. projection' = projection /\ Outbox!Leave(w)
    BY <1>3 DEF Outbox!Heartbeat
  <2>2. Outbox!TypeOK'
    BY <1>1, <1>2, <2>1, LeaveShape DEF Outbox!TypeOK, DelivererRow
  <2>3. OutboxHolds' /\ LastClaimOwns'
    BY <1>1, <1>2, <2>1, <2>2 DEF OutboxHolds, Outbox!OutboxShapes,
       Outbox!SucceededWasDelivered, Outbox!DeliveriesBounded, LastClaimOwns
  <2>4. OneClaimant' /\ \A u \in Processes : u # w => Claimed(u)'
    BY <1>1, <1>2, <2>1, <2>2, LeaveShape, OthersKeep
  <2>5. Claimed(w)'
    BY <1>1, <2>1, LeaveShape DEF Claimed
  <2> QED BY <2>3, <2>4, <2>5 DEF OutboxInv
<1>4. CASE Outbox!Fenced(w)
  <2>1. projection' = [projection EXCEPT !.lease = DeliveryLease] /\ deliverer' = deliverer
    BY <1>4 DEF Outbox!Heartbeat
  <2>2. /\ projection' \in Outbox!Row
        /\ projection'.lease = DeliveryLease
        /\ \A f \in {"state", "availableIn", "token", "claims", "code"} :
             projection'[f] = projection[f]
    <3>1. DeliveryLease \in Outbox!NoLease .. DeliveryLease
      BY <1>1, OutboxTypes DEF Outbox!NoLease
    <3> QED BY <1>1, <2>1, <3>1 DEF Outbox!Row
  <2>3. Outbox!TypeOK'
    BY <1>1, <1>2, <2>1, <2>2 DEF Outbox!TypeOK
  <2>4. OutboxHolds' /\ LastClaimOwns'
    BY <1>1, <1>2, <1>4, <2>2, <2>3, OutboxTypes DEF OutboxHolds, Outbox!OutboxShapes,
       Outbox!SucceededWasDelivered, Outbox!DeliveriesBounded, LastClaimOwns,
       Outbox!Fenced, Outbox!NoLease
  <2>5. OneClaimant' /\ \A u \in Processes : Claimed(u)'
    BY <1>2, <2>1, <2>2 DEF OutboxInv, OneClaimant, Claimed
  <2> QED BY <2>4, <2>5 DEF OutboxInv
<1> QED BY <1>3, <1>4

\* The callback returns with the outcome delivered, or fails.
LEMMA CallbackEndsKeeps ==
  ASSUME OutboxInv, NEW w \in Processes, Outbox!CallbackEnds(w)
  PROVE  OutboxInv'
<1>1. /\ Outbox!TypeOK /\ LastClaimOwns /\ OutboxHolds /\ Claimed(w)
      /\ UNCHANGED <<projection, offers, pausesD, resumes>>
      /\ deliverer[w].pc = "projecting" /\ delivered \in BOOLEAN
  BY DEF OutboxInv, OutboxHolds, Outbox!CallbackEnds, Outbox!TypeOK
<1>2. \/ delivered' = TRUE /\ Outbox!Go(w, "acknowledge", "none")
      \/ delivered' \in {delivered, TRUE} /\ Outbox!Go(w, "requeue", "failed")
  BY DEF Outbox!CallbackEnds
<1>3. PICK step \in {"acknowledge", "requeue"}, code \in {"none", "failed"} :
        /\ Outbox!Go(w, step, code)
        /\ step = "acknowledge" => delivered'
        /\ step = "requeue" => code # "none"
  BY <1>2
<1>4. delivered' \in BOOLEAN /\ (delivered => delivered')
  BY <1>1, <1>2
<1>5. /\ deliverer' \in [Processes -> DelivererRow]
      /\ \A u \in Processes : u # w => deliverer'[u] = deliverer[u]
      /\ deliverer'[w].pc = step /\ deliverer'[w].code = code
      /\ deliverer'[w].token = deliverer[w].token
  BY <1>1, <1>3, OutboxTypes DEF Outbox!Go, DelivererRow, Outbox!Steps, Outbox!Codes
<1>6. Outbox!TypeOK'
  BY <1>1, <1>4, <1>5 DEF Outbox!TypeOK, DelivererRow
<1>7. OutboxHolds' /\ LastClaimOwns'
  BY <1>1, <1>4, <1>6 DEF OutboxHolds, Outbox!OutboxShapes,
     Outbox!SucceededWasDelivered, Outbox!DeliveriesBounded, LastClaimOwns
<1>8. OneClaimant' /\ \A u \in Processes : u # w => Claimed(u)'
  BY <1>1, <1>4, <1>5, <1>6, OthersKeep
<1>9. Claimed(w)'
  BY <1>1, <1>3, <1>5 DEF Claimed
<1> QED BY <1>7, <1>8, <1>9 DEF OutboxInv

\* A suspended process remembers its claim; a restarted one has none.
LEMMA PausesKeep ==
  ASSUME OutboxInv, NEW w \in Processes, Outbox!Pause(w) \/ Outbox!Unpause(w)
  PROVE  OutboxInv'
<1>1. /\ Outbox!TypeOK /\ LastClaimOwns /\ OutboxHolds /\ Claimed(w)
      /\ UNCHANGED <<projection, delivered, offers, resumes>>
      /\ pausesD' \in 0 .. DeliveryPauses
  BY OutboxTypes DEF OutboxInv, OutboxHolds, Outbox!Pause, Outbox!Unpause
<1>2. CASE Outbox!Leave(w)
  <2>1. Outbox!TypeOK'
    BY <1>1, <1>2, LeaveShape DEF Outbox!TypeOK, DelivererRow
  <2>2. OutboxHolds' /\ LastClaimOwns'
    BY <1>1, <2>1 DEF OutboxHolds, Outbox!OutboxShapes, Outbox!SucceededWasDelivered,
       Outbox!DeliveriesBounded, LastClaimOwns
  <2>3. OneClaimant' /\ \A u \in Processes : u # w => Claimed(u)'
    BY <1>1, <1>2, <2>1, LeaveShape, OthersKeep
  <2>4. Claimed(w)'
    BY <1>1, <1>2, LeaveShape DEF Claimed
  <2> QED BY <2>2, <2>3, <2>4 DEF OutboxInv
<1>3. ASSUME NEW b \in BOOLEAN, deliverer' = [deliverer EXCEPT ![w].paused = b],
             deliverer[w].pc = "idle" => ~b
      PROVE  OutboxInv'
  <2>1. /\ deliverer' \in [Processes -> DelivererRow]
        /\ \A u \in Processes : u # w => deliverer'[u] = deliverer[u]
        /\ \A f \in {"pc", "token", "code"} : deliverer'[w][f] = deliverer[w][f]
        /\ deliverer[w].pc = "idle" => ~deliverer'[w].paused
    <3>2. deliverer \in [Processes -> DelivererRow] /\ deliverer[w] \in DelivererRow
      BY <1>1, OutboxTypes
    <3>3. /\ [deliverer[w] EXCEPT !.paused = b] \in DelivererRow
          /\ deliverer'[w] = [deliverer[w] EXCEPT !.paused = b]
          /\ deliverer' = [deliverer EXCEPT ![w] = [deliverer[w] EXCEPT !.paused = b]]
      BY <1>3, <3>2 DEF DelivererRow
    <3> QED BY <1>3, <3>2, <3>3 DEF DelivererRow
  <2>2. Outbox!TypeOK'
    BY <1>1, <2>1 DEF Outbox!TypeOK, DelivererRow
  <2>3. OutboxHolds' /\ LastClaimOwns'
    BY <1>1, <2>2 DEF OutboxHolds, Outbox!OutboxShapes, Outbox!SucceededWasDelivered,
       Outbox!DeliveriesBounded, LastClaimOwns
  <2>4. OneClaimant' /\ \A u \in Processes : u # w => Claimed(u)'
    BY <1>1, <2>1, <2>2, OthersKeep
  <2>5. Claimed(w)'
    BY <1>1, <2>1 DEF Claimed
  <2> QED BY <2>3, <2>4, <2>5 DEF OutboxInv
<1> QED BY <1>2, <1>3 DEF Outbox!Pause, Outbox!Unpause

\* Time passes and an operator repairs: the claims stay.
LEMMA NoProcessKeeps ==
  ASSUME OutboxInv, Outbox!Tick \/ Outbox!ResumeBlockedTerminalProjection
  PROVE  OutboxInv'
<1>1. /\ Outbox!TypeOK /\ LastClaimOwns /\ OutboxHolds /\ projection \in Outbox!Row
      /\ UNCHANGED <<deliverer, delivered, offers, pausesD>>
      /\ resumes' \in 0 .. Resumes
  BY OutboxTypes DEF OutboxInv, OutboxHolds, Outbox!Tick,
     Outbox!ResumeBlockedTerminalProjection, Outbox!TypeOK
<1>2. /\ projection' \in Outbox!Row /\ projection'.claims = projection.claims
      /\ projection'.token = projection.token
      /\ \/ /\ projection'.state = projection.state /\ projection'.code = projection.code
            /\ projection.availableIn = 0 => projection'.availableIn = 0
            /\ projection.lease = Outbox!NoLease <=> projection'.lease = Outbox!NoLease
         \/ /\ projection.state = "blocked" /\ projection'.state = "pending"
            /\ projection'.code = "none" /\ projection'.lease = projection.lease
  <2>1. CASE Outbox!Tick
    <3>1. projection' = [projection EXCEPT !.availableIn = Outbox!Elapsed(@),
                                           !.lease = Outbox!Elapsed(@)]
      BY <2>1 DEF Outbox!Tick
    <3>2. /\ projection.availableIn \in 0 .. DeliveryDelay
          /\ projection.lease \in -1 .. DeliveryLease
          /\ DeliveryDelay \in Nat /\ DeliveryLease \in Nat
      BY <1>1, OutboxTypes DEF Outbox!Row, Outbox!NoLease
    <3>3. /\ Outbox!Elapsed(projection.availableIn) \in 0 .. DeliveryDelay
          /\ Outbox!Elapsed(projection.lease) \in -1 .. DeliveryLease
          /\ projection.availableIn = 0 => Outbox!Elapsed(projection.availableIn) = 0
          /\ projection.lease = -1 <=> Outbox!Elapsed(projection.lease) = -1
      BY <3>2 DEF Outbox!Elapsed
    <3>4. projection' = [projection EXCEPT
            !.availableIn = Outbox!Elapsed(projection.availableIn),
            !.lease = Outbox!Elapsed(projection.lease)]
      BY <1>1, <3>1 DEF Outbox!Row
    <3> QED BY <1>1, <3>3, <3>4 DEF Outbox!Row, Outbox!NoLease
  <2>2. CASE Outbox!ResumeBlockedTerminalProjection
    <3>1. /\ projection' = [projection EXCEPT !.state = "pending", !.availableIn = 0,
                                               !.code = "none"]
          /\ projection.state = "blocked" /\ 0 \in 0 .. DeliveryDelay
      BY <1>1, <2>2, OutboxTypes DEF Outbox!ResumeBlockedTerminalProjection
    <3> QED BY <1>1, <3>1 DEF Outbox!Row, Outbox!Codes
  <2> QED BY <2>1, <2>2
<1>3. Outbox!TypeOK'
  BY <1>1, <1>2 DEF Outbox!TypeOK
<1>4. OutboxHolds' /\ LastClaimOwns'
  BY <1>1, <1>2, <1>3 DEF OutboxHolds, Outbox!OutboxShapes,
     Outbox!SucceededWasDelivered, Outbox!DeliveriesBounded, LastClaimOwns
<1>5. OneClaimant' /\ \A u \in Processes : Claimed(u)'
  BY <1>1, <1>2 DEF OutboxInv, OneClaimant, Claimed
<1> QED BY <1>4, <1>5 DEF OutboxInv

\* Every step of the outbox keeps its inductive invariant.
LEMMA OutboxStep == OutboxInv /\ [Outbox!Next]_outboxVars => OutboxInv'
<1> SUFFICES ASSUME OutboxInv, [Outbox!Next]_outboxVars PROVE OutboxInv'
  OBVIOUS
<1>1. CASE UNCHANGED outboxVars
  BY <1>1 DEF outboxVars, OutboxInv, OutboxHolds, Outbox!TypeOK, Outbox!OutboxShapes,
     Outbox!SucceededWasDelivered, Outbox!DeliveriesBounded, LastClaimOwns, OneClaimant,
     Claimed, Outbox!Row, Outbox!MaxClaims
<1>2. ASSUME NEW w \in Processes, Outbox!WorkerStep(w) PROVE OutboxInv'
  BY <1>2, RevalidateKeeps, CallbackEndsKeeps, SettlementsKeep DEF Outbox!WorkerStep
<1> QED
  BY <1>1, <1>2, NoProcessKeeps, ClaimProjectionKeeps, HeartbeatKeeps, PausesKeep
  DEF Outbox!Next

\* In the composition a step of the outbox is one of Outbox!Next, or leaves it alone.
LEMMA OutboxMovesAlone == [MCNext]_mcVars => [Outbox!Next]_outboxVars
BY DEF MCNext, mcVars, Attempts, Effects, outboxVars

\* The inductive invariant of the outbox, along the behaviours of the composition.
LEMMA OutboxInvAlways == MCSpec => []OutboxInv
<1>1. MCInit => OutboxInv
  BY OutboxInit DEF MCInit
<1>2. OutboxInv /\ [MCNext]_mcVars => OutboxInv'
  BY OutboxStep, OutboxMovesAlone
<1> QED BY <1>1, <1>2, PTL DEF MCSpec

\* The outbox keeps its shapes, an outcome recorded as delivered was delivered, and
\* the product is called on fewer claims than the limit: for any processes, lease,
\* retry delay, and numbers of pauses and repairs.
THEOREM OutboxHoldsAlways == MCSpec => []OutboxHolds
BY OutboxInvAlways, PTL DEF OutboxInv

\* A delivered row is never written again.
LEMMA DeliveredStands ==
  ASSUME OutboxInv, [Outbox!Next]_outboxVars, projection.state = "succeeded"
  PROVE  projection' = projection
<1>1. /\ projection.lease = Outbox!NoLease /\ projection.availableIn = 0
      /\ ~Outbox!Claimable /\ \A w \in Processes : ~Outbox!Fenced(w)
  BY DEF OutboxInv, OutboxHolds, Outbox!OutboxShapes, LastClaimOwns, Outbox!Claimable,
     Outbox!Fenced
<1>2. ASSUME NEW w \in Processes, Outbox!WorkerStep(w) \/ Outbox!Heartbeat(w)
      PROVE  projection' = projection
  BY <1>1, <1>2 DEF Outbox!WorkerStep, Outbox!Revalidate, Outbox!CallbackEnds,
     Outbox!AcknowledgeTerminalProjection, Outbox!Settle, Outbox!Heartbeat,
     Outbox!RequeueTerminalProjection, Outbox!BlockTerminalProjection
<1>3. ~Outbox!Tick /\ ~Outbox!ResumeBlockedTerminalProjection
  BY <1>1 DEF Outbox!Tick, Outbox!ResumeBlockedTerminalProjection, Outbox!NoLease
<1> QED
  BY <1>1, <1>2, <1>3 DEF Outbox!Next, outboxVars, Outbox!ClaimTerminalProjection,
     Outbox!Pause, Outbox!Unpause

\* No later claim, retry or repair takes a row out of the delivered state.
THEOREM DeliveredForGoodHolds == MCSpec => Outbox!DeliveredForGood
<1>1. OutboxInv /\ [MCNext]_mcVars =>
        [projection.state = "succeeded" => projection' = projection]_(Outbox!vars)
  BY DeliveredStands, OutboxMovesAlone
<1> QED BY OutboxInvAlways, <1>1, PTL DEF MCSpec, Outbox!DeliveredForGood
===============================================================================
