------------------------- MODULE SqlMigrationsProofs -------------------------
(***************************************************************************)
(* One history of migrations, for any number of runners and migrations.    *)
(* Whatever a runner has seen of the schema and of the tracking table in   *)
(* its transaction still holds when it commits, since it has the lock, and *)
(* what an operator changes meanwhile counts as touched.  Between two      *)
(* transactions nothing is held; there a runner relies on rows that are    *)
(* written once and never change, which is true until the tracking table  *)
(* is dropped.                                                             *)
(***************************************************************************)
EXTENDS SqlMigrations, TLAPS

Steps   == 1 .. Migrations + 1
Sums    == {NoRow, "file", "edited"}
Holding == InTransaction \ {"preflight"}
Applying == {"tracked", "run", "verify", "commit"}

Typed ==
  /\ schema \in [Set -> States] /\ tracked \in [Set -> Sums]
  /\ lock \in Runners \cup {Free}
  /\ at \in [Runners -> Places] /\ next \in [Runners -> Steps]
  /\ found \in [Runners -> SUBSET States]
  /\ executed \in [Set -> Nat]

Locked == \A r \in Runners : at[r] \in Holding => lock = r

(* What a runner has seen, and relies on until its transaction ends.       *)
Seen(r) ==
  /\ at[r] \in Applying => next[r] \in Set /\ r \notin Adopters /\ tracked[next[r]] = NoRow
  /\ at[r] \in {"run", "verify", "commit"} => next[r] \in touched \/ schema[next[r]] = "absent"
  /\ at[r] = "commit" => found[r] = {"applied"}
  /\ at[r] = "adopt" => \A m \in Set : m < next[r] =>
       (m \in touched \/ schema[m] = "applied") /\ tracked[m] \in {NoRow, Checksum(r, m)}
  /\ at[r] \in {"adopt", "between"} => (at[r] = "adopt" => r \in Adopters)
                                       /\ (at[r] = "between" /\ r \in Adopters => next[r] = 1)

(* And what it relies on from one transaction to the next.                 *)
OwnRows(r) ==
  ~dropped /\ r \notin Adopters /\ at[r] \in Applying \cup {"between"} =>
    \A k \in Set : k < next[r] => tracked[k] = Checksum(r, k)

ExecutedIsApplied ==
  \A m \in Set \ touched : executed[m] <= 1 /\ (executed[m] = 1 => schema[m] = "applied")

IInv ==
  /\ Typed /\ Locked /\ (\A r \in Runners : Seen(r)) /\ (\A r \in Runners : OwnRows(r))
  /\ ExecutedIsApplied /\ TrackedIsApplied

-----------------------------------------------------------------------------
\* Arithmetic of the numbered migrations and of the step behind the last.
LEMMA Numbers ==
  /\ Migrations \in Nat /\ Migrations > 0 /\ Set \subseteq Steps /\ 1 \in Steps /\ 1 \in Set
  /\ \A i \in Steps : i > Migrations <=> i \notin Set
  /\ \A i \in Set : i + 1 \in Steps /\ \A k \in Set : k < i + 1 <=> k < i \/ k = i
  /\ \A i \in Steps, k \in Set : i > Migrations => k < i
  /\ \A k \in Set : ~(k < 1)
BY MigrationsAssumption DEF MigrationsAssumption, Steps, Set

\* No runner has started, and the catalog and the rows are empty.
LEMMA InitInv == Init => IInv
<1> SUFFICES ASSUME Init PROVE IInv
  OBVIOUS
<1>1. PICK n \in 0 .. Migrations : schema = [m \in Set |-> IF m <= n THEN "applied" ELSE "absent"]
  BY DEF Init
<1>2. schema \in [Set -> States]
  BY <1>1 DEF States
<1>3. Typed
  BY <1>2, Numbers DEF Init, Typed, Sums, Places
<1>4. Locked /\ \A r \in Runners : at[r] = "idle"
  BY DEF Init, Locked, Holding, InTransaction
<1>5. \A r \in Runners : Seen(r) /\ OwnRows(r)
  BY <1>4 DEF Seen, OwnRows, Applying
<1>6. ExecutedIsApplied /\ TrackedIsApplied
  BY DEF Init, ExecutedIsApplied, TrackedIsApplied
<1> QED
  BY <1>3, <1>4, <1>5, <1>6 DEF IInv

(* A step of one runner that writes nothing.                               *)
LEMMA SilentStep ==
  ASSUME IInv, UNCHANGED <<schema, tracked, executed, touched, dropped>>,
         NEW r \in Runners, NEW place \in Places, NEW i \in Steps, NEW f \in SUBSET States,
         at' = [at EXCEPT ![r] = place], next' = [next EXCEPT ![r] = i], found' = [found EXCEPT ![r] = f],
         lock' \in {lock, r, Free}, lock' # lock => lock \in {r, Free}, place \in Holding => lock' = r,
         place \in Applying => i \in Set /\ r \notin Adopters /\ tracked[i] = NoRow,
         place \in {"run", "verify", "commit"} => i \in touched \/ schema[i] = "absent",
         place = "commit" => f = {"applied"},
         place = "adopt" => /\ r \in Adopters
                            /\ \A m \in Set : m < i =>
                                 (m \in touched \/ schema[m] = "applied") /\ tracked[m] \in {NoRow, Checksum(r, m)},
         place = "between" /\ r \in Adopters => i = 1,
         ~dropped /\ r \notin Adopters /\ place \in Applying \cup {"between"} =>
           \A k \in Set : k < i => tracked[k] = Checksum(r, k)
  PROVE  IInv'
<1>1. /\ at'[r] = place /\ next'[r] = i /\ found'[r] = f
      /\ \A q \in Runners : q # r => at'[q] = at[q] /\ next'[q] = next[q] /\ found'[q] = found[q]
  BY DEF IInv, Typed
<1>2. Typed'
  BY DEF IInv, Typed
<1>3. Locked'
  BY <1>1, MigrationsAssumption DEF MigrationsAssumption, IInv, Locked, Free
<1>4. ASSUME NEW q \in Runners PROVE Seen(q)' /\ OwnRows(q)'
  <2>1. CASE q = r
    BY <1>1, <2>1 DEF Seen, OwnRows, Checksum, Applying
  <2>2. CASE q # r
    BY <1>1, <2>2 DEF IInv, Seen, OwnRows, Checksum
  <2> QED
    BY <2>1, <2>2
<1>5. ExecutedIsApplied' /\ TrackedIsApplied'
  BY DEF IInv, ExecutedIsApplied, TrackedIsApplied
<1> QED
  BY <1>2, <1>3, <1>4, <1>5 DEF IInv

\* A checksum of a file is never the absence of a row.
LEMMA Sum == ASSUME NEW r \in Runners, NEW m \in Set PROVE Checksum(r, m) \in Sums \ {NoRow}
BY DEF Checksum, Sums, NoRow

(* The end of a transaction that writes: nobody else is in one.            *)
LEMMA WriteStep ==
  ASSUME IInv, touched' = touched, dropped' = dropped,
         NEW r \in Runners, NEW place \in {"between", "done", "retry"}, NEW i \in Steps,
         at[r] \in Holding, lock' = Free,
         at' = [at EXCEPT ![r] = place], next' = [next EXCEPT ![r] = i], found' = [found EXCEPT ![r] = {}],
         schema' \in [Set -> States], tracked' \in [Set -> Sums], executed' \in [Set -> Nat],
         \A m \in Set : tracked[m] # NoRow => tracked'[m] = tracked[m],
         ExecutedIsApplied', TrackedIsApplied',
         place = "between" => r \notin Adopters,
         ~dropped /\ r \notin Adopters /\ place = "between" =>
           \A k \in Set : k < i => tracked'[k] = Checksum(r, k)
  PROVE  IInv'
<1>1. /\ at'[r] = place /\ next'[r] = i
      /\ \A q \in Runners : q # r => at'[q] = at[q] /\ next'[q] = next[q] /\ at[q] \notin Holding
  BY DEF IInv, Typed, Locked
<1>2. place \in Places /\ place \notin Holding
  BY DEF Places, Holding, InTransaction
<1>3. Typed'
  BY <1>2 DEF IInv, Typed
<1>4. Locked'
  BY <1>1, <1>2 DEF Locked
<1>5. ASSUME NEW q \in Runners PROVE Seen(q)' /\ OwnRows(q)'
  <2>1. CASE q = r
    BY <1>1, <2>1 DEF Seen, OwnRows, Checksum, Applying
  <2>2. CASE q # r
    <3>1. /\ at'[q] = at[q] /\ next'[q] = next[q]
          /\ at[q] \notin {"tracked", "run", "verify", "commit", "adopt"}
      BY <1>1, <2>2 DEF Holding, InTransaction
    <3>2. Seen(q)'
      BY <3>1 DEF IInv, Seen, Applying
    <3>3. \A k \in Set : tracked[k] = Checksum(q, k) => tracked'[k] = Checksum(q, k)
      BY Sum
    <3>4. OwnRows(q)'
      BY <3>1, <3>3 DEF IInv, OwnRows, Checksum
    <3> QED
      BY <3>2, <3>4
  <2> QED
    BY <2>1, <2>2
<1> QED
  BY <1>3, <1>4, <1>5 DEF IInv

(* Migration and row become visible together, of a schema that had nothing *)
(* of the migration.                                                       *)
LEMMA WrittenFacts ==
  ASSUME IInv, NEW r \in Runners, at[r] = "commit", Written(r), touched' = touched, dropped' = dropped
  PROVE  /\ next[r] \in Set /\ r \notin Adopters
         /\ schema' \in [Set -> States] /\ tracked' \in [Set -> Sums] /\ executed' \in [Set -> Nat]
         /\ \A m \in Set : tracked[m] # NoRow => tracked'[m] = tracked[m]
         /\ ExecutedIsApplied' /\ TrackedIsApplied'
         /\ tracked'[next[r]] = Checksum(r, next[r])
         /\ ~dropped => \A k \in Set : k < next[r] + 1 => tracked'[k] = Checksum(r, k)
<1> DEFINE n == next[r]
<1>1. /\ n \in Set /\ r \notin Adopters /\ tracked[n] = NoRow /\ found[r] = {"applied"}
      /\ n \in touched \/ schema[n] = "absent"
  BY DEF IInv, Seen, Applying
<1>2. /\ schema' = [schema EXCEPT ![n] = "applied"] /\ tracked' = [tracked EXCEPT ![n] = Checksum(r, n)]
      /\ executed' = [executed EXCEPT ![n] = executed[n] + 1]
  BY <1>1 DEF Written
<1>3. Checksum(r, n) \in Sums /\ executed[n] \in Nat
  BY <1>1, Sum DEF IInv, Typed
<1> HIDE DEF n
<1>4. schema' \in [Set -> States] /\ tracked' \in [Set -> Sums] /\ executed' \in [Set -> Nat]
  <2>1. "applied" \in States
    BY DEF States
  <2>2. executed[n] + 1 \in Nat
    BY <1>3
  <2>3. schema' \in [Set -> States]
    BY <1>1, <1>2, <2>1 DEF IInv, Typed
  <2>4. tracked' \in [Set -> Sums]
    BY <1>1, <1>2, <1>3 DEF IInv, Typed
  <2>5. executed' \in [Set -> Nat]
    BY <1>1, <1>2, <2>2 DEF IInv, Typed
  <2> QED
    BY <2>3, <2>4, <2>5
<1>5. /\ schema'[n] = "applied" /\ tracked'[n] = Checksum(r, n) /\ executed'[n] = executed[n] + 1
      /\ \A m \in Set : m # n => schema'[m] = schema[m] /\ tracked'[m] = tracked[m] /\ executed'[m] = executed[m]
  BY <1>1, <1>2 DEF IInv, Typed
<1>6. \A m \in Set : tracked[m] # NoRow => tracked'[m] = tracked[m]
  BY <1>1, <1>5
<1>7. ExecutedIsApplied'
  <2> SUFFICES ASSUME NEW m \in Set \ touched PROVE executed'[m] <= 1 /\ (executed'[m] = 1 => schema'[m] = "applied")
    BY DEF ExecutedIsApplied
  <2>1. CASE m = n
    <3>1. executed[n] <= 1 /\ executed[n] # 1
      BY <1>1, <2>1 DEF IInv, ExecutedIsApplied
    <3> QED
      BY <1>3, <1>5, <2>1, <3>1
  <2>2. CASE m # n
    BY <1>5, <2>2 DEF IInv, ExecutedIsApplied
  <2> QED
    BY <2>1, <2>2
<1>8. TrackedIsApplied'
  BY <1>5 DEF IInv, TrackedIsApplied
<1>9. ~dropped => \A k \in Set : k < n + 1 => tracked'[k] = Checksum(r, k)
  <2>1. ~dropped => \A k \in Set : k < n => tracked[k] = Checksum(r, k)
    BY <1>1 DEF IInv, OwnRows, Applying, n
  <2> QED
    BY <1>1, <1>5, <2>1, Numbers
<1> QED
  BY <1>1, <1>4, <1>5, <1>6, <1>7, <1>8, <1>9 DEF n

(* The rows of an adoption, of a set that was all seen to be applied.      *)
LEMMA BaselineFacts ==
  ASSUME IInv, NEW r \in Runners, at[r] = "adopt", next[r] > Migrations, Baseline(r), touched' = touched, dropped' = dropped
  PROVE  /\ r \in Adopters
         /\ schema' \in [Set -> States] /\ tracked' \in [Set -> Sums] /\ executed' \in [Set -> Nat]
         /\ \A m \in Set : tracked[m] # NoRow => tracked'[m] = tracked[m]
         /\ ExecutedIsApplied' /\ TrackedIsApplied'
         /\ \A m \in Set : tracked'[m] = Checksum(r, m) /\ (m \in touched \/ schema'[m] = "applied")
<1>1. /\ tracked' = [m \in Set |-> IF tracked[m] = NoRow THEN Checksum(r, m) ELSE tracked[m]]
      /\ schema' = schema /\ executed' = executed
  BY DEF Baseline
<1>2. next[r] \in Steps
  BY DEF IInv, Typed
<1>3. \A m \in Set : (m \in touched \/ schema[m] = "applied") /\ tracked[m] \in {NoRow, Checksum(r, m)}
  BY <1>2, Numbers DEF IInv, Seen
<1>4. \A m \in Set : tracked'[m] = Checksum(r, m)
  BY <1>1, <1>3
<1>5. tracked' \in [Set -> Sums]
  BY <1>1, Sum DEF IInv, Typed
<1>6. \A m \in Set : tracked[m] # NoRow => tracked'[m] = tracked[m]
  BY <1>1
<1>7. ExecutedIsApplied' /\ TrackedIsApplied'
  BY <1>1, <1>3 DEF IInv, ExecutedIsApplied, TrackedIsApplied
<1> QED
  BY <1>1, <1>3, <1>4, <1>5, <1>6, <1>7 DEF IInv, Typed, Seen

-----------------------------------------------------------------------------
(* The steps of a runner, by what they do to its transaction.              *)
LEMMA EndStep ==
  ASSUME IInv, UNCHANGED <<schema, tracked, executed, touched, dropped>>,
         NEW r \in Runners, NEW place \in {"refused", "between"}, NEW i \in Steps,
         lock \in {r, Free}, End(r, place, i),
         place = "between" /\ r \in Adopters => i = 1,
         ~dropped /\ r \notin Adopters /\ place = "between" =>
           \A k \in Set : k < i => tracked[k] = Checksum(r, k)
  PROVE  IInv'
<1>1. /\ at' = [at EXCEPT ![r] = place] /\ next' = [next EXCEPT ![r] = i]
      /\ found' = [found EXCEPT ![r] = {}] /\ lock' = Free
  BY DEF End, Go
<1>2. place \in Places /\ place \notin Holding /\ place \notin Applying /\ {} \in SUBSET States
  BY DEF Places, Holding, InTransaction, Applying
<1>3. /\ place \notin {"run", "verify", "commit"} /\ place # "commit" /\ place # "adopt"
      /\ place \in Applying \cup {"between"} => place = "between"
  BY <1>2
<1> QED
  BY <1>1, <1>2, <1>3, SilentStep

\* A step into or within a transaction: it holds the lock, and what its place relies on holds.
LEMMA GoStep ==
  ASSUME IInv, UNCHANGED <<schema, tracked, executed, touched, dropped>>,
         NEW r \in Runners, NEW place \in Holding, NEW i \in Steps, NEW f \in SUBSET States,
         lock \in {r, Free}, lock' = r, Go(r, place),
         next' = [next EXCEPT ![r] = i], found' = [found EXCEPT ![r] = f],
         place \in Applying => i \in Set /\ r \notin Adopters /\ tracked[i] = NoRow,
         place \in {"run", "verify", "commit"} => i \in touched \/ schema[i] = "absent",
         place = "commit" => f = {"applied"},
         place = "adopt" => /\ r \in Adopters
                            /\ \A m \in Set : m < i =>
                                 (m \in touched \/ schema[m] = "applied") /\ tracked[m] \in {NoRow, Checksum(r, m)},
         ~dropped /\ r \notin Adopters /\ place \in Applying =>
           \A k \in Set : k < i => tracked[k] = Checksum(r, k)
  PROVE  IInv'
<1>1. at' = [at EXCEPT ![r] = place]
  BY DEF Go
<1>2. place \in Places /\ place # "between"
  BY DEF Places, Holding, InTransaction
<1>3. place \in Applying \cup {"between"} => place \in Applying
  BY <1>2
<1> QED
  BY <1>1, <1>2, <1>3, SilentStep

\* A runner that does not move, written as an update; and the types of what it has.
LEMMA Same ==
  ASSUME IInv, NEW r \in Runners
  PROVE  /\ at = [at EXCEPT ![r] = at[r]] /\ next = [next EXCEPT ![r] = next[r]]
         /\ found = [found EXCEPT ![r] = found[r]]
         /\ next[r] \in Steps /\ found[r] \in SUBSET States /\ at[r] \in Places
         /\ at[r] \in Holding => lock = r
BY DEF IInv, Typed, Locked

(* Steps outside a transaction, and the preflight, rely on nothing.        *)
LEMMA StartInv == ASSUME IInv, NEW r \in Runners, Start(r) PROVE IInv'
<1>1. /\ at' = [at EXCEPT ![r] = "preflight"] /\ next' = next /\ found' = found /\ lock' = lock
      /\ UNCHANGED <<schema, tracked, executed, touched, dropped>>
  BY DEF Start, Go, db, Observed
<1>2. /\ "preflight" \in Places /\ "preflight" \notin Holding
      /\ "preflight" \notin Applying \cup {"between"}
  BY DEF Places, Holding, InTransaction, Applying
<1> QED
  BY <1>1, <1>2, Same, SilentStep

\* The steps one by one. The preflight takes the lock, or refuses at once for a file that drifted.
LEMMA CheckInv == ASSUME IInv, NEW r \in Runners, Check(r) PROVE IInv'
<1>1. lock = Free /\ UNCHANGED <<schema, tracked, executed, touched, dropped>>
  BY DEF Check, db, Observed
<1>2. CASE End(r, "refused", 1)
  BY <1>1, <1>2, Numbers, EndStep
<1>3. CASE /\ lock' = r /\ Go(r, "inspect") /\ next' = [next EXCEPT ![r] = 1] /\ UNCHANGED found
  <2>1. "inspect" \in Holding /\ "inspect" \notin Applying
    BY DEF Holding, InTransaction, Applying
  <2> QED
    BY <1>1, <1>3, <2>1, Numbers, Same, GoStep
<1> QED
  BY <1>2, <1>3 DEF Check

\* The preflight looks at one migration.
LEMMA InspectInv == ASSUME IInv, NEW r \in Runners, Inspect(r) PROVE IInv'
<1>1. at[r] = "inspect" /\ next[r] \in Set /\ UNCHANGED <<schema, tracked, executed, touched, dropped>>
  BY DEF Inspect, db, Observed
<1>2. "inspect" \in Holding /\ "inspect" \notin Applying
  BY DEF Holding, InTransaction, Applying
<1>3. lock = r /\ next[r] + 1 \in Steps
  BY <1>1, <1>2, Same, Numbers
<1>4. CASE End(r, "refused", 1)
  BY <1>1, <1>3, <1>4, Numbers, EndStep
<1>5. ASSUME NEW f \in SUBSET States, found' = [found EXCEPT ![r] = f],
             next' = [next EXCEPT ![r] = next[r] + 1], UNCHANGED <<at, lock>>
      PROVE  IInv'
  <2>1. Go(r, "inspect")
    BY <1>1, <1>5, Same DEF Go
  <2> QED
    BY <1>1, <1>2, <1>3, <1>5, <2>1, GoStep
<1>6. schema[next[r]] \in States
  BY <1>1 DEF IInv, Typed
<1>7. found[r] \cup {schema[next[r]]} \in SUBSET States
  BY <1>6, Same
<1>8. CASE next' = [next EXCEPT ![r] = next[r] + 1] /\ UNCHANGED <<at, lock, found>>
  BY <1>5, <1>8, Same
<1>9. CASE /\ next' = [next EXCEPT ![r] = next[r] + 1] /\ UNCHANGED <<at, lock>>
           /\ found' = [found EXCEPT ![r] = found[r] \cup {schema[next[r]]}]
  BY <1>5, <1>7, <1>9
<1> QED
  BY <1>4, <1>8, <1>9 DEF Inspect

\* The preflight is over: the lock is free, the table is there where it is needed.
LEMMA PassInv == ASSUME IInv, NEW r \in Runners, Pass(r) PROVE IInv'
<1>1. at[r] = "inspect" /\ End(r, "between", 1) /\ UNCHANGED <<schema, tracked, executed, touched, dropped>>
  BY DEF Pass, Observed
<1>2. lock = r
  BY <1>1, Same DEF Holding, InTransaction
<1> QED
  BY <1>1, <1>2, Numbers, EndStep

(* The row is read, and what was relied on between is what it relies on.   *)
LEMMA OpenInv == ASSUME IInv, NEW r \in Runners, Open(r) PROVE IInv'
<1>1. /\ at[r] = "between" /\ r \notin Adopters /\ next[r] \in Set /\ lock = Free
      /\ UNCHANGED <<schema, tracked, executed, touched, dropped>>
  BY DEF Open, Observed
<1>2. ~dropped => \A k \in Set : k < next[r] => tracked[k] = Checksum(r, k)
  BY <1>1 DEF IInv, OwnRows
<1>3. next[r] + 1 \in Steps
  BY <1>1, Numbers
<1>4. CASE End(r, "refused", 1)
  BY <1>1, <1>4, Numbers, EndStep
<1>5. CASE tracked[next[r]] = Checksum(r, next[r]) /\ End(r, "between", next[r] + 1)
  <2>1. ~dropped => \A k \in Set : k < next[r] + 1 => tracked[k] = Checksum(r, k)
    BY <1>1, <1>2, <1>5, Numbers
  <2> QED
    BY <1>1, <1>3, <1>5, <2>1, EndStep
<1>6. CASE tracked[next[r]] = NoRow /\ lock' = r /\ Go(r, "tracked") /\ UNCHANGED <<next, found>>
  <2>1. "tracked" \in Holding
    BY DEF Holding, InTransaction
  <2> QED
    BY <1>1, <1>2, <1>6, <2>1, Same, GoStep
<1> QED
  BY <1>4, <1>5, <1>6 DEF Open

(* What an applying runner knows.                                          *)
LEMMA Knows ==
  ASSUME IInv, NEW r \in Runners, at[r] \in Applying
  PROVE  /\ lock = r /\ next[r] \in Set /\ r \notin Adopters /\ tracked[next[r]] = NoRow
         /\ ~dropped => \A k \in Set : k < next[r] => tracked[k] = Checksum(r, k)
         /\ at[r] \in {"run", "verify", "commit"} => next[r] \in touched \/ schema[next[r]] = "absent"
<1>1. at[r] \in Holding
  BY DEF Applying, Holding, InTransaction
<1> QED
  BY <1>1, Same DEF IInv, Seen, OwnRows

\* The transaction goes on only where nothing of the migration is there.
LEMMA InspectAgainInv == ASSUME IInv, NEW r \in Runners, InspectAgain(r) PROVE IInv'
<1>1. at[r] = "tracked" /\ at[r] \in Applying /\ UNCHANGED <<schema, tracked, executed, touched, dropped>>
  BY DEF InspectAgain, db, Observed, Applying
<1>2. CASE End(r, "refused", 1)
  BY <1>1, <1>2, Knows, Numbers, EndStep
<1>3. CASE schema[next[r]] = "absent" /\ Go(r, "run") /\ UNCHANGED <<lock, next, found>>
  <2>1. "run" \in Holding
    BY DEF Holding, InTransaction
  <2> QED
    BY <1>1, <1>3, <2>1, Knows, Same, GoStep
<1> QED
  BY <1>2, <1>3 DEF InspectAgain

\* The SQL takes effect for its own transaction only.
LEMMA StatementsInv == ASSUME IInv, NEW r \in Runners, Statements(r) PROVE IInv'
<1>1. /\ at[r] = "run" /\ at[r] \in Applying
      /\ UNCHANGED <<schema, tracked, executed, touched, dropped>>
  BY DEF Statements, db, Observed, Applying
<1>2. CASE End(r, "refused", 1)
  BY <1>1, <1>2, Knows, Numbers, EndStep
<1>3. ASSUME NEW made \in {"applied", "partial"}, found' = [found EXCEPT ![r] = {made}],
             Go(r, "verify"), UNCHANGED <<lock, next>>
      PROVE  IInv'
  <2>1. "verify" \in Holding /\ {made} \in SUBSET States
    BY DEF Holding, InTransaction, States
  <2> QED
    BY <1>1, <1>3, <2>1, Knows, Same, GoStep
<1> QED
  BY <1>2, <1>3 DEF Statements

\* The verifier must find the schema applied, or the transaction is rolled back.
LEMMA PostconditionInv == ASSUME IInv, NEW r \in Runners, Postcondition(r) PROVE IInv'
<1>1. /\ at[r] = "verify" /\ at[r] \in Applying
      /\ UNCHANGED <<schema, tracked, executed, touched, dropped>>
  BY DEF Postcondition, db, Observed, Applying
<1>2. CASE End(r, "refused", 1)
  BY <1>1, <1>2, Knows, Numbers, EndStep
<1>3. CASE found[r] = {"applied"} /\ Go(r, "commit") /\ UNCHANGED <<lock, next, found>>
  <2>1. "commit" \in Holding
    BY DEF Holding, InTransaction
  <2> QED
    BY <1>1, <1>3, <2>1, Knows, Same, GoStep
<1> QED
  BY <1>2, <1>3 DEF Postcondition

\* COMMIT publishes schema and row together and frees the lock.
LEMMA CommitInv == ASSUME IInv, NEW r \in Runners, Commit(r) PROVE IInv'
<1>1. at[r] = "commit" /\ Written(r) /\ End(r, "between", next[r] + 1) /\ touched' = touched /\ dropped' = dropped
  BY DEF Commit
<1>2. /\ at' = [at EXCEPT ![r] = "between"] /\ next' = [next EXCEPT ![r] = next[r] + 1]
      /\ found' = [found EXCEPT ![r] = {}] /\ lock' = Free
  BY <1>1 DEF End, Go
<1>3. at[r] \in Holding
  BY <1>1 DEF Holding, InTransaction
<1> QED
  BY <1>1, <1>2, <1>3, WrittenFacts, WriteStep, Numbers

-----------------------------------------------------------------------------
(* The steps of an adoption.                                               *)
LEMMA AdoptOpenInv == ASSUME IInv, NEW r \in Runners, AdoptOpen(r) PROVE IInv'
<1>1. /\ r \in Adopters /\ lock = Free /\ lock' = r /\ Go(r, "adopt")
      /\ next' = [next EXCEPT ![r] = 1] /\ found' = found
      /\ UNCHANGED <<schema, tracked, executed, touched, dropped>>
  BY DEF AdoptOpen, db, Observed
<1>2. "adopt" \in Holding /\ "adopt" \notin Applying
  BY DEF Holding, InTransaction, Applying
<1> QED
  BY <1>1, <1>2, Numbers, Same, GoStep

\* The adoption looks at one migration.
LEMMA AdoptInspectInv == ASSUME IInv, NEW r \in Runners, AdoptInspect(r) PROVE IInv'
<1> DEFINE m == next[r]
<1>1. at[r] = "adopt" /\ m \in Set /\ UNCHANGED <<schema, tracked, executed, touched, dropped>>
  BY DEF AdoptInspect, db, Observed
<1>2. "adopt" \in Holding /\ "adopt" \notin Applying
  BY DEF Holding, InTransaction, Applying
<1>3. lock = r /\ m + 1 \in Steps
  BY <1>1, <1>2, Same, Numbers
<1>4. CASE End(r, "refused", 1)
  BY <1>1, <1>3, <1>4, Numbers, EndStep
<1>5. CASE \/ tracked[m] = Checksum(r, m)
           \/ tracked[m] = NoRow /\ schema[m] = "applied"
  <2>0. next' = [next EXCEPT ![r] = m + 1] /\ at' = at /\ lock' = lock /\ found' = found
    BY <1>5 DEF AdoptInspect
  <2>1. r \in Adopters /\ \A k \in Set : k < m =>
          (k \in touched \/ schema[k] = "applied") /\ tracked[k] \in {NoRow, Checksum(r, k)}
    BY <1>1 DEF IInv, Seen
  <2>2. (m \in touched \/ schema[m] = "applied") /\ tracked[m] \in {NoRow, Checksum(r, m)}
    BY <1>1, <1>5, Sum DEF IInv, TrackedIsApplied
  <2>3. \A k \in Set : k < m + 1 =>
          (k \in touched \/ schema[k] = "applied") /\ tracked[k] \in {NoRow, Checksum(r, k)}
    BY <1>1, <2>1, <2>2, Numbers
  <2>4. Go(r, "adopt")
    BY <1>1, <2>0, Same DEF Go
  <2>5. found[r] \in SUBSET States /\ found' = [found EXCEPT ![r] = found[r]]
    BY <2>0, Same
  <2> QED
    BY <1>1, <1>2, <1>3, <2>0, <2>1, <2>3, <2>4, <2>5, GoStep
<1>6. CASE ~(\/ tracked[m] = Checksum(r, m)
             \/ tracked[m] = NoRow /\ schema[m] = "applied")
  <2>1. End(r, "refused", 1)
    BY <1>6 DEF AdoptInspect
  <2> QED
    BY <1>4, <2>1
<1> QED
  BY <1>5, <1>6

\* The adoption writes every row that was missing.
LEMMA AdoptCommitInv == ASSUME IInv, NEW r \in Runners, AdoptCommit(r) PROVE IInv'
<1>1. /\ at[r] = "adopt" /\ next[r] > Migrations /\ Baseline(r) /\ End(r, "done", 1)
      /\ touched' = touched /\ dropped' = dropped
  BY DEF AdoptCommit
<1>2. /\ at' = [at EXCEPT ![r] = "done"] /\ next' = [next EXCEPT ![r] = 1]
      /\ found' = [found EXCEPT ![r] = {}] /\ lock' = Free
  BY <1>1 DEF End, Go
<1>3. at[r] \in Holding
  BY <1>1 DEF Holding, InTransaction
<1> QED
  BY <1>1, <1>2, <1>3, BaselineFacts, WriteStep, Numbers

\* A runner behind its last migration is done.
LEMMA FinishInv == ASSUME IInv, NEW r \in Runners, Finish(r) PROVE IInv'
<1>1. /\ at' = [at EXCEPT ![r] = "done"] /\ next' = [next EXCEPT ![r] = 1]
      /\ lock' = lock /\ found' = found /\ UNCHANGED <<schema, tracked, executed, touched, dropped>>
  BY DEF Finish, Go, db, Observed
<1>2. /\ "done" \in Places /\ "done" \notin Holding /\ "done" \notin Applying \cup {"between"}
  BY DEF Places, Holding, InTransaction, Applying
<1> QED
  BY <1>1, <1>2, Numbers, Same, SilentStep

-----------------------------------------------------------------------------
(* Faults and operators.                                                   *)
LEMMA FailInv == ASSUME IInv, NEW r \in Runners, Fail(r) PROVE IInv'
<1>1. /\ at' = [at EXCEPT ![r] = "retry"] /\ next' = [next EXCEPT ![r] = 1]
      /\ found' = [found EXCEPT ![r] = {}] /\ lock' = IF lock = r THEN Free ELSE lock
      /\ UNCHANGED <<schema, tracked, executed, touched, dropped>>
  BY DEF Fail, Go, db
<1>2. /\ "retry" \in Places /\ "retry" \notin Holding /\ "retry" \notin Applying \cup {"between"}
      /\ {} \in SUBSET States
  BY DEF Places, Holding, InTransaction, Applying
<1> QED
  BY <1>1, <1>2, Numbers, SilentStep

\* The answer to COMMIT is lost: what was committed is reported as rolled back.
LEMMA LoseAnswerInv == ASSUME IInv, NEW r \in Runners, LoseAnswer(r) PROVE IInv'
<1>1. /\ at' = [at EXCEPT ![r] = "retry"] /\ next' = [next EXCEPT ![r] = 1]
      /\ found' = [found EXCEPT ![r] = {}] /\ lock' = Free /\ touched' = touched /\ dropped' = dropped
  BY DEF LoseAnswer, End, Go
<1>2. CASE at[r] = "commit" /\ Written(r)
  <2>1. at[r] \in Holding
    BY <1>2 DEF Holding, InTransaction
  <2> QED
    BY <1>1, <1>2, <2>1, WrittenFacts, WriteStep, Numbers
<1>3. CASE at[r] = "adopt" /\ next[r] > Migrations /\ Baseline(r)
  <2>1. at[r] \in Holding
    BY <1>3 DEF Holding, InTransaction
  <2> QED
    BY <1>1, <1>3, <2>1, BaselineFacts, WriteStep, Numbers
<1> QED
  BY <1>2, <1>3 DEF LoseAnswer

(* Whatever relied on the schema of the migration counts it as touched.    *)
LEMMA TouchInv == ASSUME IInv, NEW n \in Set, Touch(n) PROVE IInv'
<1>1. /\ UNCHANGED <<tracked, lock, at, next, found, executed, dropped>> /\ touched' = touched \cup {n}
  BY DEF Touch
<1>2. PICK s \in States : schema' = [schema EXCEPT ![n] = s]
  BY DEF Touch
<1>3. /\ schema' \in [Set -> States]
      /\ \A m \in Set : m \in touched' \/ schema'[m] = schema[m]
  BY <1>1, <1>2 DEF IInv, Typed
<1>4. Typed' /\ Locked'
  BY <1>1, <1>3 DEF IInv, Typed, Locked
<1>5. ASSUME NEW q \in Runners PROVE Seen(q)' /\ OwnRows(q)'
  <2>1. OwnRows(q)'
    BY <1>1 DEF IInv, OwnRows, Checksum
  <2>2. Seen(q)
    BY DEF IInv
  <2>3. at[q] \in Applying => next[q] \in Set
    BY <2>2 DEF Seen
  <2>4. at[q] \in {"run", "verify", "commit"} => next[q] \in touched' \/ schema'[next[q]] = "absent"
    BY <1>1, <1>3, <2>2, <2>3 DEF Seen, Applying
  <2>5. at[q] = "adopt" => \A m \in Set : m < next[q] =>
          (m \in touched' \/ schema'[m] = "applied") /\ tracked[m] \in {NoRow, Checksum(q, m)}
    BY <1>1, <1>3, <2>2 DEF Seen
  <2>6. Seen(q)'
    BY <1>1, <2>2, <2>4, <2>5 DEF Seen, Checksum
  <2> QED
    BY <2>1, <2>6
<1>6. ExecutedIsApplied' /\ TrackedIsApplied'
  BY <1>1, <1>3 DEF IInv, ExecutedIsApplied, TrackedIsApplied
<1> QED
  BY <1>4, <1>5, <1>6 DEF IInv

(* Nobody holds the lock, and what lasts between two transactions is only  *)
(* claimed while the table was never dropped.                               *)
LEMMA DropTableInv == ASSUME IInv, DropTable PROVE IInv'
<1>1. /\ UNCHANGED <<schema, lock, at, next, found, executed, touched>> /\ dropped' /\ lock = Free
      /\ tracked' = [m \in Set |-> NoRow]
  BY DEF DropTable
<1>2. \A q \in Runners : at[q] \notin Holding
  BY <1>1, MigrationsAssumption DEF MigrationsAssumption, IInv, Locked, Free
<1>3. Typed' /\ Locked'
  BY <1>1 DEF IInv, Typed, Locked, Sums
<1>4. ASSUME NEW q \in Runners PROVE Seen(q)' /\ OwnRows(q)'
  <2>1. at[q] \notin {"tracked", "run", "verify", "commit", "adopt"}
    BY <1>2 DEF Holding, InTransaction
  <2> QED
    BY <1>1, <2>1 DEF IInv, Seen, OwnRows, Applying
<1>5. ExecutedIsApplied' /\ TrackedIsApplied'
  BY <1>1 DEF IInv, ExecutedIsApplied, TrackedIsApplied
<1> QED
  BY <1>3, <1>4, <1>5 DEF IInv

\* Every step keeps the invariant.
LEMMA NextInv == IInv /\ [Next]_vars => IInv'
<1> SUFFICES ASSUME IInv, [Next]_vars PROVE IInv'
  OBVIOUS
<1>1. CASE UNCHANGED vars
  <2>1. UNCHANGED <<schema, tracked, lock, at, next, found, executed, touched, dropped>>
    BY <1>1 DEF vars
  <2> QED
    BY <2>1 DEF IInv, Typed, Locked, Seen, OwnRows, Checksum, ExecutedIsApplied, TrackedIsApplied
<1>2. ASSUME NEW r \in Runners, Start(r) \/ Run(r) \/ Fail(r) \/ LoseAnswer(r) PROVE IInv'
  BY <1>2, StartInv, CheckInv, InspectInv, PassInv, OpenInv, InspectAgainInv, StatementsInv,
     PostconditionInv, CommitInv, AdoptOpenInv, AdoptInspectInv, AdoptCommitInv, FinishInv,
     FailInv, LoseAnswerInv DEF Run, Apply, Adopt
<1>3. CASE \E m \in Set : Touch(m)
  BY <1>3, TouchInv
<1>4. CASE DropTable
  BY <1>4, DropTableInv
<1> QED
  BY <1>1, <1>2, <1>3, <1>4 DEF Next

\* The invariant holds at all times.
LEMMA Invariant == Spec => []IInv
BY InitInv, NextInv, PTL DEF Spec

-----------------------------------------------------------------------------
(* The SQL of a migration takes effect once, for any number of deploys     *)
(* that race, die and are retried, with files that differ, and though an   *)
(* operator drops the tracking table (applyMigration under the lock).      *)
THEOREM ExecutedOnceHolds == Spec => []ExecutedOnce
<1>1. IInv => ExecutedOnce
  BY DEF IInv, ExecutedIsApplied, ExecutedOnce
<1> QED
  BY <1>1, Invariant, PTL

(* A tracking row stands for a schema that its verifier called applied,    *)
(* written by an apply or by an adoption (adoptMigrations).                *)
THEOREM TrackedIsAppliedHolds == Spec => []TrackedIsApplied
<1>1. IInv => TrackedIsApplied
  BY DEF IInv
<1> QED
  BY <1>1, Invariant, PTL

(* Who writes a row, and what the rows before it are then.                 *)
LEMMA WrittenPrefix ==
  ASSUME ~dropped, IInv, NEW r \in Runners, Commit(r) \/ AdoptCommit(r) \/ LoseAnswer(r),
         NEW m \in Set, tracked[m] = NoRow, tracked'[m] # NoRow
  PROVE  /\ tracked'[m] = Checksum(r, m) /\ lock = r
         /\ \A k \in 1 .. m - 1 : tracked'[k] = Checksum(r, k)
<1>1. touched' = touched /\ dropped' = dropped
  BY DEF Commit, AdoptCommit, LoseAnswer
<1>2. \A k \in 1 .. m - 1 : k \in Set /\ k < m
  BY Numbers DEF Set
<1>3. CASE at[r] = "commit" /\ Written(r)
  <2>1. next[r] \in Set /\ \A k \in Set : k < next[r] + 1 => tracked'[k] = Checksum(r, k)
    BY <1>1, <1>3, WrittenFacts
  <2>2. \A k \in Set : k # next[r] => tracked'[k] = tracked[k]
    BY <1>3 DEF Written, IInv, Typed
  <2>3. m = next[r]
    BY <2>2
  <2>4. \A k \in Set : k < m \/ k = m => tracked'[k] = Checksum(r, k)
    BY <2>1, <2>3, Numbers
  <2>5. lock = r
    BY <1>3, Same DEF Holding, InTransaction
  <2> QED
    BY <1>2, <2>4, <2>5
<1>4. CASE at[r] = "adopt" /\ next[r] > Migrations /\ Baseline(r)
  <2>1. \A k \in Set : tracked'[k] = Checksum(r, k)
    BY <1>1, <1>4, BaselineFacts
  <2>2. lock = r
    BY <1>4, Same DEF Holding, InTransaction
  <2> QED
    BY <1>2, <2>1, <2>2
<1> QED
  BY <1>3, <1>4 DEF Commit, AdoptCommit, LoseAnswer

\* Rows appear in the three steps that commit, and in no other.
LEMMA RowsAreWritten ==
  ASSUME [Next]_vars, NEW m \in Set, tracked[m] = NoRow, tracked'[m] # NoRow
  PROVE  \E r \in Runners : Commit(r) \/ AdoptCommit(r) \/ LoseAnswer(r)
<1>1. tracked' # tracked
  OBVIOUS
<1>2. ~UNCHANGED vars /\ ~(\E n \in Set : Touch(n))
  BY <1>1 DEF vars, Touch
<1>3. ~DropTable
  BY DEF DropTable
<1>4. PICK r \in Runners : Start(r) \/ Run(r) \/ Fail(r) \/ LoseAnswer(r)
  BY <1>2, <1>3 DEF Next
<1>5. ~(Start(r) \/ Check(r) \/ Inspect(r) \/ Pass(r) \/ Open(r) \/ InspectAgain(r) \/ Statements(r))
  BY <1>1 DEF Start, Check, Inspect, Pass, Open, InspectAgain, Statements, db
<1>6. ~(Postcondition(r) \/ AdoptOpen(r) \/ AdoptInspect(r) \/ Finish(r) \/ Fail(r))
  BY <1>1 DEF Postcondition, AdoptOpen, AdoptInspect, Finish, Fail, db
<1> QED
  BY <1>4, <1>5, <1>6 DEF Run, Apply, Adopt

(* Two deploys with different files never build one history: each row is   *)
(* of the files of who writes it, and so is every row before it, while the *)
(* tracking table was never dropped.                                       *)
THEOREM OwnPrefixHolds == Spec => OwnPrefix
<1>1. IInv /\ [Next]_vars =>
        [\A m \in Set : ~dropped /\ tracked[m] = NoRow /\ tracked'[m] # NoRow =>
           \E r \in Runners : /\ tracked'[m] = Checksum(r, m) /\ lock = r
                              /\ \A k \in 1 .. m - 1 : tracked'[k] = Checksum(r, k)]_vars
  <2> SUFFICES ASSUME ~dropped, IInv, [Next]_vars, NEW m \in Set, tracked[m] = NoRow, tracked'[m] # NoRow
               PROVE  \E r \in Runners : /\ tracked'[m] = Checksum(r, m) /\ lock = r
                                         /\ \A k \in 1 .. m - 1 : tracked'[k] = Checksum(r, k)
    OBVIOUS
  <2>1. PICK r \in Runners : Commit(r) \/ AdoptCommit(r) \/ LoseAnswer(r)
    BY RowsAreWritten
  <2> QED
    BY <2>1, WrittenPrefix
<1> QED
  BY <1>1, Invariant, PTL DEF Spec, OwnPrefix

(* Who is told of success, and what is tracked then.                       *)
LEMMA Completed ==
  ASSUME ~dropped, IInv, NEW r \in Runners, AdoptCommit(r) \/ Finish(r), NEW m \in Set
  PROVE  tracked'[m] = Checksum(r, m) /\ (m \notin touched => schema'[m] = "applied")
<1>1. CASE AdoptCommit(r)
  <2>1. at[r] = "adopt" /\ next[r] > Migrations /\ Baseline(r) /\ touched' = touched /\ dropped' = dropped
    BY <1>1 DEF AdoptCommit
  <2> QED
    BY <2>1, BaselineFacts
<1>2. CASE Finish(r)
  <2>1. at[r] = "between" /\ next[r] > Migrations /\ UNCHANGED <<schema, tracked>>
    BY <1>2 DEF Finish, db
  <2>2. next[r] \in Steps /\ m < next[r]
    BY <2>1, Same, Numbers
  <2>3. r \notin Adopters
    BY <2>1, Numbers DEF IInv, Seen
  <2>4. tracked[m] = Checksum(r, m)
    BY <2>1, <2>2, <2>3 DEF IInv, OwnRows
  <2>5. tracked[m] # NoRow
    BY <2>4, Sum
  <2> QED
    BY <2>1, <2>4, <2>5 DEF IInv, TrackedIsApplied
<1> QED
  BY <1>1, <1>2

\* A deploy succeeds in the two steps that say so.
LEMMA DoneIsReached ==
  ASSUME IInv, [Next]_vars, NEW r \in Runners, at[r] # "done", at'[r] = "done"
  PROVE  AdoptCommit(r) \/ Finish(r)
<1>1. at' # at
  OBVIOUS
<1>2. ~UNCHANGED vars /\ ~(\E n \in Set : Touch(n)) /\ ~DropTable
  BY <1>1 DEF vars, Touch, DropTable
<1>3. PICK q \in Runners : Start(q) \/ Run(q) \/ Fail(q) \/ LoseAnswer(q)
  BY <1>2 DEF Next
<1>4. \A place : Go(q, place) => place = "done" /\ q = r
  BY DEF Go, IInv, Typed
<1>5. ~(Start(q) \/ Check(q) \/ Pass(q) \/ Open(q) \/ InspectAgain(q) \/ Statements(q))
  BY <1>4 DEF Start, Check, Pass, Open, InspectAgain, Statements, End
<1>6. ~Inspect(q) /\ ~AdoptInspect(q)
  BY <1>1, <1>4 DEF Inspect, AdoptInspect, End
<1>7. ~(Postcondition(q) \/ Commit(q) \/ AdoptOpen(q) \/ Fail(q) \/ LoseAnswer(q))
  BY <1>4 DEF Postcondition, Commit, AdoptOpen, Fail, LoseAnswer, End
<1>8. AdoptCommit(q) \/ Finish(q)
  BY <1>3, <1>5, <1>6, <1>7 DEF Run, Apply, Adopt
<1>9. q = r
  BY <1>4, <1>8 DEF AdoptCommit, Finish, End
<1> QED
  BY <1>8, <1>9

(* What a deploy relies on when it is told of success: every migration of  *)
(* its set is tracked by its own checksum and, unless changed by hand, has *)
(* the schema, while the tracking table was never dropped.                 *)
THEOREM DoneIsCompleteHolds == Spec => DoneIsComplete
<1>1. IInv /\ [Next]_vars =>
        [\A r \in Runners : at[r] # "done" /\ at'[r] = "done" /\ ~dropped =>
           \A m \in Set : /\ tracked'[m] = Checksum(r, m)
                          /\ m \notin touched => schema'[m] = "applied"]_vars
  BY DoneIsReached, Completed
<1> QED
  BY <1>1, Invariant, PTL DEF Spec, DoneIsComplete

-----------------------------------------------------------------------------
(* What the type invariant says beyond IInv.                               *)
Counted ==
  /\ table \in BOOLEAN /\ dropped \in BOOLEAN /\ touched \subseteq Set
  /\ faults \in 0 .. MaxFaults /\ touches \in 0 .. MaxTouches

TableHasRows == ~table => \A m \in Set : tracked[m] = NoRow

\* What leaves catalog and counters alone keeps their types, and an absent table without rows.
LEMMA CountedStep ==
  ASSUME Counted, TableHasRows,
         UNCHANGED <<db, faults, touches, touched, dropped>>
  PROVE  Counted' /\ TableHasRows'
BY DEF Counted, TableHasRows, db

(* Whoever writes a row has the table.                                     *)
LEMMA CountedWrite ==
  ASSUME Counted, TableHasRows, table' = TRUE, UNCHANGED <<touches, touched, dropped>>,
         faults' = faults \/ (faults < MaxFaults /\ faults' = faults + 1)
  PROVE  Counted' /\ TableHasRows'
<1>1. faults' \in 0 .. MaxFaults
  BY MigrationsAssumption DEF MigrationsAssumption, Counted
<1> QED
  BY <1>1 DEF Counted, TableHasRows

\* Every step keeps the types of the counters, and an absent table without rows.
LEMMA CountedNext ==
  ASSUME Counted, TableHasRows, [Next]_vars
  PROVE  Counted' /\ TableHasRows'
<1>1. CASE UNCHANGED vars
  BY <1>1, CountedStep DEF vars, db
<1>2. ASSUME NEW r \in Runners, Start(r) \/ Check(r) \/ Inspect(r) \/ InspectAgain(r)
                                \/ Statements(r) \/ Postcondition(r) \/ AdoptOpen(r)
                                \/ AdoptInspect(r) \/ Finish(r)
      PROVE  Counted' /\ TableHasRows'
  BY <1>2, CountedStep DEF Start, Check, Inspect, InspectAgain, Statements, Postcondition,
     AdoptOpen, AdoptInspect, Finish, Observed
<1>3. ASSUME NEW r \in Runners, Pass(r) PROVE Counted' /\ TableHasRows'
  <2>1. /\ table' = (table \/ r \in Adopters \/ "absent" \in found[r]) /\ tracked' = tracked
        /\ UNCHANGED <<faults, touches, touched, dropped>>
    BY <1>3 DEF Pass, Observed
  <2>2. table' \in BOOLEAN /\ (~table' => ~table)
    BY <2>1, Zenon DEF Counted
  <2> QED
    BY <2>1, <2>2 DEF Counted, TableHasRows
<1>4. ASSUME NEW r \in Runners, Open(r) PROVE Counted' /\ TableHasRows'
  <2>1. UNCHANGED db /\ UNCHANGED <<faults, touches, touched, dropped>>
    BY <1>4 DEF Open, Observed, db
  <2> QED
    BY <2>1, CountedStep
<1>5. ASSUME NEW r \in Runners, Commit(r) \/ AdoptCommit(r) PROVE Counted' /\ TableHasRows'
  BY <1>5, CountedWrite DEF Commit, AdoptCommit, Written, Baseline
<1>6. ASSUME NEW r \in Runners, LoseAnswer(r) PROVE Counted' /\ TableHasRows'
  BY <1>6, CountedWrite DEF LoseAnswer, Written, Baseline
<1>7. ASSUME NEW r \in Runners, Fail(r) PROVE Counted' /\ TableHasRows'
  <2>1. faults < MaxFaults /\ faults' = faults + 1 /\ UNCHANGED <<db, touches, touched, dropped>>
    BY <1>7 DEF Fail
  <2>2. faults' \in 0 .. MaxFaults
    BY <2>1, MigrationsAssumption DEF MigrationsAssumption, Counted
  <2> QED
    BY <2>1, <2>2 DEF Counted, TableHasRows, db
<1>8. ASSUME NEW m \in Set, Touch(m) PROVE Counted' /\ TableHasRows'
  <2>1. /\ touches < MaxTouches /\ touches' = touches + 1 /\ touched' = touched \cup {m}
        /\ UNCHANGED <<table, tracked, faults, dropped>>
    BY <1>8 DEF Touch
  <2>2. touches' \in 0 .. MaxTouches
    BY <2>1, MigrationsAssumption DEF MigrationsAssumption, Counted
  <2> QED
    BY <2>1, <2>2 DEF Counted, TableHasRows
<1>9. CASE DropTable
  <2>1. /\ touches < MaxTouches /\ touches' = touches + 1 /\ dropped' = TRUE /\ table' = FALSE
        /\ tracked' = [m \in Set |-> NoRow] /\ UNCHANGED <<faults, touched>>
    BY <1>9 DEF DropTable
  <2>2. touches' \in 0 .. MaxTouches
    BY <2>1, MigrationsAssumption DEF MigrationsAssumption, Counted
  <2> QED
    BY <2>1, <2>2 DEF Counted, TableHasRows
<1> QED
  BY <1>1, <1>2, <1>3, <1>4, <1>5, <1>6, <1>7, <1>8, <1>9 DEF Next, Run, Apply, Adopt

(* Schema, rows, lock and runners keep their types, for any numbers.       *)
THEOREM TypesHold == Spec => []TypeOK
<1>1. ASSUME Init PROVE Counted /\ TableHasRows
  <2>1. /\ table = FALSE /\ tracked = [m \in Set |-> NoRow] /\ faults = 0 /\ touches = 0
        /\ touched = {} /\ dropped = FALSE
    BY <1>1 DEF Init
  <2>2. 0 \in 0 .. MaxFaults /\ 0 \in 0 .. MaxTouches
    BY MigrationsAssumption DEF MigrationsAssumption
  <2> QED
    BY <2>1, <2>2 DEF Counted, TableHasRows
<1>2. IInv /\ Counted /\ TableHasRows => TypeOK
  BY DEF IInv, Typed, Locked, Holding, Sums, Steps, Counted, TableHasRows, TypeOK
<1> QED
  BY <1>1, <1>2, CountedNext, Invariant, PTL DEF Spec

(* One history, of which the rows tell (applyMigration, adoptMigrations).  *)
THEOREM HistoryHoldsAlways == Spec => []HistoryHolds
BY TypesHold, ExecutedOnceHolds, TrackedIsAppliedHolds, PTL DEF HistoryHolds

(* What a runner relies on, when it writes and when it is done.            *)
THEOREM RunnersRelyHolds == Spec => RunnersRely
BY OwnPrefixHolds, DoneIsCompleteHolds DEF RunnersRely
============================================================================
