----------------------------- MODULE WorkersProofs -----------------------------
(***************************************************************************)
(* The slots of a process, the tickets for them and the loop of a worker   *)
(* that has one, for any products, scopes, runs and bounds.                *)
(*                                                                         *)
(* A slot is taken by StartWorker alone, which looks first; what has to be *)
(* shown is that no other step makes a worker out of a scope that has      *)
(* none.  RetireNext and Yield write "draining" for a scope they only know *)
(* to be managed, so the invariant says what managed means: the worker     *)
(* polls, or it is the one the scan is waiting for.                        *)
(***************************************************************************)
EXTENDS MCWorkers, TLAPS, FiniteSetTheorems, SequenceTheorems, WellFoundedInduction

-----------------------------------------------------------------------------
(* Queues.  Without is computed member by member; what it leaves is shown  *)
(* by induction on how much of the queue it has read, the well-founded     *)
(* order of the numbers standing for the induction rule.                   *)

\* The order of numbers, as a relation, has no infinite descent.
Below == {ss \in Nat \X Nat : ss[1] < ss[2]}

\* The naturals are well founded, which is the induction of this section.
LEMMA BelowWellFounded == IsWellFoundedOn(Below, Nat)
BY NatLessThanWellFounded DEF OpToRel, Below

\* A set of numbers that has none, or a number whenever it has all lower ones,
\* is all.
LEMMA Reaches ==
  ASSUME NEW D \in SUBSET Nat, \A n \in Nat : (\A m \in Nat : m < n => m \in D) => n \in D
  PROVE  D = Nat
<1> DEFINE R == Nat \ D
<1>1. CASE R = {}
  BY <1>1
<1>2. CASE R # {}
  <2>0. R \subseteq Nat
    OBVIOUS
  <2> HIDE DEF R
  <2>1. PICK n \in R : \A m \in R : ~(<<m, n>> \in Below)
    BY ONLY <1>2, <2>0, BelowWellFounded, WFMin, Zenon
  <2> USE DEF R
  <2>2. \A m \in Nat : m < n => m \in D
    BY <2>1 DEF Below
  <2> QED
    BY <2>1, <2>2
<1> QED
  BY <1>1, <1>2

\* k[i] is what is left of the first i members of q.
LeftOf(q, S, k) ==
  /\ k[0] = <<>> /\ Without(q, S) = k[Len(q)]
  /\ \A i \in 1 .. Len(q) : k[i] = IF q[i] \in S THEN k[i - 1] ELSE Append(k[i - 1], q[i])

\* The recursive function of `Without` is what its defining equations say.
LEMMA WithoutIs ==
  ASSUME NEW T, NEW q \in Seq(T), NEW S
  PROVE  \E k \in [0 .. Len(q) -> Seq(T)] : LeftOf(q, S, k)
<1> DEFINE Left(s, i) == IF q[i] \in S THEN s ELSE Append(s, q[i])
           Ok(k, n) == k[0] = <<>> /\ \A i \in 1 .. n : k[i] = Left(k[i - 1], i)
           D == {n \in Nat : n <= Len(q) => \E k \in [0 .. n -> Seq(T)] : Ok(k, n)}
<1>1. Len(q) \in Nat /\ \A i \in 1 .. Len(q) : q[i] \in T
  OBVIOUS
<1>2. ASSUME NEW n \in Nat, \A m \in Nat : m < n => m \in D PROVE n \in D
  <2> SUFFICES ASSUME n <= Len(q) PROVE \E k \in [0 .. n -> Seq(T)] : Ok(k, n)
    OBVIOUS
  <2>1. CASE n = 0
    <3> DEFINE k == [i \in 0 .. 0 |-> <<>>]
    <3>1. k \in [0 .. n -> Seq(T)] /\ Ok(k, n)
      BY <2>1
    <3> QED
      BY <3>1
  <2>2. CASE n > 0
    <3>0. n - 1 \in Nat /\ n - 1 < n /\ n - 1 <= Len(q)
      BY <2>2, <1>1
    <3>1. n - 1 \in D
      <4> HIDE DEF D
      <4> QED
        BY <1>2, <3>0
    <3>2. PICK h \in [0 .. n - 1 -> Seq(T)] : Ok(h, n - 1)
      BY <3>0, <3>1
    <3> DEFINE k == [i \in 0 .. n |-> IF i = n THEN Left(h[n - 1], n) ELSE h[i]]
    <3>3. h[n - 1] \in Seq(T) /\ q[n] \in T
      BY <1>1, <2>2
    <3>4. Left(h[n - 1], n) \in Seq(T)
      BY <3>3
    <3>5. k \in [0 .. n -> Seq(T)]
      BY <3>4, <2>2
    <3>6. k[0] = <<>>
      BY <3>2, <2>2
    <3>7. ASSUME NEW i \in 1 .. n PROVE k[i] = Left(k[i - 1], i)
      <4>1. CASE i = n
        BY <4>1, <2>2
      <4>2. CASE i # n
        BY <4>2, <2>2, <3>2
      <4> QED
        BY <4>1, <4>2
    <3> QED
      BY <3>5, <3>6, <3>7
  <2> QED
    BY <2>1, <2>2
<1> HIDE DEF D
<1>3. D = Nat
  <2>1. D \subseteq Nat
    BY DEF D
  <2> QED
    BY <1>2, <2>1, Reaches
<1>4. PICK k \in [0 .. Len(q) -> Seq(T)] : Ok(k, Len(q))
  <2>1. Len(q) \in D
    BY <1>1, <1>3
  <2> QED
    BY <2>1 DEF D
<1> DEFINE E(f) == [i \in 0 .. Len(q) |->
                      IF i = 0 THEN <<>> ELSE IF q[i] \in S THEN f[i - 1] ELSE Append(f[i - 1],
                            q[i])]
           K == CHOOSE f : f = E(f)
<1>5. k = E(k)
  <2>1. ASSUME NEW i \in 0 .. Len(q) PROVE k[i] = E(k)[i]
    <3>1. CASE i = 0
      BY <3>1, <1>4
    <3>2. CASE i # 0
      <4>1. i \in 1 .. Len(q)
        BY <3>2, <1>1
      <4> QED
        BY <4>1, <3>2, <1>4
    <3> QED
      BY <3>1, <3>2
  <2>2. k \in [0 .. Len(q) -> Seq(T)] /\ E(k) = [i \in 0 .. Len(q) |-> E(k)[i]]
    BY <1>4
  <2> HIDE DEF E
  <2> QED
    BY <2>1, <2>2
<1>6. K = E(K)
  <2> HIDE DEF E
  <2> QED
    BY <1>5
<1>7. Without(q, S) = K[Len(q)]
  BY DEF Without
<1> HIDE DEF K
<1>8. K[0] = <<>> /\ \A i \in 1 .. Len(q) : K[i] = Left(K[i - 1], i)
  <2>1. \A i \in 0 .. Len(q) : K[i] = E(K)[i]
    BY <1>6
  <2>2. \A i \in 1 .. Len(q) : i \in 0 .. Len(q) /\ i # 0 /\ 0 \in 0 .. Len(q)
    BY <1>1
  <2>3. K[0] = <<>>
    BY <2>1, <1>1
  <2>4. ASSUME NEW i \in 1 .. Len(q) PROVE K[i] = Left(K[i - 1], i)
    BY <2>1, <2>2
  <2> QED
    BY <2>3, <2>4
<1> DEFINE R == {n \in Nat : n <= Len(q) => K[n] \in Seq(T)}
<1>9. ASSUME NEW n \in Nat, \A m \in Nat : m < n => m \in R PROVE n \in R
  <2> SUFFICES ASSUME n <= Len(q) PROVE K[n] \in Seq(T)
    OBVIOUS
  <2>1. CASE n = 0
    BY <2>1, <1>8
  <2>2. CASE n # 0
    <3>1. n - 1 \in Nat /\ n - 1 < n /\ n - 1 <= Len(q) /\ n \in 1 .. Len(q)
      BY <2>2, <1>1
    <3>2. K[n - 1] \in Seq(T)
      BY <1>9, <3>1
    <3>3. K[n] = Left(K[n - 1], n) /\ q[n] \in T
      BY <3>1, <1>1, <1>8
    <3> QED
      BY <3>2, <3>3
  <2> QED
    BY <2>1, <2>2
<1> HIDE DEF R
<1>10. R = Nat
  <2>1. R \subseteq Nat
    BY DEF R
  <2> QED
    BY <1>9, <2>1, Reaches
<1>11. K \in [0 .. Len(q) -> Seq(T)]
  <2>1. \A i \in 0 .. Len(q) : K[i] \in Seq(T)
    BY <1>10, <1>1 DEF R
  <2>2. K = [i \in 0 .. Len(q) |-> K[i]]
    BY <1>6
  <2> QED
    BY <2>1, <2>2
<1> QED
  BY <1>7, <1>8, <1>11 DEF LeftOf

\* The members of a sequence, and a sequence that has none of them twice.
Members(s) == {s[i] : i \in 1 .. Len(s)}
Distinct(s) == \A i, j \in 1 .. Len(s) : s[i] = s[j] => i = j

\* A queue with one more at its end.
LEMMA AppendFacts ==
  ASSUME NEW T, NEW s \in Seq(T), NEW x \in T
  PROVE  /\ Append(s, x) \in Seq(T) /\ Len(Append(s, x)) = Len(s) + 1
         /\ Members(Append(s, x)) = Members(s) \cup {x}
         /\ Distinct(s) /\ x \notin Members(s) => Distinct(Append(s, x))
<1>1. /\ Append(s, x) \in Seq(T) /\ Len(Append(s, x)) = Len(s) + 1 /\ Len(s) \in Nat
      /\ Append(s, x)[Len(s) + 1] = x
      /\ \A i \in 1 .. Len(s) : Append(s, x)[i] = s[i]
  OBVIOUS
<1>2. Members(Append(s, x)) = Members(s) \cup {x}
  <2> DEFINE t == Append(s, x)
  <2>1. 1 .. Len(t) = (1 .. Len(s)) \cup {Len(s) + 1}
    BY <1>1
  <2>2. t[Len(s) + 1] = x /\ \A i \in 1 .. Len(s) : t[i] = s[i]
    BY <1>1
  <2> HIDE DEF t
  <2> QED
    BY <2>1, <2>2 DEF Members, t
<1>3. Distinct(s) /\ x \notin Members(s) => Distinct(Append(s, x))
  <2> SUFFICES ASSUME Distinct(s), x \notin Members(s), NEW i \in 1 .. Len(s) + 1,
                      NEW j \in 1 .. Len(s) + 1, Append(s, x)[i] = Append(s, x)[j]
               PROVE  i = j
    BY <1>1 DEF Distinct
  <2>1. CASE i = Len(s) + 1 /\ j = Len(s) + 1
    BY <2>1
  <2>2. CASE i \in 1 .. Len(s) /\ j \in 1 .. Len(s)
    BY <2>2, <1>1 DEF Distinct
  <2>3. CASE i \in 1 .. Len(s) /\ j = Len(s) + 1
    BY <2>3, <1>1 DEF Members
  <2>4. CASE i = Len(s) + 1 /\ j \in 1 .. Len(s)
    BY <2>4, <1>1 DEF Members
  <2> QED
    BY <1>1, <2>1, <2>2, <2>3, <2>4
<1> QED
  BY <1>1, <1>2, <1>3

\* A queue without the members of a set: it loses them and nothing else, and gains no duplicate.
LEMMA WithoutFacts ==
  ASSUME NEW T, NEW q \in Seq(T), NEW S
  PROVE  /\ Without(q, S) \in Seq(T) /\ Members(Without(q, S)) = Members(q) \ S
         /\ Distinct(q) => Distinct(Without(q, S))
<1>0. PICK k \in [0 .. Len(q) -> Seq(T)] : LeftOf(q, S, k)
  BY WithoutIs
<1>1. /\ k[0] = <<>> /\ Without(q, S) = k[Len(q)]
      /\ \A i \in 1 .. Len(q) : k[i] = IF q[i] \in S THEN k[i - 1] ELSE Append(k[i - 1], q[i])
  BY <1>0 DEF LeftOf
<1> DEFINE First(n) == {q[i] : i \in 1 .. n}
           Fine(n) == Members(k[n]) = First(n) \ S /\ (Distinct(q) => Distinct(k[n]))
           R == {n \in Nat : n <= Len(q) => Fine(n)}
<1>2. Len(q) \in Nat /\ \A i \in 1 .. Len(q) : q[i] \in T
  OBVIOUS
<1>3. ASSUME NEW n \in Nat, \A m \in Nat : m < n => m \in R PROVE n \in R
  <2> SUFFICES ASSUME n <= Len(q) PROVE Fine(n)
    OBVIOUS
  <2>1. CASE n = 0
    <3>1. k[n] = <<>> /\ Members(<<>>) = {} /\ Distinct(<<>>) /\ First(n) = {}
      BY <1>1, <2>1 DEF Members, Distinct
    <3> QED
      BY <3>1
  <2>2. CASE n # 0
    <3>1. n - 1 \in Nat /\ n - 1 < n /\ n - 1 <= Len(q) /\ n \in 1 .. Len(q) /\ n - 1 \in 0 ..
          Len(q)
      BY <2>2, <1>2
    <3>2. Fine(n - 1)
      <4>1. n - 1 \in R
        <5> HIDE DEF R
        <5> QED
          BY <3>1, <1>3
      <4> HIDE DEF Fine
      <4> QED
        BY <3>1, <4>1
    <3>3. 1 .. n = (1 .. n - 1) \cup {n}
      BY <3>1
    <3>4. First(n) = First(n - 1) \cup {q[n]}
      BY <3>3
    <3>5. k[n - 1] \in Seq(T) /\ q[n] \in T
      BY <3>1, <1>0, <1>2
    <3> HIDE DEF First, R
    <3>6. CASE q[n] \in S
      <4>1. k[n] = k[n - 1]
        BY <3>1, <3>6, <1>1
      <4> QED
        BY <4>1, <3>2, <3>4, <3>6
    <3>7. CASE q[n] \notin S
      <4>1. k[n] = Append(k[n - 1], q[n])
        BY <3>1, <3>7, <1>1
      <4>2. Members(k[n]) = First(n) \ S
        BY <4>1, <3>2, <3>4, <3>5, <3>7, AppendFacts
      <4>3. ASSUME Distinct(q) PROVE q[n] \notin First(n - 1)
        <5>1. \A i \in 1 .. n - 1 : i \in 1 .. Len(q) /\ i # n
          BY <3>1
        <5> QED
          BY <4>3, <5>1, <3>1 DEF First, Distinct
      <4>4. Distinct(q) => Distinct(k[n])
        BY <4>1, <4>3, <3>2, <3>5, AppendFacts
      <4> QED
        BY <4>2, <4>4
    <3> QED
      BY <3>6, <3>7
  <2> QED
    BY <2>1, <2>2
<1> HIDE DEF R
<1>4. R = Nat
  <2>1. R \subseteq Nat
    BY DEF R
  <2> QED
    BY <1>3, <2>1, Reaches
<1>5. Fine(Len(q))
  <2>1. Len(q) \in R
    BY <1>2, <1>4
  <2> HIDE DEF Fine
  <2> QED
    BY <2>1, <1>2 DEF R
<1>6. k[Len(q)] \in Seq(T)
  BY <1>0, <1>2
<1> QED
  BY <1>1, <1>5, <1>6 DEF Members

\* A queue without repetitions is no longer than the set it is drawn from.
LEMMA DistinctIsShort ==
  ASSUME NEW T, IsFiniteSet(T), NEW s \in Seq(T), Distinct(s)
  PROVE  Len(s) <= Cardinality(T)
<1>1. Len(s) \in Nat /\ \A i \in 1 .. Len(s) : s[i] \in T
  OBVIOUS
<1> DEFINE f == [i \in 1 .. Len(s) |-> s[i]]
<1>2. f \in Injection(1 .. Len(s), T)
  BY <1>1 DEF Distinct, Injection, IsInjective
<1>3. Cardinality(1 .. Len(s)) <= Cardinality(T)
  BY <1>2, FS_Injection, Zenon
<1>4. Cardinality(1 .. Len(s)) = Len(s)
  <2>1. Len(s) \in Int /\ 1 \in Int
    BY <1>1
  <2>2. Cardinality(1 .. Len(s)) = IF 1 > Len(s) THEN 0 ELSE Len(s) - 1 + 1
    BY <2>1, FS_Interval
  <2> QED
    BY <1>1, <2>2
<1> QED
  BY <1>3, <1>4

-----------------------------------------------------------------------------
(* The slots.                                                              *)

WorkerStates == {"none", "polling", "draining"}

Typed ==
    /\ worker \in [Scopes -> WorkerStates]
    /\ scan \in [Products -> ScanStates]
    /\ seen \in [Products -> SUBSET Scopes]
    /\ managed \in [Products -> SUBSET Scopes]
    /\ todo \in [Products -> SUBSET Scopes]
    /\ stopping \in [Products -> BOOLEAN]

\* A supervisor handles the scopes of its own product only.
OwnScopes ==
    \A p \in Products : /\ seen[p] \subseteq Owned(p)
                        /\ managed[p] \subseteq Owned(p)

\* Unless the product shuts down, a managed scope has a polling worker, but
\* for the one whose retirement or yield the scan awaits.
ManagedPolls ==
    \A p \in Products : ~stopping[p] =>
        \A k \in managed[p] :
            \/ worker[k] = "polling"
            \/ scan[p] \in {"retire_wait", "yield_wait"} /\ k = Lowest(todo[p])

\* The retirement loop walks over managed scopes.
RetiresManaged ==
    \A p \in Products :
        scan[p] \in {"retiring", "retire_wait"} /\ ~stopping[p] =>
            todo[p] \subseteq managed[p]

Slots == Cardinality(Occupied) <= MaxWorkers

IInv == Typed /\ OwnScopes /\ ManagedPolls /\ RetiresManaged /\ Slots

-----------------------------------------------------------------------------
(* Facts about the operators. *)

\* Key order has a lowest element in every nonempty set of scopes: Lowest
\* returns a member of it.
LEMMA LowestMember ==
    ASSUME NEW S \in SUBSET Scopes, S # {}
    PROVE  Lowest(S) \in S
<1> DEFINE T == {k[2] : k \in S}
<1>1. T \subseteq Nat /\ T # {}
  BY CapacityAssumption DEF CapacityAssumption
<1> HIDE DEF T
<1>2. \E n \in T : \A m \in T : ~(<<m, n>> \in Below)
  BY ONLY <1>1, BelowWellFounded, WFMin, Zenon
<1>3. PICK n \in T : \A m \in T : ~(<<m, n>> \in Below)
  BY <1>2
<1>4. \A m \in T : n <= m
  <2>1. \A a, b \in Nat : a < b => <<a, b>> \in Below
    BY DEF Below
  <2>2. \A a, b \in Nat : ~(a < b) => b <= a
    OBVIOUS
  <2> QED
    BY <1>1, <1>3, <2>1, <2>2
<1> USE DEF T
<1>5. PICK k \in S : k[2] = n
  OBVIOUS
<1>6. \A j \in S : k[2] <= j[2]
  BY <1>4, <1>5
<1> QED
  BY <1>6, Zenon DEF Lowest

\* The least of one scope.
LEMMA LowestSingleton ==
    ASSUME NEW k \in Scopes
    PROVE  Lowest({k}) = k
BY LowestMember

\* The slots in use are a finite number.
LEMMA OccupiedFinite ==
    /\ IsFiniteSet(Occupied)
    /\ Cardinality(Occupied) \in Nat
<1>1. Occupied \subseteq Scopes
  BY DEF Occupied
<1> QED
  BY <1>1, CapacityAssumption, FS_Subset, FS_CardinalityType DEF CapacityAssumption

\* A step after which no scope is occupied that was not keeps the slots.
LEMMA SlotsKept ==
    ASSUME Slots, Occupied' \subseteq Occupied
    PROVE  Slots'
<1>1. Cardinality(Occupied') <= Cardinality(Occupied) /\ Cardinality(Occupied') \in Nat
  BY OccupiedFinite, FS_Subset, FS_CardinalityType
<1> QED
  BY <1>1, OccupiedFinite, CapacityAssumption DEF Slots, CapacityAssumption

-----------------------------------------------------------------------------
(* The steps that write no slot. *)

\* A step that leaves the workers alone leaves the slots alone.
LEMMA SlotsUnchanged ==
    ASSUME Slots, UNCHANGED worker
    PROVE  Slots'
BY DEF Slots, Occupied

\* The steps of the supervisors, one by one. The database changes: no slot moves.
LEMMA ScopeChangesStep ==
    ASSUME IInv, NEW k \in Scopes, ScopeChanges(k)
    PROVE  IInv'
<1>1. UNCHANGED <<worker, scan, seen, managed, todo, stopping>>
  BY DEF ScopeChanges, own
<1> QED
  BY <1>1, SlotsUnchanged
  DEF IInv, Typed, OwnScopes, ManagedPolls, RetiresManaged

\* A scan begins: no slot moves.
LEMMA BeginScanStep ==
    ASSUME IInv, NEW p \in Products, BeginScan(p)
    PROVE  IInv'
<1>1. /\ scan[p] = "idle"
      /\ scan' = [scan EXCEPT ![p] = "discovering"]
      /\ UNCHANGED <<worker, seen, managed, todo, stopping>>
  BY DEF BeginScan, own
<1> QED
  BY <1>1, SlotsUnchanged
  DEF IInv, Typed, OwnScopes, ManagedPolls, RetiresManaged, ScanStates

\* The scan reads the scopes that have work.
LEMMA ReadScopesStep ==
    ASSUME IInv, NEW p \in Products, ReadScopes(p)
    PROVE  IInv'
<1>1. /\ scan[p] = "discovering"
      /\ scan' = [scan EXCEPT ![p] = "listed"]
      /\ seen' = [seen EXCEPT ![p] = runnable \cap Owned(p)]
      /\ UNCHANGED <<worker, managed, todo, stopping>>
  BY DEF ReadScopes
<1>2. Owned(p) \subseteq Scopes
  BY DEF Owned
<1> QED
  BY <1>1, <1>2, SlotsUnchanged
  DEF IInv, Typed, OwnScopes, ManagedPolls, RetiresManaged, ScanStates

\* A failed scan gives its tickets up, and no slot.
LEMMA FailScanStep ==
    ASSUME IInv, NEW p \in Products, FailScan(p)
    PROVE  IInv'
<1>1. /\ scan[p] \in {"discovering", "listed"}
      /\ scan' = [scan EXCEPT ![p] = "idle"]
      /\ seen' = [seen EXCEPT ![p] = {}]
      /\ UNCHANGED <<worker, managed, todo, stopping>>
  BY DEF FailScan
<1> QED
  BY <1>1, SlotsUnchanged
  DEF IInv, Typed, OwnScopes, ManagedPolls, RetiresManaged, ScanStates

\* The scopes to retire are managed ones.
LEMMA AbsorbScanStep ==
    ASSUME IInv, NEW p \in Products, AbsorbScan(p)
    PROVE  IInv'
<1>1. /\ scan[p] = "listed"
      /\ scan' = [scan EXCEPT ![p] = "retiring"]
      /\ UNCHANGED <<worker, seen, managed, stopping>>
  BY DEF AbsorbScan
<1>2. \/ stopping[p] /\ todo' = todo
      \/ todo' = [todo EXCEPT ![p] = (managed[p] \ seen[p]) \cap missed[p]]
  BY DEF AbsorbScan
<1>3. \/ stopping[p] /\ todo' = todo
      \/ \E S \in SUBSET managed[p] : todo' = [todo EXCEPT ![p] = S]
  BY <1>2
<1> QED
  BY <1>1, <1>3, SlotsUnchanged
  DEF IInv, Typed, OwnScopes, ManagedPolls, RetiresManaged, ScanStates

\* A scan that need not yield goes on.
LEMMA SkipYieldStep ==
    ASSUME IInv, NEW p \in Products, SkipYield(p)
    PROVE  IInv'
<1>1. /\ scan[p] = "retiring"
      /\ scan' = [scan EXCEPT ![p] = "starting"]
      /\ todo' = [todo EXCEPT ![p] = IF stopping[p] THEN {} ELSE seen[p]]
      /\ UNCHANGED <<worker, seen, managed, stopping>>
  BY DEF SkipYield
<1> QED
  BY <1>1, SlotsUnchanged
  DEF IInv, Typed, OwnScopes, ManagedPolls, RetiresManaged, ScanStates

\* A scan ends: no slot moves.
LEMMA EndScanStep ==
    ASSUME IInv, NEW p \in Products, EndScan(p)
    PROVE  IInv'
<1>1. /\ scan[p] = "starting"
      /\ scan' = [scan EXCEPT ![p] = "idle"]
      /\ seen' = [seen EXCEPT ![p] = {}]
      /\ UNCHANGED <<worker, managed, todo, stopping>>
  BY DEF EndScan
<1> QED
  BY <1>1, SlotsUnchanged
  DEF IInv, Typed, OwnScopes, ManagedPolls, RetiresManaged, ScanStates

\* A wake changes no slot.
LEMMA WakeStep ==
    ASSUME IInv, NEW p \in Products, NEW k \in Owned(p), Wake(p, k)
    PROVE  IInv'
<1>1. /\ scan[p] = "starting"
      /\ todo' = [todo EXCEPT ![p] = @ \ {k}]
      /\ UNCHANGED <<worker, scan, seen, managed, stopping>>
  BY DEF Wake, Turn
<1> QED
  BY <1>1, SlotsUnchanged
  DEF IInv, Typed, OwnScopes, ManagedPolls, RetiresManaged

\* A scope that gets no slot leaves a demand behind.
LEMMA DeferScopeStep ==
    ASSUME IInv, NEW p \in Products, NEW k \in Owned(p), DeferScope(p, k)
    PROVE  IInv'
<1>1. /\ scan[p] = "starting"
      /\ todo' = [todo EXCEPT ![p] = @ \ {k}]
      /\ managed' = [managed EXCEPT ![p] = @ \ {k}]
      /\ UNCHANGED <<worker, scan, seen, stopping>>
  BY DEF DeferScope, Turn
<1> QED
  BY <1>1, SlotsUnchanged
  DEF IInv, Typed, OwnScopes, ManagedPolls, RetiresManaged

\* The scope the scan waited for leaves the managed ones.
LEMMA RetireDoneStep ==
    ASSUME IInv, NEW p \in Products, RetireDone(p)
    PROVE  IInv'
<1> DEFINE k == Lowest(todo[p])
<1>1. /\ scan[p] = "retire_wait"
      /\ scan' = [scan EXCEPT ![p] = "retiring"]
      /\ todo' = [todo EXCEPT ![p] = IF stopping[p] THEN {} ELSE @ \ {k}]
      /\ managed' = [managed EXCEPT ![p] = @ \ {k}]
      /\ UNCHANGED <<worker, seen, stopping>>
  BY DEF RetireDone
<1>2. \A q \in Products \ {p} : scan'[q] = scan[q] /\ todo'[q] = todo[q]
                                /\ managed'[q] = managed[q]
  BY <1>1 DEF IInv, Typed
<1>3. ManagedPolls'
  BY <1>1, <1>2 DEF IInv, Typed, ManagedPolls
<1> QED
  BY <1>1, <1>3, SlotsUnchanged
  DEF IInv, Typed, OwnScopes, RetiresManaged, ScanStates

\* The worker that yielded has drained: its scope is managed no more.
LEMMA YieldDoneStep ==
    ASSUME IInv, NEW p \in Products, YieldDone(p)
    PROVE  IInv'
<1> DEFINE k == Lowest(todo[p])
<1>1. /\ scan[p] = "yield_wait"
      /\ scan' = [scan EXCEPT ![p] = "starting"]
      /\ todo' = [todo EXCEPT ![p] = IF stopping[p] THEN {} ELSE seen[p] \ {k}]
      /\ managed' = [managed EXCEPT ![p] = @ \ {k}]
      /\ UNCHANGED <<worker, seen, stopping>>
  BY DEF YieldDone
<1>2. \A q \in Products \ {p} : scan'[q] = scan[q] /\ todo'[q] = todo[q]
                                /\ managed'[q] = managed[q]
  BY <1>1 DEF IInv, Typed
<1>3. ManagedPolls'
  BY <1>1, <1>2 DEF IInv, Typed, ManagedPolls
<1> QED
  BY <1>1, <1>3, SlotsUnchanged
  DEF IInv, Typed, OwnScopes, RetiresManaged, ScanStates

\* The shutdown returns when its workers have gone.
LEMMA EndShutdownStep ==
    ASSUME IInv, NEW p \in Products, EndShutdown(p)
    PROVE  IInv'
<1>1. /\ scan[p] = "idle"
      /\ scan' = [scan EXCEPT ![p] = "stopped"]
      /\ managed' = [managed EXCEPT ![p] = {}]
      /\ UNCHANGED <<worker, seen, todo, stopping>>
  BY DEF EndShutdown
<1> QED
  BY <1>1, SlotsUnchanged
  DEF IInv, Typed, OwnScopes, ManagedPolls, RetiresManaged, ScanStates

-----------------------------------------------------------------------------
(* The steps that write a slot. *)

\* The scope to retire is managed and nothing is awaited, so its worker polls:
\* the slot it had is the one its drain keeps.
LEMMA RetireNextStep ==
    ASSUME IInv, NEW p \in Products, RetireNext(p)
    PROVE  IInv'
<1> DEFINE k == Lowest(todo[p])
<1>1. /\ scan[p] = "retiring" /\ ~stopping[p] /\ todo[p] # {}
      /\ worker' = [worker EXCEPT ![k] = "draining"]
      /\ scan' = [scan EXCEPT ![p] = "retire_wait"]
      /\ UNCHANGED <<seen, managed, todo, stopping>>
  BY DEF RetireNext, own
<1>2. k \in todo[p] /\ k \in managed[p] /\ k \in Scopes /\ Owner(k) = p
  BY <1>1, LowestMember DEF IInv, Typed, RetiresManaged, OwnScopes, Owned
<1>3. worker[k] = "polling"
  BY <1>1, <1>2 DEF IInv, ManagedPolls
<1>4. Typed' /\ OwnScopes' /\ RetiresManaged'
  BY <1>1, <1>2
  DEF IInv, Typed, OwnScopes, RetiresManaged, ScanStates, WorkerStates
<1>5. ManagedPolls'
  <2> SUFFICES ASSUME NEW q \in Products, ~stopping[q], NEW j \in managed[q]
               PROVE  \/ worker'[j] = "polling"
                      \/ scan'[q] \in {"retire_wait", "yield_wait"}
                         /\ j = Lowest(todo[q])
    BY <1>1 DEF ManagedPolls, Lowest
  <2>1. j \in Scopes /\ Owner(j) = q
    BY DEF IInv, Typed, OwnScopes, Owned
  <2>2. CASE j = k
    BY <1>1, <1>2, <2>1, <2>2 DEF IInv, Typed
  <2>3. CASE j # k
    BY <1>1, <1>2, <2>1, <2>3 DEF IInv, Typed, ManagedPolls
  <2> QED
    BY <2>2, <2>3
<1>6. Slots'
  BY <1>1, <1>2, <1>3, SlotsKept DEF IInv, Typed, Occupied
<1> QED
  BY <1>4, <1>5, <1>6 DEF IInv

\* The worker that is yielded is managed and polls, too.
LEMMA YieldStep ==
    ASSUME IInv, NEW p \in Products, Yield(p)
    PROVE  IInv'
<1> DEFINE k == Lowest(Yieldable(p))
<1>1. /\ scan[p] = "retiring" /\ ~stopping[p] /\ Yieldable(p) # {}
      /\ worker' = [worker EXCEPT ![k] = "draining"]
      /\ todo' = [todo EXCEPT ![p] = {k}]
      /\ scan' = [scan EXCEPT ![p] = "yield_wait"]
      /\ UNCHANGED <<seen, managed, stopping>>
  BY DEF Yield
<1>2. Yieldable(p) \subseteq managed[p]
  BY DEF Yieldable
<1>3. k \in managed[p] /\ k \in Scopes /\ Owner(k) = p
  BY <1>1, <1>2, LowestMember DEF IInv, Typed, OwnScopes, Owned
<1> HIDE DEF k
<1>4. worker[k] = "polling"
  BY <1>1, <1>3 DEF IInv, ManagedPolls
<1>5. Typed' /\ OwnScopes' /\ RetiresManaged'
  BY <1>1, <1>3
  DEF IInv, Typed, OwnScopes, RetiresManaged, ScanStates, WorkerStates
<1>6. ManagedPolls'
  <2> SUFFICES ASSUME NEW q \in Products, ~stopping[q], NEW j \in managed[q]
               PROVE  \/ worker'[j] = "polling"
                      \/ scan'[q] \in {"retire_wait", "yield_wait"}
                         /\ j = Lowest(todo'[q])
    BY <1>1 DEF ManagedPolls, Lowest
  <2>1. j \in Scopes /\ Owner(j) = q
    BY DEF IInv, Typed, OwnScopes, Owned
  <2>2. CASE j = k
    BY <1>1, <1>3, <2>1, <2>2, LowestSingleton DEF IInv, Typed
  <2>3. CASE j # k
    <3>1. worker'[j] = worker[j]
      BY <1>1, <2>1, <2>3 DEF IInv, Typed
    <3>2. q # p => scan'[q] = scan[q] /\ todo'[q] = todo[q]
      BY <1>1 DEF IInv, Typed
    <3> QED
      BY <1>1, <3>1, <3>2 DEF IInv, ManagedPolls
  <2> QED
    BY <2>2, <2>3
<1>7. Slots'
  BY <1>1, <1>3, <1>4, SlotsKept DEF IInv, Typed, Occupied
<1> QED
  BY <1>5, <1>6, <1>7 DEF IInv

\* The only step that takes a slot has seen a free one.
LEMMA StartWorkerStep ==
    ASSUME IInv, NEW p \in Products, NEW k \in Owned(p), StartWorker(p, k)
    PROVE  IInv'
<1>1. /\ scan[p] = "starting" /\ worker[k] = "none"
      /\ Cardinality(Occupied) < MaxWorkers
      /\ todo' = [todo EXCEPT ![p] = @ \ {k}]
      /\ managed' = [managed EXCEPT ![p] = @ \cup {k}]
      /\ worker' = [worker EXCEPT ![k] = "polling"]
      /\ UNCHANGED <<scan, seen, stopping>>
  BY DEF StartWorker, Turn, Granted
<1>2. k \in Scopes /\ Owner(k) = p
  BY DEF Owned
<1>3. Typed' /\ OwnScopes' /\ RetiresManaged'
  BY <1>1, <1>2 DEF IInv, Typed, OwnScopes, RetiresManaged, WorkerStates
<1>4. ManagedPolls'
  <2> SUFFICES ASSUME NEW q \in Products, ~stopping[q], NEW j \in managed'[q]
               PROVE  \/ worker'[j] = "polling"
                      \/ scan[q] \in {"retire_wait", "yield_wait"}
                         /\ j = Lowest(todo'[q])
    BY <1>1 DEF ManagedPolls, Lowest
  <2>1. CASE j = k
    BY <1>1, <1>2, <2>1 DEF IInv, Typed
  <2>2. CASE j # k
    <3>1. j \in managed[q] /\ worker'[j] = worker[j]
      BY <1>1, <1>2, <2>2 DEF IInv, Typed
    <3>2. q # p => todo'[q] = todo[q]
      BY <1>1 DEF IInv, Typed
    <3> QED
      BY <1>1, <3>1, <3>2 DEF IInv, ManagedPolls
  <2> QED
    BY <2>1, <2>2
<1>5. Occupied' = Occupied \cup {k}
  BY <1>1, <1>2 DEF IInv, Typed, Occupied
<1>6. Cardinality(Occupied') <= Cardinality(Occupied) + 1
  <2>1. Cardinality(Occupied \cup {k}) =
            IF k \in Occupied THEN Cardinality(Occupied) ELSE Cardinality(Occupied) + 1
    BY OccupiedFinite, FS_AddElement, Zenon
  <2> QED
    BY <1>5, <2>1, OccupiedFinite
<1>7. IsFiniteSet(Occupied') /\ Cardinality(Occupied') \in Nat
  BY <1>5, OccupiedFinite, FS_AddElement, FS_CardinalityType
<1>8. Slots'
  BY <1>1, <1>6, <1>7, OccupiedFinite, CapacityAssumption
  DEF Slots, CapacityAssumption
<1> QED
  BY <1>3, <1>4, <1>8 DEF IInv

\* A slot is given back when the drain has ended.
LEMMA WorkerDrainsStep ==
    ASSUME IInv, NEW k \in Scopes, WorkerDrains(k)
    PROVE  IInv'
<1>1. /\ worker[k] = "draining"
      /\ worker' = [worker EXCEPT ![k] = "none"]
      /\ UNCHANGED <<scan, seen, managed, todo, stopping>>
  BY DEF WorkerDrains, own
<1>2. Typed' /\ OwnScopes' /\ RetiresManaged'
  BY <1>1 DEF IInv, Typed, OwnScopes, RetiresManaged, WorkerStates
<1>3. ManagedPolls'
  BY <1>1 DEF IInv, Typed, ManagedPolls, Lowest
<1>4. Slots'
  BY <1>1, SlotsKept DEF IInv, Typed, Occupied
<1> QED
  BY <1>2, <1>3, <1>4 DEF IInv

\* A shutdown stops workers of its own product only, and only those that poll.
LEMMA BeginShutdownStep ==
    ASSUME IInv, NEW p \in Products, BeginShutdown(p)
    PROVE  IInv'
<1>1. /\ stopping' = [stopping EXCEPT ![p] = TRUE]
      /\ worker' = [k \in Scopes |->
                       IF k \in managed[p] /\ worker[k] = "polling"
                       THEN "draining" ELSE worker[k]]
      /\ UNCHANGED <<scan, seen, managed, todo>>
  BY DEF BeginShutdown
<1>2. Typed' /\ OwnScopes' /\ RetiresManaged'
  BY <1>1 DEF IInv, Typed, OwnScopes, RetiresManaged, WorkerStates
<1>3. ManagedPolls'
  <2> SUFFICES ASSUME NEW q \in Products, ~stopping'[q], NEW j \in managed[q]
               PROVE  \/ worker'[j] = "polling"
                      \/ scan[q] \in {"retire_wait", "yield_wait"}
                         /\ j = Lowest(todo[q])
    BY <1>1 DEF ManagedPolls, Lowest
  <2>1. q # p /\ ~stopping[q]
    BY <1>1 DEF IInv, Typed
  <2>2. j \in Scopes /\ j \notin managed[p]
    BY <2>1 DEF IInv, Typed, OwnScopes, Owned
  <2>3. worker'[j] = worker[j]
    BY <1>1, <2>2
  <2> QED
    BY <2>1, <2>3 DEF IInv, ManagedPolls
<1>4. Slots'
  BY <1>1, SlotsKept DEF IInv, Typed, Occupied
<1> QED
  BY <1>2, <1>3, <1>4 DEF IInv

-----------------------------------------------------------------------------
(* The theorems. *)

\* No slot is taken.
LEMMA InitIInv == Init => IInv
<1> SUFFICES ASSUME Init PROVE IInv
  OBVIOUS
<1>1. Typed /\ OwnScopes /\ ManagedPolls /\ RetiresManaged
  BY DEF Init, Typed, OwnScopes, ManagedPolls, RetiresManaged, ScanStates,
         WorkerStates
<1>2. Occupied = {}
  BY DEF Init, Occupied
<1> QED
  BY <1>1, <1>2, FS_EmptySet, CapacityAssumption
  DEF IInv, Slots, CapacityAssumption

\* Every step keeps the invariant of the slots.
LEMMA NextIInv == IInv /\ [Next]_vars => IInv'
<1> SUFFICES ASSUME IInv, [Next]_vars PROVE IInv'
  OBVIOUS
<1>1. CASE UNCHANGED vars
  BY <1>1, SlotsUnchanged
  DEF vars, own, IInv, Typed, OwnScopes, ManagedPolls, RetiresManaged
<1>2. ASSUME NEW k \in Scopes, ScopeChanges(k) \/ WorkerDrains(k)
      PROVE  IInv'
  BY <1>2, ScopeChangesStep, WorkerDrainsStep
<1>3. ASSUME NEW p \in Products, FailScan(p) \/ BeginShutdown(p) \/ EndShutdown(p)
      PROVE  IInv'
  BY <1>3, FailScanStep, BeginShutdownStep, EndShutdownStep
<1>4. ASSUME NEW p \in Products, ScanStep(p)
      PROVE  IInv'
  <2>1. CASE BeginScan(p) \/ ReadScopes(p) \/ AbsorbScan(p)
    BY <2>1, BeginScanStep, ReadScopesStep, AbsorbScanStep
  <2>2. CASE RetireNext(p) \/ RetireDone(p)
    BY <2>2, RetireNextStep, RetireDoneStep
  <2>3. CASE Yield(p) \/ YieldDone(p) \/ SkipYield(p)
    BY <2>3, YieldStep, YieldDoneStep, SkipYieldStep
  <2>4. ASSUME NEW k \in Owned(p),
               Wake(p, k) \/ StartWorker(p, k) \/ DeferScope(p, k)
        PROVE  IInv'
    BY <2>4, WakeStep, StartWorkerStep, DeferScopeStep
  <2>5. CASE EndScan(p)
    BY <2>5, EndScanStep
  <2> QED
    BY <1>4, <2>1, <2>2, <2>3, <2>4, <2>5 DEF ScanStep
<1> QED
  BY <1>1, <1>2, <1>3, <1>4 DEF Next

\* The inductive invariant: slots in use within the limit, and every managed
\* scope with a worker that can be asked to stop.
THEOREM CapacityInvariant == Spec => []IInv
<1>1. Init => IInv
  BY InitIInv
<1>2. IInv /\ [Next]_vars => IInv'
  BY NextIInv
<1> QED
  BY <1>1, <1>2, PTL DEF Spec

\* The workers of the process, polling or draining, never exceed its slots,
\* whatever the products, their scopes and the order of scans, yields,
\* retirements and shutdowns.
THEOREM CapacityRespected == Spec => []WorkersWithinCapacity
<1>1. IInv => WorkersWithinCapacity
  <2> SUFFICES ASSUME IInv PROVE WorkersWithinCapacity
    OBVIOUS
  <2>1. {k \in Scopes : worker[k] \in {"polling", "draining"}} = Occupied
    BY DEF IInv, Typed, WorkerStates, Occupied
  <2> QED
    BY <2>1 DEF IInv, Slots, WorkersWithinCapacity
<1> QED
  BY <1>1, CapacityInvariant, PTL

-----------------------------------------------------------------------------
(* The tickets.  What a supervisor knows of a scope and what the limiter   *)
(* keeps for it are written by different steps; the invariant says how the *)
(* two agree at every one of them.                                         *)

Records ==
    /\ runnable \subseteq Scopes
    /\ missed \in [Products -> SUBSET Scopes]
    /\ demanded \in [Products -> SUBSET Scopes]
    /\ failures \in 0..MaxFailures

\* No scope holds two tickets.
OneTicketEach == demands \in Seq(Scopes) /\ Distinct(demands)

\* Every worker, a draining one included, is known to its supervisor.
WorkersManaged == \A k \in Scopes : worker[k] # "none" => k \in managed[Owner(k)]

\* A yield hands over one managed worker.
YieldsOne ==
    \A p \in Products : scan[p] = "yield_wait" =>
        \E k \in managed[p] : todo[p] = {k}

\* A start loop that a supervisor enters while it shuts down starts nothing.
StoppingStartsNothing ==
    \A p \in Products : stopping[p] /\ scan[p] = "starting" => todo[p] = {}

\* A supervisor that has shut down manages nothing.
StoppedManagesNothing ==
    \A p \in Products : scan[p] = "stopped" => stopping[p] /\ managed[p] = {}

TInv ==
    /\ IInv /\ Records /\ OneTicketEach /\ WorkersManaged /\ YieldsOne
    /\ StoppingStartsNothing /\ StoppedManagesNothing
    /\ NoTicketWhileServed /\ NoOrphanTicket /\ StoppingHoldsNoTicket

\* What the limiter's two operations leave in the queue.
LEMMA LeftTickets ==
    ASSUME OneTicketEach, NEW S, demands' = Without(demands, S)
    PROVE  OneTicketEach' /\ TicketSet' = TicketSet \ S
<1>1. /\ Without(demands, S) \in Seq(Scopes)
      /\ Members(Without(demands, S)) = Members(demands) \ S
      /\ Distinct(Without(demands, S))
  BY WithoutFacts DEF OneTicketEach
<1>2. TicketSet = Members(demands) /\ TicketSet' = Members(demands')
  BY DEF TicketSet, Members
<1>3. TicketSet' = TicketSet \ S
  BY <1>1, <1>2
<1> QED
  BY <1>1, <1>3 DEF OneTicketEach

\* A ticket more: a scope that has one gets no second.
LEMMA MoreTickets ==
    ASSUME OneTicketEach, NEW k \in Scopes, demands' = Enqueue(demands, k)
    PROVE  OneTicketEach' /\ TicketSet' = TicketSet \cup {k}
<1>0. demands \in Seq(Scopes) /\ Distinct(demands)
  BY DEF OneTicketEach
<1>1. TicketSet = Members(demands) /\ TicketSet' = Members(demands')
  BY DEF TicketSet, Members
<1>2. CASE \E i \in 1..Len(demands) : demands[i] = k
  <2>1. demands' = demands /\ k \in TicketSet
    BY <1>2 DEF Enqueue, TicketSet
  <2> QED
    BY <2>1, <1>0, <1>1 DEF OneTicketEach
<1>3. CASE ~ \E i \in 1..Len(demands) : demands[i] = k
  <2>1. demands' = Append(demands, k) /\ k \notin Members(demands)
    BY <1>3 DEF Enqueue, Members
  <2>2. /\ demands' \in Seq(Scopes) /\ Members(demands') = Members(demands) \cup {k}
        /\ Distinct(demands')
    BY <2>1, <1>0, AppendFacts
  <2> QED
    BY <2>2, <1>1 DEF OneTicketEach
<1> QED
  BY <1>2, <1>3

\* Steps that leave the queue alone leave the tickets alone.
LEMMA SameTickets ==
    ASSUME OneTicketEach, UNCHANGED demands
    PROVE  OneTicketEach' /\ TicketSet' = TicketSet
BY DEF OneTicketEach, TicketSet

\* The worker to retire, or to yield, is a managed one of the product.
LEMMA YieldsManaged ==
    ASSUME IInv, NEW p \in Products, Yieldable(p) # {}
    PROVE  /\ Lowest(Yieldable(p)) \in managed[p]
           /\ Lowest(Yieldable(p)) \in Scopes /\ Owner(Lowest(Yieldable(p))) = p
<1>1. Yieldable(p) \subseteq managed[p] /\ managed[p] \subseteq Owned(p)
  BY DEF Yieldable, IInv, OwnScopes
<1> QED
  BY <1>1, LowestMember DEF IInv, Typed, Owned

\* The scope the retirement loop is at is managed, and the product's own.
LEMMA RetiresManagedOne ==
    ASSUME IInv, NEW p \in Products, todo[p] # {}, ~stopping[p], scan[p] = "retiring"
    PROVE  /\ Lowest(todo[p]) \in managed[p]
           /\ Lowest(todo[p]) \in Scopes /\ Owner(Lowest(todo[p])) = p
<1>1. todo[p] \subseteq managed[p] /\ managed[p] \subseteq Owned(p)
  BY DEF IInv, OwnScopes, RetiresManaged
<1> QED
  BY <1>1, LowestMember DEF IInv, Typed, Owned

\* The scope whose drain the yield awaits.
LEMMA YieldAwaits ==
    ASSUME IInv, YieldsOne, NEW p \in Products, scan[p] = "yield_wait"
    PROVE  /\ todo[p] = {Lowest(todo[p])} /\ Lowest(todo[p]) \in managed[p]
           /\ Lowest(todo[p]) \in Scopes /\ Owner(Lowest(todo[p])) = p
<1>1. PICK k \in managed[p] : todo[p] = {k}
  BY DEF YieldsOne
<1>2. k \in Scopes /\ Owner(k) = p
  BY DEF IInv, Typed, OwnScopes, Owned
<1> QED
  BY <1>1, <1>2, LowestSingleton

\* The owner of a scope is a product.
LEMMA OwnerIsProduct == \A k \in Scopes : Owner(k) \in Products
BY CapacityAssumption DEF CapacityAssumption, Owner


TicketsAreScopes == TicketSet \subseteq Scopes /\ \A k \in TicketSet : Owner(k) \in Products
\* Tickets are of scopes.
LEMMA TicketScopes == OneTicketEach => TicketsAreScopes
BY OwnerIsProduct DEF OneTicketEach, TicketSet, TicketsAreScopes

\* No step gives a scope a second ticket.
LEMMA TicketsStep ==
    ASSUME TInv, [Next]_vars
    PROVE  OneTicketEach'
<1>t. IInv /\ OneTicketEach
  BY TicketScopes DEF TInv, IInv
<1>1. ASSUME NEW k \in Scopes, ScopeChanges(k) \/ WorkerDrains(k)
      PROVE  OneTicketEach'
  BY <1>t, <1>1, SameTickets DEF ScopeChanges, WorkerDrains, own
<1>2. ASSUME NEW p \in Products, BeginScan(p) \/ ReadScopes(p) \/ RetireNext(p) \/ RetireDone(p)
      \/ YieldDone(p) \/ SkipYield(p) \/ EndScan(p)
      PROVE  OneTicketEach'
  BY <1>t, <1>2, SameTickets DEF BeginScan, ReadScopes, RetireNext, RetireDone, YieldDone,
     SkipYield, EndScan, own
<1>3. ASSUME NEW p \in Products, FailScan(p) PROVE OneTicketEach'
  BY <1>t, <1>3, LeftTickets DEF FailScan, own
<1>4. ASSUME NEW p \in Products, AbsorbScan(p) PROVE OneTicketEach'
  BY <1>t, <1>4, LeftTickets DEF AbsorbScan, own
<1>5. ASSUME NEW p \in Products, Yield(p) PROVE OneTicketEach'
  <2>1. /\ Lowest(Yieldable(p)) \in managed[p] /\ Lowest(Yieldable(p)) \in Scopes
        /\ Owner(Lowest(Yieldable(p))) = p
    BY <1>t, <1>5, YieldsManaged DEF Yield
  <2> QED
    BY <1>t, <1>5, <2>1, MoreTickets DEF Yield
<1>6. ASSUME NEW p \in Products, NEW k \in Owned(p), Wake(p, k) PROVE OneTicketEach'
  BY <1>t, <1>6, LeftTickets DEF Wake, Turn, own
<1>7. ASSUME NEW p \in Products, NEW k \in Owned(p), StartWorker(p, k) PROVE OneTicketEach'
  BY <1>t, <1>7, LeftTickets DEF StartWorker, Turn, own
<1>8. ASSUME NEW p \in Products, NEW k \in Owned(p), DeferScope(p, k) PROVE OneTicketEach'
  BY <1>t, <1>8, MoreTickets DEF DeferScope, Turn, own, Owned
<1>9. ASSUME NEW p \in Products, BeginShutdown(p) PROVE OneTicketEach'
  BY <1>t, <1>9, LeftTickets DEF BeginShutdown, own
<1>10. ASSUME NEW p \in Products, EndShutdown(p) PROVE OneTicketEach'
  BY <1>t, <1>10, LeftTickets DEF EndShutdown, own
<1>11. CASE UNCHANGED vars
  BY <1>t, <1>11, SameTickets DEF vars, own
<1> QED
  BY <1>1, <1>2, <1>3, <1>4, <1>5, <1>6, <1>7, <1>8, <1>9, <1>10, <1>11 DEF Next, ScanStep

\* The variables the capacity proof does not read keep their types.
LEMMA RecordsStep ==
    ASSUME TInv, [Next]_vars
    PROVE  Records'
<1>t. IInv /\ Typed /\ Records /\ YieldsOne
  BY TicketScopes DEF TInv, IInv
<1> USE DEF Records, Typed, Owned
<1>1. ASSUME NEW k \in Scopes, ScopeChanges(k) \/ WorkerDrains(k)
      PROVE  Records'
  BY <1>t, <1>1 DEF ScopeChanges, WorkerDrains, own
<1>2. ASSUME NEW p \in Products, BeginScan(p) \/ ReadScopes(p) \/ AbsorbScan(p) \/ RetireNext(p)
      \/ RetireDone(p) \/ Yield(p) \/ SkipYield(p) \/ EndScan(p) \/ BeginShutdown(p) \/
      EndShutdown(p)
      PROVE  Records'
  BY <1>t, <1>2 DEF BeginScan, ReadScopes, AbsorbScan, RetireNext, RetireDone, Yield, SkipYield,
     EndScan, BeginShutdown, EndShutdown, own
<1>3. ASSUME NEW p \in Products, NEW k \in Owned(p), Wake(p, k) \/ StartWorker(p, k) \/
      DeferScope(p, k)
      PROVE  Records'
  BY <1>t, <1>3 DEF Wake, Turn, StartWorker, DeferScope, own
<1>4. ASSUME NEW p \in Products, FailScan(p) PROVE Records'
  <2>1. failures' \in 0..MaxFailures
    BY <1>t, <1>4, CapacityAssumption DEF FailScan, Records, CapacityAssumption
  <2> QED
    BY <1>t, <2>1, <1>4 DEF FailScan, Records
<1>5. ASSUME NEW p \in Products, YieldDone(p) PROVE Records'
  <2>1. /\ todo[p] = {Lowest(todo[p])} /\ Lowest(todo[p]) \in managed[p]
        /\ Lowest(todo[p]) \in Scopes /\ Owner(Lowest(todo[p])) = p
    BY <1>t, <1>5, YieldAwaits DEF YieldDone
  <2> QED
    BY <1>t, <1>5, <2>1 DEF YieldDone, Records, Typed
<1>6. CASE UNCHANGED vars
  BY <1>t, <1>6 DEF vars, own
<1> QED
  BY <1>1, <1>2, <1>3, <1>4, <1>5, <1>6 DEF Next, ScanStep

\* A scope leaves the managed ones only when it has no worker.
LEMMA WorkersManagedStep ==
    ASSUME TInv, [Next]_vars
    PROVE  WorkersManaged'
<1>t. IInv /\ Typed /\ OwnScopes /\ WorkersManaged
  BY TicketScopes DEF TInv, IInv
<1> USE DEF WorkersManaged, Typed, Owned, OwnScopes
<1>1. ASSUME NEW k \in Scopes, ScopeChanges(k) \/ WorkerDrains(k)
      PROVE  WorkersManaged'
  BY <1>t, <1>1 DEF ScopeChanges, WorkerDrains, own
<1>2. ASSUME NEW p \in Products, BeginScan(p) \/ ReadScopes(p) \/ FailScan(p) \/ AbsorbScan(p)
      \/ SkipYield(p) \/ EndScan(p)
      PROVE  WorkersManaged'
  BY <1>t, <1>2 DEF BeginScan, ReadScopes, FailScan, AbsorbScan, SkipYield, EndScan, own
<1>3. ASSUME NEW p \in Products, RetireNext(p) PROVE WorkersManaged'
  <2>1. /\ Lowest(todo[p]) \in managed[p] /\ Lowest(todo[p]) \in Scopes
        /\ Owner(Lowest(todo[p])) = p
    BY <1>t, <1>3, RetiresManagedOne DEF RetireNext
  <2> QED
    BY <1>t, <1>3, <2>1 DEF RetireNext, own, Owner
<1>4. ASSUME NEW p \in Products, RetireDone(p) PROVE WorkersManaged'
  BY <1>t, <1>4 DEF RetireDone, own
<1>5. ASSUME NEW p \in Products, Yield(p) PROVE WorkersManaged'
  <2>1. /\ Lowest(Yieldable(p)) \in managed[p] /\ Lowest(Yieldable(p)) \in Scopes
        /\ Owner(Lowest(Yieldable(p))) = p
    BY <1>t, <1>5, YieldsManaged DEF Yield
  <2> QED
    BY <1>t, <1>5, <2>1 DEF Yield, own
<1>6. ASSUME NEW p \in Products, YieldDone(p) PROVE WorkersManaged'
  BY <1>t, <1>6 DEF YieldDone, own
<1>7. ASSUME NEW p \in Products, NEW k \in Owned(p), Wake(p, k) PROVE WorkersManaged'
  BY <1>t, <1>7 DEF Wake, Turn, own
<1>8. ASSUME NEW p \in Products, NEW k \in Owned(p), StartWorker(p, k) PROVE WorkersManaged'
  BY <1>t, <1>8 DEF StartWorker, Turn, own
<1>9. ASSUME NEW p \in Products, NEW k \in Owned(p), DeferScope(p, k) PROVE WorkersManaged'
  BY <1>t, <1>9 DEF DeferScope, Turn, own
<1>10. ASSUME NEW p \in Products, BeginShutdown(p) PROVE WorkersManaged'
  BY <1>t, <1>10 DEF BeginShutdown, own
<1>11. ASSUME NEW p \in Products, EndShutdown(p) PROVE WorkersManaged'
  BY <1>t, <1>11 DEF EndShutdown, own
<1>12. CASE UNCHANGED vars
  BY <1>t, <1>12 DEF vars, own
<1> QED
  BY <1>1, <1>2, <1>3, <1>4, <1>5, <1>6, <1>7, <1>8, <1>9, <1>10, <1>11, <1>12 DEF Next,
     ScanStep

\* What a scan waits for stays what it was until the wait is over.
LEMMA YieldsOneStep ==
    ASSUME TInv, [Next]_vars
    PROVE  YieldsOne'
<1>t. IInv /\ Typed /\ YieldsOne
  BY TicketScopes DEF TInv, IInv
<1> USE DEF YieldsOne, Typed
<1>1. ASSUME NEW k \in Scopes, ScopeChanges(k) \/ WorkerDrains(k)
      PROVE  YieldsOne'
  BY <1>t, <1>1 DEF ScopeChanges, WorkerDrains, own
<1>2. ASSUME NEW p \in Products, BeginScan(p) \/ ReadScopes(p) \/ FailScan(p) \/ AbsorbScan(p)
      \/ RetireNext(p) \/ RetireDone(p) \/ YieldDone(p) \/ SkipYield(p) \/ EndScan(p) \/
      BeginShutdown(p) \/ EndShutdown(p)
      PROVE  YieldsOne'
  BY <1>t, <1>2 DEF BeginScan, ReadScopes, FailScan, AbsorbScan, RetireNext, RetireDone,
     YieldDone, SkipYield, EndScan, BeginShutdown, EndShutdown, own
<1>3. ASSUME NEW p \in Products, NEW k \in Owned(p), Wake(p, k) \/ StartWorker(p, k) \/
      DeferScope(p, k)
      PROVE  YieldsOne'
  BY <1>t, <1>3 DEF Wake, Turn, StartWorker, DeferScope, own
<1>4. ASSUME NEW p \in Products, Yield(p) PROVE YieldsOne'
  <2>1. /\ Lowest(Yieldable(p)) \in managed[p] /\ Lowest(Yieldable(p)) \in Scopes
        /\ Owner(Lowest(Yieldable(p))) = p
    BY <1>t, <1>4, YieldsManaged DEF Yield
  <2>2. scan'[p] = "yield_wait" /\ todo'[p] = {Lowest(Yieldable(p))} /\ managed' = managed
    BY <1>t, <1>4 DEF Yield, Typed
  <2>3. \A q \in Products \ {p} : scan'[q] = scan[q] /\ todo'[q] = todo[q]
    BY <1>t, <1>4 DEF Yield, Typed
  <2> QED
    BY <1>t, <2>1, <2>2, <2>3 DEF YieldsOne
<1>5. CASE UNCHANGED vars
  BY <1>t, <1>5 DEF vars, own
<1> QED
  BY <1>1, <1>2, <1>3, <1>4, <1>5 DEF Next, ScanStep

\* A start loop has something to start only if no shutdown has begun.
LEMMA StoppingStep ==
    ASSUME TInv, [Next]_vars
    PROVE  StoppingStartsNothing'
<1>t. Typed /\ StoppingStartsNothing
  BY TicketScopes DEF TInv, IInv
<1> USE DEF StoppingStartsNothing, Typed, AllQuiet
<1>1. ASSUME NEW k \in Scopes, ScopeChanges(k) \/ WorkerDrains(k)
      PROVE  StoppingStartsNothing'
  BY <1>t, <1>1 DEF ScopeChanges, WorkerDrains, own
<1>2. ASSUME NEW p \in Products, BeginScan(p) \/ ReadScopes(p) \/ FailScan(p) \/ AbsorbScan(p)
      \/ RetireNext(p) \/ RetireDone(p) \/ Yield(p) \/ YieldDone(p) \/ SkipYield(p) \/
      EndScan(p) \/ BeginShutdown(p) \/ EndShutdown(p)
      PROVE  StoppingStartsNothing'
  BY <1>t, <1>2 DEF BeginScan, ReadScopes, FailScan, AbsorbScan, RetireNext, RetireDone, Yield,
     YieldDone, SkipYield, EndScan, BeginShutdown, EndShutdown, own
<1>3. ASSUME NEW p \in Products, NEW k \in Owned(p), Wake(p, k) \/ StartWorker(p, k) \/
      DeferScope(p, k)
      PROVE  StoppingStartsNothing'
  BY <1>t, <1>3 DEF Wake, Turn, StartWorker, DeferScope, own
<1>4. CASE UNCHANGED vars
  BY <1>t, <1>4 DEF vars, own
<1> QED
  BY <1>1, <1>2, <1>3, <1>4 DEF Next, ScanStep

\* What a shut down supervisor manages stays nothing.
LEMMA StoppedStep ==
    ASSUME TInv, [Next]_vars
    PROVE  StoppedManagesNothing'
<1>t. Typed /\ StoppedManagesNothing
  BY TicketScopes DEF TInv, IInv
<1> USE DEF StoppedManagesNothing, Typed
<1>1. ASSUME NEW k \in Scopes, ScopeChanges(k) \/ WorkerDrains(k)
      PROVE  StoppedManagesNothing'
  BY <1>t, <1>1 DEF ScopeChanges, WorkerDrains, own
<1>2. ASSUME NEW p \in Products, BeginScan(p) \/ ReadScopes(p) \/ FailScan(p) \/ AbsorbScan(p)
      \/ RetireNext(p) \/ RetireDone(p) \/ Yield(p) \/ YieldDone(p) \/ SkipYield(p) \/
      EndScan(p) \/ BeginShutdown(p) \/ EndShutdown(p)
      PROVE  StoppedManagesNothing'
  BY <1>t, <1>2 DEF BeginScan, ReadScopes, FailScan, AbsorbScan, RetireNext, RetireDone, Yield,
     YieldDone, SkipYield, EndScan, BeginShutdown, EndShutdown, own
<1>3. ASSUME NEW p \in Products, NEW k \in Owned(p), Wake(p, k) \/ StartWorker(p, k) \/
      DeferScope(p, k)
      PROVE  StoppedManagesNothing'
  BY <1>t, <1>3 DEF Wake, Turn, StartWorker, DeferScope, own
<1>4. CASE UNCHANGED vars
  BY <1>t, <1>4 DEF vars, own
<1> QED
  BY <1>1, <1>2, <1>3, <1>4 DEF Next, ScanStep

\* A scope that gets a worker leaves the queue, and one that queues has none
\* that polls.
LEMMA ServedStep ==
    ASSUME TInv, [Next]_vars
    PROVE  NoTicketWhileServed'
<1>t. IInv /\ Typed /\ OneTicketEach /\ NoTicketWhileServed /\ TicketsAreScopes
  BY TicketScopes DEF TInv, IInv
<1> USE DEF NoTicketWhileServed, Typed, TicketsAreScopes
<1>1. ASSUME NEW k \in Scopes, ScopeChanges(k)
      PROVE  NoTicketWhileServed'
  BY <1>t, <1>1, SameTickets DEF ScopeChanges, own
<1>2. ASSUME NEW p \in Products, BeginScan(p) \/ ReadScopes(p) \/ RetireDone(p) \/ YieldDone(p)
      \/ SkipYield(p) \/ EndScan(p)
      PROVE  NoTicketWhileServed'
  BY <1>t, <1>2, SameTickets DEF BeginScan, ReadScopes, RetireDone, YieldDone, SkipYield,
     EndScan, own
<1>3. ASSUME NEW k \in Scopes, WorkerDrains(k) PROVE NoTicketWhileServed'
  BY <1>t, <1>3, SameTickets DEF WorkerDrains, own
<1>4. ASSUME NEW p \in Products, FailScan(p) PROVE NoTicketWhileServed'
  BY <1>t, <1>4, LeftTickets DEF FailScan, own
<1>5. ASSUME NEW p \in Products, AbsorbScan(p) PROVE NoTicketWhileServed'
  BY <1>t, <1>5, LeftTickets DEF AbsorbScan, own
<1>6. ASSUME NEW p \in Products, RetireNext(p) PROVE NoTicketWhileServed'
  <2>1. /\ Lowest(todo[p]) \in managed[p] /\ Lowest(todo[p]) \in Scopes
        /\ Owner(Lowest(todo[p])) = p
    BY <1>t, <1>6, RetiresManagedOne DEF RetireNext
  <2> QED
    BY <1>t, <1>6, <2>1, SameTickets DEF RetireNext
<1>7. ASSUME NEW p \in Products, Yield(p) PROVE NoTicketWhileServed'
  <2>1. /\ Lowest(Yieldable(p)) \in managed[p] /\ Lowest(Yieldable(p)) \in Scopes
        /\ Owner(Lowest(Yieldable(p))) = p
    BY <1>t, <1>7, YieldsManaged DEF Yield
  <2>2. TicketSet' = TicketSet \cup {Lowest(Yieldable(p))}
    BY <1>t, <1>7, <2>1, MoreTickets DEF Yield
  <2> QED
    BY <1>t, <1>7, <2>1, <2>2 DEF Yield
<1>8. ASSUME NEW p \in Products, NEW k \in Owned(p), Wake(p, k) PROVE NoTicketWhileServed'
  BY <1>t, <1>8, LeftTickets DEF Wake, Turn, own
<1>9. ASSUME NEW p \in Products, NEW k \in Owned(p), StartWorker(p, k) PROVE
      NoTicketWhileServed'
  BY <1>t, <1>9, LeftTickets DEF StartWorker, Turn, own
<1>10. ASSUME NEW p \in Products, NEW k \in Owned(p), DeferScope(p, k) PROVE
      NoTicketWhileServed'
  BY <1>t, <1>10, MoreTickets DEF DeferScope, Turn, own, Owned
<1>11. ASSUME NEW p \in Products, BeginShutdown(p) PROVE NoTicketWhileServed'
  BY <1>t, <1>11, LeftTickets DEF BeginShutdown, own
<1>12. ASSUME NEW p \in Products, EndShutdown(p) PROVE NoTicketWhileServed'
  BY <1>t, <1>12, LeftTickets DEF EndShutdown, own
<1>13. CASE UNCHANGED vars
  BY <1>t, <1>13, SameTickets DEF vars, own
<1> QED
  BY <1>1, <1>2, <1>3, <1>4, <1>5, <1>6, <1>7, <1>8, <1>9, <1>10, <1>11, <1>12, <1>13 DEF Next,
     ScanStep

\* A ticket leaves the supervisor's record only with the queue, or while its
\* yield is under way.
LEMMA OrphanStep ==
    ASSUME TInv, [Next]_vars
    PROVE  NoOrphanTicket'
<1>t. IInv /\ Typed /\ Records /\ OneTicketEach /\ YieldsOne /\ NoOrphanTicket /\
      TicketsAreScopes
  BY TicketScopes DEF TInv, IInv
<1> USE DEF NoOrphanTicket, Typed, Records, TicketsAreScopes
<1>1. ASSUME NEW k \in Scopes, ScopeChanges(k) \/ WorkerDrains(k)
      PROVE  NoOrphanTicket'
  BY <1>t, <1>1, SameTickets DEF ScopeChanges, WorkerDrains, own
<1>2. ASSUME NEW p \in Products, BeginScan(p) \/ ReadScopes(p) \/ RetireNext(p) \/ RetireDone(p)
      \/ SkipYield(p) \/ EndScan(p)
      PROVE  NoOrphanTicket'
  BY <1>t, <1>2, SameTickets DEF BeginScan, ReadScopes, RetireNext, RetireDone, SkipYield,
     EndScan, own
<1>3. ASSUME NEW p \in Products, FailScan(p) PROVE NoOrphanTicket'
  BY <1>t, <1>3, LeftTickets DEF FailScan, own
<1>4. ASSUME NEW p \in Products, AbsorbScan(p) PROVE NoOrphanTicket'
  BY <1>t, <1>4, LeftTickets DEF AbsorbScan, own
<1>5. ASSUME NEW p \in Products, Yield(p) PROVE NoOrphanTicket'
  <2>1. /\ Lowest(Yieldable(p)) \in managed[p] /\ Lowest(Yieldable(p)) \in Scopes
        /\ Owner(Lowest(Yieldable(p))) = p
    BY <1>t, <1>5, YieldsManaged DEF Yield
  <2>2. TicketSet' = TicketSet \cup {Lowest(Yieldable(p))}
    BY <1>t, <1>5, <2>1, MoreTickets DEF Yield
  <2> QED
    BY <1>t, <1>5, <2>1, <2>2 DEF Yield
<1>6. ASSUME NEW p \in Products, YieldDone(p) PROVE NoOrphanTicket'
  <2>1. /\ todo[p] = {Lowest(todo[p])} /\ Lowest(todo[p]) \in managed[p]
        /\ Lowest(todo[p]) \in Scopes /\ Owner(Lowest(todo[p])) = p
    BY <1>t, <1>6, YieldAwaits DEF YieldDone
  <2> QED
    BY <1>t, <1>6, <2>1, SameTickets DEF YieldDone
<1>7. ASSUME NEW p \in Products, NEW k \in Owned(p), Wake(p, k) PROVE NoOrphanTicket'
  BY <1>t, <1>7, LeftTickets DEF Wake, Turn, own
<1>8. ASSUME NEW p \in Products, NEW k \in Owned(p), StartWorker(p, k) PROVE NoOrphanTicket'
  BY <1>t, <1>8, LeftTickets DEF StartWorker, Turn, own
<1>9. ASSUME NEW p \in Products, NEW k \in Owned(p), DeferScope(p, k) PROVE NoOrphanTicket'
  BY <1>t, <1>9, MoreTickets DEF DeferScope, Turn, own, Owned
<1>10. ASSUME NEW p \in Products, BeginShutdown(p) PROVE NoOrphanTicket'
  <2>1. TicketSet' = TicketSet \ (managed[p] \cup demanded[p])
    BY <1>t, <1>10, LeftTickets DEF BeginShutdown
  <2>2. scan[p] = "yield_wait" => todo[p] \subseteq managed[p]
    BY <1>t DEF YieldsOne
  <2> QED
    BY <1>t, <1>10, <2>1, <2>2 DEF BeginShutdown
<1>11. ASSUME NEW p \in Products, EndShutdown(p) PROVE NoOrphanTicket'
  BY <1>t, <1>11, LeftTickets DEF EndShutdown, own
<1>12. CASE UNCHANGED vars
  BY <1>t, <1>12, SameTickets DEF vars, own
<1> QED
  BY <1>1, <1>2, <1>3, <1>4, <1>5, <1>6, <1>7, <1>8, <1>9, <1>10, <1>11, <1>12 DEF Next,
     ScanStep

\* A shutdown cancels what the supervisor waits for, and nothing it does
\* afterwards queues.
LEMMA StoppingTicketsStep ==
    ASSUME TInv, [Next]_vars
    PROVE  StoppingHoldsNoTicket'
<1>t. IInv /\ Typed /\ OneTicketEach /\ YieldsOne /\ StoppingStartsNothing /\ NoOrphanTicket /\
      StoppingHoldsNoTicket /\ TicketsAreScopes
  BY TicketScopes DEF TInv, IInv
<1> USE DEF StoppingHoldsNoTicket, Typed, TicketsAreScopes
<1>1. ASSUME NEW k \in Scopes, ScopeChanges(k) \/ WorkerDrains(k)
      PROVE  StoppingHoldsNoTicket'
  BY <1>t, <1>1, SameTickets DEF ScopeChanges, WorkerDrains, own
<1>2. ASSUME NEW p \in Products, BeginScan(p) \/ ReadScopes(p) \/ RetireNext(p) \/ RetireDone(p)
      \/ YieldDone(p) \/ SkipYield(p) \/ EndScan(p)
      PROVE  StoppingHoldsNoTicket'
  BY <1>t, <1>2, SameTickets DEF BeginScan, ReadScopes, RetireNext, RetireDone, YieldDone,
     SkipYield, EndScan, own
<1>3. ASSUME NEW p \in Products, FailScan(p) PROVE StoppingHoldsNoTicket'
  BY <1>t, <1>3, LeftTickets DEF FailScan, own
<1>4. ASSUME NEW p \in Products, AbsorbScan(p) PROVE StoppingHoldsNoTicket'
  BY <1>t, <1>4, LeftTickets DEF AbsorbScan, own
<1>5. ASSUME NEW p \in Products, Yield(p) PROVE StoppingHoldsNoTicket'
  <2>1. /\ Lowest(Yieldable(p)) \in managed[p] /\ Lowest(Yieldable(p)) \in Scopes
        /\ Owner(Lowest(Yieldable(p))) = p
    BY <1>t, <1>5, YieldsManaged DEF Yield
  <2>2. TicketSet' = TicketSet \cup {Lowest(Yieldable(p))}
    BY <1>t, <1>5, <2>1, MoreTickets DEF Yield
  <2> QED
    BY <1>t, <1>5, <2>1, <2>2 DEF Yield
<1>6. ASSUME NEW p \in Products, NEW k \in Owned(p), Wake(p, k) PROVE StoppingHoldsNoTicket'
  BY <1>t, <1>6, LeftTickets DEF Wake, Turn, own
<1>7. ASSUME NEW p \in Products, NEW k \in Owned(p), StartWorker(p, k) PROVE
      StoppingHoldsNoTicket'
  BY <1>t, <1>7, LeftTickets DEF StartWorker, Turn, own
<1>8. ASSUME NEW p \in Products, NEW k \in Owned(p), DeferScope(p, k) PROVE
      StoppingHoldsNoTicket'
  <2>1. ~stopping[p] /\ k \in Scopes /\ Owner(k) = p
    BY <1>t, <1>8 DEF DeferScope, Turn, StoppingStartsNothing, Owned
  <2>2. TicketSet' = TicketSet \cup {k}
    BY <1>t, <1>8, <2>1, MoreTickets DEF DeferScope
  <2> QED
    BY <1>t, <1>8, <2>1, <2>2 DEF DeferScope, Turn
<1>9. ASSUME NEW p \in Products, BeginShutdown(p) PROVE StoppingHoldsNoTicket'
  <2>1. TicketSet' = TicketSet \ (managed[p] \cup demanded[p])
    BY <1>t, <1>9, LeftTickets DEF BeginShutdown
  <2>2. scan[p] = "yield_wait" => todo[p] \subseteq managed[p]
    BY <1>t DEF YieldsOne
  <2>3. \A k \in TicketSet' : Owner(k) # p
    BY <1>t, <2>1, <2>2 DEF NoOrphanTicket
  <2> QED
    BY <1>t, <1>9, <2>1, <2>3 DEF BeginShutdown
<1>10. ASSUME NEW p \in Products, EndShutdown(p) PROVE StoppingHoldsNoTicket'
  BY <1>t, <1>10, LeftTickets DEF EndShutdown, own
<1>11. CASE UNCHANGED vars
  BY <1>t, <1>11, SameTickets DEF vars, own
<1> QED
  BY <1>1, <1>2, <1>3, <1>4, <1>5, <1>6, <1>7, <1>8, <1>9, <1>10, <1>11 DEF Next, ScanStep

-----------------------------------------------------------------------------
\* The queue is empty.
LEMMA TInit == Init => TInv
<1> SUFFICES ASSUME Init PROVE TInv
  OBVIOUS
<1>1. IInv
  BY InitIInv
<1>2. OneTicketEach /\ TicketSet = {}
  BY DEF Init, OneTicketEach, TicketSet, Distinct
<1>3. Records
  BY CapacityAssumption DEF Init, Records, CapacityAssumption
<1>4. WorkersManaged /\ YieldsOne /\ StoppingStartsNothing /\ StoppedManagesNothing
  BY DEF Init, WorkersManaged, YieldsOne, StoppingStartsNothing, StoppedManagesNothing
<1> QED
  BY <1>1, <1>2, <1>3, <1>4
  DEF TInv, NoTicketWhileServed, NoOrphanTicket, StoppingHoldsNoTicket

\* Every step keeps the invariant of the tickets.
LEMMA TNext == TInv /\ [Next]_vars => TInv'
<1> SUFFICES ASSUME TInv, [Next]_vars PROVE TInv'
  OBVIOUS
<1>1. IInv'
  BY NextIInv DEF TInv
<1> QED
  BY <1>1, TicketsStep, RecordsStep, WorkersManagedStep, YieldsOneStep, StoppingStep,
     StoppedStep, ServedStep, OrphanStep, StoppingTicketsStep DEF TInv

\* The inductive invariant of the tickets: what the limiter queues, what the
\* supervisors record and which workers they manage agree at every step.
THEOREM TicketsInvariant == Spec => []TInv
BY TInit, TNext, PTL DEF Spec

\* Whatever scans, failures, yields and shutdowns overlap: every ticket is of a
\* scope without a worker and is kept by a supervisor that will use or cancel
\* it, and a supervisor that has shut down leaves neither ticket nor worker.
THEOREM TicketsHoldAlways == Spec => []TicketsHold
<1>1. TInv => TicketsHold
  <2> SUFFICES ASSUME TInv PROVE TicketsHold
    OBVIOUS
  <2>1. Len(demands) <= Cardinality(Scopes)
    BY DistinctIsShort, CapacityAssumption DEF TInv, OneTicketEach, CapacityAssumption
  <2>2. TypeOK
    BY <2>1 DEF TInv, IInv, Typed, Records, OneTicketEach, TypeOK, WorkerStates
  <2>3. StoppedLeavesNothing
    BY DEF TInv, StoppedManagesNothing, WorkersManaged, StoppingHoldsNoTicket, Owned,
           StoppedLeavesNothing, IInv, Typed
  <2> QED
    BY <2>2, <2>3 DEF TInv, TicketsHold
<1> QED
  BY <1>1, TicketsInvariant, PTL

-----------------------------------------------------------------------------
(* The loop of one worker: what its microtasks have still to do, whose     *)
(* turn it is, and what its closing leaves behind.                         *)

\* The microtasks of a worker: at most one of them is a finally(), and a poll
\* that stands last outlives whatever else is there.
HasFinally(s) == "finally" \in Loop!Elements(s)
OneFinally(s) ==
    \A i, j \in 1 .. Len(s) : s[i] = "finally" /\ s[j] = "finally" => i = j
EndsPolling(s) == s # <<>> /\ s[Len(s)] = "poll"
TaskSeq == Seq({"poll", "finally"})

\* A wake that no pass has begun after is seen by the drain under way, at its
\* end, or by the poll that is the last of the microtasks.
WakeComes ==
    owed => /\ Loop!Started
            /\ at # "nowhere" => wakeRequested
            /\ at = "nowhere" => EndsPolling(tasks)

\* The two queues take turns: projections go first, by one at most.
ProjectionNext ==
    at = "projection" =>
        /\ Loop!MoreProjections(projections)
        /\ Loop!MoreCommands(commands) => projections.claims <= commands.claims
        /\ commands.claims <= projections.claims

CommandNext ==
    at \in {"command", "handler"} =>
        /\ Loop!MoreCommands(commands)
        /\ projections.claims <= commands.claims + 1
        /\ Loop!MoreProjections(projections) => commands.claims < projections.claims

Holding == mine # NoRun <=> at = "handler"

Phases ==
    /\ closing # "open" <=> phase = "terminated"
    /\ phase = "new" => tasks = <<>> /\ ~draining /\ at = "nowhere"
    /\ closing = "closed" => ~draining

\* A worker that closes has claimed nothing late while a claim is in flight.
Lateness ==
    /\ late <= 1
    /\ ~Loop!Started /\ at \in {"projection", "command"} => late = 0

Shape ==
    /\ at # "nowhere" => draining
    /\ draining <=> at # "nowhere" \/ HasFinally(tasks)
    /\ ~(at # "nowhere" /\ HasFinally(tasks))
    /\ OneFinally(tasks)

\* The types, the Booleans by themselves.
LoopTyped ==
    /\ phase \in {"new", "started", "terminated"}
    /\ closing \in {"open", "retiring", "stopping", "closed"}
    /\ tasks \in TaskSeq
    /\ at \in {"nowhere", "reconcile", "projection", "command", "handler", "inspect"}

Flags ==
    /\ draining \in BOOLEAN /\ wakeRequested \in BOOLEAN /\ policy \in BOOLEAN
    /\ backlog \in BOOLEAN /\ owed \in BOOLEAN

Tallies == late \in Nat /\ errors \in Nat /\ closings \in Nat /\ deaths \in Nat

BudgetsTyped ==
    /\ projections \in [claims : 0 .. MaxProjections, drained : BOOLEAN]
    /\ commands \in [claims : 0 .. MaxClaims, drained : BOOLEAN]

RowsTyped ==
    /\ mine \in Runs \cup {NoRun}
    /\ queued \in Seq(Runs) /\ expired \in Seq(Runs)
    /\ later \subseteq Runs /\ orphans \subseteq Runs /\ finished \subseteq Runs

LoopInv ==
    /\ LoopTyped /\ Flags /\ Tallies /\ BudgetsTyped /\ RowsTyped
    /\ Shape /\ WakeComes /\ Phases /\ Holding /\ Lateness
    /\ ProjectionNext /\ CommandNext

\* A microtask more: at most one `finally` if there was none, and a poll behind it.
LEMMA AppendTask ==
  ASSUME NEW s \in TaskSeq, NEW x \in {"poll", "finally"}
  PROVE  /\ Append(s, x) \in TaskSeq /\ Append(s, x) # <<>>
         /\ HasFinally(Append(s, x)) <=> HasFinally(s) \/ x = "finally"
         /\ OneFinally(s) /\ (x = "poll" \/ ~HasFinally(s)) => OneFinally(Append(s, x))
         /\ x = "poll" => EndsPolling(Append(s, x))
<1> DEFINE t == Append(s, x)
<1>1. /\ t \in TaskSeq /\ t # <<>> /\ Len(t) = Len(s) + 1 /\ t[Len(s) + 1] = x /\ Len(s) \in Nat
      /\ \A i \in 1 .. Len(s) : t[i] = s[i]
  BY DEF TaskSeq
<1>2. 1 .. Len(t) = (1 .. Len(s)) \cup {Len(s) + 1}
  BY <1>1
<1> HIDE DEF t
<1>3. HasFinally(t) <=> HasFinally(s) \/ x = "finally"
  <2>1. Loop!Elements(t) = Loop!Elements(s) \cup {x}
    BY <1>1, <1>2 DEF Loop!Elements
  <2> QED
    BY <2>1 DEF HasFinally
<1>4. ASSUME OneFinally(s), x = "poll" \/ ~HasFinally(s) PROVE OneFinally(t)
  <2>1. ASSUME NEW i \in 1 .. Len(t), NEW j \in 1 .. Len(t), t[i] = "finally", t[j] = "finally"
        PROVE  i = j
    <3>1. CASE x = "poll"
      BY <3>1, <2>1, <1>1, <1>2, <1>4 DEF OneFinally
    <3>2. CASE ~HasFinally(s)
      <4>1. \A k \in 1 .. Len(s) : s[k] # "finally"
        BY <3>2 DEF HasFinally, Loop!Elements
      <4> QED
        BY <4>1, <2>1, <1>1, <1>2
    <3> QED
      BY <1>4, <3>1, <3>2
  <2> QED
    BY <2>1 DEF OneFinally
<1>5. x = "poll" => EndsPolling(t)
  BY <1>1 DEF EndsPolling
<1> QED
  BY <1>1, <1>3, <1>4, <1>5 DEF t

\* A microtask less.
LEMMA TailTask ==
  ASSUME NEW s \in TaskSeq, s # <<>>, OneFinally(s)
  PROVE  /\ Tail(s) \in TaskSeq /\ OneFinally(Tail(s))
         /\ Head(s) = "poll" => (HasFinally(Tail(s)) <=> HasFinally(s))
         /\ Head(s) = "finally" => ~HasFinally(Tail(s)) /\ HasFinally(s)
         /\ EndsPolling(s) /\ HasFinally(s) => EndsPolling(Tail(s))
<1> DEFINE t == Tail(s)
<1>1. /\ t \in TaskSeq /\ Len(s) \in Nat /\ Len(s) # 0 /\ Len(t) = Len(s) - 1 /\ Head(s) = s[1]
      /\ \A i \in 1 .. Len(t) : t[i] = s[i + 1]
  BY DEF TaskSeq
<1> HIDE DEF t
<1>2. \A i \in 1 .. Len(t) : i + 1 \in 1 .. Len(s)
  BY <1>1
<1>3. OneFinally(t)
  <2>1. ASSUME NEW i \in 1 .. Len(t), NEW j \in 1 .. Len(t), t[i] = "finally", t[j] = "finally"
        PROVE  i = j
    <3>1. i + 1 = j + 1
      BY <1>1, <1>2, <2>1 DEF OneFinally
    <3> QED
      BY <3>1
  <2> QED
    BY <2>1 DEF OneFinally
<1>4. \A i \in 1 .. Len(s) : i = 1 \/ (i - 1 \in 1 .. Len(t) /\ s[i] = t[i - 1])
  BY <1>1
<1>5. Loop!Elements(s) = Loop!Elements(t) \cup {Head(s)}
  <2>1. Loop!Elements(s) \subseteq Loop!Elements(t) \cup {Head(s)}
    BY <1>1, <1>4 DEF Loop!Elements
  <2>2. Loop!Elements(t) \subseteq Loop!Elements(s)
    BY <1>1, <1>2 DEF Loop!Elements
  <2>3. 1 \in 1 .. Len(s)
    BY <1>1
  <2>4. Head(s) \in Loop!Elements(s)
    BY <1>1, <2>3 DEF Loop!Elements
  <2> QED
    BY <2>1, <2>2, <2>4
<1>6. Head(s) = "finally" => ~HasFinally(t)
  <2>1. ASSUME Head(s) = "finally", NEW i \in 1 .. Len(t), t[i] = "finally" PROVE FALSE
    <3>1. 1 \in 1 .. Len(s) /\ i + 1 \in 1 .. Len(s) /\ i + 1 # 1
      BY <1>1, <1>2
    <3> QED
      BY <1>1, <2>1, <3>1 DEF OneFinally
  <2> QED
    BY <2>1 DEF HasFinally, Loop!Elements
<1>7. EndsPolling(s) /\ HasFinally(s) => EndsPolling(t)
  <2> SUFFICES ASSUME EndsPolling(s), HasFinally(s) PROVE EndsPolling(t)
    OBVIOUS
  <2>1. PICK i \in 1 .. Len(s) : s[i] = "finally"
    BY DEF HasFinally, Loop!Elements
  <2>2. i # Len(s)
    BY <2>1 DEF EndsPolling
  <2>3. Len(t) \in 1 .. Len(t) /\ Len(t) + 1 = Len(s)
    BY <1>1, <2>1, <2>2
  <2>4. t # <<>> /\ t[Len(t)] = s[Len(s)]
    BY <1>1, <2>3
  <2> QED
    BY <2>4 DEF EndsPolling
<1> QED
  BY <1>1, <1>3, <1>5, <1>6, <1>7 DEF t, HasFinally

\* The empty queue of microtasks.
LEMMA EmptyTasks == <<>> \in TaskSeq /\ ~HasFinally(<<>>) /\ OneFinally(<<>>)
BY DEF TaskSeq, HasFinally, OneFinally, Loop!Elements

\* The poll that ends the queue is gone only when it was the whole queue.
LEMMA SingleTask ==
  ASSUME NEW s \in TaskSeq, EndsPolling(s), ~EndsPolling(Tail(s))
  PROVE  Tail(s) = <<>>
<1>1. Len(s) \in Nat /\ Len(s) # 0 /\ Tail(s) \in TaskSeq /\ Len(Tail(s)) = Len(s) - 1
      /\ \A i \in 1 .. Len(s) - 1 : Tail(s)[i] = s[i + 1]
  BY DEF TaskSeq, EndsPolling
<1>2. CASE Len(s) = 1
  <2>1. Len(Tail(s)) = 0
    BY <1>1, <1>2
  <2> QED
    BY <1>1, <2>1, EmptySeq DEF TaskSeq
<1>3. CASE Len(s) # 1
  BY <1>1, <1>3 DEF EndsPolling, TaskSeq
<1> QED
  BY <1>2, <1>3

Limits == MaxClaims \in Nat \ {0} /\ MaxProjections \in Nat \ {0} /\ NoRun \notin Runs
\* What the loop's own theorems need of its constants.
LEMMA LimitsAre == Limits
BY LoopIs DEF Limits, Loop!LoopAssumption

\* A poll, whatever the microtasks after it are.
LEMMA PollShape ==
  ASSUME LoopTyped, Flags, Shape, NEW rest \in TaskSeq, OneFinally(rest),
         HasFinally(rest) <=> HasFinally(tasks), Loop!PollBody(rest)
  PROVE  Shape'
<1> USE DEF LoopTyped, Flags, Shape
<1>1. CASE ~Loop!Started \/ draining
  <2>1. draining' = draining /\ at' = at /\ tasks' = rest
    BY <1>1 DEF Loop!PollBody
  <2> QED
    BY <2>1
<1>2. CASE Loop!Started /\ ~draining
  <2>1. draining' = TRUE /\ ~HasFinally(rest)
    BY <1>2 DEF Loop!PollBody
  <2>2. CASE policy
    <3>1. at' = "reconcile" /\ tasks' = rest
      BY <1>2, <2>2 DEF Loop!PollBody, Loop!BeginPass
    <3> QED
      BY <2>1, <3>1
  <2>3. CASE ~policy
    <3>1. at' = "nowhere" /\ tasks' = Append(rest, "finally")
      BY <1>2, <2>3 DEF Loop!PollBody, Loop!BeginPass
    <3>2. OneFinally(tasks') /\ HasFinally(tasks')
      BY <2>1, <3>1, AppendTask
    <3> QED
      BY <2>1, <3>1, <3>2
  <2> QED
    BY <2>2, <2>3
<1> QED
  BY <1>1, <1>2

\* The end of a pass: another one, or the finally() that is to come.
LEMMA EndShape ==
  ASSUME LoopTyped, Flags, Shape, Loop!EndPass
  PROVE  Shape'
<1> USE DEF LoopTyped, Flags, Shape
<1>1. draining' = draining /\ draining = TRUE /\ ~HasFinally(tasks) /\ OneFinally(tasks)
  BY DEF Loop!EndPass
<1>2. \/ at' = "reconcile" /\ tasks' = tasks
      \/ at' = "nowhere" /\ tasks' = Append(tasks, "finally")
  BY DEF Loop!EndPass, Loop!BeginPass
<1>3. CASE at' = "reconcile" /\ tasks' = tasks
  BY <1>1, <1>3
<1>4. CASE at' = "nowhere" /\ tasks' = Append(tasks, "finally")
  <2>1. OneFinally(tasks') /\ HasFinally(tasks')
    BY <1>1, <1>4, AppendTask
  <2> QED
    BY <1>1, <1>4, <2>1
<1> QED
  BY <1>2, <1>3, <1>4

\* The run that is claimed is one of the scope.
LEMMA CandidateRun == RowsTyped /\ Loop!HasWork => Loop!Candidate \in Runs
BY DEF RowsTyped, Loop!HasWork, Loop!Candidate

\* Rows taken out of a queue leave a queue of rows.
LEMMA LeftQueues ==
  ASSUME RowsTyped, NEW S
  PROVE  Loop!Without(queued, S) \in Seq(Runs) /\ Loop!Without(expired, S) \in Seq(Runs)
<1>1. \A q : Loop!Without(q, S) = Without(q, S)
  BY DEF Loop!Without, Without
<1> QED
  BY <1>1, WithoutFacts DEF RowsTyped

\* The worker's own variables keep their types.
LEMMA LoopTypedStep ==
    ASSUME LoopInv, [Loop!Next]_(Loop!vars)
    PROVE  LoopTyped'
<1>t. LoopTyped /\ Flags /\ Shape
  BY LimitsAre DEF LoopInv
<1> USE DEF Loop!worker, Loop!rows, Loop!bounds, LoopTyped
<1>1. CASE Loop!Closed \/ Loop!ClaimCommand \/ Loop!ProjectionsDue \/ Loop!PolicyChanges
  BY <1>t, <1>1 DEF Loop!Closed, Loop!ClaimCommand, Loop!ClaimedLate, Loop!ProjectionsDue,
    Loop!PolicyChanges
<1>2. CASE Loop!Start
  BY <1>t, <1>2, AppendTask DEF Loop!Start
<1>3. CASE Loop!Wake
  BY <1>t, <1>3, AppendTask DEF Loop!Wake
<1>4. CASE Loop!Retire
  BY <1>t, <1>4 DEF Loop!Retire
<1>5. CASE Loop!Stop
  BY <1>t, <1>5 DEF Loop!Stop
<1>6. CASE Loop!Replace
  BY <1>t, <1>6, EmptyTasks DEF Loop!Replace, Loop!FreshWorker, Loop!Fresh
<1>7. CASE Loop!Die
  BY <1>t, <1>7, EmptyTasks DEF Loop!Die, Loop!FreshWorker, Loop!Fresh
<1>8. CASE Loop!PollTask
  BY <1>t, <1>8, AppendTask, TailTask DEF Loop!PollTask, Loop!PollBody, Loop!BeginPass, Shape
<1>9. CASE Loop!FinallyTask
  BY <1>t, <1>9, TailTask DEF Loop!FinallyTask, Shape
<1>10. CASE Loop!Tick
  <2>1. phase' = phase /\ closing' = closing /\ at' \in {at, "reconcile", "nowhere"}
    BY <1>t, <1>10 DEF Loop!Tick, Loop!PollBody, Loop!BeginPass
  <2>2. tasks' = <<>> \/ tasks' = Append(<<>>, "finally")
    BY <1>t, <1>10 DEF Loop!Tick, Loop!PollBody, Loop!BeginPass
  <2>3. tasks' \in TaskSeq
    <3>1. <<>> \in TaskSeq /\ Append(<<>>, "finally") \in TaskSeq
      BY DEF TaskSeq
    <3> QED
      BY <2>2, <3>1
  <2> QED
    BY <1>t, <2>1, <2>3
<1>11. CASE Loop!Reconciled
  BY <1>t, <1>11 DEF Loop!Reconciled, Loop!LoopTop
<1>12. CASE Loop!ProjectionTurn
  BY <1>t, <1>12 DEF Loop!ProjectionTurn, Loop!ClaimedLate, Loop!LoopTop, Loop!AfterProjection
<1>13. CASE Loop!ClaimSuspended
  BY <1>t, <1>13 DEF Loop!ClaimSuspended, Loop!ClaimedLate, Loop!LoopTop
<1>14. CASE Loop!NoCommand
  BY <1>t, <1>14 DEF Loop!NoCommand, Loop!LoopTop
<1>15. CASE Loop!HandlerEnds
  BY <1>t, <1>15 DEF Loop!HandlerEnds, Loop!LoopTop
<1>16. CASE Loop!EndPass
  BY <1>t, <1>16, AppendTask DEF Loop!EndPass, Loop!BeginPass
<1>17. ASSUME NEW r \in Runs, Loop!Arrive(r) \/ Loop!Expire(r) PROVE LoopTyped'
  BY <1>t, <1>17 DEF Loop!Arrive, Loop!Expire
<1>18. CASE UNCHANGED Loop!vars
  BY <1>t, <1>18 DEF Loop!vars
<1> QED
  BY <1>1, <1>2, <1>3, <1>4, <1>5, <1>6, <1>7, <1>8, <1>9, <1>10, <1>11, <1>12, <1>13, <1>14,
    <1>15, <1>16, <1>17, <1>18 DEF Loop!Next, Loop!Microtask, Loop!DrainStep

\* The flags of the worker keep their types.
LEMMA FlagsStep ==
    ASSUME LoopInv, [Loop!Next]_(Loop!vars)
    PROVE  Flags'
<1>t. Flags
  BY LimitsAre DEF LoopInv
<1> USE DEF Loop!worker, Loop!rows, Loop!bounds, Flags
<1>1. CASE Loop!Start \/ Loop!Wake \/ Loop!Retire \/ Loop!Stop \/ Loop!Closed \/ Loop!Replace \/
      Loop!Die \/ Loop!PollTask \/ Loop!FinallyTask \/ Loop!Tick \/ Loop!Reconciled \/
      Loop!ProjectionTurn \/ Loop!ClaimCommand \/ Loop!ClaimSuspended \/ Loop!NoCommand \/
      Loop!HandlerEnds \/ Loop!EndPass \/ Loop!ProjectionsDue \/ Loop!PolicyChanges
  BY <1>t, <1>1 DEF Loop!Start, Loop!Wake, Loop!Retire, Loop!Stop, Loop!Closed, Loop!Replace,
    Loop!FreshWorker, Loop!Fresh, Loop!Die, Loop!PollTask, Loop!PollBody, Loop!BeginPass,
    Loop!FinallyTask, Loop!Tick, Loop!Reconciled, Loop!ProjectionTurn, Loop!ClaimedLate,
    Loop!ClaimCommand, Loop!ClaimSuspended, Loop!NoCommand, Loop!HandlerEnds, Loop!EndPass,
    Loop!ProjectionsDue, Loop!PolicyChanges
<1>2. ASSUME NEW r \in Runs, Loop!Arrive(r) \/ Loop!Expire(r) PROVE Flags'
  BY <1>t, <1>2 DEF Loop!Arrive, Loop!Expire
<1>3. CASE UNCHANGED Loop!vars
  BY <1>t, <1>3 DEF Loop!vars
<1> QED
  BY <1>1, <1>2, <1>3 DEF Loop!Next, Loop!Microtask, Loop!DrainStep

\* The counters keep their types.
LEMMA TalliesStep ==
    ASSUME LoopInv, [Loop!Next]_(Loop!vars)
    PROVE  Tallies'
<1>t. Tallies
  BY LimitsAre DEF LoopInv
<1> USE DEF Loop!worker, Loop!rows, Loop!bounds, Tallies
<1>1. CASE Loop!Start \/ Loop!Wake \/ Loop!Retire \/ Loop!Stop \/ Loop!Closed \/ Loop!Replace \/
      Loop!Die \/ Loop!PollTask \/ Loop!FinallyTask \/ Loop!Tick \/ Loop!Reconciled \/
      Loop!ProjectionTurn \/ Loop!ClaimCommand \/ Loop!ClaimSuspended \/ Loop!NoCommand \/
      Loop!HandlerEnds \/ Loop!EndPass \/ Loop!ProjectionsDue \/ Loop!PolicyChanges
  BY <1>t, <1>1 DEF Loop!Start, Loop!Wake, Loop!Retire, Loop!Stop, Loop!Closed, Loop!Replace,
    Loop!FreshWorker, Loop!Fresh, Loop!Die, Loop!PollTask, Loop!PollBody, Loop!BeginPass,
    Loop!FinallyTask, Loop!Tick, Loop!Reconciled, Loop!ProjectionTurn, Loop!ClaimedLate,
    Loop!ClaimCommand, Loop!ClaimSuspended, Loop!NoCommand, Loop!HandlerEnds, Loop!EndPass,
    Loop!ProjectionsDue, Loop!PolicyChanges
<1>2. ASSUME NEW r \in Runs, Loop!Arrive(r) \/ Loop!Expire(r) PROVE Tallies'
  BY <1>t, <1>2 DEF Loop!Arrive, Loop!Expire
<1>3. CASE UNCHANGED Loop!vars
  BY <1>t, <1>3 DEF Loop!vars
<1> QED
  BY <1>1, <1>2, <1>3 DEF Loop!Next, Loop!Microtask, Loop!DrainStep

\* A drain has one finally() to come, after its last await.
LEMMA ShapeStep ==
    ASSUME LoopInv, [Loop!Next]_(Loop!vars)
    PROVE  Shape'
<1>t. LoopTyped /\ Flags /\ Shape /\ Phases
  BY LimitsAre DEF LoopInv
<1> USE DEF Loop!worker, Loop!rows, Loop!bounds, LoopTyped, Shape
<1>1. CASE Loop!Retire \/ Loop!Stop \/ Loop!Closed \/ Loop!ClaimCommand \/ Loop!ProjectionsDue
      \/ Loop!PolicyChanges
  BY <1>t, <1>1 DEF Loop!Retire, Loop!Stop, Loop!Closed, Loop!ClaimCommand, Loop!ClaimedLate,
    Loop!ProjectionsDue, Loop!PolicyChanges
<1>2. CASE Loop!Start
  BY <1>t, <1>2, AppendTask DEF Loop!Start
<1>3. CASE Loop!Wake
  BY <1>t, <1>3, AppendTask DEF Loop!Wake
<1>4. CASE Loop!Replace
  BY <1>t, <1>4, EmptyTasks DEF Loop!Replace, Loop!FreshWorker, Loop!Fresh
<1>5. CASE Loop!Die
  BY <1>t, <1>5, EmptyTasks DEF Loop!Die, Loop!FreshWorker, Loop!Fresh
<1>6. CASE Loop!PollTask
  <2>1. /\ tasks # <<>> /\ Tail(tasks) \in TaskSeq /\ OneFinally(Tail(tasks))
        /\ HasFinally(Tail(tasks)) <=> HasFinally(tasks)
    BY <1>t, <1>6, TailTask DEF Loop!PollTask
  <2> QED
    BY <1>t, <1>6, <2>1, PollShape DEF Loop!PollTask
<1>7. CASE Loop!FinallyTask
  BY <1>t, <1>7, TailTask DEF Loop!FinallyTask
<1>8. CASE Loop!Tick
  <2>1. tasks = <<>> /\ Loop!PollBody(<<>>)
    BY <1>8 DEF Loop!Tick
  <2> QED
    BY <1>t, <2>1, EmptyTasks, PollShape
<1>9. CASE Loop!Reconciled
  BY <1>t, <1>9 DEF Loop!Reconciled, Loop!LoopTop
<1>10. CASE Loop!ProjectionTurn
  BY <1>t, <1>10 DEF Loop!ProjectionTurn, Loop!ClaimedLate, Loop!LoopTop, Loop!AfterProjection
<1>11. CASE Loop!ClaimSuspended
  BY <1>t, <1>11 DEF Loop!ClaimSuspended, Loop!ClaimedLate, Loop!LoopTop
<1>12. CASE Loop!NoCommand
  BY <1>t, <1>12 DEF Loop!NoCommand, Loop!LoopTop
<1>13. CASE Loop!HandlerEnds
  BY <1>t, <1>13 DEF Loop!HandlerEnds, Loop!LoopTop
<1>14. CASE Loop!EndPass
  BY <1>t, <1>14, EndShape DEF Loop!EndPass, Loop!BeginPass
<1>15. ASSUME NEW r \in Runs, Loop!Arrive(r) \/ Loop!Expire(r) PROVE Shape'
  BY <1>t, <1>15 DEF Loop!Arrive, Loop!Expire
<1>16. CASE UNCHANGED Loop!vars
  BY <1>t, <1>16 DEF Loop!vars
<1> QED
  BY <1>1, <1>2, <1>3, <1>4, <1>5, <1>6, <1>7, <1>8, <1>9, <1>10, <1>11, <1>12, <1>13, <1>14,
    <1>15, <1>16 DEF Loop!Next, Loop!Microtask, Loop!DrainStep

\* A wake stays asked for until a pass begins.
LEMMA OwedStep ==
    ASSUME LoopInv, [Loop!Next]_(Loop!vars)
    PROVE  WakeComes'
<1>t. LoopTyped /\ Flags /\ Shape /\ Phases /\ WakeComes
  BY LimitsAre DEF LoopInv
<1> USE DEF Loop!worker, Loop!rows, Loop!bounds, LoopTyped, Shape, WakeComes, Loop!Started
<1>1. CASE Loop!ClaimCommand \/ Loop!ProjectionsDue \/ Loop!PolicyChanges
  BY <1>t, <1>1 DEF Loop!ClaimCommand, Loop!ClaimedLate, Loop!ProjectionsDue, Loop!PolicyChanges
<1>2. CASE Loop!Start
  BY <1>t, <1>2, AppendTask DEF Loop!Start
<1>3. CASE Loop!Wake
  BY <1>t, <1>3, AppendTask DEF Loop!Wake
<1>4. CASE Loop!Retire
  BY <1>t, <1>4 DEF Loop!Retire
<1>5. CASE Loop!Stop
  BY <1>t, <1>5 DEF Loop!Stop
<1>6. CASE Loop!Closed
  BY <1>t, <1>6 DEF Loop!Closed
<1>7. CASE Loop!Replace
  BY <1>t, <1>7 DEF Loop!Replace, Loop!FreshWorker, Loop!Fresh, Phases
<1>8. CASE Loop!Die
  BY <1>t, <1>8 DEF Loop!Die, Loop!FreshWorker, Loop!Fresh
<1>9. CASE Loop!PollTask
  BY <1>t, <1>9, TailTask, SingleTask DEF Loop!PollTask, Loop!PollBody, Loop!BeginPass
<1>10. CASE Loop!FinallyTask
  BY <1>t, <1>10, TailTask DEF Loop!FinallyTask
<1>11. CASE Loop!Tick
  BY <1>t, <1>11 DEF Loop!Tick, Loop!PollBody, Loop!BeginPass, EndsPolling
<1>12. CASE Loop!Reconciled
  BY <1>t, <1>12 DEF Loop!Reconciled, Loop!LoopTop
<1>13. CASE Loop!ProjectionTurn
  BY <1>t, <1>13 DEF Loop!ProjectionTurn, Loop!ClaimedLate, Loop!LoopTop, Loop!AfterProjection
<1>14. CASE Loop!ClaimSuspended
  BY <1>t, <1>14 DEF Loop!ClaimSuspended, Loop!ClaimedLate, Loop!LoopTop
<1>15. CASE Loop!NoCommand
  BY <1>t, <1>15 DEF Loop!NoCommand, Loop!LoopTop
<1>16. CASE Loop!HandlerEnds
  BY <1>t, <1>16 DEF Loop!HandlerEnds, Loop!LoopTop
<1>17. CASE Loop!EndPass
  BY <1>t, <1>17, AppendTask DEF Loop!EndPass, Loop!BeginPass
<1>18. ASSUME NEW r \in Runs, Loop!Arrive(r) \/ Loop!Expire(r) PROVE WakeComes'
  BY <1>t, <1>18 DEF Loop!Arrive, Loop!Expire
<1>19. CASE UNCHANGED Loop!vars
  BY <1>t, <1>19 DEF Loop!vars
<1> QED
  BY <1>1, <1>2, <1>3, <1>4, <1>5, <1>6, <1>7, <1>8, <1>9, <1>10, <1>11, <1>12, <1>13, <1>14,
    <1>15, <1>16, <1>17, <1>18, <1>19 DEF Loop!Next, Loop!Microtask, Loop!DrainStep

\* A closed worker polls nothing.
LEMMA PhasesStep ==
    ASSUME LoopInv, [Loop!Next]_(Loop!vars)
    PROVE  Phases'
<1>t. LoopTyped /\ Flags /\ Shape /\ Phases
  BY LimitsAre DEF LoopInv
<1> USE DEF Loop!worker, Loop!rows, Loop!bounds, LoopTyped, Phases, Loop!Started, Shape
<1>1. CASE Loop!Start \/ Loop!Wake \/ Loop!Retire \/ Loop!Stop \/ Loop!Closed \/ Loop!Replace \/
      Loop!Die \/ Loop!PollTask \/ Loop!FinallyTask \/ Loop!Tick \/ Loop!ProjectionTurn \/
      Loop!ClaimCommand \/ Loop!ClaimSuspended \/ Loop!NoCommand \/ Loop!HandlerEnds \/
      Loop!EndPass \/ Loop!ProjectionsDue \/ Loop!PolicyChanges
  BY <1>t, <1>1 DEF Loop!Start, Loop!Wake, Loop!Retire, Loop!Stop, Loop!Closed, Loop!Replace,
    Loop!FreshWorker, Loop!Fresh, Loop!Die, Loop!PollTask, Loop!PollBody, Loop!BeginPass,
    Loop!FinallyTask, Loop!Tick, Loop!ProjectionTurn, Loop!ClaimedLate, Loop!ClaimCommand,
    Loop!ClaimSuspended, Loop!NoCommand, Loop!HandlerEnds, Loop!EndPass, Loop!ProjectionsDue,
    Loop!PolicyChanges
<1>2. CASE Loop!Reconciled
  BY <1>t, <1>2 DEF Loop!Reconciled
<1>3. ASSUME NEW r \in Runs, Loop!Arrive(r) \/ Loop!Expire(r) PROVE Phases'
  BY <1>t, <1>3 DEF Loop!Arrive, Loop!Expire
<1>4. CASE UNCHANGED Loop!vars
  BY <1>t, <1>4 DEF Loop!vars
<1> QED
  BY <1>1, <1>2, <1>3, <1>4 DEF Loop!Next, Loop!Microtask, Loop!DrainStep

\* The worker holds a run while its handler is at work, and no longer.
LEMMA HoldingStep ==
    ASSUME LoopInv, [Loop!Next]_(Loop!vars)
    PROVE  Holding'
<1>t. LoopTyped /\ RowsTyped /\ Holding /\ Shape
  BY LimitsAre DEF LoopInv
<1> USE DEF Loop!worker, Loop!rows, Loop!bounds, LoopTyped, Holding
<1>1. CASE Loop!Start \/ Loop!Wake \/ Loop!Retire \/ Loop!Stop \/ Loop!Closed \/ Loop!Replace \/
      Loop!Die \/ Loop!FinallyTask \/ Loop!EndPass \/ Loop!ProjectionsDue \/ Loop!PolicyChanges
  BY <1>t, <1>1 DEF Loop!Start, Loop!Wake, Loop!Retire, Loop!Stop, Loop!Closed, Loop!Replace,
    Loop!FreshWorker, Loop!Fresh, Loop!Die, Loop!FinallyTask, Loop!EndPass, Loop!BeginPass,
    Loop!ProjectionsDue, Loop!PolicyChanges
<1>2. CASE Loop!PollTask
  BY <1>t, <1>2 DEF Loop!PollTask, Loop!PollBody, Loop!BeginPass, Shape
<1>3. CASE Loop!Tick
  BY <1>t, <1>3 DEF Loop!Tick, Loop!PollBody, Loop!BeginPass, Shape
<1>4. CASE Loop!Reconciled
  BY <1>t, <1>4 DEF Loop!Reconciled, Loop!LoopTop
<1>5. CASE Loop!ProjectionTurn
  BY <1>t, <1>5 DEF Loop!ProjectionTurn, Loop!ClaimedLate, Loop!LoopTop, Loop!AfterProjection
<1>6. CASE Loop!ClaimCommand
  BY <1>t, <1>6, CandidateRun, LoopIs DEF Loop!ClaimCommand, Loop!ClaimedLate,
    Loop!LoopAssumption
<1>7. CASE Loop!ClaimSuspended
  BY <1>t, <1>7 DEF Loop!ClaimSuspended, Loop!ClaimedLate, Loop!LoopTop
<1>8. CASE Loop!NoCommand
  BY <1>t, <1>8 DEF Loop!NoCommand, Loop!LoopTop
<1>9. CASE Loop!HandlerEnds
  BY <1>t, <1>9 DEF Loop!HandlerEnds, Loop!LoopTop
<1>10. ASSUME NEW r \in Runs, Loop!Arrive(r) \/ Loop!Expire(r) PROVE Holding'
  BY <1>t, <1>10 DEF Loop!Arrive, Loop!Expire
<1>11. CASE UNCHANGED Loop!vars
  BY <1>t, <1>11 DEF Loop!vars
<1> QED
  BY <1>1, <1>2, <1>3, <1>4, <1>5, <1>6, <1>7, <1>8, <1>9, <1>10, <1>11 DEF Loop!Next,
    Loop!Microtask, Loop!DrainStep

\* The claim in flight is the last.
LEMMA LatenessStep ==
    ASSUME LoopInv, [Loop!Next]_(Loop!vars)
    PROVE  Lateness'
<1>t. LoopTyped /\ Tallies /\ Lateness /\ Phases /\ Shape
  BY LimitsAre DEF LoopInv
<1> USE DEF Loop!worker, Loop!rows, Loop!bounds, LoopTyped, Tallies, Lateness, Phases,
      Loop!Started, Shape
<1>1. CASE Loop!Start \/ Loop!Wake \/ Loop!Retire \/ Loop!Stop \/ Loop!Closed \/ Loop!Replace \/
      Loop!Die \/ Loop!FinallyTask \/ Loop!Tick \/ Loop!ClaimCommand \/ Loop!EndPass \/
      Loop!ProjectionsDue \/ Loop!PolicyChanges
  BY <1>t, <1>1 DEF Loop!Start, Loop!Wake, Loop!Retire, Loop!Stop, Loop!Closed, Loop!Replace,
    Loop!FreshWorker, Loop!Fresh, Loop!Die, Loop!FinallyTask, Loop!Tick, Loop!PollBody,
    Loop!BeginPass, Loop!ClaimCommand, Loop!ClaimedLate, Loop!EndPass, Loop!ProjectionsDue,
    Loop!PolicyChanges
<1>2. CASE Loop!PollTask
  BY <1>t, <1>2 DEF Loop!PollTask, Loop!PollBody, Loop!BeginPass, Shape
<1>3. CASE Loop!Reconciled
  BY <1>t, <1>3 DEF Loop!Reconciled, Loop!LoopTop
<1>4. CASE Loop!ProjectionTurn
  BY <1>t, <1>4 DEF Loop!ProjectionTurn, Loop!ClaimedLate, Loop!LoopTop, Loop!AfterProjection
<1>5. CASE Loop!ClaimSuspended
  BY <1>t, <1>5 DEF Loop!ClaimSuspended, Loop!ClaimedLate, Loop!LoopTop
<1>6. CASE Loop!NoCommand
  BY <1>t, <1>6 DEF Loop!NoCommand, Loop!LoopTop
<1>7. CASE Loop!HandlerEnds
  BY <1>t, <1>7 DEF Loop!HandlerEnds, Loop!LoopTop
<1>8. ASSUME NEW r \in Runs, Loop!Arrive(r) \/ Loop!Expire(r) PROVE Lateness'
  BY <1>t, <1>8 DEF Loop!Arrive, Loop!Expire
<1>9. CASE UNCHANGED Loop!vars
  BY <1>t, <1>9 DEF Loop!vars
<1> QED
  BY <1>1, <1>2, <1>3, <1>4, <1>5, <1>6, <1>7, <1>8, <1>9 DEF Loop!Next, Loop!Microtask,
    Loop!DrainStep

\* The budgets of a pass are not exceeded.
LEMMA BudgetsStep ==
    ASSUME LoopInv, [Loop!Next]_(Loop!vars)
    PROVE  BudgetsTyped'
<1>t. Limits /\ BudgetsTyped /\ ProjectionNext /\ CommandNext
  BY LimitsAre DEF LoopInv
<1> USE DEF Loop!worker, Loop!rows, Loop!bounds, Loop!MoreProjections, Loop!MoreCommands,
      BudgetsTyped, ProjectionNext, CommandNext, Limits
<1>1. CASE Loop!Start \/ Loop!Wake \/ Loop!Retire \/ Loop!Stop \/ Loop!Closed \/ Loop!PollTask
      \/ Loop!FinallyTask \/ Loop!Tick \/ Loop!ClaimCommand \/ Loop!EndPass \/
      Loop!ProjectionsDue \/ Loop!PolicyChanges
  BY <1>t, <1>1 DEF Loop!Start, Loop!Wake, Loop!Retire, Loop!Stop, Loop!Closed, Loop!PollTask,
    Loop!PollBody, Loop!BeginPass, Loop!FinallyTask, Loop!Tick, Loop!ClaimCommand,
    Loop!ClaimedLate, Loop!EndPass, Loop!ProjectionsDue, Loop!PolicyChanges
<1>2. CASE Loop!Replace
  BY <1>t, <1>2 DEF Loop!Replace, Loop!FreshWorker, Loop!Fresh
<1>3. CASE Loop!Die
  BY <1>t, <1>3 DEF Loop!Die, Loop!FreshWorker, Loop!Fresh
<1>4. CASE Loop!Reconciled
  BY <1>t, <1>4, LoopIs DEF Loop!Reconciled, Loop!LoopTop, Loop!Fresh, Loop!LoopAssumption
<1>5. CASE Loop!ProjectionTurn
  <2>1. commands' = commands
    BY <1>5 DEF Loop!ProjectionTurn
  <2>2. \/ projections' = [projections EXCEPT !.claims = projections.claims + 1]
        \/ projections' = [projections EXCEPT !.drained = TRUE]
    BY <1>5 DEF Loop!ProjectionTurn
  <2>3. projections.claims < MaxProjections
    BY <1>t, <1>5 DEF Loop!ProjectionTurn
  <2>4. projections' \in [claims : 0 .. MaxProjections, drained : BOOLEAN]
    <3>1. projections.claims + 1 \in 0 .. MaxProjections /\ projections \in [claims : 0 ..
          MaxProjections, drained : BOOLEAN]
      BY <1>t, <2>3
    <3> QED
      BY ONLY <2>2, <3>1
  <2> QED
    BY <1>t, <2>1, <2>4
<1>6. CASE Loop!ClaimSuspended
  BY <1>t, <1>6 DEF Loop!ClaimSuspended, Loop!ClaimedLate, Loop!LoopTop
<1>7. CASE Loop!NoCommand
  BY <1>t, <1>7 DEF Loop!NoCommand, Loop!LoopTop
<1>8. CASE Loop!HandlerEnds
  <2>1. projections' = projections
    BY <1>8 DEF Loop!HandlerEnds
  <2>2. \/ commands' = [commands EXCEPT !.claims = commands.claims + 1]
        \/ commands' = [commands EXCEPT !.drained = TRUE]
    BY <1>8 DEF Loop!HandlerEnds
  <2>3. commands.claims < MaxClaims
    BY <1>t, <1>8 DEF Loop!HandlerEnds
  <2>4. commands' \in [claims : 0 .. MaxClaims, drained : BOOLEAN]
    <3>1. commands.claims + 1 \in 0 .. MaxClaims /\ commands \in [claims : 0 .. MaxClaims,
          drained : BOOLEAN]
      BY <1>t, <2>3
    <3> QED
      BY ONLY <2>2, <3>1
  <2> QED
    BY <1>t, <2>1, <2>4
<1>9. ASSUME NEW r \in Runs, Loop!Arrive(r) \/ Loop!Expire(r) PROVE BudgetsTyped'
  BY <1>t, <1>9 DEF Loop!Arrive, Loop!Expire
<1>10. CASE UNCHANGED Loop!vars
  BY <1>t, <1>10 DEF Loop!vars
<1> QED
  BY <1>1, <1>2, <1>3, <1>4, <1>5, <1>6, <1>7, <1>8, <1>9, <1>10 DEF Loop!Next, Loop!Microtask,
    Loop!DrainStep

\* Projections have their turn when they are not ahead.
LEMMA ProjectionStep ==
    ASSUME LoopInv, [Loop!Next]_(Loop!vars)
    PROVE  ProjectionNext'
<1>t. LoopTyped /\ BudgetsTyped /\ ProjectionNext /\ CommandNext
  BY LimitsAre DEF LoopInv
<1> USE DEF Loop!worker, Loop!rows, Loop!bounds, Loop!MoreProjections, Loop!MoreCommands,
      BudgetsTyped, ProjectionNext, CommandNext
<1>1. CASE Loop!Start \/ Loop!Wake \/ Loop!Retire \/ Loop!Stop \/ Loop!Closed \/ Loop!PollTask
      \/ Loop!FinallyTask \/ Loop!Tick \/ Loop!ClaimCommand \/ Loop!EndPass \/
      Loop!ProjectionsDue \/ Loop!PolicyChanges
  BY <1>t, <1>1 DEF Loop!Start, Loop!Wake, Loop!Retire, Loop!Stop, Loop!Closed, Loop!PollTask,
    Loop!PollBody, Loop!BeginPass, Loop!FinallyTask, Loop!Tick, Loop!ClaimCommand,
    Loop!ClaimedLate, Loop!EndPass, Loop!ProjectionsDue, Loop!PolicyChanges
<1>2. CASE Loop!Replace
  BY <1>t, <1>2 DEF Loop!Replace, Loop!FreshWorker, Loop!Fresh
<1>3. CASE Loop!Die
  BY <1>t, <1>3 DEF Loop!Die, Loop!FreshWorker, Loop!Fresh
<1>4. CASE Loop!Reconciled
  BY <1>t, <1>4, LoopIs DEF Loop!Reconciled, Loop!LoopTop, Loop!Fresh, Loop!LoopAssumption
<1>5. CASE Loop!ProjectionTurn
  BY <1>t, <1>5 DEF Loop!ProjectionTurn, Loop!ClaimedLate, Loop!LoopTop, Loop!AfterProjection
<1>6. CASE Loop!ClaimSuspended
  BY <1>t, <1>6 DEF Loop!ClaimSuspended, Loop!ClaimedLate, Loop!LoopTop
<1>7. CASE Loop!NoCommand
  BY <1>t, <1>7 DEF Loop!NoCommand, Loop!LoopTop
<1>8. CASE Loop!HandlerEnds
  BY <1>t, <1>8 DEF Loop!HandlerEnds, Loop!LoopTop
<1>9. ASSUME NEW r \in Runs, Loop!Arrive(r) \/ Loop!Expire(r) PROVE ProjectionNext'
  BY <1>t, <1>9 DEF Loop!Arrive, Loop!Expire
<1>10. CASE UNCHANGED Loop!vars
  BY <1>t, <1>10 DEF Loop!vars
<1> QED
  BY <1>1, <1>2, <1>3, <1>4, <1>5, <1>6, <1>7, <1>8, <1>9, <1>10 DEF Loop!Next, Loop!Microtask,
    Loop!DrainStep

\* Commands have their turn when they are behind, or alone.
LEMMA CommandStep ==
    ASSUME LoopInv, [Loop!Next]_(Loop!vars)
    PROVE  CommandNext'
<1>t. LoopTyped /\ BudgetsTyped /\ ProjectionNext /\ CommandNext
  BY LimitsAre DEF LoopInv
<1> USE DEF Loop!worker, Loop!rows, Loop!bounds, Loop!MoreProjections, Loop!MoreCommands,
      BudgetsTyped, ProjectionNext, CommandNext
<1>1. CASE Loop!Start \/ Loop!Wake \/ Loop!Retire \/ Loop!Stop \/ Loop!Closed \/ Loop!PollTask
      \/ Loop!FinallyTask \/ Loop!Tick \/ Loop!ClaimCommand \/ Loop!EndPass \/
      Loop!ProjectionsDue \/ Loop!PolicyChanges
  BY <1>t, <1>1 DEF Loop!Start, Loop!Wake, Loop!Retire, Loop!Stop, Loop!Closed, Loop!PollTask,
    Loop!PollBody, Loop!BeginPass, Loop!FinallyTask, Loop!Tick, Loop!ClaimCommand,
    Loop!ClaimedLate, Loop!EndPass, Loop!ProjectionsDue, Loop!PolicyChanges
<1>2. CASE Loop!Replace
  BY <1>t, <1>2 DEF Loop!Replace, Loop!FreshWorker, Loop!Fresh
<1>3. CASE Loop!Die
  BY <1>t, <1>3 DEF Loop!Die, Loop!FreshWorker, Loop!Fresh
<1>4. CASE Loop!Reconciled
  BY <1>t, <1>4, LoopIs DEF Loop!Reconciled, Loop!LoopTop, Loop!Fresh, Loop!LoopAssumption
<1>5. CASE Loop!ProjectionTurn
  BY <1>t, <1>5 DEF Loop!ProjectionTurn, Loop!ClaimedLate, Loop!LoopTop, Loop!AfterProjection
<1>6. CASE Loop!ClaimSuspended
  BY <1>t, <1>6 DEF Loop!ClaimSuspended, Loop!ClaimedLate, Loop!LoopTop
<1>7. CASE Loop!NoCommand
  BY <1>t, <1>7 DEF Loop!NoCommand, Loop!LoopTop
<1>8. CASE Loop!HandlerEnds
  BY <1>t, <1>8 DEF Loop!HandlerEnds, Loop!LoopTop
<1>9. ASSUME NEW r \in Runs, Loop!Arrive(r) \/ Loop!Expire(r) PROVE CommandNext'
  BY <1>t, <1>9 DEF Loop!Arrive, Loop!Expire
<1>10. CASE UNCHANGED Loop!vars
  BY <1>t, <1>10 DEF Loop!vars
<1> QED
  BY <1>1, <1>2, <1>3, <1>4, <1>5, <1>6, <1>7, <1>8, <1>9, <1>10 DEF Loop!Next, Loop!Microtask,
    Loop!DrainStep

\* Runs move between the queues, and nothing else comes into them.
LEMMA RowsStep ==
    ASSUME LoopInv, [Loop!Next]_(Loop!vars)
    PROVE  RowsTyped'
<1>t. RowsTyped /\ Holding
  BY LimitsAre DEF LoopInv
<1> USE DEF Loop!worker, Loop!rows, Loop!bounds, RowsTyped
<1>1. CASE Loop!Start \/ Loop!Wake \/ Loop!Retire \/ Loop!Stop \/ Loop!Closed \/ Loop!PollTask
      \/ Loop!FinallyTask \/ Loop!Tick \/ Loop!Reconciled \/ Loop!ProjectionTurn \/
      Loop!NoCommand \/ Loop!EndPass \/ Loop!ProjectionsDue \/ Loop!PolicyChanges
  BY <1>t, <1>1 DEF Loop!Start, Loop!Wake, Loop!Retire, Loop!Stop, Loop!Closed, Loop!PollTask,
    Loop!PollBody, Loop!BeginPass, Loop!FinallyTask, Loop!Tick, Loop!Reconciled,
    Loop!ProjectionTurn, Loop!ClaimedLate, Loop!NoCommand, Loop!EndPass, Loop!ProjectionsDue,
    Loop!PolicyChanges
<1>2. CASE Loop!Replace
  BY <1>t, <1>2 DEF Loop!Replace, Loop!FreshWorker, Loop!Fresh
<1>3. CASE Loop!Die
  BY <1>t, <1>3 DEF Loop!Die, Loop!FreshWorker, Loop!Fresh
<1>4. CASE Loop!ClaimCommand
  BY <1>t, <1>4, LeftQueues, CandidateRun DEF Loop!ClaimCommand, Loop!ClaimedLate
<1>5. CASE Loop!ClaimSuspended
  BY <1>t, <1>5, LeftQueues, CandidateRun DEF Loop!ClaimSuspended, Loop!ClaimedLate
<1>6. CASE Loop!HandlerEnds
  BY <1>t, <1>6 DEF Loop!HandlerEnds, Holding
<1>7. ASSUME NEW r \in Runs, Loop!Arrive(r) \/ Loop!Expire(r) PROVE RowsTyped'
  <2>1. CASE Loop!Arrive(r)
    BY <1>t, <2>1 DEF Loop!Arrive
  <2>2. CASE Loop!Expire(r)
    BY <1>t, <2>2 DEF Loop!Expire
  <2> QED
    BY <1>7, <2>1, <2>2
<1>8. CASE UNCHANGED Loop!vars
  BY <1>t, <1>8 DEF Loop!vars
<1> QED
  BY <1>1, <1>2, <1>3, <1>4, <1>5, <1>6, <1>7, <1>8 DEF Loop!Next, Loop!Microtask,
    Loop!DrainStep

-----------------------------------------------------------------------------
\* A loop that has not started.
LEMMA LoopInit == Loop!Init => LoopInv
<1> SUFFICES ASSUME Loop!Init PROVE LoopInv
  OBVIOUS
<1> USE EmptyTasks, LimitsAre DEF Loop!Init, Loop!Fresh
<1>1. LoopTyped /\ Flags /\ Tallies
  BY DEF LoopTyped, Flags, Tallies
<1>4. RowsTyped
  BY DEF RowsTyped
<1>2. BudgetsTyped
  BY DEF BudgetsTyped, Limits
<1>3. Shape /\ WakeComes /\ Phases /\ Holding /\ Lateness /\ ProjectionNext /\ CommandNext
  BY DEF Shape, WakeComes, Phases, Holding, Lateness, ProjectionNext, CommandNext
<1> QED
  BY <1>1, <1>2, <1>3, <1>4 DEF LoopInv

\* Every step keeps the invariant of the loop.
LEMMA LoopNext == LoopInv /\ [Loop!Next]_(Loop!vars) => LoopInv'
<1> SUFFICES ASSUME LoopInv, [Loop!Next]_(Loop!vars) PROVE LoopInv'
  OBVIOUS
<1> QED
  BY LoopTypedStep, FlagsStep, TalliesStep, ShapeStep, OwedStep, PhasesStep, HoldingStep,
     LatenessStep, BudgetsStep, ProjectionStep, CommandStep, RowsStep DEF LoopInv

\* The inductive invariant of the loop: where a wake is remembered, whose turn
\* it is and what a drain still has to come, at every await of every overlap.
THEOREM LoopInvariant == Loop!Spec => []LoopInv
BY LoopInit, LoopNext, PTL DEF Loop!Spec

\* A timer, wakes, drains, retirement and stop that overlap at every await: no
\* wake is lost, one drain runs at most, neither queue starves the other within
\* a pass, and a closed worker claims once at most and is quiet in the end.
THEOREM LoopHoldsAlways == Loop!Spec => []LoopHolds
<1>1. LoopInv => LoopHolds
  <2> SUFFICES ASSUME LoopInv PROVE LoopHolds
    OBVIOUS
  <2>1. Loop!TypeOK
    BY DEF LoopInv, LoopTyped, Flags, Tallies, BudgetsTyped, RowsTyped, TaskSeq, Loop!TypeOK
  <2>2. Loop!DrainShape
    BY DEF LoopInv, Shape, HasFinally, Loop!DrainShape
  <2>3. Loop!WakeNotLost
    <3> SUFFICES ASSUME owed PROVE "poll" \in Loop!Elements(tasks) \/ (at # "nowhere" /\
          wakeRequested)
      BY DEF Loop!WakeNotLost
    <3>1. CASE at # "nowhere"
      BY <3>1 DEF LoopInv, WakeComes
    <3>2. CASE at = "nowhere"
      <4>1. tasks \in TaskSeq /\ tasks # <<>> /\ tasks[Len(tasks)] = "poll"
        BY <3>2 DEF LoopInv, WakeComes, EndsPolling, LoopTyped
      <4>2. Len(tasks) \in 1 .. Len(tasks)
        BY <4>1 DEF TaskSeq
      <4> QED
        BY <4>1, <4>2 DEF Loop!Elements
    <3> QED
      BY <3>1, <3>2
  <2>4. Loop!ClosedIsQuiet
    BY DEF LoopInv, Shape, Phases, Holding, Loop!ClosedIsQuiet
  <2>5. Loop!OneLateClaim
    BY DEF LoopInv, Lateness, Loop!OneLateClaim
  <2>6. Loop!TurnsAlternate
    BY DEF LoopInv, ProjectionNext, CommandNext, BudgetsTyped, Loop!TurnsAlternate
  <2> QED
    BY <2>1, <2>2, <2>3, <2>4, <2>5, <2>6 DEF LoopHolds, Loop!LoopHolds
<1> QED
  BY <1>1, LoopInvariant, PTL

\* The run that checks the loop beside the slots is a behaviour of the loop.
LEMMA LoopMoves == MCSpec => Loop!Spec
<1>1. MCInit => Loop!Init
  BY DEF MCInit
<1>2. [MCNext]_<<vars, Loop!vars>> => [Loop!Next]_(Loop!vars)
  BY DEF MCNext
<1> QED
  BY <1>1, <1>2, PTL DEF MCSpec, Loop!Spec
================================================================================
