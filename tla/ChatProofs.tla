------------------------------ MODULE ChatProofs ------------------------------
(***************************************************************************)
(* Proofs about a chat turn and what carries it, as MCChat composes them:  *)
(* its admission for any number of concurrent requests, bodies and         *)
(* attempts; its life for any number of tokens and faults; the records of  *)
(* its deliveries for any writers, keys, messages and directories; and the *)
(* queue of the connectors for any sessions, jobs, reopens and losses.     *)
(* Each component has its inductive invariant (AdmissionInv, TurnInv,      *)
(* DeliveryInv, ConnectorInv), and no step of one touches another's state. *)
(***************************************************************************)
EXTENDS MCChat, TLAPS, FiniteSetTheorems, WellFoundedInduction
-------------------------------------------------------------------------------
(* The admission. An attempt's id belongs to the request that drew it:     *)
(* nobody else inserts a run under it, so that a request that finds its    *)
(* own creation event has read back the run it created.                    *)

\* The rows of the attempts, by kind.
RowTypes ==
  /\ parent \in [Ids -> {"none", "failed", "cancelled"} \cup Holding]
  /\ body \in [Ids -> Bodies \cup {None}]
  /\ dispatch \in [Ids -> BOOLEAN] /\ message \in [Ids -> BOOLEAN]
  /\ created \subseteq Ids

\* Where a request can be.
Places == {"idle", "insert", "own", "winner", "bind", "dispatch", "event", "store"}

\* The requests and what their callers were told.
RequestTypes ==
  /\ pc \in [Requests -> Places] /\ sent \in [Requests -> Bodies \cup {None}]
  /\ id \in [Requests -> Ids \cup {0}] /\ found \in [Requests -> Ids \cup {0}]
  /\ answer \in [Requests -> Answers]
  /\ crashes \in 0 .. MaxCrashes

(* A run, its dispatch row and its creation event come together.           *)
RunsAreWhole == \A i \in Ids : /\ parent[i] # "none" => dispatch[i]
                               /\ i \in created <=> parent[i] # "none"

\* Two runs never hold the key.
OneHolding == \A i, j \in Ids : Holder(i) /\ Holder(j) => i = j

(* The id of a request is its own, and until its insert nobody has a run   *)
(* under it; a request that looks for the winner has created none.         *)
OwnIds ==
  /\ \A q, r \in Requests : id[q] = id[r] /\ id[q] \in Ids => q = r
  /\ \A r \in Requests : pc[r] # "idle" => id[r] \in Ids
  /\ \A r \in Requests : pc[r] \in {"insert", "winner"} => parent[id[r]] = "none"

(* A request that has found a run has found one that exists, and its own   *)
(* if it created one; past the check of the binding it is bound to it.     *)
(* Its caller has no answer before it is done.                             *)
Found ==
  \A r \in Requests :
    /\ pc[r] # "idle" => answer[r] = "none"
    /\ pc[r] \in {"bind", "dispatch", "event", "store"} =>
         /\ found[r] \in Ids /\ parent[found[r]] # "none"
         /\ id[r] \in created => found[r] = id[r]
    /\ pc[r] \in {"dispatch", "event", "store"} \/ answer[r] \in {"accepted", "duplicate"} =>
         found[r] \in Ids /\ parent[found[r]] # "none" /\ body[found[r]] = sent[r]
    /\ pc[r] = "store" \/ answer[r] = "accepted" => id[r] \in Ids /\ found[r] = id[r]

\* What the proofs about the admission carry along.
AdmissionInv == RowTypes /\ RequestTypes /\ RunsAreWhole /\ OneHolding /\ OwnIds /\ Found

\* No attempt has the id of "nothing found".
LEMMA NoZero == 0 \notin Ids
BY DEF Ids

\* Nobody has asked for anything.
LEMMA AdmissionInit == Init => AdmissionInv
<1> SUFFICES ASSUME Init PROVE AdmissionInv
  OBVIOUS
<1>1. RowTypes
  BY DEF Init, RowTypes
<1>2. RequestTypes
  BY AdmissionAssumption DEF AdmissionAssumption, Init, RequestTypes, Places, Answers
<1>3. RunsAreWhole /\ OneHolding
  BY DEF Init, RunsAreWhole, OneHolding, Holder, Holding
<1>4. OwnIds /\ Found
  BY NoZero DEF Init, OwnIds, Found
<1> QED
  BY <1>1, <1>2, <1>3, <1>4 DEF AdmissionInv

(* What the invariant of the rows says when no row changes.                *)
LEMMA SameRows ==
  ASSUME AdmissionInv, UNCHANGED <<rows, message, created>>
  PROVE  RowTypes' /\ RunsAreWhole' /\ OneHolding'
BY DEF AdmissionInv, rows, RowTypes, RunsAreWhole, OneHolding, Holder

\* A request draws an id nobody has.
LEMMA SendStep ==
  ASSUME AdmissionInv, NEW r \in Requests, NEW b \in Bodies, Send(r, b)
  PROVE  AdmissionInv'
<1>1. PICK i \in FreshIds : id' = [id EXCEPT ![r] = i]
  BY DEF Send
<1>2. i \in Ids /\ parent[i] = "none" /\ \A q \in Requests : id[q] # i
  BY <1>1 DEF FreshIds
<1>3. /\ pc[r] = "idle" /\ pc' = [pc EXCEPT ![r] = "insert"] /\ sent' = [sent EXCEPT ![r] = b]
      /\ answer' = [answer EXCEPT ![r] = "none"] /\ found' = [found EXCEPT ![r] = 0]
      /\ UNCHANGED <<rows, message, created>> /\ crashes' = crashes
  BY DEF Send, At, Go
<1>4. RequestTypes'
  BY <1>1, <1>2, <1>3 DEF AdmissionInv, RequestTypes, Places, Answers
<1>5. /\ pc'[r] = "insert" /\ id'[r] = i /\ answer'[r] = "none"
      /\ \A q \in Requests : q # r => /\ pc'[q] = pc[q] /\ id'[q] = id[q] /\ sent'[q] = sent[q]
                                      /\ answer'[q] = answer[q] /\ found'[q] = found[q]
  BY <1>1, <1>3 DEF AdmissionInv, RequestTypes
<1>6. OwnIds' /\ Found'
  BY <1>2, <1>3, <1>5 DEF AdmissionInv, OwnIds, Found, rows
<1> QED
  BY <1>3, <1>4, <1>6, SameRows DEF AdmissionInv

\* The insert of a request succeeds, or finds the key held.
LEMMA InsertStep ==
  ASSUME AdmissionInv, NEW r \in Requests, Insert(r)
  PROVE  AdmissionInv'
<1> DEFINE i == id[r]
<1>1. /\ pc[r] = "insert" /\ pc' = [pc EXCEPT ![r] = "own"] /\ message' = message
      /\ sent' = sent /\ id' = id /\ found' = found /\ answer' = answer /\ crashes' = crashes
  BY DEF Insert, At, Go, request
<1>2. i \in Ids /\ parent[i] = "none" /\ sent[r] \in Bodies \cup {None}
  BY <1>1 DEF AdmissionInv, OwnIds, RequestTypes
<1>3. RequestTypes'
  BY <1>1 DEF AdmissionInv, RequestTypes, Places
<1>4. pc'[r] = "own" /\ \A q \in Requests : q # r => pc'[q] = pc[q]
  BY <1>1 DEF AdmissionInv, RequestTypes
<1>5. CASE NoConflict(i)
  <2>1. /\ parent' = [parent EXCEPT ![i] = "queued"] /\ body' = [body EXCEPT ![i] = sent[r]]
        /\ dispatch' = [dispatch EXCEPT ![i] = TRUE] /\ created' = created \cup {i}
    BY <1>5 DEF Insert
  <2>2. \A j \in Ids : ~Holder(j)
    BY <1>5 DEF NoConflict
  <2> HIDE DEF i
  <2>3. RowTypes'
    BY <1>1, <1>2, <2>1 DEF AdmissionInv, RowTypes, Holding
  <2>4. /\ parent'[i] = "queued" /\ body'[i] = sent[r] /\ dispatch'[i]
        /\ \A j \in Ids : j # i => parent'[j] = parent[j] /\ body'[j] = body[j] /\ dispatch'[j] = dispatch[j]
    BY <1>2, <2>1 DEF AdmissionInv, RowTypes
  <2>5. RunsAreWhole'
    BY <1>2, <2>1, <2>4 DEF AdmissionInv, RunsAreWhole
  <2>6. OneHolding'
    BY <2>2, <2>4 DEF OneHolding, Holder
  <2>7. \A q \in Requests : q # r => id[q] # i
    BY <1>2 DEF AdmissionInv, OwnIds, i
  <2>8. OwnIds'
    BY <1>1, <1>4, <2>4, <2>7 DEF AdmissionInv, OwnIds
  <2>9. \A q \in Requests : q # r => (id[q] \in created' <=> id[q] \in created)
    BY <2>1, <2>7
  <2>10. \A q \in Requests : found[q] \in Ids /\ parent[found[q]] # "none" =>
           found[q] # i /\ parent'[found[q]] # "none" /\ body'[found[q]] = body[found[q]]
    BY <1>2, <2>4
  <2>11. Found'
    BY <1>1, <1>4, <2>9, <2>10 DEF AdmissionInv, Found
  <2> QED
    BY <1>3, <2>3, <2>5, <2>6, <2>8, <2>11 DEF AdmissionInv
<1>6. CASE ~NoConflict(i)
  <2>1. UNCHANGED <<rows, message, created>> /\ parent' = parent /\ body' = body /\ created' = created
    BY <1>1, <1>6 DEF Insert, rows
  <2>2. OwnIds' /\ Found'
    BY <1>1, <1>4, <2>1 DEF AdmissionInv, OwnIds, Found
  <2> QED
    BY <1>3, <2>1, <2>2, SameRows DEF AdmissionInv
<1> QED
  BY <1>5, <1>6

(* A statement that reads: the request alone moves on, with what it found  *)
(* and what it tells its caller.                                           *)
LEMMA ReadStep ==
  ASSUME AdmissionInv, NEW r \in Requests, NEW p \in Places \ {"insert", "own"}, NEW f \in Ids \cup {0}, NEW a \in Answers,
         UNCHANGED <<rows, created>>, message' \in [Ids -> BOOLEAN],
         sent' = sent, id' = id, crashes' \in 0 .. MaxCrashes, pc[r] # "idle",
         pc' = [pc EXCEPT ![r] = p], found' = [found EXCEPT ![r] = f], answer' = [answer EXCEPT ![r] = a],
         p # "idle" => a = "none", p = "winner" => parent[id[r]] = "none",
         p \in {"bind", "dispatch", "event", "store"} =>
           f \in Ids /\ parent[f] # "none" /\ (id[r] \in created => f = id[r]),
         p \in {"dispatch", "event", "store"} \/ a \in {"accepted", "duplicate"} =>
           f \in Ids /\ parent[f] # "none" /\ body[f] = sent[r],
         p = "store" \/ a = "accepted" => f = id[r]
  PROVE  AdmissionInv'
<1>1. RowTypes' /\ RunsAreWhole' /\ OneHolding'
  BY DEF AdmissionInv, rows, RowTypes, RunsAreWhole, OneHolding, Holder
<1>2. RequestTypes'
  BY DEF AdmissionInv, RequestTypes
<1>3. /\ pc'[r] = p /\ found'[r] = f /\ answer'[r] = a
      /\ \A q \in Requests : q # r => pc'[q] = pc[q] /\ found'[q] = found[q] /\ answer'[q] = answer[q]
  BY DEF AdmissionInv, RequestTypes
<1>4. parent' = parent /\ body' = body
  BY DEF rows
<1>5. id[r] \in Ids
  BY DEF AdmissionInv, OwnIds
<1>6. OwnIds' /\ Found'
  BY <1>3, <1>4, <1>5 DEF AdmissionInv, OwnIds, Found
<1> QED
  BY <1>1, <1>2, <1>6 DEF AdmissionInv

\* What a request does after its insert only reads.
LEMMA ReadsStep ==
  ASSUME AdmissionInv, NEW r \in Requests,
         ReadOwn(r) \/ ReadWinner(r) \/ Bind(r) \/ ReadDispatch(r) \/ ReadEvent(r) \/ StoreMessage(r) \/ Crash(r)
  PROVE  AdmissionInv'
<1> DEFINE kept == found' = [found EXCEPT ![r] = found[r]]
           quiet == answer' = [answer EXCEPT ![r] = "none"]
           moves(p) == pc' = [pc EXCEPT ![r] = p]
           says(a) == pc' = [pc EXCEPT ![r] = "idle"] /\ answer' = [answer EXCEPT ![r] = a]
<1>1. pc[r] # "idle"
  BY DEF ReadOwn, ReadWinner, Bind, ReadDispatch, ReadEvent, StoreMessage, Crash, At
<1>2. /\ found[r] \in Ids \cup {0} /\ id[r] \in Ids /\ answer[r] = "none"
      /\ found' = found => kept
      /\ answer' = answer => quiet
  BY <1>1 DEF AdmissionInv, RequestTypes, OwnIds, Found
<1>3. /\ UNCHANGED <<rows, created>> /\ message' \in [Ids -> BOOLEAN] /\ sent' = sent /\ id' = id
  BY DEF ReadOwn, ReadWinner, Bind, ReadDispatch, ReadEvent, StoreMessage, Crash, request, AdmissionInv, RowTypes
<1>4. crashes' \in 0 .. MaxCrashes
  <2>1. crashes' = crashes \/ (crashes < MaxCrashes /\ crashes' = crashes + 1)
    BY DEF ReadOwn, ReadWinner, Bind, ReadDispatch, ReadEvent, StoreMessage, Crash
  <2> QED
    BY <2>1, AdmissionAssumption DEF AdmissionAssumption, AdmissionInv, RequestTypes
<1> HIDE DEF kept, quiet
<1>5. CASE ReadOwn(r)
  <2>1. \/ parent[id[r]] # "none" /\ found' = [found EXCEPT ![r] = id[r]] /\ moves("bind") /\ quiet
        \/ parent[id[r]] = "none" /\ kept /\ moves("winner") /\ quiet
    BY <1>2, <1>5 DEF ReadOwn, Go
  <2> QED
    BY <1>1, <1>2, <1>3, <1>4, <2>1, ReadStep DEF Places, Answers, kept, quiet
<1>6. CASE ReadWinner(r)
  <2>1. pc[r] = "winner" /\ id[r] \notin created
    BY <1>2, <1>6 DEF ReadWinner, At, AdmissionInv, OwnIds, RunsAreWhole
  <2>2. \/ \E i \in Ids : parent[i] # "none" /\ found' = [found EXCEPT ![r] = i] /\ moves("bind") /\ quiet
        \/ kept /\ says("unavailable")
    BY <1>2, <1>6 DEF ReadWinner, Go, Tells, Holder, Holding
  <2> QED
    BY <1>1, <1>2, <1>3, <1>4, <2>1, <2>2, ReadStep DEF Places, Answers, kept, quiet
<1>7. CASE Bind(r)
  <2>1. /\ pc[r] = "bind" /\ kept
        /\ (body[found[r]] = sent[r] /\ moves("dispatch") /\ quiet) \/ says("conflict")
    BY <1>2, <1>7 DEF Bind, At, Go, Tells
  <2>2. /\ found[r] \in Ids /\ parent[found[r]] # "none"
        /\ id[r] \in created => found[r] = id[r]
    BY <2>1 DEF AdmissionInv, Found
  <2> QED
    BY <1>1, <1>2, <1>3, <1>4, <2>1, <2>2, ReadStep DEF Places, Answers, kept, quiet
<1>8. CASE ReadDispatch(r)
  <2>1. /\ pc[r] = "dispatch" /\ kept
        /\ (moves("event") /\ quiet) \/ says("unavailable")
    BY <1>2, <1>8 DEF ReadDispatch, At, Go, Tells
  <2>2. /\ found[r] \in Ids /\ parent[found[r]] # "none" /\ body[found[r]] = sent[r]
        /\ id[r] \in created => found[r] = id[r]
    BY <2>1 DEF AdmissionInv, Found
  <2> QED
    BY <1>1, <1>2, <1>3, <1>4, <2>1, <2>2, ReadStep DEF Places, Answers, kept, quiet
<1>9. CASE ReadEvent(r)
  <2>1. /\ pc[r] = "event" /\ kept
        /\ (id[r] \in created /\ moves("store") /\ quiet) \/ says("duplicate")
    BY <1>2, <1>9 DEF ReadEvent, At, Go, Tells
  <2>2. /\ found[r] \in Ids /\ parent[found[r]] # "none" /\ body[found[r]] = sent[r]
        /\ id[r] \in created => found[r] = id[r]
    BY <2>1 DEF AdmissionInv, Found
  <2> QED
    BY <1>1, <1>2, <1>3, <1>4, <2>1, <2>2, ReadStep DEF Places, Answers, kept, quiet
<1>10. CASE StoreMessage(r)
  <2>1. pc[r] = "store" /\ kept /\ says("accepted")
    BY <1>2, <1>10 DEF StoreMessage, At, Go, Tells
  <2>2. found[r] = id[r] /\ parent[found[r]] # "none" /\ body[found[r]] = sent[r]
    BY <2>1 DEF AdmissionInv, Found
  <2> QED
    BY <1>1, <1>2, <1>3, <1>4, <2>1, <2>2, ReadStep DEF Places, Answers, kept, quiet
<1>11. CASE Crash(r)
  <2>1. kept /\ says("none")
    BY <1>2, <1>11 DEF Crash, Go, Tells
  <2> QED
    BY <1>1, <1>2, <1>3, <1>4, <2>1, ReadStep DEF Places, Answers, kept, quiet
<1> QED
  BY <1>5, <1>6, <1>7, <1>8, <1>9, <1>10, <1>11

(* A turn that is open moves or ends: no id becomes free by it, and no     *)
(* second run starts to hold the key.                                      *)
LEMMA TurnMovesStep ==
  ASSUME AdmissionInv, NEW i \in Ids, TurnMoves(i)
  PROVE  AdmissionInv'
<1>1. /\ parent[i] \in {"queued", "running"} /\ UNCHANGED <<body, dispatch, message, pc, request, found, created, answer, crashes>>
  BY DEF TurnMoves
<1>2. PICK s \in {"running", "completed", "failed", "cancelled"} : parent' = [parent EXCEPT ![i] = s]
  BY DEF TurnMoves
<1>3. parent'[i] = s /\ \A j \in Ids : j # i => parent'[j] = parent[j]
  BY <1>2 DEF AdmissionInv, RowTypes
<1>4. /\ \A j \in Ids : parent'[j] = "none" <=> parent[j] = "none"
      /\ \A j \in Ids : Holder(j)' => Holder(j)
  BY <1>1, <1>3 DEF Holder, Holding
<1>5. RowTypes'
  BY <1>1, <1>2 DEF AdmissionInv, RowTypes, Holding
<1>6. RequestTypes'
  BY <1>1 DEF AdmissionInv, RequestTypes, request
<1>7. RunsAreWhole' /\ OneHolding'
  BY <1>1, <1>4 DEF AdmissionInv, RunsAreWhole, OneHolding
<1>8. OwnIds' /\ Found'
  BY <1>1, <1>4 DEF AdmissionInv, OwnIds, Found, request
<1> QED
  BY <1>5, <1>6, <1>7, <1>8 DEF AdmissionInv

\* Every step of the admission keeps its inductive invariant.
LEMMA AdmissionStep == AdmissionInv /\ [Next]_vars => AdmissionInv'
<1> SUFFICES ASSUME AdmissionInv, [Next]_vars PROVE AdmissionInv'
  OBVIOUS
<1>1. CASE UNCHANGED vars
  BY <1>1, SameRows DEF vars, rows, request, AdmissionInv, RequestTypes, OwnIds, Found
<1>2. ASSUME NEW r \in Requests, NEW b \in Bodies, Send(r, b) PROVE AdmissionInv'
  BY <1>2, SendStep
<1>3. ASSUME NEW r \in Requests, RequestStep(r) \/ Crash(r) PROVE AdmissionInv'
  BY <1>3, InsertStep, ReadsStep DEF RequestStep
<1>4. ASSUME NEW i \in Ids, TurnMoves(i) PROVE AdmissionInv'
  BY <1>4, TurnMovesStep
<1> QED
  BY <1>1, <1>2, <1>3, <1>4 DEF Next

\* It holds along every behaviour.
LEMMA AdmissionInvAlways == Spec => []AdmissionInv
BY AdmissionInit, AdmissionStep, PTL DEF Spec

(* Rows, requests and answers keep their types.                            *)
THEOREM TypesHold == Spec => []TypeOK
<1>1. 0 .. MaxRuns = Ids \cup {0}
  BY AdmissionAssumption DEF AdmissionAssumption, Ids
<1>2. AdmissionInv => TypeOK
  BY <1>1 DEF AdmissionInv, RowTypes, RequestTypes, Places, TypeOK
<1> QED
  BY <1>2, AdmissionInvAlways, PTL

(* createWithReceipt: no AgentRun is ever seen without its dispatch row.   *)
THEOREM NoParentWithoutDispatchHolds == Spec => []NoParentWithoutDispatch
<1>1. AdmissionInv => NoParentWithoutDispatch
  BY DEF AdmissionInv, RunsAreWhole, NoParentWithoutDispatch
<1> QED
  BY <1>1, AdmissionInvAlways, PTL

(* One key has at most one run that is in flight or completed.             *)
THEOREM OneHolderHolds == Spec => []OneHolder
<1>1. ASSUME OneHolding PROVE OneHolder
  <2> DEFINE H == {i \in Ids : Holder(i)}
  <2>1. CASE H = {}
    BY <2>1, FS_EmptySet DEF OneHolder
  <2>2. ASSUME NEW i \in H PROVE OneHolder
    <3>1. H = {i}
      BY <1>1, <2>2 DEF OneHolding
    <3>2. Cardinality({i}) = 1
      BY FS_Singleton
    <3> QED
      BY <3>1, <3>2 DEF OneHolder
  <2> QED
    BY <2>1, <2>2
<1>2. AdmissionInv => OneHolder
  BY <1>1 DEF AdmissionInv
<1> QED
  BY <1>2, AdmissionInvAlways, PTL

(* A caller is never told of a run that is bound to something else.        *)
THEOREM AnsweredRunIsBoundHolds == Spec => []AnsweredRunIsBound
<1>1. AdmissionInv => AnsweredRunIsBound
  BY DEF AdmissionInv, Found, AnsweredRunIsBound
<1> QED
  BY <1>1, AdmissionInvAlways, PTL

(* Of the requests that see a run, one answers for it and stores its       *)
(* message, since ids are drawn by one request each.                       *)
THEOREM OneRequestAcceptsHolds == Spec => []OneRequestAccepts
<1>1. AdmissionInv => OneRequestAccepts
  BY DEF AdmissionInv, Found, OwnIds, OneRequestAccepts, At
<1> QED
  BY <1>1, AdmissionInvAlways, PTL

(* An insert that meets no other run in its way makes one of its own.      *)
THEOREM FreshAttemptHolds == Spec => FreshAttempt
<1> DEFINE Fresh == \A r \in Requests :
                      At(r, "insert") /\ pc'[r] = "own" /\ (\A i \in Ids : ~Holder(i)) => Holder(id[r])'
<1>1. AdmissionInv /\ [Next]_vars => [Fresh]_vars
  <2> SUFFICES ASSUME AdmissionInv, Next, NEW r \in Requests, pc[r] = "insert", pc'[r] = "own", \A i \in Ids : ~Holder(i)
               PROVE  Holder(id[r])'
    BY DEF At
  <2>1. \A q \in Requests, p \in Places : q # r /\ pc' = [pc EXCEPT ![q] = p] => pc'[r] = "insert"
    BY DEF AdmissionInv, RequestTypes
  <2>2. \A p \in Places : pc' = [pc EXCEPT ![r] = p] => p = "own"
    BY DEF AdmissionInv, RequestTypes
  <2>3. Insert(r)
    <3>1. ASSUME NEW q \in Requests, Insert(q) PROVE Insert(r)
      BY <2>1, <3>1 DEF Insert, Go, Places
    <3>2. ASSUME NEW q \in Requests, ~Insert(q), (\E b \in Bodies : Send(q, b)) \/ RequestStep(q) \/ Crash(q) PROVE FALSE
      BY <2>1, <2>2, <3>2 DEF Send, RequestStep, Crash, ReadOwn, ReadWinner, Bind, ReadDispatch, ReadEvent,
                              StoreMessage, Go, At, Tells, Places
    <3>3. ASSUME NEW i \in Ids, TurnMoves(i) PROVE FALSE
      BY <3>3 DEF TurnMoves
    <3> QED
      BY <3>1, <3>2, <3>3 DEF Next
  <2>4. id[r] \in Ids /\ parent[id[r]] = "none"
    BY DEF AdmissionInv, OwnIds
  <2>5. parent' = [parent EXCEPT ![id[r]] = "queued"] /\ id' = id
    BY <2>3, <2>4 DEF Insert, NoConflict, request
  <2>6. parent'[id[r]] = "queued"
    BY <2>4, <2>5 DEF AdmissionInv, RowTypes
  <2> QED
    BY <2>5, <2>6 DEF Holder, Holding
<1> QED
  BY <1>1, AdmissionInvAlways, PTL DEF Spec, FreshAttempt

(* The five invariants of the admission in one.                            *)
THEOREM AdmissionHoldsAlways == Spec => []AdmissionHolds
BY TypesHold, NoParentWithoutDispatchHolds, OneHolderHolds, AnsweredRunIsBoundHolds,
   OneRequestAcceptsHolds, PTL DEF AdmissionHolds

-------------------------------------------------------------------------------
(* A chat turn: what a handler may count on                                *)

\* The turn is not going to be handed out again.
Committed == turnDispatch.stage = "runtime_committed"

\* While the claim of a token is decided nobody has asked to start under it, and
\* neither has the plugin that was just given the turn.
OneAtATime ==
  \A t \in Tokens :
    /\ mc[t].claim # "idle" => worker[t] = "idle" /\ mc[t].started = "idle"
    /\ worker[t] = "claimed" => mc[t].started = "idle"

\* A turn that was claimed and may still be committed by its holder.
MayCommit(t) ==
  \/ mc[t].claim \in {"fresh", "admit", "answer"}
  \/ worker[t] = "claimed"
  \/ mc[t].started \in {"posted", "commit"}

\* A holder that is on its way to the model.
MayInvoke(t) ==
  \/ worker[t] = "ready"
  \/ worker[t] = "starting" /\ mc[t].started \in {"mark", "yes"}

\* A turn that its holder may still commit has not been committed before.
CommitsOnce ==
  \A t \in Tokens : MayCommit(t) /\ turnDispatch.token = t => ~Committed

\* Before the turn is committed nobody is on the way to the model.
NoneBeforeCommit ==
  ~Committed =>
    /\ invoked = 0
    /\ \A t \in Tokens : ~MayInvoke(t) /\ mc[t].started \notin {"mark", "yes"}

\* A holder whose turn has sent its message, and may yet send it again.
Sent(t) == worker[t] = "running" \/ (worker[t] = "replying" /\ turnAnswer[t] = "reply")

\* After it one holder is at most, and only while the message has not been sent;
\* then one has sent it, as often as its retry says.
OnceCommitted ==
  /\ Turn!InvokedByOneTurn
  /\ \A t \in Tokens : MayInvoke(t) => invoked = 0
  /\ \A t, u \in Tokens : MayInvoke(t) /\ MayInvoke(u) => t = u
  /\ \A t \in Tokens : Sent(t) => invoked = IF retried[t] THEN 2 ELSE 1
  /\ \A t, u \in Tokens : Sent(t) /\ Sent(u) => t = u

\* The turn has no durable work and is not going to have any.
NoChild == originStopped /\ child \in {"none", "settled"}

\* Whoever shows the turn as cancelled has seen its work settled behind the Stop.
StopWaits ==
  /\ turnParent = "cancelled" \/ stop \in {"request", "settle"} => NoChild
  /\ \A t \in Tokens :
       \/ mc[t].claim \in {"cancel_parent", "acknowledge"}
       \/ mc[t].complete \in {"cancel_parent", "acknowledge"}
       => NoChild

\* Whoever ends the turn as answered or failed has told its reader.
ReaderTold ==
  /\ Turn!EndIsVisible
  /\ \A t \in Tokens : /\ mc[t].reply = "mark" => turnAnswer[t] \in cards
                       /\ mc[t].claim = "fail" => "loss" \in cards

\* Whoever closes the dispatch as completed has seen the turn ended.
EndSeen ==
  /\ Turn!FinishedDispatchHasEndedParent
  /\ \A t \in Tokens : mc[t].claim = "finish" \/ mc[t].complete = "acknowledge" =>
       ~Turn!Active

\* What the proofs about a turn carry along.
TurnInv ==
  /\ Turn!TypeOK /\ OneAtATime
  /\ CommitsOnce /\ NoneBeforeCommit /\ OnceCommitted
  /\ StopWaits /\ ReaderTold /\ EndSeen

\* The rows of the dispatch.
DispatchRows ==
  [status : {"queued", "running", "completed", "cancelled"},
   token  : Tokens \cup {None},
   live   : BOOLEAN,
   stage  : {"none", "runtime_claimed", "runtime_committed"},
   cancel : BOOLEAN]

\* The states of the handlers of a token.
HandlerStates ==
  [claim    : {"idle", "children", "cancel_parent", "acknowledge", "fresh",
               "committed", "publish", "fail", "finish", "admit", "answer"},
   started  : {"idle", "posted", "commit", "mark", "yes", "no"},
   requeue  : {"idle", "posted", "requeue"},
   reply    : {"idle", "posted", "claim", "thread", "add", "mark", "done"},
   complete : {"idle", "posted", "plain", "children", "cancel_parent",
               "acknowledge", "yes", "no"}]

\* The states of the plugin's turn.
WorkerStates ==
  {"idle", "claimed", "starting", "refused", "ready", "running", "replying",
   "completing", "last_try"}

\* The states of the run, of its work and of Stop.
StatusTypes ==
  /\ turnParent \in {"queued", "running"} \cup Turn!Ended
  /\ child \in {"none", "active", "marked", "settled"}
  /\ stop \in {"idle", "children", "request", "request_pending", "note", "settle", "mark"}

\* What the reader has been told and is going to be told.
ReaderTypes ==
  /\ cards \subseteq Turn!Answers \cup {"loss"} /\ prints \subseteq Turn!Answers
  /\ turnAnswer \in [Tokens -> Turn!Answers]

\* The receipt of Stop and the tombstone of the thread.
FlagTypes == originStopped \in BOOLEAN /\ tomb \in BOOLEAN

\* The counters.
CounterTypes ==
  invoked \in 0 .. 3 /\ retried \in [Tokens -> BOOLEAN] /\ faults \in 0 .. MaxFaults

\* The type invariant by kinds of state, as the proofs of the steps use it.
TurnTypes ==
  /\ None \notin Tokens /\ MaxFaults \in Nat /\ Turn!TypeOK
  /\ turnDispatch \in DispatchRows /\ mc \in [Tokens -> HandlerStates]
  /\ worker \in [Tokens -> WorkerStates]
  /\ StatusTypes /\ ReaderTypes /\ FlagTypes /\ CounterTypes

\* The kinds together are the type invariant.
LEMMA TurnInvTypes == Turn!TypeOK => TurnTypes
BY TurnIs DEF TurnTypes, Turn!TurnAssumption, Turn!TypeOK, DispatchRows, HandlerStates,
   WorkerStates, StatusTypes, ReaderTypes, FlagTypes, CounterTypes

\* The parts that say how often the model runs.
RunsOnce == OneAtATime /\ CommitsOnce /\ NoneBeforeCommit /\ OnceCommitted

\* Nothing has happened to a turn that is queued.
LEMMA TurnInit == Turn!Init => TurnInv
<1> SUFFICES ASSUME Turn!Init PROVE TurnInv
  OBVIOUS
<1> USE DEF Turn!Init, Turn!Quiet
<1>0. None \notin Tokens /\ MaxFaults \in Nat
  BY TurnIs DEF Turn!TurnAssumption
<1>1. Turn!TypeOK
  <2>1. turnDispatch \in DispatchRows /\ worker \in [Tokens -> WorkerStates]
    BY DEF DispatchRows, WorkerStates
  <2>2. mc \in [Tokens -> HandlerStates]
    BY DEF HandlerStates
  <2>3. StatusTypes /\ FlagTypes
    BY DEF StatusTypes, FlagTypes
  <2>4. CounterTypes
    BY <1>0 DEF CounterTypes
  <2>5. ReaderTypes
    BY DEF ReaderTypes, Turn!Answers
  <2> QED BY <2>1, <2>2, <2>3, <2>4, <2>5
         DEF Turn!TypeOK, DispatchRows, HandlerStates, WorkerStates, StatusTypes,
             ReaderTypes, FlagTypes, CounterTypes
<1>2. RunsOnce
  BY <1>0 DEF RunsOnce, OneAtATime, CommitsOnce, NoneBeforeCommit, OnceCommitted,
     MayCommit, MayInvoke, Committed, Sent, Turn!InvokedByOneTurn
<1>3. StopWaits /\ ReaderTold /\ EndSeen
  BY DEF StopWaits, ReaderTold, EndSeen, Turn!EndIsVisible,
     Turn!FinishedDispatchHasEndedParent
<1> QED BY <1>1, <1>2, <1>3 DEF TurnInv, RunsOnce

\* The inductive invariant says what a run checks of a turn.
LEMMA TurnInvHolds == TurnInv => TurnHolds
<1> SUFFICES ASSUME TurnInv PROVE TurnHolds
  OBVIOUS
<1>1. Turn!InvokedByOneTurn
  BY DEF TurnInv, OnceCommitted, Turn!InvokedByOneTurn
<1>2. Turn!StopNeverLies
  BY DEF TurnInv, StopWaits, NoChild, Turn!StopNeverLies
<1>3. Turn!EndIsVisible /\ Turn!FinishedDispatchHasEndedParent
  BY DEF TurnInv, ReaderTold, EndSeen
<1> QED BY <1>1, <1>2, <1>3 DEF TurnInv, TurnHolds

\* A step aside of the way to the model: the turn stays committed or not, nobody
\* else takes its token, and whoever moves only leaves that way.
Aside ==
  /\ turnDispatch'.stage = turnDispatch.stage
  /\ turnDispatch'.token \in {turnDispatch.token, None}
  /\ invoked' = invoked /\ retried' = retried
  /\ \A u \in Tokens :
       /\ Sent(u)' => Sent(u)
       /\ \/ mc'[u].claim \in {mc[u].claim, "idle"}
          \/ mc[u].claim # "idle" /\ mc'[u].claim \notin {"fresh", "admit", "answer"}
       /\ mc'[u].started \in {mc[u].started, "idle"}
       /\ worker'[u] = worker[u] \/ worker'[u] \notin {"claimed", "starting", "ready"}
       /\ worker[u] = "idle" => worker'[u] = "idle"

\* Such a step lets nobody run the model again.
LEMMA AsideRunsOnce ==
  ASSUME Turn!TypeOK, RunsOnce, Aside
  PROVE  RunsOnce'
<1>0. None \notin Tokens
  BY TurnIs DEF Turn!TurnAssumption
<1>1. OneAtATime'
  BY DEF RunsOnce, Aside, OneAtATime, Turn!Quiet
<1>2. CommitsOnce'
  <2>1. \A u \in Tokens : MayCommit(u)' => MayCommit(u)
    BY DEF Aside, MayCommit
  <2>2. \A u \in Tokens : turnDispatch'.token = u => turnDispatch.token = u
    BY <1>0 DEF Aside
  <2> QED BY <2>1, <2>2 DEF RunsOnce, Aside, CommitsOnce, Committed
<1>3. \A u \in Tokens : MayInvoke(u)' => MayInvoke(u)
  BY DEF Aside, MayInvoke
<1>4. NoneBeforeCommit'
  BY <1>3 DEF RunsOnce, Aside, NoneBeforeCommit, Committed
<1>5. OnceCommitted'
  BY <1>3 DEF RunsOnce, Aside, OnceCommitted, Turn!InvokedByOneTurn
<1> QED BY <1>1, <1>2, <1>4, <1>5 DEF RunsOnce

\* A claim starts a life of the turn under a token of its own.
LEMMA TurnClaimKeeps ==
  ASSUME TurnInv, NEW t \in Tokens, Turn!Claim(t)
  PROVE  TurnInv'
<1> USE DEF TurnTypes, Turn!At, Turn!Go, Turn!Step, Turn!Fault, Turn!control, Turn!model,
        Turn!Fenced, Turn!Ends, Turn!MarkParent, Turn!Active, Turn!CancelOriginChildren,
        Turn!Quiet
<1>0. TurnTypes
  BY TurnInvTypes DEF TurnInv
<1>1. RunsOnce'
  <2>1. OneAtATime'
    BY <1>0 DEF TurnInv, OneAtATime, HandlerStates, Turn!Claim, Turn!ClaimBranch
  <2>2. CommitsOnce'
    BY <1>0 DEF TurnInv, OneAtATime, CommitsOnce, MayCommit, Committed,
       HandlerStates, DispatchRows, Turn!Claim, Turn!ClaimBranch
  <2>3. NoneBeforeCommit'
    BY <1>0 DEF TurnInv, OneAtATime, CommitsOnce, NoneBeforeCommit, MayCommit,
       MayInvoke, Committed, HandlerStates, DispatchRows, Turn!Claim,
       Turn!ClaimBranch
  <2>4. OnceCommitted'
    BY <1>0 DEF TurnInv, OneAtATime, CommitsOnce, NoneBeforeCommit,
       OnceCommitted, Sent, Turn!InvokedByOneTurn, MayCommit, MayInvoke, Committed,
         HandlerStates, DispatchRows,
       Turn!Claim, Turn!ClaimBranch
  <2> QED BY <2>1, <2>2, <2>3, <2>4 DEF RunsOnce
<1> USE DEF Turn!Claim, Turn!ClaimBranch
<1>2. Turn!TypeOK'
  <2>1. turnDispatch' \in DispatchRows
    BY <1>0 DEF DispatchRows
  <2>2. mc' \in [Tokens -> HandlerStates]
    BY <1>0 DEF HandlerStates
  <2>3. worker' \in [Tokens -> WorkerStates]
    BY <1>0 DEF WorkerStates
  <2>4. StatusTypes'
    BY <1>0 DEF StatusTypes, Turn!Ended
  <2>5. ReaderTypes'
    BY <1>0 DEF ReaderTypes, Turn!Answers
  <2>6. FlagTypes'
    BY <1>0 DEF FlagTypes
  <2>7. CounterTypes'
    BY <1>0 DEF CounterTypes
  <2> QED BY <2>1, <2>2, <2>3, <2>4, <2>5, <2>6, <2>7
         DEF Turn!TypeOK, DispatchRows, HandlerStates, WorkerStates, StatusTypes, ReaderTypes,
             FlagTypes, CounterTypes
<1>3. StopWaits'
  BY <1>0 DEF TurnInv, StopWaits, NoChild, Turn!Ended, HandlerStates, StatusTypes
<1>4. ReaderTold'
  BY <1>0 DEF TurnInv, ReaderTold, Turn!EndIsVisible, Turn!Answers, HandlerStates,
     StatusTypes, ReaderTypes
<1>5. EndSeen'
  BY <1>0 DEF TurnInv, EndSeen, Turn!FinishedDispatchHasEndedParent, Turn!Ended,
     HandlerStates, StatusTypes, DispatchRows
<1> QED BY <1>1, <1>2, <1>3, <1>4, <1>5 DEF TurnInv, RunsOnce

\* The claim of a turn: cancelled, found committed, or handed to the plugin.
LEMMA TurnClaimStepKeeps ==
  ASSUME TurnInv, NEW t \in Tokens, Turn!ClaimStep(t)
  PROVE  TurnInv'
<1> USE DEF TurnTypes, Turn!At, Turn!Go, Turn!Step, Turn!Fault, Turn!control, Turn!model,
        Turn!Fenced, Turn!Ends, Turn!MarkParent, Turn!Active, Turn!CancelOriginChildren,
        Turn!Quiet
<1>0. TurnTypes
  BY TurnInvTypes DEF TurnInv
<1>1. RunsOnce'
  <2>1. CASE Turn!ClaimReadsParent(t)
    <3>1. OneAtATime'
      BY <1>0, <2>1 DEF TurnInv, OneAtATime, HandlerStates, Turn!ClaimReadsParent
    <3>2. CommitsOnce'
      BY <1>0, <2>1 DEF TurnInv, OneAtATime, CommitsOnce, MayCommit, Committed,
         HandlerStates, DispatchRows, Turn!ClaimReadsParent
    <3>3. NoneBeforeCommit'
      BY <1>0, <2>1 DEF TurnInv, OneAtATime, CommitsOnce, NoneBeforeCommit,
         MayCommit, MayInvoke, Committed, HandlerStates, DispatchRows,
         Turn!ClaimReadsParent
    <3>4. OnceCommitted'
      BY <1>0, <2>1 DEF TurnInv, OneAtATime, CommitsOnce, NoneBeforeCommit,
         OnceCommitted, Sent, Turn!InvokedByOneTurn, MayCommit, MayInvoke, Committed,
         HandlerStates, DispatchRows,
         Turn!ClaimReadsParent
    <3> QED BY <3>1, <3>2, <3>3, <3>4 DEF RunsOnce
  <2>2. CASE Turn!ClaimAdmits(t)
    <3>1. OneAtATime'
      BY <1>0, <2>2 DEF TurnInv, OneAtATime, HandlerStates, Turn!ClaimAdmits
    <3>2. CommitsOnce'
      BY <1>0, <2>2 DEF TurnInv, OneAtATime, CommitsOnce, MayCommit, Committed,
         HandlerStates, DispatchRows, Turn!ClaimAdmits
    <3>3. NoneBeforeCommit'
      BY <1>0, <2>2 DEF TurnInv, OneAtATime, CommitsOnce, NoneBeforeCommit,
         MayCommit, MayInvoke, Committed, HandlerStates, DispatchRows, Turn!ClaimAdmits
    <3>4. OnceCommitted'
      BY <1>0, <2>2 DEF TurnInv, OneAtATime, CommitsOnce, NoneBeforeCommit,
         OnceCommitted, Sent, Turn!InvokedByOneTurn, MayCommit, MayInvoke, Committed,
         HandlerStates, DispatchRows,
         Turn!ClaimAdmits
    <3> QED BY <3>1, <3>2, <3>3, <3>4 DEF RunsOnce
  <2>3. CASE Turn!ClaimAnswers(t)
    <3>1. OneAtATime'
      BY <1>0, <2>3 DEF TurnInv, OneAtATime, HandlerStates, Turn!ClaimAnswers
    <3>2. CommitsOnce'
      BY <1>0, <2>3 DEF TurnInv, OneAtATime, CommitsOnce, MayCommit, Committed,
         HandlerStates, DispatchRows, Turn!ClaimAnswers
    <3>3. NoneBeforeCommit'
      BY <1>0, <2>3 DEF TurnInv, OneAtATime, CommitsOnce, NoneBeforeCommit,
         MayCommit, MayInvoke, Committed, HandlerStates, DispatchRows, Turn!ClaimAnswers
    <3>4. OnceCommitted'
      BY <1>0, <2>3 DEF TurnInv, OneAtATime, CommitsOnce, NoneBeforeCommit,
         OnceCommitted, Sent, Turn!InvokedByOneTurn, MayCommit, MayInvoke, Committed,
         HandlerStates, DispatchRows,
         Turn!ClaimAnswers
    <3> QED BY <3>1, <3>2, <3>3, <3>4 DEF RunsOnce
  <2>4. CASE ~Turn!ClaimReadsParent(t) /\ ~Turn!ClaimAdmits(t) /\ ~Turn!ClaimAnswers(t)
    <3>1. /\ turnDispatch'.stage = turnDispatch.stage
          /\ turnDispatch'.token \in {turnDispatch.token, None}
      BY <1>0, <2>4 DEF DispatchRows, Turn!ClaimStep, Turn!ClaimCancelsChildren,
         Turn!ClaimCancelsParent, Turn!ClaimAcknowledges, Turn!ClaimPublishesLoss,
         Turn!ClaimFailsParent, Turn!ClaimFinishes, Turn!AcknowledgeDispatch,
         Turn!FinishDispatch
    <3>2. Aside
      BY <1>0, <2>4, <3>1 DEF TurnInv, OneAtATime, Aside, Sent, HandlerStates,
         Turn!ClaimStep, Turn!ClaimCancelsChildren, Turn!ClaimCancelsParent,
         Turn!ClaimAcknowledges, Turn!ClaimPublishesLoss, Turn!ClaimFailsParent,
         Turn!ClaimFinishes, Turn!AcknowledgeDispatch, Turn!FinishDispatch
    <3> QED BY <1>0, <3>2, AsideRunsOnce DEF TurnInv, RunsOnce
  <2> QED BY <2>1, <2>2, <2>3, <2>4
<1> USE DEF Turn!ClaimStep, Turn!ClaimCancelsChildren, Turn!ClaimCancelsParent,
        Turn!ClaimAcknowledges, Turn!ClaimReadsParent, Turn!ClaimPublishesLoss,
        Turn!ClaimFailsParent, Turn!ClaimFinishes, Turn!ClaimAdmits, Turn!ClaimAnswers,
        Turn!AcknowledgeDispatch, Turn!FinishDispatch
<1>2. Turn!TypeOK'
  <2>1. turnDispatch' \in DispatchRows
    BY <1>0 DEF DispatchRows
  <2>2. mc' \in [Tokens -> HandlerStates]
    BY <1>0 DEF HandlerStates
  <2>3. worker' \in [Tokens -> WorkerStates]
    BY <1>0 DEF WorkerStates
  <2>4. StatusTypes'
    BY <1>0 DEF StatusTypes, Turn!Ended
  <2>5. ReaderTypes'
    BY <1>0 DEF ReaderTypes, Turn!Answers
  <2>6. FlagTypes'
    BY <1>0 DEF FlagTypes
  <2>7. CounterTypes'
    BY <1>0 DEF CounterTypes
  <2> QED BY <2>1, <2>2, <2>3, <2>4, <2>5, <2>6, <2>7
         DEF Turn!TypeOK, DispatchRows, HandlerStates, WorkerStates, StatusTypes, ReaderTypes,
             FlagTypes, CounterTypes
<1>3. StopWaits'
  BY <1>0 DEF TurnInv, StopWaits, NoChild, Turn!Ended, HandlerStates, StatusTypes
<1>4. ReaderTold'
  BY <1>0 DEF TurnInv, ReaderTold, Turn!EndIsVisible, Turn!Answers, HandlerStates,
     StatusTypes, ReaderTypes
<1>5. EndSeen'
  <2>1. ~Turn!Active => ~Turn!Active'
    BY <1>0 DEF StatusTypes, Turn!Ended
  <2>2. turnDispatch'.status = "completed" =>
          turnDispatch.status = "completed" \/ mc[t].claim = "finish"
    BY <1>0 DEF DispatchRows
  <2>3. \A u \in Tokens :
          /\ mc'[u].complete = mc[u].complete
          /\ mc'[u].claim = "finish" => mc[u].claim = "finish" \/ ~Turn!Active'
    BY <1>0 DEF StatusTypes, Turn!Ended, HandlerStates
  <2> QED BY <2>1, <2>2, <2>3 DEF TurnInv, EndSeen, Turn!FinishedDispatchHasEndedParent
<1> QED BY <1>1, <1>2, <1>3, <1>4, <1>5 DEF TurnInv, RunsOnce

\* The plugin asks to start: the turn is committed at most once.
LEMMA TurnStartedStepKeeps ==
  ASSUME TurnInv, NEW t \in Tokens, Turn!StartedStep(t)
  PROVE  TurnInv'
<1> USE DEF TurnTypes, Turn!At, Turn!Go, Turn!Step, Turn!Fault, Turn!control, Turn!model,
        Turn!Fenced, Turn!Ends, Turn!MarkParent, Turn!Active, Turn!CancelOriginChildren,
        Turn!Quiet
<1>0. TurnTypes
  BY TurnInvTypes DEF TurnInv
<1>1. RunsOnce'
  <2>1. CASE Turn!StartedAuthorised(t)
    <3>1. OneAtATime'
      BY <1>0, <2>1 DEF TurnInv, OneAtATime, HandlerStates, Turn!StartedAuthorised,
         Turn!Wanted
    <3>2. CommitsOnce'
      BY <1>0, <2>1 DEF TurnInv, OneAtATime, CommitsOnce, MayCommit, Committed,
         HandlerStates, DispatchRows, Turn!StartedAuthorised, Turn!Wanted
    <3>3. NoneBeforeCommit'
      BY <1>0, <2>1 DEF TurnInv, OneAtATime, CommitsOnce, NoneBeforeCommit,
         MayCommit, MayInvoke, Committed, HandlerStates, DispatchRows,
         Turn!StartedAuthorised, Turn!Wanted
    <3>4. OnceCommitted'
      BY <1>0, <2>1 DEF TurnInv, OneAtATime, CommitsOnce, NoneBeforeCommit,
         OnceCommitted, Sent, Turn!InvokedByOneTurn, MayCommit, MayInvoke, Committed,
         HandlerStates, DispatchRows,
         Turn!StartedAuthorised, Turn!Wanted
    <3> QED BY <3>1, <3>2, <3>3, <3>4 DEF RunsOnce
  <2>2. CASE Turn!StartedCommits(t)
    <3>1. OneAtATime'
      BY <1>0, <2>2 DEF TurnInv, OneAtATime, HandlerStates, Turn!StartedCommits
    <3>2. CommitsOnce'
      BY <1>0, <2>2 DEF TurnInv, OneAtATime, CommitsOnce, MayCommit, Committed,
         HandlerStates, DispatchRows, Turn!StartedCommits
    <3>3. NoneBeforeCommit'
      BY <1>0, <2>2 DEF TurnInv, OneAtATime, CommitsOnce, NoneBeforeCommit,
         MayCommit, MayInvoke, Committed, HandlerStates, DispatchRows,
         Turn!StartedCommits
    <3>4. OnceCommitted'
      BY <1>0, <2>2 DEF TurnInv, OneAtATime, CommitsOnce, NoneBeforeCommit,
         OnceCommitted, Sent, Turn!InvokedByOneTurn, MayCommit, MayInvoke, Committed,
         HandlerStates, DispatchRows,
         Turn!StartedCommits
    <3> QED BY <3>1, <3>2, <3>3, <3>4 DEF RunsOnce
  <2>3. CASE Turn!StartedMarksParent(t)
    <3>1. OneAtATime'
      BY <1>0, <2>3 DEF TurnInv, OneAtATime, HandlerStates, Turn!StartedMarksParent
    <3>2. CommitsOnce'
      BY <1>0, <2>3 DEF TurnInv, OneAtATime, CommitsOnce, MayCommit, Committed,
         HandlerStates, DispatchRows, Turn!StartedMarksParent
    <3>3. NoneBeforeCommit'
      BY <1>0, <2>3 DEF TurnInv, OneAtATime, CommitsOnce, NoneBeforeCommit,
         MayCommit, MayInvoke, Committed, HandlerStates, DispatchRows,
         Turn!StartedMarksParent
    <3>4. OnceCommitted'
      BY <1>0, <2>3 DEF TurnInv, OneAtATime, CommitsOnce, NoneBeforeCommit,
         OnceCommitted, Sent, Turn!InvokedByOneTurn, MayCommit, MayInvoke, Committed,
         HandlerStates, DispatchRows,
         Turn!StartedMarksParent
    <3> QED BY <3>1, <3>2, <3>3, <3>4 DEF RunsOnce
  <2>4. CASE Turn!StartedAnswers(t)
    <3>1. OneAtATime'
      BY <1>0, <2>4 DEF TurnInv, OneAtATime, HandlerStates, Turn!StartedAnswers
    <3>2. CommitsOnce'
      BY <1>0, <2>4 DEF TurnInv, OneAtATime, CommitsOnce, MayCommit, Committed,
         HandlerStates, DispatchRows, Turn!StartedAnswers
    <3>3. NoneBeforeCommit'
      BY <1>0, <2>4 DEF TurnInv, OneAtATime, CommitsOnce, NoneBeforeCommit,
         MayCommit, MayInvoke, Committed, HandlerStates, DispatchRows,
         Turn!StartedAnswers
    <3>4. OnceCommitted'
      BY <1>0, <2>4 DEF TurnInv, OneAtATime, CommitsOnce, NoneBeforeCommit,
         OnceCommitted, Sent, Turn!InvokedByOneTurn, MayCommit, MayInvoke, Committed,
         HandlerStates, DispatchRows,
         Turn!StartedAnswers
    <3> QED BY <3>1, <3>2, <3>3, <3>4 DEF RunsOnce
  <2> QED BY <2>1, <2>2, <2>3, <2>4 DEF Turn!StartedStep
<1> USE DEF Turn!StartedStep, Turn!StartedAuthorised, Turn!StartedCommits,
        Turn!StartedMarksParent, Turn!StartedAnswers, Turn!Wanted
<1>2. Turn!TypeOK'
  <2>1. turnDispatch' \in DispatchRows
    BY <1>0 DEF DispatchRows
  <2>2. mc' \in [Tokens -> HandlerStates]
    BY <1>0 DEF HandlerStates
  <2>3. worker' \in [Tokens -> WorkerStates]
    BY <1>0 DEF WorkerStates
  <2>4. StatusTypes'
    BY <1>0 DEF StatusTypes, Turn!Ended
  <2>5. ReaderTypes'
    BY <1>0 DEF ReaderTypes, Turn!Answers
  <2>6. FlagTypes'
    BY <1>0 DEF FlagTypes
  <2>7. CounterTypes'
    BY <1>0 DEF CounterTypes
  <2> QED BY <2>1, <2>2, <2>3, <2>4, <2>5, <2>6, <2>7
         DEF Turn!TypeOK, DispatchRows, HandlerStates, WorkerStates, StatusTypes, ReaderTypes,
             FlagTypes, CounterTypes
<1>3. StopWaits'
  BY <1>0 DEF TurnInv, StopWaits, NoChild, Turn!Ended, HandlerStates, StatusTypes
<1>4. ReaderTold'
  BY <1>0 DEF TurnInv, ReaderTold, Turn!EndIsVisible, Turn!Answers, HandlerStates,
     StatusTypes, ReaderTypes
<1>5. EndSeen'
  BY <1>0 DEF TurnInv, EndSeen, Turn!FinishedDispatchHasEndedParent, Turn!Ended,
     HandlerStates, StatusTypes, DispatchRows
<1> QED BY <1>1, <1>2, <1>3, <1>4, <1>5 DEF TurnInv, RunsOnce

\* A turn that was not admitted goes back to the queue.
LEMMA TurnRequeueStepKeeps ==
  ASSUME TurnInv, NEW t \in Tokens, Turn!RequeueStep(t)
  PROVE  TurnInv'
<1> USE DEF TurnTypes, Turn!At, Turn!Go, Turn!Step, Turn!Fault, Turn!control, Turn!model,
        Turn!Fenced, Turn!Ends, Turn!MarkParent, Turn!Active, Turn!CancelOriginChildren,
        Turn!Quiet
<1>0. TurnTypes
  BY TurnInvTypes DEF TurnInv
<1>1. RunsOnce'
  <2>1. /\ turnDispatch'.stage = turnDispatch.stage
        /\ turnDispatch'.token \in {turnDispatch.token, None}
    BY <1>0 DEF DispatchRows, Turn!RequeueStep, Turn!RequeueAuthorised,
       Turn!Requeue, Turn!Wanted
  <2>2. Aside
    BY <1>0, <2>1 DEF TurnInv, OneAtATime, Aside, Sent, HandlerStates, Turn!RequeueStep,
       Turn!RequeueAuthorised, Turn!Requeue, Turn!Wanted
  <2> QED BY <1>0, <2>2, AsideRunsOnce DEF TurnInv, RunsOnce
<1> USE DEF Turn!RequeueStep, Turn!RequeueAuthorised, Turn!Requeue, Turn!Wanted
<1>2. Turn!TypeOK'
  <2>1. turnDispatch' \in DispatchRows
    BY <1>0 DEF DispatchRows
  <2>2. mc' \in [Tokens -> HandlerStates]
    BY <1>0 DEF HandlerStates
  <2>3. worker' \in [Tokens -> WorkerStates]
    BY <1>0 DEF WorkerStates
  <2>4. StatusTypes'
    BY <1>0 DEF StatusTypes, Turn!Ended
  <2>5. ReaderTypes'
    BY <1>0 DEF ReaderTypes, Turn!Answers
  <2>6. FlagTypes'
    BY <1>0 DEF FlagTypes
  <2>7. CounterTypes'
    BY <1>0 DEF CounterTypes
  <2> QED BY <2>1, <2>2, <2>3, <2>4, <2>5, <2>6, <2>7
         DEF Turn!TypeOK, DispatchRows, HandlerStates, WorkerStates, StatusTypes, ReaderTypes,
             FlagTypes, CounterTypes
<1>3. StopWaits'
  BY <1>0 DEF TurnInv, StopWaits, NoChild, Turn!Ended, HandlerStates, StatusTypes
<1>4. ReaderTold'
  BY <1>0 DEF TurnInv, ReaderTold, Turn!EndIsVisible, Turn!Answers, HandlerStates,
     StatusTypes, ReaderTypes
<1>5. EndSeen'
  <2>1. ~Turn!Active => ~Turn!Active'
    BY <1>0 DEF StatusTypes, Turn!Ended
  <2>2. turnDispatch'.status = "completed" =>
          turnDispatch.status = "completed"
    BY <1>0 DEF DispatchRows
  <2>3. \A u \in Tokens :
          /\ mc'[u].complete = mc[u].complete
          /\ mc'[u].claim = "finish" => mc[u].claim = "finish" \/ ~Turn!Active'
    BY <1>0 DEF StatusTypes, Turn!Ended, HandlerStates
  <2> QED BY <2>1, <2>2, <2>3 DEF TurnInv, EndSeen, Turn!FinishedDispatchHasEndedParent
<1> QED BY <1>1, <1>2, <1>3, <1>4, <1>5 DEF TurnInv, RunsOnce

\* The answer of the model reaches the thread, then the run.
LEMMA TurnCallbackStepKeeps ==
  ASSUME TurnInv, NEW t \in Tokens, Turn!CallbackStep(t)
  PROVE  TurnInv'
<1> USE DEF TurnTypes, Turn!At, Turn!Go, Turn!Step, Turn!Fault, Turn!control, Turn!model,
        Turn!Fenced, Turn!Ends, Turn!MarkParent, Turn!Active, Turn!CancelOriginChildren,
        Turn!Quiet
<1>0. TurnTypes
  BY TurnInvTypes DEF TurnInv
<1>1. RunsOnce'
  <2>1. /\ turnDispatch'.stage = turnDispatch.stage
        /\ turnDispatch'.token \in {turnDispatch.token, None}
    BY <1>0 DEF DispatchRows, Turn!CallbackStep, Turn!CallbackAuthorised,
       Turn!CallbackClaimsPrint, Turn!CallbackReadsThread, Turn!CallbackAddsCard,
       Turn!CallbackMarksParent, Turn!CallbackAnswers
  <2>2. Aside
    BY <1>0, <2>1 DEF TurnInv, OneAtATime, Aside, Sent, HandlerStates, Turn!CallbackStep,
       Turn!CallbackAuthorised, Turn!CallbackClaimsPrint, Turn!CallbackReadsThread,
       Turn!CallbackAddsCard, Turn!CallbackMarksParent, Turn!CallbackAnswers
  <2> QED BY <1>0, <2>2, AsideRunsOnce DEF TurnInv, RunsOnce
<1> USE DEF Turn!CallbackStep, Turn!CallbackAuthorised, Turn!CallbackClaimsPrint,
        Turn!CallbackReadsThread, Turn!CallbackAddsCard, Turn!CallbackMarksParent,
        Turn!CallbackAnswers
<1>2. Turn!TypeOK'
  <2>1. turnDispatch' \in DispatchRows
    BY <1>0 DEF DispatchRows
  <2>2. mc' \in [Tokens -> HandlerStates]
    BY <1>0 DEF HandlerStates
  <2>3. worker' \in [Tokens -> WorkerStates]
    BY <1>0 DEF WorkerStates
  <2>4. StatusTypes'
    BY <1>0 DEF StatusTypes, Turn!Ended
  <2>5. ReaderTypes'
    BY <1>0 DEF ReaderTypes, Turn!Answers
  <2>6. FlagTypes'
    BY <1>0 DEF FlagTypes
  <2>7. CounterTypes'
    BY <1>0 DEF CounterTypes
  <2> QED BY <2>1, <2>2, <2>3, <2>4, <2>5, <2>6, <2>7
         DEF Turn!TypeOK, DispatchRows, HandlerStates, WorkerStates, StatusTypes, ReaderTypes,
             FlagTypes, CounterTypes
<1>3. StopWaits'
  BY <1>0 DEF TurnInv, StopWaits, NoChild, Turn!Ended, HandlerStates, StatusTypes
<1>4. ReaderTold'
  BY <1>0 DEF TurnInv, ReaderTold, Turn!EndIsVisible, Turn!Answers, HandlerStates,
     StatusTypes, ReaderTypes
<1>5. EndSeen'
  BY <1>0 DEF TurnInv, EndSeen, Turn!FinishedDispatchHasEndedParent, Turn!Ended,
     HandlerStates, StatusTypes, DispatchRows
<1> QED BY <1>1, <1>2, <1>3, <1>4, <1>5 DEF TurnInv, RunsOnce

\* The plugin reports the end: the dispatch closes after the run.
LEMMA TurnCompleteStepKeeps ==
  ASSUME TurnInv, NEW t \in Tokens, Turn!CompleteStep(t)
  PROVE  TurnInv'
<1> USE DEF TurnTypes, Turn!At, Turn!Go, Turn!Step, Turn!Fault, Turn!control, Turn!model,
        Turn!Fenced, Turn!Ends, Turn!MarkParent, Turn!Active, Turn!CancelOriginChildren,
        Turn!Quiet
<1>0. TurnTypes
  BY TurnInvTypes DEF TurnInv
<1>1. RunsOnce'
  <2>1. /\ turnDispatch'.stage = turnDispatch.stage
        /\ turnDispatch'.token \in {turnDispatch.token, None}
    BY <1>0 DEF DispatchRows, Turn!CompleteStep, Turn!CompleteAuthorised,
       Turn!CompleteFinishes, Turn!CompleteCancelsChildren,
       Turn!CompleteCancelsParent, Turn!CompleteAcknowledges, Turn!CompleteAnswers,
       Turn!AcknowledgeDispatch, Turn!FinishDispatch
  <2>2. Aside
    BY <1>0, <2>1 DEF TurnInv, OneAtATime, Aside, Sent, HandlerStates, Turn!CompleteStep,
       Turn!CompleteAuthorised, Turn!CompleteFinishes, Turn!CompleteCancelsChildren,
       Turn!CompleteCancelsParent, Turn!CompleteAcknowledges, Turn!CompleteAnswers,
       Turn!AcknowledgeDispatch, Turn!FinishDispatch
  <2> QED BY <1>0, <2>2, AsideRunsOnce DEF TurnInv, RunsOnce
<1> USE DEF Turn!CompleteStep, Turn!CompleteAuthorised, Turn!CompleteFinishes,
        Turn!CompleteCancelsChildren, Turn!CompleteCancelsParent,
        Turn!CompleteAcknowledges, Turn!CompleteAnswers, Turn!AcknowledgeDispatch,
        Turn!FinishDispatch
<1>2. Turn!TypeOK'
  <2>1. turnDispatch' \in DispatchRows
    BY <1>0 DEF DispatchRows
  <2>2. mc' \in [Tokens -> HandlerStates]
    BY <1>0 DEF HandlerStates
  <2>3. worker' \in [Tokens -> WorkerStates]
    BY <1>0 DEF WorkerStates
  <2>4. StatusTypes'
    BY <1>0 DEF StatusTypes, Turn!Ended
  <2>5. ReaderTypes'
    BY <1>0 DEF ReaderTypes, Turn!Answers
  <2>6. FlagTypes'
    BY <1>0 DEF FlagTypes
  <2>7. CounterTypes'
    BY <1>0 DEF CounterTypes
  <2> QED BY <2>1, <2>2, <2>3, <2>4, <2>5, <2>6, <2>7
         DEF Turn!TypeOK, DispatchRows, HandlerStates, WorkerStates, StatusTypes, ReaderTypes,
             FlagTypes, CounterTypes
<1>3. StopWaits'
  BY <1>0 DEF TurnInv, StopWaits, NoChild, Turn!Ended, HandlerStates, StatusTypes
<1>4. ReaderTold'
  BY <1>0 DEF TurnInv, ReaderTold, Turn!EndIsVisible, Turn!Answers, HandlerStates,
     StatusTypes, ReaderTypes
<1>5. EndSeen'
  BY <1>0 DEF TurnInv, EndSeen, Turn!FinishedDispatchHasEndedParent, Turn!Ended,
     HandlerStates, StatusTypes, DispatchRows
<1> QED BY <1>1, <1>2, <1>3, <1>4, <1>5 DEF TurnInv, RunsOnce

\* The plugin goes on with a turn it holds.
LEMMA TurnPluginStepKeeps ==
  ASSUME TurnInv, NEW t \in Tokens, Turn!PluginStep(t)
  PROVE  TurnInv'
<1> USE DEF TurnTypes, Turn!At, Turn!Go, Turn!Step, Turn!Fault, Turn!control, Turn!model,
        Turn!Fenced, Turn!Ends, Turn!MarkParent, Turn!Active, Turn!CancelOriginChildren,
        Turn!Quiet
<1>0. TurnTypes
  BY TurnInvTypes DEF TurnInv
<1>1. RunsOnce'
  <2>1. CASE Turn!PostStarted(t)
    <3>1. OneAtATime'
      BY <1>0, <2>1 DEF TurnInv, OneAtATime, HandlerStates, Turn!PostStarted
    <3>2. CommitsOnce'
      BY <1>0, <2>1 DEF TurnInv, OneAtATime, CommitsOnce, MayCommit, Committed,
         HandlerStates, DispatchRows, Turn!PostStarted
    <3>3. NoneBeforeCommit'
      BY <1>0, <2>1 DEF TurnInv, OneAtATime, CommitsOnce, NoneBeforeCommit,
         MayCommit, MayInvoke, Committed, HandlerStates, DispatchRows, Turn!PostStarted
    <3>4. OnceCommitted'
      BY <1>0, <2>1 DEF TurnInv, OneAtATime, CommitsOnce, NoneBeforeCommit,
         OnceCommitted, Sent, Turn!InvokedByOneTurn, MayCommit, MayInvoke, Committed,
         HandlerStates, DispatchRows,
         Turn!PostStarted
    <3> QED BY <3>1, <3>2, <3>3, <3>4 DEF RunsOnce
  <2>2. CASE Turn!Invoke(t)
    <3>1. OneAtATime'
      BY <1>0, <2>2 DEF TurnInv, OneAtATime, HandlerStates, Turn!Invoke,
         Turn!CountInvoked
    <3>2. CommitsOnce'
      BY <1>0, <2>2 DEF TurnInv, OneAtATime, CommitsOnce, MayCommit, Committed,
         HandlerStates, DispatchRows, Turn!Invoke,
         Turn!CountInvoked
    <3>3. NoneBeforeCommit'
      BY <1>0, <2>2 DEF TurnInv, OneAtATime, CommitsOnce, NoneBeforeCommit,
         MayCommit, MayInvoke, Committed, HandlerStates, DispatchRows, Turn!Invoke,
         Turn!CountInvoked
    <3>5. /\ invoked = 0 /\ invoked' = 1 /\ retried' = [retried EXCEPT ![t] = FALSE]
          /\ worker' = [worker EXCEPT ![t] = "running"] /\ turnAnswer' = turnAnswer /\ mc' = mc
      BY <1>0, <2>2 DEF TurnInv, OnceCommitted, MayInvoke, CounterTypes, Turn!Invoke,
         Turn!CountInvoked
    <3>6. \A u \in Tokens : ~Sent(u)
      BY <3>5 DEF TurnInv, OnceCommitted
    <3>7. \A u \in Tokens : (Sent(u)' => u = t) /\ (MayInvoke(u)' => MayInvoke(u) /\ u # t)
      BY <1>0, <3>5, <3>6 DEF Sent, MayInvoke, WorkerStates
    <3>8. MayInvoke(t)
      BY <2>2 DEF Turn!Invoke, MayInvoke
    <3>4. OnceCommitted'
      BY <1>0, <3>5, <3>7, <3>8 DEF TurnInv, OnceCommitted, CounterTypes, Turn!InvokedByOneTurn
    <3> QED BY <3>1, <3>2, <3>3, <3>4 DEF RunsOnce
  <2>4. CASE Turn!InvokeAgain(t)
    <3>1. OneAtATime'
      BY <1>0, <2>4 DEF TurnInv, OneAtATime, HandlerStates, Turn!InvokeAgain
    <3>2. CommitsOnce'
      BY <1>0, <2>4 DEF TurnInv, CommitsOnce, MayCommit, Committed, Turn!InvokeAgain
    <3>8. worker[t] = "running" /\ worker' = worker /\ turnAnswer' = turnAnswer /\ mc' = mc
      BY <2>4 DEF Turn!InvokeAgain
    <3>7. Sent(t) /\ UNCHANGED <<worker, turnAnswer, mc>>
      BY <3>8 DEF Sent
    <3>3. invoked = 1 /\ invoked' = 2 /\ retried' = [retried EXCEPT ![t] = TRUE]
      BY <1>0, <2>4, <3>7 DEF TurnInv, OnceCommitted, Turn!InvokeAgain, Turn!CountInvoked
    <3>4. \A u \in Tokens : (MayInvoke(u)' => MayInvoke(u)) /\ (Sent(u)' => u = t)
      BY <3>7 DEF TurnInv, OnceCommitted, Sent, MayInvoke
    <3>5. NoneBeforeCommit'
      BY <2>4, <3>3 DEF TurnInv, NoneBeforeCommit, Committed, Turn!InvokeAgain
    <3>6. OnceCommitted'
      BY <1>0, <3>3, <3>4 DEF TurnInv, OnceCommitted, CounterTypes, Turn!InvokedByOneTurn
    <3> QED BY <3>1, <3>2, <3>5, <3>6 DEF RunsOnce
  <2>3. CASE ~Turn!PostStarted(t) /\ ~Turn!Invoke(t) /\ ~Turn!InvokeAgain(t)
    <3>1. /\ turnDispatch'.stage = turnDispatch.stage
          /\ turnDispatch'.token \in {turnDispatch.token, None}
      BY <1>0, <2>3 DEF DispatchRows, Turn!PluginStep, Turn!PostRequeue,
         Turn!EndsSilently, Turn!PostReply, Turn!ReplyAgain, Turn!PostComplete
    <3>2. /\ mc'[t].claim = mc[t].claim /\ mc'[t].started = mc[t].started
          /\ \A u \in Tokens \ {t} : mc'[u] = mc[u]
      BY <1>0, <2>3 DEF HandlerStates, Turn!PluginStep, Turn!PostRequeue, Turn!EndsSilently,
         Turn!PostReply, Turn!ReplyAgain, Turn!PostComplete
    <3>3. /\ \/ UNCHANGED <<worker, turnAnswer>>
             \/ /\ worker' = [worker EXCEPT ![t] = "idle"] /\ worker[t] = "refused"
                /\ UNCHANGED turnAnswer
             \/ /\ worker' = [worker EXCEPT ![t] = "completing"] /\ worker[t] = "running"
                /\ UNCHANGED turnAnswer
             \/ /\ worker' = [worker EXCEPT ![t] = "replying"]
                /\ \E a \in Turn!Answers :
                     /\ turnAnswer' = [turnAnswer EXCEPT ![t] = a]
                     /\ worker[t] = "running" \/ (worker[t] = "ready" /\ a = "error")
          /\ invoked' = invoked /\ retried' = retried
      <4>1. CASE Turn!PostRequeue(t)
        BY <4>1 DEF Turn!PostRequeue
      <4>2. CASE Turn!EndsSilently(t)
        BY <4>2 DEF Turn!EndsSilently
      <4>3. CASE Turn!ReplyAgain(t) \/ Turn!PostComplete(t)
        BY <4>3 DEF Turn!ReplyAgain, Turn!PostComplete
      <4>4. CASE \E a \in Turn!Answers : Turn!PostReply(t, a)
        BY <4>4 DEF Turn!PostReply
      <4> QED BY <2>3, <4>1, <4>2, <4>3, <4>4 DEF Turn!PluginStep
    <3>4. \A u \in Tokens :
            /\ Sent(u)' => Sent(u)
            /\ worker'[u] = worker[u] \/ worker'[u] \notin {"claimed", "starting", "ready"}
            /\ worker[u] = "idle" => worker'[u] = "idle"
      BY <1>0, <3>3 DEF Sent, ReaderTypes, WorkerStates
    <3>5. Aside
      BY <3>1, <3>2, <3>3, <3>4 DEF Aside
    <3> QED BY <1>0, <3>5, AsideRunsOnce DEF TurnInv, RunsOnce
  <2> QED BY <2>1, <2>2, <2>3, <2>4
<1> USE DEF Turn!PluginStep, Turn!PostStarted, Turn!PostRequeue, Turn!Invoke,
        Turn!InvokeAgain, Turn!CountInvoked, Turn!EndsSilently, Turn!PostReply, Turn!ReplyAgain, Turn!PostComplete
<1>2. Turn!TypeOK'
  <2>1. turnDispatch' \in DispatchRows
    BY <1>0 DEF DispatchRows
  <2>2. mc' \in [Tokens -> HandlerStates]
    BY <1>0 DEF HandlerStates
  <2>3. worker' \in [Tokens -> WorkerStates]
    BY <1>0 DEF WorkerStates
  <2>4. StatusTypes'
    BY <1>0 DEF StatusTypes, Turn!Ended
  <2>5. ReaderTypes'
    BY <1>0 DEF ReaderTypes, Turn!Answers
  <2>6. FlagTypes'
    BY <1>0 DEF FlagTypes
  <2>7. CounterTypes'
    <3>1. UNCHANGED faults
      OBVIOUS
    <3>2. \/ UNCHANGED <<invoked, retried>>
          \/ /\ invoked' \in {invoked, invoked + 1} /\ (invoked' # invoked => invoked < 3)
             /\ \E b \in BOOLEAN : retried' = [retried EXCEPT ![t] = b]
      OBVIOUS
    <3> QED BY <1>0, <3>1, <3>2 DEF CounterTypes
  <2> QED BY <2>1, <2>2, <2>3, <2>4, <2>5, <2>6, <2>7
         DEF Turn!TypeOK, DispatchRows, HandlerStates, WorkerStates, StatusTypes, ReaderTypes,
             FlagTypes, CounterTypes
<1>3. StopWaits'
  BY <1>0 DEF TurnInv, StopWaits, NoChild, Turn!Ended, HandlerStates, StatusTypes
<1>4. ReaderTold'
  <2>1. UNCHANGED <<turnParent, cards>>
    OBVIOUS
  <2>2. \A u \in Tokens :
          /\ mc'[u].reply = "mark" => mc[u].reply = "mark" /\ turnAnswer'[u] = turnAnswer[u]
          /\ mc'[u].claim = mc[u].claim
    BY <1>0 DEF HandlerStates, ReaderTypes
  <2> QED BY <2>1, <2>2 DEF TurnInv, ReaderTold, Turn!EndIsVisible
<1>5. EndSeen'
  BY <1>0 DEF TurnInv, EndSeen, Turn!FinishedDispatchHasEndedParent, Turn!Ended,
     HandlerStates, StatusTypes, DispatchRows
<1> QED BY <1>1, <1>2, <1>3, <1>4, <1>5 DEF TurnInv, RunsOnce

\* The plugin gives up on an answer of Mission Control.
LEMMA TurnGivesUpKeeps ==
  ASSUME TurnInv, NEW t \in Tokens, Turn!GivesUp(t)
  PROVE  TurnInv'
<1> USE DEF TurnTypes, Turn!At, Turn!Go, Turn!Step, Turn!Fault, Turn!control, Turn!model,
        Turn!Fenced, Turn!Ends, Turn!MarkParent, Turn!Active, Turn!CancelOriginChildren,
        Turn!Quiet
<1>0. TurnTypes
  BY TurnInvTypes DEF TurnInv
<1>1. RunsOnce'
  <2>1. /\ turnDispatch'.stage = turnDispatch.stage
        /\ turnDispatch'.token \in {turnDispatch.token, None}
    BY <1>0 DEF DispatchRows, Turn!GivesUp, Turn!StartedTimesOut, Turn!NotAdmitted,
       Turn!ReplyGivenUp, Turn!CompleteTimesOut
  <2>2. Aside
    BY <1>0, <2>1 DEF TurnInv, OneAtATime, Aside, Sent, HandlerStates, Turn!GivesUp,
       Turn!StartedTimesOut, Turn!NotAdmitted, Turn!ReplyGivenUp,
       Turn!CompleteTimesOut
  <2> QED BY <1>0, <2>2, AsideRunsOnce DEF TurnInv, RunsOnce
<1> USE DEF Turn!GivesUp, Turn!StartedTimesOut, Turn!NotAdmitted, Turn!ReplyGivenUp,
        Turn!CompleteTimesOut
<1>2. Turn!TypeOK'
  <2>1. turnDispatch' \in DispatchRows
    BY <1>0 DEF DispatchRows
  <2>2. mc' \in [Tokens -> HandlerStates]
    BY <1>0 DEF HandlerStates
  <2>3. worker' \in [Tokens -> WorkerStates]
    BY <1>0 DEF WorkerStates
  <2>4. StatusTypes'
    BY <1>0 DEF StatusTypes, Turn!Ended
  <2>5. ReaderTypes'
    BY <1>0 DEF ReaderTypes, Turn!Answers
  <2>6. FlagTypes'
    BY <1>0 DEF FlagTypes
  <2>7. CounterTypes'
    BY <1>0 DEF CounterTypes
  <2> QED BY <2>1, <2>2, <2>3, <2>4, <2>5, <2>6, <2>7
         DEF Turn!TypeOK, DispatchRows, HandlerStates, WorkerStates, StatusTypes, ReaderTypes,
             FlagTypes, CounterTypes
<1>3. StopWaits'
  BY <1>0 DEF TurnInv, StopWaits, NoChild, Turn!Ended, HandlerStates, StatusTypes
<1>4. ReaderTold'
  BY <1>0 DEF TurnInv, ReaderTold, Turn!EndIsVisible, Turn!Answers, HandlerStates,
     StatusTypes, ReaderTypes
<1>5. EndSeen'
  BY <1>0 DEF TurnInv, EndSeen, Turn!FinishedDispatchHasEndedParent, Turn!Ended,
     HandlerStates, StatusTypes, DispatchRows
<1> QED BY <1>1, <1>2, <1>3, <1>4, <1>5 DEF TurnInv, RunsOnce

\* The model starts durable work, which ends some time.
LEMMA TurnChildKeeps ==
  ASSUME TurnInv, (\E t \in Tokens : Turn!StartChild(t)) \/ Turn!ChildSettles
  PROVE  TurnInv'
<1> USE DEF TurnTypes, Turn!At, Turn!Go, Turn!Step, Turn!Fault, Turn!control, Turn!model,
        Turn!Fenced, Turn!Ends, Turn!MarkParent, Turn!Active, Turn!CancelOriginChildren,
        Turn!Quiet
<1>0. TurnTypes
  BY TurnInvTypes DEF TurnInv
<1>1. RunsOnce'
  <2>1. /\ turnDispatch'.stage = turnDispatch.stage
        /\ turnDispatch'.token \in {turnDispatch.token, None}
    BY <1>0 DEF DispatchRows, Turn!StartChild, Turn!ChildSettles
  <2>2. Aside
    BY <1>0, <2>1 DEF TurnInv, OneAtATime, Aside, Sent, HandlerStates, Turn!StartChild,
       Turn!ChildSettles
  <2> QED BY <1>0, <2>2, AsideRunsOnce DEF TurnInv, RunsOnce
<1> USE DEF Turn!StartChild, Turn!ChildSettles
<1>2. Turn!TypeOK'
  <2>1. turnDispatch' \in DispatchRows
    BY <1>0 DEF DispatchRows
  <2>2. mc' \in [Tokens -> HandlerStates]
    BY <1>0 DEF HandlerStates
  <2>3. worker' \in [Tokens -> WorkerStates]
    BY <1>0 DEF WorkerStates
  <2>4. StatusTypes'
    BY <1>0 DEF StatusTypes, Turn!Ended
  <2>5. ReaderTypes'
    BY <1>0 DEF ReaderTypes, Turn!Answers
  <2>6. FlagTypes'
    BY <1>0 DEF FlagTypes
  <2>7. CounterTypes'
    BY <1>0 DEF CounterTypes
  <2> QED BY <2>1, <2>2, <2>3, <2>4, <2>5, <2>6, <2>7
         DEF Turn!TypeOK, DispatchRows, HandlerStates, WorkerStates, StatusTypes, ReaderTypes,
             FlagTypes, CounterTypes
<1>3. StopWaits'
  BY <1>0 DEF TurnInv, StopWaits, NoChild, Turn!Ended, HandlerStates, StatusTypes
<1>4. ReaderTold'
  BY <1>0 DEF TurnInv, ReaderTold, Turn!EndIsVisible, Turn!Answers, HandlerStates,
     StatusTypes, ReaderTypes
<1>5. EndSeen'
  BY <1>0 DEF TurnInv, EndSeen, Turn!FinishedDispatchHasEndedParent, Turn!Ended,
     HandlerStates, StatusTypes, DispatchRows
<1> QED BY <1>1, <1>2, <1>3, <1>4, <1>5 DEF TurnInv, RunsOnce

\* Stop is pressed, and its handler goes on.
LEMMA TurnStopKeeps ==
  ASSUME TurnInv, Turn!PressStop \/ Turn!StopLateChildren \/ Turn!StopStep
  PROVE  TurnInv'
<1> USE DEF TurnTypes, Turn!At, Turn!Go, Turn!Step, Turn!Fault, Turn!control, Turn!model,
        Turn!Fenced, Turn!Ends, Turn!MarkParent, Turn!Active, Turn!CancelOriginChildren,
        Turn!Quiet
<1>0. TurnTypes
  BY TurnInvTypes DEF TurnInv
<1>1. RunsOnce'
  <2>1. /\ turnDispatch'.stage = turnDispatch.stage
        /\ turnDispatch'.token \in {turnDispatch.token, None}
    BY <1>0 DEF DispatchRows, Turn!PressStop, Turn!StopLateChildren, Turn!StopIs,
       Turn!StopStep, Turn!StopCancelsChildren, Turn!StopRequests, Turn!StopSettles,
       Turn!StopMarksThread
  <2>2. Aside
    BY <1>0, <2>1 DEF TurnInv, OneAtATime, Aside, Sent, HandlerStates, Turn!PressStop,
       Turn!StopLateChildren, Turn!StopIs, Turn!StopStep, Turn!StopCancelsChildren,
       Turn!StopRequests, Turn!StopSettles, Turn!StopMarksThread
  <2> QED BY <1>0, <2>2, AsideRunsOnce DEF TurnInv, RunsOnce
<1> USE DEF Turn!PressStop, Turn!StopLateChildren, Turn!StopIs, Turn!StopStep,
        Turn!StopCancelsChildren, Turn!StopRequests, Turn!StopSettles,
        Turn!StopMarksThread
<1>2. Turn!TypeOK'
  <2>1. turnDispatch' \in DispatchRows
    BY <1>0 DEF DispatchRows
  <2>2. mc' \in [Tokens -> HandlerStates]
    BY <1>0 DEF HandlerStates
  <2>3. worker' \in [Tokens -> WorkerStates]
    BY <1>0 DEF WorkerStates
  <2>4. StatusTypes'
    BY <1>0 DEF StatusTypes, Turn!Ended
  <2>5. ReaderTypes'
    BY <1>0 DEF ReaderTypes, Turn!Answers
  <2>6. FlagTypes'
    BY <1>0 DEF FlagTypes
  <2>7. CounterTypes'
    BY <1>0 DEF CounterTypes
  <2> QED BY <2>1, <2>2, <2>3, <2>4, <2>5, <2>6, <2>7
         DEF Turn!TypeOK, DispatchRows, HandlerStates, WorkerStates, StatusTypes, ReaderTypes,
             FlagTypes, CounterTypes
<1>3. StopWaits'
  BY <1>0 DEF TurnInv, StopWaits, NoChild, Turn!Ended, HandlerStates, StatusTypes
<1>4. ReaderTold'
  BY <1>0 DEF TurnInv, ReaderTold, Turn!EndIsVisible, Turn!Answers, HandlerStates,
     StatusTypes, ReaderTypes
<1>5. EndSeen'
  BY <1>0 DEF TurnInv, EndSeen, Turn!FinishedDispatchHasEndedParent, Turn!Ended,
     HandlerStates, StatusTypes, DispatchRows
<1> QED BY <1>1, <1>2, <1>3, <1>4, <1>5 DEF TurnInv, RunsOnce

\* The lease of an attempt runs out.
LEMMA TurnLeaseExpiresKeeps ==
  ASSUME TurnInv, Turn!LeaseExpires
  PROVE  TurnInv'
<1> USE DEF TurnTypes, Turn!At, Turn!Go, Turn!Step, Turn!Fault, Turn!control, Turn!model,
        Turn!Fenced, Turn!Ends, Turn!MarkParent, Turn!Active, Turn!CancelOriginChildren,
        Turn!Quiet
<1>0. TurnTypes
  BY TurnInvTypes DEF TurnInv
<1>1. RunsOnce'
  <2>1. /\ turnDispatch'.stage = turnDispatch.stage
        /\ turnDispatch'.token \in {turnDispatch.token, None}
    BY <1>0 DEF DispatchRows, Turn!LeaseExpires
  <2>2. Aside
    BY <1>0, <2>1 DEF TurnInv, OneAtATime, Aside, Sent, HandlerStates, Turn!LeaseExpires
  <2> QED BY <1>0, <2>2, AsideRunsOnce DEF TurnInv, RunsOnce
<1> USE DEF Turn!LeaseExpires
<1>2. Turn!TypeOK'
  <2>1. turnDispatch' \in DispatchRows
    BY <1>0 DEF DispatchRows
  <2>2. mc' \in [Tokens -> HandlerStates]
    BY <1>0 DEF HandlerStates
  <2>3. worker' \in [Tokens -> WorkerStates]
    BY <1>0 DEF WorkerStates
  <2>4. StatusTypes'
    BY <1>0 DEF StatusTypes, Turn!Ended
  <2>5. ReaderTypes'
    BY <1>0 DEF ReaderTypes, Turn!Answers
  <2>6. FlagTypes'
    BY <1>0 DEF FlagTypes
  <2>7. CounterTypes'
    BY <1>0 DEF CounterTypes
  <2> QED BY <2>1, <2>2, <2>3, <2>4, <2>5, <2>6, <2>7
         DEF Turn!TypeOK, DispatchRows, HandlerStates, WorkerStates, StatusTypes, ReaderTypes,
             FlagTypes, CounterTypes
<1>3. StopWaits'
  BY <1>0 DEF TurnInv, StopWaits, NoChild, Turn!Ended, HandlerStates, StatusTypes
<1>4. ReaderTold'
  BY <1>0 DEF TurnInv, ReaderTold, Turn!EndIsVisible, Turn!Answers, HandlerStates,
     StatusTypes, ReaderTypes
<1>5. EndSeen'
  BY <1>0 DEF TurnInv, EndSeen, Turn!FinishedDispatchHasEndedParent, Turn!Ended,
     HandlerStates, StatusTypes, DispatchRows
<1> QED BY <1>1, <1>2, <1>3, <1>4, <1>5 DEF TurnInv, RunsOnce

\* A process restarts: its handlers, or its turns, are gone.
LEMMA TurnCrashKeeps ==
  ASSUME TurnInv, Turn!MissionControlCrashes \/ Turn!PluginCrashes
  PROVE  TurnInv'
<1> USE DEF TurnTypes, Turn!At, Turn!Go, Turn!Step, Turn!Fault, Turn!control, Turn!model,
        Turn!Fenced, Turn!Ends, Turn!MarkParent, Turn!Active, Turn!CancelOriginChildren,
        Turn!Quiet
<1>0. TurnTypes
  BY TurnInvTypes DEF TurnInv
<1>1. RunsOnce'
  <2>1. /\ turnDispatch'.stage = turnDispatch.stage
        /\ turnDispatch'.token \in {turnDispatch.token, None}
    BY <1>0 DEF DispatchRows, Turn!MissionControlCrashes, Turn!PluginCrashes
  <2>2. Aside
    BY <1>0, <2>1 DEF TurnInv, OneAtATime, Aside, Sent, HandlerStates,
       Turn!MissionControlCrashes, Turn!PluginCrashes
  <2> QED BY <1>0, <2>2, AsideRunsOnce DEF TurnInv, RunsOnce
<1> USE DEF Turn!MissionControlCrashes, Turn!PluginCrashes
<1>2. Turn!TypeOK'
  <2>1. turnDispatch' \in DispatchRows
    BY <1>0 DEF DispatchRows
  <2>2. mc' \in [Tokens -> HandlerStates]
    BY <1>0 DEF HandlerStates
  <2>3. worker' \in [Tokens -> WorkerStates]
    BY <1>0 DEF WorkerStates
  <2>4. StatusTypes'
    BY <1>0 DEF StatusTypes, Turn!Ended
  <2>5. ReaderTypes'
    BY <1>0 DEF ReaderTypes, Turn!Answers
  <2>6. FlagTypes'
    BY <1>0 DEF FlagTypes
  <2>7. CounterTypes'
    BY <1>0 DEF CounterTypes
  <2> QED BY <2>1, <2>2, <2>3, <2>4, <2>5, <2>6, <2>7
         DEF Turn!TypeOK, DispatchRows, HandlerStates, WorkerStates, StatusTypes, ReaderTypes,
             FlagTypes, CounterTypes
<1>3. StopWaits'
  BY <1>0 DEF TurnInv, StopWaits, NoChild, Turn!Ended, HandlerStates, StatusTypes
<1>4. ReaderTold'
  BY <1>0 DEF TurnInv, ReaderTold, Turn!EndIsVisible, Turn!Answers, HandlerStates,
     StatusTypes, ReaderTypes
<1>5. EndSeen'
  BY <1>0 DEF TurnInv, EndSeen, Turn!FinishedDispatchHasEndedParent, Turn!Ended,
     HandlerStates, StatusTypes, DispatchRows
<1> QED BY <1>1, <1>2, <1>3, <1>4, <1>5 DEF TurnInv, RunsOnce

\* Every step of a turn keeps its inductive invariant.
LEMMA TurnStep == TurnInv /\ [Turn!Next]_turnVars => TurnInv'
<1> SUFFICES ASSUME TurnInv, [Turn!Next]_turnVars PROVE TurnInv'
  OBVIOUS
<1>1. CASE UNCHANGED turnVars
  <2>1. Turn!TypeOK'
    BY <1>1 DEF turnVars, TurnInv, Turn!TypeOK
  <2>2. RunsOnce'
    BY <1>1 DEF turnVars, TurnInv, RunsOnce, OneAtATime, CommitsOnce,
       NoneBeforeCommit, OnceCommitted, MayCommit, MayInvoke, Committed, Sent,
       Turn!InvokedByOneTurn, Turn!model
  <2>3. StopWaits' /\ ReaderTold' /\ EndSeen'
    BY <1>1 DEF turnVars, TurnInv, StopWaits, NoChild, ReaderTold, EndSeen,
       Turn!EndIsVisible, Turn!FinishedDispatchHasEndedParent, Turn!Active
  <2> QED BY <2>1, <2>2, <2>3 DEF TurnInv, RunsOnce
<1>2. CASE Turn!Next
  BY <1>2, TurnClaimKeeps, TurnClaimStepKeeps, TurnStartedStepKeeps,
     TurnRequeueStepKeeps, TurnCallbackStepKeeps, TurnCompleteStepKeeps,
     TurnPluginStepKeeps, TurnGivesUpKeeps, TurnChildKeeps, TurnStopKeeps,
     TurnLeaseExpiresKeeps, TurnCrashKeeps DEF Turn!Next
<1> QED BY <1>1, <1>2

\* The inductive invariant of a turn holds along every behaviour.
LEMMA TurnInvAlways == Turn!Spec => []TurnInv
<1>1. Turn!Init => TurnInv
  BY TurnInit
<1>2. TurnInv /\ [Turn!Next]_(Turn!vars) => TurnInv'
  BY TurnStep DEF Turn!vars, Turn!control, Turn!model, turnVars
<1> QED BY <1>1, <1>2, PTL DEF Turn!Spec

\* Whatever is lost, late or taken over in a turn, for any number of tokens and
\* faults: its message goes to the model from one turn of the plugin, which may send
\* it once more when its transport breaks, a turn shown as cancelled has no durable
\* work in flight, one that ended has told its reader, and the ledger closes it as
\* completed only after that.
THEOREM TurnHoldsAlways == Turn!Spec => []TurnHolds
BY TurnInvAlways, TurnInvHolds, PTL

-------------------------------------------------------------------------------
(* The queue of the connectors: how often a turn runs                      *)

\* The sessions that cannot claim any more.
Gone == {s \in Sessions : ~Connector!Authentic(s)}

\* How often a job can have been given up so far.
Limit == MaxReopens + faultsC + Cardinality(Gone)

\* The connector that holds the claim of j is still going to report on it.
Kept(j) ==
  \E s \in Sessions : /\ s \notin Gone /\ hand[s] = j /\ owner[j] = s
                      /\ step[s] # "notify"

\* A claim that only its age can end.
Loose(j) == j \in stale \/ (job[j] = "claimed" /\ ~Kept(j))

\* A job is given up once for every slow connector, fault or lost session.
ReopensBounded ==
  \A j \in Connector!Jobs : reopens[j] <= Limit /\ (Loose(j) => reopens[j] < Limit)

\* The connectors about to hand j to their bridge.
Senders(j) == {s \in Sessions : step[s] = "send" /\ hand[s] = j}

\* How often j has been claimed.
ClaimsOf(j) ==
  reopens[j] + (IF job[j] \in {"none", "refused", "pending"} THEN 0 ELSE 1)

\* A claim runs the turn once, or is about to.
EachClaimOnce ==
  \A j \in Connector!Jobs : taken[j] + Cardinality(Senders(j)) <= ClaimsOf(j)

\* What a connector carries, and what its report goes by.
CarriesItsJob ==
  /\ \A s \in Sessions : hand[s] = None <=> step[s] \in {"off", "detect", "poll"}
  /\ \A s \in Sessions : step[s] = "dispatched" => s \in takers[hand[s]]
  /\ \A j \in stale : job[j] = "claimed"

\* What the proofs about the connectors carry along.
ConnectorInv ==
  /\ Connector!TypeOK /\ CarriesItsJob
  /\ Connector!DispatchedWasTaken
  /\ EachClaimOnce /\ ReopensBounded

\* The parts of the type invariant, one by one.
LEMMA ConnectorTypes ==
  ASSUME Connector!TypeOK
  PROVE  /\ MaxJobs \in Nat /\ MaxReopens \in Nat /\ MaxLosses \in Nat
         /\ Connector!Jobs \subseteq Nat /\ None \notin Sessions /\ None \notin Connector!Jobs
         /\ IsFiniteSet(Sessions) /\ Cardinality(Sessions) \in Nat
         /\ Connector!MaxOpens = MaxReopens + MaxLosses + Cardinality(Sessions)
         /\ Connector!MaxOpens \in Nat
         /\ faultsC \in Nat /\ faultsC <= MaxLosses
         /\ \A j \in Connector!Jobs : reopens[j] \in Nat /\ taken[j] \in Nat
<1>1. \A S : Connector!Cardinality(S) = Cardinality(S)
  BY DEF Connector!Cardinality, Cardinality
<1>2. /\ MaxJobs \in Nat /\ MaxReopens \in Nat /\ MaxLosses \in Nat
      /\ None \notin Sessions \cup 1 .. MaxJobs /\ IsFiniteSet(Sessions)
  BY ConnectorIs DEF Connector!ConnectorAssumption, Connector!IsFiniteSet, IsFiniteSet
<1>3. Cardinality(Sessions) \in Nat
  BY <1>2, FS_CardinalityType
<1>4. Connector!MaxOpens = MaxReopens + MaxLosses + Cardinality(Sessions)
  BY <1>1 DEF Connector!MaxOpens
<1>5. Connector!MaxOpens \in Nat
  BY <1>2, <1>3, <1>4
<1> QED BY <1>2, <1>3, <1>4, <1>5 DEF Connector!TypeOK, Connector!Jobs

\* Sets of sessions are counted.
LEMMA Countable ==
  /\ \A T \in SUBSET Sessions : /\ IsFiniteSet(T) /\ Cardinality(T) \in Nat
                               /\ Cardinality(T) <= Cardinality(Sessions)
  /\ \A T \in SUBSET Sessions : \A U \in SUBSET T :
       /\ Cardinality(U) <= Cardinality(T)
       /\ U # T => Cardinality(U) < Cardinality(T)
  /\ \A T \in SUBSET Sessions, s \in Sessions :
       /\ s \notin T => Cardinality(T \cup {s}) = Cardinality(T) + 1
       /\ s \in T => Cardinality(T \ {s}) = Cardinality(T) - 1
<1>1. IsFiniteSet(Sessions)
  BY ConnectorIs DEF Connector!ConnectorAssumption, Connector!IsFiniteSet, IsFiniteSet
<1>2. \A T \in SUBSET Sessions : /\ IsFiniteSet(T) /\ Cardinality(T) \in Nat
                               /\ Cardinality(T) <= Cardinality(Sessions)
  BY <1>1, FS_Subset, FS_CardinalityType
<1>3. \A T \in SUBSET Sessions : \A U \in SUBSET T :
        /\ Cardinality(U) <= Cardinality(T)
        /\ U # T => Cardinality(U) < Cardinality(T)
  BY <1>2, FS_Subset
<1>4. \A T \in SUBSET Sessions, s \in Sessions :
        /\ s \notin T => Cardinality(T \cup {s}) = Cardinality(T) + 1
        /\ s \in T => Cardinality(T \ {s}) = Cardinality(T) - 1
  BY <1>2, FS_AddElement, FS_RemoveElement
<1> QED BY <1>2, <1>3, <1>4

\* The limit is a number within the bound of the model.
LEMMA LimitTyped ==
  ASSUME Connector!TypeOK
  PROVE  Limit \in Nat /\ Limit >= MaxReopens /\ Limit <= Connector!MaxOpens
<1>1. Gone \in SUBSET Sessions
  BY DEF Gone
<1> QED BY <1>1, ConnectorTypes, Countable DEF Limit

\* Sessions that are gone and faults that happened stay so.
LEMMA LimitGrows ==
  ASSUME Connector!TypeOK, Gone \subseteq Gone', faultsC' \in Nat, faultsC <= faultsC'
  PROVE  /\ Limit' \in Nat /\ Limit <= Limit'
         /\ Gone # Gone' \/ faultsC < faultsC' => Limit < Limit'
<1>1. Gone' \in SUBSET Sessions /\ Gone \in SUBSET Gone'
  BY DEF Gone
<1>2. /\ Cardinality(Gone) \in Nat /\ Cardinality(Gone') \in Nat
      /\ Cardinality(Gone) <= Cardinality(Gone')
      /\ Gone # Gone' => Cardinality(Gone) < Cardinality(Gone')
  BY <1>1, Countable
<1> QED BY <1>2, ConnectorTypes DEF Limit

\* A step that gives up no claim, and makes none loose unless the limit grows.
LEMMA BoundStays ==
  ASSUME Connector!TypeOK, ReopensBounded, Gone \subseteq Gone',
         faultsC' \in Nat, faultsC <= faultsC', reopens' = reopens,
         \/ Gone # Gone' \/ faultsC < faultsC'
         \/ \A j \in Connector!Jobs : Loose(j)' => Loose(j)
  PROVE  ReopensBounded'
BY LimitGrows, LimitTyped, ConnectorTypes DEF ReopensBounded

\* A step that runs no turn, and begins to run none.
LEMMA CountStays ==
  ASSUME Connector!TypeOK, EachClaimOnce, taken' = taken,
         \A j \in Connector!Jobs : /\ Senders(j)' \subseteq Senders(j)
                                  /\ ClaimsOf(j)' \in Nat /\ ClaimsOf(j) <= ClaimsOf(j)'
  PROVE  EachClaimOnce'
<1> SUFFICES ASSUME NEW j \in Connector!Jobs
             PROVE  taken'[j] + Cardinality(Senders(j)') <= ClaimsOf(j)'
  BY DEF EachClaimOnce
<1>1. Senders(j) \in SUBSET Sessions /\ Senders(j)' \in SUBSET Senders(j)
  BY DEF Senders
<1>2. /\ Cardinality(Senders(j)) \in Nat /\ Cardinality(Senders(j)') \in Nat
      /\ Cardinality(Senders(j)') <= Cardinality(Senders(j))
  BY <1>1, Countable
<1>3. taken[j] \in Nat /\ reopens[j] \in Nat /\ ClaimsOf(j) \in Nat
  BY ConnectorTypes DEF ClaimsOf
<1> QED BY <1>2, <1>3 DEF EachClaimOnce

\* The invariant says of a state what TLC checks.
LEMMA ConnectorInvHolds == ConnectorInv => ConnectorHolds
<1> SUFFICES ASSUME ConnectorInv PROVE ConnectorHolds
  OBVIOUS
<1>1. ASSUME NEW j \in Connector!Jobs PROVE taken[j] <= 1 + reopens[j]
  <2>1. Cardinality(Senders(j)) \in Nat
    <3>1. Senders(j) \in SUBSET Sessions
      BY DEF Senders
    <3> QED BY <3>1, Countable
  <2>2. taken[j] \in Nat /\ reopens[j] \in Nat
    BY ConnectorTypes DEF ConnectorInv
  <2> QED BY <2>1, <2>2 DEF ConnectorInv, EachClaimOnce, ClaimsOf
<1> QED BY <1>1 DEF ConnectorInv, ConnectorHolds, Connector!TakenOncePerClaim

\* No session is connected and no turn is queued.
LEMMA ConnectorInit == Connector!Init => ConnectorInv
<1> SUFFICES ASSUME Connector!Init PROVE ConnectorInv
  OBVIOUS
<1>1. /\ MaxReopens \in Nat /\ MaxLosses \in Nat /\ MaxJobs \in Nat
      /\ Cardinality(Sessions) \in Nat /\ None \notin Connector!Jobs
      /\ Connector!MaxOpens = MaxReopens + MaxLosses + Cardinality(Sessions)
      /\ Connector!MaxOpens \in Nat
  <2>1. /\ MaxReopens \in Nat /\ MaxLosses \in Nat /\ MaxJobs \in Nat
        /\ Cardinality(Sessions) \in Nat /\ None \notin Connector!Jobs
    BY ConnectorIs, Countable DEF Connector!ConnectorAssumption, Connector!Jobs
  <2>2. Connector!MaxOpens = MaxReopens + MaxLosses + Cardinality(Sessions)
    BY DEF Connector!MaxOpens, Connector!Cardinality, Cardinality
  <2> QED BY <2>1, <2>2
<1>2. Connector!TypeOK
  BY <1>1 DEF Connector!Init, Connector!TypeOK, Connector!Finished
<1>3. CarriesItsJob /\ Connector!DispatchedWasTaken
  BY <1>1 DEF Connector!Init, CarriesItsJob, Connector!DispatchedWasTaken
<1>4. EachClaimOnce
  <2>1. \A j : Senders(j) = {}
    BY DEF Connector!Init, Senders
  <2> QED BY <2>1, FS_EmptySet DEF Connector!Init, EachClaimOnce, ClaimsOf
<1>5. ReopensBounded
  BY <1>1, <1>2, LimitTyped DEF Connector!Init, ReopensBounded, Loose
<1> QED BY <1>2, <1>3, <1>4, <1>5 DEF ConnectorInv

\* A connector that carries nothing moves or dies, is seen, or loses its session.
LEMMA SessionStep ==
  ASSUME ConnectorInv, Connector!TypeOK', Gone \subseteq Gone',
         UNCHANGED <<job, owner, stale, hand, taken, takers, reopens>>,
         faultsC' \in Nat, faultsC <= faultsC',
         \A s \in Sessions : \/ step'[s] = step[s]
                            \/ {step[s], step'[s]} \subseteq {"off", "detect", "poll"}
  PROVE  ConnectorInv'
<1>1. Connector!TypeOK /\ CarriesItsJob /\ ReopensBounded /\ EachClaimOnce
  BY DEF ConnectorInv
<1>2. CarriesItsJob'
  BY <1>1 DEF CarriesItsJob
<1>3. Connector!DispatchedWasTaken'
  BY DEF ConnectorInv, Connector!DispatchedWasTaken
<1>4. EachClaimOnce'
  <2>1. \A j \in Connector!Jobs : Senders(j)' \subseteq Senders(j)
    BY DEF Senders
  <2>2. \A j \in Connector!Jobs : ClaimsOf(j)' = ClaimsOf(j) /\ ClaimsOf(j) \in Nat
    BY <1>1, ConnectorTypes DEF ClaimsOf
  <2> QED BY <1>1, <2>1, <2>2, CountStays
<1>5. Gone = Gone' => \A j \in Connector!Jobs : Loose(j)' => Loose(j)
  <2> SUFFICES ASSUME Gone = Gone', NEW j \in Connector!Jobs, Kept(j) PROVE Kept(j)'
    BY DEF Loose
  <2>1. PICK s \in Sessions : /\ s \notin Gone /\ hand[s] = j /\ owner[j] = s
                              /\ step[s] # "notify"
    BY DEF Kept
  <2>2. step'[s] = step[s]
    BY <1>1, <2>1, ConnectorTypes DEF CarriesItsJob
  <2> QED BY <2>1, <2>2 DEF Kept
<1>6. ReopensBounded'
  BY <1>1, <1>5, BoundStays, ConnectorTypes
<1> QED BY <1>2, <1>3, <1>4, <1>6 DEF ConnectorInv

\* A session is paired, seen, forgotten, revoked or runs out.
LEMMA SessionsKeep ==
  ASSUME ConnectorInv, NEW s \in Sessions,
         \/ Connector!Start(s) \/ Connector!Detect(s) \/ Connector!Heartbeat(s)
         \/ Connector!Revoke(s) \/ Connector!NotSeen(s) \/ Connector!RunsOut(s)
  PROVE  ConnectorInv'
<1>1. Connector!TypeOK
  BY DEF ConnectorInv
<1>2. UNCHANGED <<job, owner, stale, hand, taken, takers, told, reopens, faultsC>>
  BY DEF Connector!Start, Connector!Detect, Connector!Heartbeat, Connector!Revoke,
     Connector!NotSeen, Connector!RunsOut, Connector!jobs, Connector!ghosts
<1>3. \/ /\ Connector!Authentic(s) /\ late' = late
         /\ session' = [session EXCEPT ![s] = "connected"]
      \/ session' = session /\ late' \in {late, late \cup {s}}
      \/ session' = [session EXCEPT ![s] = "revoked"] /\ late' = late
  BY DEF Connector!Start, Connector!Detect, Connector!Heartbeat, Connector!Revoke,
     Connector!NotSeen, Connector!RunsOut, Connector!Register, Connector!sessions
<1>4. /\ session' \in [Sessions -> {"pending", "connected", "revoked"}]
      /\ late' \subseteq Sessions /\ Gone \subseteq Gone'
  BY <1>1, <1>3 DEF Connector!TypeOK, Gone, Connector!Authentic
<1>5. seen' \subseteq Sessions /\ works' \subseteq Sessions
  BY <1>1 DEF Connector!TypeOK, Connector!Start, Connector!Detect, Connector!Heartbeat,
     Connector!Revoke, Connector!NotSeen, Connector!RunsOut, Connector!Register,
     Connector!sessions
<1>6. \/ step' = step
      \/ /\ step[s] \in {"off", "detect", "poll"}
         /\ \E p \in {"off", "detect", "poll"} : step' = [step EXCEPT ![s] = p]
  BY DEF Connector!Start, Connector!Detect, Connector!Heartbeat, Connector!Revoke,
     Connector!NotSeen, Connector!RunsOut, Connector!At, Connector!Go
<1>7. /\ step' \in [Sessions -> {"off", "detect", "poll", "send", "dispatched", "failed",
                                "notify"}]
      /\ \A u \in Sessions : \/ step'[u] = step[u]
                             \/ {step[u], step'[u]} \subseteq {"off", "detect", "poll"}
  BY <1>1, <1>6 DEF Connector!TypeOK
<1>8. Connector!TypeOK'
  BY <1>1, <1>2, <1>4, <1>5, <1>7 DEF Connector!TypeOK
<1> QED BY <1>1, <1>2, <1>4, <1>7, <1>8, SessionStep, ConnectorTypes

\* A turn is queued, or the claim of one grows old.
LEMMA JobsKeep ==
  ASSUME ConnectorInv, NEW j \in Connector!Jobs,
         Connector!Enqueue(j) \/ Connector!GoesStale(j)
  PROVE  ConnectorInv'
<1>1. Connector!TypeOK /\ CarriesItsJob /\ ReopensBounded /\ EachClaimOnce
  BY DEF ConnectorInv
<1>2. UNCHANGED <<session, late, owner, hand, step, taken, takers, reopens, faultsC>>
  BY DEF Connector!Enqueue, Connector!GoesStale, Connector!sessions, Connector!ghosts
<1>3. Gone' = Gone /\ \A i : Senders(i)' = Senders(i)
  BY <1>2 DEF Gone, Connector!Authentic, Senders
<1>4. Limit' = Limit
  BY <1>2, <1>3 DEF Limit
<1>5. CASE Connector!Enqueue(j)
  <2>1. /\ stale' = stale /\ job[j] = "none" /\ j \notin stale
        /\ \E q \in {"pending", "refused"} : job' = [job EXCEPT ![j] = q]
    BY <1>1, <1>5 DEF Connector!Enqueue, CarriesItsJob
  <2>2. Connector!TypeOK'
    BY <1>1, <1>5, <2>1 DEF Connector!TypeOK, Connector!Enqueue, Connector!sessions,
       Connector!ghosts
  <2>3. CarriesItsJob' /\ Connector!DispatchedWasTaken'
    BY <1>1, <1>2, <2>1 DEF Connector!TypeOK, ConnectorInv, CarriesItsJob,
       Connector!DispatchedWasTaken
  <2>4. EachClaimOnce'
    <3>1. \A i \in Connector!Jobs : ClaimsOf(i)' = ClaimsOf(i) /\ ClaimsOf(i) \in Nat
      BY <1>1, <1>2, <2>1, ConnectorTypes DEF ClaimsOf, Connector!TypeOK
    <3> QED BY <1>1, <1>2, <1>3, <3>1, CountStays
  <2>5. \A i \in Connector!Jobs : Loose(i)' => Loose(i)
    BY <1>1, <1>2, <1>3, <2>1 DEF Loose, Kept, Connector!TypeOK
  <2>6. ReopensBounded'
    BY <1>1, <1>2, <1>3, <2>5, BoundStays, ConnectorTypes
  <2> QED BY <2>2, <2>3, <2>4, <2>6 DEF ConnectorInv
<1>6. CASE Connector!GoesStale(j)
  <2>1. job' = job /\ job[j] = "claimed" /\ stale' = stale \cup {j}
    BY <1>6 DEF Connector!GoesStale
  <2>2. Connector!TypeOK'
    BY <1>1, <1>6, <2>1 DEF Connector!TypeOK, Connector!GoesStale, Connector!sessions,
       Connector!ghosts
  <2>3. CarriesItsJob' /\ Connector!DispatchedWasTaken'
    BY <1>1, <1>2, <2>1 DEF ConnectorInv, CarriesItsJob, Connector!DispatchedWasTaken
  <2>4. EachClaimOnce'
    <3>1. \A i \in Connector!Jobs : ClaimsOf(i)' = ClaimsOf(i) /\ ClaimsOf(i) \in Nat
      BY <1>1, <1>2, <2>1, ConnectorTypes DEF ClaimsOf
    <3> QED BY <1>1, <1>2, <1>3, <3>1, CountStays
  <2>5. reopens[j] < Limit
    <3>1. CASE Connector!Carried(j)
      BY <1>1, <1>6, <3>1, LimitTyped, ConnectorTypes DEF Connector!GoesStale
    <3>2. CASE ~Connector!Carried(j)
      BY <1>1, <2>1, <3>2 DEF ReopensBounded, Loose, Kept, Connector!Carried
    <3> QED BY <3>1, <3>2
  <2>6. \A i \in Connector!Jobs : Loose(i)' => Loose(i) \/ i = j
    BY <1>2, <1>3, <2>1 DEF Loose, Kept
  <2>7. ReopensBounded'
    BY <1>1, <1>2, <1>4, <2>5, <2>6 DEF ReopensBounded
  <2> QED BY <2>2, <2>3, <2>4, <2>7 DEF ConnectorInv
<1> QED BY <1>5, <1>6

\* The oldest open turn is claimed, and the claims that are too old are given up.
LEMMA ClaimKeeps ==
  ASSUME ConnectorInv, NEW s \in Sessions, NEW heard \in BOOLEAN,
         Connector!Claim(s, heard), heard \/ faultsC < MaxLosses
  PROVE  ConnectorInv'
<1>1. Connector!TypeOK /\ CarriesItsJob /\ ReopensBounded /\ EachClaimOnce
  BY DEF ConnectorInv
<1>2. PICK j \in Connector!Jobs :
        /\ Connector!Open(j)
        /\ job' = [i \in Connector!Jobs |-> IF i = j THEN "claimed"
                     ELSE IF i \in stale THEN "pending" ELSE job[i]]
        /\ owner' = [i \in Connector!Jobs |-> IF i = j THEN s
                     ELSE IF i \in stale THEN None ELSE owner[i]]
        /\ IF heard THEN /\ step' = [step EXCEPT ![s] = "send"]
                         /\ hand' = [hand EXCEPT ![s] = j]
                    ELSE UNCHANGED <<step, hand>>
  BY DEF Connector!Claim, Connector!Go
<1>3. /\ step[s] = "poll" /\ hand[s] = None /\ s \notin Gone
      /\ reopens' = [i \in Connector!Jobs |-> reopens[i] + (IF i \in stale THEN 1 ELSE 0)]
      /\ stale' = {} /\ seen' = seen \cup {s}
      /\ faultsC' = IF heard THEN faultsC ELSE faultsC + 1
      /\ UNCHANGED <<session, works, late, taken, takers, told>>
  BY <1>1 DEF Connector!Claim, Connector!At, CarriesItsJob, Gone, Connector!Authentic,
     Connector!Connected, Connector!ghosts
<1>4. /\ faultsC' \in 0 .. MaxLosses /\ faultsC <= faultsC'
      /\ ~heard => faultsC < faultsC'
  BY <1>1, <1>3, ConnectorTypes
<1>5. Gone' = Gone
  BY <1>3 DEF Gone, Connector!Authentic
<1>6. /\ Limit \in Nat /\ Limit' \in Nat /\ Limit <= Limit' /\ (~heard => Limit < Limit')
      /\ Limit' <= Connector!MaxOpens
  <2>1. Limit' = MaxReopens + faultsC' + Cardinality(Gone)
    BY <1>5 DEF Limit
  <2>2. Cardinality(Gone) \in Nat /\ Cardinality(Gone) <= Cardinality(Sessions)
    <3>1. Gone \in SUBSET Sessions
      BY DEF Gone
    <3> QED BY <3>1, Countable
  <2> QED BY <1>1, <1>4, <2>1, <2>2, ConnectorTypes DEF Limit
<1>7. \A i \in Connector!Jobs :
        /\ reopens'[i] \in Nat /\ reopens'[i] <= Limit
        /\ i \in stale => reopens'[i] = reopens[i] + 1
        /\ i \notin stale => reopens'[i] = reopens[i]
  BY <1>1, <1>3, <1>6, ConnectorTypes DEF ReopensBounded, Loose
<1>8. /\ \A u \in Sessions : u # s => step'[u] = step[u] /\ hand'[u] = hand[u]
      /\ heard => step'[s] = "send" /\ hand'[s] = j
      /\ ~heard => step'[s] = step[s] /\ hand'[s] = hand[s]
      /\ step' \in [Sessions -> {"off", "detect", "poll", "send", "dispatched", "failed",
                                "notify"}]
      /\ hand' \in [Sessions -> Connector!Jobs \cup {None}]
  BY <1>1, <1>2 DEF Connector!TypeOK
<1>9. Connector!TypeOK'
  <2>1. reopens' \in [Connector!Jobs -> 0 .. Connector!MaxOpens]
    BY <1>1, <1>3, <1>6, <1>7, ConnectorTypes
  <2>2. /\ job' \in [Connector!Jobs -> {"none", "refused", "pending", "claimed"}
                                         \cup Connector!Finished]
        /\ owner' \in [Connector!Jobs -> Sessions \cup {None}]
    BY <1>1, <1>2 DEF Connector!TypeOK
  <2> QED BY <1>1, <1>3, <1>4, <1>8, <2>1, <2>2 DEF Connector!TypeOK
<1>10. CarriesItsJob'
  BY <1>1, <1>3, <1>8, ConnectorTypes DEF CarriesItsJob
<1>11. Connector!DispatchedWasTaken'
  BY <1>1, <1>2, <1>3 DEF ConnectorInv, Connector!DispatchedWasTaken, CarriesItsJob
<1>12. EachClaimOnce'
  <2> SUFFICES ASSUME NEW i \in Connector!Jobs
               PROVE  taken[i] + Cardinality(Senders(i)') <= ClaimsOf(i)'
    BY <1>3 DEF EachClaimOnce
  <2>1. /\ Senders(i) \in SUBSET Sessions /\ s \notin Senders(i)
        /\ i # j => Senders(i)' = Senders(i)
        /\ i = j => Senders(i)' \in {Senders(i), Senders(i) \cup {s}}
    BY <1>3, <1>8 DEF Senders
  <2>2. /\ Cardinality(Senders(i)) \in Nat
        /\ Cardinality(Senders(i)') <= Cardinality(Senders(i)) + (IF i = j THEN 1 ELSE 0)
        /\ Cardinality(Senders(i)') \in Nat
    BY <2>1, Countable
  <2>3. taken[i] \in Nat /\ reopens[i] \in Nat
    BY <1>1, ConnectorTypes
  <2>4. ClaimsOf(i)' \in Nat /\ ClaimsOf(i)' >= ClaimsOf(i) + (IF i = j THEN 1 ELSE 0)
    BY <1>1, <1>2, <1>7, <2>3 DEF ClaimsOf, Connector!Open, CarriesItsJob
  <2>5. ClaimsOf(i) \in Nat
    BY <2>3 DEF ClaimsOf
  <2> QED BY <1>1, <2>2, <2>3, <2>4, <2>5 DEF EachClaimOnce
<1>13. ReopensBounded'
  <2> SUFFICES ASSUME NEW i \in Connector!Jobs
               PROVE  reopens'[i] <= Limit' /\ (Loose(i)' => reopens'[i] < Limit')
    BY DEF ReopensBounded
  <2>1. CASE ~heard
    BY <1>6, <1>7, <2>1
  <2>2. CASE heard /\ i = j
    <3>1. Kept(j)'
      BY <1>2, <1>3, <1>5, <1>8, <2>2 DEF Kept
    <3> QED BY <1>3, <1>6, <1>7, <2>2, <3>1 DEF Loose
  <2>3. CASE heard /\ i # j
    <3>1. CASE i \in stale
      BY <1>2, <1>3, <1>6, <1>7, <2>3, <3>1 DEF Loose
    <3>2. CASE i \notin stale
      <4>1. Kept(i) => Kept(i)'
        <5> SUFFICES ASSUME NEW u \in Sessions, u \notin Gone, hand[u] = i, owner[i] = u,
                            step[u] # "notify"
                     PROVE  Kept(i)'
          BY DEF Kept
        <5>1. u # s
          BY <1>1, <1>3, ConnectorTypes
        <5>2. hand'[u] = i /\ step'[u] # "notify" /\ owner'[i] = u
          BY <1>2, <1>8, <2>3, <3>2, <5>1
        <5> QED BY <1>5, <5>2 DEF Kept
      <4>2. Loose(i)' => Loose(i)
        BY <1>2, <1>3, <2>3, <3>2, <4>1 DEF Loose
      <4> QED BY <1>1, <1>6, <1>7, <3>2, <4>2 DEF ReopensBounded
    <3> QED BY <3>1, <3>2
  <2> QED BY <2>1, <2>2, <2>3
<1> QED BY <1>9, <1>10, <1>11, <1>12, <1>13 DEF ConnectorInv

\* The bridge takes the turn or refuses it.
LEMMA SendTurnKeeps ==
  ASSUME ConnectorInv, NEW s \in Sessions, Connector!Send(s)
  PROVE  ConnectorInv'
<1>1. Connector!TypeOK /\ CarriesItsJob /\ ReopensBounded /\ EachClaimOnce
  BY DEF ConnectorInv
<1> DEFINE j == hand[s]
<1>2. /\ step[s] = "send" /\ j \in Connector!Jobs
      /\ UNCHANGED <<session, seen, works, job, owner, stale, late, hand, told, reopens,
                     faultsC>>
  BY <1>1 DEF Connector!Send, Connector!At, Connector!TypeOK, CarriesItsJob,
     Connector!sessions, Connector!jobs
<1>3. PICK p \in {"dispatched", "failed"} :
        /\ step' = [step EXCEPT ![s] = p]
        /\ p = "dispatched" => /\ taken' = [taken EXCEPT ![j] = @ + 1]
                               /\ takers' = [takers EXCEPT ![j] = @ \cup {s}]
        /\ p = "failed" => UNCHANGED <<taken, takers>>
  BY DEF Connector!Send, Connector!Go
<1>4. /\ step' \in [Sessions -> {"off", "detect", "poll", "send", "dispatched", "failed",
                                "notify"}]
      /\ step'[s] = p /\ \A u \in Sessions : u # s => step'[u] = step[u]
  BY <1>1, <1>3 DEF Connector!TypeOK
<1>5. Gone' = Gone /\ Limit' = Limit /\ \A i \in Connector!Jobs : Loose(i)' => Loose(i)
  <2>1. Gone' = Gone
    BY <1>2 DEF Gone, Connector!Authentic
  <2>2. \A i \in Connector!Jobs : Kept(i) => Kept(i)'
    BY <1>2, <1>4, <2>1 DEF Kept
  <2> QED BY <1>2, <2>1, <2>2 DEF Limit, Loose
<1>6. /\ takers' \in [Connector!Jobs -> SUBSET Sessions]
      /\ \A i \in Connector!Jobs : takers[i] \subseteq takers'[i]
      /\ p = "dispatched" => s \in takers'[j]
  BY <1>1, <1>2, <1>3 DEF Connector!TypeOK
<1>7. \A i \in Connector!Jobs :
        /\ taken'[i] \in Nat
        /\ taken'[i] + Cardinality(Senders(i)') <= ClaimsOf(i)
        /\ Cardinality(Senders(i)') \in Nat
  <2> SUFFICES ASSUME NEW i \in Connector!Jobs PROVE <1>7!(i)
    OBVIOUS
  <2>1. /\ Senders(i) \in SUBSET Sessions
        /\ Senders(i)' = IF i = j THEN Senders(i) \ {s} ELSE Senders(i)
        /\ i = j => s \in Senders(i)
    BY <1>2, <1>4 DEF Senders
  <2>2. /\ Cardinality(Senders(i)) \in Nat /\ Cardinality(Senders(i)') \in Nat
        /\ Cardinality(Senders(i)') = Cardinality(Senders(i)) - (IF i = j THEN 1 ELSE 0)
    <3>1. Senders(i) \ {s} \in SUBSET Sessions
      BY <2>1
    <3> QED BY <2>1, <3>1, Countable
  <2>3. /\ taken[i] \in Nat /\ reopens[i] \in Nat
        /\ taken'[i] \in {taken[i], taken[i] + (IF i = j THEN 1 ELSE 0)}
    BY <1>1, <1>2, <1>3, ConnectorTypes DEF Connector!TypeOK
  <2> QED BY <1>1, <2>2, <2>3 DEF EachClaimOnce, ClaimsOf
<1>8. taken' \in [Connector!Jobs -> 0 .. Connector!MaxOpens + 1]
  <2>1. \A i \in Connector!Jobs : taken'[i] <= Connector!MaxOpens + 1
    <3> SUFFICES ASSUME NEW i \in Connector!Jobs PROVE taken'[i] <= Connector!MaxOpens + 1
      OBVIOUS
    <3>1. reopens[i] \in 0 .. Connector!MaxOpens /\ Connector!MaxOpens \in Nat
      BY <1>1, ConnectorTypes DEF Connector!TypeOK
    <3> QED BY <1>7, <3>1 DEF ClaimsOf
  <2>2. \E f : taken' = [i \in Connector!Jobs |-> f[i]]
    BY <1>1, <1>2, <1>3 DEF Connector!TypeOK
  <2> QED BY <1>1, <1>7, <2>1, <2>2, ConnectorTypes
<1>9. Connector!TypeOK'
  BY <1>1, <1>2, <1>4, <1>6, <1>8 DEF Connector!TypeOK
<1>10. CarriesItsJob' /\ Connector!DispatchedWasTaken'
  <2>1. \A u \in Sessions : step'[u] = "dispatched" => u \in takers'[hand[u]]
    <3>1. \A u \in Sessions : step[u] = "dispatched" => hand[u] \in Connector!Jobs
      BY <1>1 DEF CarriesItsJob, Connector!TypeOK
    <3> QED BY <1>1, <1>4, <1>6, <3>1 DEF CarriesItsJob
  <2>2. \A u \in Sessions : hand[u] = None <=> step'[u] \in {"off", "detect", "poll"}
    BY <1>1, <1>2, <1>4 DEF CarriesItsJob
  <2> QED BY <1>1, <1>2, <1>6, <2>1, <2>2 DEF CarriesItsJob, ConnectorInv,
             Connector!DispatchedWasTaken
<1>11. EachClaimOnce'
  BY <1>2, <1>7 DEF EachClaimOnce, ClaimsOf
<1>12. ReopensBounded'
  BY <1>1, <1>2, <1>5, BoundStays, ConnectorTypes
<1> QED BY <1>9, <1>10, <1>11, <1>12 DEF ConnectorInv

\* A report that the store hears settles the job under the session that holds it.
LEMMA FinishShape ==
  ASSUME Connector!TypeOK, CarriesItsJob, NEW s \in Sessions, hand[s] \in Connector!Jobs,
         NEW status \in Connector!Finished, Connector!Finish(s, status)
  PROVE  /\ job' \in [Connector!Jobs -> {"none", "refused", "pending", "claimed"}
                                         \cup Connector!Finished]
         /\ job'[hand[s]] = status
         /\ \A i \in Connector!Jobs : i # hand[s] => job'[i] = job[i]
         /\ stale' = stale \ {hand[s]} /\ seen' \subseteq Sessions
         /\ UNCHANGED <<session, works, owner>>
BY DEF Connector!Finish, Connector!TypeOK, CarriesItsJob

\* A connector goes on with its job, or gives it up once it was reported on, was
\* lost to another, or a fault came in between.
LEMMA ReportStep ==
  ASSUME ConnectorInv, Connector!TypeOK', NEW s \in Sessions,
         UNCHANGED <<late, taken, takers, session, owner, reopens>>,
         faultsC' \in Nat, faultsC <= faultsC',
         step[s] \notin {"off", "detect", "poll"},
         \A u \in Sessions : u # s => step'[u] = step[u] /\ hand'[u] = hand[u],
         step'[s] \notin {"send", "dispatched"},
         hand'[s] \in {None, hand[s]},
         hand'[s] = None <=> step'[s] \in {"off", "detect", "poll"},
         \/ UNCHANGED <<job, stale>>
         \/ \E status \in Connector!Finished :
              /\ job'[hand[s]] = status /\ stale' = stale \ {hand[s]}
              /\ \A i \in Connector!Jobs : i # hand[s] => job'[i] = job[i]
              /\ status = "dispatched" => owner[hand[s]] \in takers[hand[s]],
         \/ faultsC < faultsC'
         \/ hand'[s] = hand[s] /\ step'[s] = "failed"
         \/ step[s] = "notify" \/ s \in Gone \/ owner[hand[s]] # s
         \/ job'[hand[s]] \in Connector!Finished
  PROVE  ConnectorInv'
<1>1. Connector!TypeOK /\ CarriesItsJob /\ ReopensBounded /\ EachClaimOnce
  BY DEF ConnectorInv
<1>2. hand[s] \in Connector!Jobs
  BY <1>1 DEF Connector!TypeOK, CarriesItsJob
<1>3. CarriesItsJob'
  <2>1. \A j \in stale' : job'[j] = "claimed"
    BY <1>1, <1>2 DEF CarriesItsJob, Connector!TypeOK
  <2>2. \A u \in Sessions : step'[u] = "dispatched" => u \in takers'[hand'[u]]
    BY <1>1 DEF CarriesItsJob
  <2>3. \A u \in Sessions : hand'[u] = None <=> step'[u] \in {"off", "detect", "poll"}
    BY <1>1 DEF CarriesItsJob
  <2> QED BY <2>1, <2>2, <2>3 DEF CarriesItsJob
<1>4. Connector!DispatchedWasTaken'
  BY <1>2 DEF ConnectorInv, Connector!DispatchedWasTaken, Connector!Finished
<1>5. EachClaimOnce'
  <2>1. \A j \in Connector!Jobs : Senders(j)' \subseteq Senders(j)
    BY DEF Senders
  <2>2. \A j \in Connector!Jobs : ClaimsOf(j)' \in Nat /\ ClaimsOf(j) <= ClaimsOf(j)'
    BY <1>1, <1>2, ConnectorTypes DEF ClaimsOf, Connector!Finished
  <2> QED BY <1>1, <2>1, <2>2, CountStays
<1>6. Gone' = Gone
  BY DEF Gone, Connector!Authentic
<1>7. ASSUME ~(faultsC < faultsC'), NEW j \in Connector!Jobs, Loose(j)' PROVE Loose(j)
  <2>1. CASE j \in stale'
    BY <2>1 DEF Loose
  <2>2. CASE j \notin stale' /\ ~Kept(j)
    BY <1>2, <1>7, <2>2 DEF Loose, Connector!Finished
  <2>3. CASE j \notin stale' /\ Kept(j)
    <3>1. PICK u \in Sessions : /\ u \notin Gone /\ hand[u] = j /\ owner[j] = u
                                /\ step[u] # "notify"
      BY <2>3 DEF Kept
    <3>2. u # s => Kept(j)'
      BY <1>6, <3>1 DEF Kept
    <3>3. u = s => Kept(j)' \/ job'[j] \in Connector!Finished
      BY <1>6, <1>7, <3>1 DEF Kept
    <3> QED BY <1>7, <2>3, <3>2, <3>3 DEF Loose, Connector!Finished
  <2> QED BY <2>1, <2>2, <2>3
<1>8. ReopensBounded'
  BY <1>1, <1>6, <1>7, BoundStays, ConnectorTypes
<1> QED BY <1>3, <1>4, <1>5, <1>8 DEF ConnectorInv

\* The report of a dispatch is heard, refused or lost.
LEMMA ReportDispatchedKeeps ==
  ASSUME ConnectorInv, NEW s \in Sessions, Connector!ReportDispatched(s), faultsC' <= MaxLosses
  PROVE  ConnectorInv'
<1>1. Connector!TypeOK /\ CarriesItsJob
  BY DEF ConnectorInv
<1>2. /\ step[s] = "dispatched" /\ hand[s] \in Connector!Jobs /\ s \in takers[hand[s]]
      /\ UNCHANGED <<late, taken, takers, told, reopens>>
  BY <1>1 DEF Connector!ReportDispatched, Connector!At, CarriesItsJob, Connector!TypeOK,
     Connector!ghosts
<1>3. Connector!MayReport(s) => s \notin Gone /\ owner[hand[s]] = s
  BY DEF Connector!MayReport, Gone
<1>4. /\ UNCHANGED <<session, owner, works>> /\ faultsC' \in Nat /\ faultsC <= faultsC'
      /\ seen' \subseteq Sessions /\ stale' \subseteq Connector!Jobs
      /\ job' \in [Connector!Jobs -> {"none", "refused", "pending", "claimed"}
                                      \cup Connector!Finished]
      /\ \/ UNCHANGED <<job, stale>>
         \/ /\ job'[hand[s]] = "dispatched" /\ stale' = stale \ {hand[s]}
            /\ \A i \in Connector!Jobs : i # hand[s] => job'[i] = job[i]
            /\ owner[hand[s]] \in takers[hand[s]]
  <2>1. CASE UNCHANGED <<Connector!sessions, Connector!jobs>>
    BY <1>1, <2>1, ConnectorTypes DEF Connector!ReportDispatched, Connector!sessions,
       Connector!jobs, Connector!TypeOK
  <2>2. CASE Connector!MayReport(s) /\ Connector!Finish(s, "dispatched")
    <3>1. "dispatched" \in Connector!Finished
      BY DEF Connector!Finished
    <3>2. faultsC' \in Nat /\ faultsC <= faultsC'
      BY <1>1, ConnectorTypes DEF Connector!ReportDispatched
    <3> QED BY <1>1, <1>2, <1>3, <2>2, <3>1, <3>2, FinishShape DEF Connector!TypeOK
  <2> QED BY <2>1, <2>2 DEF Connector!ReportDispatched
<1>5. \/ /\ job'[hand[s]] \in Connector!Finished
         /\ step' = [step EXCEPT ![s] = "poll"] /\ hand' = [hand EXCEPT ![s] = None]
      \/ step' = [step EXCEPT ![s] = "failed"] /\ hand' = hand
  BY <1>1, <1>2 DEF Connector!ReportDispatched, Connector!Drop, Connector!Go,
     Connector!Finish, Connector!TypeOK, Connector!Finished
<1>6. /\ step' \in [Sessions -> {"off", "detect", "poll", "send", "dispatched", "failed",
                                "notify"}]
      /\ hand' \in [Sessions -> Connector!Jobs \cup {None}]
      /\ \A u \in Sessions : u # s => step'[u] = step[u] /\ hand'[u] = hand[u]
      /\ \/ /\ job'[hand[s]] \in Connector!Finished
            /\ step'[s] = "poll" /\ hand'[s] = None
         \/ step'[s] = "failed" /\ hand'[s] = hand[s]
  BY <1>1, <1>5 DEF Connector!TypeOK
<1>7. Connector!TypeOK'
  BY <1>1, <1>2, <1>4, <1>6, ConnectorTypes DEF Connector!TypeOK
<1>8. \E status \in Connector!Finished : status = "dispatched"
  BY DEF Connector!Finished
<1> QED BY <1>1, <1>2, <1>4, <1>6, <1>7, <1>8, ReportStep, ConnectorTypes

\* The report of a failure is heard or not; then the thread is told.
LEMMA ReportFailedKeeps ==
  ASSUME ConnectorInv, NEW s \in Sessions, Connector!ReportFailed(s), faultsC' <= MaxLosses
  PROVE  ConnectorInv'
<1>1. Connector!TypeOK /\ CarriesItsJob
  BY DEF ConnectorInv
<1>2. /\ step[s] = "failed" /\ hand[s] \in Connector!Jobs
      /\ step' = [step EXCEPT ![s] = "notify"]
      /\ UNCHANGED <<hand, late, taken, takers, told, reopens>>
  BY <1>1 DEF Connector!ReportFailed, Connector!At, Connector!Go, CarriesItsJob,
     Connector!TypeOK, Connector!ghosts
<1>3. /\ UNCHANGED <<session, owner, works>> /\ faultsC' \in Nat /\ faultsC <= faultsC'
      /\ seen' \subseteq Sessions /\ stale' \subseteq Connector!Jobs
      /\ job' \in [Connector!Jobs -> {"none", "refused", "pending", "claimed"}
                                      \cup Connector!Finished]
      /\ \/ UNCHANGED <<job, stale>>
         \/ /\ job'[hand[s]] = "failed" /\ stale' = stale \ {hand[s]}
            /\ \A i \in Connector!Jobs : i # hand[s] => job'[i] = job[i]
  <2>1. CASE UNCHANGED <<Connector!sessions, Connector!jobs>>
    BY <1>1, <2>1, ConnectorTypes DEF Connector!ReportFailed, Connector!sessions,
       Connector!jobs, Connector!TypeOK
  <2>2. CASE Connector!MayReport(s) /\ Connector!Finish(s, "failed")
    <3>1. "failed" \in Connector!Finished
      BY DEF Connector!Finished
    <3>2. faultsC' \in Nat /\ faultsC <= faultsC'
      BY <1>1, ConnectorTypes DEF Connector!ReportFailed
    <3> QED BY <1>1, <1>2, <2>2, <3>1, <3>2, FinishShape DEF Connector!TypeOK
  <2> QED BY <2>1, <2>2 DEF Connector!ReportFailed
<1>4. \/ faultsC < faultsC' \/ s \in Gone \/ owner[hand[s]] # s
      \/ job'[hand[s]] \in Connector!Finished
  BY <1>1, <1>2, ConnectorTypes DEF Connector!ReportFailed, Connector!MayReport, Gone,
     Connector!Finish, Connector!TypeOK, Connector!Finished
<1>5. /\ step' \in [Sessions -> {"off", "detect", "poll", "send", "dispatched", "failed",
                                "notify"}]
      /\ step'[s] = "notify" /\ \A u \in Sessions : u # s => step'[u] = step[u]
  BY <1>1, <1>2 DEF Connector!TypeOK
<1>6. Connector!TypeOK'
  BY <1>1, <1>2, <1>3, <1>5, ConnectorTypes DEF Connector!TypeOK
<1>7. "failed" \in Connector!Finished /\ "failed" # "dispatched" /\ hand[s] # None
  BY <1>1, <1>2, ConnectorTypes DEF Connector!Finished
<1> QED BY <1>1, <1>2, <1>3, <1>4, <1>5, <1>6, <1>7, ReportStep, ConnectorTypes

\* A connector tells the thread, or dies with what it carries.
LEMMA LetGoKeeps ==
  ASSUME ConnectorInv, NEW s \in Sessions, Connector!Notify(s) \/ Connector!Quit(s)
  PROVE  ConnectorInv'
<1>1. Connector!TypeOK /\ CarriesItsJob
  BY DEF ConnectorInv
<1>2. /\ UNCHANGED <<session, seen, works, job, owner, stale, late, taken, takers, reopens>>
      /\ hand' = [hand EXCEPT ![s] = None]
      /\ \E p \in {"poll", "off"} : step' = [step EXCEPT ![s] = p]
  BY DEF Connector!Notify, Connector!Quit, Connector!Drop, Connector!Go,
     Connector!sessions, Connector!jobs, Connector!ghosts
<1>3. /\ faultsC' \in Nat /\ faultsC <= faultsC' /\ faultsC' <= MaxLosses
      /\ step[s] = "notify" \/ faultsC < faultsC'
  BY <1>1, ConnectorTypes DEF Connector!Notify, Connector!Quit, Connector!At
<1>4. /\ step' \in [Sessions -> {"off", "detect", "poll", "send", "dispatched", "failed",
                                "notify"}]
      /\ hand' \in [Sessions -> Connector!Jobs \cup {None}]
      /\ step'[s] \in {"poll", "off"} /\ hand'[s] = None
      /\ \A u \in Sessions : u # s => step'[u] = step[u] /\ hand'[u] = hand[u]
  BY <1>1, <1>2 DEF Connector!TypeOK
<1>5. told' \subseteq Connector!Jobs
  BY <1>1 DEF Connector!Notify, Connector!Quit, Connector!At, Connector!TypeOK,
     CarriesItsJob, Connector!ghosts
<1>6. Connector!TypeOK'
  BY <1>1, <1>2, <1>3, <1>4, <1>5, ConnectorTypes DEF Connector!TypeOK
<1>7. CASE step[s] \notin {"off", "detect", "poll"}
  BY <1>1, <1>2, <1>3, <1>4, <1>6, <1>7, ReportStep
<1>8. CASE step[s] \in {"off", "detect", "poll"}
  <2>1. hand' = hand
    BY <1>1, <1>2, <1>8 DEF CarriesItsJob, Connector!TypeOK
  <2>2. Gone' = Gone
    BY <1>2 DEF Gone, Connector!Authentic
  <2> QED BY <1>2, <1>3, <1>4, <1>6, <1>8, <2>1, <2>2, SessionStep
<1> QED BY <1>7, <1>8

\* Every step of the queue keeps its inductive invariant.
LEMMA ConnectorStep == ConnectorInv /\ [Connector!Next]_connectorVars => ConnectorInv'
<1> SUFFICES ASSUME ConnectorInv, [Connector!Next]_connectorVars PROVE ConnectorInv'
  OBVIOUS
<1>1. CASE UNCHANGED connectorVars
  <2>1. Connector!TypeOK' /\ CarriesItsJob' /\ Connector!DispatchedWasTaken'
    BY <1>1 DEF connectorVars, ConnectorInv, Connector!TypeOK, CarriesItsJob,
       Connector!DispatchedWasTaken
  <2>2. Gone' = Gone /\ \A j : Senders(j)' = Senders(j)
    BY <1>1 DEF connectorVars, Gone, Connector!Authentic, Senders
  <2>3. EachClaimOnce' /\ ReopensBounded'
    BY <1>1, <2>2 DEF connectorVars, ConnectorInv, EachClaimOnce, ClaimsOf,
       ReopensBounded, Loose, Kept, Limit
  <2> QED BY <2>1, <2>3 DEF ConnectorInv
<1>2. ASSUME NEW s \in Sessions, Connector!Step(s) PROVE ConnectorInv'
  <2>1. faultsC \in Nat /\ faultsC <= MaxLosses /\ MaxLosses \in Nat
    BY ConnectorTypes DEF ConnectorInv
  <2>2. Connector!ReportDispatched(s) \/ Connector!ReportFailed(s) => faultsC' <= MaxLosses
    BY <2>1 DEF Connector!ReportDispatched, Connector!ReportFailed
  <2> QED BY <1>2, <2>2, ClaimKeeps, SendTurnKeeps, ReportDispatchedKeeps,
             ReportFailedKeeps, LetGoKeeps DEF Connector!Step
<1>3. ASSUME NEW s \in Sessions, faultsC < MaxLosses, Connector!Claim(s, FALSE)
      PROVE  ConnectorInv'
  BY <1>3, ClaimKeeps
<1> QED
  BY <1>1, <1>2, <1>3, SessionsKeep, LetGoKeeps, JobsKeep DEF Connector!Next

\* The inductive invariant of the queue holds along every behaviour.
LEMMA ConnectorInvAlways == Connector!Spec => []ConnectorInv
<1>1. Connector!Init => ConnectorInv
  BY ConnectorInit
<1>2. ConnectorInv /\ [Connector!Next]_(Connector!vars) => ConnectorInv'
  BY ConnectorStep DEF Connector!vars, Connector!sessions, Connector!jobs,
     Connector!ghosts, connectorVars
<1> QED BY <1>1, <1>2, PTL DEF Connector!Spec

\* A turn runs once for every time it was queued and is recorded as dispatched
\* under a bridge that took it, for any connectors, turns and faults.
THEOREM ConnectorHoldsAlways == Connector!Spec => []ConnectorHolds
BY ConnectorInvAlways, ConnectorInvHolds, PTL

\* A step keeps every job that was reported on reported on.
LEMMA FinishedStand ==
  ASSUME ConnectorInv, [Connector!Next]_connectorVars
  PROVE  \A j \in Connector!Jobs :
           job[j] \in Connector!Finished => job'[j] \in Connector!Finished
<1> SUFFICES ASSUME NEW j \in Connector!Jobs, job[j] \in Connector!Finished
             PROVE  job'[j] \in Connector!Finished
  OBVIOUS
<1>1. /\ j \notin stale /\ job[j] \notin {"none", "pending"}
      /\ job \in [Connector!Jobs -> {"none", "refused", "pending", "claimed"}
                                    \cup Connector!Finished]
  BY DEF ConnectorInv, CarriesItsJob, Connector!Finished, Connector!TypeOK
<1>2. ASSUME NEW s \in Sessions, NEW heard \in BOOLEAN, Connector!Claim(s, heard)
      PROVE  job'[j] \in Connector!Finished
  BY <1>1, <1>2 DEF Connector!Claim, Connector!Open
<1>3. ASSUME NEW i \in Connector!Jobs, Connector!Enqueue(i)
      PROVE  job'[j] \in Connector!Finished
  BY <1>1, <1>3 DEF Connector!Enqueue
<1>4. ASSUME NEW s \in Sessions, Connector!ReportDispatched(s) \/ Connector!ReportFailed(s)
      PROVE  job'[j] \in Connector!Finished
  BY <1>1, <1>4 DEF Connector!ReportDispatched, Connector!ReportFailed, Connector!Finish,
     Connector!jobs, Connector!Finished
<1> QED
  BY <1>2, <1>3, <1>4 DEF Connector!Next, connectorVars, Connector!Step, Connector!Start,
     Connector!Detect, Connector!Heartbeat, Connector!Revoke, Connector!Quit,
     Connector!NotSeen, Connector!RunsOut, Connector!GoesStale, Connector!Send,
     Connector!Notify, Connector!jobs

\* A job that was reported on is never queued again.
THEOREM FinishedStaysHolds == Connector!Spec => Connector!FinishedStays
<1>1. ConnectorInv /\ [Connector!Next]_(Connector!vars) =>
        [\A j \in Connector!Jobs : job[j] \in Connector!Finished
           => job'[j] \in Connector!Finished]_(Connector!vars)
  BY FinishedStand DEF Connector!vars, Connector!sessions, Connector!jobs,
     Connector!ghosts, connectorVars
<1> QED BY ConnectorInvAlways, <1>1, PTL DEF Connector!Spec, Connector!FinishedStays

-------------------------------------------------------------------------------
(* The delivery records: what is on disk, and who may rely on it           *)

\* A call that has the whole directory on disk and has not returned.
AtWork == {"open", "write", "sync", "link", "sync_name", "compare", "unlink"}

\* The directory of a record, and of every record that has its name on disk.
PathOnDisk ==
  /\ safeDirs \subseteq 1 .. made
  /\ safeNames \subseteq Delivery!Linked
  /\ Delivery!Linked # {} => safeDirs = Delivery!Components

\* A name is linked to a whole and synced file of its own key, whose call is past
\* the link.
Named(k) ==
  /\ call[final[k]].key = k
  /\ data[final[k]] = "full" /\ final[k] \in safeData
  /\ call[final[k]].pc \in {"sync_name", "unlink", "returned", "dead"}

\* What a call has achieved when it is at a statement.
Achieved(c) ==
  LET me == call[c] IN
  /\ me.pc = "idle" => me.at = 1
  /\ me.pc \in {"path", "sync_path"} => 1 .. (me.at - 1) \subseteq safeDirs
  /\ me.pc = "sync_path" => me.at <= made
  /\ me.pc \in AtWork => safeDirs = Delivery!Components
  /\ me.pc \in {"sync", "link"} => data[c] = "full"
  /\ me.pc = "link" => c \in safeData
  /\ me.pc = "sync_name" => final[me.key] = c
  /\ me.pc \in {"compare", "unlink", "returned"} => final[me.key] # None
  /\ me.pc = "returned" => me.key \in safeNames

\* What the verdict of a call says of the record in place.
Judged(c) ==
  LET me == call[c] IN
  me.pc \in {"unlink", "returned"} =>
    /\ me.result = "created" => final[me.key] = c
    /\ me.result = "existed" => call[final[me.key]].msg = me.msg
    /\ me.result = "conflict" => call[final[me.key]].msg # me.msg

\* What the proofs about the delivery records carry along.
DeliveryInv ==
  /\ Delivery!TypeOK
  /\ PathOnDisk
  /\ \A k \in Delivery!Linked : Named(k)
  /\ \A c \in Calls : Achieved(c) /\ Judged(c)

\* Nothing is there before the first call.
LEMMA DeliveryInit == Delivery!Init => DeliveryInv
<1> SUFFICES ASSUME Delivery!Init PROVE DeliveryInv
  OBVIOUS
<1>1. Depth \in Nat \ {0}
  BY DeliveryIs DEF Delivery!DeliveryAssumption
<1>2. Delivery!TypeOK
  BY <1>1 DEF Delivery!Init, Delivery!TypeOK, Delivery!Components
<1>3. Delivery!Linked = {} /\ PathOnDisk
  BY DEF Delivery!Init, PathOnDisk, Delivery!Linked
<1>4. \A c \in Calls : Achieved(c) /\ Judged(c)
  BY DEF Delivery!Init, Achieved, Judged, AtWork
<1> QED BY <1>2, <1>3, <1>4 DEF DeliveryInv

\* The inductive invariant says what a run checks of the records.
LEMMA DeliveryInvHolds == DeliveryInv => DeliveryHolds
<1> SUFFICES ASSUME DeliveryInv PROVE DeliveryHolds
  OBVIOUS
<1>1. Delivery!NoPartialRecord
  BY DEF DeliveryInv, Named, Delivery!NoPartialRecord
<1>2. \A c \in Calls : call[c].key \in Keys /\ call[c].pc = "returned" =>
        final[call[c].key] # None
  BY DEF DeliveryInv, Achieved
<1>3. Delivery!AcknowledgedIsKept
  <2> SUFFICES ASSUME NEW c \in Calls, call[c].pc = "returned",
                      call[c].result \in {"created", "existed"}
               PROVE  /\ final[call[c].key] # None
                      /\ call[final[call[c].key]].msg = call[c].msg
    BY DEF Delivery!AcknowledgedIsKept, Delivery!Acknowledged, Delivery!At, Delivery!Succeeded
  <2>1. final[call[c].key] # None /\ Judged(c)
    BY DEF DeliveryInv, Achieved
  <2> QED BY <2>1 DEF Judged
<1>4. Delivery!OneCreator
  BY DEF DeliveryInv, Judged, Delivery!OneCreator, Delivery!At
<1>5. Delivery!ConflictStands
  BY DEF DeliveryInv, Judged, Achieved, Delivery!ConflictStands, Delivery!At
<1> QED BY <1>1, <1>3, <1>4, <1>5 DEF DeliveryInv, DeliveryHolds

\* What a call has achieved stays achieved while others add to what is there.
LEMMA AchievedStands ==
  ASSUME DeliveryInv, NEW c \in Calls, call'[c] = call[c], data'[c] = data[c],
         made' \in Nat, made <= made', safeDirs \subseteq safeDirs',
         safeDirs' \subseteq Delivery!Components,
         safeData \subseteq safeData', safeNames \subseteq safeNames',
         \A k \in Keys : final[k] # None => final'[k] = final[k],
         \A d \in Calls : call'[d].msg = call[d].msg
  PROVE  Achieved(c)' /\ Judged(c)'
<1> DEFINE k == call[c].key
<1>1. /\ call[c].at \in Nat /\ k \in Keys /\ made \in Nat
      /\ Delivery!Components' = Delivery!Components
      /\ final[k] # None => final[k] \in Calls
  BY DeliveryIs DEF DeliveryInv, Delivery!TypeOK, Delivery!Components, Delivery!DeliveryAssumption
<1>2. Achieved(c) /\ Judged(c) /\ None \notin Calls
  BY DeliveryIs DEF DeliveryInv, Delivery!DeliveryAssumption
<1>3. Achieved(c)'
  <2>1. safeDirs = Delivery!Components => safeDirs' = Delivery!Components'
    BY <1>1
  <2>2. call[c].at <= made => call[c].at <= made'
    BY <1>1
  <2>3. final[k] \in Calls => final'[k] = final[k]
    BY <1>1, <1>2
  <2>4. final[k] # None => final'[k] # None
    BY <1>1
  <2>5. k \in safeNames => k \in safeNames'
    OBVIOUS
  <2> QED BY <1>1, <1>2, <2>1, <2>2, <2>3, <2>4, <2>5 DEF Achieved, AtWork
<1>4. Judged(c)'
  BY <1>1, <1>2 DEF Achieved, Judged
<1> QED BY <1>3, <1>4

\* Where a call is on its way to the directory, it steps on alone.
LEMMA OnThePath ==
  ASSUME DeliveryInv, NEW c \in Calls,
         \/ Delivery!Begin(c) \/ Delivery!MakeComponent(c) \/ Delivery!SyncComponent(c)
         \/ Delivery!OpenTemporary(c) \/ Delivery!WriteRecord(c) \/ Delivery!SyncRecord(c)
         \/ Delivery!SyncName(c) \/ Delivery!CompareRecord(c) \/ Delivery!UnlinkTemporary(c)
         \/ Delivery!ProcessDies(c)
  PROVE  DeliveryInv'
<1> USE DEF Delivery!volatile, Delivery!disk, Delivery!At, Delivery!Go, Delivery!Settle
<1>t. /\ Delivery!TypeOK /\ Depth \in Nat \ {0} /\ None \notin Calls
      /\ Delivery!Components = 1 .. Depth /\ Delivery!Linked \subseteq Keys
      /\ Achieved(c) /\ Judged(c) /\ PathOnDisk
  BY DeliveryIs DEF DeliveryInv, Delivery!DeliveryAssumption, Delivery!Components,
     Delivery!Linked
<1>u. /\ call[c].at \in 1 .. Depth /\ call[c].key \in Keys /\ made \in 0 .. Depth
      /\ final \in [Keys -> Calls \cup {None}]
      /\ \A d \in Calls : call[d].msg \in Messages
  BY <1>t DEF Delivery!TypeOK
<1>1. Delivery!TypeOK'
  <2>0. call \in [Calls -> [pc     : {"idle", "path", "sync_path", "open", "write",
                                   "sync", "link", "sync_name", "compare",
                                   "unlink", "returned", "dead"},
                         at     : Delivery!Components,
                         key    : Keys,
                         msg    : Messages,
                         result : {"none", "conflict"} \cup Delivery!Succeeded]]
    BY <1>t DEF Delivery!TypeOK
  <2>1. call' \in [Calls -> [pc     : {"idle", "path", "sync_path", "open", "write",
                                   "sync", "link", "sync_name", "compare",
                                   "unlink", "returned", "dead"},
                         at     : Delivery!Components,
                         key    : Keys,
                         msg    : Messages,
                         result : {"none", "conflict"} \cup Delivery!Succeeded]]
    <3>1. CASE Delivery!SyncComponent(c)
      <4>1. call[c].at # Depth => call[c].at + 1 \in Delivery!Components
        BY <1>t, <1>u
      <4>2. CASE call[c].at = Depth
        BY <2>0, <3>1, <4>2 DEF Delivery!SyncComponent
      <4>3. CASE call[c].at # Depth
        BY <2>0, <3>1, <4>1, <4>3 DEF Delivery!SyncComponent
      <4> QED BY <4>2, <4>3
    <3>2. CASE Delivery!SyncName(c) \/ Delivery!CompareRecord(c)
      BY <2>0, <3>2 DEF Delivery!SyncName, Delivery!CompareRecord, Delivery!Succeeded
    <3>3. CASE ~Delivery!SyncComponent(c) /\ ~(Delivery!SyncName(c) \/ Delivery!CompareRecord(c))
      <4>1. \E to \in {"path", "sync_path", "write", "sync", "link", "returned", "dead"} :
              call' = [call EXCEPT ![c].pc = to]
        BY <3>3 DEF Delivery!Begin, Delivery!MakeComponent, Delivery!OpenTemporary,
           Delivery!WriteRecord, Delivery!SyncRecord, Delivery!UnlinkTemporary,
           Delivery!ProcessDies
      <4> QED BY <2>0, <4>1
    <3> QED BY <3>1, <3>2, <3>3
  <2>2. data' \in [Calls -> {"none", "partial", "full"}]
    <3>1. data \in [Calls -> {"none", "partial", "full"}]
      BY <1>t DEF Delivery!TypeOK
    <3> QED BY <3>1 DEF Delivery!Begin, Delivery!MakeComponent,
       Delivery!SyncComponent, Delivery!OpenTemporary, Delivery!WriteRecord,
       Delivery!SyncRecord, Delivery!SyncName, Delivery!CompareRecord,
       Delivery!UnlinkTemporary, Delivery!ProcessDies
  <2>3. made' \in 0 .. Depth
    BY <1>t, <1>u DEF Delivery!Begin, Delivery!MakeComponent,
       Delivery!SyncComponent, Delivery!OpenTemporary, Delivery!WriteRecord,
       Delivery!SyncRecord, Delivery!SyncName, Delivery!CompareRecord,
       Delivery!UnlinkTemporary, Delivery!ProcessDies
  <2>4. /\ final' \in [Keys -> Calls \cup {None}]
        /\ safeDirs' \subseteq Delivery!Components
        /\ safeData' \subseteq Calls
    <3>1. safeDirs \subseteq Delivery!Components /\ safeData \subseteq Calls
      BY <1>t DEF Delivery!TypeOK
    <3> QED BY <1>t, <1>u, <3>1 DEF Delivery!Begin, Delivery!MakeComponent,
       Delivery!SyncComponent, Delivery!OpenTemporary, Delivery!WriteRecord,
       Delivery!SyncRecord, Delivery!SyncName, Delivery!CompareRecord,
       Delivery!UnlinkTemporary, Delivery!ProcessDies
  <2>5. safeNames' \subseteq Keys
    <3>1. safeNames \subseteq Keys
      BY <1>t DEF Delivery!TypeOK
    <3> QED BY <1>t, <3>1 DEF Delivery!Begin, Delivery!MakeComponent,
       Delivery!SyncComponent, Delivery!OpenTemporary, Delivery!WriteRecord,
       Delivery!SyncRecord, Delivery!SyncName, Delivery!CompareRecord,
       Delivery!UnlinkTemporary, Delivery!ProcessDies
  <2> QED BY <2>1, <2>2, <2>3, <2>4, <2>5 DEF Delivery!TypeOK
<1>2. /\ final' = final /\ made <= made' /\ made' \in Nat
      /\ safeDirs \subseteq safeDirs' /\ safeData \subseteq safeData'
      /\ safeNames \subseteq safeNames' /\ safeDirs' \subseteq Delivery!Components
      /\ \A d \in Calls \ {c} : call'[d] = call[d] /\ data'[d] = data[d]
      /\ call'[c].key = call[c].key /\ call'[c].msg = call[c].msg
  BY <1>t, <1>u DEF Delivery!TypeOK, Delivery!Begin, Delivery!MakeComponent,
     Delivery!SyncComponent, Delivery!OpenTemporary, Delivery!WriteRecord,
     Delivery!SyncRecord, Delivery!SyncName, Delivery!CompareRecord,
     Delivery!UnlinkTemporary, Delivery!ProcessDies
<1>3. \A k \in Delivery!Linked : Named(k) /\ final[k] \in Calls
  BY <1>t, <1>u DEF DeliveryInv, Delivery!Linked
<1>4. Delivery!Linked' = Delivery!Linked /\ \A k \in Delivery!Linked' : Named(k)'
  <2>1. data' = data \/ call[c].pc \in {"open", "write"}
    BY <1>t DEF Delivery!Begin, Delivery!MakeComponent,
       Delivery!SyncComponent, Delivery!OpenTemporary, Delivery!WriteRecord,
       Delivery!SyncRecord, Delivery!SyncName, Delivery!CompareRecord,
       Delivery!UnlinkTemporary, Delivery!ProcessDies
  <2>2. call[c].pc \in {"sync_name", "unlink"} => call'[c].pc \in {"unlink", "returned", "dead"}
    BY <1>t DEF Delivery!TypeOK, Delivery!Begin, Delivery!MakeComponent,
       Delivery!SyncComponent, Delivery!OpenTemporary, Delivery!WriteRecord,
       Delivery!SyncRecord, Delivery!SyncName, Delivery!CompareRecord,
       Delivery!UnlinkTemporary, Delivery!ProcessDies
  <2>3. call[c].pc \notin {"returned", "dead"}
    BY <1>t DEF Delivery!Begin, Delivery!MakeComponent,
       Delivery!SyncComponent, Delivery!OpenTemporary, Delivery!WriteRecord,
       Delivery!SyncRecord, Delivery!SyncName, Delivery!CompareRecord,
       Delivery!UnlinkTemporary, Delivery!ProcessDies
  <2>4. Delivery!Linked' = Delivery!Linked
    BY <1>2 DEF Delivery!Linked
  <2>5. ASSUME NEW k \in Delivery!Linked PROVE Named(k)'
    <3>1. CASE final[k] = c
      <4>1. call[c].pc \in {"sync_name", "unlink"}
        BY <1>3, <2>3, <2>5, <3>1 DEF Named
      <4>2. data' = data
        BY <2>1, <4>1
      <4> QED BY <1>2, <1>3, <2>2, <2>5, <3>1, <4>1, <4>2 DEF Named
    <3>2. CASE final[k] # c
      BY <1>2, <1>3, <2>5, <3>2 DEF Named
    <3> QED BY <3>1, <3>2
  <2> QED BY <2>4, <2>5
<1>5. \A d \in Calls \ {c} : Achieved(d)' /\ Judged(d)'
  BY <1>2, AchievedStands
<1>6. PathOnDisk'
  <2>1. safeDirs' \subseteq 1 .. made'
    BY <1>t, <1>u DEF PathOnDisk, Achieved, Delivery!Begin, Delivery!MakeComponent,
       Delivery!SyncComponent, Delivery!OpenTemporary, Delivery!WriteRecord,
       Delivery!SyncRecord, Delivery!SyncName, Delivery!CompareRecord,
       Delivery!UnlinkTemporary, Delivery!ProcessDies
  <2>2. safeNames' \subseteq Delivery!Linked
    BY <1>t, <1>u DEF PathOnDisk, Delivery!Begin, Delivery!MakeComponent,
       Delivery!SyncComponent, Delivery!OpenTemporary, Delivery!WriteRecord,
       Delivery!SyncRecord, Delivery!SyncName, Delivery!CompareRecord,
       Delivery!UnlinkTemporary, Delivery!ProcessDies
  <2> QED BY <1>2, <1>4, <1>t, <2>1, <2>2 DEF PathOnDisk
<1>7. Achieved(c)' /\ Judged(c)'
  <2>e. call \in [Calls -> [pc : {"idle", "path", "sync_path", "open", "write",
                                   "sync", "link", "sync_name", "compare",
                                   "unlink", "returned", "dead"},
                         at     : Delivery!Components,
                         key    : Keys,
                         msg    : Messages,
                         result : {"none", "conflict"} \cup Delivery!Succeeded]]
    BY <1>t DEF Delivery!TypeOK
  <2>1. CASE Delivery!Begin(c)
    BY <1>t, <1>u, <2>e, <2>1 DEF Delivery!Begin, Achieved, Judged, AtWork
  <2>2. CASE Delivery!MakeComponent(c)
    BY <1>t, <1>u, <2>e, <2>2 DEF Delivery!MakeComponent, Achieved, Judged, AtWork
  <2>3. CASE Delivery!SyncComponent(c)
    <3> DEFINE n == call[c].at
    <3>1. /\ call[c].pc = "sync_path" /\ 1 .. (n - 1) \subseteq safeDirs
          /\ safeDirs' = safeDirs \cup {n} /\ safeDirs \subseteq 1 .. Depth
      BY <1>t, <2>3 DEF Delivery!SyncComponent, Achieved, Delivery!TypeOK
    <3>2. 1 .. n \subseteq safeDirs'
      BY <1>u, <3>1
    <3>3. CASE n = Depth
      <4>1. safeDirs' = Delivery!Components /\ Delivery!Components' = Delivery!Components
        BY <1>t, <1>u, <3>1, <3>2, <3>3 DEF Delivery!Components
      <4>2. call'[c].pc = "open"
        BY <2>e, <2>3, <3>3 DEF Delivery!SyncComponent
      <4> QED BY <4>1, <4>2 DEF Achieved, Judged, AtWork
    <3>4. CASE n # Depth
      <4>1. call'[c].pc = "path" /\ call'[c].at = n + 1
        BY <2>e, <2>3, <3>4 DEF Delivery!SyncComponent
      <4>2. 1 .. (call'[c].at - 1) \subseteq safeDirs'
        BY <1>u, <3>2, <4>1
      <4> QED BY <4>1, <4>2 DEF Achieved, Judged, AtWork
    <3> QED BY <3>3, <3>4
  <2>4. CASE Delivery!OpenTemporary(c)
    BY <1>t, <1>u, <2>e, <2>4 DEF Delivery!OpenTemporary, Achieved, Judged, AtWork
  <2>5. CASE Delivery!WriteRecord(c)
    BY <1>t, <1>u, <2>e, <2>5 DEF Delivery!WriteRecord, Delivery!TypeOK, Achieved, Judged, AtWork
  <2>6. CASE Delivery!SyncRecord(c)
    BY <1>t, <1>u, <2>e, <2>6 DEF Delivery!SyncRecord, Achieved, Judged, AtWork
  <2>7. CASE Delivery!SyncName(c)
    BY <1>t, <1>u, <2>e, <2>7 DEF Delivery!SyncName, Achieved, Judged, AtWork
  <2>8. CASE Delivery!CompareRecord(c)
    <3> DEFINE d == final[call[c].key]
    <3>1. d \in Calls
      BY <1>t, <1>u, <2>8 DEF Delivery!CompareRecord, Achieved
    <3>2. call'[d].msg = call[d].msg
      BY <1>2, <3>1
    <3> QED BY <1>t, <1>u, <1>2, <2>e, <2>8, <3>1, <3>2 DEF Delivery!CompareRecord, Achieved, Judged, AtWork
  <2>9. CASE Delivery!UnlinkTemporary(c)
    <3> DEFINE d == final[call[c].key]
    <3>1. d \in Calls
      BY <1>t, <1>u, <2>9 DEF Delivery!UnlinkTemporary, Achieved
    <3>2. call'[d].msg = call[d].msg
      BY <1>2, <3>1
    <3>3. call[c].key \in Delivery!Linked
      BY <1>t, <1>u, <2>9 DEF Delivery!UnlinkTemporary, Achieved, Delivery!Linked
    <3> QED BY <1>t, <1>u, <1>2, <2>e, <2>9, <3>1, <3>2, <3>3
            DEF Delivery!UnlinkTemporary, Achieved, Judged, AtWork
  <2>10. CASE Delivery!ProcessDies(c)
    BY <1>t, <1>u, <2>e, <2>10 DEF Delivery!ProcessDies, Achieved, Judged, AtWork
  <2> QED BY <2>1, <2>2, <2>3, <2>4, <2>5, <2>6, <2>7, <2>8, <2>9, <2>10
<1> QED BY <1>1, <1>4, <1>5, <1>6, <1>7 DEF DeliveryInv

\* The link is given to the first call that asks for the name.
LEMMA LinkFinalKeeps ==
  ASSUME DeliveryInv, NEW c \in Calls, Delivery!LinkFinal(c)
  PROVE  DeliveryInv'
<1> USE DEF Delivery!volatile, Delivery!disk, Delivery!At, Delivery!Go, Delivery!Settle
<1> DEFINE key == call[c].key
<1>t. /\ Delivery!TypeOK /\ Depth \in Nat \ {0} /\ None \notin Calls
      /\ Achieved(c) /\ Judged(c) /\ PathOnDisk /\ call[c].pc = "link"
  BY DeliveryIs DEF DeliveryInv, Delivery!DeliveryAssumption, Delivery!LinkFinal
<1>u. /\ key \in Keys /\ made \in 0 .. Depth
      /\ final \in [Keys -> Calls \cup {None}]
      /\ safeDirs = Delivery!Components /\ data[c] = "full" /\ c \in safeData
  BY <1>t DEF Delivery!TypeOK, Achieved, AtWork
<1>1. Delivery!TypeOK'
  <2>1. call' \in [Calls -> [pc     : {"idle", "path", "sync_path", "open", "write",
                                   "sync", "link", "sync_name", "compare",
                                   "unlink", "returned", "dead"},
                         at     : Delivery!Components,
                         key    : Keys,
                         msg    : Messages,
                         result : {"none", "conflict"} \cup Delivery!Succeeded]]
    <3>1. call \in [Calls -> [pc     : {"idle", "path", "sync_path", "open", "write",
                                   "sync", "link", "sync_name", "compare",
                                   "unlink", "returned", "dead"},
                         at     : Delivery!Components,
                         key    : Keys,
                         msg    : Messages,
                         result : {"none", "conflict"} \cup Delivery!Succeeded]]
      BY <1>t DEF Delivery!TypeOK
    <3> QED BY <3>1 DEF Delivery!LinkFinal
  <2>2. final' \in [Keys -> Calls \cup {None}]
    BY <1>u DEF Delivery!LinkFinal
  <2> QED BY <1>t, <2>1, <2>2 DEF Delivery!LinkFinal, Delivery!TypeOK, Delivery!Components
<1>2. /\ made' = made /\ made \in Nat /\ data' = data /\ safeDirs' = safeDirs
      /\ safeData' = safeData /\ safeNames' = safeNames
      /\ safeDirs \subseteq Delivery!Components
      /\ \A d \in Calls \ {c} : call'[d] = call[d]
      /\ call'[c].key = call[c].key /\ call'[c].msg = call[c].msg
      /\ \A k \in Keys : final[k] # None => final'[k] = final[k]
  BY <1>t, <1>u DEF Delivery!LinkFinal, Delivery!TypeOK
<1>3. \A d \in Calls \ {c} : Achieved(d)' /\ Judged(d)'
  BY <1>2, AchievedStands
<1>4. Achieved(c)' /\ Judged(c)'
  BY <1>t, <1>u DEF Delivery!LinkFinal, Delivery!TypeOK, Achieved, Judged, AtWork
<1>5. \A k \in Delivery!Linked' : Named(k)'
  <2> SUFFICES ASSUME NEW k \in Delivery!Linked' PROVE Named(k)'
    OBVIOUS
  <2>1. CASE k \in Delivery!Linked
    <3>1. /\ final[k] \in Calls /\ final'[k] = final[k] /\ Named(k) /\ final[k] # c
      BY <1>t, <1>u, <1>2, <2>1 DEF DeliveryInv, Delivery!Linked, Named
    <3> QED BY <1>2, <3>1 DEF Named
  <2>2. CASE k \notin Delivery!Linked
    <3>1. k = key /\ final'[k] = c /\ call'[c].pc = "sync_name"
      BY <1>t, <1>u, <2>2 DEF Delivery!LinkFinal, Delivery!Linked, Delivery!TypeOK
    <3> QED BY <1>2, <1>u, <3>1 DEF Named
  <2> QED BY <2>1, <2>2
<1>6. PathOnDisk'
  <2>1. Delivery!Linked \subseteq Delivery!Linked'
    BY <1>2, <1>u, <1>t DEF Delivery!Linked
  <2> QED BY <1>2, <1>t, <1>u, <2>1 DEF PathOnDisk, Delivery!Components
<1> QED BY <1>1, <1>3, <1>4, <1>5, <1>6 DEF DeliveryInv

\* The order of the numbers, as a relation one can descend along.
Below == {ss \in Nat \X Nat : ss[1] < ss[2]}

\* No number has an endless descent below it.
LEMMA BelowWellFounded == IsWellFoundedOn(Below, Nat)
BY NatLessThanWellFounded DEF OpToRel, Below

\* Some directory is the first whose successor is lost.
LEMMA FirstLost ==
  ASSUME NEW m \in Nat, NEW dirs \in SUBSET (1 .. m)
  PROVE  \E n \in 0 .. m : 1 .. n \subseteq dirs /\ (n = m \/ n + 1 \notin dirs)
<1> DEFINE Ends == {n \in 0 .. m : n = m \/ n + 1 \notin dirs}
<1>1. Ends \subseteq Nat /\ m \in Ends
  OBVIOUS
<1>2. Ends # {}
  BY <1>1
<1> HIDE DEF Ends
<1>3. PICK n \in Ends : \A i \in Ends : ~(<<i, n>> \in Below)
  BY ONLY <1>1, <1>2, BelowWellFounded, WFMin, Zenon
<1>4. n \in 0 .. m /\ (n = m \/ n + 1 \notin dirs)
  BY DEF Ends
<1>5. 1 .. n \subseteq dirs
  <2> SUFFICES ASSUME NEW i \in 1 .. n, i \notin dirs PROVE FALSE
    OBVIOUS
  <2>1. i - 1 \in Ends
    BY <1>4 DEF Ends
  <2>2. <<i - 1, n>> \in Below
    BY <1>4 DEF Below
  <2> QED BY <1>3, <2>1, <2>2
<1> QED BY <1>4, <1>5

\* What was synced is there when the machine is back, whatever else is lost.
LEMMA PowerLossKeeps == DeliveryInv /\ Delivery!PowerLoss => DeliveryInv'
<1> SUFFICES ASSUME DeliveryInv, Delivery!PowerLoss PROVE DeliveryInv'
  OBVIOUS
<1>t. /\ Delivery!TypeOK /\ Depth \in Nat \ {0} /\ None \notin Calls /\ PathOnDisk
      /\ Delivery!Components = 1 .. Depth /\ made \in 0 .. Depth
      /\ final \in [Keys -> Calls \cup {None}]
      /\ \A c \in Calls : Achieved(c) /\ Judged(c)
      /\ \A k \in Delivery!Linked : Named(k)
  BY DeliveryIs DEF DeliveryInv, Delivery!TypeOK, Delivery!DeliveryAssumption, Delivery!Components
<1>1. PICK dirs \in {d \in SUBSET (1 .. made) : safeDirs \cap (1 .. made) \subseteq d},
           names \in {n \in SUBSET Delivery!Linked : safeNames \subseteq n} :
       LET depth == CHOOSE n \in 0 .. made :
                      /\ 1 .. n \subseteq dirs
                      /\ n = made \/ n + 1 \notin dirs
           kept == IF depth = Depth THEN names ELSE {} IN
       /\ made' = depth
       /\ final' = [k \in Keys |-> IF k \in kept THEN final[k] ELSE None]
       /\ safeDirs' = 1 .. depth
       /\ safeNames' = kept
  BY DEF Delivery!PowerLoss
<1> DEFINE Ends(n) == 1 .. n \subseteq dirs /\ (n = made \/ n + 1 \notin dirs)
           depth == CHOOSE n \in 0 .. made : Ends(n)
           kept == IF depth = Depth THEN names ELSE {}
<1>2. depth \in 0 .. made /\ Ends(depth)
  <2>1. \E n \in 0 .. made : Ends(n)
    <3>1. made \in Nat /\ dirs \in SUBSET (1 .. made)
      BY <1>t
    <3> QED BY <3>1, FirstLost
  <2> HIDE DEF Ends
  <2> QED BY <2>1
<1>3. /\ made' = depth /\ safeDirs' = 1 .. depth /\ safeNames' = kept
      /\ final' = [k \in Keys |-> IF k \in kept THEN final[k] ELSE None]
  BY <1>1
<1> HIDE DEF depth
<1>4. /\ safeData' = safeData
      /\ data' = [c \in Calls |-> IF data[c] = "full" /\ c \notin safeData
                                  THEN "partial" ELSE data[c]]
      /\ call' = [c \in Calls |->
                   IF call[c].pc \in {"idle", "returned"} THEN call[c]
                   ELSE [call[c] EXCEPT !.pc = "dead"]]
  BY DEF Delivery!PowerLoss
<1>5. kept \subseteq Delivery!Linked /\ Delivery!Linked' = kept
  BY <1>t, <1>3 DEF Delivery!Linked
<1>6. Delivery!Linked # {} => depth = Depth
  <2> SUFFICES ASSUME Delivery!Linked # {}, depth # Depth PROVE FALSE
    OBVIOUS
  <2>1. safeDirs = 1 .. Depth /\ made = Depth
    BY <1>t DEF PathOnDisk
  <2>2. depth + 1 \in dirs
    BY <1>2, <1>t, <2>1
  <2> QED BY <1>2, <2>1, <2>2
<1>7. \A c \in Calls :
        /\ call'[c].key = call[c].key /\ call'[c].msg = call[c].msg
        /\ call'[c].at = call[c].at /\ call'[c].result = call[c].result
        /\ call'[c].pc = IF call[c].pc \in {"idle", "returned"} THEN call[c].pc ELSE "dead"
  BY <1>t, <1>4 DEF Delivery!TypeOK
<1>8. Delivery!TypeOK'
  <2>1. call' \in [Calls -> [pc     : {"idle", "path", "sync_path", "open", "write",
                                   "sync", "link", "sync_name", "compare",
                                   "unlink", "returned", "dead"},
                         at     : Delivery!Components,
                         key    : Keys,
                         msg    : Messages,
                         result : {"none", "conflict"} \cup Delivery!Succeeded]]
    <3>1. call \in [Calls -> [pc     : {"idle", "path", "sync_path", "open", "write",
                                   "sync", "link", "sync_name", "compare",
                                   "unlink", "returned", "dead"},
                         at     : Delivery!Components,
                         key    : Keys,
                         msg    : Messages,
                         result : {"none", "conflict"} \cup Delivery!Succeeded]]
      BY <1>t DEF Delivery!TypeOK
    <3> SUFFICES ASSUME NEW c \in Calls
                 PROVE  (IF call[c].pc \in {"idle", "returned"} THEN call[c]
                         ELSE [call[c] EXCEPT !.pc = "dead"])
                        \in [pc     : {"idle", "path", "sync_path", "open", "write",
                                   "sync", "link", "sync_name", "compare",
                                   "unlink", "returned", "dead"},
                            at     : Delivery!Components,
                            key    : Keys,
                            msg    : Messages,
                            result : {"none", "conflict"} \cup Delivery!Succeeded]
      BY <1>4
    <3> QED BY <3>1
  <2>2. made' \in 0 .. Depth /\ safeDirs' \subseteq Delivery!Components
    BY <1>t, <1>2, <1>3
  <2>3. kept \subseteq Keys
    BY <1>5 DEF Delivery!Linked
  <2>4. final' \in [Keys -> Calls \cup {None}] /\ safeNames' \subseteq Keys
    BY <1>t, <1>3, <2>3
  <2>5. data' \in [Calls -> {"none", "partial", "full"}] /\ safeData' \subseteq Calls
    BY <1>t, <1>4 DEF Delivery!TypeOK
  <2> QED BY <2>1, <2>2, <2>4, <2>5 DEF Delivery!TypeOK
<1>9. PathOnDisk'
  <2>1. kept # {} => depth = Depth
    OBVIOUS
  <2>2. safeDirs' \subseteq 1 .. made' /\ safeNames' \subseteq kept
    BY <1>3
  <2>3. kept # {} => safeDirs' = 1 .. Depth
    BY <1>3, <2>1
  <2> QED BY <1>5, <1>t, <2>2, <2>3 DEF PathOnDisk
<1>10. \A k \in Delivery!Linked' : Named(k)'
  <2> SUFFICES ASSUME NEW k \in kept PROVE Named(k)'
    BY <1>5
  <2>1. k \in Keys /\ final[k] \in Calls /\ final'[k] = final[k] /\ Named(k)
    BY <1>5, <1>t, <1>3 DEF Delivery!Linked
  <2>2. data'[final[k]] = "full"
    BY <1>4, <2>1 DEF Named
  <2>3. call'[final[k]].pc \in {"sync_name", "unlink", "returned", "dead"}
    BY <1>7, <2>1 DEF Named
  <2> QED BY <1>4, <1>7, <2>1, <2>2, <2>3 DEF Named
<1>11. \A c \in Calls : Achieved(c)' /\ Judged(c)'
  <2> SUFFICES ASSUME NEW c \in Calls PROVE Achieved(c)' /\ Judged(c)'
    OBVIOUS
  <2>1. CASE call[c].pc # "returned"
    <3>1. call'[c].pc \in {"idle", "dead"} /\ (call'[c].pc = "idle" => call[c].pc = "idle")
      BY <1>7, <2>1
    <3> QED BY <1>t, <1>7, <3>1 DEF Achieved, Judged, AtWork
  <2>2. CASE call[c].pc = "returned"
    <3> DEFINE key == call[c].key
    <3>1. key \in Keys /\ key \in safeNames /\ final[key] \in Calls /\ final[key] # None
      BY <1>t, <2>2 DEF Achieved, Delivery!TypeOK
    <3>2. key \in names /\ Delivery!Linked # {}
      BY <1>1, <3>1
    <3>3. key \in kept
      BY <1>6, <3>2
    <3>4. final'[key] = final[key] /\ key \in safeNames'
      BY <1>3, <3>1, <3>3
    <3>5. call'[c].pc = "returned" /\ call'[c].key = key
      BY <1>7, <2>2
    <3>6. Achieved(c)'
      BY <3>1, <3>4, <3>5 DEF Achieved, AtWork
    <3>7. Judged(c)'
      BY <1>t, <1>7, <2>2, <3>1, <3>4, <3>5 DEF Judged
    <3> QED BY <3>6, <3>7
  <2> QED BY <2>1, <2>2
<1> QED BY <1>8, <1>9, <1>10, <1>11 DEF DeliveryInv

\* Every step of the records keeps their inductive invariant.
LEMMA DeliveryStep == DeliveryInv /\ [Delivery!Next]_deliveryVars => DeliveryInv'
<1> SUFFICES ASSUME DeliveryInv, [Delivery!Next]_deliveryVars PROVE DeliveryInv'
  OBVIOUS
<1>1. CASE UNCHANGED deliveryVars
  <2>1. Delivery!TypeOK' /\ PathOnDisk'
    BY <1>1 DEF deliveryVars, DeliveryInv, Delivery!TypeOK, PathOnDisk, Delivery!Linked
  <2>2. \A k \in Delivery!Linked' : Named(k)'
    BY <1>1 DEF deliveryVars, DeliveryInv, Delivery!Linked, Named
  <2>3. \A c \in Calls : Achieved(c)' /\ Judged(c)'
    BY <1>1 DEF deliveryVars, DeliveryInv, Achieved, Judged
  <2> QED BY <2>1, <2>2, <2>3 DEF DeliveryInv
<1> QED BY <1>1, OnThePath, LinkFinalKeeps, PowerLossKeeps DEF Delivery!Next

\* The inductive invariant of the records holds along every behaviour.
LEMMA DeliveryInvAlways == Delivery!Spec => []DeliveryInv
<1>1. Delivery!Init => DeliveryInv
  BY DeliveryInit
<1>2. DeliveryInv /\ [Delivery!Next]_(Delivery!vars) => DeliveryInv'
  BY DeliveryStep DEF Delivery!vars, deliveryVars
<1> QED BY <1>1, <1>2, PTL DEF Delivery!Spec

\* Whatever power is lost: what was acknowledged is there with its message, no
\* record is partial, a key has one creator and a conflict stands; for any number
\* of writers, keys, messages and components of the path.
THEOREM DeliveryHoldsAlways == Delivery!Spec => []DeliveryHolds
BY DeliveryInvAlways, DeliveryInvHolds, PTL

\* A step moves no name to another file.
LEMMA NamesStay ==
  ASSUME DeliveryInv, [Delivery!Next]_deliveryVars
  PROVE  \A k \in Keys : final[k] # None => final'[k] \in {final[k], None}
<1> SUFFICES ASSUME NEW k \in Keys, final[k] # None
             PROVE  final'[k] \in {final[k], None}
  OBVIOUS
<1>1. final \in [Keys -> Calls \cup {None}]
  BY DEF DeliveryInv, Delivery!TypeOK
<1>2. CASE Delivery!PowerLoss
  BY <1>2 DEF Delivery!PowerLoss
<1>3. ASSUME NEW c \in Calls, Delivery!LinkFinal(c)
      PROVE  final'[k] = final[k]
  BY <1>1, <1>3 DEF Delivery!LinkFinal
<1>4. CASE UNCHANGED final
  BY <1>4
<1> QED
  BY <1>2, <1>3, <1>4 DEF Delivery!Next, deliveryVars, Delivery!volatile, Delivery!Begin,
     Delivery!MakeComponent, Delivery!SyncComponent, Delivery!OpenTemporary,
     Delivery!WriteRecord, Delivery!SyncRecord, Delivery!SyncName,
     Delivery!CompareRecord, Delivery!UnlinkTemporary, Delivery!ProcessDies

\* A delivery's first writer is never replaced, and a connector's job that was
\* reported on is never queued again.
THEOREM WrittenStaysAlways == Delivery!Spec /\ Connector!Spec => WrittenStays
<1>1. DeliveryInv /\ [Delivery!Next]_(Delivery!vars) =>
        [\A k \in Keys : final[k] # None => final'[k] \in {final[k], None}]_(Delivery!vars)
  BY NamesStay DEF Delivery!vars, deliveryVars
<1>2. Delivery!Spec => Delivery!FirstWriterWins
  BY DeliveryInvAlways, <1>1, PTL DEF Delivery!Spec, Delivery!FirstWriterWins
<1> QED BY <1>2, FinishedStaysHolds DEF WrittenStays
-------------------------------------------------------------------------------
(* The composition                                                         *)

\* In the composition each component behaves as it does alone.
LEMMA EachAlone == MCSpec => Spec /\ Turn!Spec /\ Delivery!Spec /\ Connector!Spec
<1>1. MCInit => Init /\ Turn!Init /\ Delivery!Init /\ Connector!Init
  BY DEF MCInit
<1>2. [MCNext]_mcVars => [Next]_vars
  BY DEF MCNext, mcVars, Admitting, Turning, Delivering, Connecting
<1>3. [MCNext]_mcVars => [Turn!Next]_(Turn!vars)
  BY DEF MCNext, mcVars, Admitting, Turning, Delivering, Connecting, turnVars,
     Turn!vars, Turn!control, Turn!model
<1>4. [MCNext]_mcVars => [Delivery!Next]_(Delivery!vars)
  BY DEF MCNext, mcVars, Admitting, Turning, Delivering, Connecting, deliveryVars,
     Delivery!vars
<1>5. [MCNext]_mcVars => [Connector!Next]_(Connector!vars)
  BY DEF MCNext, mcVars, Admitting, Turning, Delivering, Connecting, connectorVars,
     Connector!vars, Connector!sessions, Connector!jobs, Connector!ghosts
<1> QED
  BY <1>1, <1>2, <1>3, <1>4, <1>5, PTL
     DEF MCSpec, Spec, Turn!Spec, Delivery!Spec, Connector!Spec

\* The chat turn and all that carries it: admitted once, run once, told and stopped
\* truthfully, recorded for good, and dispatched by the bridge that took it.
THEOREM ChatHolds ==
  MCSpec => [](AdmissionHolds /\ TurnHolds /\ DeliveryHolds /\ ConnectorHolds)
BY EachAlone, AdmissionHoldsAlways, TurnHoldsAlways, DeliveryHoldsAlways,
   ConnectorHoldsAlways, PTL
===============================================================================
