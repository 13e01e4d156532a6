----------------------------- MODULE AtomicAdmission -----------------------------
(***************************************************************************)
(* How a durable chat turn is admitted: concurrent and repeated requests   *)
(* with one idempotency key, each of which inserts the parent AgentRun and *)
(* its dispatch row in one statement and then reads back, statement by     *)
(* statement, what it or another request has inserted. Turns end and       *)
(* processes die in between. A caller that gets no run tries again.        *)
(***************************************************************************)
EXTENDS Integers, FiniteSets

CONSTANTS
  Requests,   \* requests under way at once
  Bodies,     \* what a request binds its key to
  None,
  MaxRuns,    \* bounds of the model: attempt ids drawn, crashes
  MaxCrashes

ASSUME AdmissionAssumption ==
  None \notin Bodies /\ MaxRuns \in Nat \ {0} /\ MaxCrashes \in Nat

VARIABLES
  parent,    \* parent[i]: status of the AgentRun with id i
  body,      \* body[i]: what that run was bound to
  dispatch,  \* dispatch[i]: whether it has a dispatch row
  message,   \* message[i]: whether its user message is in the thread
  pc, sent,  \* each request: where it is, what it binds the key to,
  id, found, \*   the id it drew, the run it read back,
  created,   \*   and whether it found its own creation event
  answer,    \* what the caller of the request was told
  crashes

rows == <<parent, body, dispatch>>
request == <<sent, id>>
vars == <<rows, message, pc, request, found, created, answer, crashes>>

Ids == 1 .. MaxRuns
Holding == {"queued", "running", "completed"}
Holder(i) == parent[i] \in Holding
Answers == {"none", "accepted", "duplicate", "conflict", "unavailable"}

TypeOK ==
  /\ parent \in [Ids -> {"none", "failed", "cancelled"} \cup Holding]
  /\ body \in [Ids -> Bodies \cup {None}]
  /\ dispatch \in [Ids -> BOOLEAN]
  /\ message \in [Ids -> BOOLEAN]
  /\ pc \in [Requests -> {"idle", "insert", "own", "winner", "bind", "dispatch",
                          "event", "store"}]
  /\ sent \in [Requests -> Bodies \cup {None}]
  /\ id \in [Requests -> 0 .. MaxRuns]
  /\ found \in [Requests -> 0 .. MaxRuns]
  /\ created \subseteq Ids
  /\ answer \in [Requests -> Answers]
  /\ crashes \in 0 .. MaxCrashes

Init ==
  /\ parent = [i \in Ids |-> "none"]
  /\ body = [i \in Ids |-> None]
  /\ dispatch = [i \in Ids |-> FALSE]
  /\ message = [i \in Ids |-> FALSE]
  /\ pc = [r \in Requests |-> "idle"]
  /\ sent = [r \in Requests |-> None]
  /\ id = [r \in Requests |-> 0]
  /\ found = [r \in Requests |-> 0]
  /\ created = {}
  /\ answer = [r \in Requests |-> "none"]
  /\ crashes = 0
-------------------------------------------------------------------------------
At(r, p) == pc[r] = p
Go(r, p) == pc' = [pc EXCEPT ![r] = p]

Tells(r, a) == Go(r, "idle") /\ answer' = [answer EXCEPT ![r] = a]

\* Mutant: the id of an attempt follows from the key.
SameId == {1}

\* opaqueId: the id of an attempt is random.
FreshIds ==
  {i \in Ids : parent[i] = "none" /\ \A r \in Requests : id[r] # i}

Send(r, b) ==
  /\ At(r, "idle")
  /\ \E i \in FreshIds :
       /\ \A j \in FreshIds : i <= j
       /\ id' = [id EXCEPT ![r] = i]
  /\ sent' = [sent EXCEPT ![r] = b]
  /\ answer' = [answer EXCEPT ![r] = "none"]
  /\ found' = [found EXCEPT ![r] = 0]
  /\ Go(r, "insert")
  /\ UNCHANGED <<rows, message, created, crashes>>

\* Mutant: the unique index forgets the runs that have completed.
NoLiveConflict(i) ==
  parent[i] = "none" /\ \A j \in Ids : parent[j] \notin {"queued", "running"}

\* Neither the primary key nor the partial unique index is in the way.
NoConflict(i) == parent[i] = "none" /\ \A j \in Ids : ~Holder(j)

\* Parent, dispatch and their events, all or none.
Insert(r) ==
  /\ At(r, "insert")
  /\ IF NoConflict(id[r])
     THEN /\ parent' = [parent EXCEPT ![id[r]] = "queued"]
          /\ body' = [body EXCEPT ![id[r]] = sent[r]]
          /\ dispatch' = [dispatch EXCEPT ![id[r]] = TRUE]
          /\ created' = created \cup {id[r]}
     ELSE UNCHANGED <<rows, created>>
  /\ Go(r, "own")
  /\ UNCHANGED <<message, request, found, answer, crashes>>

ReadOwn(r) ==
  /\ At(r, "own")
  /\ \/ /\ parent[id[r]] # "none"
        /\ found' = [found EXCEPT ![r] = id[r]]
        /\ Go(r, "bind")
     \/ parent[id[r]] = "none" /\ Go(r, "winner") /\ UNCHANGED found
  /\ UNCHANGED <<rows, message, request, created, answer, crashes>>

\* The run that was in the way may have ended since.
ReadWinner(r) ==
  /\ At(r, "winner")
  /\ \/ \E i \in Ids :
          /\ Holder(i)
          /\ found' = [found EXCEPT ![r] = i]
          /\ Go(r, "bind")
          /\ UNCHANGED answer
     \/ (\A i \in Ids : ~Holder(i)) /\ Tells(r, "unavailable") /\ UNCHANGED found
  /\ UNCHANGED <<rows, message, request, created, crashes>>

\* assertIdempotencyBinding
Bind(r) ==
  /\ At(r, "bind")
  /\ IF body[found[r]] = sent[r] THEN Go(r, "dispatch") /\ UNCHANGED answer
                                 ELSE Tells(r, "conflict")
  /\ UNCHANGED <<rows, message, request, found, created, crashes>>

ReadDispatch(r) ==
  /\ At(r, "dispatch")
  /\ IF dispatch[found[r]] THEN Go(r, "event") /\ UNCHANGED answer
                           ELSE Tells(r, "unavailable")
  /\ UNCHANGED <<rows, message, request, found, created, crashes>>

\* Only the request whose own event was written has created the turn.
ReadEvent(r) ==
  /\ At(r, "event")
  /\ IF id[r] \in created THEN Go(r, "store") /\ UNCHANGED answer
                          ELSE Tells(r, "duplicate")
  /\ UNCHANGED <<rows, message, request, found, created, crashes>>

StoreMessage(r) ==
  /\ At(r, "store")
  /\ message' = [message EXCEPT ![found[r]] = TRUE]
  /\ Tells(r, "accepted")
  /\ UNCHANGED <<rows, request, found, created, crashes>>

TurnMoves(i) ==
  /\ parent[i] \in {"queued", "running"}
  /\ \E s \in {"running", "completed", "failed", "cancelled"} :
       parent' = [parent EXCEPT ![i] = s]
  /\ UNCHANGED <<body, dispatch, message, pc, request, found, created, answer, crashes>>

\* The request dies with its process; its caller may send it again.
Crash(r) ==
  /\ crashes < MaxCrashes /\ ~At(r, "idle")
  /\ crashes' = crashes + 1
  /\ Tells(r, "none")
  /\ UNCHANGED <<rows, message, request, found, created>>
-------------------------------------------------------------------------------
RequestStep(r) ==
  \/ Insert(r) \/ ReadOwn(r) \/ ReadWinner(r) \/ Bind(r) \/ ReadDispatch(r)
  \/ ReadEvent(r) \/ StoreMessage(r)

Next ==
  \/ \E r \in Requests :
       (\E b \in Bodies : Send(r, b)) \/ RequestStep(r) \/ Crash(r)
  \/ \E i \in Ids : TurnMoves(i)

Spec == Init /\ [][Next]_vars
-------------------------------------------------------------------------------
(* Properties *)

\* No run is ever visible without the dispatch that will execute it, whichever
\* request or process dies in the middle of an admission.
NoParentWithoutDispatch == \A i \in Ids : parent[i] # "none" => dispatch[i]

\* One key executes once: at most one run is in flight or has completed.
OneHolder == Cardinality({i \in Ids : Holder(i)}) <= 1

\* A caller that is told of a run is told of one bound to what it sent.
AnsweredRunIsBound ==
  \A r \in Requests :
    answer[r] \in {"accepted", "duplicate"} => body[found[r]] = sent[r]

\* Of all the requests that see a run, one stores its message and answers for it.
OneRequestAccepts ==
  \A q, r \in Requests :
    (q # r /\ found[q] = found[r] /\ answer[q] = "accepted")
      => answer[r] # "accepted" /\ ~At(r, "store")

\* Two requests with one key, each between its statements: no run without its
\* dispatch, one holder of the key, nobody told of a run of other content, and
\* one request that stores the message of a run.
AdmissionHolds ==
  TypeOK /\ NoParentWithoutDispatch /\ OneHolder /\ AnsweredRunIsBound /\ OneRequestAccepts

\* A request that meets no other run in its way admits a run of its own: a key
\* whose run failed or was stopped is not wedged.
FreshAttempt ==
  [][\A r \in Requests :
       At(r, "insert") /\ pc'[r] = "own" /\ (\A i \in Ids : ~Holder(i))
         => Holder(id[r])']_vars
===============================================================================
