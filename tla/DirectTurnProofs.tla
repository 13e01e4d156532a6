---------------------------- MODULE DirectTurnProofs ----------------------------
(***************************************************************************)
(* Proofs about DirectTurn, for any number of runs, keys, tries, posts,    *)
(* losses and crashes.  DirectInv is the inductive invariant: beside what  *)
(* the run checks it says which try a request is at, that one delivery of  *)
(* a run holds its admission until the model is called, and that a         *)
(* callback that is about to end its run has its card in the thread.       *)
(***************************************************************************)
EXTENDS DirectTurn, FiniteSetTheorems, TLAPS

(* The types, by the part of the system that keeps the variables.          *)
RowsTyped ==
  /\ key \in [Runs -> Keys \cup {None}]
  /\ row \in [Runs -> {"none", "queued", "running"} \cup Ended]
  /\ prints \in [Runs -> BOOLEAN]

ThreadTyped ==
  /\ cards \in [Runs -> 0 .. MaxPosts]
  /\ notices \in [Runs -> SUBSET {"unreachable", "rejected", "stopped"}]
  /\ marker \in BOOLEAN

RequestsTyped ==
  /\ req \in [Runs -> {"idle", "message", "post", "wait", "dispatched",
                       "unreachable", "rejected", "tell_unreachable", "tell_rejected"}]
  /\ try \in [Runs -> 0 .. MaxTries]

Callbacks == {"idle", "posted", "claim", "thread", "add", "mark", "done"}
CallbacksTyped ==
  /\ cb \in [Runs -> [Posts -> Callbacks]]
  /\ inFlight \subseteq Runs

StopsTyped == stop \in [Runs -> {"idle", "cancel", "note"}]

Hands == {"none", "sent", "authorised", "claimed", "begun"} \cup Answers
HandlersTyped ==
  /\ hand \in [Runs -> [Tries -> Hands]]
  /\ admission \in [Runs -> {"none", "pending", "accepted"}]

Turns == {"none", "setup", "running", "posting", "excuse"}
TurnsTyped ==
  /\ turn \in [Runs -> Turns]
  /\ post \in [Runs -> 0 .. MaxPosts]
  /\ says \in [Runs -> {"reply", "error", "nothing"}]
  /\ turns \in [Runs -> Nat]

BoundsTyped ==
  /\ losses \in 0 .. MaxLosses
  /\ crashes \in Nat /\ deaths \in Nat /\ stops \in Nat
  /\ crashes + deaths + stops <= MaxTroubles

Typed ==
  /\ RowsTyped /\ ThreadTyped /\ RequestsTyped /\ CallbacksTyped
  /\ StopsTyped /\ HandlersTyped /\ TurnsTyped /\ BoundsTyped

(* A request tries from the first to the last, and starts over with none.  *)
RequestStands(r) ==
  /\ row[r] = "none" => req[r] = "idle"
  /\ req[r] \in {"idle", "message", "tell_unreachable", "tell_rejected"} => try[r] = 0
  /\ req[r] = "post" => try[r] < MaxTries
  /\ req[r] = "wait" => try[r] > 0

(* One delivery of a run holds its admission, and a turn the gateway still *)
(* remembers has been counted.                                             *)
Holding(r, n) == hand[r][n] \in {"claimed", "begun"}

AdmissionStands(r) ==
  /\ turns[r] <= deaths + 1
  /\ admission[r] # "accepted" => turns[r] <= deaths
  /\ \A n \in Tries : Holding(r, n) => admission[r] = "pending"
  /\ \A m, n \in Tries : Holding(r, m) /\ Holding(r, n) => m = n

(* The lane has one turn, and a turn that posts is at a post.              *)
PostStands(r) == Posting(r) => post[r] > 0
OneLane == \A q, r \in Runs : turn[q] # "none" /\ turn[r] # "none" => q = r

(* The card comes before the end of the run, and once.                     *)
CardStands(r) ==
  /\ cards[r] \in {0, 1}
  /\ (\E k \in Posts : At(r, k, "mark")) => cards[r] = 1
  /\ row[r] = "completed" => cards[r] = 1

DirectInv ==
  /\ Typed /\ OneLane
  /\ \A r \in Runs :
       RequestStands(r) /\ AdmissionStands(r) /\ PostStands(r) /\ CardStands(r)

(* It holds in the beginning.                                              *)
LEMMA InitDirect == Init => DirectInv
<1> SUFFICES ASSUME Init PROVE DirectInv
  OBVIOUS
<1> USE DirectAssumption DEF DirectAssumption, Init
<1>1. RowsTyped /\ StopsTyped /\ CallbacksTyped
  BY DEF RowsTyped, StopsTyped, CallbacksTyped, Callbacks, Ended
<1>2. ThreadTyped
  <2>1. cards \in [Runs -> 0 .. MaxPosts]
    OBVIOUS
  <2>2. notices \in [Runs -> SUBSET {"unreachable", "rejected", "stopped"}] /\ marker \in BOOLEAN
    OBVIOUS
  <2> QED
    BY <2>1, <2>2 DEF ThreadTyped
<1>7. RequestsTyped
  BY DEF RequestsTyped
<1>3. HandlersTyped
  BY DEF HandlersTyped, Hands
<1>4. TurnsTyped /\ BoundsTyped
  BY DEF TurnsTyped, BoundsTyped, Turns
<1>5. OneLane /\ \A r \in Runs : RequestStands(r) /\ PostStands(r)
  BY DEF OneLane, RequestStands, PostStands, Posting
<1>6. \A r \in Runs : AdmissionStands(r) /\ CardStands(r)
  BY DEF AdmissionStands, Holding, CardStands, At
<1> QED
  BY <1>1, <1>2, <1>3, <1>4, <1>5, <1>6, <1>7 DEF DirectInv, Typed

(* One entry of a table is written and the others are as they were.        *)
LEMMA Written ==
  ASSUME NEW S, NEW T, NEW V, NEW f \in [S -> [T -> V]], NEW s \in S, NEW t \in T, NEW v \in V
  PROVE  /\ [f EXCEPT ![s][t] = v] \in [S -> [T -> V]]
         /\ \A x \in S, y \in T :
              [f EXCEPT ![s][t] = v][x][y] = IF x = s /\ y = t THEN v ELSE f[x][y]
OBVIOUS

(* A callback that moves leaves the others where they are.                 *)
LEMMA CallbackMoves ==
  ASSUME CallbacksTyped, NEW r \in Runs, NEW p \in Posts, NEW v \in Callbacks,
         cb' = [cb EXCEPT ![r][p] = v]
  PROVE  /\ cb' \in [Runs -> [Posts -> Callbacks]]
         /\ \A u \in Runs, m \in Posts :
              cb'[u][m] = IF u = r /\ m = p THEN v ELSE cb[u][m]
BY Written DEF CallbacksTyped

(* A handler that moves leaves the others where they are.                  *)
LEMMA HandlerMoves ==
  ASSUME HandlersTyped, NEW r \in Runs, NEW n \in Tries, NEW v \in Hands,
         hand' = [hand EXCEPT ![r][n] = v]
  PROVE  /\ hand' \in [Runs -> [Tries -> Hands]]
         /\ \A u \in Runs, m \in Tries :
              hand'[u][m] = IF u = r /\ m = n THEN v ELSE hand[u][m]
BY Written DEF HandlersTyped

(* An answer is kept for the request that waits for it, or dropped.        *)
LEMMA AnswerMoves ==
  ASSUME HandlersTyped, NEW r \in Runs, NEW n \in Tries, NEW a \in Answers, Answer(r, n, a)
  PROVE  /\ hand' \in [Runs -> [Tries -> Hands]]
         /\ hand'[r][n] \in Answers \cup {"none"}
         /\ \A u \in Runs, m \in Tries : u # r \/ m # n => hand'[u][m] = hand[u][m]
<1> DEFINE v == IF req[r] = "wait" /\ try[r] = n THEN a ELSE "none"
<1>1. hand' = [hand EXCEPT ![r][n] = v] /\ v \in Answers \cup {"none"} /\ v \in Hands
  BY DEF Answer, Hands
<1> HIDE DEF v
<1> QED
  BY <1>1, HandlerMoves

(* Every step keeps the types, part by part.                               *)
LEMMA RowsKept == DirectInv /\ [Next]_vars => RowsTyped'
<1> SUFFICES ASSUME DirectInv, [Next]_vars PROVE RowsTyped'
  OBVIOUS
<1>t. RowsTyped
  BY DEF DirectInv, Typed
<1>1. ASSUME NEW r \in Runs, NEW k \in Keys, Create(r, k) PROVE RowsTyped'
  BY <1>1, <1>t DEF Create, Go, RowsTyped, Ended, Active
<1>2. ASSUME NEW r \in Runs, MarkDispatched(r) PROVE RowsTyped'
  BY <1>2, <1>t DEF MarkDispatched, Mark, Go, RowsTyped, Ended, Active
<1>3. ASSUME NEW r \in Runs, MarkFailed(r) PROVE RowsTyped'
  BY <1>3, <1>t DEF MarkFailed, Mark, Go, RowsTyped, Ended, Active
<1>4. ASSUME NEW r \in Runs, NEW p \in Posts, CallbackClaims(r, p) PROVE RowsTyped'
  BY <1>4, <1>t DEF CallbackClaims, At, CbGo, Leave, RowsTyped, Ended, Active
<1>5. ASSUME NEW r \in Runs, NEW p \in Posts, CallbackMarks(r, p) PROVE RowsTyped'
  BY <1>5, <1>t DEF CallbackMarks, At, CbGo, Leave, Mark, RowsTyped, Ended, Active
<1>6. ASSUME NEW r \in Runs, StopCancels(r) PROVE RowsTyped'
  BY <1>6, <1>t DEF StopCancels, Mark, RowsTyped, Ended, Active
<1>7. CASE UNCHANGED <<key, row, prints>>
  BY <1>7, <1>t DEF RowsTyped, Ended, Active
<1>8. CASE UNCHANGED vars
  BY <1>8, <1>7 DEF vars, rows, thread, control, gateway, bounds
<1> QED
  BY <1>1, <1>2, <1>3, <1>4, <1>5, <1>6, <1>7, <1>8 DEF Next, Request, Handler, Turn,
     Callback, StopStep, rows, thread, control, gateway, bounds, StoreMessage, Post,
     Answered, ConnectionLost, ConnectionReset, TimesOut, Tell, Authorise, Claim,
     StartTurn, Invoke, SetupFails, AnswerFailed, EndsSilently, TurnEnds, PostBroken, PostLost,
     PostDropped, CallbackAuthorised, CallbackReadsThread, CallbackAddsCard,
     CallbackAnswers, PressStop, StopTells, ControlCrashes, GatewayCrashes

(* The thread keeps the types of its cards, notices and marker.            *)
LEMMA ThreadKept == DirectInv /\ [Next]_vars => ThreadTyped'
<1> SUFFICES ASSUME DirectInv, [Next]_vars PROVE ThreadTyped'
  OBVIOUS
<1>t. ThreadTyped
  BY DEF DirectInv, Typed
<1>b. MaxPosts \in Nat \ {0}
  BY DirectAssumption DEF DirectAssumption
<1>1. ASSUME NEW r \in Runs, StoreMessage(r) PROVE ThreadTyped'
  BY <1>1, <1>t, <1>b DEF StoreMessage, Go, ThreadTyped
<1>2. ASSUME NEW r \in Runs, Tell(r) PROVE ThreadTyped'
  BY <1>2, <1>t, <1>b DEF Tell, Go, ThreadTyped
<1>3. ASSUME NEW r \in Runs, NEW p \in Posts, CallbackAuthorised(r, p) PROVE
   ThreadTyped'
  BY <1>3, <1>t, <1>b DEF CallbackAuthorised, At, CbGo, ThreadTyped
<1>4. ASSUME NEW r \in Runs, NEW p \in Posts, CallbackReadsThread(r, p) PROVE
   ThreadTyped'
  BY <1>4, <1>t, <1>b DEF CallbackReadsThread, At, CbGo, Leave, ThreadTyped
<1>5. ASSUME NEW r \in Runs, NEW p \in Posts, CallbackAddsCard(r, p) PROVE ThreadTyped'
  BY <1>5, <1>t, <1>b DEF CallbackAddsCard, At, CbGo, ThreadTyped
<1>6. ASSUME NEW r \in Runs, PressStop(r) PROVE ThreadTyped'
  BY <1>6, <1>t, <1>b DEF PressStop, ThreadTyped
<1>7. ASSUME NEW r \in Runs, StopTells(r) PROVE ThreadTyped'
  BY <1>7, <1>t, <1>b DEF StopTells, ThreadTyped
<1>8. CASE ControlCrashes
  BY <1>8, <1>t, <1>b DEF ControlCrashes, ThreadTyped
<1>9. CASE UNCHANGED <<cards, notices, marker>>
  BY <1>9, <1>t, <1>b DEF ThreadTyped
<1>10. CASE UNCHANGED vars
  BY <1>10, <1>9 DEF vars, rows, thread, control, gateway, bounds
<1> QED
  BY <1>1, <1>2, <1>3, <1>4, <1>5, <1>6, <1>7, <1>8, <1>9, <1>10 DEF Next, Request,
     Handler, Turn, Callback, StopStep, rows, thread, control, gateway, bounds, Create,
     Post, Answered, ConnectionLost, ConnectionReset, TimesOut, MarkDispatched,
     MarkFailed, Authorise, Claim, StartTurn, Invoke, SetupFails, AnswerFailed,
     EndsSilently, TurnEnds, PostBroken, PostLost, PostDropped, CallbackClaims, CallbackMarks,
     CallbackAnswers, StopCancels, GatewayCrashes

(* A request keeps its place, and its try is one of the tries.             *)
LEMMA RequestsKept == DirectInv /\ [Next]_vars => RequestsTyped'
<1> SUFFICES ASSUME DirectInv, [Next]_vars PROVE RequestsTyped'
  OBVIOUS
<1>t. RequestsTyped
  BY DEF DirectInv, Typed
<1>s. \A r \in Runs : RequestStands(r)
  BY DEF DirectInv
<1>b. MaxTries \in Nat \ {0}
  BY DirectAssumption DEF DirectAssumption
<1>1. ASSUME NEW r \in Runs, NEW k \in Keys, Create(r, k) PROVE RequestsTyped'
  BY <1>1, <1>t, <1>s, <1>b DEF Create, Go, RequestsTyped, RequestStands
<1>2. ASSUME NEW r \in Runs, StoreMessage(r) PROVE RequestsTyped'
  BY <1>2, <1>t, <1>s, <1>b DEF StoreMessage, Go, RequestsTyped, RequestStands
<1>3. ASSUME NEW r \in Runs, Post(r) PROVE RequestsTyped'
  BY <1>3, <1>t, <1>s, <1>b DEF Post, Go, RequestsTyped, RequestStands
<1>4. ASSUME NEW r \in Runs, Answered(r) PROVE RequestsTyped'
  BY <1>4, <1>t, <1>s, <1>b DEF Answered, Go, Received, RequestsTyped, RequestStands
<1>5. ASSUME NEW r \in Runs, ConnectionLost(r) PROVE RequestsTyped'
  BY <1>5, <1>t, <1>s, <1>b DEF ConnectionLost, Lose, NextTry, Received, Go,
     RequestsTyped, RequestStands
<1>6. ASSUME NEW r \in Runs, ConnectionReset(r) PROVE RequestsTyped'
  BY <1>6, <1>t, <1>s, <1>b DEF ConnectionReset, Received, NextTry, Go, RequestsTyped,
     RequestStands
<1>7. ASSUME NEW r \in Runs, TimesOut(r) PROVE RequestsTyped'
  BY <1>7, <1>t, <1>s, <1>b DEF TimesOut, Lose, Go, RequestsTyped, RequestStands
<1>8. ASSUME NEW r \in Runs, MarkDispatched(r) PROVE RequestsTyped'
  BY <1>8, <1>t, <1>s, <1>b DEF MarkDispatched, Mark, Go, RequestsTyped, RequestStands
<1>9. ASSUME NEW r \in Runs, MarkFailed(r) PROVE RequestsTyped'
  BY <1>9, <1>t, <1>s, <1>b DEF MarkFailed, Mark, Go, RequestsTyped, RequestStands
<1>10. ASSUME NEW r \in Runs, Tell(r) PROVE RequestsTyped'
  BY <1>10, <1>t, <1>s, <1>b DEF Tell, Go, RequestsTyped, RequestStands
<1>11. CASE ControlCrashes
  BY <1>11, <1>t, <1>s, <1>b DEF ControlCrashes, RequestsTyped, RequestStands
<1>12. CASE UNCHANGED <<req, try>>
  BY <1>12, <1>t, <1>s, <1>b DEF RequestsTyped, RequestStands
<1>13. CASE UNCHANGED vars
  BY <1>13, <1>12 DEF vars, rows, thread, control, gateway, bounds
<1> QED
  BY <1>1, <1>2, <1>3, <1>4, <1>5, <1>6, <1>7, <1>8, <1>9, <1>10, <1>11, <1>12, <1>13
     DEF Next, Request, Handler, Turn, Callback, StopStep, rows, thread, control,
     gateway, bounds, Authorise, Claim, StartTurn, Invoke, SetupFails, AnswerFailed,
     EndsSilently, TurnEnds, PostBroken, PostLost, PostDropped, CallbackAuthorised, CallbackClaims,
     CallbackReadsThread, CallbackAddsCard, CallbackMarks, CallbackAnswers, PressStop,
     StopCancels, StopTells, GatewayCrashes

(* Every callback keeps its place.                                         *)
LEMMA CallbacksKept == DirectInv /\ [Next]_vars => CallbacksTyped'
<1> SUFFICES ASSUME DirectInv, [Next]_vars PROVE CallbacksTyped'
  OBVIOUS
<1>t. CallbacksTyped /\ TurnsTyped
  BY DEF DirectInv, Typed
<1>s. \A r \in Runs : PostStands(r)
  BY DEF DirectInv
<1>b. MaxPosts \in Nat \ {0}
  BY DirectAssumption DEF DirectAssumption
<1>1. ASSUME NEW r \in Runs, SetupFails(r) PROVE CallbacksTyped'
  <2>1. MaxPosts \in Posts
    BY <1>b DEF Posts
  <2> QED
    BY <1>1, <2>1, <1>t, CallbackMoves DEF SetupFails, Deliver, CallbacksTyped, Callbacks
<1>2. ASSUME NEW r \in Runs, TurnEnds(r) PROVE CallbacksTyped'
  <2>1. 1 \in Posts
    BY <1>b DEF Posts
  <2> QED
    BY <1>2, <2>1, <1>t, CallbackMoves DEF TurnEnds, Deliver, CallbacksTyped, Callbacks
<1>3. ASSUME NEW r \in Runs, PostBroken(r) PROVE CallbacksTyped'
  <2>1. CASE UNCHANGED cb
    BY <1>3, <2>1, <1>t DEF PostBroken, CallbacksTyped
  <2>2. CASE cb' = [cb EXCEPT ![r][post'[r]] = "posted"] /\ post'[r] \in Posts
    BY <1>3, <2>2, <1>t, CallbackMoves DEF PostBroken, CallbacksTyped, Callbacks
  <2>3. post[r] < MaxPosts /\ post' = [post EXCEPT ![r] = @ + 1] => post'[r] \in Posts
    BY <1>t, <1>b DEF TurnsTyped, Posts
  <2> QED
    BY <1>3, <2>1, <2>2, <2>3 DEF PostBroken, NextPost
<1>4. ASSUME NEW r \in Runs, PostLost(r) PROVE CallbacksTyped'
  <2>1. CASE UNCHANGED cb
    BY <1>4, <2>1, <1>t DEF PostLost, CallbacksTyped
  <2>2. CASE cb' = [cb EXCEPT ![r][post'[r]] = "posted"] /\ post'[r] \in Posts
    BY <1>4, <2>2, <1>t, CallbackMoves DEF PostLost, CallbacksTyped, Callbacks
  <2>3. post[r] < MaxPosts /\ post' = [post EXCEPT ![r] = @ + 1] => post'[r] \in Posts
    BY <1>t, <1>b DEF TurnsTyped, Posts
  <2> QED
    BY <1>4, <2>1, <2>2, <2>3 DEF PostLost, NextPost
<1>5. ASSUME NEW r \in Runs, PostDropped(r) PROVE CallbacksTyped'
  <2>1. post[r] \in Posts
    BY <1>5, <1>t, <1>s, <1>b DEF PostDropped, TurnsTyped, PostStands, Posts
  <2> QED
    BY <1>5, <2>1, <1>t, CallbackMoves DEF PostDropped, CallbacksTyped, Callbacks
<1>6. ASSUME NEW r \in Runs, NEW p \in Posts, CallbackAuthorised(r, p) PROVE
   CallbacksTyped'
  <2>1. PICK v \in Callbacks : cb' = [cb EXCEPT ![r][p] = v]
    BY <1>6 DEF CallbackAuthorised, CbGo, Callbacks
  <2>2. inFlight' \subseteq Runs
    BY <1>6, <1>t DEF CallbackAuthorised, CallbacksTyped
  <2> QED
    BY <2>1, <2>2, <1>t, CallbackMoves DEF CallbacksTyped
<1>7. ASSUME NEW r \in Runs, NEW p \in Posts, CallbackClaims(r, p) PROVE CallbacksTyped'
  <2>1. PICK v \in Callbacks : cb' = [cb EXCEPT ![r][p] = v]
    BY <1>7 DEF CallbackClaims, CbGo, Callbacks, Leave
  <2>2. inFlight' \subseteq Runs
    BY <1>7, <1>t DEF CallbackClaims, CallbacksTyped, Leave
  <2> QED
    BY <2>1, <2>2, <1>t, CallbackMoves DEF CallbacksTyped
<1>8. ASSUME NEW r \in Runs, NEW p \in Posts, CallbackReadsThread(r, p) PROVE
   CallbacksTyped'
  <2>1. PICK v \in Callbacks : cb' = [cb EXCEPT ![r][p] = v]
    BY <1>8 DEF CallbackReadsThread, CbGo, Callbacks, Leave
  <2>2. inFlight' \subseteq Runs
    BY <1>8, <1>t DEF CallbackReadsThread, CallbacksTyped, Leave
  <2> QED
    BY <2>1, <2>2, <1>t, CallbackMoves DEF CallbacksTyped
<1>9. ASSUME NEW r \in Runs, NEW p \in Posts, CallbackAddsCard(r, p) PROVE
   CallbacksTyped'
  <2>1. PICK v \in Callbacks : cb' = [cb EXCEPT ![r][p] = v]
    BY <1>9 DEF CallbackAddsCard, CbGo, Callbacks
  <2>2. inFlight' \subseteq Runs
    BY <1>9, <1>t DEF CallbackAddsCard, CallbacksTyped
  <2> QED
    BY <2>1, <2>2, <1>t, CallbackMoves DEF CallbacksTyped
<1>10. ASSUME NEW r \in Runs, NEW p \in Posts, CallbackMarks(r, p) PROVE CallbacksTyped'
  <2>1. PICK v \in Callbacks : cb' = [cb EXCEPT ![r][p] = v]
    BY <1>10 DEF CallbackMarks, CbGo, Callbacks, Leave
  <2>2. inFlight' \subseteq Runs
    BY <1>10, <1>t DEF CallbackMarks, CallbacksTyped, Leave
  <2> QED
    BY <2>1, <2>2, <1>t, CallbackMoves DEF CallbacksTyped
<1>11. ASSUME NEW r \in Runs, NEW p \in Posts, CallbackAnswers(r, p) PROVE
   CallbacksTyped'
  <2>1. PICK v \in Callbacks : cb' = [cb EXCEPT ![r][p] = v]
    BY <1>11 DEF CallbackAnswers, CbGo, Callbacks
  <2>2. inFlight' \subseteq Runs
    BY <1>11, <1>t DEF CallbackAnswers, CallbacksTyped
  <2> QED
    BY <2>1, <2>2, <1>t, CallbackMoves DEF CallbacksTyped
<1>12. CASE ControlCrashes
  BY <1>12 DEF ControlCrashes, CallbacksTyped, Callbacks
<1>13. CASE UNCHANGED <<cb, inFlight>>
  BY <1>13, <1>t, <1>s, <1>b DEF CallbacksTyped
<1>14. CASE UNCHANGED vars
  BY <1>14, <1>13 DEF vars, rows, thread, control, gateway, bounds
<1> QED
  BY <1>1, <1>2, <1>3, <1>4, <1>5, <1>6, <1>7, <1>8, <1>9, <1>10, <1>11, <1>12, <1>13,
     <1>14 DEF Next, Request, Handler, Turn, Callback, StopStep, rows, thread, control,
     gateway, bounds, Create, StoreMessage, Post, Answered, ConnectionLost,
     ConnectionReset, TimesOut, MarkDispatched, MarkFailed, Tell, Authorise, Claim,
     StartTurn, Invoke, AnswerFailed, EndsSilently, PressStop, StopCancels, StopTells, GatewayCrashes

(* Every Stop keeps its place.                                             *)
LEMMA StopsKept == DirectInv /\ [Next]_vars => StopsTyped'
<1> SUFFICES ASSUME DirectInv, [Next]_vars PROVE StopsTyped'
  OBVIOUS
<1>t. StopsTyped
  BY DEF DirectInv, Typed
<1>1. ASSUME NEW r \in Runs, PressStop(r) PROVE StopsTyped'
  BY <1>1, <1>t DEF PressStop, StopsTyped
<1>2. ASSUME NEW r \in Runs, StopCancels(r) PROVE StopsTyped'
  BY <1>2, <1>t DEF StopCancels, Mark, StopsTyped
<1>3. ASSUME NEW r \in Runs, StopTells(r) PROVE StopsTyped'
  BY <1>3, <1>t DEF StopTells, StopsTyped
<1>4. CASE ControlCrashes
  BY <1>4, <1>t DEF ControlCrashes, StopsTyped
<1>5. CASE UNCHANGED <<stop>>
  BY <1>5, <1>t DEF StopsTyped
<1>6. CASE UNCHANGED vars
  BY <1>6, <1>5 DEF vars, rows, thread, control, gateway, bounds
<1> QED
  BY <1>1, <1>2, <1>3, <1>4, <1>5, <1>6 DEF Next, Request, Handler, Turn, Callback,
     StopStep, rows, thread, control, gateway, bounds, Create, StoreMessage, Post,
     Answered, ConnectionLost, ConnectionReset, TimesOut, MarkDispatched, MarkFailed,
     Tell, Authorise, Claim, StartTurn, Invoke, SetupFails, AnswerFailed, EndsSilently, TurnEnds,
     PostBroken, PostLost, PostDropped, CallbackAuthorised, CallbackClaims,
     CallbackReadsThread, CallbackAddsCard, CallbackMarks, CallbackAnswers,
     GatewayCrashes

(* Every handler and every admission keeps its place.                      *)
LEMMA HandlersKept == DirectInv /\ [Next]_vars => HandlersTyped'
<1> SUFFICES ASSUME DirectInv, [Next]_vars PROVE HandlersTyped'
  OBVIOUS
<1>t. HandlersTyped /\ RequestsTyped
  BY DEF DirectInv, Typed
<1>s. \A r \in Runs : RequestStands(r)
  BY DEF DirectInv
<1>m. MaxTries \in Nat \ {0}
  BY DirectAssumption DEF DirectAssumption
<1>1. ASSUME NEW r \in Runs, Post(r) PROVE HandlersTyped'
  <2>1. try'[r] \in Tries
    BY <1>1, <1>t, <1>s, <1>m DEF Post, RequestsTyped, RequestStands, Tries
  <2> QED
    BY <1>1, <2>1, <1>t, HandlerMoves DEF Post, HandlersTyped, Hands
<1>2. ASSUME NEW r \in Runs, Answered(r) PROVE HandlersTyped'
  <2>1. req[r] = "wait" /\ (hand' = hand \/ hand' = [hand EXCEPT ![r][try[r]] = "none"])
    BY <1>2 DEF Answered, Received
  <2>2. try[r] \in Tries
    BY <2>1, <1>t, <1>s, <1>m DEF RequestsTyped, RequestStands, Tries
  <2>3. hand' \in [Runs -> [Tries -> Hands]]
    BY <2>1, <2>2, <1>t, HandlerMoves DEF HandlersTyped, Hands
  <2> QED
    BY <1>2, <2>3, <1>t DEF Answered, HandlersTyped
<1>3. ASSUME NEW r \in Runs, ConnectionLost(r) PROVE HandlersTyped'
  <2>1. req[r] = "wait" /\ (hand' = hand \/ hand' = [hand EXCEPT ![r][try[r]] = "none"])
    BY <1>3 DEF ConnectionLost, Received
  <2>2. try[r] \in Tries
    BY <2>1, <1>t, <1>s, <1>m DEF RequestsTyped, RequestStands, Tries
  <2>3. hand' \in [Runs -> [Tries -> Hands]]
    BY <2>1, <2>2, <1>t, HandlerMoves DEF HandlersTyped, Hands
  <2> QED
    BY <1>3, <2>3, <1>t DEF ConnectionLost, HandlersTyped
<1>4. ASSUME NEW r \in Runs, NEW n \in Tries, Authorise(r, n) PROVE HandlersTyped'
  <2>1. hand' \in [Runs -> [Tries -> Hands]]
    BY <1>4, <1>t, HandlerMoves, AnswerMoves DEF Authorise, Answers, Hands
  <2> QED
    BY <1>4, <2>1, <1>t DEF Authorise, HandlersTyped
<1>5. ASSUME NEW r \in Runs, NEW n \in Tries, Claim(r, n) PROVE HandlersTyped'
  <2>1. hand' \in [Runs -> [Tries -> Hands]]
    BY <1>5, <1>t, HandlerMoves, AnswerMoves DEF Claim, Answers, Hands
  <2> QED
    BY <1>5, <2>1, <1>t DEF Claim, HandlersTyped
<1>6. ASSUME NEW r \in Runs, NEW n \in Tries, StartTurn(r, n) PROVE HandlersTyped'
  <2>1. hand' \in [Runs -> [Tries -> Hands]]
    BY <1>6, <1>t, HandlerMoves, AnswerMoves DEF StartTurn, Answers, Hands
  <2> QED
    BY <1>6, <2>1, <1>t DEF StartTurn, HandlersTyped
<1>7. ASSUME NEW r \in Runs, NEW n \in Tries, Invoke(r, n) PROVE HandlersTyped'
  <2>1. hand' \in [Runs -> [Tries -> Hands]]
    BY <1>7, <1>t, HandlerMoves, AnswerMoves DEF Invoke, Answers, Hands
  <2> QED
    BY <1>7, <2>1, <1>t DEF Invoke, HandlersTyped
<1>8. ASSUME NEW r \in Runs, NEW n \in Tries, AnswerFailed(r, n) PROVE HandlersTyped'
  <2>1. hand' \in [Runs -> [Tries -> Hands]]
    BY <1>8, <1>t, HandlerMoves, AnswerMoves DEF AnswerFailed, Answers, Hands
  <2> QED
    BY <1>8, <2>1, <1>t DEF AnswerFailed, HandlersTyped
<1>9. CASE GatewayCrashes
  BY <1>9 DEF GatewayCrashes, HandlersTyped, Hands
<1>10. CASE UNCHANGED <<hand, admission>>
  BY <1>10, <1>t, <1>s, <1>m DEF HandlersTyped
<1>11. CASE UNCHANGED vars
  BY <1>11, <1>10 DEF vars, rows, thread, control, gateway, bounds
<1> QED
  BY <1>1, <1>2, <1>3, <1>4, <1>5, <1>6, <1>7, <1>8, <1>9, <1>10, <1>11 DEF Next,
     Request, Handler, Turn, Callback, StopStep, rows, thread, control, gateway, bounds,
     Create, StoreMessage, ConnectionReset, TimesOut, MarkDispatched, MarkFailed, Tell,
     SetupFails, EndsSilently, TurnEnds, PostBroken, PostLost, PostDropped, CallbackAuthorised,
     CallbackClaims, CallbackReadsThread, CallbackAddsCard, CallbackMarks,
     CallbackAnswers, PressStop, StopCancels, StopTells, ControlCrashes

(* Every turn keeps its place, and its post is one of the posts.           *)
LEMMA TurnsKept == DirectInv /\ [Next]_vars => TurnsTyped'
<1> SUFFICES ASSUME DirectInv, [Next]_vars PROVE TurnsTyped'
  OBVIOUS
<1>t. TurnsTyped
  BY DEF DirectInv, Typed
<1>b. MaxPosts \in Nat \ {0}
  BY DirectAssumption DEF DirectAssumption
<1>1. ASSUME NEW r \in Runs, NEW n \in Tries, StartTurn(r, n) PROVE TurnsTyped'
  BY <1>1, <1>t, <1>b DEF StartTurn, Answer, LaneFree, TurnsTyped, Turns
<1>2. ASSUME NEW r \in Runs, NEW n \in Tries, Invoke(r, n) PROVE TurnsTyped'
  BY <1>2, <1>t, <1>b DEF Invoke, Answer, TurnsTyped, Turns
<1>3. ASSUME NEW r \in Runs, SetupFails(r) PROVE TurnsTyped'
  BY <1>3, <1>t, <1>b DEF SetupFails, Lose, Deliver, TurnsTyped, Turns
<1>4. ASSUME NEW r \in Runs, EndsSilently(r) \/ TurnEnds(r) PROVE TurnsTyped'
  BY <1>4, <1>t, <1>b DEF EndsSilently, TurnEnds, Deliver, TurnsTyped, Turns
<1>5. ASSUME NEW r \in Runs, PostBroken(r) PROVE TurnsTyped'
  <2>1. post[r] \in 0 .. MaxPosts
    BY <1>t DEF TurnsTyped
  <2>2. post' \in [Runs -> 0 .. MaxPosts] /\ turn' \in [Runs -> Turns]
    <3>1. CASE post[r] < MaxPosts /\ post' = [post EXCEPT ![r] = @ + 1] /\ turn' = turn
      BY <3>1, <2>1, <1>t, <1>b DEF TurnsTyped
    <3>2. CASE turn' = [turn EXCEPT ![r] = "none"] /\ post' = [post EXCEPT ![r] = 0]
      BY <3>2, <1>t, <1>b DEF TurnsTyped, Turns
    <3> QED
      BY <1>5, <3>1, <3>2 DEF PostBroken, NextPost
  <2> QED
    BY <1>5, <2>2, <1>t DEF PostBroken, TurnsTyped
<1>6. ASSUME NEW r \in Runs, PostLost(r) PROVE TurnsTyped'
  <2>1. post[r] \in 0 .. MaxPosts
    BY <1>t DEF TurnsTyped
  <2>2. post' \in [Runs -> 0 .. MaxPosts] /\ turn' \in [Runs -> Turns]
    <3>1. CASE post[r] < MaxPosts /\ post' = [post EXCEPT ![r] = @ + 1] /\ turn' = turn
      BY <3>1, <2>1, <1>t, <1>b DEF TurnsTyped
    <3>2. CASE turn' = [turn EXCEPT ![r] = "none"] /\ post' = [post EXCEPT ![r] = 0]
      BY <3>2, <1>t, <1>b DEF TurnsTyped, Turns
    <3> QED
      BY <1>6, <3>1, <3>2 DEF PostLost, NextPost
  <2> QED
    BY <1>6, <2>2, <1>t DEF PostLost, TurnsTyped
<1>7. ASSUME NEW r \in Runs, NEW p \in Posts, CallbackAnswers(r, p) PROVE TurnsTyped'
  <2>1. post' \in [Runs -> 0 .. MaxPosts] /\ turn' \in [Runs -> Turns]
    BY <1>7, <1>t, <1>b DEF CallbackAnswers, TurnsTyped, Turns
  <2> QED
    BY <1>7, <2>1, <1>t DEF CallbackAnswers, TurnsTyped
<1>8. CASE GatewayCrashes
  BY <1>8, <1>t, <1>b DEF GatewayCrashes, TurnsTyped, Turns
<1>9. CASE UNCHANGED <<turn, post, says, turns>>
  BY <1>9, <1>t, <1>b DEF TurnsTyped, Turns
<1>10. CASE UNCHANGED vars
  BY <1>10, <1>9 DEF vars, rows, thread, control, gateway, bounds
<1> QED
  BY <1>1, <1>2, <1>3, <1>4, <1>5, <1>6, <1>7, <1>8, <1>9, <1>10 DEF Next, Request,
     Handler, Turn, Callback, StopStep, rows, thread, control, gateway, bounds, Create,
     StoreMessage, Post, Answered, ConnectionLost, ConnectionReset, TimesOut,
     MarkDispatched, MarkFailed, Tell, Authorise, Claim, AnswerFailed, PostDropped,
     CallbackAuthorised, CallbackClaims, CallbackReadsThread, CallbackAddsCard,
     CallbackMarks, PressStop, StopCancels, StopTells, ControlCrashes

(* What was lost, crashed and stopped stays within the bounds.             *)
LEMMA BoundsKept == DirectInv /\ [Next]_vars => BoundsTyped'
<1> SUFFICES ASSUME DirectInv, [Next]_vars PROVE BoundsTyped'
  OBVIOUS
<1>t. BoundsTyped
  BY DEF DirectInv, Typed
<1>a. MaxLosses \in Nat /\ MaxTroubles \in Nat
  BY DirectAssumption DEF DirectAssumption
<1>1. ASSUME NEW r \in Runs, ConnectionLost(r) PROVE BoundsTyped'
  BY <1>1, <1>t, <1>a DEF ConnectionLost, Lose, NextTry, Received, Go, BoundsTyped
<1>2. ASSUME NEW r \in Runs, TimesOut(r) PROVE BoundsTyped'
  BY <1>2, <1>t, <1>a DEF TimesOut, Lose, Go, BoundsTyped
<1>3. ASSUME NEW r \in Runs, SetupFails(r) PROVE BoundsTyped'
  BY <1>3, <1>t, <1>a DEF SetupFails, Lose, Deliver, BoundsTyped
<1>4. ASSUME NEW r \in Runs, PostLost(r) PROVE BoundsTyped'
  BY <1>4, <1>t, <1>a DEF PostLost, Posting, NextPost, Lose, BoundsTyped
<1>5. ASSUME NEW r \in Runs, PostDropped(r) PROVE BoundsTyped'
  BY <1>5, <1>t, <1>a DEF PostDropped, Posting, Lose, BoundsTyped
<1>6. ASSUME NEW r \in Runs, PressStop(r) PROVE BoundsTyped'
  BY <1>6, <1>t, <1>a DEF PressStop, BoundsTyped
<1>7. CASE ControlCrashes
  BY <1>7, <1>t, <1>a DEF ControlCrashes, BoundsTyped
<1>8. CASE GatewayCrashes
  BY <1>8, <1>t, <1>a DEF GatewayCrashes, BoundsTyped
<1>9. CASE UNCHANGED <<losses, crashes, deaths, stops>>
  BY <1>9, <1>t, <1>a DEF BoundsTyped
<1>10. CASE UNCHANGED vars
  BY <1>10, <1>9 DEF vars, rows, thread, control, gateway, bounds
<1> QED
  BY <1>1, <1>2, <1>3, <1>4, <1>5, <1>6, <1>7, <1>8, <1>9, <1>10 DEF Next, Request,
     Handler, Turn, Callback, StopStep, rows, thread, control, gateway, bounds, Create,
     StoreMessage, Post, Answered, ConnectionReset, MarkDispatched, MarkFailed, Tell,
     Authorise, Claim, StartTurn, Invoke, AnswerFailed, EndsSilently, TurnEnds, PostBroken,
     CallbackAuthorised, CallbackClaims, CallbackReadsThread, CallbackAddsCard,
     CallbackMarks, CallbackAnswers, StopCancels, StopTells

(* A request stays at its try.                                             *)
LEMMA RequestsStand == DirectInv /\ [Next]_vars => \A u \in Runs : RequestStands(u)'
<1> SUFFICES ASSUME DirectInv, [Next]_vars, NEW u \in Runs PROVE RequestStands(u)'
  OBVIOUS
<1> USE DEF rows, thread, control, gateway, bounds
<1>t. RowsTyped /\ RequestsTyped
  BY DEF DirectInv, Typed
<1>s. RequestStands(u)
  BY DEF DirectInv
<1>m. MaxTries \in Nat \ {0}
  BY DirectAssumption DEF DirectAssumption
<1>1. ASSUME NEW r \in Runs, NEW k \in Keys, Create(r, k) PROVE RequestStands(u)'
  BY <1>1, <1>t, <1>s, <1>m DEF Create, Go, RowsTyped, RequestsTyped, RequestStands
<1>2. ASSUME NEW r \in Runs, StoreMessage(r) PROVE RequestStands(u)'
  BY <1>2, <1>t, <1>s, <1>m DEF StoreMessage, Go, RowsTyped, RequestsTyped,
     RequestStands
<1>3. ASSUME NEW r \in Runs, Post(r) PROVE RequestStands(u)'
  BY <1>3, <1>t, <1>s, <1>m DEF Post, Go, RowsTyped, RequestsTyped, RequestStands
<1>4. ASSUME NEW r \in Runs, Answered(r) PROVE RequestStands(u)'
  BY <1>4, <1>t, <1>s, <1>m DEF Answered, Go, Received, RowsTyped, RequestsTyped,
     RequestStands
<1>5. ASSUME NEW r \in Runs, ConnectionLost(r) PROVE RequestStands(u)'
  BY <1>5, <1>t, <1>s, <1>m DEF ConnectionLost, Lose, NextTry, Received, Go, RowsTyped,
     RequestsTyped, RequestStands
<1>6. ASSUME NEW r \in Runs, ConnectionReset(r) PROVE RequestStands(u)'
  BY <1>6, <1>t, <1>s, <1>m DEF ConnectionReset, Received, NextTry, Go, RowsTyped,
     RequestsTyped, RequestStands
<1>7. ASSUME NEW r \in Runs, TimesOut(r) PROVE RequestStands(u)'
  BY <1>7, <1>t, <1>s, <1>m DEF TimesOut, Lose, Go, RowsTyped, RequestsTyped,
     RequestStands
<1>8. ASSUME NEW r \in Runs, MarkDispatched(r) PROVE RequestStands(u)'
  BY <1>8, <1>t, <1>s DEF MarkDispatched, Mark, Active, Go, RowsTyped, RequestsTyped, RequestStands
<1>9. ASSUME NEW r \in Runs, MarkFailed(r) PROVE RequestStands(u)'
  BY <1>9, <1>t, <1>s DEF MarkFailed, Mark, Active, Go, RowsTyped, RequestsTyped, RequestStands
<1>10. ASSUME NEW r \in Runs, Tell(r) PROVE RequestStands(u)'
  BY <1>10, <1>t, <1>s, <1>m DEF Tell, Go, RowsTyped, RequestsTyped, RequestStands
<1>11. ASSUME NEW r \in Runs, NEW p \in Posts, CallbackMarks(r, p) PROVE
   RequestStands(u)'
  BY <1>11, <1>t, <1>s, <1>m DEF CallbackMarks, At, CbGo, Leave, Mark, RowsTyped,
     RequestsTyped, RequestStands
<1>12. ASSUME NEW r \in Runs, StopCancels(r) PROVE RequestStands(u)'
  BY <1>12, <1>t, <1>s DEF StopCancels, Mark, Active, Go, RowsTyped, RequestsTyped, RequestStands
<1>13. CASE ControlCrashes
  BY <1>13, <1>t, <1>s, <1>m DEF ControlCrashes, RowsTyped, RequestsTyped, RequestStands
<1>14. CASE UNCHANGED <<row, req, try>>
  BY <1>14, <1>t, <1>s, <1>m DEF RowsTyped, RequestsTyped, RequestStands
<1>15. CASE UNCHANGED vars
  BY <1>15, <1>14 DEF vars, rows, thread, control, gateway, bounds
<1> QED
  BY <1>1, <1>2, <1>3, <1>4, <1>5, <1>6, <1>7, <1>8, <1>9, <1>10, <1>11, <1>12, <1>13,
     <1>14, <1>15 DEF Next, Request, Handler, Turn, Callback, StopStep, rows, thread,
     control, gateway, bounds, Authorise, Claim, StartTurn, Invoke, SetupFails,
     AnswerFailed, EndsSilently, TurnEnds, PostBroken, PostLost, PostDropped, CallbackAuthorised,
     CallbackClaims, CallbackReadsThread, CallbackAddsCard, CallbackAnswers, PressStop,
     StopTells, GatewayCrashes

(* One delivery keeps the admission of a run, and the turns stay counted.  *)
LEMMA AdmissionsStand == DirectInv /\ [Next]_vars => \A u \in Runs : AdmissionStands(u)'
<1> SUFFICES ASSUME DirectInv, [Next]_vars, NEW u \in Runs PROVE AdmissionStands(u)'
  OBVIOUS
<1> USE DEF rows, thread, control, gateway, bounds
<1>t. HandlersTyped /\ RequestsTyped /\ TurnsTyped /\ BoundsTyped
  BY DEF DirectInv, Typed
<1>s. AdmissionStands(u)
  BY DEF DirectInv
<1>v. \A r \in Runs : AdmissionStands(r)
  BY DEF DirectInv
<1>q. \A r \in Runs : RequestStands(r)
  BY DEF DirectInv
<1>m. MaxTries \in Nat \ {0}
  BY DirectAssumption DEF DirectAssumption
<1>h. ASSUME NEW r \in Runs, NEW n \in Tries, NEW a \in Answers, Holding(r, n),
   Answer(r, n, a), admission' = [admission EXCEPT ![r] = "none"], UNCHANGED <<turns,
   deaths>> PROVE AdmissionStands(u)'
  <2>1. \A m \in Tries : Holding(u, m)' => Holding(u, m) /\ ~(u = r /\ m = n)
    BY <1>h, <1>t, AnswerMoves DEF Answers, Holding
  <2>2. CASE u = r
    <3>1. \A m \in Tries : ~Holding(u, m)'
      BY <2>1, <2>2, <1>h, <1>s DEF AdmissionStands
    <3>2. turns[r] <= deaths
      BY <1>h, <1>v DEF AdmissionStands
    <3>3. turns[r] \in Nat /\ deaths \in Nat
      BY <1>t DEF TurnsTyped, BoundsTyped
    <3> QED
      BY <2>2, <3>1, <3>2, <3>3, <1>h DEF AdmissionStands
  <2>3. CASE u # r
    BY <2>1, <2>3, <1>h, <1>s, <1>t DEF AdmissionStands, HandlersTyped
  <2> QED
    BY <2>2, <2>3
<1>1. ASSUME NEW r \in Runs, Post(r) PROVE AdmissionStands(u)'
  <2>1. UNCHANGED <<admission, turns, deaths>>
    BY <1>1 DEF Post
  <2>2. \A m \in Tries : Holding(u, m)' => Holding(u, m)
    <3>1. try'[r] \in Tries
      BY <1>1, <1>t, <1>q, <1>m DEF Post, RequestsTyped, RequestStands, Tries
    <3> QED
      BY <1>1, <3>1, <1>t, HandlerMoves DEF Post, Hands, Holding
  <2> QED
    BY <2>1, <2>2, <1>s DEF AdmissionStands
<1>2. ASSUME NEW r \in Runs, Answered(r) PROVE AdmissionStands(u)'
  <2>1. UNCHANGED <<admission, turns, deaths>>
    BY <1>2 DEF Answered
  <2>2. \A m \in Tries : Holding(u, m)' => Holding(u, m)
    <3>1. req[r] = "wait" /\ (hand' = hand \/ hand' = [hand EXCEPT ![r][try[r]] = "none"])
      BY <1>2 DEF Answered, Received
    <3>2. try[r] \in Tries
      BY <3>1, <1>t, <1>q, <1>m DEF RequestsTyped, RequestStands, Tries
    <3> QED
      BY <3>1, <3>2, <1>t, HandlerMoves DEF Hands, Holding
  <2> QED
    BY <2>1, <2>2, <1>s DEF AdmissionStands
<1>3. ASSUME NEW r \in Runs, ConnectionLost(r) PROVE AdmissionStands(u)'
  <2>1. UNCHANGED <<admission, turns, deaths>>
    BY <1>3 DEF ConnectionLost
  <2>2. \A m \in Tries : Holding(u, m)' => Holding(u, m)
    <3>1. req[r] = "wait" /\ (hand' = hand \/ hand' = [hand EXCEPT ![r][try[r]] = "none"])
      BY <1>3 DEF ConnectionLost, Received
    <3>2. try[r] \in Tries
      BY <3>1, <1>t, <1>q, <1>m DEF RequestsTyped, RequestStands, Tries
    <3> QED
      BY <3>1, <3>2, <1>t, HandlerMoves DEF Hands, Holding
  <2> QED
    BY <2>1, <2>2, <1>s DEF AdmissionStands
<1>4. ASSUME NEW r \in Runs, NEW n \in Tries, Authorise(r, n) PROVE AdmissionStands(u)'
  <2>1. UNCHANGED <<admission, turns, deaths>>
    BY <1>4 DEF Authorise
  <2>2. \A m \in Tries : Holding(u, m)' => Holding(u, m)
    <3>1. CASE hand' = [hand EXCEPT ![r][n] = "authorised"]
      BY <3>1, <1>t, HandlerMoves DEF Hands, Holding
    <3>2. CASE Answer(r, n, "refused")
      BY <3>2, <1>t, AnswerMoves DEF Answers, Holding
    <3> QED
      BY <1>4, <3>1, <3>2 DEF Authorise
  <2> QED
    BY <2>1, <2>2, <1>s DEF AdmissionStands
<1>5. ASSUME NEW r \in Runs, NEW n \in Tries, Claim(r, n) PROVE AdmissionStands(u)'
  <2>1. CASE admission[r] = "none" /\ hand' = [hand EXCEPT ![r][n] = "claimed"]
             /\ admission' = [admission EXCEPT ![r] = "pending"]
    <3>1. \A m \in Tries : Holding(u, m)' => Holding(u, m) \/ (u = r /\ m = n)
      BY <2>1, <1>t, HandlerMoves DEF Hands, Holding
    <3>2. \A m \in Tries : ~Holding(r, m)
      BY <2>1, <1>v DEF AdmissionStands
    <3> QED
      BY <1>5, <2>1, <3>1, <3>2, <1>s, <1>t DEF Claim, AdmissionStands, HandlersTyped
  <2>2. CASE (Answer(r, n, "conflict") \/ Answer(r, n, "ok")) /\ UNCHANGED admission
    <3>1. \A m \in Tries : Holding(u, m)' => Holding(u, m)
      BY <2>2, <1>t, AnswerMoves DEF Answers, Holding
    <3> QED
      BY <1>5, <2>2, <3>1, <1>s DEF Claim, AdmissionStands
  <2> QED
    BY <1>5, <2>1, <2>2 DEF Claim
<1>6. ASSUME NEW r \in Runs, NEW n \in Tries, StartTurn(r, n) PROVE AdmissionStands(u)'
  <2>0. Holding(r, n) /\ UNCHANGED <<turns, deaths>>
    BY <1>6 DEF StartTurn, Holding
  <2>1. CASE hand' = [hand EXCEPT ![r][n] = "begun"] /\ UNCHANGED admission
    <3>1. \A m \in Tries : Holding(u, m)' => Holding(u, m)
      BY <2>0, <2>1, <1>t, HandlerMoves DEF Hands, Holding
    <3> QED
      BY <2>0, <2>1, <3>1, <1>s DEF AdmissionStands
  <2>2. CASE admission' = [admission EXCEPT ![r] = "none"] /\ Answer(r, n, "conflict")
    BY <2>0, <2>2, <1>h DEF Answers
  <2> QED
    BY <1>6, <2>1, <2>2 DEF StartTurn
<1>7. ASSUME NEW r \in Runs, NEW n \in Tries, Invoke(r, n) PROVE AdmissionStands(u)'
  <2>1. Holding(r, n) /\ Answer(r, n, "ok") /\ deaths' = deaths
        /\ turns' = [turns EXCEPT ![r] = @ + 1] /\ admission' = [admission EXCEPT ![r] = "accepted"]
    BY <1>7 DEF Invoke, Holding
  <2>2. \A m \in Tries : Holding(u, m)' => Holding(u, m) /\ ~(u = r /\ m = n)
    BY <2>1, <1>t, AnswerMoves DEF Answers, Holding
  <2>3. CASE u = r
    <3>1. turns[r] <= deaths /\ turns'[r] = turns[r] + 1 /\ admission'[r] = "accepted"
      BY <2>1, <1>t, <1>v DEF AdmissionStands, HandlersTyped, TurnsTyped
    <3>2. \A m \in Tries : ~Holding(u, m)'
      BY <2>1, <2>2, <2>3, <1>v DEF AdmissionStands
    <3>3. turns[r] \in Nat /\ deaths \in Nat
      BY <1>t DEF TurnsTyped, BoundsTyped
    <3> QED
      BY <2>1, <2>3, <3>1, <3>2, <3>3 DEF AdmissionStands
  <2>4. CASE u # r
    BY <2>1, <2>2, <2>4, <1>s, <1>t DEF AdmissionStands, HandlersTyped, TurnsTyped
  <2> QED
    BY <2>3, <2>4
<1>8. ASSUME NEW r \in Runs, NEW n \in Tries, AnswerFailed(r, n) PROVE
   AdmissionStands(u)'
  BY <1>8, <1>h DEF AnswerFailed, Holding, Answers
<1>9. CASE GatewayCrashes
  <2>1. hand'[u] = [m \in Tries |-> "none"] /\ admission'[u] = "none"
        /\ turns'[u] = turns[u] /\ deaths' = deaths + 1
    BY <1>9 DEF GatewayCrashes
  <2>2. turns[u] \in Nat /\ deaths \in Nat
    BY <1>t DEF TurnsTyped, BoundsTyped
  <2> QED
    BY <2>1, <2>2, <1>s DEF AdmissionStands, Holding
<1>10. CASE UNCHANGED <<hand, admission, turns, deaths>>
  BY <1>10, <1>t, <1>s, <1>v, <1>q, <1>m, <1>h DEF AdmissionStands, Holding
<1>11. CASE UNCHANGED vars
  BY <1>11, <1>10 DEF vars, rows, thread, control, gateway, bounds
<1> QED
  BY <1>1, <1>2, <1>3, <1>4, <1>5, <1>6, <1>7, <1>8, <1>9, <1>10, <1>11 DEF Next,
     Request, Handler, Turn, Callback, StopStep, rows, thread, control, gateway, bounds,
     Create, StoreMessage, ConnectionReset, TimesOut, MarkDispatched, MarkFailed, Tell,
     SetupFails, EndsSilently, TurnEnds, PostBroken, PostLost, PostDropped, CallbackAuthorised,
     CallbackClaims, CallbackReadsThread, CallbackAddsCard, CallbackMarks,
     CallbackAnswers, PressStop, StopCancels, StopTells, ControlCrashes

(* The lane stays with one turn, and a turn that posts is at a post.       *)
LEMMA TurnsStand == DirectInv /\ [Next]_vars => (OneLane /\ \A u \in Runs : PostStands(u))'
<1> SUFFICES ASSUME DirectInv, [Next]_vars PROVE (OneLane /\ \A u \in Runs : PostStands(u))'
  OBVIOUS
<1> USE DEF rows, thread, control, gateway, bounds
<1>t. TurnsTyped
  BY DEF DirectInv, Typed
<1>l. OneLane
  BY DEF DirectInv
<1>s. \A r \in Runs : PostStands(r)
  BY DEF DirectInv
<1>b. MaxPosts \in Nat \ {0}
  BY DirectAssumption DEF DirectAssumption
<1>1. ASSUME NEW r \in Runs, NEW n \in Tries, StartTurn(r, n) PROVE (OneLane /\ \A u \in
   Runs : PostStands(u))'
  <2>1. CASE turn' = turn
    BY <1>1, <2>1, <1>t, <1>l, <1>s DEF StartTurn, OneLane, PostStands, Posting
  <2>2. CASE LaneFree /\ turn' = [turn EXCEPT ![r] = "setup"]
    BY <1>1, <2>2, <1>t, <1>s DEF StartTurn, LaneFree, OneLane, PostStands, Posting, TurnsTyped
  <2> QED
    BY <1>1, <2>1, <2>2 DEF StartTurn
<1>2. ASSUME NEW r \in Runs, NEW n \in Tries, Invoke(r, n) PROVE (OneLane /\ \A u \in
   Runs : PostStands(u))'
  BY <1>2, <1>t, <1>l, <1>s, <1>b DEF Invoke, Answer, OneLane, PostStands, Posting,
     TurnsTyped
<1>3. ASSUME NEW r \in Runs, SetupFails(r) PROVE (OneLane /\ \A u \in Runs :
   PostStands(u))'
  BY <1>3, <1>t, <1>l, <1>s, <1>b DEF SetupFails, Lose, Deliver, OneLane, PostStands,
     Posting, TurnsTyped
<1>4. ASSUME NEW r \in Runs, EndsSilently(r) \/ TurnEnds(r)
      PROVE  (OneLane /\ \A u \in Runs : PostStands(u))'
  BY <1>4, <1>t, <1>l, <1>s, <1>b DEF EndsSilently, TurnEnds, Deliver, OneLane, PostStands, Posting,
     TurnsTyped
<1>5. ASSUME NEW r \in Runs, PostBroken(r) PROVE (OneLane /\ \A u \in Runs :
   PostStands(u))'
  <2>1. post[r] \in 0 .. MaxPosts
    BY <1>t DEF TurnsTyped
  <2>2. CASE post[r] < MaxPosts /\ post' = [post EXCEPT ![r] = @ + 1] /\ turn' = turn
    BY <2>1, <2>2, <1>t, <1>l, <1>s, <1>b DEF OneLane, PostStands, Posting, TurnsTyped
  <2>3. CASE turn' = [turn EXCEPT ![r] = "none"] /\ post' = [post EXCEPT ![r] = 0]
    BY <2>3, <1>t, <1>l, <1>s DEF OneLane, PostStands, Posting, TurnsTyped
  <2> QED
    BY <1>5, <2>2, <2>3 DEF PostBroken, NextPost
<1>6. ASSUME NEW r \in Runs, PostLost(r) PROVE (OneLane /\ \A u \in Runs :
   PostStands(u))'
  <2>1. post[r] \in 0 .. MaxPosts
    BY <1>t DEF TurnsTyped
  <2>2. CASE post[r] < MaxPosts /\ post' = [post EXCEPT ![r] = @ + 1] /\ turn' = turn
    BY <2>1, <2>2, <1>t, <1>l, <1>s, <1>b DEF OneLane, PostStands, Posting, TurnsTyped
  <2>3. CASE turn' = [turn EXCEPT ![r] = "none"] /\ post' = [post EXCEPT ![r] = 0]
    BY <2>3, <1>t, <1>l, <1>s DEF OneLane, PostStands, Posting, TurnsTyped
  <2> QED
    BY <1>6, <2>2, <2>3 DEF PostLost, NextPost
<1>7. ASSUME NEW r \in Runs, NEW p \in Posts, CallbackAnswers(r, p) PROVE (OneLane /\ \A
   u \in Runs : PostStands(u))'
  BY <1>7, <1>t, <1>l, <1>s, <1>b DEF CallbackAnswers, At, CbGo, Posting, OneLane,
     PostStands, TurnsTyped
<1>8. CASE GatewayCrashes
  BY <1>8, <1>t, <1>l, <1>s, <1>b DEF GatewayCrashes, OneLane, PostStands, Posting,
     TurnsTyped
<1>9. CASE UNCHANGED <<turn, post>>
  BY <1>9, <1>t, <1>l, <1>s, <1>b DEF OneLane, PostStands, Posting, TurnsTyped
<1>10. CASE UNCHANGED vars
  BY <1>10, <1>9 DEF vars, rows, thread, control, gateway, bounds
<1> QED
  BY <1>1, <1>2, <1>3, <1>4, <1>5, <1>6, <1>7, <1>8, <1>9, <1>10 DEF Next, Request,
     Handler, Turn, Callback, StopStep, rows, thread, control, gateway, bounds, Create,
     StoreMessage, Post, Answered, ConnectionLost, ConnectionReset, TimesOut,
     MarkDispatched, MarkFailed, Tell, Authorise, Claim, AnswerFailed, PostDropped,
     CallbackAuthorised, CallbackClaims, CallbackReadsThread, CallbackAddsCard,
     CallbackMarks, PressStop, StopCancels, StopTells, ControlCrashes

(* A card is there before its run ends, and stays alone.                   *)
LEMMA CardsStand == DirectInv /\ [Next]_vars => \A u \in Runs : CardStands(u)'
<1> SUFFICES ASSUME DirectInv, [Next]_vars, NEW u \in Runs PROVE CardStands(u)'
  OBVIOUS
<1> USE DEF rows, thread, control, gateway, bounds
<1>t. ThreadTyped /\ CallbacksTyped /\ RowsTyped /\ TurnsTyped
  BY DEF DirectInv, Typed
<1>s. CardStands(u)
  BY DEF DirectInv
<1>v. \A r \in Runs : CardStands(r)
  BY DEF DirectInv
<1>p. \A r \in Runs : PostStands(r)
  BY DEF DirectInv
<1>b. MaxPosts \in Nat \ {0}
  BY DirectAssumption DEF DirectAssumption
<1>1. ASSUME NEW r \in Runs, NEW k \in Keys, Create(r, k) PROVE CardStands(u)'
  <2>1. cards' = cards /\ (row'[u] = "completed" => row[u] = "completed")
    BY <1>1, <1>t DEF Create, RowsTyped, Active
  <2>2. \A m \in Posts : At(u, m, "mark")' => At(u, m, "mark")
    BY <1>1 DEF Create, At
  <2> QED
    BY <2>1, <2>2, <1>s DEF CardStands
<1>2. ASSUME NEW r \in Runs, MarkDispatched(r) PROVE CardStands(u)'
  <2>1. cards' = cards /\ (row'[u] = "completed" => row[u] = "completed")
    BY <1>2, <1>t DEF MarkDispatched, Mark, RowsTyped, Active
  <2>2. \A m \in Posts : At(u, m, "mark")' => At(u, m, "mark")
    BY <1>2 DEF MarkDispatched, At
  <2> QED
    BY <2>1, <2>2, <1>s DEF CardStands
<1>3. ASSUME NEW r \in Runs, MarkFailed(r) PROVE CardStands(u)'
  <2>1. cards' = cards /\ (row'[u] = "completed" => row[u] = "completed")
    BY <1>3, <1>t DEF MarkFailed, Mark, RowsTyped, Active
  <2>2. \A m \in Posts : At(u, m, "mark")' => At(u, m, "mark")
    BY <1>3 DEF MarkFailed, At
  <2> QED
    BY <2>1, <2>2, <1>s DEF CardStands
<1>4. ASSUME NEW r \in Runs, SetupFails(r) PROVE CardStands(u)'
  <2>1. cards' = cards /\ (row'[u] = "completed" => row[u] = "completed")
    BY <1>4, <1>t DEF SetupFails, RowsTyped, Active
  <2>2. \A m \in Posts : At(u, m, "mark")' => At(u, m, "mark")
    <3>1. MaxPosts \in Posts
      BY <1>b DEF Posts
    <3> QED
      BY <1>4, <3>1, <1>t, CallbackMoves DEF SetupFails, Deliver, At, Callbacks
  <2> QED
    BY <2>1, <2>2, <1>s DEF CardStands
<1>5. ASSUME NEW r \in Runs, TurnEnds(r) PROVE CardStands(u)'
  <2>1. cards' = cards /\ (row'[u] = "completed" => row[u] = "completed")
    BY <1>5, <1>t DEF TurnEnds, RowsTyped, Active
  <2>2. \A m \in Posts : At(u, m, "mark")' => At(u, m, "mark")
    <3>1. 1 \in Posts
      BY <1>b DEF Posts
    <3> QED
      BY <1>5, <3>1, <1>t, CallbackMoves DEF TurnEnds, Deliver, At, Callbacks
  <2> QED
    BY <2>1, <2>2, <1>s DEF CardStands
<1>6. ASSUME NEW r \in Runs, PostBroken(r) PROVE CardStands(u)'
  <2>1. cards' = cards /\ (row'[u] = "completed" => row[u] = "completed")
    BY <1>6, <1>t DEF PostBroken, RowsTyped, Active
  <2>2. \A m \in Posts : At(u, m, "mark")' => At(u, m, "mark")
    <3>1. CASE cb' = cb
      BY <3>1 DEF At
    <3>2. CASE cb' = [cb EXCEPT ![r][post'[r]] = "posted"] /\ post'[r] \in Posts
      BY <3>2, <1>t, CallbackMoves DEF At, Callbacks
    <3>3. post[r] < MaxPosts /\ post' = [post EXCEPT ![r] = @ + 1] => post'[r] \in Posts
      BY <1>t, <1>b DEF TurnsTyped, Posts
    <3> QED
      BY <1>6, <3>1, <3>2, <3>3 DEF PostBroken, NextPost
  <2> QED
    BY <2>1, <2>2, <1>s DEF CardStands
<1>7. ASSUME NEW r \in Runs, PostLost(r) PROVE CardStands(u)'
  <2>1. cards' = cards /\ (row'[u] = "completed" => row[u] = "completed")
    BY <1>7, <1>t DEF PostLost, RowsTyped, Active
  <2>2. \A m \in Posts : At(u, m, "mark")' => At(u, m, "mark")
    <3>1. CASE cb' = cb
      BY <3>1 DEF At
    <3>2. CASE cb' = [cb EXCEPT ![r][post'[r]] = "posted"] /\ post'[r] \in Posts
      BY <3>2, <1>t, CallbackMoves DEF At, Callbacks
    <3>3. post[r] < MaxPosts /\ post' = [post EXCEPT ![r] = @ + 1] => post'[r] \in Posts
      BY <1>t, <1>b DEF TurnsTyped, Posts
    <3> QED
      BY <1>7, <3>1, <3>2, <3>3 DEF PostLost, NextPost
  <2> QED
    BY <2>1, <2>2, <1>s DEF CardStands
<1>8. ASSUME NEW r \in Runs, PostDropped(r) PROVE CardStands(u)'
  <2>1. cards' = cards /\ (row'[u] = "completed" => row[u] = "completed")
    BY <1>8, <1>t DEF PostDropped, RowsTyped, Active
  <2>2. \A m \in Posts : At(u, m, "mark")' => At(u, m, "mark")
    <3>1. post[r] \in Posts
      BY <1>8, <1>t, <1>p, <1>b DEF PostDropped, TurnsTyped, PostStands, Posts
    <3> QED
      BY <1>8, <3>1, <1>t, CallbackMoves DEF PostDropped, At, Callbacks
  <2> QED
    BY <2>1, <2>2, <1>s DEF CardStands
<1>9. ASSUME NEW r \in Runs, NEW p \in Posts, CallbackAuthorised(r, p) PROVE
   CardStands(u)'
  <2>1. cards' = cards /\ (row'[u] = "completed" => row[u] = "completed")
    BY <1>9, <1>t DEF CallbackAuthorised, RowsTyped, Active
  <2>2. \A m \in Posts : At(u, m, "mark")' => At(u, m, "mark")
    <3>1. PICK v \in Callbacks \ {"mark"} : cb' = [cb EXCEPT ![r][p] = v]
      BY <1>9 DEF CallbackAuthorised, CbGo, Callbacks
    <3> QED
      BY <3>1, <1>t, CallbackMoves DEF At
  <2> QED
    BY <2>1, <2>2, <1>s DEF CardStands
<1>10. ASSUME NEW r \in Runs, NEW p \in Posts, CallbackClaims(r, p) PROVE CardStands(u)'
  <2>1. cards' = cards /\ (row'[u] = "completed" => row[u] = "completed")
    BY <1>10, <1>t DEF CallbackClaims, RowsTyped, Active
  <2>2. \A m \in Posts : At(u, m, "mark")' => At(u, m, "mark")
    <3>1. PICK v \in Callbacks \ {"mark"} : cb' = [cb EXCEPT ![r][p] = v]
      BY <1>10 DEF CallbackClaims, CbGo, Callbacks, Leave
    <3> QED
      BY <3>1, <1>t, CallbackMoves DEF At
  <2> QED
    BY <2>1, <2>2, <1>s DEF CardStands
<1>11. ASSUME NEW r \in Runs, NEW p \in Posts, CallbackReadsThread(r, p) PROVE
   CardStands(u)'
  <2>1. cards' = cards /\ (row'[u] = "completed" => row[u] = "completed")
    BY <1>11, <1>t DEF CallbackReadsThread, RowsTyped, Active
  <2>2. \A m \in Posts : At(u, m, "mark")' => At(u, m, "mark")
    <3>1. PICK v \in Callbacks \ {"mark"} : cb' = [cb EXCEPT ![r][p] = v]
      BY <1>11 DEF CallbackReadsThread, CbGo, Callbacks, Leave
    <3> QED
      BY <3>1, <1>t, CallbackMoves DEF At
  <2> QED
    BY <2>1, <2>2, <1>s DEF CardStands
<1>12. ASSUME NEW r \in Runs, NEW p \in Posts, CallbackAddsCard(r, p) PROVE
   CardStands(u)'
  <2>1. cards' \in [Runs -> {0, 1}] /\ cards'[r] = 1 /\ row' = row
    BY <1>12, <1>v, <1>t DEF CallbackAddsCard, CardStands, ThreadTyped
  <2>2. u # r => cards'[u] = cards[u]
    BY <1>12, <1>t DEF CallbackAddsCard, ThreadTyped
  <2>3. \A m \in Posts : At(u, m, "mark")' => At(u, m, "mark") \/ u = r
    BY <1>12, <1>t, CallbackMoves DEF CallbackAddsCard, CbGo, At, Callbacks
  <2> QED
    BY <2>1, <2>2, <2>3, <1>s DEF CardStands
<1>13. ASSUME NEW r \in Runs, NEW p \in Posts, CallbackMarks(r, p) PROVE CardStands(u)'
  <2>1. cards' = cards /\ (row'[u] = "completed" => row[u] = "completed" \/ u = r)
    BY <1>13, <1>t DEF CallbackMarks, Mark, RowsTyped
  <2>2. \A m \in Posts : At(u, m, "mark")' => At(u, m, "mark")
    BY <1>13, <1>t, CallbackMoves DEF CallbackMarks, Leave, CbGo, At, Callbacks
  <2>3. cards[r] = 1
    BY <1>13, <1>v DEF CallbackMarks, CardStands
  <2> QED
    BY <2>1, <2>2, <2>3, <1>s DEF CardStands
<1>14. ASSUME NEW r \in Runs, NEW p \in Posts, CallbackAnswers(r, p) PROVE
   CardStands(u)'
  <2>1. cards' = cards /\ (row'[u] = "completed" => row[u] = "completed")
    BY <1>14, <1>t DEF CallbackAnswers, RowsTyped, Active
  <2>2. \A m \in Posts : At(u, m, "mark")' => At(u, m, "mark")
    <3>1. PICK v \in Callbacks \ {"mark"} : cb' = [cb EXCEPT ![r][p] = v]
      BY <1>14 DEF CallbackAnswers, CbGo, Callbacks
    <3> QED
      BY <3>1, <1>t, CallbackMoves DEF At
  <2> QED
    BY <2>1, <2>2, <1>s DEF CardStands
<1>15. ASSUME NEW r \in Runs, StopCancels(r) PROVE CardStands(u)'
  <2>1. cards' = cards /\ (row'[u] = "completed" => row[u] = "completed")
    BY <1>15, <1>t DEF StopCancels, Mark, RowsTyped, Active
  <2>2. \A m \in Posts : At(u, m, "mark")' => At(u, m, "mark")
    BY <1>15 DEF StopCancels, At
  <2> QED
    BY <2>1, <2>2, <1>s DEF CardStands
<1>16. CASE ControlCrashes
  <2>1. cards' = cards /\ (row'[u] = "completed" => row[u] = "completed")
    BY <1>16, <1>t DEF ControlCrashes, RowsTyped, Active
  <2>2. \A m \in Posts : At(u, m, "mark")' => At(u, m, "mark")
    BY <1>16 DEF ControlCrashes, At
  <2> QED
    BY <2>1, <2>2, <1>s DEF CardStands
<1>17. CASE UNCHANGED <<cards, cb, row>>
  BY <1>17, <1>t, <1>s, <1>v, <1>p, <1>b DEF CardStands, At
<1>18. CASE UNCHANGED vars
  BY <1>18, <1>17 DEF vars, rows, thread, control, gateway, bounds
<1> QED
  BY <1>1, <1>2, <1>3, <1>4, <1>5, <1>6, <1>7, <1>8, <1>9, <1>10, <1>11, <1>12, <1>13,
     <1>14, <1>15, <1>16, <1>17, <1>18 DEF Next, Request, Handler, Turn, Callback,
     StopStep, rows, thread, control, gateway, bounds, StoreMessage, Post, Answered,
     ConnectionLost, ConnectionReset, TimesOut, Tell, Authorise, Claim, StartTurn,
     Invoke, AnswerFailed, EndsSilently, PressStop, StopTells, GatewayCrashes

(* Every step keeps the invariant.                                         *)
LEMMA DirectStep == DirectInv /\ [Next]_vars => DirectInv'
BY RowsKept, ThreadKept, RequestsKept, CallbacksKept, StopsKept, HandlersKept, TurnsKept,
   BoundsKept, RequestsStand, AdmissionsStand, TurnsStand, CardsStand DEF DirectInv, Typed

(* Hence every behaviour does.                                             *)
LEMMA DirectAlways == Spec => []DirectInv
BY InitDirect, DirectStep, PTL DEF Spec

(* A set any two members of which are the same has one at most.            *)
LEMMA AtMostOne ==
  ASSUME NEW X, \A x, y \in X : x = y
  PROVE  Cardinality(X) <= 1
<1>1. CASE X = {}
  BY <1>1, FS_EmptySet
<1>2. CASE X # {}
  <2>1. PICK x \in X : X = {x}
    BY <1>2
  <2>2. Cardinality({x}) = 1
    BY FS_Singleton
  <2> QED
    BY <2>1, <2>2
<1> QED
  BY <1>1, <1>2

(* Whatever posts are repeated, late or lost and whichever process dies: a *)
(* run has one turn in the gateway for each time it was forgotten, a thread*)
(* one turn at a time, a reply one card, and a run that ended as completed *)
(* has shown it.                                                           *)
THEOREM ThreadHoldsAlways == Spec => []ThreadHolds
<1>1. DirectInv => ThreadHolds
  <2> SUFFICES ASSUME DirectInv PROVE ThreadHolds
    OBVIOUS
  <2>1. TypeOK
    <3>1. RowsTyped /\ ThreadTyped /\ RequestsTyped /\ CallbacksTyped /\ StopsTyped
          /\ HandlersTyped /\ TurnsTyped /\ BoundsTyped
      BY DEF DirectInv, Typed
    <3>2. crashes + deaths + stops \in 0 .. MaxTroubles
      BY <3>1, DirectAssumption DEF BoundsTyped, DirectAssumption
    <3> QED
      BY <3>1, <3>2 DEF TypeOK, RowsTyped, ThreadTyped, RequestsTyped, CallbacksTyped, StopsTyped,
         HandlersTyped, TurnsTyped, BoundsTyped, Callbacks, Hands, Turns
  <2>2. TurnsBounded
    <3> SUFFICES ASSUME NEW r \in Runs PROVE turns[r] <= 1 + deaths
      BY DEF TurnsBounded
    <3>1. AdmissionStands(r) /\ turns[r] \in Nat /\ deaths \in Nat
      BY DEF DirectInv, Typed, TurnsTyped, BoundsTyped
    <3> QED
      BY <3>1 DEF AdmissionStands
  <2>3. OneTurnAtATime
    BY AtMostOne DEF OneTurnAtATime, DirectInv, OneLane
  <2>4. OneCardPerReply /\ CompletedIsVisible
    <3> SUFFICES ASSUME NEW r \in Runs
                 PROVE  cards[r] <= 1 /\ (row[r] = "completed" => cards[r] > 0)
      BY DEF OneCardPerReply, CompletedIsVisible
    <3>1. CardStands(r)
      BY DEF DirectInv
    <3> QED
      BY <3>1 DEF CardStands
  <2> QED
    BY <2>1, <2>2, <2>3, <2>4 DEF ThreadHolds
<1> QED
  BY <1>1, DirectAlways, PTL

(* What a run ended as is never rewritten: every handler that would write  *)
(* late finds that the row has ended.                                      *)
THEOREM EndIsFinalHolds == Spec => EndIsFinal
<1> DEFINE Final == \A r \in Runs : row[r] \in Ended => row'[r] = row[r]
<1>1. DirectInv /\ [Next]_vars => [Final]_vars
  <2> SUFFICES ASSUME DirectInv, [Next]_vars, NEW u \in Runs, row[u] \in Ended
               PROVE  row'[u] = row[u]
    OBVIOUS
  <2>1. row \in [Runs -> {"none", "queued", "running"} \cup Ended]
    BY DEF DirectInv, Typed, RowsTyped
  <2>2. ASSUME NEW r \in Runs, NEW s, Mark(r, s) PROVE row'[u] = row[u]
    BY <2>1, <2>2 DEF Mark, Active, Ended
  <2>3. ASSUME NEW r \in Runs, NEW k \in Keys, Create(r, k) PROVE row'[u] = row[u]
    BY <2>1, <2>3 DEF Create, Ended
  <2>4. ASSUME NEW r \in Runs,
               MarkDispatched(r) \/ MarkFailed(r) \/ StopCancels(r)
                 \/ \E p \in Posts : CallbackMarks(r, p)
        PROVE  row'[u] = row[u]
    BY <2>2, <2>4 DEF MarkDispatched, MarkFailed, StopCancels, CallbackMarks
  <2>5. CASE row' = row
    BY <2>5
  <2> QED
    BY <2>3, <2>4, <2>5 DEF Next, vars, Request, Handler, Turn, Callback, StopStep, rows, thread,
       control, gateway, bounds,
       StoreMessage, Post, Answered, ConnectionLost, ConnectionReset, TimesOut, Tell,
       Authorise, Claim, StartTurn, Invoke, SetupFails, AnswerFailed, EndsSilently, TurnEnds,
       PostBroken, PostLost, PostDropped, CallbackAuthorised, CallbackClaims,
       CallbackReadsThread, CallbackAddsCard, CallbackAnswers, PressStop, StopTells,
       ControlCrashes, GatewayCrashes
<1> QED
  BY <1>1, DirectAlways, PTL DEF Spec, EndIsFinal
============================================================================
