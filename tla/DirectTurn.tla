------------------------------- MODULE DirectTurn -------------------------------
(***************************************************************************)
(* Chat turns that are not durable: /api/chat/send creates the AgentRun,   *)
(* stores the message and posts the turn to the OpenClaw gateway, which    *)
(* answers once the turn has begun and calls back with the reply; Stop     *)
(* cancels the run. Everything here happens in one thread.                 *)
(*                                                                         *)
(* A step is the code between two awaits. hand[r][n] is the gateway's      *)
(* handler of the n-th delivery of run r, cb[r][k] Mission Control's       *)
(* handler of the k-th post of its reply: either may go on after its       *)
(* caller gave up. Only the rows survive a crash of Mission Control, and   *)
(* nothing survives one of the gateway.                                    *)
(***************************************************************************)
EXTENDS Integers, FiniteSets

CONSTANTS
  MaxRuns,     \* bound of the model: rows created in the thread
  Keys,        \* idempotency keys the caller uses
  None,
  MaxTries,    \* GATEWAY_FORWARD_RETRY_DELAYS_MS.length
  MaxPosts,    \* delays.length of postWithRetry
  MaxLosses,   \* bounds of the model: messages lost,
  MaxTroubles  \*   and crashes and Stops together

ASSUME DirectAssumption ==
  /\ None \notin Keys
  /\ MaxRuns \in Nat \ {0} /\ MaxTries \in Nat \ {0} /\ MaxPosts \in Nat \ {0}
  /\ MaxLosses \in Nat /\ MaxTroubles \in Nat

VARIABLES
  key, row, prints,          \* the AgentRun rows: key, status, fingerprint claimed
  cards, notices, marker,    \* the thread: reply cards, other cards, cancel marker
  req, try, cb, inFlight, stop,            \* Mission Control
  hand, admission, turn, post, says, turns,  \* the gateway
  losses, crashes, deaths, stops

rows == <<key, row, prints>>
thread == <<cards, notices, marker>>
control == <<req, try, cb, inFlight, stop>>
gateway == <<hand, admission, turn, post, says, turns>>
bounds == <<losses, crashes, deaths, stops>>
vars == <<rows, thread, control, gateway, bounds>>

Runs == 1 .. MaxRuns
Tries == 1 .. MaxTries
Posts == 1 .. MaxPosts
Ended == {"completed", "failed", "cancelled"}
Active(r) == row[r] \in {"queued", "running"}

\* What the gateway answers: begun or known, admission pending or lane busy,
\* not authorised, not set up.
Answers == {"ok", "conflict", "refused", "failed"}

TypeOK ==
  /\ key \in [Runs -> Keys \cup {None}]
  /\ row \in [Runs -> {"none", "queued", "running"} \cup Ended]
  /\ prints \in [Runs -> BOOLEAN]
  /\ cards \in [Runs -> 0 .. MaxPosts]
  /\ notices \in [Runs -> SUBSET {"unreachable", "rejected", "stopped"}]
  /\ marker \in BOOLEAN
  /\ req \in [Runs -> {"idle", "message", "post", "wait", "dispatched",
                       "unreachable", "rejected", "tell_unreachable", "tell_rejected"}]
  /\ try \in [Runs -> 0 .. MaxTries]
  /\ cb \in [Runs -> [Posts -> {"idle", "posted", "claim", "thread", "add", "mark",
                                "done"}]]
  /\ inFlight \subseteq Runs
  /\ stop \in [Runs -> {"idle", "cancel", "note"}]
  /\ hand \in [Runs -> [Tries -> {"none", "sent", "authorised", "claimed", "begun"}
                                 \cup Answers]]
  /\ admission \in [Runs -> {"none", "pending", "accepted"}]
  /\ turn \in [Runs -> {"none", "setup", "running", "posting", "excuse"}]
  /\ post \in [Runs -> 0 .. MaxPosts]
  /\ says \in [Runs -> {"reply", "error", "nothing"}]
  /\ turns \in [Runs -> Nat]
  /\ losses \in 0 .. MaxLosses
  /\ crashes + deaths + stops \in 0 .. MaxTroubles

Init ==
  /\ key = [r \in Runs |-> None]
  /\ row = [r \in Runs |-> "none"]
  /\ prints = [r \in Runs |-> FALSE]
  /\ cards = [r \in Runs |-> 0]
  /\ notices = [r \in Runs |-> {}]
  /\ marker = FALSE
  /\ req = [r \in Runs |-> "idle"]
  /\ try = [r \in Runs |-> 0]
  /\ cb = [r \in Runs |-> [k \in Posts |-> "idle"]]
  /\ inFlight = {}
  /\ stop = [r \in Runs |-> "idle"]
  /\ hand = [r \in Runs |-> [n \in Tries |-> "none"]]
  /\ admission = [r \in Runs |-> "none"]
  /\ turn = [r \in Runs |-> "none"]
  /\ post = [r \in Runs |-> 0]
  /\ says = [r \in Runs |-> "reply"]
  /\ turns = [r \in Runs |-> 0]
  /\ losses = 0 /\ crashes = 0 /\ deaths = 0 /\ stops = 0
-------------------------------------------------------------------------------
Go(r, pc) == req' = [req EXCEPT ![r] = pc]
Lose == losses < MaxLosses /\ losses' = losses + 1

\* Mutant: the statement looks at the identity of the row only.
MarkAnyway(r, status) == row' = [row EXCEPT ![r] = status]

\* transition: a row changes until it has ended.
Mark(r, status) == row' = IF Active(r) THEN [row EXCEPT ![r] = status] ELSE row

\* The partial unique index of the table.
HoldsKey(r, k) == key[r] = k /\ row[r] \in {"queued", "running", "completed"}

\* A request whose key is held is answered as a duplicate and changes nothing.
Create(r, k) ==
  /\ row[r] = "none" /\ \A u \in 1 .. r - 1 : row[u] # "none"
  /\ ~\E u \in Runs : HoldsKey(u, k)
  /\ row' = [row EXCEPT ![r] = "queued"]
  /\ key' = [key EXCEPT ![r] = k]
  /\ Go(r, "message")
  /\ UNCHANGED <<prints, thread, try, cb, inFlight, stop, gateway, bounds>>

\* A user message newer than the cancel marker disarms it.
StoreMessage(r) ==
  /\ req[r] = "message"
  /\ marker' = FALSE
  /\ Go(r, "post")
  /\ UNCHANGED <<rows, cards, notices, try, cb, inFlight, stop, gateway, bounds>>

\* sendOpenclawInbound. The post may be lost on its way.
Post(r) ==
  /\ req[r] = "post"
  /\ try' = [try EXCEPT ![r] = @ + 1]
  /\ hand' = [hand EXCEPT ![r][try'[r]] = "sent"]
  /\ Go(r, "wait")
  /\ UNCHANGED <<rows, thread, cb, inFlight, stop, admission, turn, post, says, turns,
                 bounds>>

Received(r, a) == req[r] = "wait" /\ hand[r][try[r]] = a

Answered(r) ==
  /\ \/ Received(r, "ok") /\ Go(r, "dispatched")
     \/ \E a \in Answers \ {"ok"} : Received(r, a) /\ Go(r, "rejected")
  /\ hand' = [hand EXCEPT ![r][try[r]] = "none"]
  /\ UNCHANGED <<rows, thread, try, cb, inFlight, stop, admission, turn, post, says,
                 turns, bounds>>

\* fetch throws: only a connection error is tried again. The handler it broke
\* away from goes on, unless the request never arrived.
NextTry(r) == Go(r, IF try[r] < MaxTries THEN "post" ELSE "unreachable")

ConnectionLost(r) ==
  /\ req[r] = "wait"
  /\ Lose
  /\ NextTry(r)
  /\ \/ UNCHANGED hand
     \/ Received(r, "sent") /\ hand' = [hand EXCEPT ![r][try[r]] = "none"]
  /\ UNCHANGED <<rows, thread, try, cb, inFlight, stop, admission, turn, post, says,
                 turns, crashes, deaths, stops>>

\* The gateway died under the request.
ConnectionReset(r) ==
  /\ Received(r, "none")
  /\ NextTry(r)
  /\ UNCHANGED <<rows, thread, try, cb, inFlight, stop, gateway, bounds>>

TimesOut(r) ==
  /\ req[r] = "wait"
  /\ Lose
  /\ Go(r, "unreachable")
  /\ UNCHANGED <<rows, thread, try, cb, inFlight, stop, gateway, crashes, deaths, stops>>

MarkDispatched(r) ==
  /\ req[r] = "dispatched"
  /\ Mark(r, "running")
  /\ Go(r, "idle")
  /\ try' = [try EXCEPT ![r] = 0]
  /\ UNCHANGED <<key, prints, thread, cb, inFlight, stop, gateway, bounds>>

MarkFailed(r) ==
  /\ \/ req[r] = "unreachable" /\ Go(r, "tell_unreachable")
     \/ req[r] = "rejected" /\ Go(r, "tell_rejected")
  /\ Mark(r, "failed")
  /\ try' = [try EXCEPT ![r] = 0]
  /\ UNCHANGED <<key, prints, thread, cb, inFlight, stop, gateway, bounds>>

Tell(r) ==
  /\ \/ req[r] = "tell_unreachable" /\ notices' = [notices EXCEPT ![r] = @ \cup {"unreachable"}]
     \/ req[r] = "tell_rejected" /\ notices' = [notices EXCEPT ![r] = @ \cup {"rejected"}]
  /\ Go(r, "idle")
  /\ UNCHANGED <<rows, cards, marker, try, cb, inFlight, stop, gateway, bounds>>
-------------------------------------------------------------------------------
(* The gateway: handleInboundRequest and the turn it runs *)

\* An answer nobody waits for is dropped.
Answer(r, n, a) ==
  hand' = [hand EXCEPT ![r][n] = IF req[r] = "wait" /\ try[r] = n THEN a ELSE "none"]

Authorise(r, n) ==
  /\ hand[r][n] = "sent"
  /\ IF Active(r) THEN hand' = [hand EXCEPT ![r][n] = "authorised"]
                  ELSE Answer(r, n, "refused")
  /\ UNCHANGED <<rows, thread, control, admission, turn, post, says, turns, bounds>>

\* claimRuntimeInbound: a run that was admitted is not admitted again.
Claim(r, n) ==
  /\ hand[r][n] = "authorised"
  /\ \/ /\ admission[r] = "none"
        /\ hand' = [hand EXCEPT ![r][n] = "claimed"]
        /\ admission' = [admission EXCEPT ![r] = "pending"]
     \/ admission[r] = "pending" /\ Answer(r, n, "conflict") /\ UNCHANGED admission
     \/ admission[r] = "accepted" /\ Answer(r, n, "ok") /\ UNCHANGED admission
  /\ UNCHANGED <<rows, thread, control, turn, post, says, turns, bounds>>

\* Mutant: the lane is held until the model is called, not until the turn ends.
LaneUntilInvoked == \A u \in Runs : turn[u] # "setup"

\* One turn at a time has the lane of the session.
LaneFree == \A u \in Runs : turn[u] = "none"

StartTurn(r, n) ==
  /\ hand[r][n] = "claimed"
  /\ \/ /\ LaneFree
        /\ turn' = [turn EXCEPT ![r] = "setup"]
        /\ hand' = [hand EXCEPT ![r][n] = "begun"]
        /\ UNCHANGED admission
     \/ /\ ~LaneFree
        /\ admission' = [admission EXCEPT ![r] = "none"]
        /\ Answer(r, n, "conflict")
        /\ UNCHANGED turn
  /\ UNCHANGED <<rows, thread, control, post, says, turns, bounds>>

\* The model is called and the delivery that began the turn is answered.
Invoke(r, n) ==
  /\ hand[r][n] = "begun" /\ turn[r] = "setup"
  /\ turn' = [turn EXCEPT ![r] = "running"]
  /\ turns' = [turns EXCEPT ![r] = @ + 1]
  /\ admission' = [admission EXCEPT ![r] = "accepted"]
  /\ Answer(r, n, "ok")
  /\ UNCHANGED <<rows, thread, control, post, says, bounds>>

Deliver(r, k) == cb' = [cb EXCEPT ![r][k] = "posted"]

\* A turn that cannot be set up posts its error once; the delivery that began
\* it is answered when that is over.
SetupFails(r) ==
  /\ turn[r] = "setup"
  /\ Lose
  /\ turn' = [turn EXCEPT ![r] = "excuse"]
  /\ says' = [says EXCEPT ![r] = "error"]
  /\ post' = [post EXCEPT ![r] = MaxPosts]
  /\ Deliver(r, MaxPosts)
  /\ UNCHANGED <<rows, thread, req, try, inFlight, stop, hand, admission, turns, crashes,
                 deaths, stops>>

AnswerFailed(r, n) ==
  /\ hand[r][n] = "begun" /\ turn[r] = "none"
  /\ admission' = [admission EXCEPT ![r] = "none"]
  /\ Answer(r, n, "failed")
  /\ UNCHANGED <<rows, thread, control, turn, post, says, turns, bounds>>

\* A turn that had nothing to say but what is kept from the reader (the echo of
\* its tools) ends without a post.
EndsSilently(r) ==
  /\ turn[r] = "running"
  /\ says' = [says EXCEPT ![r] = "nothing"]
  /\ turn' = [turn EXCEPT ![r] = "none"]
  /\ UNCHANGED <<rows, thread, control, hand, admission, post, turns, bounds>>

TurnEnds(r) ==
  /\ turn[r] = "running"
  /\ \E a \in {"reply", "error"} : says' = [says EXCEPT ![r] = a]
  /\ turn' = [turn EXCEPT ![r] = "posting"]
  /\ post' = [post EXCEPT ![r] = 1]
  /\ Deliver(r, 1)
  /\ UNCHANGED <<rows, thread, req, try, inFlight, stop, hand, admission, turns, bounds>>

\* postWithRetry: the next attempt, or the end of the turn and of its lane.
NextPost(r) ==
  \/ /\ post[r] < MaxPosts
     /\ post' = [post EXCEPT ![r] = @ + 1]
     /\ cb' = [cb EXCEPT ![r][post'[r]] = "posted"]
     /\ UNCHANGED turn
  \/ /\ post[r] = MaxPosts
     /\ turn' = [turn EXCEPT ![r] = "none"]
     /\ post' = [post EXCEPT ![r] = 0]
     /\ UNCHANGED cb

Posting(r) == turn[r] \in {"posting", "excuse"}

\* The handler of the post died with Mission Control.
PostBroken(r) ==
  /\ Posting(r) /\ cb[r][post[r]] = "idle"
  /\ NextPost(r)
  /\ UNCHANGED <<rows, thread, req, try, inFlight, stop, hand, admission, says, turns,
                 bounds>>

\* The post times out; its handler goes on.
PostLost(r) ==
  /\ Posting(r) /\ cb[r][post[r]] # "idle"
  /\ Lose
  /\ NextPost(r)
  /\ UNCHANGED <<rows, thread, req, try, inFlight, stop, hand, admission, says, turns,
                 crashes, deaths, stops>>

\* The post never arrives.
PostDropped(r) ==
  /\ Posting(r) /\ cb[r][post[r]] = "posted"
  /\ Lose
  /\ cb' = [cb EXCEPT ![r][post[r]] = "idle"]
  /\ UNCHANGED <<rows, thread, req, try, inFlight, stop, gateway, crashes, deaths, stops>>
-------------------------------------------------------------------------------
(* webhookHandler *)

At(r, k, pc) == cb[r][k] = pc
CbGo(r, k, pc) == cb' = [cb EXCEPT ![r][k] = pc]

\* An ended run is left alone (a cancelled one takes the marker with it), and
\* so is a run whose callback is being handled.
CallbackAuthorised(r, k) ==
  /\ At(r, k, "posted")
  /\ marker' = (marker /\ row[r] # "cancelled")
  /\ IF Active(r) /\ r \notin inFlight
     THEN CbGo(r, k, "claim") /\ inFlight' = inFlight \cup {r}
     ELSE CbGo(r, k, "done") /\ UNCHANGED inFlight
  /\ UNCHANGED <<rows, cards, notices, req, try, stop, gateway, bounds>>

Leave(r, k) == CbGo(r, k, "done") /\ inFlight' = inFlight \ {r}

\* Only a fingerprint seen before makes the handler look at the run again.
CallbackClaims(r, k) ==
  /\ At(r, k, "claim")
  /\ prints' = [prints EXCEPT ![r] = TRUE]
  /\ IF prints[r] /\ ~Active(r) THEN Leave(r, k)
     ELSE CbGo(r, k, "thread") /\ UNCHANGED inFlight
  /\ UNCHANGED <<key, row, thread, req, try, stop, gateway, bounds>>

\* The newest active run of the thread takes the cancel marker, and is
\* discarded by it unless a user message came later.
OwnsThread(r) == Active(r) /\ \A u \in Runs : u > r => ~Active(u)

CallbackReadsThread(r, k) ==
  /\ At(r, k, "thread")
  /\ marker' = (marker /\ ~OwnsThread(r))
  /\ IF OwnsThread(r) /\ marker THEN Leave(r, k)
     ELSE CbGo(r, k, "add") /\ UNCHANGED inFlight
  /\ UNCHANGED <<rows, cards, notices, req, try, stop, gateway, bounds>>

\* addMessage keeps the card it has under the same delivery key.
CallbackAddsCard(r, k) ==
  /\ At(r, k, "add")
  /\ cards' = [cards EXCEPT ![r] = IF @ = 0 THEN 1 ELSE @]
  /\ CbGo(r, k, "mark")
  /\ UNCHANGED <<rows, notices, marker, req, try, inFlight, stop, gateway, bounds>>

\* A post may be that of a turn before one that said nothing.
CallbackMarks(r, k) ==
  /\ At(r, k, "mark")
  /\ \/ says[r] # "error" /\ Mark(r, "completed")
     \/ says[r] # "reply" /\ Mark(r, "failed")
  /\ Leave(r, k)
  /\ UNCHANGED <<key, prints, thread, req, try, stop, gateway, bounds>>

\* The plugin takes the answer of the post it waits for, and the turn is over.
CallbackAnswers(r, k) ==
  /\ At(r, k, "done")
  /\ CbGo(r, k, "idle")
  /\ \/ /\ Posting(r) /\ post[r] = k
        /\ turn' = [turn EXCEPT ![r] = "none"]
        /\ post' = [post EXCEPT ![r] = 0]
     \/ ~(Posting(r) /\ post[r] = k) /\ UNCHANGED <<turn, post>>
  /\ UNCHANGED <<rows, thread, req, try, inFlight, stop, hand, admission, says,
                 turns, bounds>>
-------------------------------------------------------------------------------
(* cancelHandler *)

\* messaging.cancel marks the thread before the run is cancelled.
PressStop(r) ==
  /\ stop[r] = "idle" /\ crashes + deaths + stops < MaxTroubles
  /\ Active(r)
  /\ stops' = stops + 1
  /\ marker' = TRUE
  /\ stop' = [stop EXCEPT ![r] = "cancel"]
  /\ UNCHANGED <<rows, cards, notices, req, try, cb, inFlight, gateway, losses, crashes,
                 deaths>>

StopCancels(r) ==
  /\ stop[r] = "cancel"
  /\ Mark(r, "cancelled")
  /\ stop' = [stop EXCEPT ![r] = "note"]
  /\ UNCHANGED <<key, prints, thread, req, try, cb, inFlight, gateway, bounds>>

\* The thread is marked again and the user is told. The "/stop" that follows
\* names no run and carries no capability: the gateway refuses it.
StopTells(r) ==
  /\ stop[r] = "note"
  /\ marker' = TRUE
  /\ notices' = [notices EXCEPT ![r] = @ \cup {"stopped"}]
  /\ stop' = [stop EXCEPT ![r] = "idle"]
  /\ UNCHANGED <<rows, cards, req, try, cb, inFlight, gateway, bounds>>
-------------------------------------------------------------------------------
(* Crashes *)

ControlCrashes ==
  /\ crashes + deaths + stops < MaxTroubles
  /\ crashes' = crashes + 1
  /\ req' = [r \in Runs |-> "idle"]
  /\ try' = [r \in Runs |-> 0]
  /\ cb' = [r \in Runs |-> [k \in Posts |-> "idle"]]
  /\ inFlight' = {}
  /\ stop' = [r \in Runs |-> "idle"]
  /\ marker' = FALSE
  /\ UNCHANGED <<rows, cards, notices, gateway, losses, deaths, stops>>

GatewayCrashes ==
  /\ crashes + deaths + stops < MaxTroubles
  /\ deaths' = deaths + 1
  /\ hand' = [r \in Runs |-> [n \in Tries |-> "none"]]
  /\ admission' = [r \in Runs |-> "none"]
  /\ turn' = [r \in Runs |-> "none"]
  /\ post' = [r \in Runs |-> 0]
  /\ UNCHANGED <<rows, thread, control, says, turns, losses, crashes, stops>>
-------------------------------------------------------------------------------
Request(r) ==
  \/ StoreMessage(r) \/ Post(r) \/ Answered(r) \/ ConnectionReset(r)
  \/ MarkDispatched(r) \/ MarkFailed(r) \/ Tell(r)

Handler(r) ==
  \E n \in Tries :
    Authorise(r, n) \/ Claim(r, n) \/ StartTurn(r, n) \/ Invoke(r, n) \/ AnswerFailed(r, n)

Turn(r) == EndsSilently(r) \/ TurnEnds(r) \/ PostBroken(r)

Callback(r, k) ==
  \/ CallbackAuthorised(r, k) \/ CallbackClaims(r, k) \/ CallbackReadsThread(r, k)
  \/ CallbackAddsCard(r, k) \/ CallbackMarks(r, k) \/ CallbackAnswers(r, k)

StopStep(r) == StopCancels(r) \/ StopTells(r)

Next ==
  \/ \E r \in Runs :
       \/ \E k \in Keys : Create(r, k)
       \/ Request(r) \/ Handler(r) \/ Turn(r)
       \/ \E k \in Posts : Callback(r, k)
       \/ ConnectionLost(r) \/ TimesOut(r) \/ SetupFails(r) \/ PostLost(r)
       \/ PostDropped(r)
       \/ PressStop(r) \/ StopStep(r)
  \/ ControlCrashes \/ GatewayCrashes

Spec == Init /\ [][Next]_vars

\* Every handler, every turn and every post goes on while its process lives.
FairSpec ==
  /\ Spec
  /\ \A r \in Runs :
       /\ WF_vars(Request(r)) /\ WF_vars(Handler(r)) /\ WF_vars(Turn(r))
       /\ \A k \in Posts : WF_vars(Callback(r, k))
       /\ WF_vars(StopStep(r))
-------------------------------------------------------------------------------
(* Properties *)

\* A turn begins again only in a gateway that has forgotten the first one.
TurnsBounded == \A r \in Runs : turns[r] <= 1 + deaths

\* No two turns of a session run at once, retries and late deliveries included.
OneTurnAtATime == Cardinality({r \in Runs : turn[r] # "none"}) <= 1

\* Posts that overlap, are repeated or survive a crash leave one reply card.
OneCardPerReply == \A r \in Runs : cards[r] <= 1

\* A run that completed shows its reply in the thread.
CompletedIsVisible == \A r \in Runs : row[r] = "completed" => cards[r] > 0

\* Posts that are repeated, late or lost in either direction: a run has one turn
\* in the gateway for each time it was forgotten, a thread one turn at a time,
\* a reply one card, and a run that ended as completed has shown it.
ThreadHolds ==
  TypeOK /\ TurnsBounded /\ OneTurnAtATime /\ OneCardPerReply /\ CompletedIsVisible

\* What a run ended as is never rewritten by a slower handler.
EndIsFinal == [][\A r \in Runs : row[r] \in Ended => row'[r] = row[r]]_vars

\* The mark of a Stop took the reply of the run: it was claimed, and left no card.
Discarded(r) == stops > 0 /\ prints[r] /\ cards[r] = 0

\* When no process dies and posts are lost less often than they are repeated, every
\* run ends but one whose turn said nothing or whose reply the mark of a Stop took.
RunsEnd == <>[](\A r \in Runs : Active(r) => says[r] = "nothing" \/ Discarded(r))
===============================================================================
