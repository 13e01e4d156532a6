------------------------------- MODULE AgentTurn -------------------------------
(***************************************************************************)
(* One durable chat turn, from its admission to its last message: the      *)
(* dispatch row in the execution ledger, the parent AgentRun, the durable  *)
(* work the turn may start (its child), the cards a reader of the thread   *)
(* sees, the request handlers of Mission Control and the mc-chat plugin    *)
(* that runs the model in another process.                                 *)
(*                                                                         *)
(* A handler is one step per await that changes or reads shared state. Its *)
(* caller may time out and go on while it still runs; a crash of Mission   *)
(* Control ends every handler, a crash of the plugin ends every turn it    *)
(* hosts. Lease tokens are random: a token nobody holds any more may stand *)
(* for the next one. Statements on the dispatch row are those of           *)
(* ExecutionLedger, the Stop gate of the child is that of ExecutionOrigin. *)
(***************************************************************************)
EXTENDS Integers, FiniteSets

CONSTANTS
  Tokens,    \* lease tokens alive at once
  None,      \* SQL NULL
  MaxFaults  \* bound of the model on crashes, lost answers and stalls

ASSUME TurnAssumption ==
  /\ None \notin Tokens
  /\ MaxFaults \in Nat

VARIABLES
  dispatch,       \* the row of operation chat.agent-turn
  parent,         \* status of the AgentRun
  child,          \* the durable run the turn may have started
  originStopped,  \* the Stop receipt on the trusted origin of the turn
  cards,          \* terminal messages in the thread, by delivery key
  prints,         \* callback fingerprints claimed by the AgentRun
  tomb,           \* cancelledThreads has the thread (process memory)
  stop,           \* the handler of /api/chat/cancel
  mc,             \* mc[t]: the handlers that act with token t
  worker,         \* worker[t]: the plugin's turn that holds token t
  answer,         \* answer[t]: what that turn has to say in the end
  invoked,        \* how many times the message went to the model
  retried,        \* transportAbortRetryUsed of the turn that holds token t
  faults          \* faults that may still happen

control == <<stop, mc>>
model == <<invoked, retried>>
vars == <<dispatch, parent, child, originStopped, cards, prints, tomb, control,
          worker, answer, model, faults>>

Ended == {"completed", "failed", "cancelled"}
Active == parent \in {"queued", "running"}
Answers == {"reply", "error"}

Quiet ==
  [claim |-> "idle", started |-> "idle", requeue |-> "idle", reply |-> "idle",
   complete |-> "idle"]

TypeOK ==
  /\ dispatch \in [status : {"queued", "running", "completed", "cancelled"},
                   token  : Tokens \cup {None},
                   live   : BOOLEAN,
                   stage  : {"none", "runtime_claimed", "runtime_committed"},
                   cancel : BOOLEAN]
  /\ parent \in {"queued", "running"} \cup Ended
  /\ child \in {"none", "active", "marked", "settled"}
  /\ originStopped \in BOOLEAN
  /\ cards \subseteq Answers \cup {"loss"}
  /\ prints \subseteq Answers
  /\ tomb \in BOOLEAN
  /\ stop \in {"idle", "children", "request", "request_pending", "note",
               "settle", "mark"}
  /\ mc \in [Tokens ->
       [claim    : {"idle", "children", "cancel_parent", "acknowledge", "fresh",
                    "committed", "publish", "fail", "finish", "admit", "answer"},
        started  : {"idle", "posted", "commit", "mark", "yes", "no"},
        requeue  : {"idle", "posted", "requeue"},
        reply    : {"idle", "posted", "claim", "thread", "add", "mark", "done"},
        complete : {"idle", "posted", "plain", "children", "cancel_parent",
                    "acknowledge", "yes", "no"}]]
  /\ worker \in [Tokens -> {"idle", "claimed", "starting", "refused", "ready",
                            "running", "replying", "completing", "last_try"}]
  /\ answer \in [Tokens -> Answers]
  /\ invoked \in 0 .. 3
  /\ retried \in [Tokens -> BOOLEAN]
  /\ faults \in 0 .. MaxFaults

Init ==
  /\ dispatch = [status |-> "queued", token |-> None, live |-> FALSE,
                 stage |-> "none", cancel |-> FALSE]
  /\ parent = "queued"
  /\ child = "none"
  /\ originStopped = FALSE
  /\ cards = {}
  /\ prints = {}
  /\ tomb = FALSE
  /\ stop = "idle"
  /\ mc = [t \in Tokens |-> Quiet]
  /\ worker = [t \in Tokens |-> "idle"]
  /\ answer = [t \in Tokens |-> "reply"]
  /\ invoked = 0
  /\ retried = [t \in Tokens |-> FALSE]
  /\ faults = MaxFaults
-------------------------------------------------------------------------------
(* The statements the handlers are made of *)

\* The token still holds the dispatch row.
Fenced(t) == dispatch.status = "running" /\ dispatch.token = t /\ dispatch.live

Ends(status) ==
  [dispatch EXCEPT !.status = status, !.token = None, !.live = FALSE]

FinishDispatch(t) ==
  dispatch' = IF Fenced(t) /\ ~dispatch.cancel THEN Ends("completed") ELSE dispatch

AcknowledgeDispatch(t) ==
  dispatch' = IF Fenced(t) /\ dispatch.cancel THEN Ends("cancelled") ELSE dispatch

\* An AgentRun changes until it has ended, and never after.
MarkParent(status) == parent' = IF Active THEN status ELSE parent

\* The Stop fan-out: the origin admits no further child, a queued child is
\* cancelled at once and a running one is asked to stop.
CancelOriginChildren ==
  /\ originStopped' = TRUE
  /\ child' \in IF child = "active" THEN {"marked", "settled"} ELSE {child}

At(t, handler, pc) == mc[t][handler] = pc
Go(t, handler, pc) == mc' = [mc EXCEPT ![t][handler] = pc]
Step(w, t) == worker' = [worker EXCEPT ![t] = w]
Fault == faults > 0 /\ faults' = faults - 1
-------------------------------------------------------------------------------
(* claim: claimNextChatAgentTurn *)

\* Mutant: a recovered turn is judged by its lease alone, never by its stage.
ClaimBranchByLease == IF dispatch.cancel THEN "children" ELSE "fresh"

\* What the row returned by the claim says decides how it is handled.
ClaimBranch ==
  IF dispatch.cancel THEN "children"
  ELSE IF dispatch.stage = "runtime_committed" THEN "committed" ELSE "fresh"

Claim(t) ==
  /\ mc[t] = Quiet /\ worker[t] = "idle"
  /\ \/ dispatch.status = "queued"
     \/ dispatch.status = "running" /\ ~dispatch.live
  /\ dispatch' = [dispatch EXCEPT !.status = "running", !.token = t, !.live = TRUE]
  /\ Go(t, "claim", ClaimBranch)
  /\ UNCHANGED <<parent, child, originStopped, cards, prints, tomb, stop, worker,
                 answer, model, faults>>

\* A child that has not settled leaves the lease to expire.
ClaimCancelsChildren(t) ==
  /\ At(t, "claim", "children")
  /\ CancelOriginChildren
  /\ Go(t, "claim", IF child' = "marked" THEN "idle" ELSE "cancel_parent")
  /\ UNCHANGED <<dispatch, parent, cards, prints, tomb, stop, worker, answer, model, faults>>

ClaimCancelsParent(t) ==
  /\ At(t, "claim", "cancel_parent")
  /\ MarkParent("cancelled")
  /\ Go(t, "claim", "acknowledge")
  /\ UNCHANGED <<dispatch, child, originStopped, cards, prints, tomb, stop, worker,
                 answer, model, faults>>

\* Mutant: a cancelled turn is finished like any other one.
ClaimFinishesCancelled(t) ==
  /\ At(t, "claim", "acknowledge")
  /\ FinishDispatch(t)
  /\ Go(t, "claim", "idle")
  /\ UNCHANGED <<parent, child, originStopped, cards, prints, tomb, stop, worker,
                 answer, model, faults>>

ClaimAcknowledges(t) ==
  /\ At(t, "claim", "acknowledge")
  /\ AcknowledgeDispatch(t)
  /\ Go(t, "claim", "idle")
  /\ UNCHANGED <<parent, child, originStopped, cards, prints, tomb, stop, worker,
                 answer, model, faults>>

\* The parent is read after the claim.
ClaimReadsParent(t) ==
  /\ \/ At(t, "claim", "fresh") /\ Go(t, "claim", IF Active THEN "admit" ELSE "finish")
     \/ At(t, "claim", "committed") /\ Go(t, "claim", IF Active THEN "publish" ELSE "finish")
  /\ UNCHANGED <<dispatch, parent, child, originStopped, cards, prints, tomb, stop,
                 worker, answer, model, faults>>

\* The loss is published under a key of its own before the parent fails.
ClaimPublishesLoss(t) ==
  /\ At(t, "claim", "publish")
  /\ cards' = cards \cup {"loss"}
  /\ Go(t, "claim", "fail")
  /\ UNCHANGED <<dispatch, parent, child, originStopped, prints, tomb, stop, worker,
                 answer, model, faults>>

ClaimFailsParent(t) ==
  /\ At(t, "claim", "fail")
  /\ MarkParent("failed")
  /\ Go(t, "claim", "finish")
  /\ UNCHANGED <<dispatch, child, originStopped, cards, prints, tomb, stop, worker,
                 answer, model, faults>>

ClaimFinishes(t) ==
  /\ At(t, "claim", "finish")
  /\ FinishDispatch(t)
  /\ Go(t, "claim", "idle")
  /\ UNCHANGED <<parent, child, originStopped, cards, prints, tomb, stop, worker,
                 answer, model, faults>>

\* The checkpoint records that a worker is about to have the turn.
ClaimAdmits(t) ==
  /\ At(t, "claim", "admit")
  /\ \/ /\ Fenced(t)
        /\ dispatch' = [dispatch EXCEPT !.stage = "runtime_claimed"]
        /\ Go(t, "claim", "answer")
     \/ ~Fenced(t) /\ Go(t, "claim", "idle") /\ UNCHANGED dispatch
  /\ UNCHANGED <<parent, child, originStopped, cards, prints, tomb, stop, worker,
                 answer, model, faults>>

\* The plugin has the turn, unless the answer comes too late.
ClaimAnswers(t) ==
  /\ At(t, "claim", "answer")
  /\ \/ Step("claimed", t) /\ UNCHANGED faults
     \/ Fault /\ UNCHANGED worker
  /\ Go(t, "claim", "idle")
  /\ UNCHANGED <<dispatch, parent, child, originStopped, cards, prints, tomb, stop,
                 answer, model>>
-------------------------------------------------------------------------------
(* started: markChatAgentTurnRuntimeStarted *)

PostStarted(t) ==
  /\ worker[t] = "claimed"
  /\ Step("starting", t)
  /\ Go(t, "started", "posted")
  /\ UNCHANGED <<dispatch, parent, child, originStopped, cards, prints, tomb, stop,
                 answer, model, faults>>

\* authorizeRuntimeDispatchLease for a request that needs a turn still wanted.
Wanted(t) == Fenced(t) /\ ~dispatch.cancel /\ Active

StartedAuthorised(t) ==
  /\ At(t, "started", "posted")
  /\ Go(t, "started", IF ~Wanted(t) THEN "no"
                      ELSE IF dispatch.stage = "runtime_committed" THEN "mark"
                      ELSE "commit")
  /\ UNCHANGED <<dispatch, parent, child, originStopped, cards, prints, tomb, stop,
                 worker, answer, model, faults>>

\* No replay after this point.
StartedCommits(t) ==
  /\ At(t, "started", "commit")
  /\ \/ /\ Fenced(t)
        /\ dispatch' = [dispatch EXCEPT !.stage = "runtime_committed"]
        /\ Go(t, "started", "mark")
     \/ ~Fenced(t) /\ Go(t, "started", "no") /\ UNCHANGED dispatch
  /\ UNCHANGED <<parent, child, originStopped, cards, prints, tomb, stop, worker,
                 answer, model, faults>>

\* The answer is yes whatever the parent has become in the meantime.
StartedMarksParent(t) ==
  /\ At(t, "started", "mark")
  /\ MarkParent("running")
  /\ Go(t, "started", "yes")
  /\ UNCHANGED <<dispatch, child, originStopped, cards, prints, tomb, stop, worker,
                 answer, model, faults>>

StartedAnswers(t) ==
  /\ mc[t].started \in {"yes", "no"}
  /\ Step(IF worker[t] # "starting" THEN worker[t]
          ELSE IF At(t, "started", "yes") THEN "ready" ELSE "refused", t)
  /\ Go(t, "started", "idle")
  /\ UNCHANGED <<dispatch, parent, child, originStopped, cards, prints, tomb, stop,
                 answer, model, faults>>

\* The plugin gives up on the answer; the handler goes on.
StartedTimesOut(t) ==
  /\ worker[t] = "starting"
  /\ Fault
  /\ Step("refused", t)
  /\ UNCHANGED <<dispatch, parent, child, originStopped, cards, prints, tomb,
                 control, answer, model>>
-------------------------------------------------------------------------------
(* requeue: a turn that was not admitted goes back to the queue *)

\* The lane of the session is busy, or the dispatch could not be set up.
NotAdmitted(t) ==
  /\ worker[t] = "claimed"
  /\ Fault
  /\ Step("refused", t)
  /\ UNCHANGED <<dispatch, parent, child, originStopped, cards, prints, tomb,
                 control, answer, model>>

PostRequeue(t) ==
  /\ worker[t] = "refused"
  /\ Step("idle", t)
  /\ Go(t, "requeue", "posted")
  /\ UNCHANGED <<dispatch, parent, child, originStopped, cards, prints, tomb, stop,
                 answer, model, faults>>

RequeueAuthorised(t) ==
  /\ At(t, "requeue", "posted")
  /\ Go(t, "requeue", IF Wanted(t) THEN "requeue" ELSE "idle")
  /\ UNCHANGED <<dispatch, parent, child, originStopped, cards, prints, tomb, stop,
                 worker, answer, model, faults>>

Requeue(t) ==
  /\ At(t, "requeue", "requeue")
  /\ dispatch' = IF Fenced(t) /\ ~dispatch.cancel THEN Ends("queued") ELSE dispatch
  /\ Go(t, "requeue", "idle")
  /\ UNCHANGED <<parent, child, originStopped, cards, prints, tomb, stop, worker,
                 answer, model, faults>>
-------------------------------------------------------------------------------
(* The model runs in the plugin *)

CountInvoked == invoked' = IF invoked < 3 THEN invoked + 1 ELSE invoked

Invoke(t) ==
  /\ worker[t] = "ready"
  /\ Step("running", t)
  /\ CountInvoked
  /\ retried' = [retried EXCEPT ![t] = FALSE]
  /\ UNCHANGED <<dispatch, parent, child, originStopped, cards, prints, tomb,
                 control, answer, faults>>

\* The transport broke in the middle of the turn and its reader has seen nothing:
\* the message goes to the model once more. Nobody asks whether the turn still
\* has its lease, and a Stop it has not noticed yet does not keep it from it.
InvokeAgain(t) ==
  /\ worker[t] = "running" /\ ~retried[t]
  /\ CountInvoked
  /\ retried' = [retried EXCEPT ![t] = TRUE]
  /\ UNCHANGED <<dispatch, parent, child, originStopped, cards, prints, tomb,
                 control, worker, answer, faults>>

StartChild(t) ==
  /\ worker[t] = "running" /\ child = "none" /\ ~originStopped
  /\ child' = "active"
  /\ UNCHANGED <<dispatch, parent, originStopped, cards, prints, tomb, control,
                 worker, answer, model, faults>>

ChildSettles ==
  /\ child \in {"active", "marked"}
  /\ child' = "settled"
  /\ UNCHANGED <<dispatch, parent, originStopped, cards, prints, tomb, control,
                 worker, answer, model, faults>>

\* The turn ends with an answer, or with an error when the dispatch failed or
\* was aborted after the start was answered.
PostReply(t, a) ==
  /\ \/ worker[t] = "running"
     \/ worker[t] = "ready" /\ a = "error"
  /\ At(t, "reply", "idle")
  /\ Step("replying", t)
  /\ answer' = [answer EXCEPT ![t] = a]
  /\ Go(t, "reply", "posted")
  /\ UNCHANGED <<dispatch, parent, child, originStopped, cards, prints, tomb, stop,
                 model, faults>>

\* An aborted turn ends without a word, and so does one that had nothing to say
\* but what is kept from the reader (the echo of its tools).
EndsSilently(t) ==
  /\ worker[t] = "running"
  /\ Step("completing", t)
  /\ UNCHANGED <<dispatch, parent, child, originStopped, cards, prints, tomb,
                 control, answer, model, faults>>
-------------------------------------------------------------------------------
(* The bot callback: webhookHandler *)

ReplyInFlight == \E u \in Tokens : mc[u].reply \notin {"idle", "posted", "done"}

\* A lost lease is refused, an ended run is left alone (a cancelled one takes
\* its tombstone with it), a run whose callback is being handled answers twice.
CallbackAuthorised(t) ==
  /\ At(t, "reply", "posted")
  /\ tomb' = (tomb /\ ~(Fenced(t) /\ parent = "cancelled"))
  /\ Go(t, "reply", IF Fenced(t) /\ Active /\ ~ReplyInFlight THEN "claim" ELSE "done")
  /\ UNCHANGED <<dispatch, parent, child, originStopped, cards, prints, stop, worker,
                 answer, model, faults>>

\* Only a fingerprint seen before makes the handler look at the run again.
CallbackClaimsPrint(t) ==
  /\ At(t, "reply", "claim")
  /\ prints' = prints \cup {answer[t]}
  /\ Go(t, "reply", IF answer[t] \in prints /\ ~Active THEN "done" ELSE "thread")
  /\ UNCHANGED <<dispatch, parent, child, originStopped, cards, tomb, stop, worker,
                 answer, model, faults>>

\* The tombstone of the thread discards the answer of its newest active run.
CallbackReadsThread(t) ==
  /\ At(t, "reply", "thread")
  /\ \/ Active /\ tomb /\ tomb' = FALSE /\ Go(t, "reply", "done")
     \/ ~(Active /\ tomb) /\ Go(t, "reply", "add") /\ UNCHANGED tomb
  /\ UNCHANGED <<dispatch, parent, child, originStopped, cards, prints, stop, worker,
                 answer, model, faults>>

CallbackAddsCard(t) ==
  /\ At(t, "reply", "add")
  /\ cards' = cards \cup {answer[t]}
  /\ Go(t, "reply", "mark")
  /\ UNCHANGED <<dispatch, parent, child, originStopped, prints, tomb, stop, worker,
                 answer, model, faults>>

CallbackMarksParent(t) ==
  /\ At(t, "reply", "mark")
  /\ MarkParent(IF answer[t] = "reply" THEN "completed" ELSE "failed")
  /\ Go(t, "reply", "done")
  /\ UNCHANGED <<dispatch, child, originStopped, cards, prints, tomb, stop, worker,
                 answer, model, faults>>

CallbackAnswers(t) ==
  /\ At(t, "reply", "done")
  /\ Step(IF worker[t] = "replying" THEN "completing" ELSE worker[t], t)
  /\ Go(t, "reply", "idle")
  /\ UNCHANGED <<dispatch, parent, child, originStopped, cards, prints, tomb, stop,
                 answer, model, faults>>

\* postWithRetry posts again when the handler died with Mission Control; a
\* retry that meets a live handler is answered at once, and after the last
\* attempt the turn goes on without an answer, and nothing counts as seen.
ReplyAgain(t) ==
  /\ worker[t] = "replying" /\ At(t, "reply", "idle")
  /\ Go(t, "reply", "posted")
  /\ UNCHANGED <<dispatch, parent, child, originStopped, cards, prints, tomb, stop,
                 worker, answer, model, faults>>

ReplyGivenUp(t) ==
  /\ worker[t] = "replying"
  /\ Fault
  /\ \/ Step("completing", t)
     \/ answer[t] = "reply" /\ Step("running", t)   \* the model goes on
  /\ UNCHANGED <<dispatch, parent, child, originStopped, cards, prints, tomb,
                 control, answer, model>>
-------------------------------------------------------------------------------
(* complete: completeChatAgentTurnRuntime *)

PostComplete(t) ==
  /\ worker[t] \in {"completing", "last_try"}
  /\ At(t, "complete", "idle")
  /\ Go(t, "complete", "posted")
  /\ UNCHANGED <<dispatch, parent, child, originStopped, cards, prints, tomb, stop,
                 worker, answer, model, faults>>

CompleteAuthorised(t) ==
  /\ At(t, "complete", "posted")
  /\ Go(t, "complete", IF ~Fenced(t) THEN "no"
                       ELSE IF dispatch.cancel THEN "children" ELSE "plain")
  /\ UNCHANGED <<dispatch, parent, child, originStopped, cards, prints, tomb, stop,
                 worker, answer, model, faults>>

CompleteFinishes(t) ==
  /\ At(t, "complete", "plain")
  /\ IF Active THEN UNCHANGED dispatch ELSE FinishDispatch(t)
  /\ Go(t, "complete", IF dispatch' # dispatch THEN "yes" ELSE "no")
  /\ UNCHANGED <<parent, child, originStopped, cards, prints, tomb, stop, worker,
                 answer, model, faults>>

CompleteCancelsChildren(t) ==
  /\ At(t, "complete", "children")
  /\ CancelOriginChildren
  /\ Go(t, "complete", IF child' = "marked" THEN "no" ELSE "cancel_parent")
  /\ UNCHANGED <<dispatch, parent, cards, prints, tomb, stop, worker, answer, model, faults>>

CompleteCancelsParent(t) ==
  /\ At(t, "complete", "cancel_parent")
  /\ MarkParent("cancelled")
  /\ Go(t, "complete", "acknowledge")
  /\ UNCHANGED <<dispatch, child, originStopped, cards, prints, tomb, stop, worker,
                 answer, model, faults>>

\* A parent that ended otherwise asks for a plain finish, which the pending
\* cancellation refuses: the next claim acknowledges it.
CompleteAcknowledges(t) ==
  /\ At(t, "complete", "acknowledge")
  /\ IF parent = "cancelled" THEN AcknowledgeDispatch(t) ELSE FinishDispatch(t)
  /\ Go(t, "complete", IF dispatch' # dispatch THEN "yes" ELSE "no")
  /\ UNCHANGED <<parent, child, originStopped, cards, prints, tomb, stop, worker,
                 answer, model, faults>>

\* Only a 409 is tried again; the attempts are two here.
CompleteAnswers(t) ==
  /\ mc[t].complete \in {"yes", "no"}
  /\ Step(IF worker[t] = "completing" /\ At(t, "complete", "no") THEN "last_try"
          ELSE IF worker[t] \in {"completing", "last_try"} THEN "idle"
          ELSE worker[t], t)
  /\ Go(t, "complete", "idle")
  /\ UNCHANGED <<dispatch, parent, child, originStopped, cards, prints, tomb, stop,
                 answer, model, faults>>

CompleteTimesOut(t) ==
  /\ worker[t] \in {"completing", "last_try"}
  /\ Fault
  /\ Step("idle", t)
  /\ UNCHANGED <<dispatch, parent, child, originStopped, cards, prints, tomb,
                 control, answer, model>>
-------------------------------------------------------------------------------
(* Stop: cancelHandler *)

StopIs(pc) == stop' = pc

PressStop ==
  /\ stop = "idle" /\ Active
  /\ StopIs("children")
  /\ UNCHANGED <<dispatch, parent, child, originStopped, cards, prints, tomb, mc,
                 worker, answer, model, faults>>

\* A turn that has ended may still have work to stop.
StopLateChildren ==
  /\ stop = "idle" /\ ~Active
  /\ CancelOriginChildren
  /\ UNCHANGED <<dispatch, parent, cards, prints, tomb, control, worker, answer,
                 model, faults>>

StopCancelsChildren ==
  /\ stop = "children"
  /\ CancelOriginChildren
  /\ StopIs(IF child' = "marked" THEN "request_pending" ELSE "request")
  /\ UNCHANGED <<dispatch, parent, cards, prints, tomb, mc, worker, answer, model, faults>>

\* requestRunCancellation: a queued dispatch is cancelled at once, a running
\* one is marked; one that has finished is a conflict and the handler throws.
StopRequests ==
  /\ stop \in {"request", "request_pending"}
  /\ dispatch' = IF dispatch.status = "queued"
                 THEN [dispatch EXCEPT !.status = "cancelled", !.cancel = TRUE]
                 ELSE IF dispatch.status = "running"
                 THEN [dispatch EXCEPT !.cancel = TRUE] ELSE dispatch
  /\ StopIs(IF dispatch.status = "completed" THEN "idle"
            ELSE IF dispatch.status = "running" \/ stop = "request_pending" THEN "note"
            ELSE "settle")
  /\ UNCHANGED <<parent, child, originStopped, cards, prints, tomb, mc, worker,
                 answer, model, faults>>

\* Only when nothing is pending does the handler end the parent itself.
StopSettles ==
  /\ \/ stop = "settle" /\ MarkParent("cancelled")
     \/ stop = "note" /\ UNCHANGED parent
  /\ StopIs("mark")
  /\ UNCHANGED <<dispatch, child, originStopped, cards, prints, tomb, mc, worker,
                 answer, model, faults>>

StopMarksThread ==
  /\ stop = "mark"
  /\ tomb' = TRUE
  /\ StopIs("idle")
  /\ UNCHANGED <<dispatch, parent, child, originStopped, cards, prints, mc, worker,
                 answer, model, faults>>
-------------------------------------------------------------------------------
(* Time and failures *)

\* Nobody renews the lease of an attempt that is over, nor that of a plugin or
\* of a handler that stalls for longer than the lease.
LeaseExpires ==
  /\ dispatch.status = "running" /\ dispatch.live
  /\ dispatch' = [dispatch EXCEPT !.live = FALSE]
  /\ LET t == dispatch.token IN
     \/ mc[t] = Quiet /\ worker[t] = "idle" /\ UNCHANGED faults
     \/ ~(mc[t] = Quiet /\ worker[t] = "idle") /\ Fault
  /\ UNCHANGED <<parent, child, originStopped, cards, prints, tomb, control, worker,
                 answer, model>>

MissionControlCrashes ==
  /\ Fault
  /\ mc' = [t \in Tokens |-> Quiet]
  /\ stop' = "idle"
  /\ tomb' = FALSE
  /\ worker' = [t \in Tokens |->
                  IF worker[t] = "starting" THEN "refused"
                  ELSE IF mc[t].complete # "idle" THEN "idle" ELSE worker[t]]
  /\ UNCHANGED <<dispatch, parent, child, originStopped, cards, prints, answer, model>>

PluginCrashes ==
  /\ Fault
  /\ \E t \in Tokens : worker[t] # "idle"
  /\ worker' = [t \in Tokens |-> "idle"]
  /\ UNCHANGED <<dispatch, parent, child, originStopped, cards, prints, tomb,
                 control, answer, model>>
-------------------------------------------------------------------------------
ClaimStep(t) ==
  \/ ClaimCancelsChildren(t) \/ ClaimCancelsParent(t) \/ ClaimAcknowledges(t)
  \/ ClaimReadsParent(t) \/ ClaimPublishesLoss(t) \/ ClaimFailsParent(t)
  \/ ClaimFinishes(t) \/ ClaimAdmits(t) \/ ClaimAnswers(t)

StartedStep(t) ==
  StartedAuthorised(t) \/ StartedCommits(t) \/ StartedMarksParent(t) \/ StartedAnswers(t)

RequeueStep(t) == RequeueAuthorised(t) \/ Requeue(t)

CallbackStep(t) ==
  \/ CallbackAuthorised(t) \/ CallbackClaimsPrint(t) \/ CallbackReadsThread(t)
  \/ CallbackAddsCard(t) \/ CallbackMarksParent(t) \/ CallbackAnswers(t)

CompleteStep(t) ==
  \/ CompleteAuthorised(t) \/ CompleteFinishes(t) \/ CompleteCancelsChildren(t)
  \/ CompleteCancelsParent(t) \/ CompleteAcknowledges(t) \/ CompleteAnswers(t)

PluginStep(t) ==
  \/ PostStarted(t) \/ PostRequeue(t) \/ Invoke(t) \/ InvokeAgain(t)
  \/ EndsSilently(t)
  \/ \E a \in Answers : PostReply(t, a)
  \/ ReplyAgain(t) \/ PostComplete(t)

GivesUp(t) ==
  StartedTimesOut(t) \/ NotAdmitted(t) \/ ReplyGivenUp(t) \/ CompleteTimesOut(t)

StopStep == StopCancelsChildren \/ StopRequests \/ StopSettles \/ StopMarksThread

Next ==
  \/ \E t \in Tokens :
       \/ Claim(t) \/ ClaimStep(t) \/ StartedStep(t) \/ RequeueStep(t)
       \/ CallbackStep(t) \/ CompleteStep(t) \/ PluginStep(t) \/ GivesUp(t)
       \/ StartChild(t)
  \/ ChildSettles \/ PressStop \/ StopLateChildren \/ StopStep
  \/ LeaseExpires \/ MissionControlCrashes \/ PluginCrashes

Spec == Init /\ [][Next]_vars

\* Nobody renews the lease of an attempt that is over.
AttemptOver == \E t \in Tokens : dispatch.token = t /\ mc[t] = Quiet /\ worker[t] = "idle"

\* A turn whose dispatch is cancelled but which still shows as running: Stop is
\* pressed again.
StopAgain == dispatch.status = "cancelled" /\ PressStop

\* Handlers and plugin go on while they live, the plugin polls, leases expire,
\* a child that was started ends.
Fairness ==
  /\ \A t \in Tokens :
       /\ WF_vars(ClaimStep(t))
       /\ WF_vars(StartedStep(t))
       /\ WF_vars(RequeueStep(t))
       /\ WF_vars(CallbackStep(t))
       /\ WF_vars(CompleteStep(t))
       /\ WF_vars(PluginStep(t))
  /\ WF_vars(\E t \in Tokens : Claim(t))
  /\ WF_vars(AttemptOver /\ LeaseExpires)
  /\ WF_vars(ChildSettles)
  /\ WF_vars(StopStep)

FairSpec == Spec /\ Fairness /\ WF_vars(StopAgain)
-------------------------------------------------------------------------------
(* Properties *)

\* The message goes to the model from one turn of the plugin only, whatever is
\* lost, repeated or taken over: no recovery runs it again. That turn itself may
\* send it a second time, after its transport broke, and never a third.
InvokedByOneTurn == invoked <= 1 \/ (invoked = 2 /\ \E t \in Tokens : retried[t])

\* Stop never lies: a turn shown as cancelled has no durable work in flight.
StopNeverLies == parent = "cancelled" => child \notin {"active", "marked"}

\* A turn that ended has told its reader: a completed one shows its reply, a
\* failed one an error or the notice that the runtime was lost.
EndIsVisible ==
  /\ parent = "completed" => "reply" \in cards
  /\ parent = "failed" => cards \cap {"error", "loss"} # {}

\* The ledger closes a turn as completed only after the turn itself has ended.
FinishedDispatchHasEndedParent == dispatch.status = "completed" => ~Active

Settled == dispatch.status \in {"completed", "cancelled"} /\ ~Active

\* Every turn settles on both sides once failures stop.
TurnSettles == <>Settled
===============================================================================
