---------------------------- MODULE ExecutionOrigin ----------------------------
(***************************************************************************)
(* One trusted origin (the root turn of a chat) in execution_origins, the  *)
(* runs registered under it in execution_run_origins, the statement that   *)
(* admits a child, the statement that claims the origin for an external    *)
(* command, and the Stop fan-out of requestExecutionOriginCancellation.    *)
(*                                                                         *)
(* Admission, command claim and Stop all write the origin row: each waits  *)
(* for the row lock of the others and then acts on the latest version of   *)
(* that row, which is the step modelled here. Every other table is read    *)
(* from the snapshot the statement took when it began (READ COMMITTED);    *)
(* the command claim is the one statement where that makes a difference.   *)
(***************************************************************************)
EXTENDS Integers, FiniteSets

CONSTANTS
  N,         \* children are 1 .. N, in the order of their random run ids
  Stops,     \* calls of the Stop fan-out, each by another actor
  Commands,  \* external commands (operation and fingerprint)
  None,      \* SQL NULL
  Operator,  \* a cancellation of one run through its own control path
  PageSize   \* ORIGIN_CHILD_PAGE_SIZE

OriginAssumption ==
  /\ N \in Nat
  /\ PageSize \in Nat \ {0}
  /\ None \notin Stops \cup Commands \cup {Operator}
  /\ Operator \notin Stops

Children == 1 .. N

VARIABLES
  origin,   \* the row of the origin: Stop receipt and claimed command
  child,    \* child[c]: the run row of c; a row that exists is registered
  claim,    \* claim[k]: what the claim of k saw of the children when it began
  stop      \* stop[s]: progress of a fan-out

vars == <<origin, child, claim, stop>>

\* "completed" stands for every end but the cancellation.
Terminal == {"completed", "cancelled"}

TypeOK ==
  /\ origin \in [cancel : Stops \cup {None}, command : Commands \cup {None}]
  /\ child \in [Children -> [status : {"absent", "queued", "running"} \cup Terminal,
                             cancel : Stops \cup {None, Operator}]]
  /\ claim \in [Commands -> {"idle", "saw_none", "saw_some"}]
  /\ stop \in [Stops -> [pc    : {"idle", "paging", "requesting", "done"},
                         after : 0 .. N,
                         todo  : SUBSET Children,
                         more  : BOOLEAN]]

Fresh(pc) == [pc |-> pc, after |-> 0, todo |-> {}, more |-> FALSE]

Init ==
  /\ origin = [cancel |-> None, command |-> None]
  /\ child = [c \in Children |-> [status |-> "absent", cancel |-> None]]
  /\ claim = [k \in Commands |-> "idle"]
  /\ stop = [s \in Stops |-> Fresh("idle")]

Registered == {c \in Children : child[c].status # "absent"}
-------------------------------------------------------------------------------
(* Admission *)

\* Mutant: the admission does not look at the Stop receipt.
CreateDespiteStop(c) ==
  /\ child[c].status = "absent"
  /\ child' = [child EXCEPT ![c].status = "queued"]
  /\ UNCHANGED <<origin, claim, stop>>

\* The gate, the run and its registration are one statement; once a Stop is
\* recorded nothing is inserted and the caller learns the origin is cancelled.
CreateRunWithTrustedOrigin(c) ==
  /\ child[c].status = "absent"
  /\ origin.cancel = None
  /\ child' = [child EXCEPT ![c].status = "queued"]
  /\ UNCHANGED <<origin, claim, stop>>

BeginClaim(k) ==
  /\ claim[k] = "idle"
  /\ claim' = [claim EXCEPT ![k] = IF Registered = {} THEN "saw_none"
                                                      ELSE "saw_some"]
  /\ UNCHANGED <<origin, child, stop>>

\* The first command wins; a replay of it succeeds without a change, any other
\* is refused. An origin with children and no command is not adopted, as far as
\* the snapshot of the statement shows its children.
ClaimExecutionOriginCommand(k) ==
  /\ claim[k] # "idle"
  /\ claim' = [claim EXCEPT ![k] = "idle"]
  /\ origin' = IF /\ origin.cancel = None
                  /\ origin.command = None
                  /\ claim[k] = "saw_none"
               THEN [origin EXCEPT !.command = k]
               ELSE origin
  /\ UNCHANGED <<child, stop>>
-------------------------------------------------------------------------------
(* The Stop fan-out *)

\* The receipt comes first, and its first writer wins.
RequestOriginCancellation(s) ==
  /\ stop[s].pc = "idle"
  /\ origin' = [origin EXCEPT !.cancel = IF @ = None THEN s ELSE @]
  /\ stop' = [stop EXCEPT ![s] = Fresh("paging")]
  /\ UNCHANGED <<child, claim>>

\* The next children after the cursor, in the order of their run ids.
Page(after) ==
  {c \in Registered :
     /\ c > after
     /\ Cardinality({d \in Registered : after < d /\ d <= c}) <= PageSize}

\* Where the cursor stands after that page.
Cursor(after) ==
  CHOOSE c \in Page(after) \cup {after} : \A d \in Page(after) : d <= c

Unstopped(c) == child[c].status \notin Terminal /\ child[c].cancel = None

\* listRunsByExecutionOriginPage. What the page shows of a child may be out of
\* date when its turn comes.
ListPage(s) ==
  /\ stop[s].pc = "paging"
  /\ LET last == Cursor(stop[s].after)
     IN stop' = [stop EXCEPT
          ![s] = [pc    |-> "requesting",
                  after |-> last,
                  todo  |-> {c \in Page(stop[s].after) : Unstopped(c)},
                  more  |-> \E c \in Registered : c > last]]
  /\ UNCHANGED <<origin, child, claim>>

\* requestRunCancellation of the next child: a queued child is cancelled, a
\* running one asked to stop. A child that ended since, or that somebody else
\* has stopped, is a conflict: it fails the whole fan-out.
RequestChild(s) ==
  /\ stop[s].pc = "requesting"
  /\ \E c \in stop[s].todo :
       /\ \A d \in stop[s].todo : c <= d
       /\ \/ /\ Unstopped(c)
             /\ child' = [child EXCEPT
                  ![c] = [status |-> IF @.status = "queued" THEN "cancelled"
                                                            ELSE @.status,
                          cancel |-> s]]
             /\ stop' = [stop EXCEPT ![s].todo = @ \ {c}]
          \/ /\ ~Unstopped(c)
             /\ stop' = [stop EXCEPT ![s] = Fresh("idle")]
             /\ UNCHANGED child
  /\ UNCHANGED <<origin, claim>>

EndPage(s) ==
  /\ stop[s].pc = "requesting"
  /\ stop[s].todo = {}
  /\ stop' = [stop EXCEPT ![s] = IF @.more THEN [@ EXCEPT !.pc = "paging"]
                                         ELSE Fresh("done")]
  /\ UNCHANGED <<origin, child, claim>>

\* The process that runs the fan-out dies, or its Stop is pressed again later.
EndStop(s) ==
  /\ stop[s].pc # "idle"
  /\ stop' = [stop EXCEPT ![s] = Fresh("idle")]
  /\ UNCHANGED <<origin, child, claim>>
-------------------------------------------------------------------------------
(* The life of the children, as ExecutionLedger has it *)

Become(c, from, to) ==
  /\ child[c].status = from
  /\ child' = [child EXCEPT ![c].status = to]
  /\ UNCHANGED <<origin, claim, stop>>

ClaimRun(c) == Become(c, "queued", "running")

RequeueRun(c) == child[c].cancel = None /\ Become(c, "running", "queued")

FinishRun(c) ==
  /\ child[c].cancel = None
  /\ Become(c, "running", "completed")

AcknowledgeCancellation(c) ==
  child[c].cancel # None /\ Become(c, "running", "cancelled")

CancelOneRun(c) ==
  /\ child[c].status \in {"queued", "running"}
  /\ Unstopped(c)
  /\ child' = [child EXCEPT
       ![c] = [status |-> IF @.status = "queued" THEN "cancelled" ELSE @.status,
               cancel |-> Operator]]
  /\ UNCHANGED <<origin, claim, stop>>
-------------------------------------------------------------------------------
Next ==
  \/ \E c \in Children :
       \/ CreateRunWithTrustedOrigin(c)
       \/ ClaimRun(c)
       \/ RequeueRun(c)
       \/ FinishRun(c)
       \/ AcknowledgeCancellation(c)
       \/ CancelOneRun(c)
  \/ \E k \in Commands : BeginClaim(k) \/ ClaimExecutionOriginCommand(k)
  \/ \E s \in Stops :
       \/ RequestOriginCancellation(s)
       \/ ListPage(s)
       \/ RequestChild(s)
       \/ EndPage(s)
       \/ EndStop(s)

Spec == Init /\ [][Next]_vars
-------------------------------------------------------------------------------
(* Properties *)

\* When a Stop reports success, no child of the origin is left that neither
\* ended nor was asked to stop: none was admitted behind its cursor, skipped by
\* its pages or requeued without its request.
StopCoversChildren ==
  \A s \in Stops : stop[s].pc = "done" =>
    \A c \in Registered : child[c].status \in Terminal \/ child[c].cancel # None

\* A fan-out never loses a child it has passed: whatever lies before its cursor
\* and is not on its page has ended or was asked to stop.
NothingBehindCursor ==
  \A s \in Stops : stop[s].pc \in {"paging", "requesting"} =>
    \A c \in Registered :
      c <= stop[s].after /\ c \notin stop[s].todo => ~Unstopped(c)

\* A Stop is for ever: once it is recorded no child is admitted, no command
\* claims the origin, and the receipt stays that of the first Stop.
StopIsForEver ==
  [][origin.cancel # None => origin' = origin /\ Registered' = Registered]_vars

\* The first external command keeps the origin.
FirstCommandWins ==
  [][origin.command # None => origin'.command = origin.command]_vars

\* An unclaimed origin with a child is never adopted by a command
\* (execution-origin-command-claim.integration.test.mts).
ChildrenNeverAdopted ==
  [][origin.command = None /\ origin'.command # None => Registered = {}]_vars
===============================================================================
