---------------------------- MODULE PostgresRuns ----------------------------
(***************************************************************************)
(* src/lib/data/agent-runs-postgres.ts: the registry of agent runs in      *)
(* Postgres.  Every write is one statement; a create is three of them,     *)
(* with the statements of other clients, callbacks and Stops in between:   *)
(* the insert that gives way to the unique index, the read of its own row, *)
(* and the search for the run that was in its way.  A connection may break *)
(* after a statement took effect, and the caller then creates again.       *)
(***************************************************************************)
EXTENDS Integers, Sequences, FiniteSets, TLC

CONSTANTS
  Clients,      \* calls of createWithReceipt
  Ids,          \* run ids, never used twice
  Keys, NoKey,  \* idempotency keys, each with its thread
  Prints,       \* fingerprints of callbacks
  Kept,         \* how many fingerprints a row keeps (100 in the code)
  MaxAccepted,  \* bound: callbacks accepted for one run
  MaxFaults     \* bound: connections that break

ASSUME RegistryAssumption ==
  /\ NoKey \notin Keys /\ "none" \notin Ids /\ Kept \in Nat \ {0}
  /\ MaxAccepted \in Nat /\ MaxFaults \in Nat

VARIABLES
  status,    \* of every run, "none" before it is inserted
  key,       \* the idempotency key of every run
  prints,    \* callback_fingerprints
  events,    \* agent_run_events: which events each run has
  at, want, mine, told,  \* of every client: where it is, its key, the id it made up, its receipt
  faults,
  accepted   \* for checking: every fingerprint that was accepted, in order

rows == <<status, key, prints, events, accepted>>
vars == <<rows, at, want, mine, told, faults>>

Active   == {"queued", "running"}
Terminal == {"completed", "failed", "cancelled"}
Statuses == Active \cup Terminal
NoId     == "none"

(* The status list of the partial unique index, and of the search for the  *)
(* run that was in the way of an insert.                                   *)
Conflicting == {"queued", "running", "completed"}

(* The event of each transition.  The one of a Stop is appended without any *)
(* as well, while the Stop waits for work in flight, whatever the run       *)
(* becomes then.  Events that name no status (progress, the way of a Stop,  *)
(* artifacts read back) are left out.                                       *)
EventOf == [running |-> "runtime_dispatched", completed |-> "bot_reply",
            failed |-> "failed", cancelled |-> "cancel_requested"]
Appended == {"cancel_requested"}

TypeOK ==
  /\ status \in [Ids -> Statuses \cup {"none"}] /\ key \in [Ids -> Keys \cup {NoKey}]
  /\ prints \in [Ids -> Seq(Prints)] /\ accepted \in [Ids -> Seq(Prints)]
  /\ events \in [Ids -> SUBSET ({"run_created", "runtime_dispatched", "bot_reply", "failed"}
                                \cup Appended)]
  /\ at \in [Clients -> {"idle", "insert", "read", "winner", "done"}]
  /\ want \in [Clients -> Keys \cup {NoKey}] /\ mine \in [Clients -> Ids \cup {NoId}]
  /\ told \in [Clients -> Ids \cup {NoId}]
  /\ faults \in 0 .. MaxFaults
  /\ \A i \in Ids : status[i] = "none" => key[i] = NoKey /\ prints[i] = <<>>

Init ==
  /\ status = [i \in Ids |-> "none"] /\ key = [i \in Ids |-> NoKey]
  /\ prints = [i \in Ids |-> <<>>] /\ accepted = [i \in Ids |-> <<>>]
  /\ events = [i \in Ids |-> {}]
  /\ at = [c \in Clients |-> "idle"] /\ want = [c \in Clients |-> NoKey]
  /\ mine = [c \in Clients |-> NoId] /\ told = [c \in Clients |-> NoId]
  /\ faults = 0

Go(c, place) == at' = [at EXCEPT ![c] = place]

----------------------------------------------------------------------------
(* createWithReceipt.                                                      *)

(* An id is made up that nothing has and nobody else holds.                *)
Call(c, k) ==
  /\ at[c] = "idle"
  /\ \E i \in Ids : /\ status[i] = "none" /\ \A d \in Clients : mine[d] # i
                    /\ mine' = [mine EXCEPT ![c] = i]
  /\ told[c] = NoId /\ (want[c] # NoKey => k = want[c])
  /\ want' = [want EXCEPT ![c] = k] /\ Go(c, "insert")
  /\ UNCHANGED <<rows, told, faults>>

(* Mutant: the index leaves completed runs out.                            *)
ActiveConflicts(k) == k # NoKey /\ \E j \in Ids : key[j] = k /\ status[j] \in Active

Conflicts(k) == k # NoKey /\ \E j \in Ids : key[j] = k /\ status[j] \in Conflicting

(* One statement: the row and its event, or neither when the index has the *)
(* key already.                                                            *)
Written(c) ==
  IF Conflicts(want[c])
  THEN UNCHANGED rows
  ELSE /\ status' = [status EXCEPT ![mine[c]] = "queued"]
       /\ key' = [key EXCEPT ![mine[c]] = want[c]]
       /\ events' = [events EXCEPT ![mine[c]] = {"run_created"}]
       /\ UNCHANGED <<prints, accepted>>

Insert(c) ==
  /\ at[c] = "insert"
  /\ Written(c) /\ Go(c, "read")
  /\ UNCHANGED <<want, mine, told, faults>>

(* The call is over: with a receipt, or with an error and to be repeated.  *)
Return(c, i) ==
  /\ Go(c, IF i = NoId THEN "idle" ELSE "done")
  /\ mine' = [mine EXCEPT ![c] = NoId] /\ told' = [told EXCEPT ![c] = i]

(* The read of the row it may have inserted.                               *)
ReadBack(c) ==
  /\ at[c] = "read"
  /\ \/ status[mine[c]] # "none" /\ Return(c, mine[c])
     \/ status[mine[c]] = "none" /\ Go(c, "winner") /\ UNCHANGED <<mine, told>>
  /\ UNCHANGED <<rows, want, faults>>

(* Mutant: the search takes any run of the key, ended ones too.            *)
AnyWinner(c) ==
  /\ at[c] = "winner"
  /\ \E i \in Ids : key[i] = want[c] /\ status[i] # "none" /\ Return(c, i)
  /\ UNCHANGED <<rows, want, faults>>

(* The run that was in the way: it may have failed or been cancelled since *)
(* the insert gave way to it, and then the call throws.                    *)
Winner(c) ==
  /\ at[c] = "winner"
  /\ \/ \E i \in Ids : key[i] = want[c] /\ status[i] \in Conflicting /\ Return(c, i)
     \/ ~Conflicts(want[c]) /\ Return(c, NoId)
  /\ UNCHANGED <<rows, want, faults>>

(* The connection breaks, before or after the insert took effect; the      *)
(* caller knows nothing and creates again.                                 *)
Break(c) ==
  /\ faults < MaxFaults /\ want[c] # NoKey
  /\ \/ at[c] = "insert" /\ Written(c)
     \/ at[c] \in {"insert", "read", "winner"} /\ UNCHANGED rows
  /\ Return(c, NoId) /\ faults' = faults + 1 /\ UNCHANGED want

----------------------------------------------------------------------------
(* What callbacks, dispatches and Stops do to a run.                       *)

(* Mutant: only a completed run refuses a transition.                      *)
OpenUnlessCompleted(i) == status[i] \notin {"none", "completed"}

Open(i) == status[i] \in Active

(* transition: one statement updates a run that has not ended and writes   *)
(* its event.                                                              *)
Transition(i, s) ==
  /\ Open(i)
  /\ status' = [status EXCEPT ![i] = s]
  /\ events' = [events EXCEPT ![i] = @ \cup {EventOf[s]}]
  /\ UNCHANGED <<key, prints, accepted, at, want, mine, told, faults>>

(* appendEvent: an event for any run of the thread, ended or not.          *)
AppendEvent(i, e) ==
  /\ status[i] # "none"
  /\ events' = [events EXCEPT ![i] = @ \cup {e}]
  /\ UNCHANGED <<status, key, prints, accepted, at, want, mine, told, faults>>

Push(list, p) == IF Len(list) >= Kept THEN Append(Tail(list), p) ELSE Append(list, p)

(* claimCallbackFingerprint: one statement appends a fingerprint the row   *)
(* does not hold; the oldest of a full list makes room.                    *)
ClaimFingerprint(i, p) ==
  /\ status[i] # "none" /\ Len(accepted[i]) < MaxAccepted
  /\ ~\E n \in 1 .. Len(prints[i]) : prints[i][n] = p
  /\ prints' = [prints EXCEPT ![i] = Push(@, p)]
  /\ accepted' = [accepted EXCEPT ![i] = Append(@, p)]
  /\ UNCHANGED <<status, key, events, at, want, mine, told, faults>>

Create(c) == Insert(c) \/ ReadBack(c) \/ Winner(c)

Next ==
  \/ \E c \in Clients : (\E k \in Keys \cup {NoKey} : Call(c, k)) \/ Create(c) \/ Break(c)
  \/ \E i \in Ids, s \in {"running"} \cup Terminal : Transition(i, s)
  \/ \E i \in Ids, e \in Appended : AppendEvent(i, e)
  \/ \E i \in Ids, p \in Prints : ClaimFingerprint(i, p)

Spec == Init /\ [][Next]_vars

(* Statements are answered, and a create that threw is called again.       *)
FairSpec == Spec /\ \A c \in Clients : WF_vars(Create(c)) /\ WF_vars(\E k \in Keys : Call(c, k))

----------------------------------------------------------------------------
(* The repository implements the abstract registry: statement by statement *)
(* whatever clients, callbacks and Stops interleave.                       *)
Registry == INSTANCE RunRegistry
RegistrySpec == Registry!Spec

(* The unique index, the search and the transitions agree: a key never has *)
(* two runs that are open or completed, however creates race with failures *)
(* and Stops.                                                              *)
OneWinner ==
  \A i, j \in Ids : key[i] = key[j] /\ key[i] # NoKey
                    /\ status[i] \in Conflicting /\ status[j] \in Conflicting => i = j

(* agent-runs-postgres.ts:133: no transition without its receipt event, and *)
(* no event of a dispatch, a reply or a failure without its transition. A  *)
(* run is known by its events but for a Stop: one that was asked for is on *)
(* record before the run is cancelled, and when it ended otherwise.        *)
EventsTellStatus ==
  \A i \in Ids :
    /\ (status[i] # "none") = ("run_created" \in events[i])
    /\ \A s \in {"completed", "failed"} : (status[i] = s) = (EventOf[s] \in events[i])
    /\ status[i] = "cancelled" => EventOf["cancelled"] \in events[i]
    /\ status[i] = "running" => EventOf["running"] \in events[i]
    /\ status[i] \in {"none", "queued"} => EventOf["running"] \notin events[i]

(* Creates, transitions, Stops and lost answers leave a key with one run    *)
(* that is open or completed, and each run with the events of its status.   *)
RegistryHolds == TypeOK /\ OneWinner /\ EventsTellStatus

(* A receipt names a run of the caller's own key, one the registry accepted *)
(* work for when the receipt was made: an ended attempt never masks it.    *)
ReceiptIsWinner ==
  [][\A c \in Clients : told[c] = NoId /\ told'[c] # NoId =>
       /\ key[told'[c]] = want[c]
       /\ told'[c] = mine[c] \/ status[told'[c]] \in Conflicting]_vars

(* Every call of a key gets a receipt in the end, whatever run of the key  *)
(* fails or is cancelled between its statements.                           *)
CreateEnds == <>(\A c \in Clients : at[c] = "done")

=============================================================================
