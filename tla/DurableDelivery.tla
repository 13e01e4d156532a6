---------------------------- MODULE DurableDelivery ----------------------------
(***************************************************************************)
(* The immutable chat deliveries of mc-chat-durable-delivery: one file per *)
(* delivery key, published by a hard link so that concurrent writers race  *)
(* on one name, on a file system that forgets what was not fsynced when    *)
(* the machine stops.                                                      *)
(*                                                                         *)
(* A call is one appendDurableChatDelivery of some process. The file it    *)
(* writes is named after it: final[k] = c says that the name of key k is   *)
(* linked to the file of call c.                                           *)
(***************************************************************************)
EXTENDS Integers, FiniteSets

CONSTANTS
  Calls,     \* calls of appendDurableChatDelivery
  Keys,      \* delivery keys of the thread
  Messages,  \* messages, their first writer's timestamp left out
  None,      \* no file has the name
  Depth      \* path components between the workspace and the directory

DeliveryAssumption ==
  /\ Depth \in Nat \ {0}
  /\ None \notin Calls

VARIABLES
  call,      \* call[c]: the arguments and the progress of c
  data,      \* data[c]: what the file of c holds
  made,      \* how many components of the path exist
  final,     \* final[k]: the file the name of k is linked to
  safeDirs,  \* components whose entry in their parent is on disk
  safeData,  \* calls whose file is on disk
  safeNames  \* keys whose name is on disk

vars == <<call, data, made, final, safeDirs, safeData, safeNames>>
volatile == <<data, made, final>>
disk == <<safeDirs, safeData, safeNames>>

Components == 1 .. Depth
Succeeded == {"created", "existed"}

TypeOK ==
  /\ call \in [Calls -> [pc     : {"idle", "path", "sync_path", "open", "write",
                                   "sync", "link", "sync_name", "compare",
                                   "unlink", "returned", "dead"},
                         at     : Components,
                         key    : Keys,
                         msg    : Messages,
                         result : {"none", "conflict"} \cup Succeeded]]
  /\ data \in [Calls -> {"none", "partial", "full"}]
  /\ made \in 0 .. Depth
  /\ final \in [Keys -> Calls \cup {None}]
  /\ safeDirs \subseteq Components
  /\ safeData \subseteq Calls
  /\ safeNames \subseteq Keys

Init ==
  /\ call \in [Calls -> [pc : {"idle"}, at : {1}, key : Keys, msg : Messages,
                         result : {"none"}]]
  /\ data = [c \in Calls |-> "none"]
  /\ made = 0
  /\ final = [k \in Keys |-> None]
  /\ safeDirs = {}
  /\ safeData = {}
  /\ safeNames = {}

At(c, pc) == call[c].pc = pc
Go(c, pc) == call' = [call EXCEPT ![c].pc = pc]
Settle(c, pc, result) == call' = [call EXCEPT ![c].pc = pc, ![c].result = result]
Linked == {k \in Keys : final[k] # None}
Acknowledged == {c \in Calls : At(c, "returned") /\ call[c].result \in Succeeded}
-------------------------------------------------------------------------------
(* ensureDurableDeliveryDirectory *)

Begin(c) ==
  /\ At(c, "idle")
  /\ Go(c, "path")
  /\ UNCHANGED <<volatile, disk>>

\* mkdir, or EEXIST: somebody else has made the component.
MakeComponent(c) ==
  /\ At(c, "path")
  /\ made' = IF made < call[c].at THEN call[c].at ELSE made
  /\ Go(c, "sync_path")
  /\ UNCHANGED <<data, final, disk>>

\* The component is synced, then its parent, whoever created it.
SyncComponent(c) ==
  /\ At(c, "sync_path")
  /\ safeDirs' = safeDirs \cup {call[c].at}
  /\ safeNames' = IF call[c].at = Depth THEN safeNames \cup Linked ELSE safeNames
  /\ IF call[c].at = Depth THEN Go(c, "open")
     ELSE call' = [call EXCEPT ![c].at = @ + 1, ![c].pc = "path"]
  /\ UNCHANGED <<volatile, safeData>>
-------------------------------------------------------------------------------
(* appendDurableChatDelivery *)

OpenTemporary(c) ==
  /\ At(c, "open")
  /\ data' = [data EXCEPT ![c] = "partial"]
  /\ Go(c, "write")
  /\ UNCHANGED <<made, final, disk>>

WriteRecord(c) ==
  /\ At(c, "write")
  /\ data' = [data EXCEPT ![c] = "full"]
  /\ Go(c, "sync")
  /\ UNCHANGED <<made, final, disk>>

\* Mutant: the file is linked before it has been synced.
SyncRecordLater(c) ==
  /\ At(c, "sync")
  /\ Go(c, "link")
  /\ UNCHANGED <<volatile, disk>>

SyncRecord(c) ==
  /\ At(c, "sync")
  /\ safeData' = safeData \cup {c}
  /\ Go(c, "link")
  /\ UNCHANGED <<volatile, safeDirs, safeNames>>

\* Mutant: the name is replaced (a rename) instead of inserted.
RenameFinal(c) ==
  /\ At(c, "link")
  /\ final' = [final EXCEPT ![call[c].key] = c]
  /\ Go(c, "sync_name")
  /\ UNCHANGED <<data, made, disk>>

\* The hard link fails when the name exists.
LinkFinal(c) ==
  /\ At(c, "link")
  /\ \/ /\ final[call[c].key] = None
        /\ final' = [final EXCEPT ![call[c].key] = c]
        /\ Go(c, "sync_name")
     \/ /\ final[call[c].key] # None
        /\ Go(c, "compare")
        /\ UNCHANGED final
  /\ UNCHANGED <<data, made, disk>>

SyncName(c) ==
  /\ At(c, "sync_name")
  /\ safeNames' = safeNames \cup Linked
  /\ Settle(c, "unlink", "created")
  /\ UNCHANGED <<volatile, safeDirs, safeData>>

\* The record in place must carry the same message, the timestamp aside.
CompareRecord(c) ==
  /\ At(c, "compare")
  /\ LET existing == final[call[c].key] IN
     Settle(c, "unlink",
            IF call[existing].msg = call[c].msg THEN "existed" ELSE "conflict")
  /\ UNCHANGED <<volatile, disk>>

\* The temporary name is removed and the directory synced on every way out.
UnlinkTemporary(c) ==
  /\ At(c, "unlink")
  /\ safeNames' = safeNames \cup Linked
  /\ Go(c, "returned")
  /\ UNCHANGED <<volatile, safeDirs, safeData>>
-------------------------------------------------------------------------------
(* Failures *)

ProcessDies(c) ==
  /\ call[c].pc \notin {"idle", "returned", "dead"}
  /\ Go(c, "dead")
  /\ UNCHANGED <<volatile, disk>>

\* The machine stops. Of what was not synced some part is on disk all the same;
\* a directory that is lost takes everything below it along.
PowerLoss ==
  /\ \E dirs \in {d \in SUBSET (1 .. made) : safeDirs \cap (1 .. made) \subseteq d},
        names \in {n \in SUBSET Linked : safeNames \subseteq n} :
       LET depth == CHOOSE n \in 0 .. made :
                      /\ 1 .. n \subseteq dirs
                      /\ n = made \/ n + 1 \notin dirs
           kept == IF depth = Depth THEN names ELSE {} IN
       /\ made' = depth
       /\ final' = [k \in Keys |-> IF k \in kept THEN final[k] ELSE None]
       /\ safeDirs' = 1 .. depth
       /\ safeNames' = kept
  /\ data' = [c \in Calls |-> IF data[c] = "full" /\ c \notin safeData
                              THEN "partial" ELSE data[c]]
  /\ call' = [c \in Calls |->
                IF call[c].pc \in {"idle", "returned"} THEN call[c]
                ELSE [call[c] EXCEPT !.pc = "dead"]]
  /\ UNCHANGED safeData
-------------------------------------------------------------------------------
Next ==
  \/ \E c \in Calls :
       \/ Begin(c) \/ MakeComponent(c) \/ SyncComponent(c) \/ OpenTemporary(c)
       \/ WriteRecord(c) \/ SyncRecord(c) \/ LinkFinal(c) \/ SyncName(c)
       \/ CompareRecord(c) \/ UnlinkTemporary(c) \/ ProcessDies(c)
  \/ PowerLoss

Spec == Init /\ [][Next]_vars
-------------------------------------------------------------------------------
(* Properties *)

\* A delivery whose call returned is there for good, with its message, whatever
\* the machine loses afterwards and whichever writer's file it is.
AcknowledgedIsKept ==
  \A c \in Acknowledged :
    /\ final[call[c].key] # None
    /\ call[final[call[c].key]].msg = call[c].msg

\* No reader finds a record that is not whole, not even after a power loss.
NoPartialRecord == \A k \in Linked : data[final[k]] = "full"

\* One key has one creator: of the calls that returned at most one created it.
OneCreator ==
  \A c, d \in Calls :
    /\ At(c, "returned") /\ call[c].result = "created"
    /\ At(d, "returned") /\ call[d].result = "created"
    /\ call[c].key = call[d].key
    => c = d

\* A conflict that was reported stands: the key is bound to another message.
ConflictStands ==
  \A c \in Calls :
    At(c, "returned") /\ call[c].result = "conflict" =>
      /\ final[call[c].key] # None
      /\ call[final[call[c].key]].msg # call[c].msg

\* A name never moves to another file while it exists.
FirstWriterWins ==
  [][\A k \in Keys : final[k] # None => final'[k] \in {final[k], None}]_vars
===============================================================================
