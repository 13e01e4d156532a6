----------------------------- MODULE RunsProofs -----------------------------
(***************************************************************************)
(* The Postgres registry of agent runs implements the abstract one for any *)
(* number of clients, runs, keys and callbacks.  Two things have to be     *)
(* carried along: an id that a call made up is its own until the call is   *)
(* over, so that an insert never meets a row; and the fingerprints a row   *)
(* keeps are the end of the list of those that were accepted.              *)
(* The bridge answers for a turn once at most, whatever becomes of its     *)
(* child, and for every turn as long as no timer of a stopped one has rung:*)
(* by where a turn is, its entry, its child and what was posted for it are *)
(* known together.  Afterwards a count holds: the turns that are owed an   *)
(* answer are no more than the stopped ones that spoke, and the one that   *)
(* has the thread.                                                         *)
(***************************************************************************)
EXTENDS MCRuns, TLAPS, SequenceTheorems, FiniteSetTheorems

Events == {"run_created", "runtime_dispatched", "bot_reply", "failed", "cancel_requested"}
Busy   == {"insert", "read", "winner"}

RowTypes ==
  /\ status \in [Ids -> Statuses \cup {"none"}] /\ key \in [Ids -> Keys \cup {NoKey}]
  /\ prints \in [Ids -> Seq(Prints)] /\ accepted \in [Ids -> Seq(Prints)]
  /\ events \in [Ids -> SUBSET Events]

CallTypes ==
  /\ at \in [Clients -> {"idle", "insert", "read", "winner", "done"}]
  /\ want \in [Clients -> Keys \cup {NoKey}] /\ mine \in [Clients -> Ids \cup {NoId}]
  /\ told \in [Clients -> Ids \cup {NoId}]
  /\ faults \in 0 .. MaxFaults

NoRowNoData == \A i \in Ids : status[i] = "none" => key[i] = NoKey /\ prints[i] = <<>>

(* The id of a call under way is nobody else's; there is no row of it      *)
(* before its insert, and after it none but its own.                       *)
OwnIds ==
  /\ \A c \in Clients : at[c] \in Busy <=> mine[c] \in Ids
  /\ \A c, d \in Clients : mine[c] = mine[d] /\ mine[c] \in Ids => c = d
  /\ \A c \in Clients : at[c] = "insert" => status[mine[c]] = "none"
  /\ \A c \in Clients : at[c] = "read" /\ status[mine[c]] # "none" => key[mine[c]] = want[c]

(* A row keeps the end of what was accepted, Kept fingerprints at most.    *)
EndOf(list, all) ==
  /\ Len(list) = (IF Len(all) < Kept THEN Len(all) ELSE Kept)
  /\ \A n \in 1 .. Len(list) : list[n] = all[Len(all) - Len(list) + n]

KeepsTheEnd == \A i \in Ids : EndOf(prints[i], accepted[i])

IInv ==
  /\ RowTypes /\ CallTypes /\ NoRowNoData /\ OwnIds
  /\ OneWinner /\ EventsTellStatus /\ KeepsTheEnd

----------------------------------------------------------------------------
(* What the operators do.                                                  *)

(* Pushing a fingerprint keeps the end of the list it is appended to.      *)
LEMMA PushKeepsEnd ==
  ASSUME NEW list \in Seq(Prints), NEW all \in Seq(Prints), NEW p \in Prints, EndOf(list, all)
  PROVE  Push(list, p) \in Seq(Prints) /\ EndOf(Push(list, p), Append(all, p))
<1>1. Kept \in Nat /\ Kept > 0
  BY RegistryAssumption DEF RegistryAssumption
<1>2. Len(list) \in Nat /\ Len(all) \in Nat
  OBVIOUS
<1> DEFINE longer == Append(all, p)
<1>a. /\ longer \in Seq(Prints) /\ Len(longer) = Len(all) + 1 /\ longer[Len(all) + 1] = p
      /\ \A n \in 1 .. Len(all) : longer[n] = all[n]
  BY <1>2
<1> HIDE DEF longer
<1>3. CASE Len(list) >= Kept
  <2> DEFINE shifted == Append(Tail(list), p)
  <2>1. Len(list) = Kept /\ Len(all) >= Kept /\ list # <<>>
    BY <1>1, <1>2, <1>3 DEF EndOf
  <2>2. /\ Tail(list) \in Seq(Prints) /\ Len(Tail(list)) = Kept - 1
        /\ \A n \in 1 .. Kept - 1 : Tail(list)[n] = list[n + 1]
    BY <2>1, <1>2
  <2>3. /\ shifted \in Seq(Prints) /\ Len(shifted) = Kept /\ shifted[Kept] = p
        /\ \A n \in 1 .. Kept - 1 : shifted[n] = Tail(list)[n]
    BY <2>2, <1>1
  <2>4. Push(list, p) = shifted
    BY <1>3 DEF Push
  <2> HIDE DEF shifted
  <2>5. ASSUME NEW n \in 1 .. Kept PROVE shifted[n] = longer[Len(longer) - Kept + n]
    <3>1. CASE n = Kept
      BY <3>1, <2>3, <1>a, <1>1, <1>2
    <3>2. CASE n # Kept
      <4>1. n \in 1 .. Kept - 1 /\ n + 1 \in 1 .. Kept
        BY <3>2, <1>1
      <4>2. shifted[n] = list[n + 1]
        BY <4>1, <2>2, <2>3
      <4>3. list[n + 1] = all[Len(all) - Kept + (n + 1)]
        BY <4>1, <2>1 DEF EndOf
      <4>4. Len(all) - Kept + (n + 1) \in 1 .. Len(all)
        BY <4>1, <2>1, <1>1, <1>2
      <4>5. Len(longer) - Kept + n = Len(all) - Kept + (n + 1)
        BY <1>1, <1>2, <1>a
      <4> QED
        BY <4>2, <4>3, <4>4, <4>5, <1>a
    <3> QED
      BY <3>1, <3>2
  <2>6. Len(shifted) = (IF Len(longer) < Kept THEN Len(longer) ELSE Kept)
    BY <2>1, <2>3, <1>a, <1>1, <1>2
  <2>7. EndOf(shifted, longer)
    BY <2>3, <2>5, <2>6 DEF EndOf
  <2> QED
    BY <2>3, <2>4, <2>7 DEF longer
<1>4. CASE Len(list) < Kept
  <2>1. Len(all) = Len(list)
    BY <1>1, <1>2, <1>4 DEF EndOf
  <2>2. \A n \in 1 .. Len(list) : list[n] = all[n]
    BY <2>1, <1>2 DEF EndOf
  <2> DEFINE more == Append(list, p)
  <2>3. Push(list, p) = more
    BY <1>1, <1>2, <1>4 DEF Push
  <2>4. /\ more \in Seq(Prints) /\ Len(more) = Len(list) + 1 /\ more[Len(list) + 1] = p
        /\ \A n \in 1 .. Len(list) : more[n] = list[n]
    BY <1>2
  <2> HIDE DEF more
  <2>5. ASSUME NEW n \in 1 .. Len(more) PROVE more[n] = longer[Len(longer) - Len(more) + n]
    <3>1. Len(longer) - Len(more) + n = n
      BY <2>1, <2>4, <1>a, <1>2
    <3>2. n = Len(list) + 1 \/ n \in 1 .. Len(list)
      BY <2>4, <1>2
    <3>3. CASE n \in 1 .. Len(list)
      BY <3>1, <3>3, <2>1, <2>2, <2>4, <1>a
    <3>4. CASE n = Len(list) + 1
      BY <3>1, <3>4, <2>1, <2>4, <1>a
    <3> QED
      BY <3>2, <3>3, <3>4
  <2>6. Len(more) = (IF Len(longer) < Kept THEN Len(longer) ELSE Kept)
    BY <2>1, <2>4, <1>a, <1>1, <1>2, <1>4
  <2>7. EndOf(more, longer)
    BY <2>5, <2>6 DEF EndOf
  <2> QED
    BY <2>3, <2>4, <2>7 DEF longer
<1> QED
  BY <1>1, <1>2, <1>3, <1>4

(* The insert of a call: nothing, or the row of its id and of its key.     *)
LEMMA WrittenStep ==
  ASSUME IInv, NEW c \in Clients, at[c] = "insert", Written(c)
  PROVE  /\ RowTypes' /\ NoRowNoData' /\ OneWinner' /\ EventsTellStatus' /\ KeepsTheEnd'
         /\ \A i \in Ids : i # mine[c] => status'[i] = status[i] /\ key'[i] = key[i]
         /\ status'[mine[c]] # "none" => key'[mine[c]] = want[c]
         /\ UNCHANGED Registry!vars \/ Registry!Create(mine[c], want[c])
<1> DEFINE m == mine[c]
           k == want[c]
<1>1. m \in Ids /\ status[m] = "none" /\ k \in Keys \cup {NoKey}
  BY DEF IInv, OwnIds, Busy, CallTypes
<1>2. CASE Conflicts(k)
  <2>1. UNCHANGED rows
    BY <1>2 DEF Written
  <2> QED
    BY <2>1, <1>1 DEF rows, IInv, RowTypes, NoRowNoData, OneWinner, EventsTellStatus, KeepsTheEnd, EndOf, Registry!vars
<1>3. CASE ~Conflicts(k)
  <2>1. /\ status' = [status EXCEPT ![m] = "queued"] /\ key' = [key EXCEPT ![m] = k]
        /\ events' = [events EXCEPT ![m] = {"run_created"}]
        /\ prints' = prints /\ accepted' = accepted
    BY <1>3 DEF Written
  <2> HIDE DEF m, k
  <2>2. RowTypes'
    BY <1>1, <2>1 DEF IInv, RowTypes, Statuses, Active, Events
  <2>3. /\ status'[m] = "queued" /\ key'[m] = k /\ events'[m] = {"run_created"}
        /\ \A i \in Ids : i # m => status'[i] = status[i] /\ key'[i] = key[i] /\ events'[i] = events[i]
    BY <1>1, <2>1 DEF IInv, RowTypes
  <2>4. NoRowNoData'
    BY <2>1, <2>3 DEF IInv, NoRowNoData
  <2>5. OneWinner'
    BY <1>1, <1>3, <2>3 DEF IInv, OneWinner, Conflicts, Conflicting
  <2>6. EventsTellStatus'
    <3> SUFFICES ASSUME NEW i \in Ids
                 PROVE  /\ (status'[i] # "none") = ("run_created" \in events'[i])
                        /\ \A t \in {"completed", "failed"} : (status'[i] = t) = (EventOf[t] \in events'[i])
                        /\ status'[i] = "cancelled" => EventOf["cancelled"] \in events'[i]
                        /\ status'[i] = "running" => EventOf["running"] \in events'[i]
                        /\ status'[i] \in {"none", "queued"} => EventOf["running"] \notin events'[i]
      BY DEF EventsTellStatus
    <3>1. CASE i = m
      BY <2>3, <3>1 DEF EventOf
    <3>2. CASE i # m
      BY <2>3, <3>2 DEF IInv, EventsTellStatus
    <3> QED
      BY <3>1, <3>2
  <2>7. KeepsTheEnd'
    BY <2>1 DEF IInv, KeepsTheEnd, EndOf
  <2>8. Registry!Create(m, k)
    BY <1>1, <1>3, <2>1 DEF Registry!Create, Registry!Winning, Registry!Active, Conflicts, Conflicting
  <2> QED
    BY <2>2, <2>3, <2>4, <2>5, <2>6, <2>7, <2>8 DEF m, k
<1> QED
  BY <1>2, <1>3

(* What a statement that changes no row leaves alone.                      *)
LEMMA SameRows ==
  ASSUME IInv, UNCHANGED rows
  PROVE  RowTypes' /\ NoRowNoData' /\ OneWinner' /\ EventsTellStatus' /\ KeepsTheEnd'
BY DEF rows, IInv, RowTypes, NoRowNoData, OneWinner, EventsTellStatus, KeepsTheEnd, EndOf

\* An empty registry: no row, no call, no fingerprint.
LEMMA InitInv == Init => IInv
<1> SUFFICES ASSUME Init PROVE IInv
  OBVIOUS
<1>1. \A i \in Ids : /\ status[i] = "none" /\ key[i] = NoKey /\ prints[i] = <<>>
                     /\ accepted[i] = <<>> /\ events[i] = {}
  BY DEF Init
<1>2. RowTypes
  BY DEF Init, RowTypes
<1>3. CallTypes
  BY RegistryAssumption DEF RegistryAssumption, Init, CallTypes, NoId
<1>4. NoRowNoData
  BY <1>1 DEF NoRowNoData
<1>5. OwnIds
  BY RegistryAssumption DEF RegistryAssumption, Init, OwnIds, Busy, NoId
<1>6. OneWinner
  BY <1>1 DEF OneWinner
<1>7. EventsTellStatus
  BY <1>1 DEF EventsTellStatus
<1>8. KeepsTheEnd
  <2>1. Len(<<>>) = 0 /\ 1 .. 0 = {} /\ 0 < Kept
    BY RegistryAssumption DEF RegistryAssumption
  <2>2. EndOf(<<>>, <<>>)
    BY <2>1 DEF EndOf
  <2> QED
    BY <1>1, <2>2 DEF KeepsTheEnd
<1> QED
  BY <1>2, <1>3, <1>4, <1>5, <1>6, <1>7, <1>8 DEF IInv

----------------------------------------------------------------------------
(* The actions.                                                            *)

\* A create draws an id that is neither a row nor the id of another call.
LEMMA CallStep ==
  ASSUME IInv, NEW c \in Clients, NEW k \in Keys \cup {NoKey}, Call(c, k)
  PROVE  IInv'
<1>1. PICK i \in Ids : /\ status[i] = "none" /\ \A d \in Clients : mine[d] # i
                       /\ mine' = [mine EXCEPT ![c] = i]
  BY DEF Call
<1>2. /\ at[c] = "idle" /\ want' = [want EXCEPT ![c] = k] /\ at' = [at EXCEPT ![c] = "insert"]
      /\ UNCHANGED rows /\ told' = told /\ faults' = faults
  BY DEF Call, Go
<1>3. CallTypes'
  BY <1>1, <1>2 DEF IInv, CallTypes
<1>4. OwnIds'
  <2>1. /\ at'[c] = "insert" /\ mine'[c] = i /\ want'[c] = k
        /\ \A d \in Clients : d # c => at'[d] = at[d] /\ mine'[d] = mine[d] /\ want'[d] = want[d]
    BY <1>1, <1>2 DEF IInv, CallTypes
  <2>2. status' = status /\ key' = key
    BY <1>2 DEF rows
  <2> QED
    BY <1>1, <2>1, <2>2 DEF IInv, OwnIds, Busy
<1> QED
  BY <1>2, <1>3, <1>4, SameRows DEF IInv

(* The end of a call lets go of its id.                                    *)
LEMMA ReturnStep ==
  ASSUME IInv, NEW c \in Clients, NEW i \in Ids \cup {NoId}, Return(c, i),
         want' = want, faults' \in 0 .. MaxFaults,
         \A j \in Ids : j # mine[c] => status'[j] = status[j] /\ key'[j] = key[j]
  PROVE  CallTypes' /\ OwnIds'
<1>1. CallTypes'
  BY DEF IInv, CallTypes, Return, Go
<1>2. /\ at'[c] \notin Busy /\ mine'[c] \notin Ids
      /\ \A d \in Clients : d # c => at'[d] = at[d] /\ mine'[d] = mine[d]
  BY RegistryAssumption DEF RegistryAssumption, IInv, CallTypes, Return, Go, Busy, NoId
<1>3. \A d \in Clients : d # c /\ mine[d] \in Ids =>
        status'[mine[d]] = status[mine[d]] /\ key'[mine[d]] = key[mine[d]]
  BY DEF IInv, OwnIds
<1>4. OwnIds'
  BY <1>2, <1>3 DEF IInv, OwnIds, Busy
<1> QED
  BY <1>1, <1>4

\* The INSERT writes the row of the call's own id, or meets its key and writes nothing.
LEMMA InsertStep ==
  ASSUME IInv, NEW c \in Clients, Insert(c)
  PROVE  IInv' /\ (UNCHANGED Registry!vars \/ Registry!Create(mine[c], want[c]))
<1>1. /\ at[c] = "insert" /\ Written(c) /\ at' = [at EXCEPT ![c] = "read"]
      /\ want' = want /\ mine' = mine /\ told' = told /\ faults' = faults
  BY DEF Insert, Go
<1>2. CallTypes'
  BY <1>1 DEF IInv, CallTypes
<1>3. OwnIds'
  <2>1. at'[c] = "read" /\ \A d \in Clients : d # c => at'[d] = at[d]
    BY <1>1 DEF IInv, CallTypes
  <2>2. \A d \in Clients : d # c /\ mine[d] \in Ids =>
          status'[mine[d]] = status[mine[d]] /\ key'[mine[d]] = key[mine[d]]
    BY <1>1, WrittenStep DEF IInv, OwnIds
  <2>3. status'[mine[c]] # "none" => key'[mine[c]] = want[c]
    BY <1>1, WrittenStep
  <2> QED
    BY <1>1, <2>1, <2>2, <2>3 DEF IInv, OwnIds, Busy
<1> QED
  BY <1>1, <1>2, <1>3, WrittenStep DEF IInv

\* The read of the own id returns it, or leaves the winner of the key to be read.
LEMMA ReadBackStep ==
  ASSUME IInv, NEW c \in Clients, ReadBack(c)
  PROVE  IInv'
<1>1. at[c] = "read" /\ mine[c] \in Ids /\ UNCHANGED rows /\ want' = want /\ faults' = faults
  BY DEF ReadBack, IInv, OwnIds, Busy
<1>2. faults' \in 0 .. MaxFaults /\ status' = status /\ key' = key
  BY <1>1 DEF IInv, CallTypes, rows
<1>3. CASE Return(c, mine[c])
  BY <1>1, <1>2, <1>3, ReturnStep, SameRows DEF IInv
<1>4. CASE at' = [at EXCEPT ![c] = "winner"] /\ mine' = mine /\ told' = told
  <2>1. CallTypes'
    BY <1>1, <1>2, <1>4 DEF IInv, CallTypes
  <2>2. at'[c] = "winner" /\ \A d \in Clients : d # c => at'[d] = at[d]
    BY <1>4 DEF IInv, CallTypes
  <2>3. OwnIds'
    BY <1>1, <1>2, <1>4, <2>2 DEF IInv, OwnIds, Busy
  <2> QED
    BY <1>1, <2>1, <2>3, SameRows DEF IInv
<1> QED
  BY <1>3, <1>4 DEF ReadBack, Go

\* The read by key returns the row that holds it.
LEMMA WinnerStep ==
  ASSUME IInv, NEW c \in Clients, Winner(c)
  PROVE  IInv'
<1>1. UNCHANGED rows /\ want' = want /\ faults' = faults
  BY DEF Winner
<1>2. faults' \in 0 .. MaxFaults /\ status' = status /\ key' = key
  BY <1>1 DEF IInv, CallTypes, rows
<1>3. PICK i \in Ids \cup {NoId} : Return(c, i)
  BY DEF Winner
<1> QED
  BY <1>1, <1>2, <1>3, ReturnStep, SameRows DEF IInv

\* A connection breaks: the INSERT may have been carried out or not, the caller does not know.
LEMMA BreakStep ==
  ASSUME IInv, NEW c \in Clients, Break(c)
  PROVE  IInv' /\ (UNCHANGED Registry!vars \/ Registry!Create(mine[c], want[c]))
<1>1. Return(c, NoId) /\ want' = want /\ faults < MaxFaults /\ faults' = faults + 1
  BY DEF Break
<1>2. faults' \in 0 .. MaxFaults
  BY <1>1, RegistryAssumption DEF RegistryAssumption, IInv, CallTypes
<1>3. CASE at[c] = "insert" /\ Written(c)
  BY <1>1, <1>2, <1>3, WrittenStep, ReturnStep DEF IInv
<1>4. CASE UNCHANGED rows
  <2>1. status' = status /\ key' = key /\ UNCHANGED Registry!vars
    BY <1>4 DEF rows, Registry!vars
  <2> QED
    BY <1>1, <1>2, <1>4, <2>1, ReturnStep, SameRows DEF IInv
<1> QED
  BY <1>3, <1>4 DEF Break

\* A guarded UPDATE moves an active run and appends the event of its new status.
LEMMA TransitionStep ==
  ASSUME IInv, NEW i \in Ids, NEW s \in {"running"} \cup Terminal, Transition(i, s)
  PROVE  IInv'
<1>1. /\ status[i] \in Active /\ status' = [status EXCEPT ![i] = s]
      /\ events' = [events EXCEPT ![i] = @ \cup {EventOf[s]}]
      /\ key' = key /\ prints' = prints /\ accepted' = accepted
      /\ at' = at /\ want' = want /\ mine' = mine /\ told' = told /\ faults' = faults
  BY DEF Transition, Open
<1>2. EventOf[s] \in Events
  BY DEF EventOf, Terminal, Events
<1>3. RowTypes'
  BY <1>1, <1>2 DEF IInv, RowTypes, Statuses, Active, Terminal
<1>4. /\ status'[i] = s /\ events'[i] = events[i] \cup {EventOf[s]}
      /\ \A j \in Ids : j # i => status'[j] = status[j] /\ events'[j] = events[j]
  BY <1>1 DEF IInv, RowTypes
<1>5. NoRowNoData'
  BY <1>1, <1>4 DEF IInv, NoRowNoData, Terminal
<1>6. OneWinner'
  BY <1>1, <1>4 DEF IInv, OneWinner, Active, Conflicting
<1>7. EventsTellStatus'
  <2> SUFFICES ASSUME NEW j \in Ids
               PROVE  /\ (status'[j] # "none") = ("run_created" \in events'[j])
                      /\ \A t \in {"completed", "failed"} : (status'[j] = t) = (EventOf[t] \in events'[j])
                      /\ status'[j] = "cancelled" => EventOf["cancelled"] \in events'[j]
                      /\ status'[j] = "running" => EventOf["running"] \in events'[j]
                      /\ status'[j] \in {"none", "queued"} => EventOf["running"] \notin events'[j]
    BY DEF EventsTellStatus
  <2>1. CASE j # i
    BY <1>4, <2>1 DEF IInv, EventsTellStatus
  <2>2. CASE j = i
    <3>1. /\ "run_created" \in events[i]
          /\ \A t \in {"completed", "failed"} : EventOf[t] \notin events[i]
      BY <1>1 DEF IInv, EventsTellStatus, Active
    <3>2. s \in {"running", "completed", "failed", "cancelled"}
      BY DEF Terminal
    <3>3. events'[i] = events[i] \cup {EventOf[s]} /\ status'[i] = s
      BY <1>4
    <3> QED
      BY <2>2, <3>1, <3>2, <3>3 DEF EventOf
  <2> QED
    BY <2>1, <2>2
<1>8. KeepsTheEnd'
  BY <1>1 DEF IInv, KeepsTheEnd, EndOf
<1>9. CallTypes'
  BY <1>1 DEF IInv, CallTypes
<1>10. OwnIds'
  <2>1. \A j \in Ids : status'[j] = "none" <=> status[j] = "none"
    BY <1>1, <1>4 DEF Active, Terminal
  <2> QED
    BY <1>1, <2>1 DEF IInv, OwnIds, Busy
<1> QED
  BY <1>3, <1>5, <1>6, <1>7, <1>8, <1>9, <1>10 DEF IInv

\* An appended event changes no status, and no event of a dispatch, a reply or a failure.
LEMMA AppendStep ==
  ASSUME IInv, NEW i \in Ids, NEW e \in Appended, AppendEvent(i, e)
  PROVE  IInv' /\ UNCHANGED Registry!vars
<1>1. /\ status[i] # "none" /\ e = "cancel_requested"
      /\ events' = [events EXCEPT ![i] = @ \cup {e}]
      /\ status' = status /\ key' = key /\ prints' = prints /\ accepted' = accepted
      /\ at' = at /\ want' = want /\ mine' = mine /\ told' = told /\ faults' = faults
  BY DEF AppendEvent, Appended
<1>2. RowTypes'
  BY <1>1 DEF IInv, RowTypes, Events
<1>3. /\ events'[i] = events[i] \cup {"cancel_requested"}
      /\ \A j \in Ids : j # i => events'[j] = events[j]
  BY <1>1 DEF IInv, RowTypes
<1>4. EventsTellStatus'
  <2> SUFFICES ASSUME NEW j \in Ids
               PROVE  /\ (status'[j] # "none") = ("run_created" \in events'[j])
                      /\ \A t \in {"completed", "failed"} : (status'[j] = t) = (EventOf[t] \in events'[j])
                      /\ status'[j] = "cancelled" => EventOf["cancelled"] \in events'[j]
                      /\ status'[j] = "running" => EventOf["running"] \in events'[j]
                      /\ status'[j] \in {"none", "queued"} => EventOf["running"] \notin events'[j]
    BY DEF EventsTellStatus
  <2>1. CASE j # i
    BY <1>1, <1>3, <2>1 DEF IInv, EventsTellStatus
  <2>2. CASE j = i
    BY <1>1, <1>3, <2>2 DEF IInv, EventsTellStatus, EventOf
  <2> QED
    BY <2>1, <2>2
<1>5. NoRowNoData' /\ OneWinner' /\ KeepsTheEnd' /\ CallTypes' /\ OwnIds'
  BY <1>1 DEF IInv, NoRowNoData, OneWinner, KeepsTheEnd, EndOf, CallTypes, OwnIds
<1> QED
  BY <1>1, <1>2, <1>4, <1>5 DEF IInv, Registry!vars

\* A new fingerprint is pushed on the kept ones and is the last accepted one.
LEMMA ClaimStep ==
  ASSUME IInv, NEW i \in Ids, NEW p \in Prints, ClaimFingerprint(i, p)
  PROVE  IInv' /\ Registry!Accept(i, p)
<1>1. /\ status[i] # "none" /\ \A n \in 1 .. Len(prints[i]) : prints[i][n] # p
      /\ prints' = [prints EXCEPT ![i] = Push(prints[i], p)]
      /\ accepted' = [accepted EXCEPT ![i] = Append(accepted[i], p)]
      /\ status' = status /\ key' = key /\ events' = events
      /\ at' = at /\ want' = want /\ mine' = mine /\ told' = told /\ faults' = faults
  BY DEF ClaimFingerprint
<1>2. prints[i] \in Seq(Prints) /\ accepted[i] \in Seq(Prints) /\ EndOf(prints[i], accepted[i])
  BY DEF IInv, RowTypes, KeepsTheEnd
<1> DEFINE list == Push(prints[i], p)
           all == Append(accepted[i], p)
<1>3. list \in Seq(Prints) /\ all \in Seq(Prints) /\ EndOf(list, all)
  BY <1>2, PushKeepsEnd
<1>4. prints' = [prints EXCEPT ![i] = list] /\ accepted' = [accepted EXCEPT ![i] = all]
  BY <1>1
<1> HIDE DEF list, all
<1>5. /\ prints'[i] = list /\ accepted'[i] = all
      /\ \A j \in Ids : j # i => prints'[j] = prints[j] /\ accepted'[j] = accepted[j]
  BY <1>4 DEF IInv, RowTypes
<1>6. RowTypes'
  BY <1>1, <1>3, <1>4 DEF IInv, RowTypes
<1>7. NoRowNoData'
  BY <1>1, <1>5 DEF IInv, NoRowNoData
<1>8. KeepsTheEnd'
  <2>1. \A j \in Ids : EndOf(prints'[j], accepted'[j])
    BY <1>3, <1>5 DEF IInv, KeepsTheEnd
  <2> QED
    BY <2>1 DEF KeepsTheEnd, EndOf
<1>9. OneWinner' /\ EventsTellStatus' /\ CallTypes' /\ OwnIds'
  BY <1>1 DEF IInv, OneWinner, EventsTellStatus, CallTypes, OwnIds
<1>10. \A n \in 1 .. Len(accepted[i]) : n > Len(accepted[i]) - Kept => accepted[i][n] # p
  <2> SUFFICES ASSUME NEW n \in 1 .. Len(accepted[i]), n > Len(accepted[i]) - Kept
               PROVE  accepted[i][n] # p
    OBVIOUS
  <2> DEFINE short == Len(prints[i])
             long == Len(accepted[i])
  <2>1. short \in Nat /\ long \in Nat /\ Kept \in Nat /\ short = (IF long < Kept THEN long ELSE Kept)
    BY <1>2, RegistryAssumption DEF RegistryAssumption, EndOf
  <2>2. \A k \in 1 .. short : prints[i][k] = accepted[i][long - short + k]
    BY <1>2 DEF EndOf
  <2>3. \A k \in 1 .. short : prints[i][k] # p
    BY <1>1
  <2>4. n \in 1 .. long /\ n > long - Kept
    OBVIOUS
  <2> HIDE DEF short, long
  <2>5. n - (long - short) \in 1 .. short /\ long - short + (n - (long - short)) = n
    BY <2>1, <2>4
  <2> QED
    BY <2>2, <2>3, <2>5
<1>11. Registry!Accept(i, p)
  BY <1>1, <1>10 DEF Registry!Accept
<1> QED
  BY <1>6, <1>7, <1>8, <1>9, <1>11 DEF IInv

----------------------------------------------------------------------------
(* The theorems.                                                           *)

\* Every statement of the registry keeps the invariant.
LEMMA Inductive == IInv /\ [Next]_vars => IInv'
<1> SUFFICES ASSUME IInv, [Next]_vars PROVE IInv'
  OBVIOUS
<1>1. CASE UNCHANGED vars
  BY <1>1, SameRows DEF vars, IInv, CallTypes, OwnIds, rows
<1>2. ASSUME NEW c \in Clients, NEW k \in Keys \cup {NoKey}, Call(c, k) PROVE IInv'
  BY <1>2, CallStep
<1>3. ASSUME NEW c \in Clients, Create(c) PROVE IInv'
  BY <1>3, InsertStep, ReadBackStep, WinnerStep DEF Create
<1>4. ASSUME NEW c \in Clients, Break(c) PROVE IInv'
  BY <1>4, BreakStep
<1>5. ASSUME NEW i \in Ids, NEW s \in {"running"} \cup Terminal, Transition(i, s) PROVE IInv'
  BY <1>5, TransitionStep
<1>6. ASSUME NEW i \in Ids, NEW p \in Prints, ClaimFingerprint(i, p) PROVE IInv'
  BY <1>6, ClaimStep
<1>7. ASSUME NEW i \in Ids, NEW e \in Appended, AppendEvent(i, e) PROVE IInv'
  BY <1>7, AppendStep
<1> QED
  BY <1>1, <1>2, <1>3, <1>4, <1>5, <1>6, <1>7 DEF Next

\* The invariant holds at all times.
LEMMA Invariant == Spec => []IInv
BY InitInv, Inductive, PTL DEF Spec

(* createWithReceipt, transition, claimCallbackFingerprint: rows, receipts *)
(* and calls keep their types, and a run id without a row has no data.     *)
THEOREM TypesHold == Spec => []TypeOK
<1>1. IInv => TypeOK
  BY DEF IInv, RowTypes, CallTypes, NoRowNoData, TypeOK, Events, Appended
<1> QED
  BY <1>1, Invariant, PTL

(* The unique index keeps a key to one run that is open or completed, for  *)
(* any number of clients that create, of callbacks and of Stops.           *)
THEOREM OneWinnerHolds == Spec => []OneWinner
<1>1. IInv => OneWinner
  BY DEF IInv
<1> QED
  BY <1>1, Invariant, PTL

(* A run has the event of its status; the events of a dispatch, a reply or *)
(* a failure are on record only when their transition was made, whatever   *)
(* appendEvent adds of Stops that wait, to open runs and to ended ones.    *)
THEOREM EventsTellStatusHolds == Spec => []EventsTellStatus
<1>1. IInv => EventsTellStatus
  BY DEF IInv
<1> QED
  BY <1>1, Invariant, PTL

(* A receipt names a run of the caller's key: its own, or one that was open *)
(* or completed when the receipt was made.                                 *)
THEOREM ReceiptIsWinnerHolds == Spec => ReceiptIsWinner
<1> DEFINE Good == \A c \in Clients : told[c] = NoId /\ told'[c] # NoId =>
                     /\ key[told'[c]] = want[c]
                     /\ told'[c] = mine[c] \/ status[told'[c]] \in Conflicting
<1>1. IInv /\ [Next]_vars => [Good]_vars
  <2> SUFFICES ASSUME IInv, Next, NEW c \in Clients, told[c] = NoId, told'[c] # NoId
               PROVE  /\ key[told'[c]] = want[c]
                      /\ told'[c] = mine[c] \/ status[told'[c]] \in Conflicting
    BY DEF vars
  <2>1. \A d \in Clients, i \in Ids \cup {NoId} : Return(d, i) => told'[c] = (IF d = c THEN i ELSE told[c])
    BY DEF Return, IInv, CallTypes
  <2>2. ASSUME NEW d \in Clients, ReadBack(d)
        PROVE  d = c /\ at[c] = "read" /\ status[mine[c]] # "none" /\ told'[c] = mine[c]
    BY <2>1, <2>2 DEF ReadBack, IInv, CallTypes
  <2>3. ASSUME NEW d \in Clients, Winner(d)
        PROVE  d = c /\ key[told'[c]] = want[c] /\ status[told'[c]] \in Conflicting
    BY <2>1, <2>3 DEF Winner
  <2>4. ASSUME NEW d \in Clients, Break(d) PROVE FALSE
    BY <2>1, <2>4 DEF Break
  <2>5. told' # told
    OBVIOUS
  <2>6. \E d \in Clients : ReadBack(d) \/ Winner(d) \/ Break(d)
    BY <2>5 DEF Next, Create, Call, Insert, Transition, ClaimFingerprint, AppendEvent
  <2> QED
    BY <2>2, <2>3, <2>4, <2>6 DEF IInv, OwnIds
<1> QED
  BY <1>1, Invariant, PTL DEF Spec, ReceiptIsWinner

\* Every step of the registry is a step of its abstract promise, or a stutter.
LEMMA Maps == IInv /\ [Next]_vars => [Registry!Next]_Registry!vars
<1> SUFFICES ASSUME IInv, [Next]_vars PROVE [Registry!Next]_Registry!vars
  OBVIOUS
<1>1. CASE UNCHANGED vars
  BY <1>1 DEF vars, rows, Registry!vars
<1>2. ASSUME NEW c \in Clients, UNCHANGED Registry!vars \/ Registry!Create(mine[c], want[c]), mine[c] \in Ids
      PROVE  [Registry!Next]_Registry!vars
  BY <1>2 DEF Registry!Next, IInv, CallTypes
<1>3. ASSUME NEW c \in Clients, Insert(c) PROVE [Registry!Next]_Registry!vars
  <2>1. mine[c] \in Ids
    BY <1>3 DEF Insert, IInv, OwnIds, Busy
  <2> QED
    BY <1>2, <1>3, <2>1, InsertStep
<1>4. ASSUME NEW c \in Clients, Break(c) PROVE [Registry!Next]_Registry!vars
  <2>1. mine[c] \in Ids
    BY <1>4 DEF Break, IInv, OwnIds, Busy
  <2> QED
    BY <1>2, <1>4, <2>1, BreakStep
<1>5. ASSUME NEW c \in Clients, ReadBack(c) \/ Winner(c) \/ \E k \in Keys \cup {NoKey} : Call(c, k)
      PROVE  [Registry!Next]_Registry!vars
  BY <1>5 DEF ReadBack, Winner, Call, rows, Registry!vars
<1>6. ASSUME NEW i \in Ids, NEW s \in {"running"} \cup Terminal, Transition(i, s)
      PROVE  [Registry!Next]_Registry!vars
  <2>1. Registry!Move(i, s)
    BY <1>6 DEF Transition, Open, Active, Registry!Move, Registry!Active
  <2> QED
    BY <2>1 DEF Registry!Next, Terminal, Registry!Terminal
<1>7. ASSUME NEW i \in Ids, NEW p \in Prints, ClaimFingerprint(i, p)
      PROVE  [Registry!Next]_Registry!vars
  BY <1>7, ClaimStep DEF Registry!Next
<1>8. ASSUME NEW i \in Ids, NEW e \in Appended, AppendEvent(i, e)
      PROVE  [Registry!Next]_Registry!vars
  BY <1>8, AppendStep
<1> QED
  BY <1>1, <1>3, <1>4, <1>5, <1>6, <1>7, <1>8 DEF Next, Create

(* The repository implements the abstract registry: a create that loses,   *)
(* breaks off or is repeated, and everything else a statement does, is a   *)
(* step of the registry or none.                                           *)
THEOREM ImplementsRegistry == Spec => RegistrySpec
<1>1. Init => Registry!Init
  BY DEF Init, Registry!Init
<1> QED
  BY <1>1, Invariant, Maps, PTL DEF Spec, RegistrySpec, Registry!Spec

(* The three invariants of the registry's rows in one.                     *)
THEOREM RegistryHoldsAlways == Spec => []RegistryHolds
BY TypesHold, OneWinnerHolds, EventsTellStatusHolds, PTL DEF RegistryHolds

----------------------------------------------------------------------------
(* The bridge.  A turn that has still its timer was not spoken for, and one *)
(* that lost it has ended or was told to die: that bounds what is posted.  *)
(* What ties a turn, the entry of the thread and its child together is     *)
(* said turn by turn, as long as no stopped turn has spoken: the thread's  *)
(* entry is the one of the turn whose context is fetched or whose child    *)
(* works unstopped; a child that works without it was told to die, by a    *)
(* Stop, and then nothing was posted for it, or by its timer, and then its *)
(* failure was.                                                            *)

PostedOnce(r) ==
  /\ place[r] \in {"new", "refused", "context"} => terminals[r] = 0 /\ entry[r] = None
  /\ place[r] = "running" =>
       /\ entry[r] \in Bridge!Entries
       /\ IF timer[r] THEN terminals[r] = 0 ELSE killed[entry[r]] /\ terminals[r] <= 1
  /\ place[r] = "closed" => terminals[r] <= 1

Unheard(r) == r \notin cancelled /\ terminals[r] = 0
Untouched(r) == child[r] = None /\ ~killed[r] /\ ~terminalPosted[r]

BeforeChild(r) ==
  /\ slot = r /\ child[r] = None /\ ~terminalPosted[r] /\ terminals[r] = 0
  /\ killed[r] <=> r \in cancelled

AtWork(r) == slot = r /\ timer[r] /\ Unheard(r) /\ ~killed[r] /\ ~terminalPosted[r]
Dying(r) ==
  /\ slot # r /\ killed[r]
  /\ \/ r \in cancelled /\ terminals[r] = 0
     \/ r \notin cancelled /\ ~timer[r] /\ terminals[r] = 1

TurnStands(r) ==
  /\ place[r] = "new" => Untouched(r)
  /\ place[r] \in {"new", "refused"} => slot # r /\ Unheard(r)
  /\ place[r] = "context" => BeforeChild(r)
  /\ place[r] = "running" => entry[r] = r /\ child[r] = r /\ (AtWork(r) \/ Dying(r))
  /\ place[r] = "closed" => slot # r /\ terminals[r] = (IF r \in cancelled THEN 0 ELSE 1)

SlotStands == slot \in 1 .. MaxMessages \cup {None}

BridgeInv ==
  /\ Bridge!TypeOK
  /\ \A r \in 1 .. MaxMessages : PostedOnce(r)
  /\ Bridge!StopsAreSilent => SlotStands /\ \A r \in 1 .. MaxMessages : TurnStands(r)

(* A message may get a second entry, and no entry is None.                 *)
LEMMA EntriesOfRuns ==
  /\ MaxMessages \in Nat \ {0}
  /\ Bridge!Runs \subseteq Bridge!Entries /\ None \notin Bridge!Entries
  /\ \A r \in Bridge!Runs : Bridge!Second(r) \in Bridge!Entries
BY BridgeIs DEF Bridge!BridgeAssumption, Bridge!Runs, Bridge!Entries, Bridge!Second

\* No turn has come, no child runs, the thread is free.
LEMMA BridgeInit == Bridge!Init => BridgeInv
BY EntriesOfRuns DEF Bridge!Init, BridgeInv, Bridge!TypeOK, Bridge!Runs, PostedOnce, SlotStands,
   TurnStands, Untouched, Unheard

(* Every step keeps the types: a callback is only posted for a turn that   *)
(* had none yet.                                                           *)
LEMMA PostTypes ==
  ASSUME Bridge!TypeOK, NEW r \in Bridge!Runs, terminals[r] = 0, Bridge!PostTerminalOnce(r)
  PROVE  /\ slot' \in Bridge!Entries \cup {None} /\ terminalPosted' \in [Bridge!Entries -> BOOLEAN]
         /\ terminals' \in [Bridge!Runs -> 0 .. 2]
         /\ terminals'[r] \in {0, 1}
         /\ \A q \in Bridge!Runs : q # r => terminals'[q] = terminals[q]
<1> USE DEF Bridge!TypeOK
<1>1. CASE slot = None \/ terminalPosted[slot]
  BY <1>1 DEF Bridge!PostTerminalOnce
<1>2. CASE ~(slot = None \/ terminalPosted[slot])
  <2>1. terminals' = [terminals EXCEPT ![r] = 1]
    BY <1>2 DEF Bridge!PostTerminalOnce
  <2>2. terminals' \in [Bridge!Runs -> 0 .. 2]
    BY <2>1
  <2>3. terminalPosted' = [terminalPosted EXCEPT ![slot] = TRUE] /\ slot' = None
    BY <1>2 DEF Bridge!PostTerminalOnce
  <2> QED
    BY <2>1, <2>2, <2>3
<1> QED
  BY <1>1, <1>2

\* The variables of the bridge keep their types, and no turn is spoken for twice.
LEMMA BridgeTypes ==
  BridgeInv /\ [Bridge!Next]_(Bridge!vars)
    => Bridge!TypeOK' /\ \A q \in Bridge!Runs : PostedOnce(q)' /\ terminals'[q] >= terminals[q]
<1> SUFFICES ASSUME BridgeInv, [Bridge!Next]_(Bridge!vars)
             PROVE  /\ Bridge!TypeOK'
                    /\ \A q \in Bridge!Runs : PostedOnce(q)' /\ terminals'[q] >= terminals[q]
  OBVIOUS
<1> DEFINE Goal == /\ Bridge!TypeOK'
                   /\ \A q \in Bridge!Runs : PostedOnce(q)' /\ terminals'[q] >= terminals[q]
<1>t. Bridge!TypeOK /\ \A r \in Bridge!Runs : PostedOnce(r)
  BY DEF BridgeInv, Bridge!Runs
<1> USE <1>t, EntriesOfRuns DEF Bridge!Go, Bridge!entries
<1>1. ASSUME NEW r \in Bridge!Runs, Bridge!Inbound(r) PROVE Goal
  BY <1>1 DEF Bridge!Inbound, Bridge!TypeOK, PostedOnce
<1>2. ASSUME NEW r \in Bridge!Runs, Bridge!Spawn(r) PROVE Goal
  BY <1>2 DEF Bridge!Spawn, Bridge!TypeOK, PostedOnce
<1>3. ASSUME NEW r \in Bridge!Runs, Bridge!NeverSpawn(r) PROVE Goal
  BY <1>3 DEF Bridge!NeverSpawn, Bridge!TypeOK, PostedOnce
<1>4. ASSUME NEW r \in Bridge!Runs, Bridge!SpawnThrows(r) PROVE Goal
  <2>1. terminals[r] = 0
    BY <1>4 DEF Bridge!SpawnThrows, PostedOnce
  <2> QED
    BY <1>4, <2>1, PostTypes DEF Bridge!SpawnThrows, Bridge!TypeOK, PostedOnce
<1>5. ASSUME NEW r \in Bridge!Runs, Bridge!TimesOut(r) PROVE Goal
  <2>1. terminals[r] = 0 /\ entry[r] \in Bridge!Entries
    BY <1>5 DEF Bridge!TimesOut, PostedOnce
  <2> QED
    BY <1>5, <2>1, PostTypes DEF Bridge!TimesOut, Bridge!TypeOK, PostedOnce
<1>6. ASSUME NEW r \in Bridge!Runs, Bridge!SpawnFails(r) PROVE Goal
  <2>1. terminals[r] = 0 /\ entry[r] \in Bridge!Entries
    BY <1>6 DEF Bridge!SpawnFails, PostedOnce
  <2> QED
    BY <1>6, <2>1, PostTypes DEF Bridge!SpawnFails, Bridge!TypeOK, PostedOnce
<1>7. ASSUME NEW r \in Bridge!Runs, Bridge!Closes(r) PROVE Goal
  <2>1. killed[entry[r]] \/ terminals[r] = 0
    BY <1>7 DEF Bridge!Closes, PostedOnce
  <2>2. CASE killed[entry[r]] \/ terminalPosted[entry[r]]
    BY <1>7, <2>2 DEF Bridge!Closes, Bridge!TypeOK, PostedOnce
  <2>3. CASE ~(killed[entry[r]] \/ terminalPosted[entry[r]])
    BY <1>7, <2>1, <2>3, PostTypes DEF Bridge!Closes, Bridge!TypeOK, PostedOnce
  <2> QED
    BY <2>2, <2>3
<1>8. CASE Bridge!CancelThread
  <2>1. slot \in Bridge!Entries /\ slot' \in Bridge!Entries \cup {None}
    BY <1>8 DEF Bridge!CancelThread, Bridge!TypeOK
  <2>2. /\ killed' \in [Bridge!Entries -> BOOLEAN]
        /\ \A e \in Bridge!Entries : killed[e] => killed'[e]
    BY <1>8, <2>1 DEF Bridge!CancelThread, Bridge!TypeOK
  <2>3. cancelled' \subseteq Bridge!Runs
    BY <1>8, <2>1 DEF Bridge!CancelThread, Bridge!Stopped, Bridge!TypeOK
  <2> QED
    BY <1>8, <2>1, <2>2, <2>3 DEF Bridge!CancelThread, Bridge!TypeOK, PostedOnce
<1>9. CASE UNCHANGED Bridge!vars
  BY <1>9 DEF Bridge!vars, Bridge!TypeOK, PostedOnce
<1> QED
  BY <1>1, <1>2, <1>3, <1>4, <1>5, <1>6, <1>7, <1>8, <1>9 DEF Bridge!Next, Bridge!RunStep

(* A turn that was stopped stays so, and what it said stays said.          *)
LEMMA SilentBefore ==
  BridgeInv /\ [Bridge!Next]_(Bridge!vars) /\ Bridge!StopsAreSilent' => Bridge!StopsAreSilent
<1> SUFFICES ASSUME BridgeInv, [Bridge!Next]_(Bridge!vars), Bridge!StopsAreSilent', NEW q \in cancelled
             PROVE  terminals[q] = 0
  BY DEF Bridge!StopsAreSilent
<1>1. cancelled \subseteq cancelled'
  BY DEF Bridge!Next, Bridge!RunStep, Bridge!vars, Bridge!Inbound, Bridge!Spawn,
     Bridge!NeverSpawn, Bridge!SpawnThrows, Bridge!TimesOut, Bridge!SpawnFails, Bridge!Closes,
     Bridge!CancelThread
<1>2. q \in Bridge!Runs /\ terminals[q] \in Nat
  BY DEF BridgeInv, Bridge!TypeOK
<1>3. terminals'[q] = 0
  BY <1>1 DEF Bridge!StopsAreSilent
<1>4. terminals'[q] >= terminals[q]
  BY <1>2, BridgeTypes
<1> QED
  BY <1>2, <1>3, <1>4

(* Until a stopped turn speaks every step keeps every turn as it stands.   *)
LEMMA BridgeStep == BridgeInv /\ [Bridge!Next]_(Bridge!vars) => BridgeInv'
<1> SUFFICES ASSUME BridgeInv, [Bridge!Next]_(Bridge!vars), Bridge!StopsAreSilent',
                    NEW q \in Bridge!Runs
             PROVE  SlotStands' /\ TurnStands(q)'
  <2>1. 1 \in Bridge!Runs
    BY EntriesOfRuns DEF Bridge!Runs
  <2> QED
    BY <2>1, BridgeTypes DEF BridgeInv, Bridge!Runs
<1>s. /\ Bridge!TypeOK /\ SlotStands
      /\ \A r \in Bridge!Runs : PostedOnce(r) /\ TurnStands(r)
  BY SilentBefore DEF BridgeInv, Bridge!Runs
<1>e. \A r \in Bridge!Runs : r \in Bridge!Entries /\ r # None
  BY EntriesOfRuns
<1>n. slot # None => slot \in Bridge!Runs /\ place[slot] \in {"context", "running"}
  BY <1>s DEF SlotStands, Bridge!Runs, TurnStands, Bridge!TypeOK
<1>p. slot # None => ~terminalPosted[slot]
  BY <1>s, <1>n DEF TurnStands, BeforeChild, AtWork, Dying
<1> DEFINE Goal == SlotStands' /\ TurnStands(q)'
\* A turn that answers for its own entry frees the thread.
<1>a. ASSUME NEW r \in Bridge!Runs, slot = r, terminals[r] = 0, Bridge!PostTerminalOnce(r)
      PROVE  /\ slot' = None /\ terminals' = [terminals EXCEPT ![r] = 1]
             /\ terminalPosted' = [terminalPosted EXCEPT ![r] = TRUE]
  BY <1>a, <1>e, <1>p DEF Bridge!PostTerminalOnce
<1> USE <1>s, <1>e DEF Bridge!TypeOK, Bridge!Runs, SlotStands, Bridge!Go,
     Bridge!entries, TurnStands, Untouched, BeforeChild, AtWork, Dying, Unheard
<1>1. ASSUME NEW r \in Bridge!Runs, Bridge!Inbound(r) PROVE Goal
  <2>1. CASE slot # None
    BY <1>1, <2>1 DEF Bridge!Inbound
  <2>2. CASE slot = None
    <3>1. slot' = r /\ place' = [place EXCEPT ![r] = "context"] /\ place[r] = "new"
      BY <1>1, <2>2 DEF Bridge!Inbound
    <3>2. CASE q = r
      BY <1>1, <3>1, <3>2 DEF Bridge!Inbound, PostedOnce
    <3>3. CASE q # r
      BY <1>1, <2>2, <3>1, <3>3 DEF Bridge!Inbound
    <3> QED
      BY <3>1, <3>2, <3>3
  <2> QED
    BY <2>1, <2>2
<1>2. ASSUME NEW r \in Bridge!Runs, Bridge!Spawn(r) PROVE Goal
  BY <1>2 DEF Bridge!Spawn
<1>3. ASSUME NEW r \in Bridge!Runs, Bridge!NeverSpawn(r) PROVE Goal
  BY <1>3 DEF Bridge!NeverSpawn
<1>4. ASSUME NEW r \in Bridge!Runs, Bridge!SpawnThrows(r) PROVE Goal
  <2>1. slot = r /\ terminals[r] = 0 /\ r \notin cancelled /\ ~terminalPosted[r]
    BY <1>4 DEF Bridge!SpawnThrows
  <2>2. slot' = None /\ terminals' = [terminals EXCEPT ![r] = 1]
    BY <1>4, <1>a, <2>1 DEF Bridge!SpawnThrows
  <2>3. terminalPosted' = [terminalPosted EXCEPT ![r] = TRUE]
    BY <1>4, <1>a, <2>1 DEF Bridge!SpawnThrows
  <2>4. CASE q = r
    BY <1>4, <2>1, <2>2, <2>4 DEF Bridge!SpawnThrows
  <2>5. CASE q # r
    BY <1>4, <2>1, <2>2, <2>3, <2>5 DEF Bridge!SpawnThrows
  <2> QED
    BY <2>2, <2>4, <2>5
<1>5. ASSUME NEW r \in Bridge!Runs, Bridge!TimesOut(r) PROVE Goal
  <2>1. CASE r \in cancelled
    <3>1. slot = None
      <4>1. r \in cancelled' /\ terminals'[r] = 0
        BY <1>5, <2>1 DEF Bridge!TimesOut, Bridge!StopsAreSilent
      <4>2. slot # None => terminals'[r] = terminals[r] + 1
        BY <1>5, <1>n, <1>p DEF Bridge!TimesOut, Bridge!PostTerminalOnce
      <4> QED
        BY <4>1, <4>2
    <3> QED
      BY <1>5, <2>1, <3>1 DEF Bridge!TimesOut, Bridge!PostTerminalOnce
  <2>2. CASE r \notin cancelled
    <3>1. entry[r] = r /\ slot = r /\ terminals[r] = 0
      BY <1>5, <2>2 DEF Bridge!TimesOut
    <3>2. slot' = None /\ terminals' = [terminals EXCEPT ![r] = 1]
      BY <1>5, <1>a, <3>1 DEF Bridge!TimesOut
    <3>3. terminalPosted' = [terminalPosted EXCEPT ![r] = TRUE] /\ killed' = [killed EXCEPT ![r] = TRUE]
      BY <1>5, <1>a, <3>1 DEF Bridge!TimesOut
    <3>4. CASE q = r
      BY <1>5, <2>2, <3>1, <3>2, <3>3, <3>4 DEF Bridge!TimesOut
    <3>5. CASE q # r
      BY <1>5, <3>1, <3>2, <3>3, <3>5 DEF Bridge!TimesOut
    <3> QED
      BY <3>2, <3>4, <3>5
  <2> QED
    BY <2>1, <2>2
<1>6. ASSUME NEW r \in Bridge!Runs, Bridge!SpawnFails(r) PROVE Goal
  <2>1. entry[r] = r /\ slot = r /\ terminals[r] = 0 /\ r \notin cancelled
    BY <1>6 DEF Bridge!SpawnFails
  <2>2. slot' = None /\ terminals' = [terminals EXCEPT ![r] = 1]
    BY <1>6, <1>a, <2>1 DEF Bridge!SpawnFails
  <2>3. terminalPosted' = [terminalPosted EXCEPT ![r] = TRUE] /\ killed' = [killed EXCEPT ![r] = TRUE]
    BY <1>6, <1>a, <2>1 DEF Bridge!SpawnFails
  <2>4. CASE q = r
    BY <1>6, <2>1, <2>2, <2>4 DEF Bridge!SpawnFails
  <2>5. CASE q # r
    BY <1>6, <2>1, <2>2, <2>3, <2>5 DEF Bridge!SpawnFails
  <2> QED
    BY <2>2, <2>4, <2>5
<1>7. ASSUME NEW r \in Bridge!Runs, Bridge!Closes(r) PROVE Goal
  <2>1. CASE killed[r]
    BY <1>7, <2>1 DEF Bridge!Closes
  <2>2. CASE ~killed[r]
    <3>1. entry[r] = r /\ slot = r /\ terminals[r] = 0 /\ r \notin cancelled /\ ~terminalPosted[r]
      BY <1>7, <2>2 DEF Bridge!Closes
    <3>2. /\ slot' = None /\ terminals' = [terminals EXCEPT ![r] = 1]
          /\ terminalPosted' = [terminalPosted EXCEPT ![r] = TRUE]
      BY <1>7, <1>a, <2>2, <3>1 DEF Bridge!Closes
    <3>3. CASE q = r
      BY <1>7, <3>1, <3>2, <3>3 DEF Bridge!Closes
    <3>4. CASE q # r
      BY <1>7, <3>1, <3>2, <3>4 DEF Bridge!Closes
    <3> QED
      BY <3>2, <3>3, <3>4
  <2> QED
    BY <2>1, <2>2
<1>8. CASE Bridge!CancelThread
  <2>1. \A r \in Bridge!Runs : r \in Bridge!Stopped <=> r = slot
    BY <1>8, <1>n DEF Bridge!CancelThread, Bridge!Stopped, PostedOnce
  <2>2. cancelled' = cancelled \cup {slot}
    BY <1>8, <1>n, <2>1 DEF Bridge!CancelThread, Bridge!Stopped
  <2> QED
    BY <1>8, <1>n, <2>2 DEF Bridge!CancelThread
<1>9. CASE UNCHANGED Bridge!vars
  BY <1>9 DEF Bridge!vars
<1> QED
  BY <1>1, <1>2, <1>3, <1>4, <1>5, <1>6, <1>7, <1>8, <1>9 DEF Bridge!Next, Bridge!RunStep

\* The invariant of the bridge holds at all times.
LEMMA BridgeAlways == Bridge!Spec => []BridgeInv
BY BridgeInit, BridgeStep, PTL DEF Bridge!Spec

(* However children exit, time out, are stopped or never start, and however *)
(* late the timer of a stopped one rings: no turn is answered for twice.    *)
(* Until such a timer takes the entry of another turn, every turn that      *)
(* ended was answered for unless a person stopped it, and two children work *)
(* on one thread only when the first was told to die.                       *)
THEOREM BridgeHoldsAlways == Bridge!Spec => []BridgeHolds
<1>1. BridgeInv => BridgeHolds
  <2> SUFFICES ASSUME BridgeInv PROVE BridgeHolds
    OBVIOUS
  <2> USE DEF BridgeInv, Bridge!TypeOK, Bridge!Runs
  <2>1. Bridge!OneTerminalPerRun
    BY DEF PostedOnce, Bridge!OneTerminalPerRun
  <2>2. Bridge!EndedWasAnswered
    BY DEF TurnStands, Bridge!EndedWasAnswered, Bridge!Ended
  <2>3. Bridge!OneChildPerThread
    BY DEF TurnStands, AtWork, Dying, Bridge!OneChildPerThread
  <2> QED
    BY <2>1, <2>2, <2>3 DEF BridgeHolds
<1> QED
  BY <1>1, BridgeAlways, PTL

----------------------------------------------------------------------------
(* When stopped turns do speak, answers are taken from other turns.  Owed   *)
(* are the turns that wait, work or have ended without an answer: they are *)
(* no more than the stopped turns that spoke, and one to whom the thread's *)
(* entry is open.  An entry is used for one message and never comes back.  *)

Owed ==
  {r \in Bridge!Runs : /\ r \notin cancelled /\ terminals[r] = 0
                       /\ place[r] \in {"context", "running", "closed"}}
Spoke == {q \in cancelled : terminals[q] > 0}

Holds(r) ==
  \/ place[r] = "context" /\ slot = r
  \/ place[r] = "running" /\ slot = entry[r]
Held == slot # None /\ ~killed[slot] /\ \E r \in Owed : Holds(r)

EntriesUsedOnce ==
  /\ slot # None => ~terminalPosted[slot]
  /\ \A r \in Bridge!Runs : place[r] = "new" =>
       /\ slot # r /\ ~killed[r] /\ ~terminalPosted[r] /\ r \notin cancelled
       /\ \A q \in Bridge!Runs : entry[q] # r
  /\ \A r \in Bridge!Runs : place[r] \in {"new", "refused", "context"} =>
       slot # Bridge!Second(r) /\ ~terminalPosted[Bridge!Second(r)]

DebtBounded == Cardinality(Owed) <= Cardinality(Spoke) + (IF Held THEN 1 ELSE 0)

DebtInv == BridgeInv /\ EntriesUsedOnce /\ DebtBounded

\* The entries of two messages are apart, whichever of the two they get.
LEMMA SecondEntries ==
  /\ \A r \in Bridge!Runs : Bridge!Second(r) # None
  /\ \A q, r \in Bridge!Runs :
       Bridge!Second(q) # r /\ (q # r => Bridge!Second(q) # Bridge!Second(r))
BY BridgeIs DEF Bridge!BridgeAssumption, Bridge!Runs, Bridge!Second

(* A callback marks the thread's entry and frees the thread, or it finds    *)
(* none and changes nothing.                                               *)
LEMMA PostFrees ==
  ASSUME BridgeInv, EntriesUsedOnce, NEW r \in Bridge!Runs, terminals[r] = 0,
         Bridge!PostTerminalOnce(r)
  PROVE  \/ /\ slot = None /\ slot' = None
            /\ terminalPosted' = terminalPosted /\ terminals' = terminals
         \/ /\ slot # None /\ slot' = None
            /\ terminalPosted' = [terminalPosted EXCEPT ![slot] = TRUE]
            /\ terminals' = [terminals EXCEPT ![r] = 1]
BY DEF Bridge!PostTerminalOnce, EntriesUsedOnce, BridgeInv, Bridge!TypeOK

\* No step brings an entry back that was used.
LEMMA UsedOnceStep ==
  BridgeInv /\ EntriesUsedOnce /\ [Bridge!Next]_(Bridge!vars) => EntriesUsedOnce'
<1> SUFFICES ASSUME BridgeInv, EntriesUsedOnce, [Bridge!Next]_(Bridge!vars)
             PROVE  EntriesUsedOnce'
  OBVIOUS
<1>t. Bridge!TypeOK /\ \A r \in Bridge!Runs : PostedOnce(r)
  BY DEF BridgeInv, Bridge!Runs
<1> USE <1>t, EntriesOfRuns, SecondEntries
    DEF EntriesUsedOnce, Bridge!TypeOK, Bridge!Go, Bridge!entries
<1>1. ASSUME NEW r \in Bridge!Runs, Bridge!Inbound(r) PROVE EntriesUsedOnce'
  BY <1>1 DEF Bridge!Inbound, PostedOnce
<1>2. ASSUME NEW r \in Bridge!Runs, Bridge!Spawn(r) PROVE EntriesUsedOnce'
  BY <1>2 DEF Bridge!Spawn
<1>3. ASSUME NEW r \in Bridge!Runs, Bridge!NeverSpawn(r) PROVE EntriesUsedOnce'
  BY <1>3 DEF Bridge!NeverSpawn
<1>4. ASSUME NEW r \in Bridge!Runs, Bridge!SpawnThrows(r) PROVE EntriesUsedOnce'
  BY <1>4, PostFrees DEF Bridge!SpawnThrows, PostedOnce
<1>5. ASSUME NEW r \in Bridge!Runs, Bridge!TimesOut(r) PROVE EntriesUsedOnce'
  BY <1>5, PostFrees DEF Bridge!TimesOut, PostedOnce
<1>6. ASSUME NEW r \in Bridge!Runs, Bridge!SpawnFails(r) PROVE EntriesUsedOnce'
  BY <1>6, PostFrees DEF Bridge!SpawnFails, PostedOnce
<1>7. ASSUME NEW r \in Bridge!Runs, Bridge!Closes(r) PROVE EntriesUsedOnce'
  <2>1. CASE killed[entry[r]] \/ terminalPosted[entry[r]]
    BY <1>7, <2>1 DEF Bridge!Closes
  <2>2. CASE ~(killed[entry[r]] \/ terminalPosted[entry[r]])
    <3>1. terminals[r] = 0
      BY <1>7, <2>2 DEF Bridge!Closes, PostedOnce
    <3> QED
      BY <1>7, <2>2, <3>1, PostFrees DEF Bridge!Closes
  <2> QED
    BY <2>1, <2>2
<1>8. CASE Bridge!CancelThread
  <2>1. /\ slot # None /\ slot' \in {slot, None} /\ killed' = [killed EXCEPT ![slot] = TRUE]
        /\ terminalPosted' = terminalPosted /\ place' = place /\ entry' = entry
    BY <1>8 DEF Bridge!CancelThread
  <2>2. \A r \in Bridge!Runs : place[r] = "new" /\ r \notin cancelled => r \notin cancelled'
    BY <1>8 DEF Bridge!CancelThread, Bridge!Stopped
  <2> QED
    BY <2>1, <2>2
<1>9. CASE UNCHANGED Bridge!vars
  BY <1>9 DEF Bridge!vars
<1> QED
  BY <1>1, <1>2, <1>3, <1>4, <1>5, <1>6, <1>7, <1>8, <1>9 DEF Bridge!Next, Bridge!RunStep

\* A step that makes no debt, one that pays or takes an answer, a message.
Calm == Owed' \subseteq Owed /\ Spoke \subseteq Spoke' /\ (Held => Held')
Settling ==
  Owed' \subseteq Owed /\ Spoke \subseteq Spoke' /\ (Owed' # Owed \/ Spoke' # Spoke)
Arriving(r) == ~Held /\ Held' /\ Spoke' = Spoke /\ Owed' \subseteq Owed \cup {r}

\* What a turn says is its answer, or it is the word of a stopped one.
LEMMA PostSettles ==
  ASSUME BridgeInv, EntriesUsedOnce, NEW r \in Bridge!Runs, terminals[r] = 0,
         place[r] \in {"context", "running"}, Bridge!PostTerminalOnce(r),
         cancelled' = cancelled, place' \in {place, [place EXCEPT ![r] = "closed"]}
  PROVE  Calm \/ Settling
<1>t. Bridge!TypeOK
  BY DEF BridgeInv
<1>1. CASE slot = None /\ terminals' = terminals
  <2>1. Owed' = Owed /\ Spoke' = Spoke /\ ~Held
    BY <1>1, <1>t DEF Owed, Spoke, Held, Bridge!TypeOK
  <2> QED
    BY <2>1 DEF Calm
<1>2. CASE terminals' = [terminals EXCEPT ![r] = 1]
  <2>1. Owed' \subseteq Owed /\ Spoke \subseteq Spoke'
    BY <1>2, <1>t DEF Owed, Spoke, Bridge!TypeOK
  <2>2. CASE r \in cancelled
    <3>1. r \in Spoke' /\ r \notin Spoke
      BY <1>2, <1>t, <2>2 DEF Spoke, Bridge!TypeOK
    <3> QED
      BY <2>1, <3>1 DEF Settling
  <2>3. CASE r \notin cancelled
    <3>1. r \in Owed /\ r \notin Owed'
      BY <1>2, <1>t, <2>3 DEF Owed, Bridge!TypeOK
    <3> QED
      BY <2>1, <3>1 DEF Settling
  <2> QED
    BY <2>2, <2>3
<1> QED
  BY <1>1, <1>2, PostFrees

\* Every step is of one of these kinds.
LEMMA KindsOfSteps ==
  BridgeInv /\ EntriesUsedOnce /\ [Bridge!Next]_(Bridge!vars)
    => Calm \/ Settling \/ \E r \in Bridge!Runs : Arriving(r)
<1> SUFFICES ASSUME BridgeInv, EntriesUsedOnce, [Bridge!Next]_(Bridge!vars)
             PROVE  Calm \/ Settling \/ \E r \in Bridge!Runs : Arriving(r)
  OBVIOUS
<1> DEFINE Goal == Calm \/ Settling \/ \E r \in Bridge!Runs : Arriving(r)
<1>t. Bridge!TypeOK /\ \A r \in Bridge!Runs : PostedOnce(r)
  BY DEF BridgeInv, Bridge!Runs
<1> USE <1>t, EntriesOfRuns DEF Bridge!TypeOK, Bridge!Go, Bridge!entries
<1>1. ASSUME NEW r \in Bridge!Runs, Bridge!Inbound(r) PROVE Goal
  <2>0. place[r] = "new" /\ terminals[r] = 0 /\ terminals' = terminals /\ cancelled' = cancelled
    BY <1>1 DEF Bridge!Inbound, PostedOnce
  <2>1. Spoke' = Spoke
    BY <2>0 DEF Spoke
  <2>2. CASE slot # None
    <3>1. slot' = slot /\ killed' = killed /\ entry' = entry /\ place' = [place EXCEPT ![r] = "refused"]
      BY <1>1, <2>2 DEF Bridge!Inbound
    <3>2. Owed' = Owed
      BY <2>0, <3>1 DEF Owed
    <3>3. Held => Held'
      BY <2>0, <3>1, <3>2 DEF Held, Holds, Owed
    <3> QED
      BY <2>1, <3>2, <3>3 DEF Calm
  <2>3. CASE slot = None
    <3>1. slot' = r /\ killed' = killed /\ place' = [place EXCEPT ![r] = "context"]
      BY <1>1, <2>3 DEF Bridge!Inbound
    <3>2. Owed' \subseteq Owed \cup {r} /\ ~Held
      BY <2>0, <2>3, <3>1 DEF Owed, Held
    <3>3. r \in Owed' /\ Holds(r)' /\ ~killed'[r] /\ slot' # None
      BY <2>0, <3>1 DEF Owed, Holds, EntriesUsedOnce
    <3> QED
      BY <2>1, <3>1, <3>2, <3>3 DEF Held, Arriving
  <2> QED
    BY <2>2, <2>3
<1>2. ASSUME NEW r \in Bridge!Runs, Bridge!Spawn(r) PROVE Goal
  <2>0. /\ place[r] = "context" /\ place' = [place EXCEPT ![r] = "running"]
        /\ terminals' = terminals /\ cancelled' = cancelled /\ killed' = killed
    BY <1>2 DEF Bridge!Spawn
  <2>1. Spoke' = Spoke /\ Owed' = Owed
    BY <2>0 DEF Spoke, Owed
  <2>2. ASSUME Held PROVE Held'
    <3>1. slot # None /\ slot' = slot /\ entry' = [entry EXCEPT ![r] = slot]
      BY <1>2, <2>2 DEF Bridge!Spawn, Held
    <3>2. PICK h \in Owed : Holds(h)
      BY <2>2 DEF Held
    <3>3. Holds(h)'
      BY <2>0, <3>1, <3>2 DEF Holds, Owed
    <3> QED
      BY <2>0, <2>1, <2>2, <3>1, <3>2, <3>3 DEF Held
  <2> QED
    BY <2>1, <2>2 DEF Calm
<1>3. ASSUME NEW r \in Bridge!Runs, Bridge!NeverSpawn(r) PROVE Goal
  <2>1. Spoke' = Spoke /\ Owed' = Owed /\ ~Held
    BY <1>3 DEF Bridge!NeverSpawn, Spoke, Owed, Held
  <2> QED
    BY <2>1 DEF Calm
<1>4. ASSUME NEW r \in Bridge!Runs, Bridge!SpawnThrows(r) PROVE Goal
  BY <1>4, PostSettles DEF Bridge!SpawnThrows, PostedOnce
<1>5. ASSUME NEW r \in Bridge!Runs, Bridge!TimesOut(r) PROVE Goal
  BY <1>5, PostSettles DEF Bridge!TimesOut, PostedOnce
<1>6. ASSUME NEW r \in Bridge!Runs, Bridge!SpawnFails(r) PROVE Goal
  BY <1>6, PostSettles DEF Bridge!SpawnFails, PostedOnce
<1>7. ASSUME NEW r \in Bridge!Runs, Bridge!Closes(r) PROVE Goal
  <2>1. CASE killed[entry[r]] \/ terminalPosted[entry[r]]
    <3>0. /\ place[r] = "running" /\ place' = [place EXCEPT ![r] = "closed"] /\ slot' = slot
          /\ terminals' = terminals /\ cancelled' = cancelled /\ killed' = killed /\ entry' = entry
      BY <1>7, <2>1 DEF Bridge!Closes
    <3>1. Spoke' = Spoke /\ Owed' = Owed
      BY <3>0 DEF Spoke, Owed
    <3>2. ASSUME Held PROVE Held'
      <4>1. PICK h \in Owed : Holds(h)
        BY <3>2 DEF Held
      <4>2. h # r
        BY <2>1, <3>0, <3>2, <4>1 DEF Held, Holds, EntriesUsedOnce
      <4>3. Holds(h)'
        BY <3>0, <4>1, <4>2 DEF Holds, Owed
      <4> QED
        BY <3>0, <3>1, <3>2, <4>1, <4>3 DEF Held
    <3> QED
      BY <3>1, <3>2 DEF Calm
  <2>2. CASE ~(killed[entry[r]] \/ terminalPosted[entry[r]])
    BY <1>7, <2>2, PostSettles DEF Bridge!Closes, PostedOnce
  <2> QED
    BY <2>1, <2>2
<1>8. CASE Bridge!CancelThread
  <2>0. /\ slot # None /\ place' = place /\ terminals' = terminals
        /\ cancelled' = cancelled \cup Bridge!Stopped
    BY <1>8 DEF Bridge!CancelThread
  <2>1. Owed' \subseteq Owed /\ Spoke \subseteq Spoke'
    BY <2>0 DEF Owed, Spoke
  <2>2. ASSUME Held PROVE Owed' # Owed
    <3>1. PICK h \in Owed : Holds(h)
      BY <2>2 DEF Held
    <3>2. h \in Bridge!Stopped
      BY <3>1 DEF Holds, Owed, Bridge!Stopped
    <3> QED
      BY <2>0, <3>1, <3>2 DEF Owed
  <2> QED
    BY <2>1, <2>2 DEF Calm, Settling
<1>9. CASE UNCHANGED Bridge!vars
  BY <1>9 DEF Bridge!vars, Calm, Owed, Spoke, Held, Holds
<1> QED
  BY <1>1, <1>2, <1>3, <1>4, <1>5, <1>6, <1>7, <1>8, <1>9 DEF Bridge!Next, Bridge!RunStep

\* Sets of messages are counted.
LEMMA MessagesCounted ==
  /\ \A T \in SUBSET Bridge!Runs : IsFiniteSet(T) /\ Cardinality(T) \in Nat
  /\ \A T \in SUBSET Bridge!Runs : \A U \in SUBSET T :
       /\ Cardinality(U) <= Cardinality(T)
       /\ U # T => Cardinality(U) < Cardinality(T)
  /\ \A T \in SUBSET Bridge!Runs, r \in Bridge!Runs :
       Cardinality(T \cup {r}) <= Cardinality(T) + 1
<1>1. IsFiniteSet(Bridge!Runs)
  BY EntriesOfRuns, FS_Interval DEF Bridge!Runs
<1>2. \A T \in SUBSET Bridge!Runs : IsFiniteSet(T) /\ Cardinality(T) \in Nat
  BY <1>1, FS_Subset, FS_CardinalityType
<1>3. \A T \in SUBSET Bridge!Runs : \A U \in SUBSET T :
        /\ Cardinality(U) <= Cardinality(T)
        /\ U # T => Cardinality(U) < Cardinality(T)
  BY <1>2, FS_Subset
<1>4. ASSUME NEW T \in SUBSET Bridge!Runs, NEW r \in Bridge!Runs
      PROVE  Cardinality(T \cup {r}) <= Cardinality(T) + 1
  <2>1. IsFiniteSet(T) /\ Cardinality(T) \in Nat
    BY <1>2
  <2>2. Cardinality(T \cup {r}) = IF r \in T THEN Cardinality(T) ELSE Cardinality(T) + 1
    BY <2>1, FS_AddElement
  <2> QED
    BY <2>1, <2>2
<1> QED
  BY <1>2, <1>3, <1>4

\* A step of any of these kinds leaves the debt bounded.
LEMMA DebtStep == DebtInv /\ [Bridge!Next]_(Bridge!vars) => DebtInv'
<1> SUFFICES ASSUME DebtInv, [Bridge!Next]_(Bridge!vars) PROVE DebtInv'
  OBVIOUS
<1>1. BridgeInv' /\ EntriesUsedOnce'
  BY BridgeStep, UsedOnceStep DEF DebtInv
<1>2. Bridge!TypeOK /\ Bridge!TypeOK'
  BY <1>1 DEF DebtInv, BridgeInv
<1>3. /\ Owed \in SUBSET Bridge!Runs /\ Owed' \in SUBSET Bridge!Runs
      /\ Spoke \in SUBSET Bridge!Runs /\ Spoke' \in SUBSET Bridge!Runs
  BY <1>2 DEF Owed, Spoke, Bridge!TypeOK
<1>4. /\ Cardinality(Owed) \in Nat /\ Cardinality(Owed') \in Nat
      /\ Cardinality(Spoke) \in Nat /\ Cardinality(Spoke') \in Nat
  BY <1>3, MessagesCounted
<1>5. Cardinality(Owed) <= Cardinality(Spoke) + (IF Held THEN 1 ELSE 0)
  BY DEF DebtInv, DebtBounded
<1> DEFINE Bounded == Cardinality(Owed') <= Cardinality(Spoke') + (IF Held' THEN 1 ELSE 0)
<1>6. CASE Calm
  <2>1. Cardinality(Owed') <= Cardinality(Owed) /\ Cardinality(Spoke) <= Cardinality(Spoke')
    BY <1>3, <1>6, MessagesCounted DEF Calm
  <2> QED
    BY <1>1, <1>4, <1>5, <1>6, <2>1 DEF Calm, DebtInv, DebtBounded
<1>7. CASE Settling
  <2>1. /\ Cardinality(Owed') <= Cardinality(Owed) /\ Cardinality(Spoke) <= Cardinality(Spoke')
        /\ \/ Cardinality(Owed') < Cardinality(Owed)
           \/ Cardinality(Spoke) < Cardinality(Spoke')
    BY <1>3, <1>7, MessagesCounted DEF Settling
  <2> QED
    BY <1>1, <1>4, <1>5, <2>1 DEF DebtInv, DebtBounded
<1>8. ASSUME NEW r \in Bridge!Runs, Arriving(r) PROVE DebtInv'
  <2>1. Owed \cup {r} \in SUBSET Bridge!Runs
    BY <1>3
  <2>2. /\ Cardinality(Owed') <= Cardinality(Owed \cup {r})
        /\ Cardinality(Owed \cup {r}) <= Cardinality(Owed) + 1
        /\ Cardinality(Owed \cup {r}) \in Nat
    BY <1>3, <1>8, <2>1, MessagesCounted DEF Arriving
  <2> QED
    BY <1>1, <1>4, <1>5, <1>8, <2>2 DEF Arriving, DebtInv, DebtBounded
<1> QED
  BY <1>6, <1>7, <1>8, KindsOfSteps DEF DebtInv

\* Nobody has come and nothing is owed.
LEMMA DebtInit == Bridge!Init => DebtInv
<1> SUFFICES ASSUME Bridge!Init PROVE DebtInv
  OBVIOUS
<1>1. EntriesUsedOnce
  BY EntriesOfRuns, SecondEntries DEF Bridge!Init, EntriesUsedOnce, Bridge!Entries, Bridge!Second,
     Bridge!Runs
<1>2. Owed = {} /\ Spoke = {}
  BY DEF Bridge!Init, Owed, Spoke
<1>3. DebtBounded
  BY <1>2, FS_EmptySet DEF DebtBounded
<1> QED
  BY <1>1, <1>3, BridgeInit DEF DebtInv

(* However often the timer of a stopped turn takes the answer of another:   *)
(* no more turns end without one than stopped turns have spoken.            *)
THEOREM TakenNotLostHolds == Bridge!Spec => []TakenNotLost
<1>1. DebtInv => TakenNotLost
  <2> SUFFICES ASSUME DebtInv PROVE TakenNotLost
    OBVIOUS
  <2> DEFINE Unanswered == {r \in Bridge!Runs : Bridge!Ended(r) /\ terminals[r] = 0}
  <2>1. Bridge!TypeOK
    BY DEF DebtInv, BridgeInv
  <2>2. /\ Owed \in SUBSET Bridge!Runs /\ Spoke \in SUBSET Bridge!Runs
        /\ Unanswered \in SUBSET Owed /\ Unanswered \in SUBSET Bridge!Runs
    BY <2>1 DEF Owed, Spoke, Bridge!Ended, Bridge!TypeOK
  <2>3. Held => Unanswered # Owed
    BY DEF Held, Holds, Bridge!Ended
  <2>4. Cardinality(Unanswered) <= Cardinality(Spoke)
    <3>1. /\ Cardinality(Unanswered) \in Nat /\ Cardinality(Owed) \in Nat
          /\ Cardinality(Spoke) \in Nat
          /\ Cardinality(Unanswered) <= Cardinality(Owed)
          /\ Unanswered # Owed => Cardinality(Unanswered) < Cardinality(Owed)
      BY <2>2, MessagesCounted
    <3> QED
      BY <2>3, <3>1 DEF DebtInv, DebtBounded
  <2>5. \A S : Bridge!Cardinality(S) = Cardinality(S)
    BY DEF Bridge!Cardinality, Cardinality
  <2> QED
    BY <2>4, <2>5 DEF TakenNotLost, Bridge!TakenNotLost, Spoke
<1> QED
  BY <1>1, DebtInit, DebtStep, PTL DEF Bridge!Spec

----------------------------------------------------------------------------
(* The run MCRuns checks the registry, the connectors and the bridge as    *)
(* parts that share nothing: each of its behaviours is one of each of them.*)
LEMMA EachPart == MCSpec => Spec /\ Bridge!Spec /\ Connector!Spec
<1> DEFINE all == <<part, vars, connectorVars, bridgeVars>>
<1>1. MCInit => Init /\ Bridge!Init /\ Connector!Init
  BY DEF MCInit
<1>2. [MCNext]_all => [Next]_vars /\ [Bridge!Next]_(Bridge!vars) /\ [Connector!Next]_(Connector!vars)
  BY DEF MCNext, Creates, Callbacks, Connectors, Bridging, vars, rows, connectorVars, bridgeVars,
     Connector!vars, Connector!sessions, Connector!jobs, Connector!ghosts, Bridge!vars, Bridge!entries
<1> QED
  BY <1>1, <1>2, PTL DEF MCSpec, Spec, Bridge!Spec, Connector!Spec

(* What the run checks of the registry and of the bridge in every state.   *)
THEOREM RunsHold == MCSpec => [](RegistryHolds /\ BridgeHolds /\ TakenNotLost)
BY EachPart, RegistryHoldsAlways, BridgeHoldsAlways, TakenNotLostHolds, PTL
============================================================================
