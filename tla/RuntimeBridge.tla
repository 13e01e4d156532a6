------------------------------ MODULE RuntimeBridge ------------------------------
(***************************************************************************)
(* The bridge that runs a chat turn as a command-line child process        *)
(* (Claude Code, Codex and Hermes have one each, built alike). It keeps    *)
(* one entry per thread; the handlers of a child keep the entry they were  *)
(* started with, and find the entry to answer for by its thread. A Stop    *)
(* gives the entry up at once, but the timer of the child it stopped is    *)
(* cleared only by the child's close: it may ring before. This is one      *)
(* thread: entries of other threads never meet.                            *)
(***************************************************************************)
EXTENDS Integers, FiniteSets

CONSTANTS
  MaxRuns,  \* messages the thread receives: the bound of the model
  None

BridgeAssumption == MaxRuns \in Nat \ {0} /\ None \notin 1 .. 2 * MaxRuns

Runs == 1 .. MaxRuns

\* The entry a message is accepted with is r; when it is gone by the time the
\* child is spawned, another one is made.
Second(r) == MaxRuns + r
Entries == 1 .. 2 * MaxRuns

VARIABLES
  slot,              \* the entry of the thread in activeRuns
  child, killed,     \* each entry: whose child it has, killed,
  terminalPosted,    \*   terminalPosted
  pc, timer, entry,  \* each run: where it is, its timeout, the entry its
                     \*   handlers hold
  cancelled,         \* the runs a person stopped
  terminals          \* terminal callbacks posted with the identity of a run

entries == <<child, killed, terminalPosted>>
vars == <<slot, entries, pc, timer, entry, cancelled, terminals>>

TypeOK ==
  /\ slot \in Entries \cup {None}
  /\ child \in [Entries -> Runs \cup {None}]
  /\ killed \in [Entries -> BOOLEAN]
  /\ terminalPosted \in [Entries -> BOOLEAN]
  /\ pc \in [Runs -> {"new", "refused", "context", "running", "closed"}]
  /\ timer \in [Runs -> BOOLEAN]
  /\ entry \in [Runs -> Entries \cup {None}]
  /\ cancelled \subseteq Runs
  /\ terminals \in [Runs -> 0 .. 2]

Init ==
  /\ slot = None
  /\ child = [e \in Entries |-> None]
  /\ killed = [e \in Entries |-> FALSE]
  /\ terminalPosted = [e \in Entries |-> FALSE]
  /\ pc = [r \in Runs |-> "new"]
  /\ timer = [r \in Runs |-> FALSE]
  /\ entry = [r \in Runs |-> None]
  /\ cancelled = {}
  /\ terminals = [r \in Runs |-> 0]
-------------------------------------------------------------------------------
Go(r, p) == pc' = [pc EXCEPT ![r] = p]

\* postTerminalOnce: the entry is looked up by thread.
PostTerminalOnce(r) ==
  IF slot = None \/ terminalPosted[slot]
  THEN UNCHANGED <<slot, terminalPosted, terminals>>
  ELSE /\ terminalPosted' = [terminalPosted EXCEPT ![slot] = TRUE]
       /\ terminals' = [terminals EXCEPT ![r] = @ + 1]
       /\ slot' = None

\* Mutant: the busy check looks for a child that has been spawned.
InboundUnlessSpawned(r) ==
  /\ pc[r] = "new" /\ \A q \in 1 .. (r - 1) : pc[q] # "new"
  /\ IF slot # None /\ child[slot] # None
     THEN Go(r, "refused") /\ UNCHANGED slot
     ELSE Go(r, "context") /\ slot' = r
  /\ UNCHANGED <<entries, timer, entry, cancelled, terminals>>

\* handleInbound: one run per thread, 409 to the next.
Inbound(r) ==
  /\ pc[r] = "new" /\ \A q \in 1 .. (r - 1) : pc[q] # "new"
  /\ IF slot # None
     THEN Go(r, "refused") /\ UNCHANGED slot
     ELSE Go(r, "context") /\ slot' = r
  /\ UNCHANGED <<entries, timer, entry, cancelled, terminals>>

\* startClaudeRun, once the context pack has come or has failed to.
Spawn(r) ==
  /\ pc[r] = "context"
  /\ slot # None => ~killed[slot]
  /\ LET e == IF slot = None THEN Second(r) ELSE slot IN
       /\ slot' = e
       /\ child' = [child EXCEPT ![e] = r]
       /\ entry' = [entry EXCEPT ![r] = e]
  /\ timer' = [timer EXCEPT ![r] = TRUE]
  /\ Go(r, "running")
  /\ UNCHANGED <<killed, terminalPosted, cancelled, terminals>>

\* It was stopped while the context pack was fetched.
NeverSpawn(r) ==
  /\ pc[r] = "context" /\ slot # None /\ killed[slot]
  /\ slot' = None
  /\ Go(r, "closed")
  /\ UNCHANGED <<entries, timer, entry, cancelled, terminals>>

SpawnThrows(r) ==
  /\ pc[r] = "context"
  /\ slot # None => ~killed[slot]
  /\ PostTerminalOnce(r)
  /\ Go(r, "closed")
  /\ UNCHANGED <<child, killed, timer, entry, cancelled>>

\* Mutant: the timer kills the child and leaves the answer to its close.
TimesOutQuietly(r) ==
  /\ pc[r] = "running" /\ timer[r]
  /\ timer' = [timer EXCEPT ![r] = FALSE]
  /\ killed' = [killed EXCEPT ![entry[r]] = TRUE]
  /\ UNCHANGED <<slot, child, terminalPosted, pc, entry, cancelled, terminals>>

\* The timeout rings for any child that has not closed, a stopped one too.
TimesOut(r) ==
  /\ pc[r] = "running" /\ timer[r]
  /\ timer' = [timer EXCEPT ![r] = FALSE]
  /\ killed' = [killed EXCEPT ![entry[r]] = TRUE]
  /\ PostTerminalOnce(r)
  /\ UNCHANGED <<child, pc, entry, cancelled>>

\* The child's "error" event: it could not be started, which is known in the
\* tick of the spawn and before any Stop.
SpawnFails(r) ==
  /\ pc[r] = "running" /\ timer[r] /\ r \notin cancelled
  /\ timer' = [timer EXCEPT ![r] = FALSE]
  /\ killed' = [killed EXCEPT ![entry[r]] = TRUE]
  /\ PostTerminalOnce(r)
  /\ Go(r, "closed")
  /\ UNCHANGED <<child, entry, cancelled>>

\* The child's "close" event, with an answer or a failure.
Closes(r) ==
  /\ pc[r] = "running"
  /\ timer' = [timer EXCEPT ![r] = FALSE]
  /\ IF killed[entry[r]] \/ terminalPosted[entry[r]]
     THEN UNCHANGED <<slot, terminalPosted, terminals>>
     ELSE PostTerminalOnce(r)
  /\ Go(r, "closed")
  /\ UNCHANGED <<child, killed, entry, cancelled>>

\* The turns a Stop is for: those that wait or work under the entry.
Stopped == {r \in Runs : pc[r] \in {"context", "running"} /\ slot \in {r, entry[r]}}

\* A Stop, as a /stop message or a call of /sancho/cancel.
CancelThread ==
  /\ slot # None
  /\ killed' = [killed EXCEPT ![slot] = TRUE]
  /\ cancelled' = cancelled \cup Stopped
  /\ slot' = IF child[slot] = None THEN slot ELSE None
  /\ UNCHANGED <<child, terminalPosted, pc, timer, entry, terminals>>
-------------------------------------------------------------------------------
RunStep(r) ==
  \/ Spawn(r) \/ NeverSpawn(r) \/ SpawnThrows(r) \/ TimesOut(r)
  \/ SpawnFails(r) \/ Closes(r)

Next ==
  \/ \E r \in Runs : Inbound(r) \/ RunStep(r)
  \/ CancelThread

Spec == Init /\ [][Next]_vars

\* The context pack comes or times out, a child ends or its timer rings and it
\* is killed.
FairSpec == Spec /\ \A r \in Runs : WF_vars(RunStep(r))
-------------------------------------------------------------------------------
(* Properties *)

Ended(r) == pc[r] = "closed" /\ r \notin cancelled

\* No turn has spoken after it was stopped.
StopsAreSilent == \A q \in cancelled : terminals[q] = 0

\* Of everything that can end a turn (its end, its timeout, a child that never
\* started, a Stop beside any of them), one answers for it, and never twice.
OneTerminalPerRun == \A r \in Runs : terminals[r] <= 1

\* A turn that was accepted and has ended has been answered for, unless a person
\* stopped it or the timer of a stopped one has rung: Mission Control waits for
\* nothing else.
EndedWasAnswered == StopsAreSilent => \A r \in Runs : Ended(r) => terminals[r] = 1

\* Two children never work on one thread unless the first was told to die, again
\* as long as no timer of a stopped turn has rung.
OneChildPerThread ==
  StopsAreSilent =>
    \A q, r \in Runs :
      (q # r /\ pc[q] = "running" /\ pc[r] = "running")
        => killed[entry[q]] \/ killed[entry[r]]

\* Answers are taken, never lost: for every turn that ended without one, some
\* stopped turn has spoken in place of another.
TakenNotLost ==
  Cardinality({r \in Runs : Ended(r) /\ terminals[r] = 0})
    <= Cardinality({q \in cancelled : terminals[q] > 0})

\* The thread is free again and again: a message is not refused for ever.
ThreadFrees == []<>(slot = None)
===============================================================================
