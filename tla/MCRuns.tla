--------------------------------- MODULE MCRuns ---------------------------------
(***************************************************************************)
(* Who answers for a turn that was accepted: the registry of runs          *)
(* (PostgresRuns: clients that create, then callbacks that are claimed),   *)
(* the queue of the local connectors (LocalConnector) and the bridge that  *)
(* runs a child process (RuntimeBridge). They share no state, so a         *)
(* behaviour is one of one of them; the others stay as they began.         *)
(***************************************************************************)
EXTENDS PostgresRuns

CONSTANTS
  c1, c2, i1, i2, i3, s1, s2, None,
  MaxMessages,                       \* bound: messages of the bridge's thread
  MaxJobs, MaxReopens, ConnectorFaults  \* bounds of the connectors' queue

VARIABLES
  part,    \* the component that moves
  session, late, seen, works, job, owner, stale, step, hand, taken, takers,
  notified, reopens, faultsC,
  slot, child, killed, terminalPosted, place, timer, entry, cancelled, terminals

connectorVars == <<session, late, seen, works, job, owner, stale, step, hand, taken,
                   takers, notified, reopens, faultsC>>
bridgeVars == <<slot, child, killed, terminalPosted, place, timer, entry, cancelled,
                terminals>>

Connector == INSTANCE LocalConnector WITH
  Sessions <- {s1, s2}, MaxFaults <- ConnectorFaults, pc <- step, told <- notified,
  faults <- faultsC

Bridge == INSTANCE RuntimeBridge WITH
  MaxRuns <- MaxMessages, pc <- place

ASSUME ConnectorIs == Connector!ConnectorAssumption
ASSUME BridgeIs == Bridge!BridgeAssumption

MCClients == {c1, c2}
MCIds == {i1, i2, i3}

MCInit ==
  /\ part \in {"creates", "callbacks", "connector", "bridge"}
  /\ Init /\ Connector!Init /\ Bridge!Init

\* No callback is claimed and every Stop cancels at once: both are in "callbacks".
Creates ==
  /\ part = "creates" /\ accepted' = accepted
  /\ \A i \in Ids : EventOf["cancelled"] \in events'[i] => status'[i] = "cancelled"
  /\ UNCHANGED <<part, connectorVars, bridgeVars>>

\* One client, and room for the two runs it may create.
Callbacks ==
  /\ part = "callbacks" /\ at'[c2] = "idle" /\ status'[i3] = "none"
  /\ UNCHANGED <<part, connectorVars, bridgeVars>>

Connectors == part = "connector" /\ UNCHANGED <<part, vars, bridgeVars>>
Bridging == part = "bridge" /\ UNCHANGED <<part, vars, connectorVars>>

MCNext ==
  \/ Next /\ (Creates \/ Callbacks)
  \/ Connectors /\ Connector!Next
  \/ Bridging /\ Bridge!Next

MCSpec ==
  /\ MCInit /\ [][MCNext]_<<part, vars, connectorVars, bridgeVars>>
  /\ \A c \in Clients :
       /\ WF_vars(part = "creates" /\ Create(c) /\ Creates)
       /\ WF_vars(part = "creates" /\ (\E k \in Keys : Call(c, k)) /\ Creates)
  /\ \A s \in {s1, s2} : WF_connectorVars(Connectors /\ Connector!Step(s))
  /\ WF_connectorVars(Connectors /\ ~Connector!Carried(1) /\ Connector!GoesStale(1))
  /\ \A r \in 1 .. MaxMessages : WF_bridgeVars(Bridging /\ Bridge!RunStep(r))
-------------------------------------------------------------------------------
\* Children that exit, time out, are stopped or never start: no turn is answered
\* for twice; and until the timer of a stopped turn rings, each is answered for
\* unless a person stopped it, and two children work on one thread only when the
\* first was told to die.
BridgeHolds ==
  /\ Bridge!TypeOK /\ Bridge!OneTerminalPerRun
  /\ Bridge!EndedWasAnswered /\ Bridge!OneChildPerThread

\* When the timer of a stopped turn does ring, it takes the answer of one other
\* turn at most: no more turns end without a word than stopped ones have spoken.
TakenNotLost == Bridge!TakenNotLost

\* What was accepted ends: every call of a key gets a receipt, whatever its runs
\* do meanwhile; a job is reported on while some connector stays on; and the
\* thread of a bridge is free again some day.
AcceptedEnds ==
  /\ part = "creates" => CreateEnds
  /\ part = "connector" => Connector!JobsEnd
  /\ part = "bridge" => Bridge!ThreadFrees
===============================================================================
