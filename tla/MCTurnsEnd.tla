------------------------------- MODULE MCTurnsEnd -------------------------------
(***************************************************************************)
(* That every chat turn ends: a durable one (AgentTurn) and two direct     *)
(* ones of one thread (DirectTurn). They share no state, so a behaviour is *)
(* one of one of them; the other stays as it began.                        *)
(***************************************************************************)
EXTENDS AgentTurn

CONSTANTS t1, k1, MaxRuns, Keys, MaxTries, MaxPosts, MaxLosses, MaxTroubles

VARIABLES
  part,    \* the kind of turn
  key, row, directPrints, directCards, notices, marker,
  req, try, cb, inFlight, directStop,
  hand, admission, turn, post, says, turns,
  losses, crashes, deaths, stops

directVars == <<key, row, directPrints, directCards, notices, marker, req, try, cb,
                inFlight, directStop, hand, admission, turn, post, says, turns,
                losses, crashes, deaths, stops>>

Direct == INSTANCE DirectTurn WITH
  prints <- directPrints, cards <- directCards, stop <- directStop

ASSUME Direct!DirectAssumption

MCInit == part \in {"durable", "direct"} /\ Init /\ Direct!Init

\* The tokens are alike: a claim takes t1 when nobody acts with it. There is one
\* fault, or a transport that breaks.
Durable ==
  /\ part = "durable"
  /\ mc[t1] = Quiet /\ worker[t1] = "idle" =>
       \A t \in Tokens \ {t1} : mc[t].claim = "idle" => mc'[t].claim = "idle"
  /\ faults' = MaxFaults \/ \A t \in Tokens : ~retried'[t]
  /\ UNCHANGED <<part, directVars>>

\* One Stop or one lost message, and no process dies. The keys are alike: the
\* first run has the first.
Directly ==
  /\ part = "direct" /\ losses' + stops' <= 1 /\ crashes' = 0 /\ deaths' = 0
  /\ key'[1] \in {None, k1}
  /\ UNCHANGED <<part, vars>>

MCNext ==
  \/ part = "durable" /\ Next /\ Durable
  \/ part = "direct" /\ Direct!Next /\ Directly

MCSpec ==
  /\ MCInit /\ [][MCNext]_<<part, vars, directVars>>
  /\ \A t \in Tokens :
       /\ WF_vars(ClaimStep(t) /\ Durable)
       /\ WF_vars(StartedStep(t) /\ Durable)
       /\ WF_vars(RequeueStep(t) /\ Durable)
       /\ WF_vars(CallbackStep(t) /\ Durable)
       /\ WF_vars(CompleteStep(t) /\ Durable)
       /\ WF_vars(PluginStep(t) /\ Durable)
  /\ WF_vars((\E t \in Tokens : Claim(t)) /\ Durable)
  /\ WF_vars(AttemptOver /\ LeaseExpires /\ Durable)
  /\ WF_vars(ChildSettles /\ Durable)
  /\ WF_vars(StopStep /\ Durable)
  /\ WF_vars(StopAgain /\ Durable)
  /\ \A r \in 1 .. MaxRuns :
       /\ WF_directVars(Direct!Request(r) /\ Directly)
       /\ WF_directVars(Direct!Handler(r) /\ Directly)
       /\ WF_directVars(Direct!Turn(r) /\ Directly)
       /\ WF_directVars(Direct!StopStep(r) /\ Directly)
       /\ \A k \in 1 .. MaxPosts : WF_directVars(Direct!Callback(r, k) /\ Directly)
-------------------------------------------------------------------------------
\* Every turn ends once faults stop: a durable one in the ledger and for its
\* reader; a direct one, stopped or not, when no process dies and not every post
\* is lost, unless it had nothing to say or the mark of a Stop took its reply.
TurnsEnd ==
  /\ part = "durable" => TurnSettles
  /\ part = "direct" => Direct!RunsEnd
===============================================================================
