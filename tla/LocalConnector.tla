------------------------------ MODULE LocalConnector ------------------------------
(***************************************************************************)
(* The queue between Mission Control and the connectors that people run    *)
(* on their own computers: sessions that are paired, seen, expired and     *)
(* revoked; turns that are queued while some session is online, claimed    *)
(* by polling, handed to the bridge of that computer and reported back.    *)
(* A call of the store is one synchronous read, change and rename of a     *)
(* file; between the calls a connector loses responses and dies. All       *)
(* sessions are of one provider: they never see the jobs of another.       *)
(***************************************************************************)
EXTENDS Integers, FiniteSets

CONSTANTS
  Sessions, None,
  MaxJobs,     \* bounds of the model: turns queued, claims of a job that go
  MaxReopens,  \*   stale under a slow connector, lost requests and responses
  MaxFaults    \*   and connectors that die

ConnectorAssumption ==
  /\ MaxJobs \in Nat \ {0} /\ MaxReopens \in Nat /\ MaxFaults \in Nat
  /\ None \notin Sessions \cup 1 .. MaxJobs
  /\ IsFiniteSet(Sessions)

Jobs == 1 .. MaxJobs

VARIABLES
  session,           \* status of each session
  late,              \* sessions whose pairing has run out
  seen, works,       \* sessions seen of late; whose command-line tool works
  job, owner, stale, \* each job: status, connectorSessionId, claimed long ago
  pc, hand,          \* each connector: where it is and the job it carries
  taken,             \* how often a bridge has taken the job
  takers,            \* the sessions whose bridge has
  told,              \* jobs whose thread was told that they could not be run
  reopens, faults

sessions == <<session, seen, works>>
jobs == <<job, owner, stale>>
ghosts == <<taken, takers, told>>
vars == <<sessions, jobs, late, pc, hand, ghosts, reopens, faults>>

Finished == {"dispatched", "failed"}
\* Besides the slow ones, a claim is lost by a fault or with its session.
MaxOpens == MaxReopens + MaxFaults + Cardinality(Sessions)

TypeOK ==
  /\ session \in [Sessions -> {"pending", "connected", "revoked"}]
  /\ late \subseteq Sessions /\ seen \subseteq Sessions /\ works \subseteq Sessions
  /\ job \in [Jobs -> {"none", "refused", "pending", "claimed"} \cup Finished]
  /\ owner \in [Jobs -> Sessions \cup {None}]
  /\ stale \subseteq Jobs
  /\ pc \in [Sessions -> {"off", "detect", "poll", "send", "dispatched", "failed",
                          "notify"}]
  /\ hand \in [Sessions -> Jobs \cup {None}]
  /\ taken \in [Jobs -> 0 .. MaxOpens + 1]
  /\ takers \in [Jobs -> SUBSET Sessions]
  /\ told \subseteq Jobs
  /\ reopens \in [Jobs -> 0 .. MaxOpens]
  /\ faults \in 0 .. MaxFaults

Init ==
  /\ session = [s \in Sessions |-> "pending"]
  /\ late = {} /\ seen = {} /\ works = Sessions
  /\ job = [j \in Jobs |-> "none"]
  /\ owner = [j \in Jobs |-> None]
  /\ stale = {}
  /\ pc = [s \in Sessions |-> "off"]
  /\ hand = [s \in Sessions |-> None]
  /\ taken = [j \in Jobs |-> 0]
  /\ takers = [j \in Jobs |-> {}]
  /\ told = {}
  /\ reopens = [j \in Jobs |-> 0]
  /\ faults = 0
-------------------------------------------------------------------------------
At(s, p) == pc[s] = p
Go(s, p) == pc' = [pc EXCEPT ![s] = p]
On(s) == pc[s] \notin {"off", "detect"}
Carried(j) == \E s \in Sessions : hand[s] = j

\* authenticateLocalConnectorToken, before every call of a connector. The status
\* "expired" is that of a pending session that is late.
Authentic(s) == session[s] # "revoked" /\ s \notin late

\* What heartbeat and claim ask for: it does not matter when it was last seen.
Connected(s) == session[s] = "connected" /\ s \notin late

\* localConnectorSessionOnline: it does not matter that it is late.
Online(s) == session[s] = "connected" /\ s \in seen /\ s \in works

Register(s, ok) ==
  /\ session' = [session EXCEPT ![s] = "connected"]
  /\ seen' = seen \cup {s}
  /\ works' = IF ok THEN works \cup {s} ELSE works \ {s}

\* The connector is started: it registers before it looks for the tool.
Start(s) ==
  /\ At(s, "off") /\ Authentic(s)
  /\ Register(s, TRUE)
  /\ Go(s, "detect")
  /\ UNCHANGED <<jobs, late, hand, ghosts, reopens, faults>>

\* It registers what it has found, and goes on if tool and bridge are there.
Detect(s) ==
  /\ At(s, "detect")
  /\ IF ~Authentic(s) THEN Go(s, "off") /\ UNCHANGED sessions
     ELSE \/ Register(s, TRUE) /\ (Go(s, "poll") \/ Go(s, "off"))
          \/ Register(s, FALSE) /\ Go(s, "off")
  /\ UNCHANGED <<jobs, late, hand, ghosts, reopens, faults>>

Heartbeat(s) ==
  /\ On(s) /\ Connected(s)
  /\ seen' = seen \cup {s}
  /\ UNCHANGED <<session, works, jobs, late, pc, hand, ghosts, reopens, faults>>

Revoke(s) ==
  /\ session' = [session EXCEPT ![s] = "revoked"]
  /\ seen' = seen \ {s}
  /\ UNCHANGED <<works, jobs, late, pc, hand, ghosts, reopens, faults>>

\* enqueueLocalConnectorJob: 202 with a job, or 503.
Enqueue(j) ==
  /\ job[j] = "none" /\ \A i \in 1 .. (j - 1) : job[i] # "none"
  /\ job' = [job EXCEPT ![j] =
               IF \E s \in Sessions : Online(s) THEN "pending" ELSE "refused"]
  /\ UNCHANGED <<sessions, owner, stale, late, pc, hand, ghosts, reopens, faults>>

\* Mutant: a job that another session has claimed is open while it is unreported.
OpenUnreported(j) == job[j] \in {"pending", "claimed"}

Open(j) == job[j] = "pending" \/ j \in stale

\* Mutant: stale claims are not looked for.
ClaimPending(s, heard) ==
  /\ At(s, "poll") /\ Connected(s)
  /\ \E j \in Jobs :
       /\ job[j] = "pending" /\ \A i \in 1 .. (j - 1) : job[i] # "pending"
       /\ job' = [job EXCEPT ![j] = "claimed"]
       /\ owner' = [owner EXCEPT ![j] = s]
       /\ IF heard THEN Go(s, "send") /\ hand' = [hand EXCEPT ![s] = j]
                   ELSE UNCHANGED <<pc, hand>>
  /\ seen' = seen \cup {s}
  /\ faults' = IF heard THEN faults ELSE faults + 1
  /\ UNCHANGED <<session, works, stale, late, ghosts, reopens>>

\* claimLocalConnectorJob: the claims nobody has reported on for two minutes are
\* given up, and the oldest open job is claimed. The response may not be heard.
Claim(s, heard) ==
  /\ At(s, "poll") /\ Connected(s)
  /\ \E j \in Jobs :
       /\ Open(j) /\ \A i \in 1 .. (j - 1) : ~Open(i)
       /\ job' = [i \in Jobs |-> IF i = j THEN "claimed"
                                 ELSE IF i \in stale THEN "pending" ELSE job[i]]
       /\ owner' = [i \in Jobs |-> IF i = j THEN s
                                   ELSE IF i \in stale THEN None ELSE owner[i]]
       /\ IF heard THEN Go(s, "send") /\ hand' = [hand EXCEPT ![s] = j]
                   ELSE UNCHANGED <<pc, hand>>
  /\ reopens' = [i \in Jobs |-> reopens[i] + (IF i \in stale THEN 1 ELSE 0)]
  /\ stale' = {}
  /\ seen' = seen \cup {s}
  /\ faults' = IF heard THEN faults ELSE faults + 1
  /\ UNCHANGED <<session, works, late, ghosts>>

\* dispatchJob: the bridge takes the turn or refuses it.
Send(s) ==
  /\ At(s, "send")
  /\ \/ /\ taken' = [taken EXCEPT ![hand[s]] = @ + 1]
        /\ takers' = [takers EXCEPT ![hand[s]] = @ \cup {s}]
        /\ Go(s, "dispatched")
     \/ Go(s, "failed") /\ UNCHANGED <<taken, takers>>
  /\ UNCHANGED <<sessions, jobs, late, hand, told, reopens, faults>>

\* finishLocalConnectorJob finds the job under the session, whatever its status.
MayReport(s) == Authentic(s) /\ owner[hand[s]] = s

Finish(s, status) ==
  /\ job' = [job EXCEPT ![hand[s]] = status]
  /\ stale' = stale \ {hand[s]}
  /\ seen' = seen \cup {s}
  /\ UNCHANGED <<session, works, owner>>

Drop(s) == Go(s, "poll") /\ hand' = [hand EXCEPT ![s] = None]

\* A report is heard, or its response is lost, or the request never arrives.
ReportDispatched(s) ==
  /\ At(s, "dispatched")
  /\ \/ MayReport(s) /\ Finish(s, "dispatched") /\ Drop(s) /\ UNCHANGED faults
     \/ ~MayReport(s) /\ Go(s, "failed") /\ UNCHANGED <<sessions, jobs, hand, faults>>
     \/ /\ faults < MaxFaults /\ faults' = faults + 1
        /\ (MayReport(s) /\ Finish(s, "dispatched")) \/ UNCHANGED <<sessions, jobs>>
        /\ Go(s, "failed") /\ UNCHANGED hand
  /\ UNCHANGED <<late, ghosts, reopens>>

\* The failure of a report of failure is ignored.
ReportFailed(s) ==
  /\ At(s, "failed")
  /\ \/ MayReport(s) /\ Finish(s, "failed") /\ UNCHANGED faults
     \/ ~MayReport(s) /\ UNCHANGED <<sessions, jobs, faults>>
     \/ /\ faults < MaxFaults /\ faults' = faults + 1
        /\ UNCHANGED <<sessions, jobs>>
  /\ Go(s, "notify")
  /\ UNCHANGED <<late, hand, ghosts, reopens>>

\* postFailureWebhook
Notify(s) ==
  /\ At(s, "notify")
  /\ told' = told \cup {hand[s]}
  /\ Drop(s)
  /\ UNCHANGED <<sessions, jobs, late, taken, takers, reopens, faults>>

Quit(s) ==
  /\ ~At(s, "off") /\ faults < MaxFaults
  /\ faults' = faults + 1
  /\ Go(s, "off") /\ hand' = [hand EXCEPT ![s] = None]
  /\ UNCHANGED <<sessions, jobs, late, ghosts, reopens>>
-------------------------------------------------------------------------------
(* Time *)

\* Forty-five seconds without a call.
NotSeen(s) ==
  /\ seen' = seen \ {s}
  /\ UNCHANGED <<session, works, jobs, late, pc, hand, ghosts, reopens, faults>>

\* Two minutes since the claim. Slow connectors do not outrun MaxReopens.
GoesStale(j) ==
  /\ job[j] = "claimed"
  /\ Carried(j) => reopens[j] < MaxReopens
  /\ stale' = stale \cup {j}
  /\ UNCHANGED <<sessions, job, owner, late, pc, hand, ghosts, reopens, faults>>

\* A quarter of an hour since the pairing was created.
RunsOut(s) ==
  /\ late' = late \cup {s}
  /\ UNCHANGED <<sessions, jobs, pc, hand, ghosts, reopens, faults>>
-------------------------------------------------------------------------------
Step(s) ==
  Claim(s, TRUE) \/ Send(s) \/ ReportDispatched(s) \/ ReportFailed(s) \/ Notify(s)

Next ==
  \/ \E s \in Sessions :
       \/ Start(s) \/ Detect(s) \/ Step(s) \/ Heartbeat(s) \/ Revoke(s) \/ Quit(s)
       \/ faults < MaxFaults /\ Claim(s, FALSE)
       \/ NotSeen(s) \/ RunsOut(s)
  \/ \E j \in Jobs : Enqueue(j) \/ GoesStale(j)

Spec == Init /\ [][Next]_vars

\* A connector that is on goes on; the clock does.
FairSpec ==
  /\ Spec
  /\ \A s \in Sessions : WF_vars(Step(s))
  /\ \A j \in Jobs : WF_vars(~Carried(j) /\ GoesStale(j))
-------------------------------------------------------------------------------
(* Properties *)

\* A turn is run once for every time it was in the queue: two connectors, or one
\* that comes back, run it again only after its claim was given up as stale.
TakenOncePerClaim == \A j \in Jobs : taken[j] <= 1 + reopens[j]

\* A job recorded as dispatched was taken by the bridge of the session it is
\* recorded under, not by one that had lost the claim.
DispatchedWasTaken ==
  \A j \in Jobs : job[j] = "dispatched" => owner[j] \in takers[j]

\* A job that was reported on is never queued again.
FinishedStays ==
  [][\A j \in Jobs : job[j] \in Finished => job'[j] \in Finished]_vars

\* While some connector stays on and its pairing lasts, every job that was
\* accepted is reported on, whoever else claims jobs and dies or runs out.
JobsEnd ==
  <>[](\E s \in Sessions : On(s) /\ Connected(s))
    => \A j \in Jobs : job[j] \in {"pending", "claimed"} ~> job[j] \in Finished
===============================================================================
