------------------------- MODULE MCSearchAdmission -------------------------
(***************************************************************************)
(* Four scenes of SearchAdmission: "turn", two agent calls of one chat     *)
(* turn that ask for different searches; "twice", three requests with one  *)
(* id, two of them for one search, while processes live and scans succeed; *)
(* "served", one request and two processes that may boot with the rollout  *)
(* withdrawn; "answered", a request and an agent call in the one process   *)
(* there is, with the rollout on.                                          *)
(***************************************************************************)
EXTENDS SearchAdmission

CONSTANTS p1, p2, a1, a2, h1, h2, h3, Scenes

VARIABLE scene

MCProcesses == {p1, p2}
AskedBy ==
  (a1 :> [request |-> "turn", command |-> "x"]) @@ (a2 :> [request |-> "turn", command |-> "y"])
  @@ (h1 :> [request |-> "id", command |-> "x"]) @@ (h2 :> [request |-> "id", command |-> "x"])
  @@ (h3 :> [request |-> "id", command |-> "y"])

On        == [boot |-> TRUE, rollout |-> TRUE]
Withdrawn == [boot |-> TRUE, rollout |-> FALSE]
Paused    == [boot |-> FALSE, rollout |-> TRUE]
AllEnvironments == {On, Withdrawn, Paused}

Present == [turn |-> {a1, a2}, twice |-> {h1, h2, h3}, served |-> {h1}, answered |-> {a1, h1}]

\* A step of the scene: who is not in it stays away, and so do the faults.
InScene ==
  /\ UNCHANGED scene
  /\ \A c \in Callers \ Present[scene] : caller'[c] = caller[c]
  /\ scene \in {"turn", "twice"} => blocks' = 0
  /\ scene = "twice" => deaths' = 0 /\ failed' = 0 /\ turn' = turn
  /\ scene = "served" => (\A p \in Processes : env'[p].boot) /\ turn' = turn
  /\ scene = "answered" =>
       /\ sup'[p2] = Off /\ env' = env
       /\ \A c \in {a1, h1} : caller'[c].at # "away" => Home(c)' = p1

MCInit ==
  /\ scene \in Scenes /\ Init
  /\ scene = "served" => \A p \in Processes : env[p].boot
  /\ scene = "answered" => \A p \in Processes : env[p] = On

MCNext == Next /\ InScene

MCVars == <<scene, vars>>
MCSpec == MCInit /\ [][MCNext]_MCVars

\* The fairness of FairSpec, for those who are in the scene.
MCFairSpec ==
  /\ MCSpec
  /\ \A p \in Processes : WF_vars(Supervise(p) /\ InScene)
  /\ \A q \in Requests : /\ SF_vars((\E p \in Processes : Serve(p, q)) /\ InScene)
                         /\ WF_vars(ResumeRun(q) /\ InScene)
  /\ \A c \in Callers : /\ WF_vars(Ask(c) /\ InScene) /\ WF_vars(Request(c) /\ InScene)
                        /\ WF_vars(AskAgain(c) /\ InScene)

----------------------------------------------------------------------------
\* With the rollout on everywhere, a caller that asks until it is answered is
\* answered, although scans fail, the process dies and runs are blocked.
AnsweredWhereOn == scene = "answered" => CallersAreAnswered

=============================================================================
