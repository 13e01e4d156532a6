------------------------ MODULE SearchAdmissionProofs ------------------------
(***************************************************************************)
(* The admission of lead searches, for any processes, environments and     *)
(* callers.  What a caller was told on its way is old when it reaches the  *)
(* ledger; it may still be relied on because a run that is there stays,    *)
(* with its command; because a turn that has a command keeps it; and       *)
(* because a process that dies takes its callers with it, so that those    *)
(* that are left run in the environment and under the supervisor they met. *)
(***************************************************************************)
EXTENDS SearchAdmission, TLAPS

Statuses == {"absent", "queued", "running", "blocked", "done"}
Places   == {"away", "lookup", "rollout", "start", "gate", "claim", "sticky", "admit",
             "created", "replayed", "conflict", "refused"}
Sups     == [started : BOOLEAN, scan : {"no", "reading", "sees", "sees nothing"},
             succeeded : BOOLEAN, error : BOOLEAN, blocked : BOOLEAN]

LedgerTypes ==
  /\ run \in [Requests -> [command : Commands \cup {Nothing}, status : Statuses]]
  /\ turn \in [Turns -> [command : Commands \cup {Nothing}, stopped : BOOLEAN]]
  /\ \A q \in Requests : (run[q].status = "absent") = (run[q].command = Nothing)

ProcessTypes ==
  /\ env \in [Processes -> Booted] /\ sup \in [Processes -> Sups]
  /\ worker \in [Processes -> BOOLEAN]
  /\ \A p \in Processes : worker[p] \/ sup[p].succeeded \/ sup[p].scan # "no" => sup[p].started

CallerTypes == caller \in [Callers -> [at : Places, process : Processes]]

Has(c)    == Asked(c).status # "absent" /\ Asked(c).command = Asks[c].command
Admits(c) == env[Home(c)].rollout /\ env[Home(c)].boot

(* What a caller may rely on where it is.                                  *)
Relies(c) ==
  /\ caller[c].at \in {"start", "gate"} => Admits(c)
  /\ caller[c].at \in {"claim", "admit"} => Has(c) \/ (Admits(c) /\ sup[Home(c)].succeeded)
  /\ caller[c].at \in {"sticky", "created", "replayed"} => Has(c)
  /\ caller[c].at = "admit" /\ Asks[c].request \in Turns => turn[Asks[c].request].command = Asks[c].command

OneCreator ==
  \A c, d \in Callers : At(c, "created") /\ At(d, "created") /\ Asks[c].request = Asks[d].request => c = d

IInv == LedgerTypes /\ ProcessTypes /\ CallerTypes /\ (\A c \in Callers : Relies(c)) /\ OneCreator

-----------------------------------------------------------------------------
\* Nobody has called, and no process has started its supervisor.
LEMMA InitInv == Init => IInv
<1> SUFFICES ASSUME Init PROVE IInv
  OBVIOUS
<1>1. LedgerTypes
  BY DEF Init, LedgerTypes, Statuses
<1>2. ProcessTypes
  BY SearchAssumption DEF SearchAssumption, Init, ProcessTypes, Off, Sups, Booted
<1>3. CallerTypes /\ \A c \in Callers : caller[c].at = "away"
  <2>1. (CHOOSE p \in Processes : TRUE) \in Processes
    BY SearchAssumption DEF SearchAssumption
  <2> QED
    BY <2>1 DEF Init, CallerTypes, Places
<1>4. (\A c \in Callers : Relies(c)) /\ OneCreator
  BY <1>3 DEF Relies, OneCreator, At
<1> QED
  BY <1>1, <1>2, <1>3, <1>4 DEF IInv

(* Runs and the commands of turns stay; a scan that succeeded has.         *)
RunsStay  == \A q \in Requests : run[q].status # "absent" =>
               run'[q].status # "absent" /\ run'[q].command = run[q].command
TurnsStay == \A q \in Turns : turn[q].command # Nothing => turn'[q].command = turn[q].command
ScansStay == \A p \in Processes : sup[p].succeeded => sup'[p].succeeded

(* A caller that stays where it is may go on relying on what it did.       *)
LEMMA OthersRely ==
  ASSUME IInv, RunsStay, TurnsStay, ScansStay, env' = env, NEW c \in Callers, caller'[c] = caller[c]
  PROVE  Relies(c)'
<1>1. Asks[c].request \in Requests /\ Asks[c].command # Nothing /\ Home(c) \in Processes
  BY SearchAssumption DEF SearchAssumption, IInv, CallerTypes, Home, Nothing
<1>2. Has(c) => Has(c)'
  BY <1>1 DEF RunsStay, Has, Asked
<1>3. Home(c)' = Home(c) /\ (Admits(c) => Admits(c)')
  BY DEF Home, Admits
<1>4. sup[Home(c)].succeeded => sup'[Home(c)].succeeded
  BY <1>1 DEF ScansStay
<1>5. Asks[c].request \in Turns /\ turn[Asks[c].request].command = Asks[c].command
        => turn'[Asks[c].request].command = Asks[c].command
  BY <1>1 DEF TurnsStay
<1>6. Relies(c)
  BY DEF IInv
<1> QED
  BY <1>2, <1>3, <1>4, <1>5, <1>6 DEF Relies

\* A caller moves: the others rely on what they relied on, it relies on what its place asks.
LEMMA CallerMoves ==
  ASSUME IInv, LedgerTypes', ProcessTypes', RunsStay, TurnsStay, ScansStay, env' = env,
         NEW c \in Callers, NEW place \in Places, NEW p \in Processes,
         caller' = [caller EXCEPT ![c] = [at |-> place, process |-> p]],
         Relies(c)',
         place = "created" => \A d \in Callers : At(d, "created") => Asks[d].request # Asks[c].request
  PROVE  IInv'
<1>1. caller'[c] = [at |-> place, process |-> p] /\ \A d \in Callers : d # c => caller'[d] = caller[d]
  BY DEF IInv, CallerTypes
<1>2. CallerTypes'
  BY DEF IInv, CallerTypes
<1>3. \A d \in Callers : Relies(d)'
  BY <1>1, OthersRely
<1>4. OneCreator'
  BY <1>1 DEF IInv, OneCreator, At
<1> QED
  BY <1>2, <1>3, <1>4 DEF IInv

\* Nobody moves, and what the callers rely on stays.
LEMMA CallersStay ==
  ASSUME IInv, LedgerTypes', ProcessTypes', RunsStay, TurnsStay, ScansStay, env' = env, caller' = caller
  PROVE  IInv'
<1>1. CallerTypes' /\ OneCreator'
  BY DEF IInv, CallerTypes, OneCreator, At
<1>2. \A c \in Callers : Relies(c)'
  BY OthersRely
<1> QED
  BY <1>1, <1>2 DEF IInv

(* What does not change stays.                                             *)
LEMMA Unchanged ==
  ASSUME IInv
  PROVE  /\ run' = run => RunsStay
         /\ turn' = turn => TurnsStay
         /\ run' = run /\ turn' = turn => LedgerTypes'
         /\ sup' = sup => ScansStay
         /\ env' = env /\ sup' = sup /\ worker' = worker => ProcessTypes'
BY DEF IInv, RunsStay, TurnsStay, ScansStay, LedgerTypes, ProcessTypes

(* A supervisor whose record becomes another one.                          *)
LEMMA SupStep ==
  ASSUME IInv, env' = env, worker' = worker, NEW p \in Processes, NEW s \in Sups,
         sup' = [sup EXCEPT ![p] = s],
         worker[p] \/ s.succeeded \/ s.scan # "no" => s.started, sup[p].succeeded => s.succeeded
  PROVE  ProcessTypes' /\ ScansStay
<1>1. sup'[p] = s /\ \A o \in Processes : o # p => sup'[o] = sup[o]
  BY DEF IInv, ProcessTypes
<1>2. ScansStay
  BY <1>1 DEF ScansStay
<1>3. sup' \in [Processes -> Sups]
  BY DEF IInv, ProcessTypes
<1>4. ProcessTypes'
  BY <1>1, <1>3 DEF IInv, ProcessTypes
<1> QED
  BY <1>2, <1>4

\* A start, and the wake that follows, leave a supervisor started.
LEMMA StartStep ==
  ASSUME IInv, env' = env, worker' = worker, NEW p \in Processes, Start(p) \/ Wake(p)
  PROVE  ProcessTypes' /\ ScansStay
<1>1. sup[p] \in Sups /\ (worker[p] \/ sup[p].succeeded \/ sup[p].scan # "no" => sup[p].started)
  BY DEF IInv, ProcessTypes
<1>2. CASE sup' = sup
  BY <1>2, Unchanged
<1>3. CASE ~sup[p].started /\ sup' = [sup EXCEPT ![p] = Started]
  <2>1. Started \in Sups /\ Started.started
    BY DEF Started, Off, Sups
  <2> QED
    BY <1>1, <1>3, <2>1, SupStep
<1>4. CASE sup[p].started /\ \E scan \in {"no", "reading", "sees", "sees nothing"} : sup' = [sup EXCEPT ![p].scan = scan]
  <2>1. PICK scan \in {"no", "reading", "sees", "sees nothing"} : sup' = [sup EXCEPT ![p] = [sup[p] EXCEPT !.scan = scan]]
    BY <1>4
  <2> DEFINE s == [sup[p] EXCEPT !.scan = scan]
  <2>2. s \in Sups /\ s.started = sup[p].started /\ s.succeeded = sup[p].succeeded
    BY <1>1 DEF Sups
  <2> HIDE DEF s
  <2>3. sup' = [sup EXCEPT ![p] = s]
    BY <2>1 DEF s
  <2> QED
    BY <1>1, <1>4, <2>2, <2>3, SupStep
<1>5. CASE Start(p)
  BY <1>2, <1>3, <1>5 DEF Start
<1>6. CASE Wake(p)
  <2>1. CASE ~sup[p].started
    BY <1>5, <1>6, <2>1 DEF Wake
  <2>2. CASE sup[p].started
    <3>1. sup[p].scan \in {"no", "reading", "sees", "sees nothing"}
      BY <1>1 DEF Sups
    <3>2. sup' = [sup EXCEPT ![p].scan = IF sup[p].scan = "no" /\ ~worker[p] THEN "reading" ELSE sup[p].scan]
      BY <1>6, <2>2 DEF Wake
    <3> QED
      BY <1>4, <2>2, <3>1, <3>2
  <2> QED
    BY <2>1, <2>2
<1> QED
  BY <1>5, <1>6

\* What a move of a caller writes.
LEMMA GoIs ==
  ASSUME IInv, NEW c \in Callers, NEW place \in Places, Go(c, place)
  PROVE  /\ caller' = [caller EXCEPT ![c] = [at |-> place, process |-> Home(c)]]
         /\ caller'[c].at = place /\ Home(c)' = Home(c) /\ Home(c) \in Processes
<1>1. caller[c] \in [at : Places, process : Processes]
  BY DEF IInv, CallerTypes
<1>2. [caller[c] EXCEPT !.at = place] = [at |-> place, process |-> Home(c)] /\ Home(c) \in Processes
  BY <1>1 DEF Home
<1>3. caller' = [caller EXCEPT ![c] = [caller[c] EXCEPT !.at = place]]
  BY DEF Go
<1>4. caller' = [caller EXCEPT ![c] = [at |-> place, process |-> Home(c)]]
  BY <1>2, <1>3
<1>5. caller'[c] = [at |-> place, process |-> Home(c)]
  BY <1>4 DEF IInv, CallerTypes
<1> QED
  BY <1>2, <1>4, <1>5 DEF Home

(* A step that only reads, and sends its caller somewhere.                 *)
LEMMA ReadStep ==
  ASSUME IInv, UNCHANGED <<ledger, env, sup, worker>>, NEW c \in Callers, NEW place \in Places, Go(c, place),
         place # "created",
         place \in {"start", "gate"} => Admits(c),
         place \in {"claim", "admit"} => Has(c) \/ (Admits(c) /\ sup[Home(c)].succeeded),
         place \in {"sticky", "replayed"} => Has(c),
         place = "admit" => Asks[c].request \notin Turns
  PROVE  IInv'
<1>1. run' = run /\ turn' = turn /\ env' = env /\ sup' = sup /\ worker' = worker
  BY DEF ledger
<1>2. /\ caller' = [caller EXCEPT ![c] = [at |-> place, process |-> Home(c)]]
      /\ caller'[c].at = place /\ Home(c)' = Home(c) /\ Home(c) \in Processes
  BY GoIs
<1>3. Has(c)' = Has(c) /\ Admits(c)' = Admits(c) /\ sup'[Home(c)'].succeeded = sup[Home(c)].succeeded
  BY <1>1, <1>2 DEF Has, Admits, Asked
<1>4. Relies(c)'
  BY <1>2, <1>3 DEF Relies
<1> QED
  BY <1>1, <1>2, <1>4, Unchanged, CallerMoves

\* A caller asks: it begins at the lookup of its receipt, in some process.
LEMMA AskStep ==
  ASSUME IInv, NEW c \in Callers, Ask(c)
  PROVE  IInv'
<1>1. run' = run /\ turn' = turn /\ env' = env /\ sup' = sup /\ worker' = worker
  BY DEF Ask, ledger
<1>2. PICK p \in Processes : caller' = [caller EXCEPT ![c] = [at |-> "lookup", process |-> p]]
  BY DEF Ask
<1>3. caller'[c].at = "lookup"
  BY <1>2 DEF IInv, CallerTypes
<1>4. Relies(c)'
  BY <1>3 DEF Relies
<1> QED
  BY <1>1, <1>2, <1>4, Unchanged, CallerMoves DEF Places

\* The reads of a caller change nothing but its place.
LEMMA ReadsStep ==
  ASSUME IInv, NEW c \in Callers, Lookup(c) \/ Sticky(c) \/ Rollout(c) \/ Gate(c) \/ AskAgain(c)
  PROVE  IInv'
<1>1. UNCHANGED <<ledger, env, sup, worker>> /\ Relies(c)
  BY DEF Lookup, Sticky, Rollout, Gate, AskAgain, IInv
<1>2. CASE Lookup(c)
  <2>1. \/ Go(c, "rollout") \/ Go(c, "conflict")
        \/ Has(c) /\ Go(c, "sticky")
    BY <1>2 DEF Lookup, Has
  <2> QED
    BY <1>1, <2>1, ReadStep DEF Places
<1>3. CASE Sticky(c)
  <2>1. Has(c) /\ (Go(c, "claim") \/ Go(c, "replayed") \/ (Asks[c].request \notin Turns /\ Go(c, "admit")))
    BY <1>1, <1>3 DEF Sticky, At, Relies
  <2> QED
    BY <1>1, <2>1, ReadStep DEF Places
<1>4. CASE Rollout(c)
  <2>1. (Admits(c) /\ Go(c, "start")) \/ Go(c, "refused")
    BY <1>4 DEF Rollout, Admits
  <2> QED
    BY <1>1, <2>1, ReadStep DEF Places
<1>5. CASE Gate(c)
  <2>1. Admits(c) /\ ((sup[Home(c)].succeeded /\ Go(c, "claim")) \/ Go(c, "refused"))
    BY <1>1, <1>5 DEF Gate, At, Relies, Ready
  <2> QED
    BY <1>1, <2>1, ReadStep DEF Places
<1>6. CASE AskAgain(c)
  BY <1>1, <1>6, ReadStep DEF AskAgain, Places
<1> QED
  BY <1>2, <1>3, <1>4, <1>5, <1>6

\* A caller starts the supervisor of its process and goes on to the gate.
LEMMA StartWorkersStep ==
  ASSUME IInv, NEW c \in Callers, StartWorkers(c)
  PROVE  IInv'
<1>1. /\ run' = run /\ turn' = turn /\ env' = env /\ worker' = worker
      /\ Start(Home(c)) /\ Go(c, "gate") /\ Admits(c)
  BY DEF StartWorkers, ledger, At, IInv, Relies
<1>2. /\ caller' = [caller EXCEPT ![c] = [at |-> "gate", process |-> Home(c)]]
      /\ caller'[c].at = "gate" /\ Home(c)' = Home(c) /\ Home(c) \in Processes
  BY <1>1, GoIs DEF Places
<1>3. ProcessTypes' /\ ScansStay
  BY <1>1, <1>2, StartStep
<1>4. Relies(c)'
  BY <1>1, <1>2 DEF Relies, Admits
<1> QED
  BY <1>1, <1>2, <1>3, <1>4, Unchanged, CallerMoves DEF Places

(* claimExecutionOriginCommand: a turn that had a command keeps it.        *)
LEMMA ClaimStep ==
  ASSUME IInv, NEW c \in Callers, Claim(c)
  PROVE  IInv'
<1> DEFINE q == Asks[c].request
           x == Asks[c].command
<1>1. run' = run /\ env' = env /\ sup' = sup /\ worker' = worker /\ Relies(c) /\ caller[c].at = "claim"
  BY DEF Claim, At, IInv
<1>2. q \in Requests /\ x # Nothing /\ x \in Commands /\ Home(c) \in Processes
  BY SearchAssumption DEF SearchAssumption, Nothing, Commands, IInv, CallerTypes, Home
<1>3. (~env[Home(c)].boot => Has(c)) /\ (Has(c) \/ (Admits(c) /\ sup[Home(c)].succeeded))
  BY <1>1 DEF Relies, Admits
<1>4. CASE turn' = turn /\ (Go(c, "refused") \/ Go(c, "conflict") \/ (q \notin Turns /\ Go(c, "admit")))
  BY <1>1, <1>3, <1>4, ReadStep DEF Places, ledger
<1>5. CASE /\ q \in Turns /\ turn[q].command \in {Nothing, x} /\ turn' = [turn EXCEPT ![q].command = x]
           /\ Go(c, IF env[Home(c)].boot THEN "admit" ELSE "replayed")
  <2>1. turn[q] \in [command : Commands \cup {Nothing}, stopped : BOOLEAN]
    BY <1>5 DEF IInv, LedgerTypes
  <2> DEFINE t == [turn[q] EXCEPT !.command = x]
  <2>2. t \in [command : Commands \cup {Nothing}, stopped : BOOLEAN] /\ t.command = x
    BY <1>2, <2>1
  <2>3. turn' = [turn EXCEPT ![q] = t]
    BY <1>5
  <2> HIDE DEF t
  <2>4. turn'[q] = t /\ \A r \in Turns : r # q => turn'[r] = turn[r]
    BY <1>5, <2>3 DEF IInv, LedgerTypes
  <2>5. LedgerTypes'
    BY <1>1, <2>2, <2>3 DEF IInv, LedgerTypes
  <2>6. TurnsStay
    BY <1>5, <2>2, <2>4 DEF TurnsStay
  <2> DEFINE place == IF env[Home(c)].boot THEN "admit" ELSE "replayed"
  <2>7. place \in {"admit", "replayed"} /\ (place = "replayed" => Has(c)) /\ Go(c, place)
    BY <1>3, <1>5
  <2> HIDE DEF place
  <2>8. /\ caller' = [caller EXCEPT ![c] = [at |-> place, process |-> Home(c)]]
        /\ caller'[c].at = place /\ Home(c)' = Home(c)
    BY <2>7, GoIs DEF Places
  <2>9. Has(c)' = Has(c) /\ Admits(c)' = Admits(c) /\ sup'[Home(c)'].succeeded = sup[Home(c)].succeeded
    BY <1>1, <2>8 DEF Has, Admits, Asked
  <2>10. Relies(c)'
    BY <1>3, <2>2, <2>4, <2>7, <2>8, <2>9 DEF Relies
  <2> QED
    BY <1>1, <1>2, <2>5, <2>6, <2>7, <2>8, <2>10, Unchanged, CallerMoves DEF Places
<1> QED
  BY <1>4, <1>5 DEF Claim

(* The ledger creates the run of a request that has none, or answers from  *)
(* the one that is there.                                                  *)
LEMMA AdmitStep ==
  ASSUME IInv, NEW c \in Callers, Admit(c)
  PROVE  IInv'
<1> DEFINE q == Asks[c].request
           x == Asks[c].command
<1>1. turn' = turn /\ env' = env /\ worker' = worker /\ Relies(c) /\ caller[c].at = "admit"
  BY DEF Admit, At, IInv
<1>2. q \in Requests /\ x # Nothing /\ x \in Commands /\ Home(c) \in Processes
  BY SearchAssumption DEF SearchAssumption, Nothing, Commands, IInv, CallerTypes, Home
<1>3. CASE run' = run /\ sup' = sup /\ (Go(c, "refused") \/ Go(c, "conflict"))
  BY <1>1, <1>3, ReadStep DEF Places, ledger
<1>4. CASE Has(c) /\ run' = run /\ Go(c, "replayed") /\ Wake(Home(c))
  <2>1. /\ caller' = [caller EXCEPT ![c] = [at |-> "replayed", process |-> Home(c)]]
        /\ caller'[c].at = "replayed" /\ Home(c)' = Home(c)
    BY <1>4, GoIs DEF Places
  <2>2. ProcessTypes' /\ ScansStay
    BY <1>1, <1>2, <1>4, StartStep
  <2>3. Relies(c)'
    BY <1>4, <2>1 DEF Relies, Has, Asked
  <2> QED
    BY <1>1, <1>2, <1>4, <2>1, <2>2, <2>3, Unchanged, CallerMoves DEF Places
<1>5. CASE /\ run[q].status = "absent" /\ run' = [run EXCEPT ![q] = [command |-> x, status |-> "queued"]]
           /\ Go(c, "created") /\ Wake(Home(c))
  <2>1. /\ caller' = [caller EXCEPT ![c] = [at |-> "created", process |-> Home(c)]]
        /\ caller'[c].at = "created" /\ Home(c)' = Home(c)
    BY <1>5, GoIs DEF Places
  <2>2. ProcessTypes' /\ ScansStay
    BY <1>1, <1>2, <1>5, StartStep
  <2> DEFINE n == [command |-> x, status |-> "queued"]
  <2>3. n \in [command : Commands \cup {Nothing}, status : Statuses] /\ n.command = x /\ n.status = "queued"
    BY <1>2 DEF Statuses
  <2>4. run' = [run EXCEPT ![q] = n]
    BY <1>5
  <2> HIDE DEF n
  <2>5. run'[q] = n /\ \A r \in Requests : r # q => run'[r] = run[r]
    BY <1>2, <2>4 DEF IInv, LedgerTypes
  <2>6. LedgerTypes'
    BY <1>1, <1>2, <2>3, <2>4, <2>5 DEF IInv, LedgerTypes
  <2>7. RunsStay
    BY <1>5, <2>5 DEF RunsStay
  <2>8. Relies(c)'
    BY <2>1, <2>3, <2>5 DEF Relies, Has, Asked
  <2>9. \A d \in Callers : At(d, "created") => Asks[d].request # q
    BY <1>5 DEF IInv, Relies, Has, Asked, At
  <2> QED
    BY <1>1, <1>2, <2>1, <2>2, <2>6, <2>7, <2>8, <2>9, Unchanged, CallerMoves DEF Places
<1> QED
  BY <1>3, <1>4, <1>5 DEF Admit, Asked, Has

-----------------------------------------------------------------------------
(* What is not a caller's.                                                 *)

(* A run whose status moves, of a request that has one.                    *)
LEMMA RunMoves ==
  ASSUME IInv, NEW q \in Requests, NEW s \in Statuses, run' = [run EXCEPT ![q].status = s],
         s = "absent" <=> run[q].status = "absent"
  PROVE  /\ run' \in [Requests -> [command : Commands \cup {Nothing}, status : Statuses]]
         /\ \A r \in Requests : (run'[r].status = "absent") = (run'[r].command = Nothing)
         /\ RunsStay
<1>1. run[q] \in [command : Commands \cup {Nothing}, status : Statuses]
  BY DEF IInv, LedgerTypes
<1> DEFINE n == [run[q] EXCEPT !.status = s]
<1>2. n \in [command : Commands \cup {Nothing}, status : Statuses] /\ n.status = s /\ n.command = run[q].command
  BY <1>1
<1>3. run' = [run EXCEPT ![q] = n]
  OBVIOUS
<1> HIDE DEF n
<1>4. run'[q] = n /\ \A r \in Requests : r # q => run'[r] = run[r]
  BY <1>3 DEF IInv, LedgerTypes
<1>5. run' \in [Requests -> [command : Commands \cup {Nothing}, status : Statuses]]
  BY <1>2, <1>3 DEF IInv, LedgerTypes
<1>6. \A r \in Requests : (run'[r].status = "absent") = (run'[r].command = Nothing)
  BY <1>2, <1>4 DEF IInv, LedgerTypes
<1>7. RunsStay
  BY <1>2, <1>4 DEF RunsStay
<1> QED
  BY <1>5, <1>6, <1>7

\* Workers and operators change the status of a run that exists, never its command.
LEMMA WorkStep ==
  ASSUME IInv, NEW q \in Requests, (\E p \in Processes : Serve(p, q)) \/ Block(q) \/ ResumeRun(q)
  PROVE  IInv'
<1>1. PICK s \in {"queued", "running", "done", "blocked"} : run' = [run EXCEPT ![q].status = s]
  BY DEF Serve, Block, ResumeRun, Become
<1>2. run[q].status # "absent"
  BY DEF Serve, Block, ResumeRun, Become
<1>3. turn' = turn /\ env' = env /\ sup' = sup /\ worker' = worker /\ caller' = caller
  BY DEF Serve, Block, ResumeRun
<1>4. LedgerTypes' /\ RunsStay
  BY <1>1, <1>2, <1>3, RunMoves DEF Statuses, IInv, LedgerTypes
<1> QED
  BY <1>3, <1>4, Unchanged, CallersStay

\* A Stop ends queued runs of its turn and marks the turn, for good.
LEMMA StopStep ==
  ASSUME IInv, NEW q \in Turns, Stop(q)
  PROVE  IInv'
<1>1. /\ turn' = [turn EXCEPT ![q] = [turn[q] EXCEPT !.stopped = TRUE]]
      /\ run' = [run EXCEPT ![q].status = IF run[q].status = "queued" THEN "done" ELSE run[q].status]
      /\ env' = env /\ sup' = sup /\ worker' = worker /\ caller' = caller
  BY DEF Stop
<1>2. q \in Requests
  BY SearchAssumption DEF SearchAssumption
<1> DEFINE s == IF run[q].status = "queued" THEN "done" ELSE run[q].status
<1>3. s \in Statuses /\ (s = "absent" <=> run[q].status = "absent")
  BY <1>2 DEF IInv, LedgerTypes, Statuses
<1>4. run' = [run EXCEPT ![q].status = s]
  BY <1>1
<1> HIDE DEF s
<1>5. turn[q] \in [command : Commands \cup {Nothing}, stopped : BOOLEAN]
  BY DEF IInv, LedgerTypes
<1> DEFINE t == [turn[q] EXCEPT !.stopped = TRUE]
<1>6. t \in [command : Commands \cup {Nothing}, stopped : BOOLEAN] /\ t.command = turn[q].command
  BY <1>5
<1>7. turn' = [turn EXCEPT ![q] = t]
  BY <1>1
<1> HIDE DEF t
<1>8. turn'[q] = t /\ \A r \in Turns : r # q => turn'[r] = turn[r]
  BY <1>7 DEF IInv, LedgerTypes
<1>9. turn' \in [Turns -> [command : Commands \cup {Nothing}, stopped : BOOLEAN]] /\ TurnsStay
  BY <1>6, <1>7, <1>8 DEF IInv, LedgerTypes, TurnsStay
<1>10. LedgerTypes' /\ RunsStay
  BY <1>2, <1>3, <1>4, <1>9, RunMoves DEF LedgerTypes
<1> QED
  BY <1>1, <1>9, <1>10, Unchanged, CallersStay

(* The steps of a supervisor, with the workers a scan leaves.              *)
LEMMA SuperviseStep ==
  ASSUME IInv, NEW p \in Processes, Supervise(p) \/ FailScan(p)
  PROVE  IInv'
<1>1. /\ run' = run /\ turn' = turn /\ env' = env /\ caller' = caller
  BY DEF Supervise, FailScan, Boot, BeginScan, ReadScopes, EndScan, ledger
<1>2. sup[p] \in Sups /\ (worker[p] \/ sup[p].succeeded \/ sup[p].scan # "no" => sup[p].started)
  BY DEF IInv, ProcessTypes
<1>3. ASSUME NEW s \in Sups, sup' = [sup EXCEPT ![p] = s], worker' \in [Processes -> BOOLEAN],
             \A o \in Processes : o # p => worker'[o] = worker[o],
             worker'[p] \/ s.succeeded \/ s.scan # "no" => s.started, sup[p].succeeded => s.succeeded
      PROVE  IInv'
  <2>1. sup'[p] = s /\ \A o \in Processes : o # p => sup'[o] = sup[o]
    BY <1>3 DEF IInv, ProcessTypes
  <2>2. sup' \in [Processes -> Sups]
    BY <1>3 DEF IInv, ProcessTypes
  <2>3. ProcessTypes' /\ ScansStay
    BY <1>1, <1>3, <2>1, <2>2 DEF IInv, ProcessTypes, ScansStay
  <2> QED
    BY <1>1, <2>3, Unchanged, CallersStay
<1>4. ASSUME NEW s \in Sups, sup' = [sup EXCEPT ![p] = s], worker' = worker, s.started = sup[p].started,
             s.scan # "no" => s.started, s.succeeded = sup[p].succeeded
      PROVE  IInv'
  BY <1>2, <1>3, <1>4 DEF IInv, ProcessTypes
<1>5. CASE Boot(p)
  <2>1. run' = run /\ turn' = turn /\ env' = env /\ worker' = worker /\ caller' = caller /\ Start(p)
    BY <1>5 DEF Boot, ledger
  <2> QED
    BY <2>1, StartStep, Unchanged, CallersStay
<1>6. CASE BeginScan(p) \/ ReadScopes(p)
  <2>1. PICK scan \in {"reading", "sees", "sees nothing"} : sup' = [sup EXCEPT ![p] = [sup[p] EXCEPT !.scan = scan]]
    BY <1>6 DEF BeginScan, ReadScopes
  <2> DEFINE s == [sup[p] EXCEPT !.scan = scan]
  <2>2. s \in Sups /\ s.started = sup[p].started /\ s.succeeded = sup[p].succeeded
    BY <1>2 DEF Sups
  <2>3. sup[p].started /\ worker' = worker
    BY <1>2, <1>6 DEF BeginScan, ReadScopes
  <2> HIDE DEF s
  <2>4. sup' = [sup EXCEPT ![p] = s]
    BY <2>1 DEF s
  <2> QED
    BY <1>4, <2>2, <2>3, <2>4
<1>7. CASE EndScan(p)
  <2> DEFINE s == [sup[p] EXCEPT !.scan = "no", !.succeeded = TRUE, !.error = FALSE,
                                 !.blocked = \E q \in Requests : run[q].status = "blocked"]
  <2>1. s \in Sups /\ s.started = sup[p].started /\ s.succeeded /\ sup' = [sup EXCEPT ![p] = s]
    BY <1>2, <1>7 DEF EndScan, Sups
  <2>2. sup[p].started
    BY <1>2, <1>7 DEF EndScan
  <2> HIDE DEF s
  <2>3. PICK keeps \in BOOLEAN : worker' = [worker EXCEPT ![p] = sup[p].scan = "sees" \/ (worker[p] /\ keeps)]
    BY <1>7 DEF EndScan
  <2>4. worker' \in [Processes -> BOOLEAN] /\ \A o \in Processes : o # p => worker'[o] = worker[o]
    BY <2>3, Zenon DEF IInv, ProcessTypes
  <2> QED
    BY <1>3, <2>1, <2>2, <2>4
<1>8. CASE FailScan(p)
  <2> DEFINE s == [sup[p] EXCEPT !.scan = "no", !.error = TRUE]
  <2>1. s \in Sups /\ s.started = sup[p].started /\ s.succeeded = sup[p].succeeded /\ s.scan = "no"
    BY <1>2 DEF Sups
  <2>2. sup' = [sup EXCEPT ![p] = s] /\ worker' = worker
    BY <1>8 DEF FailScan
  <2> HIDE DEF s
  <2> QED
    BY <1>4, <2>1, <2>2
<1> QED
  BY <1>5, <1>6, <1>7, <1>8 DEF Supervise

(* A process dies with its callers: those that had their answer keep it,   *)
(* and the others come again.                                              *)
LEMMA DieStep ==
  ASSUME IInv, NEW p \in Processes, Die(p)
  PROVE  IInv'
<1>1. run' = run /\ turn' = turn
  BY DEF Die, ledger
<1>2. PICK e \in Environments : env' = [env EXCEPT ![p] = e]
  BY DEF Die
<1>3. sup' = [sup EXCEPT ![p] = Off] /\ worker' = [worker EXCEPT ![p] = FALSE]
  BY DEF Die
<1>4. ProcessTypes'
  <2>1. e \in Booted /\ Off \in Sups /\ ~Off.succeeded /\ Off.scan = "no"
    BY SearchAssumption DEF SearchAssumption, Booted, Off, Sups
  <2>2. env' \in [Processes -> Booted] /\ sup' \in [Processes -> Sups] /\ worker' \in [Processes -> BOOLEAN]
    BY <1>2, <1>3, <2>1 DEF IInv, ProcessTypes
  <2>3. /\ sup'[p] = Off /\ ~worker'[p]
        /\ \A o \in Processes : o # p => sup'[o] = sup[o] /\ worker'[o] = worker[o]
    BY <1>3 DEF IInv, ProcessTypes
  <2> QED
    BY <2>1, <2>2, <2>3 DEF IInv, ProcessTypes
<1>5. \A c \in Callers :
        caller'[c] = IF Home(c) = p /\ caller[c].at \notin {"created", "replayed", "conflict", "refused"}
                     THEN [caller[c] EXCEPT !.at = "away"] ELSE caller[c]
  BY DEF Die
<1>6. CallerTypes'
  BY <1>5 DEF Die, IInv, CallerTypes, Places
<1>7. ASSUME NEW c \in Callers
      PROVE  /\ caller'[c].at = "away" \/ caller'[c] = caller[c]
             /\ Home(c) = p /\ caller'[c].at # "away" => caller[c].at \in {"away", "created", "replayed", "conflict", "refused"}
  BY <1>5 DEF IInv, CallerTypes
<1>8. ASSUME NEW c \in Callers PROVE Relies(c)'
  <2>1. CASE caller'[c].at = "away"
    BY <2>1 DEF Relies
  <2>2. CASE caller'[c].at # "away" /\ caller'[c] = caller[c] /\ Home(c) = p
    BY <1>1, <1>7, <2>2 DEF IInv, Relies, Has, Asked
  <2>3. CASE caller'[c] = caller[c] /\ Home(c) # p
    <3>1. Home(c) \in Processes /\ Home(c)' = Home(c)
      BY <2>3 DEF IInv, CallerTypes, Home
    <3>2. env'[Home(c)] = env[Home(c)] /\ sup'[Home(c)] = sup[Home(c)]
      BY <1>2, <1>3, <2>3, <3>1 DEF IInv, ProcessTypes
    <3> QED
      BY <1>1, <2>3, <3>1, <3>2 DEF IInv, Relies, Has, Admits, Asked
  <2> QED
    BY <1>7, <2>1, <2>2, <2>3
<1>9. OneCreator'
  BY <1>7 DEF IInv, OneCreator, At
<1>10. LedgerTypes'
  BY <1>1 DEF IInv, LedgerTypes
<1> QED
  BY <1>4, <1>6, <1>8, <1>9, <1>10 DEF IInv

-----------------------------------------------------------------------------
\* Every step keeps the invariant.
LEMMA Inductive == IInv /\ [Next]_vars => IInv'
<1> SUFFICES ASSUME IInv, [Next]_vars PROVE IInv'
  OBVIOUS
<1>1. CASE UNCHANGED vars
  BY <1>1, Unchanged, CallersStay DEF vars
<1>2. ASSUME NEW c \in Callers, Ask(c) \/ Request(c) \/ AskAgain(c) PROVE IInv'
  BY <1>2, AskStep, ReadsStep, StartWorkersStep, ClaimStep, AdmitStep DEF Request
<1>3. ASSUME NEW p \in Processes, Supervise(p) \/ FailScan(p) \/ Die(p) PROVE IInv'
  BY <1>3, SuperviseStep, DieStep
<1>4. ASSUME NEW q \in Requests, (\E p \in Processes : Serve(p, q)) \/ Block(q) \/ ResumeRun(q) PROVE IInv'
  BY <1>4, WorkStep
<1>5. ASSUME NEW q \in Turns, Stop(q) PROVE IInv'
  BY <1>5, StopStep
<1> QED
  BY <1>1, <1>2, <1>3, <1>4, <1>5 DEF Next

\* The invariant holds at all times.
LEMMA Invariant == Spec => []IInv
BY InitInv, Inductive, PTL DEF Spec

(* Ledger, processes and callers keep their types; a process has workers   *)
(* only under a supervisor that was started.                               *)
THEOREM TypesHold == Spec => []TypeOK
<1>1. IInv => TypeOK
  BY DEF IInv, LedgerTypes, ProcessTypes, CallerTypes, Statuses, Places, Sups, TypeOK
<1> QED
  BY <1>1, Invariant, PTL

(* admitLeadsSearch: a receipt is for the caller's own search, and of the  *)
(* callers with one id one at most has created it.                         *)
THEOREM ReceiptsHold == Spec => []ReceiptsAreTheCallersOwn
<1>1. IInv => ReceiptsAreTheCallersOwn
  BY DEF IInv, Relies, Has, OneCreator, ReceiptsAreTheCallersOwn
<1> QED
  BY <1>1, Invariant, PTL

(* A run comes from an Admit, of a caller that relies on what it has       *)
(* passed.                                                                 *)
LEMMA Created ==
  ASSUME IInv, Next, NEW q \in Requests, run[q].status = "absent", run'[q].status # "absent"
  PROVE  \E c \in Callers : Admit(c) /\ Asks[c].request = q
<1>1. run[q] \in [command : Commands \cup {Nothing}, status : Statuses]
  BY DEF IInv, LedgerTypes
<1>2. ASSUME NEW r \in Requests, NEW s, run[r].status # "absent" \/ s = "absent", run' = [run EXCEPT ![r].status = s] PROVE FALSE
  BY <1>1, <1>2 DEF IInv, LedgerTypes
<1>3. ASSUME NEW r \in Requests, (\E p \in Processes : Serve(p, r)) \/ Block(r) \/ ResumeRun(r) PROVE FALSE
  BY <1>2, <1>3 DEF Serve, Block, ResumeRun, Become
<1>4. ASSUME NEW r \in Turns, Stop(r) PROVE FALSE
  <2>1. r \in Requests
    BY SearchAssumption DEF SearchAssumption
  <2>2. run' = [run EXCEPT ![r].status = IF run[r].status = "queued" THEN "done" ELSE run[r].status]
    BY <1>4 DEF Stop
  <2> QED
    BY <1>2, <2>1, <2>2
<1>5. run' # run
  OBVIOUS
<1>6. PICK c \in Callers : Admit(c)
  BY <1>3, <1>4, <1>5 DEF Next, Ask, Request, AskAgain, Lookup, Sticky, Rollout, StartWorkers, Gate, Claim,
       Supervise, Boot, BeginScan, ReadScopes, EndScan, FailScan, Die, ledger
<1>7. Asks[c].request = q
  <2>1. run' = [run EXCEPT ![Asks[c].request] = [command |-> Asks[c].command, status |-> "queued"]]
    BY <1>5, <1>6 DEF Admit
  <2> QED
    BY <2>1 DEF IInv, LedgerTypes
<1> QED
  BY <1>6, <1>7

(* claimExecutionOriginCommand and createRunWithTrustedOrigin: a turn      *)
(* creates the search it claimed, and none after its Stop.                 *)
THEOREM TurnCreatesItsClaimHolds == Spec => TurnCreatesItsClaim
<1> DEFINE Good == \A q \in Turns : run[q].status = "absent" /\ run'[q].status # "absent" =>
                      ~turn[q].stopped /\ run'[q].command = turn[q].command
<1>1. IInv /\ [Next]_vars => [Good]_vars
  <2> SUFFICES ASSUME IInv, Next, NEW q \in Turns, run[q].status = "absent", run'[q].status # "absent"
               PROVE  ~turn[q].stopped /\ run'[q].command = turn[q].command
    BY DEF vars
  <2>1. q \in Requests
    BY SearchAssumption DEF SearchAssumption
  <2>2. PICK c \in Callers : Admit(c) /\ Asks[c].request = q
    BY <2>1, Created
  <2>3. turn[q].command = Asks[c].command
    BY <2>2 DEF Admit, At, IInv, Relies
  <2>4. run' # run
    OBVIOUS
  <2>5. ~Stopped(q) /\ run' = [run EXCEPT ![q] = [command |-> Asks[c].command, status |-> "queued"]]
    BY <2>2, <2>4 DEF Admit, Asked
  <2>6. run'[q].command = Asks[c].command
    BY <2>1, <2>5 DEF IInv, LedgerTypes
  <2> QED
    BY <2>3, <2>5, <2>6 DEF Stopped
<1> QED
  BY <1>1, Invariant, PTL DEF Spec, TurnCreatesItsClaim

(* ensureDefaultAdmissionReadiness: nobody is told it created a run but in *)
(* a process with the rollout, the worker and a scan that succeeded.       *)
THEOREM CreatedBehindGateHolds == Spec => CreatedBehindGate
<1> DEFINE Good == \A c \in Callers : ~At(c, "created") /\ caller'[c].at = "created" =>
                      env[Home(c)].rollout /\ env[Home(c)].boot /\ sup[Home(c)].succeeded
<1>1. IInv /\ [Next]_vars => [Good]_vars
  <2> SUFFICES ASSUME IInv, Next, NEW c \in Callers, caller[c].at # "created", caller'[c].at = "created"
               PROVE  env[Home(c)].rollout /\ env[Home(c)].boot /\ sup[Home(c)].succeeded
    BY DEF vars, At
  <2>1. ASSUME NEW d \in Callers, NEW place \in Places \ {"created"}, Go(d, place) PROVE FALSE
    BY <2>1, GoIs DEF Go, IInv, CallerTypes
  <2>2. ASSUME NEW d \in Callers, Go(d, "created") PROVE d = c
    BY <2>2 DEF Go, IInv, CallerTypes
  <2>3. ASSUME NEW d \in Callers, Ask(d) PROVE FALSE
    BY <2>3 DEF Ask, IInv, CallerTypes
  <2>4. ASSUME NEW p \in Processes, Die(p) PROVE FALSE
    BY <2>4 DEF Die, IInv, CallerTypes
  <2>5. caller' # caller
    OBVIOUS
  <2>6. ASSUME NEW d \in Callers, (Request(d) \/ AskAgain(d)) /\ ~Admit(d) PROVE FALSE
    BY <2>1, <2>6 DEF Request, AskAgain, Lookup, Sticky, Rollout, StartWorkers, Gate, Claim, Places
  <2>7. PICK d \in Callers : Admit(d)
    BY <2>3, <2>4, <2>5, <2>6 DEF Next, Request, Serve, Block, ResumeRun, Stop, Supervise, Boot, BeginScan, ReadScopes,
         EndScan, FailScan
  <2>8. Asked(d).status = "absent" /\ d = c
    BY <2>1, <2>2, <2>7 DEF Admit, Places
  <2> QED
    BY <2>7, <2>8 DEF Admit, At, IInv, Relies, Has, Admits
<1> QED
  BY <1>1, Invariant, PTL DEF Spec, CreatedBehindGate

(* A run is created behind the gate, and only as its turn claimed it.      *)
THEOREM CreatedAsClaimedHolds == Spec => CreatedAsClaimed
BY CreatedBehindGateHolds, TurnCreatesItsClaimHolds DEF CreatedAsClaimed

(* Callers, supervisors and the turn keep their types, and each receipt is *)
(* the caller's own.                                                       *)
THEOREM AnswersHoldAlways == Spec => []AnswersHold
BY TypesHold, ReceiptsHold, PTL DEF AnswersHold
============================================================================
