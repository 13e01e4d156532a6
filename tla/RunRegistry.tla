---------------------------- MODULE RunRegistry ----------------------------
(***************************************************************************)
(* What the registry of agent runs promises its callers                    *)
(* (AgentRunsRepository, src/lib/data/agent-runs.ts): an idempotency key   *)
(* has one run that is open or completed, a run that has ended keeps its   *)
(* end, and a callback is accepted again only when enough newer ones have  *)
(* pushed it out.  It says nothing of statements, processes or storage.    *)
(***************************************************************************)
EXTENDS Integers, Sequences

CONSTANTS Ids, Keys, NoKey, Prints, Kept, MaxAccepted

VARIABLES status, key, accepted
vars == <<status, key, accepted>>

Active   == {"queued", "running"}
Terminal == {"completed", "failed", "cancelled"}
Winning  == Active \cup {"completed"}

Init ==
  /\ status = [i \in Ids |-> "none"] /\ key = [i \in Ids |-> NoKey]
  /\ accepted = [i \in Ids |-> <<>>]

Create(i, k) ==
  /\ status[i] = "none"
  /\ k # NoKey => \A j \in Ids : key[j] = k => status[j] \notin Winning
  /\ status' = [status EXCEPT ![i] = "queued"] /\ key' = [key EXCEPT ![i] = k]
  /\ UNCHANGED accepted

Move(i, s) ==
  /\ status[i] \in Active
  /\ status' = [status EXCEPT ![i] = s] /\ UNCHANGED <<key, accepted>>

(* A callback that is not among the last Kept that were accepted.          *)
Accept(i, p) ==
  /\ status[i] # "none"
  /\ \A n \in 1 .. Len(accepted[i]) : n > Len(accepted[i]) - Kept => accepted[i][n] # p
  /\ accepted' = [accepted EXCEPT ![i] = Append(@, p)] /\ UNCHANGED <<status, key>>

Next ==
  \/ \E i \in Ids, k \in Keys \cup {NoKey} : Create(i, k)
  \/ \E i \in Ids, s \in {"running"} \cup Terminal : Move(i, s)
  \/ \E i \in Ids, p \in Prints : Accept(i, p)

Spec == Init /\ [][Next]_vars

=============================================================================
