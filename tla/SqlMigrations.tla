--------------------------- MODULE SqlMigrations ---------------------------
(***************************************************************************)
(* scripts/lib/tracked-sql-migrations.mjs: the runner that applies the SQL *)
(* migrations of the execution ledger, or adopts a database whose schema   *)
(* already has them.  A run is a preflight transaction and then one        *)
(* transaction for each migration (apply) or one for all (adopt); every    *)
(* transaction takes the same advisory lock.  Two deploys may run at once, *)
(* with files that differ; a deploy may die anywhere, or lose the answer   *)
(* to its COMMIT; an operator may repair or break the schema by hand and   *)
(* drop the tracking table while no runner is in a transaction.            *)
(***************************************************************************)
EXTENDS Integers, FiniteSets, TLC

CONSTANTS
  Runners,      \* the processes that run the set of migrations
  Migrations,   \* the set is 1 .. Migrations, in the order of the descriptors
  Adopters,     \* the runners started with --adopt
  Strays,       \* the runners whose file of one migration was edited
  Edited,       \* that migration
  MaxFaults,    \* bound: deaths, lost answers and timeouts together
  MaxTouches    \* bound: what an operator does by hand

ASSUME MigrationsAssumption ==
  /\ Migrations \in Nat \ {0} /\ Edited \in 1 .. Migrations
  /\ Adopters \subseteq Runners /\ Strays \subseteq Runners /\ "free" \notin Runners
  /\ MaxFaults \in Nat /\ MaxTouches \in Nat

VARIABLES
  schema,   \* what the verifier of each migration reports of the committed catalog
  table,    \* whether the tracking table exists
  tracked,  \* the checksum of each tracking row, NoRow where there is none
  lock,     \* who holds the advisory lock, Free when nobody does
  at,       \* where each runner is
  next,     \* the migration each runner is at
  found,    \* what an open preflight has found so far
  faults, touches,
  executed, \* for checking: committed executions of each migration's SQL
  touched,  \* for checking: migrations whose schema was changed by hand
  dropped   \* for checking: whether the tracking table was ever dropped

db   == <<schema, table, tracked>>
vars == <<schema, table, tracked, lock, at, next, found, faults, touches, executed, touched, dropped>>

Set  == 1 .. Migrations
Free == "free"
NoRow == "none"

(* The checksum of the file a runner brings along.                         *)
Checksum(r, m) == IF r \in Strays /\ m = Edited THEN "edited" ELSE "file"

States == {"absent", "partial", "applied"}
Places == {"idle", "preflight", "inspect", "between", "tracked", "run", "verify", "adopt", "commit", "done", "refused", "retry"}

(* The transactions in which a runner may be, and those whose writes an    *)
(* operator has to wait for: the SQL has locked what it changed.           *)
InTransaction == {"preflight", "inspect", "tracked", "run", "verify", "adopt", "commit"}

TypeOK ==
  /\ schema \in [Set -> States] /\ table \in BOOLEAN
  /\ tracked \in [Set -> {NoRow, "file", "edited"}]
  /\ lock \in Runners \cup {Free}
  /\ at \in [Runners -> Places] /\ next \in [Runners -> 1 .. Migrations + 1]
  /\ found \in [Runners -> SUBSET States]
  /\ faults \in 0 .. MaxFaults /\ touches \in 0 .. MaxTouches
  /\ executed \in [Set -> Nat] /\ touched \subseteq Set /\ dropped \in BOOLEAN
  /\ \A r \in Runners : at[r] \in InTransaction \ {"preflight"} => lock = r
  /\ ~table => \A m \in Set : tracked[m] = NoRow

(* The database may have a first part of the set, from before the table.   *)
Init ==
  /\ \E n \in 0 .. Migrations : schema = [m \in Set |-> IF m <= n THEN "applied" ELSE "absent"]
  /\ table = FALSE /\ tracked = [m \in Set |-> NoRow] /\ lock = Free
  /\ at = [r \in Runners |-> "idle"] /\ next = [r \in Runners |-> 1]
  /\ found = [r \in Runners |-> {}]
  /\ faults = 0 /\ touches = 0
  /\ executed = [m \in Set |-> 0] /\ touched = {} /\ dropped = FALSE

Go(r, place) == at' = [at EXCEPT ![r] = place]
Observed == UNCHANGED <<faults, touches, executed, touched, dropped>>

(* Mutant: the lock is the session's and stays with a runner that ended.   *)
EndLocked(r, place, i) ==
  /\ Go(r, place) /\ lock' = IF place = "refused" THEN lock ELSE Free
  /\ next' = [next EXCEPT ![r] = i] /\ found' = [found EXCEPT ![r] = {}]

(* The transaction ends, with or without its writes, and so does the lock. *)
End(r, place, i) ==
  /\ Go(r, place) /\ lock' = Free
  /\ next' = [next EXCEPT ![r] = i] /\ found' = [found EXCEPT ![r] = {}]

Drifts(r, m) == tracked[m] \notin {NoRow, Checksum(r, m)}

(* A run starts, or is started again after a timeout or a death.           *)
Start(r) ==
  /\ at[r] \in {"idle", "retry"}
  /\ Go(r, "preflight")
  /\ UNCHANGED <<db, lock, next, found>> /\ Observed

----------------------------------------------------------------------------
(* preflightMigrations.                                                    *)

(* The lock, and every known checksum before anything is inspected.        *)
Check(r) ==
  /\ at[r] = "preflight" /\ lock = Free
  /\ IF \E m \in Set : Drifts(r, m)
     THEN End(r, "refused", 1)
     ELSE lock' = r /\ Go(r, "inspect") /\ next' = [next EXCEPT ![r] = 1] /\ UNCHANGED found
  /\ UNCHANGED db /\ Observed

Acceptable(r) == IF r \in Adopters THEN {"applied"} ELSE {"absent"}

(* One migration is looked at: a tracked one is taken on trust, any other  *)
(* must be in the state this kind of run may start from.                   *)
Inspect(r) ==
  /\ at[r] = "inspect" /\ next[r] \in Set
  /\ LET m == next[r]
     IN \/ /\ tracked[m] # NoRow
           /\ next' = [next EXCEPT ![r] = m + 1] /\ UNCHANGED <<at, lock, found>>
        \/ /\ tracked[m] = NoRow /\ schema[m] \in Acceptable(r)
           /\ next' = [next EXCEPT ![r] = m + 1]
           /\ found' = [found EXCEPT ![r] = @ \cup {schema[m]}]
           /\ UNCHANGED <<at, lock>>
        \/ /\ tracked[m] = NoRow /\ schema[m] \notin Acceptable(r)
           /\ End(r, "refused", 1)
  /\ UNCHANGED db /\ Observed

(* The tracking table is created only when the whole preflight has passed. *)
Pass(r) ==
  /\ at[r] = "inspect" /\ next[r] > Migrations
  /\ table' = (table \/ r \in Adopters \/ "absent" \in found[r])
  /\ End(r, "between", 1)
  /\ UNCHANGED <<schema, tracked>> /\ Observed

----------------------------------------------------------------------------
(* applyMigration.                                                         *)

(* Mutant: the next transaction trusts what the preflight found.           *)
OpenUnread(r) ==
  /\ at[r] = "between" /\ r \notin Adopters /\ next[r] \in Set /\ lock = Free
  /\ lock' = r /\ Go(r, "run") /\ UNCHANGED <<next, found>>
  /\ UNCHANGED db /\ Observed

(* Mutant: a tracking row is enough, whatever its checksum.                *)
OpenUnchecked(r) ==
  /\ at[r] = "between" /\ r \notin Adopters /\ next[r] \in Set /\ lock = Free
  /\ LET m == next[r]
     IN \/ /\ tracked[m] # NoRow
           /\ UNCHANGED table /\ End(r, "between", m + 1)
        \/ /\ tracked[m] = NoRow
           /\ UNCHANGED table /\ lock' = r /\ Go(r, "tracked") /\ UNCHANGED <<next, found>>
  /\ UNCHANGED <<schema, tracked>> /\ Observed

(* The lock and the tracking row: a row of the same file is skipped, one   *)
(* of another file stops the run, and a table that has gone is made again. *)
Open(r) ==
  /\ at[r] = "between" /\ r \notin Adopters /\ next[r] \in Set /\ lock = Free
  /\ LET m == next[r]
     IN \/ /\ Drifts(r, m)
           /\ UNCHANGED table /\ End(r, "refused", 1)
        \/ /\ tracked[m] = Checksum(r, m)
           /\ UNCHANGED table /\ End(r, "between", m + 1)
        \/ /\ tracked[m] = NoRow
           /\ UNCHANGED table /\ lock' = r /\ Go(r, "tracked") /\ UNCHANGED <<next, found>>
  /\ UNCHANGED <<schema, tracked>> /\ Observed

(* Only a schema that has nothing of the migration may run its SQL.        *)
InspectAgain(r) ==
  /\ at[r] = "tracked"
  /\ IF schema[next[r]] = "absent"
     THEN Go(r, "run") /\ UNCHANGED <<lock, next, found>>
     ELSE End(r, "refused", 1)
  /\ UNCHANGED db /\ Observed

(* The statements: they may need what the migrations before them made, and *)
(* those that say IF NOT EXISTS pass over what is there.  An edited file   *)
(* may make something else than its verifier expects.                      *)
Statements(r) ==
  /\ at[r] = "run"
  /\ LET m == next[r]
     IN \/ /\ \E made \in {"applied", "partial"} :
                /\ made = "partial" => Checksum(r, m) = "edited"
                /\ found' = [found EXCEPT ![r] = {made}]
           /\ Go(r, "verify") /\ UNCHANGED <<lock, next>>
        \/ /\ schema[m] # "absent" \/ (m > 1 /\ schema[m - 1] # "applied")
           /\ End(r, "refused", 1)
  /\ UNCHANGED db /\ Observed

(* The verifier has to report applied, seen inside the transaction.        *)
Postcondition(r) ==
  /\ at[r] = "verify"
  /\ IF found[r] = {"applied"}
     THEN Go(r, "commit") /\ UNCHANGED <<lock, next, found>>
     ELSE End(r, "refused", 1)
  /\ UNCHANGED db /\ Observed

(* Migration and tracking row become visible together.                     *)
Written(r) ==
  /\ \E made \in found[r] : schema' = [schema EXCEPT ![next[r]] = made]
  /\ table' = TRUE
  /\ tracked' = [tracked EXCEPT ![next[r]] = Checksum(r, next[r])]
  /\ executed' = [executed EXCEPT ![next[r]] = @ + 1]

Commit(r) ==
  /\ at[r] = "commit" /\ r \notin Adopters
  /\ Written(r) /\ End(r, "between", next[r] + 1)
  /\ UNCHANGED <<faults, touches, touched, dropped>>

----------------------------------------------------------------------------
(* adoptMigrations: the complete set is verified, then all rows written.   *)

AdoptOpen(r) ==
  /\ at[r] = "between" /\ r \in Adopters /\ next[r] \in Set /\ lock = Free
  /\ lock' = r /\ Go(r, "adopt") /\ next' = [next EXCEPT ![r] = 1]
  /\ UNCHANGED <<db, found>> /\ Observed

AdoptInspect(r) ==
  /\ at[r] = "adopt" /\ next[r] \in Set
  /\ LET m == next[r]
     IN IF \/ tracked[m] = Checksum(r, m)
           \/ tracked[m] = NoRow /\ schema[m] = "applied"
        THEN next' = [next EXCEPT ![r] = m + 1] /\ UNCHANGED <<at, lock, found>>
        ELSE End(r, "refused", 1)
  /\ UNCHANGED db /\ Observed

Baseline(r) ==
  /\ tracked' = [m \in Set |-> IF tracked[m] = NoRow THEN Checksum(r, m) ELSE tracked[m]]
  /\ table' = TRUE /\ UNCHANGED <<schema, executed>>

AdoptCommit(r) ==
  /\ at[r] = "adopt" /\ next[r] > Migrations
  /\ Baseline(r) /\ End(r, "done", 1)
  /\ UNCHANGED <<faults, touches, touched, dropped>>

(* Every migration of the set was applied or skipped.                      *)
Finish(r) ==
  /\ at[r] = "between" /\ next[r] > Migrations
  /\ Go(r, "done") /\ next' = [next EXCEPT ![r] = 1]
  /\ UNCHANGED <<db, lock, found>> /\ Observed

----------------------------------------------------------------------------
(* Faults and operators.                                                   *)

(* A statement times out, or the process dies: what is open is rolled back *)
(* and the deploy is started again.                                        *)
Fail(r) ==
  /\ faults < MaxFaults /\ at[r] \in InTransaction \cup {"between"}
  /\ faults' = faults + 1 /\ Go(r, "retry")
  /\ lock' = IF lock = r THEN Free ELSE lock
  /\ next' = [next EXCEPT ![r] = 1] /\ found' = [found EXCEPT ![r] = {}]
  /\ UNCHANGED <<db, touches, executed, touched, dropped>>

(* COMMIT takes effect and the connection breaks before its answer: the    *)
(* runner reports that the transaction was rolled back.                    *)
LoseAnswer(r) ==
  /\ faults < MaxFaults
  /\ \/ at[r] = "commit" /\ Written(r)
     \/ at[r] = "adopt" /\ next[r] > Migrations /\ Baseline(r)
  /\ faults' = faults + 1 /\ End(r, "retry", 1)
  /\ UNCHANGED <<touches, touched, dropped>>

(* An operator repairs, breaks or reverts what one migration made; the SQL *)
(* of a running migration holds the locks of what it changes.              *)
Touch(m) ==
  /\ touches < MaxTouches
  /\ ~\E r \in Runners : at[r] \in {"verify", "commit"} /\ next[r] = m
  /\ \E s \in States \ {schema[m]} : schema' = [schema EXCEPT ![m] = s]
  /\ touches' = touches + 1 /\ touched' = touched \cup {m}
  /\ UNCHANGED <<table, tracked, lock, at, next, found, faults, executed, dropped>>

(* The tracking table is dropped between two transactions.                 *)
DropTable ==
  /\ table /\ lock = Free /\ touches < MaxTouches
  /\ table' = FALSE /\ tracked' = [m \in Set |-> NoRow]
  /\ touches' = touches + 1 /\ dropped' = TRUE
  /\ UNCHANGED <<schema, lock, at, next, found, faults, executed, touched>>

Apply(r) == Open(r) \/ InspectAgain(r) \/ Statements(r) \/ Postcondition(r) \/ Commit(r)
Adopt(r) == AdoptOpen(r) \/ AdoptInspect(r) \/ AdoptCommit(r)
Run(r)   == Check(r) \/ Inspect(r) \/ Pass(r) \/ Apply(r) \/ Adopt(r) \/ Finish(r)

Next ==
  \/ \E r \in Runners : Start(r) \/ Run(r) \/ Fail(r) \/ LoseAnswer(r)
  \/ \E m \in Set : Touch(m)
  \/ DropTable

Spec == Init /\ [][Next]_vars

(* A runner that was started goes on; the lock is granted in the end, and  *)
(* a deploy that failed is started again.                                  *)
FairSpec == Spec /\ \A r \in Runners : WF_vars(Run(r)) /\ WF_vars(Start(r))

----------------------------------------------------------------------------
(* The SQL of a migration takes effect once, whatever deploys race, die or *)
(* are retried, even when an operator drops the tracking table: only one   *)
(* whose schema was changed by hand may run again.                         *)
ExecutedOnce == \A m \in Set \ touched : executed[m] <= 1

(* A row that is written stands for a schema the verifier called applied:  *)
(* the committed catalog has it, unless an operator changed it by hand.    *)
TrackedIsApplied == \A m \in Set \ touched : tracked[m] # NoRow => schema[m] = "applied"

(* Whatever deploys race and die: one history, of which the rows tell.     *)
HistoryHolds == TypeOK /\ ExecutedOnce /\ TrackedIsApplied

(* A runner writes a row only where the rows before it are of its own      *)
(* files: two deploys with different files never build one history.  The   *)
(* preflight saw another table, and each step checks one row only.         *)
OwnPrefix ==
  [][\A m \in Set : ~dropped /\ tracked[m] = NoRow /\ tracked'[m] # NoRow =>
       \E r \in Runners : /\ tracked'[m] = Checksum(r, m) /\ lock = r
                          /\ \A k \in 1 .. m - 1 : tracked'[k] = Checksum(r, k)]_vars

(* A runner that reports success leaves every migration of its set tracked *)
(* by its own checksum, and a schema for each: what the deploy relies on.  *)
DoneIsComplete ==
  [][\A r \in Runners : at[r] # "done" /\ at'[r] = "done" /\ ~dropped =>
       \A m \in Set : /\ tracked'[m] = Checksum(r, m)
                      /\ m \notin touched => schema'[m] = "applied"]_vars

(* What a runner relies on from one transaction to the next is still so    *)
(* when it writes the next row, and when it reports success.               *)
RunnersRely == OwnPrefix /\ DoneIsComplete

(* Every deploy is done or refused in the end.                             *)
RunnerEnds == \A r \in Runners : <>(at[r] \in {"done", "refused"})

=============================================================================
