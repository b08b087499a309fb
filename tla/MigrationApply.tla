--------------------------- MODULE MigrationApply ---------------------------
(***************************************************************************)
(* ApplyMigrations of src/migrations/apply.go: processes ("runners") that  *)
(* each bring one database to a target migration version, against a        *)
(* database they share, with statement failures, lost answers and process  *)
(* deaths at every database call.                                          *)
(*                                                                         *)
(* Versions, registries and calls are those of MigrationTargets.           *)
(* Migration v consists of Stmts[v] statements: Up puts the items          *)
(* <<v, 1>>, <<v, 2>>, ... into effect in this order and Down takes them   *)
(* out in the opposite order, which is what the generated migrations do.   *)
(* A statement of Strict is refused by the database when its item already  *)
(* is as the statement would make it (CREATE of what exists, DROP of what  *)
(* does not); any other statement may be repeated.                         *)
(***************************************************************************)
EXTENDS MigrationTargets

CONSTANTS
  Runners,          \* processes that call ApplyMigrations
  Stmts,            \* statements per migration
  Strict,           \* statements the database refuses to repeat
  Requests,         \* the calls that may be made: see Request
  Exclusive,        \* TRUE: a call starts only when no other one is running
  MaxRuns           \* bound: number of calls in a behaviour

NoRow == -1    \* the version table has no row with id 1

\* The items of migration v, and of every migration up to v.
Content(v) == {v} \X (1 .. Stmts[v])
Items      == UNION {Content(v) : v \in Versions}
Prefix(v)  == {i \in Items : i[1] <= v}

ASSUME ConstantsAssumption ==
  /\ Stmts \in [Versions -> Nat]
  /\ Strict \subseteq Items
  /\ Requests \subseteq Request
  /\ Requests # {}
  /\ Exclusive \in BOOLEAN
  /\ MaxRuns \in Nat

-----------------------------------------------------------------------------
VARIABLES
  table,    \* the version table exists
  row,      \* the committed version, NoRow before the first call
  effects,  \* the committed items in effect
  pc,       \* the database call a runner makes next
  req,      \* its call
  cur,      \* the version it takes for the stored one
  stmt,     \* the next statement of the migration it executes
  pend,     \* what its open transaction has done and not committed
  outcome,  \* how its last call ended
  runs      \* calls made so far

db     == <<table, row, effects>>
local  == <<req, cur, stmt>>
vars   == <<table, row, effects, pc, req, cur, stmt, pend, outcome, runs>>

Calls   == {"idle", "table", "row", "insert", "read", "begin", "exec", "commit"}
NoPend  == [added |-> {}, removed |-> {}, row |-> NoRow]

Stored      == IF row = NoRow THEN Base ELSE row
Mig(r)      == Planned(req[r], cur[r])


Item(r)     == IF req[r].direction = "up"
               THEN <<Mig(r), stmt[r]>>
               ELSE <<Mig(r), Stmts[Mig(r)] + 1 - stmt[r]>>

\* What the connection of r sees (READ COMMITTED).
View(r)     == (effects \ pend[r].removed) \cup pend[r].added

\* Locks of the other open transactions: on items, and on the version row.
ItemLocked(r) == \E s \in Runners \ {r} : Item(r) \in pend[s].added \cup pend[s].removed
RowLocked(r)  == \E s \in Runners \ {r} : pend[s].row # NoRow

\* The next statement of r has to wait until the transaction of s has ended.
WaitsFor(r, s) ==
  /\ r # s
  /\ pc[r] = "exec"
  /\ IF stmt[r] <= Stmts[Mig(r)] THEN Item(r) \in pend[s].added \cup pend[s].removed
                                 ELSE pend[s].row # NoRow

\* The runners of S wait for one another.
Deadlock(S) == S # {} /\ \A r \in S : \E s \in S : WaitsFor(r, s)

Init ==
  /\ table = FALSE
  /\ row = NoRow
  /\ effects = {}
  /\ pc = [r \in Runners |-> "idle"]
  /\ req = [r \in Runners |-> CHOOSE q \in Requests : TRUE]
  /\ cur = [r \in Runners |-> Base]
  /\ stmt = [r \in Runners |-> 1]
  /\ pend = [r \in Runners |-> NoPend]
  /\ outcome = [r \in Runners |-> "none"]
  /\ runs = 0

-----------------------------------------------------------------------------
\* ApplyMigrations is called; nothing it does before the first statement
\* (validation, opening the database, the registry) changes state.
Start(r) ==
  /\ pc[r] = "idle"
  /\ runs < MaxRuns
  /\ Exclusive => \A s \in Runners : pc[s] = "idle"
  /\ \E q \in Requests : req' = [req EXCEPT ![r] = q]
  /\ pc' = [pc EXCEPT ![r] = "table"]
  /\ outcome' = [outcome EXCEPT ![r] = "none"]
  /\ runs' = runs + 1
  /\ UNCHANGED <<db, cur, stmt, pend>>

\* Mutant of Finish: the transaction is left open.
FinishWithoutRollback(r, o) ==
  /\ pc' = [pc EXCEPT ![r] = "idle"]
  /\ cur' = [cur EXCEPT ![r] = Base]
  /\ stmt' = [stmt EXCEPT ![r] = 1]
  /\ outcome' = [outcome EXCEPT ![r] = o]
  /\ UNCHANGED <<req, pend>>

\* The call returns, or its process dies: an open transaction is rolled back.
Finish(r, o) ==
  /\ pc' = [pc EXCEPT ![r] = "idle"]
  /\ cur' = [cur EXCEPT ![r] = Base]
  /\ stmt' = [stmt EXCEPT ![r] = 1]
  /\ pend' = [pend EXCEPT ![r] = NoPend]
  /\ outcome' = [outcome EXCEPT ![r] = o]
  /\ UNCHANGED req

GoTo(r, call) ==
  /\ pc' = [pc EXCEPT ![r] = call]
  /\ UNCHANGED outcome

\* CREATE TABLE IF NOT EXISTS
EnsureTable(r) ==
  /\ pc[r] = "table"
  /\ table' = TRUE
  /\ GoTo(r, "row")
  /\ UNCHANGED <<row, effects, local, pend, runs>>

\* SELECT id: the row is inserted when this read does not find it
EnsureRow(r) ==
  /\ pc[r] = "row"
  /\ GoTo(r, IF row = NoRow THEN "insert" ELSE "read")
  /\ UNCHANGED <<db, local, pend, runs>>

\* INSERT (1, ''): the primary key refuses a second row
InsertRow(r) ==
  /\ pc[r] = "insert"
  /\ IF row = NoRow
     THEN row' = Base /\ GoTo(r, "read") /\ UNCHANGED <<local, pend>>
     ELSE Finish(r, "err") /\ UNCHANGED row
  /\ UNCHANGED <<table, effects, runs>>

\* Mutant of Advance: the loop ends after the first migration.
AdvanceOnce(r, c) == Finish(r, "ok")

\* The loop over the plan: done when the version reached is the target.
Advance(r, c) ==
  \/ c = Goal(req[r]) /\ Finish(r, "ok")
  \/ /\ c # Goal(req[r])
     /\ GoTo(r, "begin")
     /\ cur' = [cur EXCEPT ![r] = c]
     /\ stmt' = [stmt EXCEPT ![r] = 1]
     /\ pend' = [pend EXCEPT ![r] = NoPend]
     /\ UNCHANGED req

\* SELECT version, outside any transaction; target and plan follow from it
ReadVersion(r) ==
  /\ pc[r] = "read"
  /\ \/ Plannable(req[r], Stored) /\ Advance(r, Stored)
     \/ ~Plannable(req[r], Stored) /\ Finish(r, "err")
  /\ UNCHANGED <<db, runs>>

\* BeginTx, or nothing when the migration runs without a transaction
Begin(r) ==
  /\ pc[r] = "begin"
  /\ GoTo(r, "exec")
  /\ UNCHANGED <<db, local, pend, runs>>

\* A transaction that holds back p, after a statement on item i.
Held(p, i, up) ==
  IF up THEN [p EXCEPT !.added = @ \cup {i}, !.removed = @ \ {i}]
        ELSE [p EXCEPT !.added = @ \ {i}, !.removed = @ \cup {i}]

\* Mutants of Exec: on the database instead of the transaction, and one that
\* carries on after a statement that was refused.
ExecOnDatabase(r) ==
  LET up == req[r].direction = "up"
  IN
  /\ pc[r] = "exec"
  /\ stmt[r] <= Stmts[Mig(r)]
  /\ ~(Item(r) \in Strict /\ (Item(r) \in effects <=> up))
  /\ stmt' = [stmt EXCEPT ![r] = @ + 1]
  /\ effects' = IF up THEN effects \cup {Item(r)} ELSE effects \ {Item(r)}
  /\ UNCHANGED <<table, row, pc, req, cur, pend, outcome, runs>>

ExecIgnoringErrors(r) ==
  /\ pc[r] = "exec"
  /\ stmt[r] <= Stmts[Mig(r)]
  /\ ~ItemLocked(r)
  /\ stmt' = [stmt EXCEPT ![r] = @ + 1]
  /\ IF req[r].tx
     THEN pend' = [pend EXCEPT ![r] = Held(@, Item(r), TRUE)] /\ UNCHANGED effects
     ELSE effects' = effects \cup {Item(r)} /\ UNCHANGED pend
  /\ UNCHANGED <<table, row, pc, req, cur, outcome, runs>>

\* One statement of the migration
Exec(r) ==
  LET up      == req[r].direction = "up"
      refused == Item(r) \in Strict /\ (Item(r) \in View(r) <=> up)
  IN
  /\ pc[r] = "exec"
  /\ stmt[r] <= Stmts[Mig(r)]
  /\ ~ItemLocked(r)
  /\ \/ refused /\ Finish(r, "err") /\ UNCHANGED effects
     \/ /\ ~refused
        /\ stmt' = [stmt EXCEPT ![r] = @ + 1]
        /\ IF req[r].tx
           THEN pend' = [pend EXCEPT ![r] = Held(@, Item(r), up)] /\ UNCHANGED effects
           ELSE /\ effects' = IF up THEN effects \cup {Item(r)} ELSE effects \ {Item(r)}
                /\ UNCHANGED pend
        /\ UNCHANGED <<pc, req, cur, outcome>>
  /\ UNCHANGED <<table, row, runs>>

\* Mutants of WriteVersion: on the database instead of the transaction, and
\* before the last statement.
WriteVersionOnDatabase(r) ==
  /\ pc[r] = "exec"
  /\ stmt[r] > Stmts[Mig(r)]
  /\ row' = After(req[r], cur[r])
  /\ pend' = [pend EXCEPT ![r].row = After(req[r], cur[r])]
  /\ GoTo(r, "commit")
  /\ UNCHANGED <<table, effects, local, runs>>

WriteVersionEarly(r) ==
  /\ pc[r] = "exec"
  /\ stmt[r] >= Stmts[Mig(r)]
  /\ ~req[r].tx
  /\ ~RowLocked(r)
  /\ row' = After(req[r], cur[r])
  /\ Advance(r, After(req[r], cur[r]))
  /\ UNCHANGED <<table, effects, runs>>

\* writeCurrentMigrationVersion: UPDATE, or INSERT when no row was updated;
\* without a transaction this ends the migration, whether or not the answer
\* arrives
WriteVersion(r) ==
  LET after == After(req[r], cur[r])
  IN
  /\ pc[r] = "exec"
  /\ stmt[r] > Stmts[Mig(r)]
  /\ ~RowLocked(r)
  /\ IF req[r].tx
     THEN /\ pend' = [pend EXCEPT ![r].row = after]
          /\ GoTo(r, "commit")
          /\ UNCHANGED <<row, local>>
     ELSE /\ row' = after
          /\ Advance(r, after) \/ Finish(r, "err")
  /\ UNCHANGED <<table, effects, runs>>

\* tx.Commit: the server may have committed although the call fails
Commit(r) ==
  /\ pc[r] = "commit"
  /\ effects' = View(r)
  /\ row' = pend[r].row
  /\ Advance(r, After(req[r], cur[r])) \/ Finish(r, "err")
  /\ UNCHANGED <<table, runs>>

\* A database call fails without effect: the transaction is rolled back
Fail(r) ==
  /\ pc[r] # "idle"
  /\ Finish(r, "err")
  /\ UNCHANGED <<db, runs>>

\* The database finds runners that wait in a circle and gives up the
\* transaction of one of them, whose statement fails.
BreakDeadlock ==
  \E S \in SUBSET Runners :
    /\ Deadlock(S)
    /\ \A T \in SUBSET S : Deadlock(T) => T = S
    /\ \E r \in S : Fail(r)

\* The process dies (or is killed by the runner's timeout)
Crash(r) ==
  /\ pc[r] # "idle"
  /\ Finish(r, "crashed")
  /\ UNCHANGED <<db, runs>>

\* Every call has been made and has ended
Done ==
  /\ runs = MaxRuns
  /\ \A r \in Runners : pc[r] = "idle"
  /\ UNCHANGED vars

Step(r) ==
  \/ EnsureTable(r) \/ EnsureRow(r) \/ InsertRow(r) \/ ReadVersion(r)
  \/ Begin(r) \/ Exec(r) \/ WriteVersion(r) \/ Commit(r)

Next == \/ \E r \in Runners : Start(r) \/ Step(r) \/ Fail(r) \/ Crash(r)
        \/ Done

Spec == Init /\ [][Next]_vars

\* A call that has started goes on: no step of it waits for anything but a lock,
\* and the database does not leave transactions in a deadlock.
FairSpec == Spec /\ (\A r \in Runners : WF_vars(Step(r))) /\ WF_vars(BreakDeadlock)

-----------------------------------------------------------------------------
(* Circumstances under which the properties below are claimed.             *)

\* Builds only ever append versions: each registry is a beginning of the line.
AppendOnly   == \A q \in Requests : \E n \in 0 .. N : q.registry = 1 .. n
AllInTx      == \A q \in Requests : q.tx
UpOnly       == \A q \in Requests : q.direction = "up"
\* Each migration has a statement that cannot be repeated.
NoneRepeats  == \A v \in Versions : Content(v) \cap Strict # {}

-----------------------------------------------------------------------------
(* Properties.                                                             *)

\* What a runner holds in memory and in its transaction.
LocalTypeOK ==
  /\ pc \in [Runners -> Calls]
  /\ req \in [Runners -> Requests]
  /\ cur \in [Runners -> Versions \cup {Base}]
  /\ stmt \in [Runners -> Nat \ {0}]
  /\ pend \in [Runners -> [added   : SUBSET Items,
                            removed : SUBSET Items,
                            row     : Versions \cup {Base, NoRow}]]
  /\ outcome \in [Runners -> {"none", "ok", "err", "crashed"}]

\* Every variable has its type.
TypeOK ==
  /\ LocalTypeOK
  /\ table \in BOOLEAN
  /\ row \in Versions \cup {Base, NoRow}
  /\ effects \subseteq Items
  /\ runs \in 0 .. MaxRuns

\* The committed schema is exactly what the stored version stands for, after
\* every failure, lost answer and crash.  (Exclusive, AllInTx, AppendOnly.)
SchemaMatchesVersion == effects = Prefix(Stored)

\* Migrations come into effect above the stored version and go out of effect
\* above the new one, whatever versions the builds register: a migration that
\* was skipped is not executed later, below one that already is in effect.
\* (Exclusive, AllInTx.)
MovesInOrder ==
  [][/\ \A i \in effects' \ effects : Stored < i[1]
     /\ \A i \in effects \ effects' : Stored' < i[1]]_effects

\* The stored version never claims a migration that has not been executed in
\* full, whatever runs at the same time, with and without transactions.
\* (UpOnly, AppendOnly.)
VersionNeverOverclaims == Prefix(Stored) \subseteq effects

\* Runners that started from the same old version do not take the stored
\* version back when the slower one comes second.  (UpOnly, AppendOnly,
\* NoneRepeats.)
VersionNeverRegresses == [][row <= row']_row

\* At most one migration is in effect in part, and it is the one that follows
\* the stored version.  (UpOnly, AppendOnly, NoneRepeats.)
AtMostOneHalfDone ==
  \E k \in {0} \cup {i[2] : i \in Items} :
    effects = Prefix(Stored) \cup {i \in Items : i[1] = Stored + 1 /\ i[2] <= k}

\* A call that reports success has brought the database to its target: exactly
\* when it ran alone, at least when others moved it on in the meantime.
Succeeds(r) == pc[r] # "idle" /\ pc'[r] = "idle" /\ outcome'[r] = "ok"

OkMeansAtTarget ==
  [][\A r \in Runners : Succeeds(r) =>
       Stored' = Goal(req[r]) /\ effects' = Prefix(Goal(req[r]))]_vars

OkMeansReached ==
  [][\A r \in Runners : Succeeds(r) =>
       Goal(req[r]) <= Stored' /\ Prefix(Goal(req[r])) \subseteq effects']_vars

\* The committed states, seen as a version and a schema, are those of the line.
Line == INSTANCE VersionLine WITH
          Parts   <- [v \in Versions |-> Content(v)],
          version <- Stored,
          schema  <- effects

MovesAlongLine == Line!Spec


\* Every call ends.  An upgrade and a downgrade of one migration take its locks
\* in opposite orders and can wait for each other; the database then makes one
\* of them fail, and its rollback lets the other one go on.
EveryCallEnds == \A r \in Runners : pc[r] # "idle" ~> pc[r] = "idle"

\* "Apply all registered migrations" (examples/migrations/README.md): after a
\* successful call for the head, all registered migrations are in effect.
HeadAppliesAll ==
  [][\A r \in Runners :
       Succeeds(r) /\ req[r].direction = "up" /\ req[r].target = HeadVersion =>
         \A v \in req[r].registry : Content(v) \subseteq effects']_vars
-----------------------------------------------------------------------------
(* What every call keeps to itself, in all circumstances.                  *)

Executing(r) == pc[r] \in {"begin", "exec", "commit"}

\* A call that executes has a plan from the version it has reached, and has
\* not reached its target.
PlanInv ==
  \A r \in Runners : Executing(r) =>
    Plannable(req[r], cur[r]) /\ cur[r] # Goal(req[r])

\* The items that the statements before stmt[r] have moved.
Moved(r) == {i \in Content(Mig(r)) :
               IF req[r].direction = "up"
               THEN i[2] < stmt[r]
               ELSE i[2] > Stmts[Mig(r)] + 1 - stmt[r]}

InMigration(r) == pc[r] \in {"exec", "commit"}

\* What the transaction of r holds back at each call.
HeldBack(r) ==
  LET up == req[r].direction = "up"
  IN
  /\ ~InMigration(r) => pend[r] = NoPend
  /\ InMigration(r) =>
       /\ pend[r].added   = IF req[r].tx /\ up THEN Moved(r) ELSE {}
       /\ pend[r].removed = IF req[r].tx /\ ~up THEN Moved(r) ELSE {}
       /\ stmt[r] <= Stmts[Mig(r)] + 1
  /\ pc[r] = "begin" => stmt[r] = 1
  /\ pc[r] = "exec" => pend[r].row = NoRow
  /\ pc[r] = "commit" =>
       /\ req[r].tx
       /\ stmt[r] = Stmts[Mig(r)] + 1
       /\ pend[r].row = After(req[r], cur[r])

PendInv == \A r \in Runners : HeldBack(r)

LocalInv == TypeOK /\ PlanInv /\ PendInv

-----------------------------------------------------------------------------
(* The inductive invariants, each to be read together with LocalInv.       *)

\* Behind MovesInOrder (Exclusive) ...
AloneInv ==
  /\ \A r, s \in Runners : pc[r] # "idle" /\ pc[s] # "idle" => r = s
  /\ \A r \in Runners : pc[r] = "read" \/ Executing(r) => row # NoRow
  /\ \A r \in Runners : Executing(r) => cur[r] = row

\* ... behind SchemaMatchesVersion, OkMeansAtTarget and MovesAlongLine ...
IInv == AloneInv /\ SchemaMatchesVersion

\* ... behind VersionNeverOverclaims and OkMeansReached: a runner relies on
\* nothing that another one could take back (UpOnly, AppendOnly) ...
ReachedInv ==
  /\ VersionNeverOverclaims
  /\ \A r \in Runners : Executing(r) => Prefix(cur[r]) \subseteq effects
  /\ \A r \in Runners : InMigration(r) => Moved(r) \subseteq View(r)

\* ... and behind VersionNeverRegresses and AtMostOneHalfDone: the statement
\* that cannot be repeated makes one runner the owner of a migration, until
\* its version is stored (UpOnly, AppendOnly, NoneRepeats).
Claims(r) == InMigration(r) /\ Moved(r) \cap Strict # {}

ClaimInv ==
  /\ \A r \in Runners : Executing(r) => cur[r] <= Stored
  /\ \A r \in Runners : Claims(r) => cur[r] = Stored
  /\ \A r, s \in Runners : Claims(r) /\ Claims(s) => r = s
  /\ AtMostOneHalfDone
=============================================================================
