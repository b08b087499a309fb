----------------------------- MODULE SchemaDiff -----------------------------
(***************************************************************************)
(* From two schemas to a migration: src/migrations/diff.go finds what      *)
(* differs, migration.go turns it into steps, each with the statement that *)
(* makes the change and the one that takes it back, and codegen.go writes  *)
(* the statements of all steps into Up and, last step first, into Down.    *)
(*                                                                         *)
(* A schema maps the names of its tables to tables                         *)
(*   [columns     : name -> [type, notNull, default, mode],                *)
(*    constraints : set of [kind, columns, check, ref, refColumns, name],  *)
(*    indexes     : name -> [columns, unique, method]].                    *)
(* Table names are numbers, in the order of the names; the mode of a       *)
(* column is its identity and generated clause; check is the expression of *)
(* a CHECK, given by the columns it mentions; ref is the table of a        *)
(* foreign key and refColumns maps its columns to those they refer to; a   *)
(* name is a sequence of words, Unnamed when the config gives none.  The   *)
(* order of columns is left out: no diff looks at it.     *)
(***************************************************************************)
EXTENDS Integers, Sequences, FiniteSets, Functions, SequencesExt

Unnamed  == <<>>
NoTable  == -1    \* ref of a constraint that is not a foreign key
Plain    == "plain"
NotGiven == ""    \* a type, a default or a method that is left open

\* constraintKindOrder
KindOrder == [pk |-> 1, uq |-> 2, ck |-> 3, fk |-> 4]

\* Mutant of DropName: a constraint without a name keeps it that way.
DropNameAsGiven(t, c) == c.name

\* constraintDropName: the name that the DDL compiler gives a constraint as well
DropName(t, c) ==
  IF c.name # Unnamed THEN c.name
  ELSE <<c.kind, t, IF c.kind = "ck" THEN c.check ELSE c.columns, c.ref, c.refColumns>>

\* constraintKey and constraintSemanticKey
SemanticKey(c) == [c EXCEPT !.name = Unnamed]

-----------------------------------------------------------------------------
(* diff.go                                                                 *)

\* constraintChanged
ConstraintChanged(cur, des) ==
  \/ SemanticKey(cur) # SemanticKey(des)
  \/ des.name # Unnamed /\ cur.name # des.name

\* matchConstraintsBySemantic looks a constraint up in a map of what the catalog
\* holds by meaning, and of several of one meaning the map keeps the last of the
\* list.  The order of their names is left out: it is one of them, always the
\* same.
Saying(cur, d) == CHOOSE c \in cur : SemanticKey(c) = SemanticKey(d)

\* Pairs of constraints that belong together: by what they say, and those
\* that are left by name.  A config never says the same twice.
SemanticMatches(cur, des) ==
  {p \in cur \X des : SemanticKey(p[1]) = SemanticKey(p[2]) /\ p[1] = Saying(cur, p[2])}

NameMatches(cur, des) ==
  LET used == SemanticMatches(cur, des)
  IN  {p \in (cur \ {q[1] : q \in used}) \X (des \ {q[2] : q \in used}) :
         p[2].name # Unnamed /\ p[1].name = p[2].name}

Matches(cur, des) == SemanticMatches(cur, des) \cup NameMatches(cur, des)

\* What differs between two functions from names: columns and indexes.
Added(cur, des)   == DOMAIN des \ DOMAIN cur
Removed(cur, des) == DOMAIN cur \ DOMAIN des
Changed(cur, des) == {x \in DOMAIN cur \cap DOMAIN des : cur[x] # des[x]}

AddedConstraints(cur, des)   == des \ {p[2] : p \in Matches(cur, des)}
RemovedConstraints(cur, des) == cur \ {p[1] : p \in Matches(cur, des)}
ChangedConstraints(cur, des) == {p \in Matches(cur, des) : ConstraintChanged(p[1], p[2])}

\* diffTables finds nothing
SameTable(cur, des) ==
  /\ cur.columns = des.columns
  /\ cur.indexes = des.indexes
  /\ AddedConstraints(cur.constraints, des.constraints) = {}
  /\ RemovedConstraints(cur.constraints, des.constraints) = {}
  /\ ChangedConstraints(cur.constraints, des.constraints) = {}

ChangedTables(cur, des) ==
  {t \in DOMAIN cur \cap DOMAIN des : ~SameTable(cur[t], des[t])}

-----------------------------------------------------------------------------
(* The statements of a migration.                                          *)

CreateTable(t, def)  == [op |-> "create table", table |-> t,
                         columns |-> def.columns, constraints |-> def.constraints]
DropTable(t)         == [op |-> "drop table", table |-> t]
CreateIndex(t, x, i) == [op |-> "create index", table |-> t, index |-> x, def |-> i]
DropIndex(x)         == [op |-> "drop index", index |-> x]
AddColumn(t, x, c)   == [op |-> "add column", table |-> t, column |-> x, def |-> c]
DropColumn(t, x)     == [op |-> "drop column", table |-> t, column |-> x]
\* DROP COLUMN and ADD COLUMN in one ALTER TABLE
ReplaceColumn(t, x, c) == [op |-> "replace column", table |-> t, column |-> x, def |-> c]
SetType(t, x, c)     == [op |-> "set type", table |-> t, column |-> x, type |-> c.type]
SetNotNull(t, x, c)  == [op |-> "set not null", table |-> t, column |-> x, notNull |-> c.notNull]
SetDefault(t, x, c)  == [op |-> "set default", table |-> t, column |-> x, default |-> c.default]
AddConstraint(t, c)  == [op |-> "add constraint", table |-> t, constraint |-> c]
DropConstraint(t, c) == [op |-> "drop constraint", table |-> t, name |-> DropName(t, c)]
Nothing              == [op |-> "none"]

-----------------------------------------------------------------------------
(* migration.go                                                            *)

Step(up, down) == [up |-> up, down |-> down]
Undo(step)     == Step(step.down, step.up)

CreateTableStep(t, def)  == Step(CreateTable(t, def), DropTable(t))
CreateIndexStep(t, x, i) == Step(CreateIndex(t, x, i), DropIndex(x))
\* The index goes with its table; only Down has to create it.
RestoreIndexStep(t, x, i) == Step(Nothing, CreateIndex(t, x, i))
AddColumnStep(t, x, c)   == Step(AddColumn(t, x, c), DropColumn(t, x))
AddConstraintStep(t, c)  == Step(AddConstraint(t, c), DropConstraint(t, c))

\* The elements of S in the order of their ranks.
Ranked(S, rank) ==
  CHOOSE seq \in [1 .. Cardinality(S) -> S] :
    /\ IsInjective(seq)
    /\ \A i, j \in DOMAIN seq : i < j => rank[seq[i]] <= rank[seq[j]]

\* The steps F(x) for the elements of S in that order.
InOrder(S, rank, F(_)) == [i \in 1 .. Cardinality(S) |-> F(Ranked(S, rank)[i])]

InAnyOrder(S, F(_))  == InOrder(S, [x \in S |-> 0], F)
ByKind(S, F(_))      == InOrder(S, [c \in S |-> KindOrder[c.kind]], F)
PairsByKind(S, F(_)) == InOrder(S, [p \in S |-> KindOrder[p[2].kind]], F)
ByName(S, F(_))      == FlattenSeq(InOrder(S, [t \in S |-> t], F))

AddedTableSteps(t, def) ==
  <<CreateTableStep(t, def)>>
    \o InAnyOrder(DOMAIN def.indexes, LAMBDA x : CreateIndexStep(t, x, def.indexes[x]))

\* Mutants of RemovedTableSteps: Down does not restore the indexes, or does so
\* before the table.
RemovedTableStepsOnly(t, def) == <<Undo(CreateTableStep(t, def))>>

RemovedTableStepsFirst(t, def) ==
  <<Undo(CreateTableStep(t, def))>>
    \o InAnyOrder(DOMAIN def.indexes, LAMBDA x : RestoreIndexStep(t, x, def.indexes[x]))

RemovedTableSteps(t, def) ==
  InAnyOrder(DOMAIN def.indexes, LAMBDA x : RestoreIndexStep(t, x, def.indexes[x]))
    \o <<Undo(CreateTableStep(t, def))>>

\* appendColumnChangeSteps
ColumnChangeSteps(t, x, cur, des) ==
  LET when(differs, Stmt(_, _, _)) ==
        IF differs THEN <<Step(Stmt(t, x, des), Stmt(t, x, cur))>> ELSE <<>>
  IN  IF cur.mode # des.mode
      THEN when(TRUE, ReplaceColumn)
      ELSE when(cur.type # des.type, SetType)
             \o when(cur.notNull # des.notNull, SetNotNull)
             \o when(cur.default # des.default, SetDefault)

\* F(p) for the changed pairs: as diffConstraints lists them, those that say
\* the same first.
ForChanged(cur, des, F(_)) ==
  LET changed == ChangedConstraints(cur, des)
      same    == SemanticMatches(cur, des)
  IN  PairsByKind(changed \cap same, F) \o PairsByKind(changed \ same, F)

\* The parts of appendTableDiffSteps, t being a table of both schemas.
DroppedIndexSteps(t, cur, des) ==
  LET drop(x) == Undo(CreateIndexStep(t, x, cur[x]))
  IN  InAnyOrder(Removed(cur, des), drop) \o InAnyOrder(Changed(cur, des), drop)

DroppedConstraintSteps(t, cur, des) ==
  LET drop(c) == Undo(AddConstraintStep(t, c))
  IN  ByKind(RemovedConstraints(cur, des), drop)
        \o ForChanged(cur, des, LAMBDA p : drop(p[1]))

\* Mutant of ColumnSteps: a column that stays is left as it is.
ColumnStepsWithoutChanges(t, cur, des) ==
  InAnyOrder(Removed(cur, des), LAMBDA x : Undo(AddColumnStep(t, x, cur[x])))
    \o InAnyOrder(Added(cur, des), LAMBDA x : AddColumnStep(t, x, des[x]))

ColumnSteps(t, cur, des) ==
  InAnyOrder(Removed(cur, des), LAMBDA x : Undo(AddColumnStep(t, x, cur[x])))
    \o InAnyOrder(Added(cur, des), LAMBDA x : AddColumnStep(t, x, des[x]))
    \o FlattenSeq(InAnyOrder(Changed(cur, des),
                             LAMBDA x : ColumnChangeSteps(t, x, cur[x], des[x])))

\* Mutant of AddedConstraintSteps: a changed constraint comes back as it was.
AddedConstraintStepsAsBefore(t, cur, des) ==
  ForChanged(cur, des, LAMBDA p : AddConstraintStep(t, p[1]))
    \o ByKind(AddedConstraints(cur, des), LAMBDA c : AddConstraintStep(t, c))

AddedConstraintSteps(t, cur, des) ==
  ForChanged(cur, des, LAMBDA p : AddConstraintStep(t, p[2]))
    \o ByKind(AddedConstraints(cur, des), LAMBDA c : AddConstraintStep(t, c))

CreatedIndexSteps(t, cur, des) ==
  LET create(x) == CreateIndexStep(t, x, des[x])
  IN  InAnyOrder(Changed(cur, des), create) \o InAnyOrder(Added(cur, des), create)

\* Mutant of TableDiffSteps: columns change before their indexes and
\* constraints are out of the way.
TableDiffStepsColumnsFirst(t, cur, des) ==
  ColumnSteps(t, cur.columns, des.columns)
    \o DroppedIndexSteps(t, cur.indexes, des.indexes)
    \o DroppedConstraintSteps(t, cur.constraints, des.constraints)
    \o AddedConstraintSteps(t, cur.constraints, des.constraints)
    \o CreatedIndexSteps(t, cur.indexes, des.indexes)

\* appendTableDiffSteps
TableDiffSteps(t, cur, des) ==
  DroppedIndexSteps(t, cur.indexes, des.indexes)
    \o DroppedConstraintSteps(t, cur.constraints, des.constraints)
    \o ColumnSteps(t, cur.columns, des.columns)
    \o AddedConstraintSteps(t, cur.constraints, des.constraints)
    \o CreatedIndexSteps(t, cur.indexes, des.indexes)

\* migrationSteps of diffSchemas
MigrationSteps(cur, des) ==
  ByName(Added(cur, des), LAMBDA t : AddedTableSteps(t, des[t]))
    \o ByName(Removed(cur, des), LAMBDA t : RemovedTableSteps(t, cur[t]))
    \o ByName(ChangedTables(cur, des), LAMBDA t : TableDiffSteps(t, cur[t], des[t]))

-----------------------------------------------------------------------------
(* codegen.go: the statements of Up and Down                               *)

\* The steps with nothing to do leave no statement.
Written(statements) ==
  FlattenSeq([i \in DOMAIN statements |->
                IF statements[i] = Nothing THEN <<>> ELSE <<statements[i]>>])

UpStatements(steps) == Written([i \in DOMAIN steps |-> steps[i].up])

\* Mutant of DownStatements: first step first.
DownStatementsForwards(steps) == Written([i \in DOMAIN steps |-> steps[i].down])

DownStatements(steps) == Written(Reverse([i \in DOMAIN steps |-> steps[i].down]))
=============================================================================
