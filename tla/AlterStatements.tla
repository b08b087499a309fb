-------------------------- MODULE AlterStatements ----------------------------
(***************************************************************************)
(* ALTER TABLE: its builder, whose methods append to a slice without a     *)
(* copy, and what it is compiled to in each dialect.  Columns, constraints *)
(* and types are numbers.                                                  *)
(***************************************************************************)
EXTENDS TableStatements

\* An operation: what it does to name, the other name or the type that it
\* gives, whether it says IF EXISTS or IF NOT EXISTS, and in a sequence the
\* column or the constraint that it adds.
Operation(does, name, to, ifs) ==
  [does |-> does, name |-> name, to |-> to, ifs |-> ifs, adds |-> <<>>]

AlterOperations(n) ==
  {Operation(does, n, n + 1, FALSE) :
     does \in {"RENAME COLUMN", "DROP COLUMN", "ALTER TYPE", "SET NOT NULL", "DROP NOT NULL",
               "SET DEFAULT", "DROP DEFAULT", "DROP CONSTRAINT", "RENAME CONSTRAINT"}}
  \cup {Operation(does, n, n + 1, TRUE) : does \in {"DROP COLUMN", "DROP CONSTRAINT"}}

\* AddColumn, AddColumnIfNotExists
AddColumn(v, ifs) == [Operation("ADD COLUMN", v.def.name, v.def.type, ifs) EXCEPT !.adds = <<v>>]

\* AddConstraint to a table
AddConstraint(t, c) == [Operation("ADD CONSTRAINT", t.name, 0, FALSE) EXCEPT !.adds = <<c>>]

\* AlterTable
AlterTable(t) == Into("alter", t)

\* RenameColumn, AddColumn, DropColumn and the other methods
Altered(v, op) == Pushed([heap |-> heap, v |-> v], "operations", <<op>>)

-----------------------------------------------------------------------------
If(op, words) == Optional(op.ifs, <<Sym(words)>>)

\* compileAlterTableNode, where no dialect replaces the node
BaseOperation(op) ==
  LET name == Id(op.name)
      to   == Id(op.to)
  IN  CASE op.does \in {"RENAME COLUMN", "RENAME CONSTRAINT"} ->
             <<Sym(op.does), name, Sym("TO"), to>>
        [] op.does = "ADD COLUMN"     -> <<Sym(op.does)>> \o If(op, "IF NOT EXISTS")
                                           \o ColumnPieces(op.adds[1], TRUE)
        [] op.does \in {"DROP COLUMN", "DROP CONSTRAINT"} ->
             <<Sym(op.does)>> \o If(op, "IF EXISTS") \o <<name>>
        [] op.does = "ADD CONSTRAINT" -> <<Sym("ADD")>> \o ConstraintPieces(op.name, op.adds[1])
        [] op.does = "ALTER TYPE"     -> <<Sym("ALTER COLUMN"), name, Sym("TYPE"), to>>
        [] op.does = "SET DEFAULT"    -> <<Sym("ALTER COLUMN"), name, Sym(op.does), to>>
        [] op.does \in {"SET NOT NULL", "DROP NOT NULL", "DROP DEFAULT"} ->
             <<Sym("ALTER COLUMN"), name, Sym(op.does)>>

Nullability == {"SET NOT NULL", "DROP NOT NULL"}

\* compileMySQLDDL
MySQLOperation(op) ==
  CASE op.does = "ALTER TYPE"      -> <<Sym("MODIFY COLUMN"), Id(op.name), Id(op.to)>>
    [] op.does = "DROP CONSTRAINT" -> <<Sym("DROP"), Id(op.name)>>
    [] op.does \in Nullability     -> <<Unsupported>>
    [] OTHER                       -> BaseOperation(op)

\* Oracle.CompileNode
OracleOperation(op) ==
  LET modify == <<Sym("MODIFY"), Id(op.name)>>
  IN  CASE op.does = "ALTER TYPE"    -> modify \o <<Id(op.to)>>
        [] op.does = "SET NOT NULL"  -> modify \o <<Sym("NOT NULL")>>
        [] op.does = "DROP NOT NULL" -> modify \o <<Sym("NULL")>>
        [] op.does = "SET DEFAULT"   -> modify \o <<Sym("DEFAULT"), Id(op.to)>>
        [] op.does = "DROP DEFAULT"  -> modify \o <<Sym("DEFAULT"), Sym("NULL")>>
        [] OTHER                     -> BaseOperation(op)

\* SQLite.CompileNode
SQLiteOperation(op) ==
  IF op.does \in Nullability \cup {"ALTER TYPE", "SET DEFAULT", "DROP DEFAULT", "ADD CONSTRAINT",
                                   "DROP CONSTRAINT"}
  THEN <<Unsupported>>
  ELSE BaseOperation(op)

OperationPieces(d, op) ==
  CASE d = "mysql"  -> MySQLOperation(op)
    [] d = "oracle" -> OracleOperation(op)
    [] d = "sqlite" -> SQLiteOperation(op)
    [] d = "sqlserver" /\ op.does \in Nullability -> <<Unsupported>>
    [] OTHER -> BaseOperation(op)

\* Mutant of Separator: SQLite is given a list of operations, too.
CommaSeparator(d, v, i) == IF i = 1 THEN <<>> ELSE <<Sym(",")>>

\* compileAlterTableOperationSeparator.  SQLite has one operation in a statement.
Separator(d, v, i) ==
  IF i = 1 THEN <<>>
  ELSE IF d = "sqlite" THEN <<Sym(";"), Sym("ALTER TABLE"), Id(v.table.name)>>
  ELSE <<Sym(",")>>

\* compileAlterTable, which refuses a statement without operations
AlterPieces(d, v) ==
  LET ops == Items(v, "operations")
  IN  IF ops = <<>> THEN <<Unsupported>>
      ELSE <<Sym("ALTER TABLE"), Id(v.table.name)>>
             \o FlattenSeq([i \in DOMAIN ops |-> Separator(d, v, i) \o OperationPieces(d, ops[i])])
=============================================================================
