--------------------------- MODULE TableStatements ----------------------------
(***************************************************************************)
(* Columns, constraints and CREATE TABLE of the package ddl: their         *)
(* builders and their text.  A column is a value; its options are behind a *)
(* pointer, and each method that changes them makes a copy first.  CREATE  *)
(* TABLE appends to slices without a copy.                                 *)
(*                                                                         *)
(* Names, types and literals are numbers; what is given as SQL is a        *)
(* number, too, wrapped by Raw.                                            *)
(***************************************************************************)
EXTENDS QueryBuilders

Raw(sql) == [k |-> "raw", value |-> sql]

-----------------------------------------------------------------------------
(* Columns.  default is 0 for none; references is a sequence of none or    *)
(* one [table, columns].                                                   *)

ColumnDef(name, type) ==
  [Blank("column") EXCEPT
     !.def = [name |-> name, type |-> type, notNull |-> FALSE, default |-> 0, identity |-> "",
              generated |-> "", pk |-> FALSE, uq |-> FALSE, references |-> <<>>]]

\* PrimaryKey, NotNull, Null, Unique: the options stay shared.
Marked(v, def) == [heap |-> heap, v |-> [v EXCEPT !.def = def]]

\* Default, Identity, Generated, References: cloneOptions copies the checks.
WithOptions(v, def) == Fresh([heap |-> heap, v |-> [v EXCEPT !.def = def]], "checks")

\* ColumnDef.Check
CheckedColumn(v, sql) == Pushed(WithOptions(v, v.def), "checks", <<sql>>)

-----------------------------------------------------------------------------
(* Constraints of a table.  check is a sequence of none or one predicate,  *)
(* name of none or one number.                                             *)

Constraint(kind, columns) ==
  [kind |-> kind, columns |-> columns, check |-> <<>>, ref |-> 0, refColumns |-> <<>>,
   onDelete |-> "", name |-> <<>>]

PrimaryKey(columns) == Constraint("PRIMARY KEY", columns)
Unique(columns)     == Constraint("UNIQUE", columns)
Check(p)            == [Constraint("CHECK", <<>>) EXCEPT !.check = <<p>>]
ForeignKey(columns, t, refColumns) ==
  [Constraint("FOREIGN KEY", columns) EXCEPT !.ref = t, !.refColumns = refColumns]

-----------------------------------------------------------------------------
(* CREATE TABLE.                                                           *)

CreateTable(t) ==
  [heap |-> heap, v |-> [Blank("create") EXCEPT !.table = t, !.def = [ifNotExists |-> FALSE]]]

CreateIfNotExists(v) == Marked(v, [ifNotExists |-> TRUE])

\* Column, Columns
CreateColumns(v, columns) == Pushed([heap |-> heap, v |-> v], "defs", columns)

\* Constraint, Constraints of CreateTableStmt
CreateConstraints(v, cs) == Pushed([heap |-> heap, v |-> v], "constraints", cs)

-----------------------------------------------------------------------------
(* Predicates of the package: their columns have no table, and there are   *)
(* no arguments.  Their precedences are those of the query builder.        *)

CommaSeparated(pieces) ==
  FlattenSeq([i \in DOMAIN pieces |-> (IF i = 1 THEN <<>> ELSE <<Sym(",")>>) \o pieces[i]])

RECURSIVE DDLText(_)

\* compileDDLExpressionChild, compileDDLPredicateChild, needsParentheses
DDLChild(e, parent, peers) ==
  IF Precedence(e) < parent \/ (peers /\ Precedence(e) = parent)
  THEN InParentheses(DDLText(e))
  ELSE DDLText(e)

\* compileDDLPredicate, where it combines predicates
DDLLogical(e) ==
  FlattenSeq([i \in DOMAIN e.ps |->
                (IF i = 1 THEN <<>> ELSE <<Sym(e.op)>>) \o DDLChild(e.ps[i], Precedence(e), FALSE)])

\* compileDDLExpression, compileDDLPredicate
DDLText(e) ==
  CASE e.k = "column"  -> <<ColumnToken(e)>>
    [] e.k = "literal" -> <<<<"literal", e.value>>>>
    [] e.k = "raw"     -> <<<<"raw", e.value>>>>
    [] e.k = "function" ->
         <<Sym(e.name)>> \o InParentheses(CommaSeparated([i \in DOMAIN e.args |-> DDLText(e.args[i])]))
    [] e.k = "logical" -> DDLLogical(e)
    [] e.k = "compare" -> DDLChild(e.a, PrecedenceComparison, FALSE) \o <<Sym(e.op)>>
                            \o DDLChild(e.b, PrecedenceComparison, FALSE)
    [] e.k = "binary"  -> DDLChild(e.a, Precedence(e), FALSE) \o <<Sym(e.op)>>
                            \o DDLChild(e.b, Precedence(e), e.op \in {"-", "/"})

-----------------------------------------------------------------------------
(* Text.  A panic is a piece of its own, whether the dialect refuses or    *)
(* the compiler does.                                                      *)

Unsupported == <<"unsupported">>

Optional(condition, pieces) == IF condition THEN pieces ELSE <<>>

NameList(names) == InParentheses(Separated([i \in DOMAIN names |-> Id(names[i])], ","))

ReferencesPieces(t, columns) ==
  <<Sym("REFERENCES"), Id(t)>> \o Optional(columns # <<>>, NameList(columns))

\* validateColumnGeneratedOptions
Contradictory(def) ==
  \/ def.identity # "" /\ def.generated # ""
  \/ def.identity # "" /\ def.default # 0
  \/ def.generated # "" /\ def.default # 0

\* The constraints of a column that compileColumn writes behind it.
InlineConstraints(v) ==
  LET def    == v.def
      checks == Items(v, "checks")
  IN  Optional(def.pk, <<Sym("PRIMARY KEY")>>) \o Optional(def.uq, <<Sym("UNIQUE")>>)
        \o FlattenSeq([i \in DOMAIN checks |->
                         <<Sym("CHECK")>> \o InParentheses(DDLText(Raw(checks[i])))])
        \o FlattenSeq([i \in DOMAIN def.references |->
                         ReferencesPieces(def.references[i].table, def.references[i].columns)])

\* compileColumnGeneratedOptions
GeneratedPieces(def) ==
  Optional(def.identity # "", <<Sym("GENERATED"), Sym(def.identity), Sym("AS IDENTITY")>>)
    \o Optional(def.generated # "",
                <<Sym("GENERATED ALWAYS AS"), Sym("("), Sym(")"), Sym(def.generated)>>)

\* compileColumn
ColumnPieces(v, includeConstraints) ==
  LET def == v.def
  IN  IF Contradictory(def) THEN <<Unsupported>>
      ELSE <<Id(def.name), <<"type", def.type>>>> \o GeneratedPieces(def)
             \o Optional(def.notNull, <<Sym("NOT NULL")>>)
             \o Optional(def.default # 0, <<Sym("DEFAULT"), <<"literal", def.default>>>>)
             \o Optional(includeConstraints, InlineConstraints(v))

\* Mutant of ConstraintsOf: a column with a check has nothing else.
ChecksOnly(v) ==
  LET checks == Items(v, "checks")
  IN  IF checks = <<>> THEN Optional(v.def.pk, <<PrimaryKey(<<v.def.name>>)>>)
      ELSE [i \in DOMAIN checks |-> Check(Raw(checks[i]))]

\* columnConstraintsAsTableConstraints, of one column
ConstraintsOf(v) ==
  LET def    == v.def
      checks == Items(v, "checks")
      targets  == def.references
  IN  Optional(def.pk, <<PrimaryKey(<<def.name>>)>>)
        \o Optional(def.uq, <<Unique(<<def.name>>)>>)
        \o [i \in DOMAIN checks |-> Check(Raw(checks[i]))]
        \o [i \in DOMAIN targets |->
              ForeignKey(<<def.name>>, targets[i].table, targets[i].columns)]

\* constraintName, whose parts joined by _ are taken to tell names apart, and that
\* of compileCheck: a hash of the text
ConstraintName(table, c) ==
  IF c.name # <<>> THEN c.name
  ELSE IF c.kind = "CHECK" THEN <<c.kind, table, DDLText(c.check[1])>>
  ELSE <<c.kind, table, c.columns, c.ref, c.refColumns>>

\* compileForeignKey refuses two lists of different lengths.
Mismatched(c) ==
  c.kind = "FOREIGN KEY" /\ c.refColumns # <<>> /\ Len(c.columns) # Len(c.refColumns)

\* compileTableConstraint
ConstraintPieces(table, c) ==
  IF Mismatched(c) THEN <<Unsupported>>
  ELSE <<Sym("CONSTRAINT"), Id(ConstraintName(table, c)), Sym(c.kind)>>
         \o (IF c.kind = "CHECK" THEN InParentheses(DDLText(c.check[1])) ELSE NameList(c.columns))
         \o Optional(c.kind = "FOREIGN KEY", ReferencesPieces(c.ref, c.refColumns))
         \o Optional(c.onDelete # "", <<Sym("ON DELETE"), Sym(c.onDelete)>>)

\* compileCreateTable: the columns, their constraints, those of the table
CreateTablePieces(v) ==
  LET defs  == Items(v, "defs")
      cs    == FlattenSeq([i \in DOMAIN defs |-> ConstraintsOf(defs[i])]) \o Items(v, "constraints")
      items == [i \in DOMAIN defs |-> ColumnPieces(defs[i], FALSE)]
                 \o [i \in DOMAIN cs |-> ConstraintPieces(v.table.name, cs[i])]
  IN  IF items = <<>> THEN <<Unsupported>>
      ELSE <<Sym("CREATE TABLE")>> \o Optional(v.def.ifNotExists, <<Sym("IF NOT EXISTS")>>)
             \o <<Id(v.table.name)>> \o InParentheses(CommaSeparated(items))
=============================================================================
