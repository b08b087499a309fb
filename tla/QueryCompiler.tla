---------------------------- MODULE QueryCompiler ----------------------------
(***************************************************************************)
(* What a statement is compiled to in each dialect: a text, as a sequence  *)
(* of tokens, and the arguments that its placeholders are bound to.        *)
(*                                                                         *)
(* A dialect may replace the pieces of a node.  A panic of the compiler,   *)
(* when the dialect does not support a node, is the piece "unsupported".   *)
(***************************************************************************)
EXTENDS IndexStatements

Dialects == {"base", "postgres", "mysql", "sqlite", "sqlserver", "oracle"}

\* Placeholder names the position of the argument; elsewhere it is only "?".
Numbered == {"postgres", "sqlserver", "oracle"}

-----------------------------------------------------------------------------
(* Pieces of a statement.                                                  *)

Query(i)    == <<"query", i>>
Operand(i)  == <<"operand", i>>
Body(i)     == <<"body", i>>
Number(n)   == <<"number", n>>

\* compileTable
TablePieces(t) ==
  <<Id(t.name)>> \o (IF t.alias = 0 THEN <<>> ELSE <<Sym("AS"), Id(t.alias)>>)

TableList(ts) ==
  FlattenSeq([i \in DOMAIN ts |-> (IF i = 1 THEN <<>> ELSE <<Sym(",")>>) \o TablePieces(ts[i])])

TableClause(words, ts) == IF ts = <<>> THEN <<>> ELSE <<Sym(words)>> \o TableList(ts)

\* Nodes of queries that a dialect refuses.
Refused(d) ==
  CASE d = "mysql"  -> {"RETURNING", "FULL JOIN"}
    [] d = "sqlite" -> {"USING"}
    [] d \in {"oracle", "sqlserver"} -> {"RETURNING"}
    [] OTHER -> {}

Direction(e) == IF e.direction = "" THEN <<>> ELSE <<Sym(e.direction)>>

\* compileMySQLOrder
MySQLOrder(e) ==
  <<Node(e.a), Sym(IF e.nulls = "FIRST" THEN "IS NOT NULL" ELSE "IS NULL"), Sym(","), Node(e.a)>>
    \o Direction(e)

\* compileSQLServerOrder
SQLServerOrder(e) ==
  <<Sym("CASE WHEN"), Node(e.a),
    Sym(IF e.nulls = "FIRST" THEN "IS NULL THEN 0 ELSE 1 END" ELSE "IS NULL THEN 1 ELSE 0 END"),
    Sym(","), Node(e.a)>> \o Direction(e)

\* compileOrderItem
OrderPieces(d, e) ==
  CASE e.nulls # "" /\ d = "mysql"     -> MySQLOrder(e)
    [] e.nulls # "" /\ d = "sqlserver" -> SQLServerOrder(e)
    [] OTHER -> <<Node(e.a)>> \o Direction(e)
                  \o (IF e.nulls = "" THEN <<>> ELSE <<Sym("NULLS"), Sym(e.nulls)>>)

NodePieces(d, e) == IF e.k = "order" THEN OrderPieces(d, e) ELSE ExpressionPieces(e)

\* Mutant of MySQLLimitOffset: the two numbers are taken for those of LIMIT
\* and OFFSET.
LimitFirst(l, o) == <<Sym("LIMIT"), Number(l), Sym(","), Number(o)>>

\* compileMySQLLimitOffset, of a limit and an offset that are not both 0
MySQLLimitOffset(l, o) ==
  CASE l > 0 /\ o > 0 -> <<Sym("LIMIT"), Number(o), Sym(","), Number(l)>>
    [] l > 0 /\ o = 0 -> <<Sym("LIMIT"), Number(l)>>
    [] l = 0           -> <<Sym("LIMIT"), Sym("all"), Sym("OFFSET"), Number(o)>>

\* compileOracleLimitOffset
OracleLimitOffset(l, o) ==
  CASE l > 0 /\ o > 0 -> <<Sym("OFFSET"), Number(o), Sym("ROWS FETCH NEXT"), Number(l)>>
    [] l > 0 /\ o = 0 -> <<Sym("FETCH FIRST"), Number(l)>>
    [] l = 0           -> <<Sym("OFFSET"), Number(o), Sym("ROWS")>>

\* compileSQLServerLimitOffset
SQLServerLimitOffset(l, o) ==
  IF l > 0 THEN <<Sym("OFFSET"), Number(o), Sym("ROWS FETCH NEXT"), Number(l)>>
  ELSE <<Sym("OFFSET"), Number(o), Sym("ROWS")>>

LimitOffset(l, o) ==
  (IF l = 0 THEN <<>> ELSE <<Sym("LIMIT"), Number(l)>>)
    \o (IF o = 0 THEN <<>> ELSE <<Sym("OFFSET"), Number(o)>>)

\* compileSQLITELimitOffset
SQLiteLimitOffset(l, o) ==
  IF l = 0 THEN <<Sym("LIMIT"), Sym("all"), Sym("OFFSET"), Number(o)>> ELSE LimitOffset(l, o)

\* compileLimitOffset.  A number that is not positive is as none.
LimitOffsetPieces(d, v) ==
  LET l == Max({0, v.limit})
      o == Max({0, v.offset})
  IN  CASE l = 0 /\ o = 0   -> <<>>
        [] l + o > 0 /\ d = "mysql"     -> MySQLLimitOffset(l, o)
        [] l + o > 0 /\ d = "oracle"    -> OracleLimitOffset(l, o)
        [] l + o > 0 /\ d = "sqlserver" -> SQLServerLimitOffset(l, o)
        [] l + o > 0 /\ d = "sqlite"    -> SQLiteLimitOffset(l, o)
        [] OTHER -> LimitOffset(l, o)

WherePieces(words, ps) == IF ps = <<>> THEN <<>> ELSE <<Sym(words)>> \o PredicatesPieces(ps)

\* compileJoinNode
JoinPieces(d, j) ==
  IF j.type \in Refused(d) THEN <<Unsupported>>
  ELSE <<Sym(j.type)>> \o TablePieces(j.table)
         \o (IF j.predicates = <<>> THEN <<>> ELSE <<Sym("ON")>> \o JoinPredicatesPieces(j.predicates))

\* compileFrom: without a table to start from, the first table that is joined
\* takes that place, and what it is joined on is not written.
FromPieces(d, v) ==
  LET tables == SortedTables(v.tables)
      joins  == Items(v, "joins")
      rest   == IF tables = <<>> THEN Tail(joins) ELSE joins
  IN  IF tables = <<>> /\ joins = <<>> THEN <<>>
      ELSE <<Sym("FROM")>>
             \o (IF tables = <<>> THEN TablePieces(joins[1].table) ELSE TableList(tables))
             \o FlattenSeq([i \in DOMAIN rest |-> JoinPieces(d, rest[i])])

\* compileSelect
SelectPieces(d, v) ==
  <<Sym("SELECT")>> \o NodeList(Items(v, "columns"), ",")
    \o FromPieces(d, v)
    \o WherePieces("WHERE", Items(v, "where"))
    \o Clause("GROUP BY", Items(v, "groupBy"))
    \o WherePieces("HAVING", Items(v, "having"))
    \o Clause("ORDER BY", Items(v, "orderBy"))
    \o LimitOffsetPieces(d, v)

\* compileCompound
CompoundPieces(d, v) ==
  <<Operand(v.left), Sym(IF v.all THEN "UNION ALL" ELSE "UNION"), Operand(v.right)>>
    \o Clause("ORDER BY", Items(v, "orderBy"))
    \o LimitOffsetPieces(d, v)

\* compileSetOperand
OperandPieces(d, v) ==
  CASE v.kind = "select"   ->
         IF v.part["orderBy"].len > 0 \/ v.limit # 0 \/ v.offset # 0
         THEN InParentheses(SelectPieces(d, v))
         ELSE SelectPieces(d, v)
    [] v.kind = "compound" -> InParentheses(CompoundPieces(d, v))
    [] v.kind = "cte"      -> <<Operand(refs[v.ref].query)>>

ReturningPieces(d, v) ==
  IF v.part["returning"].len = 0 THEN <<>>
  ELSE IF "RETURNING" \in Refused(d) THEN <<Unsupported>>
  ELSE Clause("RETURNING", Items(v, "returning"))

\* compileInsertColumns
ColumnNames(cols) ==
  IF cols = <<>> THEN <<>>
  ELSE InParentheses(Separated([i \in DOMAIN cols |-> Id(cols[i].name)], ","))

\* compileInsertRows
RowsPieces(rows) ==
  FlattenSeq([i \in DOMAIN rows |->
                (IF i = 1 THEN <<>> ELSE <<Sym(",")>>)
                  \o InParentheses(NodeList(Elements(heap, rows[i]), ","))])

\* compileInsert
InsertPieces(d, v) ==
  LET rows == Items(v, "rows")
  IN  <<Sym("INSERT INTO")>> \o TablePieces(v.table) \o ColumnNames(Items(v, "columns"))
        \o (CASE v.defaults \/ (v.source = 0 /\ rows = <<>>) ->
                   IF d = "mysql" THEN <<Sym("("), Sym(")"), Sym("VALUES"), Sym("("), Sym(")")>>
                   ELSE <<Sym("DEFAULT VALUES")>>
              [] ~v.defaults /\ v.source # 0 -> <<Query(v.source)>>
              [] OTHER -> <<Sym("VALUES")>> \o RowsPieces(rows))
        \o ReturningPieces(d, v)

\* compileUpdateTargetNode, compileUpdateFromNode: MySQL lists the tables
\* with the target.
UpdateTarget(d, v) == TableList(<<v.table>> \o (IF d = "mysql" THEN Items(v, "from") ELSE <<>>))
UpdateFrom(d, v) == IF d = "mysql" THEN <<>> ELSE TableClause("FROM", Items(v, "from"))

\* compileUpdateAssignments
AssignmentPieces(as) ==
  FlattenSeq([i \in DOMAIN as |->
                (IF i = 1 THEN <<>> ELSE <<Sym(",")>>)
                  \o <<Id(as[i].column.name), Sym("="), Node(as[i].value)>>])

\* compileUpdate
UpdatePieces(d, v) ==
  <<Sym("UPDATE")>> \o UpdateTarget(d, v)
    \o <<Sym("SET")>> \o AssignmentPieces(Items(v, "assignments"))
    \o UpdateFrom(d, v)
    \o WherePieces("WHERE", Items(v, "where"))
    \o ReturningPieces(d, v)

\* compileDeleteTargetNode, compileDeleteUsingNode
DeleteTarget(d, v) ==
  LET using == Items(v, "using")
  IN  CASE using # <<>> /\ "USING" \in Refused(d) -> <<Unsupported>>
        [] using # <<>> /\ d = "mysql" ->
             <<Sym("DELETE"), Id(SQLName(v.table)), Sym("FROM")>> \o TableList(<<v.table>> \o using)
        [] OTHER -> <<Sym("DELETE FROM")>> \o TablePieces(v.table) \o TableClause("USING", using)

\* compileDelete
DeletePieces(d, v) ==
  DeleteTarget(d, v) \o WherePieces("WHERE", Items(v, "where")) \o ReturningPieces(d, v)

\* compileQueryNode, compileQueryExpression
StatementPieces(d, v) ==
  CASE v.kind = "select"   -> SelectPieces(d, v)
    [] v.kind = "compound" -> CompoundPieces(d, v)
    [] v.kind = "cte"      -> <<Query(refs[v.ref].query)>>
    [] v.kind = "insert"   -> InsertPieces(d, v)
    [] v.kind = "update"   -> UpdatePieces(d, v)
    [] v.kind = "delete"   -> DeletePieces(d, v)
    [] v.kind = "alter"    -> AlterPieces(d, v)
    [] v.kind = "create"   -> CreateTablePieces(v)
    [] v.kind = "column"   -> ColumnPieces(v, TRUE)
    [] v.kind = "index"    -> CreateIndexPieces(d, v)
    [] v.kind = "drop"     -> DropPieces(d, v)
    [] v.kind = "rename"   -> RenamePieces(d, v)

\* compileCTE
CTEPieces(r) ==
  LET cols == refs[r].columns
  IN  <<Id(refs[r].name)>>
        \o (IF cols = <<>> THEN <<>>
            ELSE InParentheses(Separated([i \in DOMAIN cols |-> Id(cols[i])], ",")))
        \o <<Sym("AS")>> \o InParentheses(<<Body(refs[r].query)>>)

\* compileWith
WithPieces(v) ==
  LET ctes == Declared(v)
  IN  IF ctes = <<>> THEN <<>>
      ELSE <<Sym(IF RecursiveClause(v) THEN "WITH RECURSIVE" ELSE "WITH")>>
             \o FlattenSeq([i \in DOMAIN ctes |->
                              (IF i = 1 THEN <<>> ELSE <<Sym(",")>>) \o CTEPieces(ctes[i])])

-----------------------------------------------------------------------------
(* Compiling.                                                              *)

NoText == [out |-> <<>>, args |-> <<>>, unsupported |-> FALSE]

Write(c, token) == [c EXCEPT !.out = Append(@, token)]

\* AddArg.  A placeholder is <<"placeholder", position>>, 0 where the dialect
\* counts them; the third member is the value that it was written for.
AddArg(d, c, value) ==
  LET args == Append(c.args, value)
  IN  [c EXCEPT !.args = args,
                !.out = Append(@, <<"placeholder", IF d \in Numbered THEN Len(args) ELSE 0, value>>)]

\* Mutant of SubCompiler: the body collects its arguments by itself.
OwnArguments(c) == NoText

\* newSubCompiler: another text, the same arguments
SubCompiler(c) == [c EXCEPT !.out = <<>>]

\* Compile
RECURSIVE Compile(_, _, _)
Compile(d, c, pieces) ==
  IF pieces = <<>> THEN c
  ELSE LET p    == Head(pieces)
           body == Compile(d, SubCompiler(c), StatementPieces(d, vals[p[2]]))
           next == CASE p[1] = "unsupported" -> [c EXCEPT !.unsupported = TRUE]
                     [] p[1] = "arg"     -> AddArg(d, c, p[2])
                     [] p[1] = "node"    -> Compile(d, c, NodePieces(d, p[2]))
                     [] p[1] = "query"   -> Compile(d, c, StatementPieces(d, vals[p[2]]))
                     [] p[1] = "operand" -> Compile(d, c, OperandPieces(d, vals[p[2]]))
                     [] p[1] = "body"    -> [body EXCEPT !.out = c.out \o body.out]
                     [] OTHER            -> Write(c, p)
       IN  Compile(d, next, Tail(pieces))

\* Render.  A common table expression is rendered as a part of others only.
Render(d, v) ==
  LET c == Compile(d, NoText, WithPieces(v) \o StatementPieces(d, v))
  IN  IF c.unsupported THEN [NoText EXCEPT !.unsupported = TRUE] ELSE c
=============================================================================
