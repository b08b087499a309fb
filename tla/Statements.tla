----------------------------- MODULE Statements ------------------------------
(***************************************************************************)
(* Programs that build statements.  A program calls one method after       *)
(* another; each call makes a new statement, or a new common table         *)
(* expression, of the earlier ones, all of which the program keeps and may *)
(* use again.  The properties are about what the statements render to.     *)
(*                                                                         *)
(* ALTER TABLE is built in the same way, but its methods do not copy.      *)
(***************************************************************************)
EXTENDS QueryCompiler, SqlText

CONSTANTS
  Tables,   \* the tables of the program's models, as TableRefs
  Programs, \* sequences of [methods, width]: what may be called, and how wide
            \* the choice of arguments is, from 0 to 2
  MaxRefs   \* bound on the common table expressions of a program

ASSUME ProgramsAssumption ==
  /\ MaxRefs \in Nat
  /\ \A t \in Tables : t.cte = 0
  /\ \A p \in Programs : \A i \in DOMAIN p : p[i].width \in 0 .. 2

VARIABLES
  todo,    \* the calls that are left
  rendered \* what a statement is rendered to: its place in vals and, of each
           \* dialect, the text and the arguments

vars == <<heap, vals, refs, todo, rendered>>

NothingRendered == [of |-> 0, by |-> <<>>]

Calling(m) ==
  /\ todo # <<>>
  /\ m \in Head(todo).methods
  /\ todo' = Tail(todo)
  /\ UNCHANGED rendered

\* An argument of this call, unlike that of any other.
Arg(n) == 10 * Len(todo) + n

CTEName(r) == 10 + r

Sources == Tables \cup {CTETable(r) : r \in DOMAIN refs}

\* Values of Param in a tree.
RECURSIVE ArgsOf(_)
ArgsOf(e) ==
  IF e.k = "param" THEN {e.value} ELSE UNION {ArgsOf(c) : c \in ToSet(Children(e))}
ArgsOfAll(es) == UNION {ArgsOf(e) : e \in ToSet(es)}

\* The call makes the statement of c and gave it es for its part p.
Makes(c, p, es) ==
  /\ heap' = c.heap
  /\ vals' = Append(vals, [c.v EXCEPT !.asked = @ \cup ({p} \X ArgsOfAll(es))])
  /\ UNCHANGED refs

Built(kinds) == {i \in DOMAIN vals : vals[i].kind \in kinds}

-----------------------------------------------------------------------------
(* The arguments that calls are given.                                     *)

Equal(t)  == Compare("=", Column(t, 1), Param(Arg(1)))
Either(t) == Logical("OR", <<Equal(t), Compare("<", Column(t, 2), Param(Arg(2)))>>)

Arithmetic == {"+", "-", "*", "/"}

\* Expressions and predicates of two operators, in both groupings; kind is that
\* of their values, "param" or "literal".
Sums(t, kind) ==
  LET x == Column(t, 1)
      y == Column(t, 2)
      n == [k |-> kind, value |-> Arg(1)]
  IN  {Binary(o, Binary(p, x, n), y) : o \in Arithmetic, p \in Arithmetic}
        \cup {Binary(o, x, Binary(p, n, y)) : o \in Arithmetic, p \in Arithmetic}

Trees(t, kind) ==
  LET value(n) == [k |-> kind, value |-> Arg(n)]
      a == Compare("=", Column(t, 1), value(1))
      b == Compare("<", Binary("-", Column(t, 2), Literal(1)), value(2))
      c == Compare("LIKE", Column(t, 1), value(3))
      combined == {Logical(o, <<Logical(p, <<a, b>>), c>>) : o \in {"AND", "OR"}, p \in {"AND", "OR"}}
                    \cup {Logical(o, <<a, Logical(p, <<b, c>>)>>) : o \in {"AND", "OR"}, p \in {"AND", "OR"}}
  IN  {Compare("=", s, Column(t, 2)) : s \in Sums(t, kind)}
        \cup {Compare("<", Column(t, 2), s) : s \in Sums(t, kind)}
        \cup combined
        \cup {Logical(o, <<q, Logical("AND", <<a, IsNull(Column(t, 2))>>)>>) :
                o \in {"AND", "OR"}, q \in combined}

\* What WHERE, HAVING and ON are given.
Predicates(t) ==
  LET conditions == IF Head(todo).width = 0 THEN {TRUE} ELSE BOOLEAN
  IN  IF Head(todo).width = 2 THEN {<<p>> : p \in Trees(t, "param")} \cup {<<p, Either(t)>> : p \in Trees(t, "param")}
      ELSE {<<Equal(t)>>}
             \cup {Chosen(<<When(c, Either(t)), When(c, IsNull(Column(t, 2)))>>) : c \in conditions}

\* What SELECT and RETURNING are given.
Selected(t) ==
  {<<Alias(Binary("+", Column(t, 1), Param(Arg(3))), 30), Star>>}
    \cup (IF Head(todo).width = 0 THEN {} ELSE {<<Column(t, 1)>>})
    \cup (IF Head(todo).width < 2 THEN {}
          ELSE {<<Over(Function("LAG", <<Column(t, 1), Param(Arg(1))>>), <<Column(t, 2)>>,
                       <<Order(Binary("+", Column(u, 1), Param(Arg(2))), "DESC", "LAST")>>,
                       <<"ROWS", "UNBOUNDED PRECEDING">>)>> : u \in Sources}
               \cup {<<Function("COUNT", <<Distinct(Column(t, 1))>>), Param(Arg(1))>>,
                     <<Param(Arg(1))>>})

Ordered(t) ==
  {<<Order(Column(t, 1), "ASC", "")>>,
   <<Order(Binary("-", Column(t, 1), Param(Arg(4))), "DESC", "FIRST")>>}

-----------------------------------------------------------------------------
(* Calls.                                                                  *)

CallSelect ==
  /\ Calling("Select")
  /\ \E t \in Sources : \E es \in Selected(t) : Makes(Select(es), "columns", es)

CallWhere ==
  /\ Calling("Where")
  /\ \E i \in Built({"select"}), t \in Sources : \E ps \in Predicates(t) :
       Makes(SelectAdd(vals[i], "where", ps), "where", ps)

CallHaving ==
  /\ Calling("Having")
  /\ \E i \in Built({"select"}), t \in Sources : \E ps \in Predicates(t) :
       Makes(SelectAdd(vals[i], "having", ps), "having", ps)

CallGroupBy ==
  /\ Calling("GroupBy")
  /\ \E i \in Built({"select"}), t \in Sources :
       LET es == <<Column(t, 2)>> IN Makes(SelectAdd(vals[i], "groupBy", es), "groupBy", es)

CallOrderBy ==
  /\ Calling("OrderBy")
  /\ \E i \in Built({"select", "compound"}), t \in Sources : \E es \in Ordered(t) :
       Makes(IF vals[i].kind = "select" THEN SelectAdd(vals[i], "orderBy", es)
             ELSE CompoundOrderBy(vals[i], es), "orderBy", es)

CallJoin ==
  /\ Calling("Join")
  /\ \E i \in Built({"select"}), t \in Sources,
        type \in {"LEFT JOIN"} \cup (IF Head(todo).width = 2 THEN {"FULL JOIN"} ELSE {}) :
       \E ps \in Predicates(t) : Makes(SelectJoin(vals[i], type, t, ps), "joins", ps)

CallCrossJoin ==
  /\ Calling("CrossJoin")
  /\ \E i \in Built({"select"}), t \in Sources :
       Makes(SelectJoin(vals[i], "CROSS JOIN", t, <<>>), "joins", <<>>)

CallPage ==
  /\ Calling("Page")
  /\ \E i \in Built({"select", "compound"}), n \in {0, 7} :
       \/ Makes(Limited(vals[i], n), "limit", <<>>)
       \/ Makes(Offsetted(vals[i], n + 1), "offset", <<>>)

CallUnion ==
  /\ Calling("Union")
  /\ \E i, j \in {k \in DOMAIN vals : IsQuery(vals[k])},
        all \in {FALSE} \cup (IF Head(todo).width = 0 THEN {} ELSE {TRUE}) :
       Makes(Union(i, all, j), "operands", <<>>)

\* CTE, of a new name or, as a recursive query is built, of an earlier one.
CallCTE ==
  /\ Len(refs) < MaxRefs
  /\ \E method \in {"CTE", "RecursiveCTE"} :
       /\ Calling(method)
       /\ \E i \in Built({"select", "compound"}),
             n \in {Len(refs) + 1} \cup (IF Head(todo).width = 2 THEN DOMAIN refs ELSE {}) :
            refs' = Append(refs, [MakeCTE(CTEName(n), i) EXCEPT !.recursive = method = "RecursiveCTE"])
  /\ vals' = Append(vals, [Blank("cte") EXCEPT !.ref = Len(refs) + 1])
  /\ UNCHANGED heap

\* WithColumns and Recursive change the reference itself.
CallChangeCTE ==
  /\ Calling("ChangeCTE")
  /\ \E r \in DOMAIN refs :
       \/ refs' = [refs EXCEPT ![r].columns = Append(@, 20 + Len(@))]
       \/ refs' = [refs EXCEPT ![r].recursive = TRUE]
  /\ UNCHANGED <<heap, vals>>

CallChange(kind) ==
  /\ Calling(kind)
  /\ \E t \in Tables : Makes(Into(kind, t), "table", <<>>)

\* A model with columns of t, from the first to the last.
Model(t, first, last) ==
  [i \in 1 .. last - first + 1 |->
     [column |-> Column(t, first + i - 1), value |-> Param(Arg(last + i))]]

\* The values of models whose column, or one of its name, is in the list.
Kept(models, c) ==
  LET names  == {col.name : col \in ToSet(Elements(c.heap, c.v.part["columns"]))}
      listed == SelectSeq(FlattenSeq(models), LAMBDA f : f.column.name \in names)
  IN  [i \in DOMAIN listed |-> listed[i].value]

CallInsert ==
  \E i \in Built({"insert"}) :
    LET v    == vals[i]
        a    == Param(Arg(1))
        b    == Param(Arg(2))
        cols == {Column(v.table, 1)} \cup (IF Head(todo).width = 0 THEN {} ELSE {Column(v.table, 2)})
    IN  \/ Calling("Columns") /\ \E col \in cols : Makes(InsertColumns(v, <<col>>), "columns", <<>>)
        \/ /\ Calling("Values")
           /\ \E rows \in {<<>>, <<<<a, Default>>>>, <<<<a, Literal(3)>>, <<b, Default>>>>} :
                Makes(InsertValues(v, rows), "rows", FlattenSeq(rows))
        \/ Calling("Set") /\ \E col \in cols : Makes(InsertSet(v, col, a), "rows", <<a>>)
        \/ /\ Calling("ValuesFrom")
           /\ \E models \in {<<>>, <<Model(v.table, 1, 2), <<>>, Model(NoTable, 1, 1)>>} :
                LET c == InsertFrom(v, models) IN Makes(c, "rows", Kept(models, c))
        \/ Calling("DefaultValues") /\ Makes(InsertDefaultValues(v), "rows", <<>>)
        \/ /\ Calling("FromSelect")
           /\ \E j \in {k \in DOMAIN vals : IsQuery(vals[k])} :
                Makes(InsertFromSelect(v, j), "rows", <<>>)

CallReturning ==
  /\ Calling("Returning")
  /\ \E i \in Built({"insert", "update", "delete"}) : \E es \in Selected(vals[i].table) :
       Makes(Returning(vals[i], es), "returning", es)

CallUpdate ==
  \E i \in Built({"update"}), t \in Sources :
    LET v   == vals[i]
        one == [column |-> Column(v.table, 1), value |-> Binary("+", Column(t, 2), Param(Arg(1)))]
        two == [column |-> Column(v.table, 2), value |-> Param(Arg(2))]
    IN  /\ Calling("Assign")
        /\ \E as \in {<<>>, <<one>>, <<one, two>>} :
             Makes(UpdateSet(v, as), "assignments", [k \in DOMAIN as |-> as[k].value])

\* From and Using
CallFrom ==
  /\ Calling("From")
  /\ \E i \in Built({"update", "delete"}), t \in Sources :
       Makes(UseTables(vals[i], <<t>>), "from", <<>>)

CallChangeWhere ==
  /\ Calling("ChangeWhere")
  /\ \E i \in Built({"update", "delete"}), t \in Sources : \E ps \in Predicates(t) :
       Makes(ChangeWhere(vals[i], ps), "where", ps)

-----------------------------------------------------------------------------

Init ==
  /\ heap = <<>>
  /\ vals = <<>>
  /\ refs = <<>>
  /\ todo \in Programs
  /\ rendered = NothingRendered

CallColumn ==
  /\ Calling("column")
  /\ \E name \in {1, 2} :
       Makes([heap |-> heap, v |-> ColumnDef(name, Arg(1))], "def", <<>>)

\* Another column, made of one.
CallDefine ==
  /\ Calling("Define")
  /\ \E i \in Built({"column"}) :
       LET v   == vals[i]
           def == v.def
           target == [table |-> 1, columns |-> <<2>>]
       IN  \/ Makes(CheckedColumn(v, Arg(1)), "def", <<>>)
           \/ /\ Head(todo).width > 0
              /\ \/ \E d \in {[def EXCEPT !.pk = TRUE], [def EXCEPT !.uq = TRUE]} :
                      Makes(Marked(v, d), "def", <<>>)
                 \/ \E d \in {[def EXCEPT !.default = Arg(2)], [def EXCEPT !.references = <<target>>]} :
                      Makes(WithOptions(v, d), "def", <<>>)
           \/ /\ Head(todo).width = 2
              /\ \/ \E null \in BOOLEAN : Makes(Marked(v, [def EXCEPT !.notNull = ~null]), "def", <<>>)
                 \/ \E d \in {[def EXCEPT !.identity = "ALWAYS"], [def EXCEPT !.generated = "STORED"],
                              [def EXCEPT !.references = <<[target EXCEPT !.columns = <<>>]>>]} :
                      Makes(WithOptions(v, d), "def", <<>>)

Constraints ==
  IF Head(todo).width = 0 THEN {Unique(<<Arg(1)>>)}
  ELSE {[PrimaryKey(<<1, 2>>) EXCEPT !.name = <<Arg(1)>>],
        ForeignKey(<<1>>, 2, <<1, 2>>),
        [ForeignKey(<<2, 1>>, 2, <<1, 2>>) EXCEPT !.onDelete = "CASCADE"],
        Check(Raw(Arg(1)))}

Checks == IF Head(todo).width = 2 THEN {Check(p) : p \in Trees(NoTable, "literal")} ELSE {}

CallCreateTable ==
  /\ Calling("create")
  /\ \E t \in Tables : Makes(CreateTable(t), "table", <<>>)

CallCreate ==
  \E i \in Built({"create"}) :
    LET v == vals[i]
    IN  \/ Calling("Column") /\ \E j \in Built({"column"}) : Makes(CreateColumns(v, <<vals[j]>>), "defs", <<>>)
        \/ Calling("Constraint") /\ \E c \in Constraints \cup Checks : Makes(CreateConstraints(v, <<c>>), "constraints", <<>>)
        \/ Calling("IfNotExists") /\ Makes(CreateIfNotExists(v), "def", <<>>)

CallAlterTable ==
  /\ Calling("alter")
  /\ \E t \in Tables : Makes(AlterTable(t), "table", <<>>)

CallAlter ==
  \E i \in Built({"alter"}) :
    LET v     == vals[i]
        added == {AddColumn(vals[j], ifs) : j \in Built({"column"}), ifs \in BOOLEAN}
                   \cup {AddConstraint(v.table, c) : c \in Constraints}
    IN  /\ Calling("Alter")
        /\ \E op \in IF Head(todo).width < 2 THEN {Operation("DROP COLUMN", Arg(1), 0, FALSE)}
                     ELSE AlterOperations(Arg(1)) \cup added :
             Makes(Altered(v, op), "operations", <<>>)

CallIndex ==
  /\ Calling("index")
  /\ \E keys \in {<<>>, <<IndexKey(Column(NoTable, 1), <<"DESC", "NULLS LAST">>),
                          IndexKey(Column(NoTable, 2), <<>>)>>}
                   \cup (IF Head(todo).width = 0 THEN {}
                         ELSE {<<IndexKey(e, <<"ASC">>)>> :
                                 e \in {Function("ABS", <<Binary("-", Literal(Arg(1)), Column(NoTable, 1))>>)}
                                         \cup Sums(NoTable, "literal")}) :
       Makes(CreateIndex(Arg(1), TableRef(1, 0, 0), keys), "def", <<>>)

CallIndexOption ==
  /\ Calling("Option")
  /\ \E i \in Built({"index"}) :
       LET v   == vals[i]
           def == v.def
       IN  \/ Makes(IndexStorage(v, Arg(1)), "with", <<>>)
           \/ /\ Head(todo).width > 0
              /\ \/ Makes(IndexInclude(v, <<1, Arg(2)>>), "include", <<>>)
                 \/ \E d \in {[def EXCEPT !.method = "hash"], [def EXCEPT !.where = <<Compare("<", Column(NoTable, 1), Literal(Arg(1)))>>]}
                              \cup {[def EXCEPT !.says = @ \cup {w}] :
                                      w \in {"UNIQUE", "CONCURRENTLY", "INVISIBLE"}} :
                      Makes(IndexOptions(v, d), "def", <<>>)

CallDrop ==
  /\ Calling("drop")
  /\ \E says \in {{}, {"IF EXISTS"}}, behavior \in {"", "CASCADE", "RESTRICT"} :
       \/ Makes(Dropped("DROP TABLE", <<1, 2>>, <<>>, says, behavior), "def", <<>>)
       \/ \E table \in {<<>>, <<1>>} : Makes(Dropped("DROP INDEX", <<3>>, table, says, behavior), "def", <<>>)

CallRenameIndex ==
  /\ Calling("rename")
  /\ \E table \in {<<>>, <<1>>} : Makes(RenamedIndex(3, 4, table), "def", <<>>)

\* Render, in the end, of any statement that the program has built
CallRender ==
  /\ todo = <<>>
  /\ rendered = NothingRendered
  /\ \E i \in DOMAIN vals :
       /\ vals[i].kind # "cte"
       /\ rendered' = [of |-> i, by |-> [d \in Dialects |-> Render(d, vals[i])]]
  /\ UNCHANGED <<heap, vals, refs, todo>>

Next ==
  \/ CallSelect \/ CallWhere \/ CallHaving \/ CallGroupBy \/ CallOrderBy
  \/ CallJoin \/ CallCrossJoin \/ CallPage \/ CallUnion \/ CallCTE \/ CallChangeCTE
  \/ \E kind \in {"insert", "update", "delete"} : CallChange(kind)
  \/ CallInsert \/ CallReturning \/ CallUpdate \/ CallFrom \/ CallChangeWhere
  \/ CallColumn \/ CallDefine \/ CallCreateTable \/ CallCreate \/ CallAlterTable \/ CallAlter
  \/ CallIndex \/ CallIndexOption \/ CallDrop \/ CallRenameIndex \/ CallRender

Spec == Init /\ [][Next]_vars

-----------------------------------------------------------------------------
(* What is asked of a statement that is rendered.  What the calls after it  *)
(* may do to it is in OthersUntouched.                                     *)

Shown   == vals[rendered.of]
Text(d) == rendered.by[d].out

Shows(kinds) == rendered.of # 0 /\ Shown.kind \in kinds
Changes == {"insert", "update", "delete"}
StatementKinds == {"select", "compound"} \cup Changes

\* A statement with its operands and its source.
RECURSIVE Nested(_)
Nested(i) ==
  LET v == vals[i]
      direct == ({v.left, v.right, v.source} \ {0}) \cup (IF v.ref = 0 THEN {} ELSE {refs[v.ref].query})
  IN  {i} \cup UNION {Nested(j) : j \in direct}

\* The statements in the text of a statement.
Within(i) == Nested(i) \cup UNION {Nested(refs[r].query) : r \in ToSet(Declared(vals[i]))}

\* A SELECT that has nothing to start from but a table that it joins.
OnlyJoins(v) ==
  v.kind = "select" /\ v.tables = {} /\ v.part["joins"].len > 0

\* No argument that a call gave is lost and none is invented, in the statement
\* and in those that it contains.  A SELECT of only joined tables
\* is apart: the condition of its first join is not written.
NothingLost ==
  \/ ~Shows(StatementKinds)
  \/ LET parts == Within(rendered.of)
     IN  \/ \E i \in parts : OnlyJoins(vals[i])
         \/ ToSet(rendered.by["base"].args) \ {0} = UNION {{a[2] : a \in vals[i].asked} : i \in parts}

\* Each placeholder is bound to the value that it was written for, in each
\* dialect, whichever clause, row, operand or common table expression it is in.
PlaceholdersBound ==
  \/ ~Shows(StatementKinds)
  \/ \A d \in Dialects :
       LET c       == rendered.by[d]
           written == SelectSeq(c.out, LAMBDA t : t[1] = "placeholder")
       IN  /\ Len(written) = Len(c.args)
           /\ \A k \in DOMAIN written :
                c.args[IF d \in Numbered THEN written[k][2] ELSE k] = written[k][3]

Contents(v) ==
  [p \in DOMAIN v.part |->
     IF p = "rows" THEN [k \in DOMAIN Items(v, p) |-> Elements(heap, Items(v, p)[k])]
     ELSE Items(v, p)]

\* An ALTER TABLE or CREATE TABLE with a part in an array that a shorter one may
\* still append to.
OutgrewAnother(v) ==
  /\ v.kind \in {"alter", "create"}
  /\ \E w \in ToSet(vals), p \in ToSet(Parts(v.kind)) :
       /\ w.kind = v.kind
       /\ v.part[p].arr # 0
       /\ w.part[p].arr = v.part[p].arr
       /\ w.part[p].len < v.part[p].len

Change ==
  /\ \A i \in DOMAIN vals :
       /\ vals'[i] = vals[i]
       /\ Contents(vals[i])' = Contents(vals[i]) \/ OutgrewAnother(vals[i])
  /\ \A r \in DOMAIN refs :
       /\ refs'[r].query = refs[r].query
       /\ IsPrefix(refs[r].columns, refs'[r].columns)
       /\ refs[r].recursive => refs'[r].recursive

\* A call leaves every earlier statement as it was; of a common table
\* expression, whose reference statements share, it only adds columns to the
\* list and makes it recursive.  An ALTER TABLE or CREATE TABLE is apart that was
\* made of one with room in its array: the next call on that one replaces what
\* it appended.
OthersUntouched == [][Change]_vars

\* x * (y / z) is written without its parentheses, and reads as (x * y) / z.
RECURSIVE DividesUnderProduct(_)
DividesUnderProduct(e) ==
  \/ e.k = "binary" /\ e.op = "*" /\ e.b.k = "binary" /\ e.b.op = "/"
  \/ \E c \in ToSet(Children(e)) : DividesUnderProduct(c)

SameMeaning(tokens, ps) ==
  \/ ps = <<>>
  \/ \E p \in ToSet(ps) : DividesUnderProduct(p)
  \/ TextMeans(tokens) = TreeMeans(IF Len(ps) = 1 THEN ps[1] ELSE Logical("AND", ps))

\* The conditions in WHERE and HAVING are read as they were built: parentheses
\* are where they are needed.  So is ON, unless it combines several predicates
\* and one is an OR.  (Apart from a quotient that is a right factor.)
ReadAsBuilt ==
  LET text == Text("base")
      on   == IF Shown.kind = "select" /\ Shown.part["joins"].len = 1 /\ ~OnlyJoins(Shown)
              THEN Items(Shown, "joins")[1].predicates
              ELSE <<>>
  IN  \/ ~Shows({"select", "update", "delete"})
      \/ /\ SameMeaning(Section(text, {"WHERE"}), Items(Shown, "where"))
         /\ Shown.kind = "select" => SameMeaning(Section(text, {"HAVING"}), Items(Shown, "having"))
         /\ \/ Len(on) > 1 /\ \E p \in ToSet(on) : p.k = "logical" /\ p.op = "OR"
            \/ SameMeaning(Section(text, {"ON"}), on)

\* MySQL reads the operation that drops a constraint as one that drops a column.
DropsInMySQL(d, ops) == d = "mysql" /\ \E k \in DOMAIN ops : ops[k].does = "DROP CONSTRAINT"

\* A check of a constraint is kept by what it means; a constraint without a
\* name gets one.
SameConstraint(read, c) ==
  LET divides == \E p \in ToSet(c.check) : DividesUnderProduct(p)
      means   == [i \in DOMAIN c.check |-> TreeMeans(c.check[i])]
  IN  read = [c EXCEPT !.check = IF divides THEN read.check ELSE means,
                       !.name  = IF @ = <<>> THEN read.name ELSE @]

AskedColumn(v) == [def |-> v.def, checks |-> Items(v, "checks")]

SameOperation(read, table, op) ==
  LET names == IF op.does \in {"RENAME COLUMN", "RENAME CONSTRAINT", "ALTER TYPE", "SET DEFAULT"}
               THEN <<op.name, op.to>>
               ELSE <<op.name>>
  IN  /\ read[1] = table /\ read[2] = op.does
      /\ CASE op.does = "ADD COLUMN"     -> read[3] = AskedColumn(op.adds[1])
           [] op.does = "ADD CONSTRAINT" -> SameConstraint(read[3], op.adds[1])
           [] OTHER                      -> read[3] = names

\* Each dialect does the operations of an ALTER TABLE, on its table and in the
\* order of the calls, or refuses the statement.
AltersAsAsked ==
  \/ ~Shows({"alter"})
  \/ \A d \in Dialects :
       LET c    == rendered.by[d]
           ops  == Items(Shown, "operations")
           read == ReadAlter(d, c.out)
       IN  \/ c.unsupported
           \/ DropsInMySQL(d, ops)
           \/ /\ Len(read) = Len(ops)
              /\ \A k \in DOMAIN ops : SameOperation(read[k], Shown.table.name, ops[k])

\* The constraints that a column asks for.
Wants(v) ==
  LET def == v.def
  IN  {c \in {PrimaryKey(<<def.name>>)} : def.pk} \cup {c \in {Unique(<<def.name>>)} : def.uq}
        \cup {Check(Raw(sql)) : sql \in ToSet(Items(v, "checks"))}
        \cup {ForeignKey(<<def.name>>, r.table, r.columns) : r \in ToSet(def.references)}

WithoutKeys(v) == [def |-> [v.def EXCEPT !.pk = FALSE, !.uq = FALSE, !.references = <<>>], checks |-> <<>>]

\* A CREATE TABLE has the columns of its calls, in their order, and for each of
\* them the same keys, checks and references that the column has when it is
\* added by ALTER TABLE; with them the constraints of the table, and no others.
CreatesAsAsked ==
  LET text == Text("base")
      read == ReadCreate(text)
      defs == Items(Shown, "defs")
      cs   == UNION {Wants(v) : v \in ToSet(defs)} \cup ToSet(Items(Shown, "constraints"))
      found == ToSet(read.constraints)
  IN  \/ ~Shows({"column", "create"})
      \/ rendered.by["base"].unsupported
      \/ Shown.kind = "column" /\ ReadColumn(text) = AskedColumn(Shown)
      \/ /\ Shown.kind = "create"
         /\ read.table = Shown.table.name
         /\ read.columns = [i \in DOMAIN defs |-> WithoutKeys(defs[i])]
         /\ \A c \in cs : \E r \in found : SameConstraint(r, c)
         /\ \A r \in found : \E c \in cs : SameConstraint(r, c)

\* Oracle has no CASCADE CONSTRAINTS for an index.
CascadesIndex(d, def) == d = "oracle" /\ def.what = "DROP INDEX" /\ def.behavior = "CASCADE"

SameIndex(read, v) ==
  LET def == v.def
  IN  /\ read.table = v.table.name /\ read.name = def.name
      /\ read.says = def.says /\ read.method = def.method
      /\ read.include = Items(v, "include") /\ read.with = Items(v, "with")
      /\ read.where = [i \in DOMAIN def.where |-> TreeMeans(def.where[i])]
      /\ Len(read.keys) = Len(def.keys)
      /\ \A i \in DOMAIN def.keys :
           /\ read.keys[i].words = def.keys[i].words
           /\ \/ def.keys[i].e.k = "binary"
              \/ read.keys[i].key = <<TreeMeans(def.keys[i].e)>>

\* Each dialect makes, drops or renames the index or the tables as asked, with
\* every option and every predicate, or refuses the statement.  An expression
\* as a key is apart: it is written without the parentheses that it needs.
IndexesAsAsked ==
  \/ ~Shows({"index", "drop", "rename"})
  \/ \A d \in Dialects :
       LET c   == rendered.by[d]
           def == Shown.def
       IN  \/ c.unsupported
           \/ Shown.kind = "index" /\ SameIndex(ReadIndex(c.out), Shown)
           \/ Shown.kind = "drop" /\ (CascadesIndex(d, def) \/ ReadDrop(d, c.out) = def)
           \/ Shown.kind = "rename" /\ ReadRename(d, c.out) = <<def.old, def.new>>

\* The tables that a statement is about.
Mentioned(v) ==
  LET joins  == Items(v, "joins")
      joined == {j.table : j \in ToSet(joins)}
      values == {a.value : a \in ToSet(Items(v, "assignments"))}
      all(ps) == UNION {TablesOfAll(Items(v, p)) : p \in ps}
  IN  CASE v.kind = "select" ->
             all({"columns", "where", "groupBy", "having", "orderBy"}) \cup joined
               \cup UNION {TablesOfAll(j.predicates) : j \in ToSet(joins)}
        [] v.kind = "update" ->
             {v.table} \cup ToSet(Items(v, "from")) \cup all({"where"})
               \cup UNION {TablesOf(e) : e \in values}
        [] v.kind = "delete" -> {v.table} \cup ToSet(Items(v, "using")) \cup all({"where"})
        [] OTHER -> {}

\* Every table that a column of the text names, and every one that the program
\* gave, is in FROM, USING or the target, and there once, unless the program
\* joins it twice; and no other is.
TablesInScope ==
  \/ ~Shows({"select", "update", "delete"})
  \/ /\ Shown.kind = "select"
     /\ LET joins == Items(Shown, "joins")
        IN  \E i, j \in DOMAIN joins : i # j /\ joins[i].table = joins[j].table
  \/ \A d \in {"base", "mysql"} :
       LET c      == rendered.by[d]
           listed == Listed(Section(c.out, {"FROM", "USING", "UPDATE", "DELETE FROM", "JOIN",
                                            "LEFT JOIN", "FULL JOIN", "CROSS JOIN"}))
       IN  \/ c.unsupported
           \/ /\ \A i, j \in DOMAIN listed : listed[i] = listed[j] => i = j
              /\ TablesNamed(c.out) \subseteq ToSet(listed)
              /\ ToSet(listed) = {SQLName(t) : t \in Mentioned(Shown)}

\* A page of the rows is asked for as it was given, in each dialect.
PageIsKept ==
  \/ ~Shows({"select", "compound"})
  \/ \A d \in Dialects :
       LET c == rendered.by[d]
       IN  c.unsupported \/ PageOf(d, c.out) = [limit |-> Shown.limit, offset |-> Shown.offset]

\* A statement declares every common table expression that it or another that
\* it declares uses, once, and no other.  WITH says RECURSIVE if one of those that
\* are used is recursive, though it be declared by another of its name.
CTEsDeclared ==
  \/ ~Shows(StatementKinds)
  \/ LET text     == Text("base")
         declared == DeclaredNames(text)
         names    == {refs[r].name : r \in DOMAIN refs}
         times(n) == Cardinality({i \in DOMAIN text : text[i] = Id(n)})
     IN  /\ \A i, j \in DOMAIN declared : declared[i] = declared[j] => i = j
         /\ \A n \in names : times(n) > 0 <=> n \in ToSet(declared)
         /\ \A n \in ToSet(declared) : times(n) > 1
         /\ (Sym("WITH RECURSIVE") \in ToSet(TopLevel(text, 0)))
              = (\E i \in Within(rendered.of) : \E t \in Mentioned(vals[i]) :
                   t.cte # 0 /\ refs[t.cte].recursive)

\* Common table expressions are declared before those that use them, where WITH
\* does not say RECURSIVE.
CTEsInOrder ==
  \/ ~Shows(StatementKinds)
  \/ LET ctes == Declared(Shown)
     IN  \/ RecursiveClause(Shown)
         \/ \A i \in DOMAIN ctes :
              ToSet(CTEs(vals[refs[ctes[i]].query])) \subseteq ToSet(SubSeq(ctes, 1, i - 1))
=============================================================================
