--------------------------- MODULE QueryBuilders ----------------------------
(***************************************************************************)
(* The builders of SELECT, INSERT, UPDATE and DELETE: what each method     *)
(* makes of the statement it is called on, and the common table            *)
(* expressions that a statement collects.                                  *)
(*                                                                         *)
(* A statement is a value whose parts are slices on the heap.  A method    *)
(* copies the state of its statement, part by part, and changes the copy.  *)
(* A statement that is an operand, the source of an INSERT or the body of  *)
(* a common table expression is named by its place in vals.                *)
(***************************************************************************)
EXTENDS SqlExpressions, FiniteSets

VARIABLES
  heap, \* the arrays behind the slices
  vals, \* the statements that the program has built
  refs  \* the common table expressions: [name, columns, recursive, query]

NoTable == TableRef(0, 0, 0)

\* The parts of a statement, in the order of cloneState.
Parts(kind) ==
  CASE kind = "select"   -> <<"columns", "joins", "where", "groupBy", "having", "orderBy">>
    [] kind = "compound" -> <<"orderBy">>
    [] kind = "insert"   -> <<"columns", "rows", "returning">>
    [] kind = "update"   -> <<"assignments", "from", "where", "returning">>
    [] kind = "delete"   -> <<"using", "where", "returning">>
    [] kind = "alter"    -> <<"operations">>
    [] kind = "create"   -> <<"defs", "constraints">>
    [] kind = "column"   -> <<"checks">>
    [] kind = "index"    -> <<"include", "with">>
    [] kind \in {"cte", "drop", "rename"} -> <<>>

\* A statement without anything.  left and right are operands, source is that
\* of an INSERT, def is what a statement of the package ddl says besides its
\* slices.  asked is not in the code: the arguments given to the calls that
\* built the statement, each with the part it was given for.
Blank(kind) ==
  [kind   |-> kind,
   part   |-> [p \in ToSet(Parts(kind)) |-> NilSlice],
   tables |-> {},
   table  |-> NoTable,
   limit  |-> 0,
   offset |-> 0,
   left   |-> 0,
   right  |-> 0,
   source |-> 0,
   ref    |-> 0,
   all    |-> FALSE,
   defaults |-> FALSE,
   def    |-> <<>>,
   asked  |-> {}]

\* core.QueryExpression
IsQuery(v) == v.kind \in {"select", "compound", "cte"}

-----------------------------------------------------------------------------
(* A method works on c, a heap with the statement it makes.                *)

\* The elements of a part of a statement.
Items(v, p) == Elements(heap, v.part[p])

Pushed(c, p, xs) ==
  LET r == Appended(c.heap, c.v.part[p], xs)
  IN  [heap |-> r.heap, v |-> [c.v EXCEPT !.part[p] = r.slice]]

\* A part that gets an array of its own.
Fresh(c, p) ==
  LET r == Copied(c.heap, c.v.part[p])
  IN  [heap |-> r.heap, v |-> [c.v EXCEPT !.part[p] = r.slice]]

\* Mutant of CloneState: the rows of an INSERT are copied, not what is in them.
CloneShallow(v) == FoldLeft(Fresh, [heap |-> heap, v |-> v], Parts(v.kind))

\* cloneInsertRows
FreshRow(c, i) ==
  LET rows == c.v.part["rows"]
      r    == Copied(c.heap, c.heap[rows.arr][i])
  IN  [c EXCEPT !.heap = [r.heap EXCEPT ![rows.arr][i] = r.slice]]

\* cloneState
CloneState(v) ==
  LET c == FoldLeft(Fresh, [heap |-> heap, v |-> v], Parts(v.kind))
  IN  IF v.kind # "insert" THEN c
      ELSE FoldLeft(FreshRow, c, [i \in 1 .. v.part["rows"].len |-> i])

TablesOfAll(es) == UNION {TablesOf(e) : e \in ToSet(es)}

\* Mutant of RemoveJoinedTables: joined tables stay in the FROM list.
KeepJoinedTables(c) == c

\* removeJoinedTables
RemoveJoinedTables(c) ==
  LET joins == Elements(c.heap, c.v.part["joins"])
  IN  [c EXCEPT !.v.tables = @ \ {j.table : j \in ToSet(joins)}]

\* UpdateTables
UpdateTables(c, es) == RemoveJoinedTables([c EXCEPT !.v.tables = @ \cup TablesOfAll(es)])

\* GetSortedTables; no two tables of a set have the same name and alias.
SortedTables(ts) ==
  SetToSortSeq(ts, LAMBDA t, u : t.name < u.name \/ (t.name = u.name /\ t.alias < u.alias))

\* addFrom, addUsing for some tables
AddTables(c, p, ts) ==
  LET add(acc, t) ==
        IF t.name = 0 \/ t = acc.v.table \/ t \in ToSet(Elements(acc.heap, acc.v.part[p]))
        THEN acc
        ELSE Pushed(acc, p, <<t>>)
  IN  FoldLeft(add, c, ts)

-----------------------------------------------------------------------------
(* SELECT.                                                                 *)

Select(es) ==
  UpdateTables(Pushed([heap |-> heap, v |-> Blank("select")], "columns", es), es)

\* Where, GroupBy, Having and OrderBy of a SELECT
SelectAdd(v, p, es) == Pushed(UpdateTables(CloneState(v), es), p, es)

\* Join and its variants
SelectJoin(v, type, t, ps) ==
  RemoveJoinedTables(
    Pushed(UpdateTables(CloneState(v), ps), "joins",
           <<[type |-> type, table |-> t, predicates |-> ps]>>))

\* Limit and Offset, also of a compound query
Limited(v, l) == LET c == CloneState(v) IN [c EXCEPT !.v.limit = l]
Offsetted(v, o) == LET c == CloneState(v) IN [c EXCEPT !.v.offset = o]

\* newCompoundQuery
Union(i, all, j) ==
  [heap |-> heap, v |-> [Blank("compound") EXCEPT !.left = i, !.right = j, !.all = all]]

CompoundOrderBy(v, es) == Pushed(CloneState(v), "orderBy", es)

-----------------------------------------------------------------------------
(* INSERT.  A model is what Column fields of a struct hold: a sequence of  *)
(* [column, value].                                                        *)

\* The target of INSERT, UPDATE and DELETE
Into(kind, t) == [heap |-> heap, v |-> [Blank(kind) EXCEPT !.table = t]]

\* A method that gives rows takes back DEFAULT VALUES and a source.
RowsFollow(c) == [c EXCEPT !.v.defaults = FALSE, !.v.source = 0]

PushedRow(c, row) ==
  LET r == Appended(c.heap, NilSlice, row)
  IN  Pushed([c EXCEPT !.heap = r.heap], "rows", <<r.slice>>)

InsertColumns(v, cols) == Pushed(CloneState(v), "columns", cols)

\* Values, ValuesRows
InsertValues(v, rows) ==
  IF rows = <<>> THEN [heap |-> heap, v |-> v]
  ELSE FoldLeft(PushedRow, RowsFollow(CloneState(v)), rows)

\* Set: the last row grows in place.
InsertSet(v, col, value) ==
  LET c    == Pushed(RowsFollow(CloneState(v)), "columns", <<col>>)
      d    == IF c.v.part["rows"].len = 0 THEN Pushed(c, "rows", <<NilSlice>>) ELSE c
      rows == d.v.part["rows"]
      r    == Appended(d.heap, d.heap[rows.arr][rows.len], <<value>>)
  IN  [d EXCEPT !.heap = [r.heap EXCEPT ![rows.arr][rows.len] = r.slice]]

\* Mutant of ValueFor: a column of the same name in another table does not count.
ValueOfTable(col, model) ==
  LET exact == {i \in DOMAIN model : model[i].column = col}
  IN  IF exact # {} THEN model[Max(exact)].value ELSE Param(0)

\* selectColumnValues: by table and column, else by the name of the column
\* (the last of that name), else nil, which is 0.
ValueFor(col, model) ==
  LET exact  == {i \in DOMAIN model : model[i].column = col}
      byName == {i \in DOMAIN model : model[i].column.name = col.name}
  IN  IF exact # {} THEN model[Max(exact)].value
      ELSE IF byName # {} THEN model[Max(byName)].value
      ELSE Param(0)

\* ValuesFrom, ValuesRowsFrom
InsertFrom(v, models) ==
  LET given == SelectSeq(models, LAMBDA m : m # <<>>)
      c     == RowsFollow(CloneState(v))
      d     == IF c.v.part["columns"].len # 0 THEN c
               ELSE Pushed(c, "columns", [i \in DOMAIN given[1] |-> given[1][i].column])
      cols  == Elements(d.heap, d.v.part["columns"])
  IN  IF given = <<>> THEN [heap |-> heap, v |-> v]
      ELSE FoldLeft(PushedRow, d,
                    [m \in DOMAIN given |-> [i \in DOMAIN cols |-> ValueFor(cols[i], given[m])]])

\* What is left of the arguments when the rows are taken back.
AskedToReturn(v) == {a \in v.asked : a[1] = "returning"}

InsertDefaultValues(v) ==
  LET c == CloneState(v)
  IN  [c EXCEPT !.v.part["columns"] = NilSlice, !.v.part["rows"] = NilSlice,
                !.v.source = 0, !.v.defaults = TRUE, !.v.asked = AskedToReturn(v)]

InsertFromSelect(v, i) ==
  LET c == CloneState(v)
  IN  [c EXCEPT !.v.part["rows"] = NilSlice, !.v.source = i, !.v.defaults = FALSE,
                !.v.asked = AskedToReturn(v)]

\* Returning, also of UPDATE and DELETE
Returning(v, es) == Pushed(CloneState(v), "returning", es)

-----------------------------------------------------------------------------
(* UPDATE and DELETE.                                                      *)

UpdateSetOne(c, a) ==
  AddTables(Pushed(c, "assignments", <<a>>), "from", SortedTables(TablesOf(a.value)))

\* Set, SetFrom
UpdateSet(v, assignments) ==
  IF assignments = <<>> THEN [heap |-> heap, v |-> v]
  ELSE FoldLeft(UpdateSetOne, CloneState(v), assignments)

\* From of UPDATE and Using of DELETE
More(kind) == IF kind = "update" THEN "from" ELSE "using"
UseTables(v, ts) == AddTables(CloneState(v), More(v.kind), ts)

\* Where of UPDATE and of DELETE
ChangeWhere(v, ps) ==
  Pushed(AddTables(CloneState(v), More(v.kind), SortedTables(TablesOfAll(ps))), "where", ps)

-----------------------------------------------------------------------------
(* Common table expressions.                                               *)

\* SelectQuery.CTE: a value and a reference that the copies of it share
MakeCTE(name, i) == [name |-> name, columns |-> <<>>, recursive |-> FALSE, query |-> i]

CTETable(r) == TableRef(refs[r].name, 0, r)

\* appendCTEFromTable for some tables: the first of each name.
CTEsOfTables(ts) ==
  LET add(acc, t) ==
        IF t.cte = 0 \/ refs[t.cte].name \in {refs[r].name : r \in ToSet(acc)}
        THEN acc
        ELSE Append(acc, t.cte)
  IN  FoldLeft(add, <<>>, ts)

TablesInOrder(ess) == FlattenSeq([i \in DOMAIN ess |-> SortedTables(TablesOfAll(ess[i]))])

\* Mutant of FromTables: the tables that are joined are not searched.
FromTablesOnly(v) == SortedTables(v.tables)

\* The tables of a SELECT, those in FROM and then those joined.
FromTables(v) ==
  LET joins == Items(v, "joins")
  IN  SortedTables(v.tables) \o [i \in DOMAIN joins |-> joins[i].table]

\* CTEs: those that the statement itself refers to.
RECURSIVE CTEs(_)
CTEs(v) ==
  CASE v.kind = "select"   -> CTEsOfTables(FromTables(v))
    [] v.kind = "compound" -> CTEs(vals[v.left]) \o CTEs(vals[v.right])
    [] v.kind = "cte"      -> CTEs(vals[refs[v.ref].query])
    [] v.kind = "insert"   -> IF v.source = 0 THEN <<>> ELSE CTEs(vals[v.source])
    [] v.kind = "update"   ->
         LET as == Items(v, "assignments")
         IN  CTEsOfTables(<<v.table>> \o TablesInOrder([i \in DOMAIN as |-> <<as[i].value>>])
               \o Items(v, "from")
               \o TablesInOrder(<<Items(v, "where"), Items(v, "returning")>>))
    [] v.kind = "delete"   ->
         CTEsOfTables(<<v.table>> \o Items(v, "using")
           \o TablesInOrder(<<Items(v, "where"), Items(v, "returning")>>))
    [] OTHER               -> <<>>

\* appendCTEs: each one that is new, and at once those that its query uses.
RECURSIVE WithCTEs(_, _)
WithCTEs(list, ctes) ==
  LET add(acc, r) ==
        IF refs[r].name \in {refs[s].name : s \in ToSet(acc)} THEN acc
        ELSE WithCTEs(Append(acc, r), CTEs(vals[refs[r].query]))
  IN  FoldLeft(add, list, ctes)

\* Mutant of Declared: only what the statement itself refers to is declared.
DirectlyUsed(v) == CTEs(v)

\* WithClauseFor
Declared(v) == WithCTEs(<<>>, CTEs(v))

\* RECURSIVE is written if one of those that were met is recursive, also when
\* another of its name was declared before.
RecursiveClause(v) ==
  \E r \in ToSet(CTEs(v)) \cup UNION {ToSet(CTEs(vals[refs[s].query])) : s \in ToSet(Declared(v))} :
    refs[r].recursive
=============================================================================
