---------------------------- MODULE MCStatements -----------------------------
(* Small instances of Statements. *)
EXTENDS Statements

\* A table and the same table under an alias.
Table1  == TableRef(1, 0, 0)
Aliased == TableRef(1, 2, 0)

MCTables == {Table1, Aliased}

Plainly(methods) == [methods |-> methods, width |-> 0]
OneOf(methods)   == [methods |-> methods, width |-> 1]
Widely(methods)  == [methods |-> methods, width |-> 2]

S == Plainly({"Select"})
SelectMethods == {"Where", "Having", "GroupBy", "OrderBy", "Join", "CrossJoin", "Page"}
InsertMethods == {"Columns", "Values", "Set", "ValuesFrom", "DefaultValues", "FromSelect", "Returning"}

\* Wide choices of arguments; then pairs of calls on one SELECT and on its copies.
SelectPrograms ==
  {<<Widely({"Select"}), OneOf({"Where", "Join"})>>,
   <<S, Widely({"Where", "Having", "Join"})>>,
   <<OneOf({"Select"}), OneOf(SelectMethods), OneOf(SelectMethods)>>}

\* Common table expressions, in one another and in set operations.
ComposedPrograms ==
  {<<S, OneOf({"CTE", "RecursiveCTE"}), S, OneOf({"CTE", "RecursiveCTE"}), OneOf({"Select"})>>,
   <<S, OneOf({"CTE", "RecursiveCTE"}), S, OneOf({"Join", "Where", "ChangeCTE", "Union"})>>,
   <<S, OneOf({"CTE", "RecursiveCTE"}), OneOf({"Union"}), OneOf({"Union", "ChangeCTE"})>>,
   <<S, Plainly({"RecursiveCTE"}), S, Plainly({"Union"}), Widely({"CTE"}), S>>,
   <<S, OneOf({"Page"}), OneOf({"Union"}), OneOf({"OrderBy", "Page", "Union"})>>}

Set == Plainly({"Set"})
ChangeMethods == {"Assign", "From", "ChangeWhere", "Returning"}

\* The last has calls enough for rows to share an array with room.
ChangePrograms ==
  {<<S, OneOf({"insert"}), OneOf(InsertMethods), OneOf(InsertMethods)>>,
   <<S, OneOf({"CTE", "RecursiveCTE"}), OneOf({"update", "delete"}), OneOf(ChangeMethods), OneOf(ChangeMethods)>>,
   <<Plainly({"insert"}), Set, Set, Set, Set, Set>>}

\* So has this one for operations.
Alter == OneOf({"Alter"})
AlterPrograms ==
  {<<OneOf({"alter"}), Widely({"Alter"}), Widely({"Alter"})>>,
   <<OneOf({"alter"}), Alter, Alter, Alter, Alter, Alter>>}

\* Columns, alone and in CREATE TABLE and ALTER TABLE; arrays that these and the
\* options of columns and indexes may share.
Bare(method)   == Plainly({method})
Define         == OneOf({"Define"})
Constraining   == Bare("Constraint")
DefinitionPrograms ==
  {<<Bare("column"), Widely({"Define"}), Widely({"Define"}), Bare("create"), Bare("Column")>>,
   <<Bare("column"), Define, Bare("create"), Bare("Column"), Plainly({"Column", "IfNotExists"}), OneOf({"Constraint"})>>,
   <<Bare("column"), Bare("Define"), Bare("Define"), Bare("Define"), Bare("Define"), Bare("Define")>>,
   <<Bare("create"), Widely({"Constraint"})>>,
   <<Bare("create"), Constraining, Constraining, Constraining, Constraining, Constraining>>,
   <<Bare("column"), Define, Bare("alter"), Widely({"Alter"})>>,
   <<Widely({"index"})>>,
   <<Bare("index"), OneOf({"Option"}), OneOf({"Option"})>>,
   <<Bare("index"), Bare("Option"), Bare("Option"), Bare("Option"), Bare("Option"), Bare("Option")>>,
   <<Bare("drop")>>, <<Bare("rename")>>}

\* Two common table expressions, one of which may use the other.
CTEPrograms == {<<S, Plainly({"CTE"}), S, Plainly({"CTE"}), S>>}

MCPrograms == SelectPrograms \cup ComposedPrograms \cup ChangePrograms \cup AlterPrograms
                \cup DefinitionPrograms
=============================================================================
