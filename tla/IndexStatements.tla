--------------------------- MODULE IndexStatements ----------------------------
(***************************************************************************)
(* The other statements of the package ddl: CREATE INDEX, whose options    *)
(* are copied as those of a column are, DROP TABLE, DROP INDEX and ALTER   *)
(* INDEX.  Of the options that are one word, says holds those given.       *)
(***************************************************************************)
EXTENDS AlterStatements

\* IndexKey: a column or an expression, with words behind it
IndexKey(e, words) == [e |-> e, words |-> words]

\* CreateIndex, On, OnCols
CreateIndex(name, t, keys) ==
  [heap |-> heap,
   v    |-> [Blank("index") EXCEPT
               !.table = t,
               !.def   = [name |-> name, keys |-> keys, says |-> {}, method |-> "", where |-> <<>>]]]

\* Unique, Using, Where and the other options: cloneOptions
IndexOptions(v, def) == FoldLeft(Fresh, [heap |-> heap, v |-> [v EXCEPT !.def = def]], Parts("index"))

\* With; Include replaces what it was given before
IndexStorage(v, option) == Pushed(IndexOptions(v, v.def), "with", <<option>>)
IndexInclude(v, columns) ==
  LET c == IndexOptions(v, v.def)
  IN  Pushed([c EXCEPT !.v.part["include"] = NilSlice], "include", columns)

\* DropTable, DropIndex with their options: table is a sequence of none or one
Dropped(what, names, table, says, behavior) ==
  [heap |-> heap,
   v    |-> [Blank("drop") EXCEPT !.def = [what |-> what, names |-> names, table |-> table,
                                           says |-> says, behavior |-> behavior]]]

\* AlterIndex with OnTable and Rename
RenamedIndex(old, new, table) ==
  [heap |-> heap, v |-> [Blank("rename") EXCEPT !.def = [old |-> old, new |-> new, table |-> table]]]

-----------------------------------------------------------------------------
\* Those words of a list that were said.
Spoken(says, words) ==
  LET said == SelectSeq(words, LAMBDA w : w \in says)
  IN  [i \in DOMAIN said |-> Sym(said[i])]

\* compileIndexKey
KeyPieces(key) == DDLText(key.e) \o [i \in DOMAIN key.words |-> Sym(key.words[i])]

\* PartialIndexPredicate, which MySQL and Oracle refuse
PartialPredicate(d, where) ==
  IF where = <<>> THEN <<>>
  ELSE IF d \in {"mysql", "oracle"} THEN <<Unsupported>>
  ELSE <<Sym("WHERE")>> \o DDLText(where[1])

\* compileCreateIndex
CreateIndexPieces(d, v) ==
  LET def     == v.def
      include == Items(v, "include")
      with    == Items(v, "with")
  IN  IF def.keys = <<>> THEN <<Unsupported>>
      ELSE <<Sym("CREATE")>> \o Spoken(def.says, <<"UNIQUE", "CLUSTERED", "NONCLUSTERED">>)
             \o <<Sym("INDEX")>> \o Spoken(def.says, <<"CONCURRENTLY", "IF NOT EXISTS">>)
             \o <<Id(def.name), Sym("ON"), Id(v.table.name)>>
             \o Optional(def.method # "", <<Sym("USING"), Sym(def.method)>>)
             \o InParentheses(CommaSeparated([i \in DOMAIN def.keys |-> KeyPieces(def.keys[i])]))
             \o Optional(include # <<>>, <<Sym("INCLUDE")>> \o NameList(include))
             \o Spoken(def.says, <<"NULLS NOT DISTINCT">>)
             \o Optional(with # <<>>, <<Sym("WITH")>> \o NameList(with))
             \o PartialPredicate(d, def.where)
             \o Spoken(def.says, <<"INVISIBLE">>)

\* Mutant of BehaviorPieces: SQLite is given the word, too.
EverywhereButOracle(d, behavior) ==
  CASE behavior = "" -> <<>>
    [] behavior # "" /\ d = "oracle" -> <<Unsupported>>
    [] OTHER -> <<Sym(behavior)>>

\* DropTableBehavior in each dialect, of tables and of indexes
BehaviorPieces(d, behavior) ==
  CASE behavior = "" -> <<>>
    [] behavior # "" /\ d \in {"sqlite", "sqlserver"} -> <<Unsupported>>
    [] behavior = "RESTRICT" /\ d = "oracle" -> <<Unsupported>>
    [] behavior = "CASCADE" /\ d = "oracle"  -> <<Sym("CASCADE CONSTRAINTS")>>
    [] OTHER -> <<Sym(behavior)>>

\* compileDropTable, compileDropIndex
DropPieces(d, v) ==
  LET def == v.def
  IN  <<Sym(def.what)>> \o Spoken(def.says, <<"CONCURRENTLY", "IF EXISTS">>)
        \o Separated([i \in DOMAIN def.names |-> Id(def.names[i])], ",")
        \o Optional(def.table # <<>>, <<Sym("ON")>> \o [i \in DOMAIN def.table |-> Id(def.table[i])])
        \o Spoken(def.says, <<"ONLINE">>)
        \o BehaviorPieces(d, def.behavior)

\* AlterIndexRename in each dialect
RenamePieces(d, v) ==
  LET def == v.def
  IN  CASE d = "mysql" /\ def.table = <<>> -> <<Unsupported>>
        [] d = "mysql" /\ def.table # <<>> ->
             <<Sym("ALTER TABLE"), Id(def.table[1]), Sym("RENAME INDEX"), Id(def.old), Sym("TO"), Id(def.new)>>
        [] d = "sqlserver" ->
             <<Sym("EXEC sp_rename"), <<"literal", Append(def.table, def.old)>>, Sym(","),
               <<"literal", <<def.new>>>>, Sym(","), <<"literal", <<"INDEX">>>>>>
        [] OTHER -> <<Sym("ALTER INDEX"), Id(def.old), Sym("RENAME TO"), Id(def.new)>>
=============================================================================
