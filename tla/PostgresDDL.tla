---------------------------- MODULE PostgresDDL ----------------------------
(***************************************************************************)
(* What PostgreSQL does with the statements of SchemaDiff: when it refuses *)
(* one, and what its catalog holds afterwards.  The catalog is a schema in *)
(* which every constraint has a name, a CHECK lists the columns that it    *)
(* mentions, every index has a method and a literal default has a cast; it *)
(* is what the queries of src/migrations/postgres.go see.                  *)
(* The tables hold no rows, so no statement is refused for its data.  Types *)
(* and expressions are opaque: what they allow is given by constants.      *)
(***************************************************************************)
EXTENDS SchemaDiff

CONSTANTS
  Casts,       \* <<from, to>>: values are converted in an assignment (pg_cast)
  Takes,       \* <<type, e>>: e is a default, or a generated clause, of the type
  Comparable   \* <<type, key>>: a foreign key of the one may refer to the other

DefaultMethod == "btree"

\* How the catalog records what a statement gives.
StoredConstraint(t, c) ==
  [kind       |-> c.kind,
   columns    |-> IF c.kind = "ck" THEN c.check ELSE c.columns,
   check      |-> c.check,
   ref        |-> c.ref,
   refColumns |-> c.refColumns,
   name       |-> DropName(t, c)]

StoredDefault(d) == IF d = "'x'" THEN "'x'::text" ELSE d

\* An identity column is NOT NULL; columnDef and the generated code give a
\* default to plain columns only.
StoredColumn(c) ==
  [c EXCEPT !.default = IF c.mode = Plain THEN StoredDefault(@) ELSE NotGiven,
            !.notNull = IF c.mode = "identity" THEN TRUE ELSE @]

StoredIndex(i) == [columns |-> i.columns, unique |-> i.unique,
                   method  |-> IF i.method = NotGiven THEN DefaultMethod ELSE i.method]

\* A column may have this default and this identity or generated clause.
ColumnFits(c) ==
  /\ c.default # NotGiven => <<c.type, StoredDefault(c.default)>> \in Takes
  /\ c.mode # Plain => <<c.type, c.mode>> \in Takes

\* ALTER COLUMN ... TYPE has no USING: a value must be converted by itself.
Converts(from, to) == from # to => <<from, to>> \in Casts

\* f, in which x is v.
Extended(f, x, v) == [y \in DOMAIN f \cup {x} |-> IF y = x THEN v ELSE f[y]]

ConstraintNames(table) == {c.name : c \in table.constraints}

IsKey(c) == c.kind \in {"pk", "uq"}

\* A key is kept in an index of its name, so that a schema has one name for
\* one key or index.
KeyNames(t, table)      == {DropName(t, c) : c \in {k \in table.constraints : IsKey(k)}}
RelationNames(t, table) == DOMAIN table.indexes \cup KeyNames(t, table)
Relations(db)           == UNION {RelationNames(t, db[t]) : t \in DOMAIN db}

ForeignKeysTo(db, r) ==
  {c \in UNION {db[t].constraints : t \in DOMAIN db} : c.kind = "fk" /\ c.ref = r}

\* The columns that a foreign key refers to: c.refColumns has one for each of
\* c.columns.
Referred(c) == Range(c.refColumns)

\* A foreign key needs a key of the referenced table: a constraint or, if there
\* is none, a unique index, which the foreign key then depends on.
HasConstraint(db, r, columns) ==
  \E k \in db[r].constraints : IsKey(k) /\ k.columns = columns

HasKey(db, r, columns) ==
  /\ r \in DOMAIN db
  /\ \/ HasConstraint(db, r, columns)
     \/ \E x \in DOMAIN db[r].indexes :
          db[r].indexes[x].unique /\ db[r].indexes[x].columns = columns

SupportsForeignKey(db, t, x) ==
  LET index == db[t].indexes[x]
  IN  /\ index.unique
      /\ ~HasConstraint(db, t, index.columns)
      /\ \E c \in ForeignKeysTo(db, t) : Referred(c) = index.columns

\* Each column of a foreign key can be compared with the one it refers to.
TypesAgree(db, t, c) ==
  \A x \in c.columns :
    <<db[t].columns[x].type, db[c.ref].columns[c.refColumns[x]].type>> \in Comparable

ConstraintFits(db, t, c) ==
  /\ c.columns \cup c.check \subseteq DOMAIN db[t].columns
  /\ c.kind = "fk" => HasKey(db, c.ref, Referred(c)) /\ TypesAgree(db, t, c)
  /\ c.kind = "pk" => \A x \in c.columns : db[t].columns[x].notNull

\* Constraints and indexes that a column takes with it when it is dropped.
UsesColumn(c, x) == x \in c.columns \cup c.check

CanDropColumn(db, t, x) ==
  /\ x \in DOMAIN db[t].columns
  /\ \A c \in ForeignKeysTo(db, t) : x \notin Referred(c)

WithoutColumn(table, x) ==
  [columns     |-> Restrict(table.columns, DOMAIN table.columns \ {x}),
   constraints |-> {c \in table.constraints : ~UsesColumn(c, x)},
   indexes     |-> RestrictValues(table.indexes, LAMBDA i : x \notin i.columns)]

WithColumn(table, x, c) == [table EXCEPT !.columns = Extended(@, x, StoredColumn(c))]

-----------------------------------------------------------------------------
Created(s) == [columns     |-> [x \in DOMAIN s.columns |-> StoredColumn(s.columns[x])],
               constraints |-> {StoredConstraint(s.table, c) : c \in s.constraints},
               indexes     |-> <<>>]

\* The statement is executed rather than refused.
Accepts(db, s) ==
  LET known  == s.table \in DOMAIN db
      column == s.column \in DOMAIN db[s.table].columns
  IN  CASE s.op = "create table" ->
             LET after == Extended(db, s.table, Created(s))
             IN  /\ ~known
                 /\ \A x \in DOMAIN s.columns : ColumnFits(StoredColumn(s.columns[x]))
                 /\ KeyNames(s.table, Created(s)) \cap Relations(db) = {}
                 /\ \A c \in Created(s).constraints : ConstraintFits(after, s.table, c)
                 /\ \A c, d \in Created(s).constraints :
                      c.name = d.name \/ (c.kind = "pk" /\ d.kind = "pk") => c = d
        [] s.op = "drop table" ->
             /\ known
             /\ \A t \in DOMAIN db \ {s.table} : \A c \in db[t].constraints :
                  c.kind = "fk" => c.ref # s.table
        [] s.op = "create index" ->
             /\ known
             /\ s.index \notin Relations(db)
             /\ s.def.columns # {}
             /\ s.def.columns \subseteq DOMAIN db[s.table].columns
        [] s.op = "drop index" ->
             /\ \E t \in DOMAIN db : s.index \in DOMAIN db[t].indexes
             /\ \A t \in DOMAIN db : s.index \in DOMAIN db[t].indexes =>
                  ~SupportsForeignKey(db, t, s.index)
        [] s.op = "add column" -> known /\ ~column /\ ColumnFits(StoredColumn(s.def))
        [] s.op = "drop column" -> known /\ CanDropColumn(db, s.table, s.column)
        [] s.op = "replace column" ->
             /\ known
             /\ CanDropColumn(db, s.table, s.column)
             /\ ColumnFits(StoredColumn(s.def))
        [] s.op = "set type" ->
             LET old   == db[s.table].columns[s.column]
                 after == [db EXCEPT ![s.table].columns[s.column].type = s.type]
             IN  /\ known /\ column
                 /\ Converts(old.type, s.type)
                 /\ ColumnFits([old EXCEPT !.type = s.type])
                 /\ \A t \in DOMAIN db : \A c \in db[t].constraints :
                      c.kind = "fk" => TypesAgree(after, t, c)
        [] s.op = "set not null" ->
             /\ known /\ column
             /\ \/ s.notNull
                \/ /\ db[s.table].columns[s.column].mode # "identity"
                   /\ \A c \in db[s.table].constraints : c.kind = "pk" => s.column \notin c.columns
        [] s.op = "set default" ->
             /\ known /\ column
             /\ db[s.table].columns[s.column].mode = Plain
             /\ ColumnFits([db[s.table].columns[s.column] EXCEPT !.default = s.default])
        [] s.op = "add constraint" ->
             LET c == StoredConstraint(s.table, s.constraint)
             IN  /\ known
                 /\ c.name \notin ConstraintNames(db[s.table])
                 /\ IsKey(c) => c.name \notin Relations(db)
                 /\ c.kind = "pk" => \A k \in db[s.table].constraints : k.kind # "pk"
                 /\ ConstraintFits(db, s.table, c)
        [] s.op = "drop constraint" ->
             /\ known
             /\ \E c \in db[s.table].constraints :
                  /\ c.name = s.name
                  /\ IsKey(c) => \A f \in ForeignKeysTo(db, s.table) : Referred(f) # c.columns
        [] OTHER -> FALSE

\* The catalog after it.
Effect(db, s) ==
  CASE s.op = "create table" -> Extended(db, s.table, Created(s))
    [] s.op = "drop table" -> Restrict(db, DOMAIN db \ {s.table})
    [] s.op = "create index" ->
         [db EXCEPT ![s.table].indexes = Extended(@, s.index, StoredIndex(s.def))]
    [] s.op = "drop index" ->
         [t \in DOMAIN db |-> [db[t] EXCEPT !.indexes = Restrict(@, DOMAIN @ \ {s.index})]]
    [] s.op = "add column" -> [db EXCEPT ![s.table] = WithColumn(@, s.column, s.def)]
    [] s.op = "drop column" -> [db EXCEPT ![s.table] = WithoutColumn(@, s.column)]
    [] s.op = "replace column" ->
         [db EXCEPT ![s.table] = WithColumn(WithoutColumn(@, s.column), s.column, s.def)]
    [] s.op = "set type" -> [db EXCEPT ![s.table].columns[s.column].type = s.type]
    [] s.op = "set not null" -> [db EXCEPT ![s.table].columns[s.column].notNull = s.notNull]
    [] s.op = "set default" -> [db EXCEPT ![s.table].columns[s.column].default = StoredDefault(s.default)]
    [] s.op = "add constraint" ->
         [db EXCEPT ![s.table].constraints = @ \cup {StoredConstraint(s.table, s.constraint)}]
    [] s.op = "drop constraint" ->
         [db EXCEPT ![s.table].constraints = {c \in @ : c.name # s.name}]

\* The next statement of a transaction; after one that is refused the
\* transaction executes no other.
Executed(r, s) ==
  IF r.ok /\ Accepts(r.db, s) THEN [ok |-> TRUE, db |-> Effect(r.db, s)]
                              ELSE [ok |-> FALSE, db |-> r.db]

\* All statements in one transaction: [ok, db] with the last catalog reached.
Run(db, statements) ==
  LET after[i \in 0 .. Len(statements)] ==
        IF i = 0 THEN [ok |-> TRUE, db |-> db] ELSE Executed(after[i - 1], statements[i])
  IN  after[Len(statements)]
=============================================================================
