--------------------------- MODULE SchemaRevisions ---------------------------
(***************************************************************************)
(* The life of a database under qrafter-migrations: "revision" reads its   *)
(* catalog, query by query, compares what it has read with the schema that *)
(* the configs declare and registers a migration; "up" and "down" execute  *)
(* the next and the last one.                                              *)
(*                                                                         *)
(* MigrationApply shows that a migration is executed as a whole or not at  *)
(* all, so that Up and Down are one step here; this module is about what   *)
(* the migrations contain.                                                 *)
(***************************************************************************)
EXTENDS Introspection, TableConfigs

CONSTANTS
  Declared,     \* what may be declared: functions from table names to configs
  Careful,      \* TRUE: only revisions that WithinReach admits, one command at a time
  MaxRevisions  \* bound: revisions made

\* The version table: apply creates it, the config names it to revision.
VersionTable == 0
VersionTableDef ==
  [columns     |-> [x \in {"id", "version"} |->
                      [type |-> x, notNull |-> TRUE, default |-> NotGiven, mode |-> Plain]],
   constraints |-> {}, indexes |-> <<>>]

\* What the parts of a schema are made of.
IsColumn(c) ==
  /\ c = [type |-> c.type, notNull |-> c.notNull, default |-> c.default, mode |-> c.mode]
  /\ c.notNull \in BOOLEAN

IsConstraint(c) ==
  /\ c = [kind |-> c.kind, columns |-> c.columns, check |-> c.check,
          ref |-> c.ref, refColumns |-> c.refColumns, name |-> c.name]
  /\ c.kind \in DOMAIN KindOrder
  /\ c.kind # "ck" => c.check = {}
  /\ c.kind = "fk" => DOMAIN c.refColumns = c.columns

IsIndex(i) == i = [columns |-> i.columns, unique |-> i.unique, method |-> i.method]

ASSUME RevisionsAssumption ==
  /\ \A configs \in Declared :
       /\ DOMAIN configs \subseteq Nat
       /\ IsFiniteSet(DOMAIN configs)
       /\ \A t \in DOMAIN configs :
            LET cfg == configs[t]
            IN  /\ cfg.fields \in Seq(ToSet(cfg.fields))
                /\ DOMAIN cfg.columns \subseteq {f.name : f \in ToSet(cfg.fields)}
                /\ cfg.constraints \in Seq(ToSet(cfg.constraints))
                /\ \A c \in ToSet(cfg.constraints) : IsConstraint(c)
                /\ IsFiniteSet(DOMAIN cfg.indexes)
                /\ \A x \in DOMAIN cfg.indexes : IsIndex(cfg.indexes[x])
  /\ Careful \in BOOLEAN
  /\ MaxRevisions \in Nat

VARIABLES
  db,         \* the catalog
  migrations, \* the registry: [up, down, configs, from], the last two for the record
  applied,    \* how many of them have been executed: the stored version
  reading,    \* what a revision has read: [query, tables, indexes, disturbed]
  outcome     \* of the last command, "none" when a revision begins

vars == <<db, migrations, applied, reading, outcome>>

\* reading when no revision runs; query counts the queries that have returned,
\* disturbed is for the record: up or down has run since the first.
Idle == [query |-> 0, tables |-> <<>>, indexes |-> <<>>, disturbed |-> FALSE]

-----------------------------------------------------------------------------
(* Circumstances.                                                          *)

\* What PostgreSQL can hold.
Holdable(s) ==
  /\ \A t \in DOMAIN s :
       LET table == s[t]
           cols  == DOMAIN table.columns
       IN  /\ \A c \in table.constraints : ConstraintFits(s, t, c)
           /\ \A c, d \in table.constraints :
                DropName(t, c) = DropName(t, d) \/ (c.kind = "pk" /\ d.kind = "pk") => c = d
           /\ \A x \in DOMAIN table.indexes :
                table.indexes[x].columns \subseteq cols /\ table.indexes[x].columns # {}
           /\ DOMAIN table.indexes \cap KeyNames(t, table) = {}
           /\ \A x \in cols : ColumnFits(table.columns[x])
           /\ \A x \in cols : table.columns[x].mode = "identity" => table.columns[x].notNull
           /\ \A x \in cols : table.columns[x].mode # Plain => table.columns[x].default = NotGiven
  /\ \A t, u \in DOMAIN s : RelationNames(t, s[t]) \cap RelationNames(u, s[u]) # {} => t = u

\* No table has two constraints that say the same, which PostgreSQL would allow
\* under two names.
SaysOnce(s) ==
  \A t \in DOMAIN s : \A c, d \in s[t].constraints : SemanticKey(c) = SemanticKey(d) => c = d

\* A declared schema that PostgreSQL can hold.
WellFormed(s) ==
  /\ Holdable(s)
  /\ SaysOnce(s)
  /\ \A t \in DOMAIN s : \A c \in s[t].constraints : c.kind = "ck" <=> c.columns = {}

\* The steps create added tables, then drop removed ones, then change tables,
\* each in the order of the names; a foreign key needs its table in time.
ReferencesInOrder(cur, des) ==
  /\ \A t \in DOMAIN des : \A c \in des[t].constraints : c.kind = "fk" =>
       t \in DOMAIN cur \/ c.ref \in DOMAIN cur \cup 1 .. t
  /\ \A t \in DOMAIN cur : \A c \in cur[t].constraints : c.kind = "fk" =>
       \/ c.ref \in DOMAIN des \cup {t}
       \/ t \notin DOMAIN des /\ t < c.ref

\* Keys that foreign keys refer to are left alone.
KeysStay(cur, des) ==
  \A r \in DOMAIN cur \cap DOMAIN des :
    ForeignKeysTo(cur, r) \cup ForeignKeysTo(des, r) # {} =>
      LET old == cur[r].constraints
          new == des[r].constraints
      IN  \A c \in AddedConstraints(old, new) \cup RemovedConstraints(old, new)
                     \cup UNION {{p[1], p[2]} : p \in ChangedConstraints(old, new)} : ~IsKey(c)

\* No index and no constraint uses a column that is replaced.
ReplacedColumnsUnused(cur, des) ==
  \A t \in DOMAIN cur \cap DOMAIN des :
    \A x \in Changed(cur[t].columns, des[t].columns) :
      cur[t].columns[x].mode # des[t].columns[x].mode =>
        /\ \A c \in cur[t].constraints \cup des[t].constraints : ~UsesColumn(c, x)
        /\ \A i \in DOMAIN cur[t].indexes : x \notin cur[t].indexes[i].columns
        /\ \A i \in DOMAIN des[t].indexes : x \notin des[t].indexes[i].columns

\* No index or key gives its name to one of another table.
RelationsStay(cur, des) ==
  \A t \in DOMAIN cur, u \in DOMAIN des :
    RelationNames(t, cur[t]) \cap RelationNames(u, des[u]) # {} => t = u

\* A constraint without a name in the config keeps the name it has, which no
\* other declared constraint asks for or would get, and no index.
NamesStay(cur, des) ==
  \A t \in DOMAIN cur \cap DOMAIN des :
    \A p \in SemanticMatches(cur[t].constraints, des[t].constraints) :
      p[2].name = Unnamed =>
        /\ \A d \in des[t].constraints \ {p[2]} : DropName(t, d) # p[1].name
        /\ p[1].name \notin DOMAIN des[t].indexes

\* Foreign keys refer to constraints and not to unique indexes.
RefersToConstraints(s) ==
  \A t \in DOMAIN s : \A c \in s[t].constraints :
    c.kind = "fk" => c.ref \in DOMAIN s /\ HasConstraint(s, c.ref, Referred(c))

\* The types that the changes of columns convert are converted back as well.
ConvertsBack(cur, des) ==
  \A t \in DOMAIN cur \cap DOMAIN des :
    \A x \in DOMAIN cur[t].columns \cap DOMAIN des[t].columns :
      cur[t].columns[x].mode = des[t].columns[x].mode =>
        Converts(des[t].columns[x].type, cur[t].columns[x].type)

\* A column that is given another type is converted to it and, by Down, back
\* again, and so is its default before it is replaced.
TypesConvert(cur, des) ==
  /\ ConvertsBack(cur, des)
  /\ ConvertsBack(des, cur)
  /\ \A t \in DOMAIN cur \cap DOMAIN des :
       \A x \in DOMAIN cur[t].columns \cap DOMAIN des[t].columns :
         cur[t].columns[x].mode = des[t].columns[x].mode =>
           ColumnFits([cur[t].columns[x] EXCEPT !.type = des[t].columns[x].type])

\* Tables change one after the other: a foreign key must fit the types of its
\* columns before and after, on either side.
TypesOf(s, t, x) ==
  IF t \in DOMAIN s /\ x \in DOMAIN s[t].columns THEN {s[t].columns[x].type} ELSE {}

KeyTypesAgree(cur, des) ==
  LET types(t, x) == TypesOf(cur, t, x) \cup TypesOf(des, t, x)
      agree(s)    == \A t \in DOMAIN s : \A c \in s[t].constraints : c.kind = "fk" =>
                       \A x \in c.columns :
                         types(t, x) \X types(c.ref, c.refColumns[x]) \subseteq Comparable
  IN  agree(cur) /\ agree(des)

WithinReach(cur, des) ==
  /\ RefersToConstraints(cur)
  /\ RefersToConstraints(des)
  /\ ReferencesInOrder(cur, des)
  /\ KeysStay(cur, des)
  /\ ReplacedColumnsUnused(cur, des)
  /\ RelationsStay(cur, des)
  /\ NamesStay(cur, des)
  /\ TypesConvert(cur, des)
  /\ KeyTypesAgree(cur, des)

-----------------------------------------------------------------------------
\* Mutant of WithoutVersionTable: the version table is not left out.
WithVersionTable(s) == s

\* withoutMigrationVersionTable
WithoutVersionTable(s) == Restrict(s, DOMAIN s \ {VersionTable})

\* ensureMigrationVersionTable: CREATE TABLE IF NOT EXISTS
WithTable(s) ==
  IF VersionTable \in DOMAIN s THEN s ELSE Extended(s, VersionTable, VersionTableDef)

Init ==
  /\ db = <<>>
  /\ migrations = <<>>
  /\ applied = 0
  /\ reading = Idle
  /\ outcome = "none"

\* MakeMigration begins; the queries of ReadSchema follow.
ReadTables ==
  /\ reading = Idle
  /\ Len(migrations) < MaxRevisions
  /\ Careful => applied = Len(migrations)
  /\ reading' = [Idle EXCEPT !.query = 1, !.tables = TablesRead(db)]
  /\ outcome' = "none"
  /\ UNCHANGED <<db, migrations, applied>>

ReadColumns ==
  /\ reading.query = 1
  /\ reading' = [reading EXCEPT !.query = 2, !.tables = ColumnsRead(@, db)]
  /\ UNCHANGED <<db, migrations, applied, outcome>>

ReadConstraints ==
  /\ reading.query = 2
  /\ reading' = [reading EXCEPT !.query = 3, !.tables = ConstraintsRead(@, db)]
  /\ UNCHANGED <<db, migrations, applied, outcome>>

ReadIndexMetadata ==
  /\ reading.query = 3
  /\ reading' = [reading EXCEPT !.query = 4, !.indexes = IndexesRead(reading.tables, db)]
  /\ UNCHANGED <<db, migrations, applied, outcome>>

ReadIndexKeys ==
  /\ reading.query = 4
  /\ reading' = [reading EXCEPT !.query = 5, !.indexes = <<>>,
                   !.tables = IndexesAppended(@, KeysRead(reading.indexes, db))]
  /\ UNCHANGED <<db, migrations, applied, outcome>>

\* A query fails or the time is up: nothing has been written.
GiveUp ==
  /\ reading # Idle
  /\ reading' = Idle
  /\ outcome' = "failed"
  /\ UNCHANGED <<db, migrations, applied>>

\* The declared schema is computed once the catalog has been read; two names
\* for one constraint are a panic.
Panic(configs) ==
  /\ reading.query = 5
  /\ \E s \in DesiredSchemas(configs) : \E t \in DOMAIN s : ~s[t].ok
  /\ reading' = Idle
  /\ outcome' = "panicked"
  /\ UNCHANGED <<db, migrations, applied>>

\* The rest of MakeMigration
Revise(configs) ==
  /\ reading.query = 5
  /\ \E s \in DesiredSchemas(configs) :
       LET cur   == WithoutVersionTable(reading.tables)
           des   == WithoutVersionTable([t \in DOMAIN s |-> s[t].table])
           steps == MigrationSteps(cur, des)
       IN  /\ \A t \in DOMAIN s : s[t].ok
           /\ Careful => WithinReach(cur, des)
           /\ migrations' = Append(migrations, [up      |-> UpStatements(steps),
                                                down    |-> DownStatements(steps),
                                                configs |-> configs,
                                                from    |-> cur])
  /\ reading' = Idle
  /\ outcome' = "revision"
  /\ UNCHANGED <<db, applied>>

\* A transaction with the statements of a migration: to is the version after it.
Execute(statements, to, command) ==
  LET r == Run(WithTable(db), statements)
  IN  \/ r.ok  /\ db' = r.db /\ applied' = to /\ outcome' = command
      \/ ~r.ok /\ db' = WithTable(db) /\ outcome' = "refused" /\ UNCHANGED applied

\* up and down do not know of a revision that is reading the catalog.
Disturb ==
  /\ Careful => reading = Idle
  /\ reading' = IF reading = Idle THEN Idle ELSE [reading EXCEPT !.disturbed = TRUE]

Up ==
  /\ Disturb
  /\ applied < Len(migrations)
  /\ Execute(migrations[applied + 1].up, applied + 1, "up")
  /\ UNCHANGED migrations

Down ==
  /\ Disturb
  /\ 0 < applied
  /\ Execute(migrations[applied].down, applied - 1, "down")
  /\ UNCHANGED migrations

Next ==
  \/ ReadTables \/ ReadColumns \/ ReadConstraints \/ ReadIndexMetadata \/ ReadIndexKeys
  \/ GiveUp
  \/ \E configs \in Declared : Revise(configs) \/ Panic(configs)
  \/ Up \/ Down

Spec == Init /\ [][Next]_vars

-----------------------------------------------------------------------------
(* Properties.                                                             *)

\* What a config means, whichever of its parts says it: the tag of a field or
\* the config of its column, or for constraints the list.
Said(cfg, f) ==
  <<f.tag>> \o IF f.name \in DOMAIN cfg.columns THEN <<cfg.columns[f.name]>> ELSE <<>>

LastGiven(seq) ==
  LET given == {i \in DOMAIN seq : seq[i] # NotGiven}
  IN  IF given = {} THEN NotGiven ELSE seq[CHOOSE i \in given : \A j \in given : j <= i]

MeantColumn(cfg, f) ==
  LET said == Said(cfg, f)
  IN  [type    |-> LastGiven(<<f.type>> \o [i \in DOMAIN said |-> said[i].type]),
       notNull |-> ~f.nullable \/ \E i \in DOMAIN said : said[i].notNull \/ said[i].pk,
       default |-> LastGiven([i \in DOMAIN said |-> said[i].default]),
       mode    |-> f.mode]

\* Each constraint once, under the name that it is given anywhere.
MeantConstraints(cfg) ==
  LET all == ToSet(cfg.constraints)
               \cup UNION {UNION {ToSet(KeysOf(f.name, says)) : says \in ToSet(Said(cfg, f))}
                             : f \in ToSet(cfg.fields)}
  IN  {c \in all : c.name # Unnamed \/ \A d \in all : SemanticKey(d) = SemanticKey(c) => d = c}

Meant(cfg) ==
  [columns     |-> [x \in {f.name : f \in ToSet(cfg.fields)} |->
                      MeantColumn(cfg, CHOOSE f \in ToSet(cfg.fields) : f.name = x)],
   constraints |-> MeantConstraints(cfg),
   indexes     |-> cfg.indexes]

Meaning(configs) == WithoutVersionTable([t \in DOMAIN configs |-> Meant(configs[t])])

\* The catalog is what was declared, except for constraints that no config
\* names and that keep the names they have.
Agrees(cat, s) ==
  /\ DOMAIN cat = DOMAIN s
  /\ \A t \in DOMAIN s :
       /\ cat[t].columns = [x \in DOMAIN s[t].columns |-> StoredColumn(s[t].columns[x])]
       /\ cat[t].indexes = [x \in DOMAIN s[t].indexes |-> StoredIndex(s[t].indexes[x])]
       /\ \A c \in cat[t].constraints : \E d \in s[t].constraints :
            SemanticKey(c) = SemanticKey(StoredConstraint(t, d))
       /\ \A d \in s[t].constraints : \E c \in cat[t].constraints :
            /\ SemanticKey(c) = SemanticKey(StoredConstraint(t, d))
            /\ d.name # Unnamed => c.name = d.name

ConstraintsNamed(table) ==
  \A c, e \in table.constraints : c.name # Unnamed /\ (c.name = e.name => c = e)

\* Variables have their types, and every constraint of the catalog has a name
\* of its own.
TypeOK ==
  /\ applied \in 0 .. Len(migrations)
  /\ reading.query \in 0 .. 5
  /\ outcome \in {"none", "revision", "up", "down", "refused", "failed", "panicked"}
  /\ \A t \in DOMAIN db : ConstraintsNamed(db[t])

\* PostgreSQL never refuses a statement of a generated migration, whatever
\* revisions it follows and however often the others have been reverted and
\* applied again.  (Careful.)
NeverRefused == outcome \notin {"refused", "panicked"}

\* After Up the catalog is what the configs meant when the migration was made,
\* no matter from which schema the revision started, in which order it visited
\* the column configs, and which part of a config says what.  (Careful.)
UpReachesGoal ==
  0 < applied => Agrees(WithoutVersionTable(db), Meaning(migrations[applied].configs))

\* After Down the catalog is what it was when the migration was made: names,
\* indexes of dropped tables and definitions of dropped columns included.
\* (Careful.)
DownLeadsBack ==
  applied < Len(migrations) => WithoutVersionTable(db) = migrations[applied + 1].from

\* A table of the catalog and a declared one differ in what the catalog spells
\* in its own way: literal defaults, to which it adds a cast, CHECK constraints,
\* for which it lists columns and the config none, and indexes that leave the
\* method open.
SpelledApart(cur, des) ==
  LET old == cur.constraints
      new == des.constraints
  IN  /\ DOMAIN cur.columns = DOMAIN des.columns
      /\ \A x \in Changed(cur.columns, des.columns) : cur.columns[x] = StoredColumn(des.columns[x])
      /\ DOMAIN cur.indexes = DOMAIN des.indexes
      /\ \A x \in Changed(cur.indexes, des.indexes) : des.indexes[x].method = NotGiven
      /\ \A c \in AddedConstraints(old, new) \cup RemovedConstraints(old, new)
                    \cup {p[2] : p \in ChangedConstraints(old, new)} : c.kind = "ck"

\* With all migrations applied, comparing again with the same config finds
\* nothing but such spellings.  (Careful.)
Settles ==
  LET cur == WithoutVersionTable(db)
      des == Meaning(migrations[applied].configs)
  IN  0 < applied =>
        /\ DOMAIN cur = DOMAIN des
        /\ \A t \in ChangedTables(cur, des) : SpelledApart(cur[t], des[t])

\* What a revision compares is the catalog, table by table and index by index,
\* unless a migration ran meanwhile.  The exception: a unique index that only a
\* foreign key depends on is not listed.
SnapshotExact ==
  reading.query = 5 /\ ~reading.disturbed /\ RefersToConstraints(db) => reading.tables = db

KeepsVersionTable ==
  VersionTable \in DOMAIN db =>
    VersionTable \in DOMAIN db' /\ db'[VersionTable] = db[VersionTable]

\* No migration touches the table that holds the version.
VersionTableStays == [][KeepsVersionTable]_db

TakenBack ==
  LET m == migrations[applied']
  IN  /\ Up /\ outcome' = "up"
      /\ WithoutVersionTable(db) = m.from
      /\ ConvertsBack(m.from, Meaning(m.configs))
      => Run(db', m.down).ok

\* Whatever the config asks for: a migration that PostgreSQL executes in the
\* catalog it was made for, it can revert at once, unless it has given a column
\* a type that is not converted back.  (It may not lead back.)
AcceptedCanBeTakenBack == [][TakenBack]_vars

ComesAndGoes ==
  LET m    == Last(migrations')
      goal == Meaning(m.configs)
      up   == Run(WithTable(db), m.up)
      down == Run(up.db, m.down)
  IN  /\ migrations' # migrations
      /\ ~reading.disturbed
      /\ WellFormed(goal)
      /\ WithinReach(WithoutVersionTable(db), goal)
      => /\ up.ok /\ Agrees(WithoutVersionTable(up.db), goal)
         /\ down.ok /\ down.db = WithTable(db)

\* A revision that reads in peace and asks for something within reach can be
\* applied and reverted, in whatever state the catalog has got through torn
\* snapshots, pending migrations, refused ones and lost indexes.
RevisionRepairs == [][ComesAndGoes]_vars

\* "Revert everything back to base" (examples/migrations/README.md): what Up
\* has executed, Down can revert.  Not so: replaceColumnStep drops a column
\* without a step for the indexes that go with it, and the migration that
\* created such an index cannot drop it any more.
RevertsToBase == [][~(Down /\ outcome' = "refused")]_vars
-----------------------------------------------------------------------------
(* The inductive invariant behind TypeOK, VersionTableStays, SnapshotExact *)
(* and RevisionRepairs.                                                    *)

IsTable(table) ==
  table = [columns     |-> table.columns,
           constraints |-> table.constraints,
           indexes     |-> table.indexes]

\* Nothing is in a table but what the queries return.
CompleteTable(table) ==
  /\ IsTable(table)
  /\ table.indexes = [x \in DOMAIN table.indexes |->
                        [columns |-> table.indexes[x].columns,
                         unique  |-> table.indexes[x].unique,
                         method  |-> table.indexes[x].method]]

FiniteTable(table) ==
  /\ IsFiniteSet(DOMAIN table.columns)
  /\ IsFiniteSet(table.constraints)
  /\ IsFiniteSet(DOMAIN table.indexes)

FiniteSchema(s) ==
  /\ DOMAIN s \subseteq Nat
  /\ IsFiniteSet(DOMAIN s)
  /\ \A t \in DOMAIN s : FiniteTable(s[t])

CatalogOK(cat) ==
  /\ cat = [t \in DOMAIN cat |-> cat[t]]
  /\ FiniteSchema(cat)
  /\ \A t \in DOMAIN cat : CompleteTable(cat[t]) /\ ConstraintsNamed(cat[t])
  /\ VersionTable \in DOMAIN cat => cat[VersionTable] = VersionTableDef

\* A schema with nothing in it but what a diff looks at.
Shaped(s) ==
  /\ FiniteSchema(s)
  /\ \A t \in DOMAIN s :
       /\ IsTable(s[t])
       /\ \A x \in DOMAIN s[t].columns : IsColumn(s[t].columns[x])
       /\ \A c \in s[t].constraints : IsConstraint(c)
       /\ \A x \in DOMAIN s[t].indexes : IsIndex(s[t].indexes[x])

\* Everything is spelled the way the catalog spells it.
Recorded(cat) ==
  \A t \in DOMAIN cat :
    LET table == cat[t]
    IN  /\ table.columns = [x \in DOMAIN table.columns |-> StoredColumn(table.columns[x])]
        /\ \A c \in table.constraints : c = StoredConstraint(t, c)
        /\ table.indexes = [x \in DOMAIN table.indexes |-> StoredIndex(table.indexes[x])]

\* Whatever migrations are executed, the catalog is one that PostgreSQL can hold.
Sound(cat) == Shaped(cat) /\ Recorded(cat) /\ Holdable(cat)

\* A statement that leaves the version table alone.
Spares(s) ==
  /\ s.op # "drop index" => s.table # VersionTable
  /\ s.op = "create table" =>
       s.table \in Nat /\ IsFiniteSet(DOMAIN s.columns) /\ IsFiniteSet(s.constraints)

\* It is made of columns and constraints.
Proper(s) ==
  /\ s.op = "create table" => /\ \A x \in DOMAIN s.columns : IsColumn(s.columns[x])
                             /\ \A c \in s.constraints : IsConstraint(c)
  /\ s.op \in {"add column", "replace column"} => IsColumn(s.def)
  /\ s.op = "set not null" => s.notNull \in BOOLEAN
  /\ s.op = "add constraint" => IsConstraint(s.constraint)

SparingList(statements) ==
  /\ statements \in Seq(ToSet(statements))
  /\ \A s \in ToSet(statements) : Spares(s) /\ Proper(s)

MigrationsOK ==
  /\ migrations \in Seq(ToSet(migrations))
  /\ \A m \in ToSet(migrations) : SparingList(m.up) /\ SparingList(m.down)

\* What the first queries return if nothing else happens.
TablesSoFar(query) ==
  LET tables  == TablesRead(db)
      columns == ColumnsRead(tables, db)
  IN  CASE query = 1 -> tables
        [] query = 2 -> columns
        [] query > 2 -> ConstraintsRead(columns, db)

\* What has been read is what the catalog holds, as long as nothing disturbs.
ReadingExact ==
  LET q == reading.query
  IN  ~reading.disturbed =>
        /\ q \in 1 .. 4 => reading.tables = TablesSoFar(q)
        /\ q = 4 => reading.indexes = IndexesRead(reading.tables, db)
        /\ q = 5 => reading.tables = IndexesAppended(TablesSoFar(3),
                      KeysRead(IndexesRead(TablesSoFar(3), db), db))

\* The names of the indexes read for table t.
NamesRead(indexes, t) == {p[2] : p \in {q \in DOMAIN indexes : q[1] = t}}

\* What the queries for indexes return: for a table and a name an index.
IndexRows(indexes) == \A p \in DOMAIN indexes : p = <<p[1], p[2]>> /\ IsIndex(indexes[p])

ReadingOK ==
  /\ reading = [query     |-> reading.query,   tables    |-> reading.tables,
                indexes   |-> reading.indexes, disturbed |-> reading.disturbed]
  /\ reading.query = 0 => reading = Idle
  /\ Shaped(reading.tables)
  /\ IndexRows(reading.indexes)
  /\ \A t \in DOMAIN reading.tables : IsFiniteSet(NamesRead(reading.indexes, t))
  /\ ReadingExact

CatalogInv == TypeOK /\ CatalogOK(db) /\ Sound(db) /\ MigrationsOK /\ ReadingOK

-----------------------------------------------------------------------------
(* The inductive invariant behind NeverRefused, UpReachesGoal,             *)
(* DownLeadsBack and Settles, if Careful.                                  *)

\* What is meant has no two constraints that say the same: none is given two
\* names.
MeansOneEach(cfg) ==
  \A c, d \in MeantConstraints(cfg) : SemanticKey(c) = SemanticKey(d) => c = d

WellDeclared(configs) ==
  /\ WellFormed(Meaning(configs))
  /\ \A t \in DOMAIN configs : MeansOneEach(configs[t])

Consistent(cat) ==
  /\ CatalogOK(cat)
  /\ Shaped(cat)
  /\ Recorded(cat)
  /\ Holdable(cat)
  /\ RefersToConstraints(cat)

Reaches(cat, statements, after) == Run(cat, statements) = [ok |-> TRUE, db |-> after]

\* The catalog after a migration, without the version table.
After(m) == WithoutVersionTable(Run(WithTable(m.from), m.up).db)

\* Up leads from the catalog the migration was made for to what its configs
\* mean, Down leads back.
LeadsThereAndBack(m) ==
  /\ Consistent(m.from)
  /\ Consistent(After(m))
  /\ SaysOnce(After(m))
  /\ VersionTable \notin DOMAIN m.from
  /\ Agrees(After(m), Meaning(m.configs))
  /\ Reaches(WithTable(m.from), m.up, WithTable(After(m)))
  /\ Reaches(WithTable(After(m)), m.down, WithTable(m.from))

\* Each migration starts where the one before ends, and the catalog is where
\* the last one executed has led.
Linked ==
  LET n == Len(migrations)
  IN  /\ \A k \in 1 .. n : LeadsThereAndBack(migrations[k])
      /\ \A k \in 1 .. n - 1 : migrations[k + 1].from = After(migrations[k])
      /\ WithoutVersionTable(db) = IF applied < n THEN migrations[applied + 1].from
                                   ELSE IF applied > 0 THEN After(migrations[applied])
                                   ELSE <<>>

CarefulInv ==
  /\ CatalogInv
  /\ Linked
  /\ outcome \notin {"refused", "panicked"}
  /\ reading # Idle => applied = Len(migrations) /\ ~reading.disturbed
  /\ \A m \in ToSet(migrations) : m.configs \in Declared
=============================================================================
