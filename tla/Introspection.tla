---------------------------- MODULE Introspection ----------------------------
(***************************************************************************)
(* PostgreSQL.ReadSchema of src/migrations/postgres.go: the catalog is     *)
(* read by five queries, each of which sees what is committed when it      *)
(* runs.  The first says which tables there are, the others add to these.  *)
(***************************************************************************)
EXTENDS PostgresDDL

NoColumns == <<>>

\* readPostgreSQLTables
TablesRead(db) ==
  [t \in DOMAIN db |-> [columns |-> NoColumns, constraints |-> {}, indexes |-> <<>>]]

\* readPostgreSQLColumns: rows of tables that are not known are passed over
ColumnsRead(tables, db) ==
  [t \in DOMAIN tables |->
     IF t \in DOMAIN db THEN [tables[t] EXCEPT !.columns = db[t].columns] ELSE tables[t]]

\* readPostgreSQLConstraints
ConstraintsRead(tables, db) ==
  [t \in DOMAIN tables |->
     IF t \in DOMAIN db THEN [tables[t] EXCEPT !.constraints = db[t].constraints]
                        ELSE tables[t]]

\* Mutant of ListedIndexes: the index that a UNIQUE constraint makes looks like
\* any unique index; both are left out.
NotUniqueIndexes(db) ==
  UNION {{<<t, x>> : x \in {y \in DOMAIN db[t].indexes : ~db[t].indexes[y].unique}}
           : t \in DOMAIN db}

\* The rows of index_metadata.sql and index_keys.sql: "con.oid IS NULL" leaves
\* out what a constraint depends on, be it its own index (which the catalog of
\* PostgresDDL does not list) or, for a foreign key, the one it refers to.
ListedIndexes(db) ==
  UNION {{<<t, x>> : x \in {y \in DOMAIN db[t].indexes : ~SupportsForeignKey(db, t, y)}}
           : t \in DOMAIN db}

\* readPostgreSQLIndexMetadata
IndexesRead(tables, db) ==
  [p \in {q \in ListedIndexes(db) : q[1] \in DOMAIN tables} |->
     [db[p[1]].indexes[p[2]] EXCEPT !.columns = {}]]

\* readPostgreSQLIndexKeys
KeysRead(indexes, db) ==
  [p \in DOMAIN indexes |->
     IF p \in ListedIndexes(db)
     THEN [indexes[p] EXCEPT !.columns = db[p[1]].indexes[p[2]].columns]
     ELSE indexes[p]]

\* appendPostgreSQLIndexes
IndexesAppended(tables, indexes) ==
  [t \in DOMAIN tables |->
     [tables[t] EXCEPT !.indexes =
        [x \in {p[2] : p \in {q \in DOMAIN indexes : q[1] = t}} |-> indexes[<<t, x>>]]]]
=============================================================================
