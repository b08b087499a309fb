------------------------- MODULE MCSchemaRevisions -------------------------
(***************************************************************************)
(* SchemaRevisions for TLC: two tables that may refer to each other.  What *)
(* changes from one schema to another is every element that the diff       *)
(* compares: tables, columns (type, NOT NULL, default, generated), keys,   *)
(* unique, check and foreign key constraints with and without names, and   *)
(* indexes with and without a method.  Of the types, varchar and text are  *)
(* converted either way and an int to the others, but not back.            *)
(***************************************************************************)
EXTENDS SchemaRevisions

Strings      == {"varchar", "text"}
MCCasts      == {"int", "varchar", "text"} \X Strings
MCTakes      == (Strings \X {"'x'::text", "now()", "generated"}) \cup {<<"int", "generated">>}
MCComparable == (Strings \X Strings) \cup {<<"int", "int">>}

Says == [type |-> NotGiven, notNull |-> FALSE, default |-> NotGiven, pk |-> FALSE, uq |-> FALSE]
IsPk == [Says EXCEPT !.pk = TRUE]
IsUq == [Says EXCEPT !.uq = TRUE]

Field(name, type, nullable, tag) ==
  [name |-> name, type |-> type, nullable |-> nullable, mode |-> Plain, tag |-> tag]

A         == Field("a", "varchar", FALSE, IsPk)
Nullable  == Field("b", "varchar", TRUE, Says)
Unique    == Field("b", "varchar", TRUE, IsUq)
Number    == Field("b", "int", TRUE, Says)
Generated == [Nullable EXCEPT !.mode = "generated"]
\* Type and NOT NULL as the config of the column says.
Text      == [Says EXCEPT !.type = "text", !.notNull = TRUE]

Pk(name)       == [KeyOn("pk", "a") EXCEPT !.name = name]
Uq(cols, name) == [Pk(name) EXCEPT !.kind = "uq", !.columns = cols]
Ck(name)       == [Pk(name) EXCEPT !.kind = "ck", !.columns = {}, !.check = {"b"}]
Fk(r, name)    == [Pk(name) EXCEPT !.kind = "fk", !.columns = {"b"}, !.ref = r,
                                   !.refColumns = "b" :> "a"]
I == <<"i">>
J == <<"j">>
Index(unique, method) == [columns |-> {"b"}, unique |-> unique, method |-> method]

Config(fields, columns, constraints, indexes) ==
  [fields |-> fields, columns |-> columns, constraints |-> constraints, indexes |-> indexes]

\* A config in tags and lists only.
Table(b, constraints, indexes) == Config(<<A, b>>, <<>>, constraints, indexes)

\* The same key is declared by tags, column configs and lists in turn.
JustA == Config(<<[A EXCEPT !.tag = Says]>>, "a" :> IsPk, <<>>, <<>>)

Firsts ==
  {JustA,
   Table(Nullable, <<>>, <<>>),
   Table(Generated, <<>>, <<>>),
   Table(Unique, <<Uq({"b"}, <<"u1">>)>>, <<>>),
   Config(<<A, Nullable>>, ("a" :> IsPk) @@ ("b" :> IsUq), <<>>, I :> Index(FALSE, "")),
   Config(<<A, [Unique EXCEPT !.tag.default = "now()"]>>,
          "b" :> [Text EXCEPT !.default = "'x'", !.uq = TRUE],
          <<Uq({"b"}, Unnamed), Uq({"b"}, <<"u2">>)>>, I :> Index(TRUE, "btree")),
   Config(<<A, [Nullable EXCEPT !.tag.default = "now()"]>>, ("a" :> Says) @@ ("b" :> Text),
          <<Uq({"a", "b"}, <<"u1">>), Ck(Unnamed)>>, I :> Index(FALSE, "btree")),
   Table(Number, <<Ck(<<"c">>)>>, <<>>),
   Table(Nullable, <<Fk(2, <<"f">>)>>, <<>>)}

Seconds ==
  {Table(Nullable, <<Fk(1, Unnamed)>>, J :> Index(FALSE, "")),
   Table(Nullable, <<Fk(1, <<"f">>), Ck(Unnamed)>>, <<>>),
   JustA}

\* One of them declares the version table as well.
Schemas ==
  {s \in {<<>>, (0 :> JustA) @@ (2 :> JustA)}
           \cup {1 :> p : p \in Firsts} \cup {2 :> q : q \in Seconds}
           \cup {(1 :> p) @@ (2 :> q) : p \in Firsts, q \in Seconds} :
     WellFormed(Meaning(s)) /\ RefersToConstraints(Meaning(s))}

\* What Careful excludes, for the run that does without it: indexes and
\* constraints on a replaced column, keys that foreign keys need, a foreign
\* key to a table that comes later or to an index, two primary keys, two names
\* for one constraint, the name of a constraint for another or for an index of
\* another table, types that are not converted or not converted back, or not
\* while a foreign key is there.
WithoutKey == Config(<<[A EXCEPT !.tag = Says], Nullable>>, <<>>, <<>>, <<>>)
OntoIndex == [Fk(1, Unnamed) EXCEPT !.refColumns = "b" :> "b"]
Careless ==
  {<<>>,
   1 :> Table(Nullable, <<Uq({"b"}, <<"u1">>), Ck(Unnamed)>>, I :> Index(FALSE, "btree")),
   1 :> Table(Generated, <<Uq({"b"}, <<"u2">>)>>, I :> Index(TRUE, "btree")),
   1 :> Table(Unique, <<Uq({"b"}, <<"u1">>), Uq({"b"}, <<"u2">>)>>, <<>>),
   1 :> Table(Number, <<Uq({"a", "b"}, <<"u1">>)>>, <<>>),
   1 :> Table([Nullable EXCEPT !.tag.pk = TRUE], <<>>, <<>>),
   (1 :> WithoutKey) @@ (2 :> WithoutKey),
   (1 :> Table(Nullable, <<>>, <<>>)) @@ (2 :> Table(Nullable, <<Fk(1, Unnamed)>>, <<>>)),
   (1 :> Table(Number, <<>>, I :> Index(TRUE, "btree")))
     @@ (2 :> Table(Number, <<OntoIndex>>, <<>>)),
   (1 :> Table(Nullable, <<Fk(2, <<"f">>)>>, J :> Index(FALSE, "")))
     @@ (2 :> Table(Nullable, <<Fk(1, <<"f">>)>>, <<"u1">> :> Index(FALSE, "btree")))}

\* An index whose column is replaced and nothing else.
Replacing ==
  {1 :> Table(Nullable, <<>>, I :> Index(FALSE, "btree")),
   1 :> Table(Generated, <<>>, I :> Index(FALSE, "btree"))}

\* What the theorems about careful revisions assume of the declared schemas.
ASSUME CarefulAssumption == Careful => \A configs \in Declared : WellDeclared(configs)
=============================================================================
