----------------------------- MODULE TableConfigs -----------------------------
(***************************************************************************)
(* What a table config declares: src/migrations/table_config.go puts the   *)
(* fields of a struct, their q tags, the column configs and the lists of   *)
(* constraints and indexes together to a table.                            *)
(*                                                                         *)
(* A config is                                                             *)
(*   [fields      : sequence of [name, type, nullable, mode, tag],         *)
(*    columns     : name -> config, for some of the fields,                *)
(*    constraints : sequence of constraints,                               *)
(*    indexes     : name -> index];                                        *)
(* a tag and the config of a column are [type, notNull, default, pk, uq],  *)
(* with NotGiven for a type or a default that they leave open.  A config   *)
(* has no words for identity and generated clauses: mode is what the       *)
(* function that declares the schema sets in the column itself.            *)
(***************************************************************************)
EXTENDS SchemaDiff

KeyOn(kind, x) ==
  [kind |-> kind, columns |-> {x}, check |-> {}, ref |-> NoTable, refColumns |-> <<>>,
   name |-> Unnamed]

\* The constraints that the tag or the config says column x has.
KeysOf(x, says) ==
  (IF says.pk THEN <<KeyOn("pk", x)>> ELSE <<>>) \o (IF says.uq THEN <<KeyOn("uq", x)>> ELSE <<>>)

\* A column with what the tag or the config says of it.
Overridden(col, says) ==
  [col EXCEPT !.type    = IF says.type = NotGiven THEN @ ELSE says.type,
              !.notNull = @ \/ says.notNull \/ says.pk,
              !.default = IF says.default = NotGiven THEN @ ELSE says.default]

\* infoFromColumnFields
FieldColumn(f) ==
  Overridden([type |-> f.type, notNull |-> ~f.nullable, default |-> NotGiven,
              mode |-> f.mode], f.tag)

TagConstraints(fields) ==
  FlattenSeq([i \in DOMAIN fields |-> KeysOf(fields[i].name, fields[i].tag)])

-----------------------------------------------------------------------------
(* constraints.go                                                          *)

\* Mutant of MergedName: the constraint keeps the name it has, or has not.
FirstName(existing, incoming) == existing

\* mergeConstraint
MergedName(existing, incoming) == IF existing = Unnamed THEN incoming ELSE existing

Clash(existing, incoming) ==
  Unnamed \notin {existing, incoming} /\ existing # incoming

\* appendConstraintsUnique for one constraint: r.ok is FALSE after a panic
AppendUnique(r, c) ==
  LET same == {i \in DOMAIN r.list : SemanticKey(r.list[i]) = SemanticKey(c)}
  IN  IF same = {}
      THEN [r EXCEPT !.list = Append(@, c)]
      ELSE LET i == CHOOSE j \in same : TRUE
           IN  [r EXCEPT !.ok = @ /\ ~Clash(r.list[i].name, c.name),
                         !.list[i].name = MergedName(@, c.name)]

\* appendConstraintsUnique for all of them, one after the other
Merged(constraints) ==
  LET r[i \in 0 .. Len(constraints)] ==
        IF i = 0 THEN [ok |-> TRUE, list |-> <<>>] ELSE AppendUnique(r[i - 1], constraints[i])
  IN  r[Len(constraints)]

-----------------------------------------------------------------------------
\* tableConfigToSchema: [ok, table], the column configs visited in this order
TableFromConfig(cfg, visit) ==
  LET columns == [x \in {f.name : f \in ToSet(cfg.fields)} |->
                    LET f == CHOOSE g \in ToSet(cfg.fields) : g.name = x
                    IN  IF x \in DOMAIN cfg.columns
                        THEN Overridden(FieldColumn(f), cfg.columns[x])
                        ELSE FieldColumn(f)]
      listed  == Merged(TagConstraints(cfg.fields)
                          \o FlattenSeq([i \in DOMAIN visit |->
                                           KeysOf(visit[i], cfg.columns[visit[i]])])
                          \o cfg.constraints)
  IN  [ok    |-> listed.ok,
       table |-> [columns |-> columns, constraints |-> ToSet(listed.list),
                  indexes |-> cfg.indexes]]

\* The schemas that a function which registers these configs may return: a range
\* over a map visits the column configs in any order.
DesiredSchemas(configs) ==
  LET results(t) == {TableFromConfig(configs[t], visit) :
                       visit \in SetToSeqs(DOMAIN configs[t].columns)}
  IN  {s \in [DOMAIN configs -> UNION {results(t) : t \in DOMAIN configs}] :
         \A t \in DOMAIN configs : s[t] \in results(t)}
=============================================================================
