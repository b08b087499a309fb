----------------------- MODULE CarefulRevisionsProofs -----------------------
(***************************************************************************)
(* What a revision does that is within reach of what the catalog holds.    *)
(* Its migration leads from any consistent catalog to what the configs     *)
(* mean and back.  So, if Careful, when revisions are made, executed and   *)
(* reverted one at a time, every state that the commands reach is one that *)
(* a migration starts from or leads to; and without Careful, whatever the  *)
(* history of the catalog, such a revision still works.                    *)
(***************************************************************************)
EXTENDS MigrationStepsProofs

-----------------------------------------------------------------------------
(* The tables of the two schemas.                                          *)

LEMMA TablesFit ==
  ASSUME NEW s, Shaped(s), Holdable(s), NEW t \in DOMAIN s
  PROVE  FitTable(t, s[t])
<1> DEFINE table == s[t]
<1>1. /\ IsTable(table) /\ FiniteTable(table)
      /\ \A x \in DOMAIN table.columns : IsColumn(table.columns[x])
      /\ \A c \in table.constraints : IsConstraint(c)
  BY DEF Shaped, FiniteSchema
<1>2. /\ \A c, d \in table.constraints :
           DropName(t, c) = DropName(t, d) \/ (c.kind = "pk" /\ d.kind = "pk") => c = d
      /\ \A x \in DOMAIN table.indexes :
           table.indexes[x].columns \subseteq DOMAIN table.columns /\ table.indexes[x].columns # {}
      /\ DOMAIN table.indexes \cap KeyNames(t, table) = {}
  BY DEF Holdable
<1>3. \A x \in DOMAIN table.columns :
        /\ ColumnFits(table.columns[x])
        /\ table.columns[x].mode = "identity" => table.columns[x].notNull
        /\ table.columns[x].mode # Plain => table.columns[x].default = NotGiven
  BY DEF Holdable
<1>4. ASSUME NEW c \in table.constraints PROVE FitsColumns(table.columns, StoredConstraint(t, c))
  <2>1. ConstraintFits(s, t, c)
    BY DEF Holdable
  <2>2. /\ c.columns \cup c.check \subseteq DOMAIN table.columns
        /\ c.kind = "pk" => \A x \in c.columns : table.columns[x].notNull
    BY <2>1 DEF ConstraintFits
  <2> DEFINE e == StoredConstraint(t, c)
  <2>3. /\ e.kind = c.kind /\ e.check = c.check
        /\ e.columns = c.columns \/ e.columns = c.check
        /\ e.kind = "pk" => e.columns = c.columns
    BY DEF StoredConstraint
  <2> HIDE DEF e, table
  <2>4. FitsColumns(table.columns, e)
    BY <2>2, <2>3 DEF FitsColumns
  <2> QED
    BY <2>4 DEF e
<1> HIDE DEF table
<1>5. FitTable(t, table)
  BY <1>1, <1>2, <1>3, <1>4 DEF FitTable
<1> QED
  BY <1>5 DEF table

LEMMA TablesRecorded ==
  ASSUME NEW cat, Recorded(cat), NEW t \in DOMAIN cat
  PROVE  RecordedTable(t, cat[t])
BY DEF Recorded, RecordedTable, StoredColumns, StoredIndexes

\* A catalog and a schema between which a revision is made.
InReach(cur, des) ==
  /\ Consistent(cur)
  /\ VersionTable \notin DOMAIN cur
  /\ Shaped(des)
  /\ WellFormed(des)
  /\ VersionTable \notin DOMAIN des
  /\ WithinReach(cur, des)

LEMMA InReachTables ==
  ASSUME NEW cur, NEW des, InReach(cur, des)
  PROVE  /\ \A t \in DOMAIN cur : FitTable(t, cur[t]) /\ RecordedTable(t, cur[t])
         /\ \A t \in DOMAIN des : FitTable(t, des[t]) /\ Twinless(des[t].constraints)
<1>1. Shaped(cur) /\ Holdable(cur) /\ Recorded(cur) /\ Shaped(des) /\ Holdable(des) /\ SaysOnce(des)
  BY DEF InReach, Consistent, WellFormed
<1>2. ASSUME NEW t \in DOMAIN des PROVE FitTable(t, des[t]) /\ Twinless(des[t].constraints)
  <2>1. FitTable(t, des[t])
    BY <1>1, TablesFit
  <2>2. OwnNames(des[t].constraints)
    BY <2>1, FitHasOwnNames
  <2> QED
    BY <1>1, <2>1, <2>2 DEF Twinless, SaysOnce
<1> QED
  BY <1>1, <1>2, TablesFit, TablesRecorded

\* An index or a key of one table has no name of another table's in either schema.
LEMMA RelationsApart ==
  ASSUME NEW cur, NEW des, InReach(cur, des), NEW x, NEW t, NEW u, t # u,
         NEW s \in {cur, des}, t \in DOMAIN s, x \in RelationNames(t, s[t]),
         NEW r \in {cur, des}, u \in DOMAIN r
  PROVE  x \notin RelationNames(u, r[u])
<1>1. Holdable(cur) /\ Holdable(des) /\ RelationsStay(cur, des)
  BY DEF InReach, Consistent, WellFormed, WithinReach
<1>2. s = r => RelationNames(t, s[t]) \cap RelationNames(u, r[u]) = {}
  BY <1>1 DEF Holdable
<1>3. s # r => RelationNames(t, s[t]) \cap RelationNames(u, r[u]) = {}
  BY <1>1 DEF RelationsStay
<1> QED
  BY <1>2, <1>3

\* The columns of a constraint other than a CHECK are columns of its table.
LEMMA ColumnsOfFit ==
  ASSUME NEW t, NEW table, FitTable(t, table), NEW d \in table.constraints, d.kind # "ck"
  PROVE  /\ d.columns \subseteq DOMAIN table.columns
         /\ d.kind = "fk" => DOMAIN d.refColumns = d.columns
<1>1. FitsColumns(table.columns, StoredConstraint(t, d)) /\ IsConstraint(d)
  BY DEF FitTable
<1>2. StoredConstraint(t, d).columns = d.columns
  BY DEF StoredConstraint
<1> QED
  BY <1>1, <1>2 DEF FitsColumns, IsConstraint

\* A key that a foreign key of either schema refers to is one that stays.
LEMMA KeyStays ==
  ASSUME NEW cur, NEW des, InReach(cur, des), NEW r, r \in DOMAIN cur, r \in DOMAIN des,
         ForeignKeysTo(cur, r) # {} \/ ForeignKeysTo(des, r) # {}
  PROVE  /\ \A c \in (cur[r].constraints \ Left(cur[r].constraints, des[r].constraints))
                       \cup Coming(cur[r].constraints, des[r].constraints) : ~IsKey(c)
         /\ \A columns :
              HasConstraint(cur, r, columns) \/ HasConstraint(des, r, columns) =>
                \E k \in Left(cur[r].constraints, des[r].constraints) : IsKey(k) /\ k.columns = columns
<1> DEFINE O == cur[r].constraints
           N == des[r].constraints
<1>1. \A c \in AddedConstraints(O, N) \cup RemovedConstraints(O, N)
                 \cup UNION {{p[1], p[2]} : p \in ChangedConstraints(O, N)} : ~IsKey(c)
  BY DEF InReach, WithinReach, KeysStay
<1>2. FitTable(r, cur[r]) /\ FitTable(r, des[r]) /\ Twinless(N)
  BY InReachTables
<1>3. OwnNames(O) /\ Twinless(N)
  BY <1>2, FitHasOwnNames
<1>4. /\ \A c \in O : IsConstraint(c)
      /\ \A d \in N : IsConstraint(d)
  BY <1>2 DEF FitTable
<1> HIDE DEF O, N
<1>5. ASSUME NEW c \in (O \ Left(O, N)) \cup Coming(O, N) PROVE ~IsKey(c)
  <2>1. \/ c \in AddedConstraints(O, N)
        \/ c \in RemovedConstraints(O, N)
        \/ \E p \in ChangedConstraints(O, N) : c = p[1] \/ c = p[2]
    BY DEF Left, Coming
  <2> QED
    BY <1>1, <2>1
<1>6. ASSUME NEW k \in O, IsKey(k) PROVE k \in Left(O, N)
  BY <1>5, <1>6
<1>7. ASSUME NEW d \in N, IsKey(d) PROVE \E k \in Left(O, N) : IsKey(k) /\ k.columns = d.columns
  <2>1. d \in N \ Coming(O, N)
    BY <1>5, <1>7
  <2>2. PICK c \in Left(O, N) : ~ConstraintChanged(c, d)
    BY <1>3, <2>1, DiffIsComplete
  <2>3. c \in O /\ SemanticKey(c) = SemanticKey(d)
    BY <2>2 DEF Left, ConstraintChanged
  <2>4. c.kind = d.kind /\ c.columns = d.columns
    BY <1>4, <2>3, SameMeaning
  <2> QED
    BY <1>7, <2>2, <2>4 DEF IsKey
<1>8. ASSUME NEW columns, HasConstraint(cur, r, columns) \/ HasConstraint(des, r, columns)
      PROVE  \E k \in Left(O, N) : IsKey(k) /\ k.columns = columns
  <2>1. (\E k \in O : IsKey(k) /\ k.columns = columns) \/ \E k \in N : IsKey(k) /\ k.columns = columns
    BY <1>8 DEF HasConstraint, O, N
  <2> QED
    BY <1>6, <1>7, <2>1
<1> QED
  BY <1>5, <1>8 DEF O, N

-----------------------------------------------------------------------------
(* The catalog while a migration is executed.                              *)

\* The tables of A have been created, those of R dropped and those of H changed.
Stage(cur, des, A, R, H) ==
  [t \in ({VersionTable} \cup (DOMAIN cur \ R)) \cup A |->
     IF t = VersionTable THEN VersionTableDef
     ELSE IF t \in A THEN TableMade(t, des[t])
     ELSE IF t \in H THEN TableAfter(t, cur[t], des[t])
     ELSE cur[t]]

\* In the course of the migration from cur to des.
OnTheWay(cur, des, A, R, H) ==
  /\ InReach(cur, des)
  /\ A \subseteq Added(cur, des)
  /\ R \subseteq Removed(cur, des)
  /\ H \subseteq ChangedTables(cur, des)

LEMMA VersionTableIs ==
  /\ VersionTableDef.constraints = {}
  /\ DOMAIN VersionTableDef.indexes = {}
  /\ IsTable(VersionTableDef) /\ IsMap(VersionTableDef.indexes)
BY NoNames DEF VersionTableDef, IsTable, IsMap

LEMMA StageTables ==
  ASSUME NEW cur, NEW des, NEW A, NEW R, NEW H, OnTheWay(cur, des, A, R, H),
         NEW st, st = Stage(cur, des, A, R, H)
  PROVE  /\ \A u : u \in DOMAIN st <=> u = VersionTable \/ (u \in DOMAIN cur /\ u \notin R) \/ u \in A
         /\ st[VersionTable] = VersionTableDef
         /\ \A u \in A : st[u] = TableMade(u, des[u]) /\ u \in DOMAIN des /\ u \notin DOMAIN cur
         /\ \A u \in H : u \in DOMAIN cur /\ u \in DOMAIN des /\ u \notin R /\ st[u] = TableAfter(u, cur[u], des[u])
         /\ \A u \in DOMAIN cur : u \notin R /\ u \notin H => st[u] = cur[u]
         /\ \A u \in R : u \in DOMAIN cur /\ u \notin DOMAIN des
         /\ IsMap(st)
<1>1. VersionTable \notin DOMAIN cur /\ VersionTable \notin DOMAIN des
  BY DEF OnTheWay, InReach
<1>2. \A u \in A : u \in DOMAIN des /\ u \notin DOMAIN cur
  BY DEF OnTheWay, Added
<1>3. \A u \in R : u \in DOMAIN cur /\ u \notin DOMAIN des
  BY DEF OnTheWay, Removed
<1>4. \A u \in H : u \in DOMAIN cur /\ u \in DOMAIN des /\ u \notin R
  BY <1>3 DEF OnTheWay, ChangedTables
<1>5. IsMap(st)
  BY DEF Stage, IsMap
<1>6. \A u : u \in DOMAIN st <=> u = VersionTable \/ (u \in DOMAIN cur /\ u \notin R) \/ u \in A
  BY DEF Stage
<1>7. \A u \in DOMAIN st : st[u] = IF u = VersionTable THEN VersionTableDef
                                   ELSE IF u \in A THEN TableMade(u, des[u])
                                   ELSE IF u \in H THEN TableAfter(u, cur[u], des[u])
                                   ELSE cur[u]
  BY DEF Stage
<1>8. \A u \in A : st[u] = TableMade(u, des[u])
  BY <1>1, <1>2, <1>6, <1>7
<1>9. \A u \in H : st[u] = TableAfter(u, cur[u], des[u])
  BY <1>1, <1>2, <1>4, <1>6, <1>7
<1>10. \A u \in DOMAIN cur : u \notin R /\ u \notin H => st[u] = cur[u]
  BY <1>1, <1>2, <1>6, <1>7
<1>11. st[VersionTable] = VersionTableDef
  BY <1>6, <1>7
<1> QED
  BY <1>2, <1>3, <1>4, <1>5, <1>6, <1>8, <1>9, <1>10, <1>11

LEMMA StageIsWhole ==
  ASSUME NEW cur, NEW des, NEW A, NEW R, NEW H, OnTheWay(cur, des, A, R, H),
         NEW st, st = Stage(cur, des, A, R, H)
  PROVE  Whole(st)
<1>1. ASSUME NEW u \in DOMAIN st PROVE IsTable(st[u]) /\ IsMap(st[u].indexes)
  <2>1. CASE u = VersionTable
    BY <2>1, StageTables, VersionTableIs
  <2>2. CASE u \in A
    <3>1. st[u] = TableMade(u, des[u])
      BY <2>2, StageTables
    <3>2. ASSUME NEW C, NEW K, NEW I, IsMap(I), st[u] = Table(C, K, I) PROVE IsTable(st[u]) /\ IsMap(st[u].indexes)
      BY <3>2 DEF Table, IsTable
    <3>3. IsMap(StoredIndexes(des[u].indexes))
      BY DEF IsMap, StoredIndexes
    <3> QED
      BY <3>1, <3>2, <3>3 DEF TableMade, StoredTable
  <2>3. CASE u \in H
    <3>1. st[u] = TableAfter(u, cur[u], des[u])
      BY <2>3, StageTables
    <3>2. ASSUME NEW C, NEW K, NEW I, IsMap(I), st[u] = Table(C, K, I) PROVE IsTable(st[u]) /\ IsMap(st[u].indexes)
      BY <3>2 DEF Table, IsTable
    <3>3. IsMap(StoredIndexes(des[u].indexes))
      BY DEF IsMap, StoredIndexes
    <3> QED
      BY <3>1, <3>2, <3>3 DEF TableAfter
  <2>4. CASE u # VersionTable /\ u \notin A /\ u \notin H
    <3>1. u \in DOMAIN cur /\ st[u] = cur[u]
      BY <2>4, StageTables
    <3>2. FitTable(u, cur[u]) /\ RecordedTable(u, cur[u])
      BY <3>1, InReachTables DEF OnTheWay
    <3> DEFINE table == cur[u]
    <3> HIDE DEF table
    <3>3. st[u] = table /\ IsTable(table) /\ table.indexes = StoredIndexes(table.indexes)
      BY <3>1, <3>2 DEF FitTable, RecordedTable, table
    <3>4. IsMap(StoredIndexes(table.indexes))
      BY DEF IsMap, StoredIndexes
    <3> QED
      BY <3>3, <3>4
  <2> QED
    BY <2>1, <2>2, <2>3, <2>4
<1>2. IsMap(st)
  BY StageTables
<1> QED
  BY <1>1, <1>2 DEF Whole

\* Whatever is in the catalog by then comes from one of the two schemas.
LEMMA StageConstraints ==
  ASSUME NEW cur, NEW des, NEW A, NEW R, NEW H, OnTheWay(cur, des, A, R, H),
         NEW st, st = Stage(cur, des, A, R, H), NEW u \in DOMAIN st, NEW c \in st[u].constraints
  PROVE  \/ u \in DOMAIN cur /\ u \notin R /\ c \in cur[u].constraints
         \/ u \in A \cup H /\ \E d \in des[u].constraints : c = StoredConstraint(u, d)
<1>1. CASE u = VersionTable
  BY <1>1, StageTables, VersionTableIs
<1>2. CASE u \in A
  <2>1. st[u] = TableMade(u, des[u])
    BY <1>2, StageTables
  <2>2. st[u].constraints = {StoredConstraint(u, d) : d \in des[u].constraints}
    BY <2>1 DEF TableMade, StoredTable, Table
  <2> QED
    BY <1>2, <2>2
<1>3. CASE u \in H
  <2>1. st[u] = TableAfter(u, cur[u], des[u]) /\ u \in DOMAIN cur /\ u \in DOMAIN des /\ u \notin R
    BY <1>3, StageTables
  <2> DEFINE O == cur[u].constraints
             N == des[u].constraints
  <2>2. st[u].constraints = WithComing(u, O, N)
    BY <2>1 DEF TableAfter, Table
  <2>3. FitTable(u, cur[u]) /\ Twinless(N)
    BY <2>1, InReachTables DEF OnTheWay
  <2>4. OwnNames(O) /\ Twinless(N)
    BY <2>3, FitHasOwnNames
  <2> HIDE DEF O, N
  <2>5. Coming(O, N) \subseteq N
    BY <2>4, DiffIsComplete
  <2>6. c \in O \/ \E d \in N : c = StoredConstraint(u, d)
    BY <2>2, <2>5 DEF WithComing, Left
  <2> QED
    BY <1>3, <2>1, <2>6 DEF O, N
<1>4. CASE u # VersionTable /\ u \notin A /\ u \notin H
  BY <1>4, StageTables
<1> QED
  BY <1>1, <1>2, <1>3, <1>4

LEMMA StageIndexes ==
  ASSUME NEW cur, NEW des, NEW A, NEW R, NEW H, OnTheWay(cur, des, A, R, H),
         NEW st, st = Stage(cur, des, A, R, H), NEW u \in DOMAIN st, NEW x \in DOMAIN st[u].indexes
  PROVE  \/ u \in DOMAIN cur /\ u \notin R /\ x \in DOMAIN cur[u].indexes
         \/ u \in DOMAIN des /\ x \in DOMAIN des[u].indexes
<1>1. CASE u = VersionTable
  BY <1>1, StageTables, VersionTableIs
<1>2. CASE u \in A
  <2>1. st[u] = TableMade(u, des[u]) /\ u \in DOMAIN des
    BY <1>2, StageTables
  <2>2. st[u].indexes = StoredIndexes(des[u].indexes)
    BY <2>1 DEF TableMade, StoredTable, Table
  <2> QED
    BY <2>1, <2>2 DEF StoredIndexes
<1>3. CASE u \in H
  <2>1. st[u] = TableAfter(u, cur[u], des[u]) /\ u \in DOMAIN des
    BY <1>3, StageTables
  <2>2. st[u].indexes = StoredIndexes(des[u].indexes)
    BY <2>1 DEF TableAfter, Table
  <2> QED
    BY <2>1, <2>2 DEF StoredIndexes
<1>4. CASE u # VersionTable /\ u \notin A /\ u \notin H
  BY <1>4, StageTables
<1> QED
  BY <1>1, <1>2, <1>3, <1>4

\* So do the names of its indexes and keys, which no other table has.
LEMMA StageRelations ==
  ASSUME NEW cur, NEW des, NEW A, NEW R, NEW H, OnTheWay(cur, des, A, R, H),
         NEW st, st = Stage(cur, des, A, R, H), NEW u \in DOMAIN st, NEW x \in RelationNames(u, st[u])
  PROVE  \E s \in {cur, des} : u \in DOMAIN s /\ x \in RelationNames(u, s[u])
<1>1. CASE x \in DOMAIN st[u].indexes
  BY <1>1, StageIndexes DEF RelationNames
<1>2. CASE x \notin DOMAIN st[u].indexes
  <2>1. PICK k \in st[u].constraints : IsKey(k) /\ x = DropName(u, k)
    BY <1>2 DEF RelationNames, KeyNames
  <2>2. CASE u \in DOMAIN cur /\ k \in cur[u].constraints
    BY <2>1, <2>2 DEF RelationNames, KeyNames
  <2>3. CASE u \in A \cup H /\ \E d \in des[u].constraints : k = StoredConstraint(u, d)
    <3>1. PICK d \in des[u].constraints : k = StoredConstraint(u, d)
      BY <2>3
    <3>2. IsKey(d) /\ x = DropName(u, d)
      BY <2>1, <3>1, StoredReference, StoredName
    <3>3. u \in DOMAIN des
      BY <2>3, StageTables
    <3> QED
      BY <3>2, <3>3 DEF RelationNames, KeyNames
  <2> QED
    BY <2>2, <2>3, StageConstraints
<1> QED
  BY <1>1, <1>2

LEMMA NotElsewhere ==
  ASSUME NEW cur, NEW des, NEW A, NEW R, NEW H, OnTheWay(cur, des, A, R, H),
         NEW st, st = Stage(cur, des, A, R, H),
         NEW s \in {cur, des}, NEW t \in DOMAIN s, NEW x \in RelationNames(t, s[t])
  PROVE  ~Elsewhere(st, t, x)
<1> SUFFICES ASSUME NEW u \in DOMAIN st \ {t}, x \in RelationNames(u, st[u]) PROVE FALSE
  BY DEF Elsewhere
<1>1. PICK r \in {cur, des} : u \in DOMAIN r /\ x \in RelationNames(u, r[u])
  BY StageRelations
<1> QED
  BY <1>1, RelationsApart DEF OnTheWay

\* The columns of a table have a type from one of the two schemas.
EitherTypeOf(cur, des, u, x) == TypesOf(cur, u, x) \cup TypesOf(des, u, x)

LEMMA TypeStored ==
  ASSUME NEW des, NEW u \in DOMAIN des, FitTable(u, des[u]), NEW C, C = StoredColumns(des[u].columns),
         NEW x \in DOMAIN C
  PROVE  x \in DOMAIN des[u].columns /\ C[x].type \in TypesOf(des, u, x)
<1>1. x \in DOMAIN des[u].columns /\ C[x] = StoredColumn(des[u].columns[x])
  BY DEF StoredColumns
<1> DEFINE c == des[u].columns[x]
<1>2. IsColumn(c)
  BY <1>1 DEF FitTable
<1> HIDE DEF c
<1>3. StoredColumn(c).type = c.type
  BY <1>2, StoredType
<1> QED
  BY <1>1, <1>3 DEF TypesOf, c

LEMMA StageTypes ==
  ASSUME NEW cur, NEW des, NEW A, NEW R, NEW H, OnTheWay(cur, des, A, R, H),
         NEW st, st = Stage(cur, des, A, R, H), NEW u \in DOMAIN st, u # VersionTable,
         NEW x \in DOMAIN st[u].columns
  PROVE  st[u].columns[x].type \in EitherTypeOf(cur, des, u, x)
<1>1. CASE u \in A \cup H
  <2>1. (st[u] = TableMade(u, des[u]) \/ st[u] = TableAfter(u, cur[u], des[u])) /\ u \in DOMAIN des
    BY <1>1, StageTables
  <2>2. st[u].columns = StoredColumns(des[u].columns)
    BY <2>1 DEF TableMade, StoredTable, TableAfter, Table
  <2>3. FitTable(u, des[u])
    BY <2>1, InReachTables DEF OnTheWay
  <2> QED
    BY <2>1, <2>2, <2>3, TypeStored DEF EitherTypeOf
<1>2. CASE u \notin A \cup H
  <2>1. u \in DOMAIN cur /\ st[u] = cur[u]
    BY <1>2, StageTables
  <2> QED
    BY <2>1 DEF EitherTypeOf, TypesOf
<1> QED
  BY <1>1, <1>2

\* The columns of a constraint are there.
LEMMA StageFits ==
  ASSUME NEW cur, NEW des, NEW A, NEW R, NEW H, OnTheWay(cur, des, A, R, H),
         NEW st, st = Stage(cur, des, A, R, H), NEW u \in DOMAIN st,
         NEW c \in st[u].constraints, c.kind # "ck"
  PROVE  c.columns \subseteq DOMAIN st[u].columns
<1>1. u # VersionTable
  BY StageTables, VersionTableIs
<1>2. CASE u \in A \cup H
  <2>1. (st[u] = TableMade(u, des[u]) \/ st[u] = TableAfter(u, cur[u], des[u])) /\ u \in DOMAIN des
    BY <1>2, StageTables
  <2>2. DOMAIN st[u].columns = DOMAIN des[u].columns
    BY <2>1 DEF TableMade, StoredTable, TableAfter, Table, StoredColumns
  <2>3. FitTable(u, des[u]) /\ Twinless(des[u].constraints)
    BY <2>1, InReachTables DEF OnTheWay
  <2>4. \E d \in des[u].constraints : d.kind = c.kind /\ d.columns = c.columns
    <3>1. ASSUME NEW d \in des[u].constraints, c = StoredConstraint(u, d)
          PROVE  d.kind = c.kind /\ d.columns = c.columns
      BY <3>1 DEF StoredConstraint
    <3>2. CASE u \in A
      <4>0. st[u] = TableMade(u, des[u])
        BY <3>2, StageTables
      <4>1. st[u].constraints = {StoredConstraint(u, d) : d \in des[u].constraints}
        BY <4>0 DEF TableMade, StoredTable, Table
      <4> QED
        BY <3>1, <4>1
    <3>3. CASE u \in H
      <4>1. st[u] = TableAfter(u, cur[u], des[u]) /\ u \in DOMAIN cur
        BY <3>3, StageTables
      <4>2. st[u].constraints = WithComing(u, cur[u].constraints, des[u].constraints)
        BY <4>1 DEF TableAfter, Table
      <4>3. FitTable(u, cur[u])
        BY <4>1, InReachTables DEF OnTheWay
      <4>4. Coming(cur[u].constraints, des[u].constraints) \subseteq des[u].constraints
        BY <2>3, <4>3, FitHasOwnNames, DiffIsComplete
      <4>5. CASE c \in Left(cur[u].constraints, des[u].constraints)
        BY <2>3, <4>3, <4>5, LeftIsShared
      <4>6. CASE c \notin Left(cur[u].constraints, des[u].constraints)
        BY <3>1, <4>2, <4>4, <4>6 DEF WithComing
      <4> QED
        BY <4>5, <4>6
    <3> QED
      BY <1>2, <3>2, <3>3
  <2> QED
    BY <2>2, <2>3, <2>4, ColumnsOfFit
<1>3. CASE u \notin A \cup H
  <2>1. u \in DOMAIN cur /\ st[u] = cur[u]
    BY <1>1, <1>3, StageTables
  <2>2. FitTable(u, cur[u])
    BY <2>1, InReachTables DEF OnTheWay
  <2> QED
    BY <2>1, <2>2, ColumnsOfFit
<1> QED
  BY <1>2, <1>3

\* A key that a foreign key refers to is there as long as its table is.
LEMMA StageKeys ==
  ASSUME NEW cur, NEW des, NEW A, NEW R, NEW H, OnTheWay(cur, des, A, R, H),
         NEW st, st = Stage(cur, des, A, R, H), NEW r, NEW columns
  PROVE  /\ r \in A /\ HasConstraint(des, r, columns) => HasConstraint(st, r, columns)
         /\ r \in DOMAIN cur /\ r \notin R /\ r \notin H /\ HasConstraint(cur, r, columns)
              => HasConstraint(st, r, columns)
         /\ (/\ r \in DOMAIN cur /\ r \in DOMAIN des
             /\ ForeignKeysTo(cur, r) # {} \/ ForeignKeysTo(des, r) # {}
             /\ HasConstraint(cur, r, columns) \/ HasConstraint(des, r, columns))
              => HasConstraint(st, r, columns)
<1>1. ASSUME r \in A, HasConstraint(des, r, columns) PROVE HasConstraint(st, r, columns)
  <2>1. st[r] = TableMade(r, des[r])
    BY <1>1, StageTables
  <2>2. st[r].constraints = {StoredConstraint(r, d) : d \in des[r].constraints}
    BY <2>1 DEF TableMade, StoredTable, Table
  <2>3. PICK d \in des[r].constraints : IsKey(d) /\ d.columns = columns
    BY <1>1 DEF HasConstraint
  <2> DEFINE e == StoredConstraint(r, d)
  <2>4. e \in st[r].constraints
    BY <2>2
  <2>5. IsKey(e) /\ e.columns = columns
    BY <2>3 DEF StoredConstraint, IsKey
  <2> HIDE DEF e
  <2> QED
    BY <2>4, <2>5 DEF HasConstraint
<1>2. ASSUME r \in DOMAIN cur, r \notin R, r \notin H, HasConstraint(cur, r, columns)
      PROVE  HasConstraint(st, r, columns)
  <2>1. st[r] = cur[r]
    BY <1>2, StageTables
  <2> QED
    BY <1>2, <2>1 DEF HasConstraint
<1>3. ASSUME r \in DOMAIN cur, r \in DOMAIN des,
             ForeignKeysTo(cur, r) # {} \/ ForeignKeysTo(des, r) # {},
             HasConstraint(cur, r, columns) \/ HasConstraint(des, r, columns)
      PROVE  HasConstraint(st, r, columns)
  <2>1. PICK k \in Left(cur[r].constraints, des[r].constraints) : IsKey(k) /\ k.columns = columns
    BY <1>3, KeyStays DEF OnTheWay
  <2>2. k \in st[r].constraints
    <3>1. CASE r \in H
      <4>1. st[r] = TableAfter(r, cur[r], des[r])
        BY <3>1, StageTables
      <4>2. st[r].constraints = WithComing(r, cur[r].constraints, des[r].constraints)
        BY <4>1 DEF TableAfter, Table
      <4> QED
        BY <4>2 DEF WithComing
    <3>2. CASE r \notin H
      <4>1. r \notin R
        BY <1>3, StageTables
      <4>2. st[r] = cur[r]
        BY <1>3, <3>2, <4>1, StageTables
      <4> QED
        BY <4>2 DEF Left
    <3> QED
      BY <3>1, <3>2
  <2> QED
    BY <2>1, <2>2 DEF HasConstraint
<1> QED
  BY <1>1, <1>2, <1>3

\* The foreign keys of a schema and of a catalog in which it is recorded.
LEMMA FoundInSchema ==
  ASSUME NEW s, RefersToConstraints(s), NEW u \in DOMAIN s, NEW c \in s[u].constraints, c.kind = "fk"
  PROVE  /\ c.ref \in DOMAIN s
         /\ HasConstraint(s, c.ref, Referred(c))
         /\ ForeignKeysTo(s, c.ref) # {}
<1>1. c.ref \in DOMAIN s /\ HasConstraint(s, c.ref, Referred(c))
  BY DEF RefersToConstraints
<1>2. c \in ForeignKeysTo(s, c.ref)
  BY DEF ForeignKeysTo
<1> QED
  BY <1>1, <1>2

\* A foreign key fits all types that its columns have in either schema.
LEMMA TypesInReach ==
  ASSUME NEW cur, NEW des, InReach(cur, des), NEW s \in {cur, des}, NEW u \in DOMAIN s,
         NEW c \in s[u].constraints, c.kind = "fk", NEW x \in c.columns
  PROVE  EitherTypeOf(cur, des, u, x) \X EitherTypeOf(cur, des, c.ref, c.refColumns[x]) \subseteq Comparable
BY DEF InReach, WithinReach, KeyTypesAgree, EitherTypeOf

\* So it fits when its table is created.
LEMMA FitsOnTheWay ==
  ASSUME NEW cur, NEW des, NEW A, NEW R, NEW H, OnTheWay(cur, des, A, R, H),
         NEW st, st = Stage(cur, des, A, R, H),
         NEW s \in {cur, des}, NEW t \in DOMAIN s, NEW c \in s[t].constraints,
         c.kind = "fk" /\ c.ref # t => c.ref \in DOMAIN st /\ HasConstraint(st, c.ref, Referred(c))
  PROVE  FitsTypes(st, t, StoredColumns(s[t].columns), c)
<1> SUFFICES ASSUME c.kind = "fk", NEW x \in c.columns, NEW C, C = StoredColumns(s[t].columns),
                    NEW there, there = IF c.ref = t THEN C ELSE st[c.ref].columns
             PROVE  <<C[x].type, there[c.refColumns[x]].type>> \in Comparable
  BY DEF FitsTypes
<1> DEFINE y == c.refColumns[x]
<1>1. InReach(cur, des) /\ RefersToConstraints(s) /\ VersionTable \notin DOMAIN s
  BY DEF OnTheWay, InReach, WithinReach
<1>2. FitTable(t, s[t])
  BY <1>1, InReachTables
<1>3. c.columns \subseteq DOMAIN s[t].columns /\ y \in Referred(c)
  <2>1. c.columns \subseteq DOMAIN s[t].columns /\ DOMAIN c.refColumns = c.columns
    BY <1>2, ColumnsOfFit
  <2> QED
    BY <2>1 DEF Referred, Range
<1>4. c.ref \in DOMAIN s /\ HasConstraint(s, c.ref, Referred(c))
  BY <1>1, FoundInSchema
<1>5. EitherTypeOf(cur, des, t, x) \X EitherTypeOf(cur, des, c.ref, y) \subseteq Comparable
  BY <1>1, TypesInReach
<1> HIDE DEF y
<1>6. DOMAIN C = DOMAIN s[t].columns
  BY DEF StoredColumns
<1>7. \A z \in DOMAIN C : C[z].type \in EitherTypeOf(cur, des, t, z)
  BY <1>2, TypeStored DEF EitherTypeOf
<1>8. there[y].type \in EitherTypeOf(cur, des, c.ref, y)
  <2>1. CASE c.ref = t
    <3>1. PICK k \in s[t].constraints : IsKey(k) /\ k.columns = Referred(c)
      BY <1>4, <2>1 DEF HasConstraint
    <3>2. y \in DOMAIN C
      BY <1>2, <1>3, <1>6, <3>1, ColumnsOfFit DEF IsKey
    <3> QED
      BY <1>7, <2>1, <3>2
  <2>2. CASE c.ref # t
    <3>1. PICK k \in st[c.ref].constraints : IsKey(k) /\ k.columns = Referred(c)
      BY <2>2 DEF HasConstraint
    <3>2. y \in DOMAIN st[c.ref].columns
      BY <1>3, <2>2, <3>1, StageFits DEF IsKey
    <3> QED
      BY <1>1, <1>4, <2>2, <3>2, StageTypes
  <2> QED
    BY <2>1, <2>2
<1> QED
  BY <1>3, <1>5, <1>6, <1>7, <1>8 DEF y

\* And it fits while table t, to which or from which it refers, changes.
LEMMA ComparesOnTheWay ==
  ASSUME NEW cur, NEW des, NEW A, NEW R, NEW H, OnTheWay(cur, des, A, R, H),
         NEW st, st = Stage(cur, des, A, R, H), NEW t, t \in DOMAIN cur, t \in DOMAIN des,
         NEW s \in {cur, des}, NEW u \in DOMAIN s, NEW d \in s[u].constraints, d.kind = "fk",
         NEW c, c.columns = d.columns, c.ref = d.ref, c.refColumns = d.refColumns,
         u # t => u \in DOMAIN st /\ c \in st[u].constraints /\ c.kind = "fk",
         c.ref \in DOMAIN st, HasConstraint(st, c.ref, Referred(c))
  PROVE  Compares(st, t, cur[t], des[t], u, c)
<1> DEFINE around(v, x) == TypesAround(st, t, cur[t], des[t], v, x)
<1>1. InReach(cur, des) /\ RefersToConstraints(s) /\ VersionTable \notin DOMAIN s
  BY DEF OnTheWay, InReach, WithinReach
<1>2. DOMAIN c.refColumns = c.columns
  BY <1>1, InReachTables, ColumnsOfFit
<1>3. \A x : around(t, x) = EitherTypeOf(cur, des, t, x)
  BY DEF TypesAround, EitherType, TypesIn, EitherTypeOf, TypesOf
<1>4. ASSUME NEW v \in DOMAIN st, v # t, v # VersionTable, NEW x \in DOMAIN st[v].columns
      PROVE  around(v, x) \subseteq EitherTypeOf(cur, des, v, x)
  <2>1. around(v, x) = {st[v].columns[x].type}
    BY <1>4 DEF TypesAround
  <2> QED
    BY <1>4, <2>1, StageTypes
<1> HIDE DEF around
<1>5. c.ref \in DOMAIN s
  BY <1>1, FoundInSchema
<1>6. ASSUME NEW x \in c.columns
      PROVE  around(u, x) \X around(c.ref, c.refColumns[x]) \subseteq Comparable
  <2> DEFINE y == c.refColumns[x]
  <2>1. EitherTypeOf(cur, des, u, x) \X EitherTypeOf(cur, des, c.ref, y) \subseteq Comparable
    BY <1>1, <1>6, TypesInReach
  <2>2. y \in Referred(c)
    BY <1>2 DEF Referred, Range
  <2> HIDE DEF y
  <2>3. around(u, x) \subseteq EitherTypeOf(cur, des, u, x)
    <3>1. CASE u = t
      BY <1>3, <3>1
    <3>2. CASE u # t
      <4>1. x \in DOMAIN st[u].columns
        BY <3>2, StageFits
      <4> QED
        BY <1>1, <1>4, <3>2, <4>1
    <3> QED
      BY <3>1, <3>2
  <2>4. around(c.ref, y) \subseteq EitherTypeOf(cur, des, c.ref, y)
    <3>1. CASE c.ref = t
      BY <1>3, <3>1
    <3>2. CASE c.ref # t
      <4>1. PICK k \in st[c.ref].constraints : IsKey(k) /\ k.columns = Referred(c)
        BY DEF HasConstraint
      <4>2. y \in DOMAIN st[c.ref].columns
        BY <2>2, <4>1, StageFits DEF IsKey
      <4> QED
        BY <1>1, <1>4, <1>5, <3>2, <4>2
    <3> QED
      BY <3>1, <3>2
  <2> QED
    BY <2>1, <2>3, <2>4 DEF y
<1> QED
  BY <1>2, <1>6 DEF Compares, around

\* Tables are created in the order of their names.
LEMMA AddedAwaits ==
  ASSUME NEW cur, NEW des, NEW A, OnTheWay(cur, des, A, {}, {}),
         NEW t \in Added(cur, des) \ A,
         \A u \in A : u <= t, \A u \in Added(cur, des) \ A : t <= u
  PROVE  Awaits(Stage(cur, des, A, {}, {}), t, des[t])
<1> DEFINE st == Stage(cur, des, A, {}, {})
<1>1. /\ InReach(cur, des)
      /\ RefersToConstraints(cur) /\ RefersToConstraints(des) /\ ReferencesInOrder(cur, des)
      /\ VersionTable \notin DOMAIN cur /\ VersionTable \notin DOMAIN des
      /\ DOMAIN des \subseteq Nat
  BY DEF OnTheWay, InReach, WithinReach, Shaped, FiniteSchema
<1>2. t \in DOMAIN des /\ t \notin DOMAIN cur /\ t \notin A /\ t # VersionTable /\ t \in Nat
  BY <1>1 DEF Added
<1>3. \A u \in A : u \in DOMAIN des /\ u \notin DOMAIN cur /\ u \in Nat
  BY <1>1 DEF OnTheWay, Added
<1>4. /\ \A u : u \in DOMAIN st <=> u = VersionTable \/ u \in DOMAIN cur \/ u \in A
      /\ Whole(st)
  <2> HIDE DEF st
  <2>1. st = Stage(cur, des, A, {}, {})
    BY DEF st
  <2>2. /\ \A u : u \in DOMAIN st <=> u = VersionTable \/ (u \in DOMAIN cur /\ u \notin {}) \/ u \in A
        /\ Whole(st)
    BY <2>1, StageTables, StageIsWhole
  <2> QED
    BY <2>2
<1>5. ASSUME NEW u \in DOMAIN st, NEW c \in st[u].constraints
      PROVE  \/ u \in DOMAIN cur /\ c \in cur[u].constraints
             \/ u \in A /\ \E d \in des[u].constraints : c = StoredConstraint(u, d)
  <2> HIDE DEF st
  <2>1. st = Stage(cur, des, A, {}, {})
    BY DEF st
  <2>2. \/ u \in DOMAIN cur /\ u \notin {} /\ c \in cur[u].constraints
        \/ u \in A \cup {} /\ \E d \in des[u].constraints : c = StoredConstraint(u, d)
    BY <2>1, StageConstraints
  <2> QED
    BY <2>2
<1>6. \A x \in RelationNames(t, des[t]) : ~Elsewhere(st, t, x)
  <2> HIDE DEF st
  <2>1. st = Stage(cur, des, A, {}, {})
    BY DEF st
  <2> QED
    BY <1>2, <2>1, NotElsewhere
<1>7. ASSUME NEW u \in DOMAIN st, NEW c \in st[u].constraints, c.kind = "fk" PROVE c.ref # t
  <2> HIDE DEF st
  <2>1. CASE u \in DOMAIN cur /\ c \in cur[u].constraints
    BY <1>1, <1>2, <1>7, <2>1, FoundInSchema
  <2>2. CASE u \in A /\ \E d \in des[u].constraints : c = StoredConstraint(u, d)
    <3>1. PICK d \in des[u].constraints : c = StoredConstraint(u, d)
      BY <2>2
    <3>2. d.kind = "fk" /\ d.ref = c.ref
      BY <1>7, <3>1, StoredReference
    <3>3. d.ref \in DOMAIN cur \cup 1 .. u
      BY <1>1, <1>3, <2>2, <3>2 DEF ReferencesInOrder
    <3>4. u <= t /\ u # t /\ u \in Nat
      BY <1>2, <1>3, <2>2
    <3> QED
      BY <1>2, <3>2, <3>3, <3>4
  <2> QED
    BY <1>5, <2>1, <2>2
<1>8. ASSUME NEW c \in des[t].constraints, c.kind = "fk", c.ref # t
      PROVE  c.ref \in DOMAIN st /\ HasConstraint(st, c.ref, Referred(c))
  <2>1. c.ref \in DOMAIN des /\ HasConstraint(des, c.ref, Referred(c)) /\ ForeignKeysTo(des, c.ref) # {}
    BY <1>1, <1>2, <1>8, FoundInSchema
  <2>2. c.ref \in DOMAIN cur \cup 1 .. t
    BY <1>1, <1>2, <1>8 DEF ReferencesInOrder
  <2>3. c.ref \in DOMAIN cur \/ c.ref \in A
    <3>1. ASSUME c.ref \notin DOMAIN cur, c.ref \notin A PROVE FALSE
      <4>1. c.ref \in 1 .. t /\ c.ref \in Added(cur, des) \ A
        BY <2>1, <2>2, <3>1 DEF Added
      <4>2. t <= c.ref
        BY <4>1
      <4> QED
        BY <1>2, <1>8, <4>1, <4>2
    <3> QED
      BY <3>1
  <2> HIDE DEF st
  <2>4. st = Stage(cur, des, A, {}, {})
    BY DEF st
  <2>5. HasConstraint(st, c.ref, Referred(c))
    BY <2>1, <2>3, <2>4, StageKeys
  <2> QED
    BY <1>4, <2>3, <2>5
<1>9. ASSUME NEW c \in des[t].constraints, c.kind = "fk", c.ref = t
      PROVE  \E k \in des[t].constraints : IsKey(k) /\ k.columns = Referred(c)
  BY <1>1, <1>2, <1>9, FoundInSchema DEF HasConstraint
<1>a. \A c \in des[t].constraints : FitsTypes(st, t, StoredColumns(des[t].columns), c)
  <2> HIDE DEF st
  <2>1. st = Stage(cur, des, A, {}, {})
    BY DEF st
  <2> QED
    BY <1>2, <1>8, <2>1, FitsOnTheWay
<1> HIDE DEF st
<1>10. Awaits(st, t, des[t])
  BY <1>2, <1>4, <1>6, <1>7, <1>8, <1>9, <1>a DEF Awaits
<1> QED
  BY <1>10 DEF st

\* Tables are dropped in the order of their names, when all that are added are
\* there.
LEMMA RemovedAwaits ==
  ASSUME NEW cur, NEW des, NEW R, NEW A, A = Added(cur, des),
         NEW t \in Removed(cur, des) \ R, NEW more, more = With(R, t), OnTheWay(cur, des, A, more, {}),
         \A u \in R : u <= t, \A u \in Removed(cur, des) \ R : t <= u
  PROVE  Awaits(Stage(cur, des, A, more, {}), t, cur[t])
<1> DEFINE st == Stage(cur, des, A, more, {})
<1>0. \A u : u \in more <=> u \in R \/ u = t
  BY DEF With
<1>1. /\ InReach(cur, des)
      /\ RefersToConstraints(cur) /\ RefersToConstraints(des) /\ ReferencesInOrder(cur, des)
      /\ VersionTable \notin DOMAIN cur /\ VersionTable \notin DOMAIN des
      /\ DOMAIN cur \subseteq Nat
  BY DEF OnTheWay, InReach, WithinReach, Consistent, Shaped, FiniteSchema
<1>2. t \in DOMAIN cur /\ t \notin DOMAIN des /\ t \notin R /\ t # VersionTable /\ t \in Nat /\ t \notin A
  BY <1>1 DEF Removed, Added
<1>3. \A u \in more : u \in DOMAIN cur /\ u \notin DOMAIN des
  BY DEF OnTheWay, Removed
<1>4. /\ \A u : u \in DOMAIN st <=> u = VersionTable \/ (u \in DOMAIN cur /\ u \notin more) \/ u \in A
      /\ Whole(st)
  <2> HIDE DEF st
  <2>1. st = Stage(cur, des, A, more, {})
    BY DEF st
  <2> QED
    BY <2>1, StageTables, StageIsWhole
<1>5. ASSUME NEW u \in DOMAIN st, NEW c \in st[u].constraints
      PROVE  \/ u \in DOMAIN cur /\ u \notin more /\ c \in cur[u].constraints
             \/ u \in A /\ \E d \in des[u].constraints : c = StoredConstraint(u, d)
  <2> HIDE DEF st
  <2>1. st = Stage(cur, des, A, more, {})
    BY DEF st
  <2>2. \/ u \in DOMAIN cur /\ u \notin more /\ c \in cur[u].constraints
        \/ u \in A \cup {} /\ \E d \in des[u].constraints : c = StoredConstraint(u, d)
    BY <2>1, StageConstraints
  <2> QED
    BY <2>2
<1>6. \A x \in RelationNames(t, cur[t]) : ~Elsewhere(st, t, x)
  <2> HIDE DEF st
  <2>1. st = Stage(cur, des, A, more, {})
    BY DEF st
  <2> QED
    BY <1>2, <2>1, NotElsewhere
<1>7. ASSUME NEW u \in DOMAIN st, NEW c \in st[u].constraints, c.kind = "fk" PROVE c.ref # t
  <2> HIDE DEF st
  <2>1. CASE u \in DOMAIN cur /\ u \notin more /\ c \in cur[u].constraints
    <3>1. \/ c.ref \in DOMAIN des \cup {u}
          \/ u \notin DOMAIN des /\ u < c.ref
      BY <1>1, <1>7, <2>1 DEF ReferencesInOrder
    <3>2. u # t /\ u \in Nat
      BY <1>0, <1>1, <2>1
    <3>3. u \notin DOMAIN des => t <= u
      BY <1>0, <2>1 DEF Removed
    <3> QED
      BY <1>2, <3>1, <3>2, <3>3
  <2>2. CASE u \in A /\ \E d \in des[u].constraints : c = StoredConstraint(u, d)
    <3>1. PICK d \in des[u].constraints : c = StoredConstraint(u, d)
      BY <2>2
    <3>2. d.kind = "fk" /\ d.ref = c.ref /\ u \in DOMAIN des
      BY <1>7, <2>2, <3>1, StoredReference DEF Added
    <3>3. d.ref \in DOMAIN des
      BY <1>1, <3>2, FoundInSchema
    <3> QED
      BY <1>2, <3>2, <3>3
  <2> QED
    BY <1>5, <2>1, <2>2
<1>8. ASSUME NEW c \in cur[t].constraints, c.kind = "fk", c.ref # t
      PROVE  c.ref \in DOMAIN st /\ HasConstraint(st, c.ref, Referred(c))
  <2>1. c.ref \in DOMAIN cur /\ HasConstraint(cur, c.ref, Referred(c))
    BY <1>1, <1>2, <1>8, FoundInSchema
  <2>2. c.ref \in DOMAIN des \/ t < c.ref
    BY <1>1, <1>2, <1>8 DEF ReferencesInOrder
  <2>3. c.ref \notin more
    <3>1. CASE c.ref \in DOMAIN des
      BY <1>3, <3>1
    <3>2. CASE t < c.ref
      <4>1. c.ref \in R => c.ref <= t
        OBVIOUS
      <4>2. c.ref \in Nat
        BY <1>1, <2>1
      <4> QED
        BY <1>0, <1>2, <1>8, <3>2, <4>1, <4>2
    <3> QED
      BY <2>2, <3>1, <3>2
  <2> HIDE DEF st
  <2>4. st = Stage(cur, des, A, more, {}) /\ c.ref \notin {}
    BY DEF st
  <2>5. HasConstraint(st, c.ref, Referred(c))
    BY <2>1, <2>3, <2>4, StageKeys
  <2> QED
    BY <1>4, <2>1, <2>3, <2>5
<1>9. ASSUME NEW c \in cur[t].constraints, c.kind = "fk", c.ref = t
      PROVE  \E k \in cur[t].constraints : IsKey(k) /\ k.columns = Referred(c)
  BY <1>1, <1>2, <1>9, FoundInSchema DEF HasConstraint
<1>a. \A c \in cur[t].constraints : FitsTypes(st, t, StoredColumns(cur[t].columns), c)
  <2> HIDE DEF st
  <2>1. st = Stage(cur, des, A, more, {})
    BY DEF st
  <2> QED
    BY <1>2, <1>8, <2>1, FitsOnTheWay
<1> HIDE DEF st
<1>10. Awaits(st, t, cur[t])
  BY <1>0, <1>2, <1>4, <1>6, <1>7, <1>8, <1>9, <1>a DEF Awaits
<1> QED
  BY <1>10 DEF st

\* When tables change, those that are added are there and those that are removed
\* are gone.
LEMMA ChangedIsSurrounded ==
  ASSUME NEW cur, NEW des, NEW A, A = Added(cur, des), NEW R, R = Removed(cur, des),
         NEW H, OnTheWay(cur, des, A, R, H), NEW t \in ChangedTables(cur, des) \ H,
         NEW st, st = Stage(cur, des, A, R, H)
  PROVE  Surrounds(st, t, cur[t], des[t])
<1> DEFINE O == cur[t].constraints
           N == des[t].constraints
<1>1. /\ InReach(cur, des)
      /\ RefersToConstraints(cur) /\ RefersToConstraints(des) /\ ReferencesInOrder(cur, des)
  BY DEF OnTheWay, InReach, WithinReach
<1>2. t \in DOMAIN cur /\ t \in DOMAIN des /\ t \notin R /\ t \notin A
  BY DEF ChangedTables, Removed, Added
<1>3. /\ \A u : u \in DOMAIN st <=> u = VersionTable \/ (u \in DOMAIN cur /\ u \notin R) \/ u \in A
      /\ Whole(st)
      /\ \A u \in A \cup H : u \in DOMAIN des
  BY StageTables, StageIsWhole
<1>4. \A x \in RelationNames(t, cur[t]) \cup RelationNames(t, des[t]) : ~Elsewhere(st, t, x)
  BY <1>2, NotElsewhere
\* Where a foreign key is from, and where it finds its key.
<1>5. ASSUME NEW s, s \in {cur, des}, NEW u \in DOMAIN s, NEW c \in s[u].constraints, c.kind = "fk"
      PROVE  /\ c.ref \in DOMAIN s
             /\ HasConstraint(s, c.ref, Referred(c))
             /\ ForeignKeysTo(cur, c.ref) # {} \/ ForeignKeysTo(des, c.ref) # {}
             /\ HasConstraint(cur, c.ref, Referred(c)) \/ HasConstraint(des, c.ref, Referred(c))
  <2>1. RefersToConstraints(s)
    BY <1>1, <1>5
  <2>2. c.ref \in DOMAIN s /\ HasConstraint(s, c.ref, Referred(c)) /\ ForeignKeysTo(s, c.ref) # {}
    BY <1>5, <2>1, FoundInSchema
  <2> QED
    BY <1>5, <2>2
<1>6. ASSUME NEW s, s \in {cur, des}, NEW u \in DOMAIN s, u \notin R, NEW c \in s[u].constraints, c.kind = "fk"
      PROVE  c.ref \in DOMAIN st /\ HasConstraint(st, c.ref, Referred(c))
  <2>1. /\ c.ref \in DOMAIN s /\ HasConstraint(s, c.ref, Referred(c))
        /\ ForeignKeysTo(cur, c.ref) # {} \/ ForeignKeysTo(des, c.ref) # {}
    BY <1>5, <1>6
  <2>2. c.ref \in DOMAIN des
    <3>1. CASE s = des
      BY <2>1, <3>1
    <3>2. CASE s = cur
      <4>1. u \in DOMAIN des
        BY <1>6, <3>2 DEF Removed
      <4> QED
        BY <1>1, <1>6, <3>2, <4>1 DEF ReferencesInOrder
    <3> QED
      BY <1>6, <3>1, <3>2
  <2>3. c.ref \in A \/ (c.ref \in DOMAIN cur /\ c.ref \notin R)
    BY <2>2 DEF Added, Removed
  <2>4. HasConstraint(st, c.ref, Referred(c))
    <3>1. CASE c.ref \in A
      <4>1. c.ref \notin DOMAIN cur
        BY <3>1 DEF Added
      <4>2. HasConstraint(des, c.ref, Referred(c))
        BY <1>6, <2>1, <4>1
      <4> QED
        BY <3>1, <4>2, StageKeys
    <3>2. CASE c.ref \in DOMAIN cur
      <4>1. HasConstraint(cur, c.ref, Referred(c)) \/ HasConstraint(des, c.ref, Referred(c))
        BY <1>6, <2>1
      <4> QED
        BY <2>1, <2>2, <3>2, <4>1, StageKeys
    <3> QED
      BY <2>3, <3>1, <3>2
  <2> QED
    BY <1>3, <2>3, <2>4
<1>a. ASSUME NEW c \in O \cup N, c.kind = "fk"
      PROVE  /\ Compares(st, t, cur[t], des[t], t, c)
             /\ c.ref \in DOMAIN st /\ HasConstraint(st, c.ref, Referred(c))
  <2>1. PICK s \in {cur, des} : c \in s[t].constraints
    BY <1>a
  <2>2. t \in DOMAIN s
    BY <1>2, <2>1
  <2>3. c.ref \in DOMAIN st /\ HasConstraint(st, c.ref, Referred(c))
    BY <1>2, <1>6, <1>a, <2>1, <2>2
  <2> QED
    BY <1>2, <1>a, <2>1, <2>2, <2>3, ComparesOnTheWay
<1>b. ASSUME NEW u \in DOMAIN st \ {t}, NEW c \in st[u].constraints, c.kind = "fk"
      PROVE  Compares(st, t, cur[t], des[t], u, c)
  <2>a. \E s \in {cur, des} : u \in DOMAIN s /\ u \notin R /\ \E d \in s[u].constraints :
          d.kind = "fk" /\ c.columns = d.columns /\ c.ref = d.ref /\ c.refColumns = d.refColumns
    <3>1. CASE u \in DOMAIN cur /\ u \notin R /\ c \in cur[u].constraints
      BY <1>b, <3>1
    <3>2. CASE u \in A \cup H /\ \E d \in des[u].constraints : c = StoredConstraint(u, d)
      <4>1. PICK d \in des[u].constraints : c = StoredConstraint(u, d)
        BY <3>2
      <4>2. d.kind = "fk" /\ c.columns = d.columns /\ c.ref = d.ref /\ c.refColumns = d.refColumns
        BY <1>b, <4>1, StoredReference
      <4>3. u \in DOMAIN des /\ u \notin R
        BY <1>3, <3>2, StageTables
      <4> QED
        BY <4>2, <4>3
    <3> QED
      BY <3>1, <3>2, StageConstraints
  <2>b. PICK s \in {cur, des} : u \in DOMAIN s /\ u \notin R /\ \E d \in s[u].constraints :
          d.kind = "fk" /\ c.columns = d.columns /\ c.ref = d.ref /\ c.refColumns = d.refColumns
    BY <2>a
  <2>1. PICK d \in s[u].constraints :
          d.kind = "fk" /\ c.columns = d.columns /\ c.ref = d.ref /\ c.refColumns = d.refColumns
    BY <2>b
  <2>2. Referred(c) = Referred(d)
    BY <2>1 DEF Referred
  <2>3. c.ref \in DOMAIN st /\ HasConstraint(st, c.ref, Referred(c))
    <3>1. d.ref \in DOMAIN st /\ HasConstraint(st, d.ref, Referred(d))
      BY <1>6, <2>b, <2>1
    <3> QED
      BY <2>1, <2>2, <3>1
  <2> QED
    BY <1>2, <1>b, <2>b, <2>1, <2>3, ComparesOnTheWay
<1>7. ASSUME NEW f \in AllReferences(st, t, cur[t], des[t])
      PROVE  /\ ForeignKeysTo(cur, t) # {} \/ ForeignKeysTo(des, t) # {}
             /\ HasConstraint(cur, t, Referred(f)) \/ HasConstraint(des, t, Referred(f))
  <2>1. /\ f.kind = "fk" /\ f.ref = t
        /\ f \in O \/ f \in N \/ \E u \in DOMAIN st : f \in st[u].constraints
    BY DEF AllReferences, References
  <2>2. \E s \in {cur, des} : \E u \in DOMAIN s : \E c \in s[u].constraints :
          c.kind = "fk" /\ c.ref = t /\ Referred(c) = Referred(f)
    <3>1. CASE f \in O
      BY <1>2, <2>1, <3>1
    <3>2. CASE f \in N
      BY <1>2, <2>1, <3>2
    <3>3. CASE \E u \in DOMAIN st : f \in st[u].constraints
      <4>1. PICK u \in DOMAIN st : f \in st[u].constraints
        BY <3>3
      <4>2. \/ u \in DOMAIN cur /\ u \notin R /\ f \in cur[u].constraints
            \/ u \in A \cup H /\ \E d \in des[u].constraints : f = StoredConstraint(u, d)
        BY <4>1, StageConstraints
      <4>3. CASE u \in DOMAIN cur /\ f \in cur[u].constraints
        BY <2>1, <4>3
      <4>4. CASE u \in A \cup H /\ \E d \in des[u].constraints : f = StoredConstraint(u, d)
        <5>1. PICK d \in des[u].constraints : f = StoredConstraint(u, d)
          BY <4>4
        <5>2. d.kind = "fk" /\ d.ref = t /\ Referred(d) = Referred(f) /\ u \in DOMAIN des
          BY <1>3, <2>1, <4>4, <5>1, StoredReference
        <5> QED
          BY <5>2
      <4> QED
        BY <4>2, <4>3, <4>4
    <3> QED
      BY <2>1, <3>1, <3>2, <3>3
  <2>3. PICK s \in {cur, des} : \E u \in DOMAIN s : \E c \in s[u].constraints :
          c.kind = "fk" /\ c.ref = t /\ Referred(c) = Referred(f)
    BY <2>2
  <2>4. PICK u \in DOMAIN s : \E c \in s[u].constraints : c.kind = "fk" /\ c.ref = t /\ Referred(c) = Referred(f)
    BY <2>3
  <2>5. PICK c \in s[u].constraints : c.kind = "fk" /\ c.ref = t /\ Referred(c) = Referred(f)
    BY <2>4
  <2>6. /\ ForeignKeysTo(cur, c.ref) # {} \/ ForeignKeysTo(des, c.ref) # {}
        /\ HasConstraint(cur, c.ref, Referred(c)) \/ HasConstraint(des, c.ref, Referred(c))
    BY <1>5, <2>5
  <2> QED
    BY <2>5, <2>6
<1>8. ASSUME NEW f \in AllReferences(st, t, cur[t], des[t])
      PROVE  /\ \E k \in Left(O, N) : IsKey(k) /\ k.columns = Referred(f)
             /\ \A c \in (O \ Left(O, N)) \cup Coming(O, N) : ~IsKey(c)
  <2>1. /\ ForeignKeysTo(cur, t) # {} \/ ForeignKeysTo(des, t) # {}
        /\ HasConstraint(cur, t, Referred(f)) \/ HasConstraint(des, t, Referred(f))
    BY <1>7
  <2>2. \E k \in Left(O, N) : IsKey(k) /\ k.columns = Referred(f)
    BY <1>1, <1>2, <2>1, KeyStays
  <2>3. \A c \in (O \ Left(O, N)) \cup Coming(O, N) : ~IsKey(c)
    BY <1>1, <1>2, <2>1, KeyStays
  <2> QED
    BY <2>2, <2>3
<1> HIDE DEF O, N
<1>9. t \in DOMAIN st
  BY <1>2, <1>3
<1> QED
  BY <1>3, <1>4, <1>8, <1>9, <1>a, <1>b DEF Surrounds, O, N

LEMMA ChangesAreWithinReach ==
  ASSUME NEW cur, NEW des, InReach(cur, des), NEW t \in DOMAIN cur, t \in DOMAIN des
  PROVE  /\ ReplacedAreFree(cur[t], des[t])
         /\ TypesChange(cur[t], des[t])
         /\ NamesApart(t, cur[t], des[t])
<1>1. ReplacedColumnsUnused(cur, des) /\ NamesStay(cur, des) /\ TypesConvert(cur, des)
  BY DEF InReach, WithinReach
<1>2. ReplacedAreFree(cur[t], des[t])
  <2>1. t \in DOMAIN cur \cap DOMAIN des
    OBVIOUS
  <2>2. \A x \in Changed(cur[t].columns, des[t].columns) :
          cur[t].columns[x].mode # des[t].columns[x].mode =>
            /\ \A c \in cur[t].constraints \cup des[t].constraints : ~UsesColumn(c, x)
            /\ \A i \in DOMAIN cur[t].indexes : x \notin cur[t].indexes[i].columns
            /\ \A i \in DOMAIN des[t].indexes : x \notin des[t].indexes[i].columns
    BY <1>1, <2>1 DEF ReplacedColumnsUnused
  <2> QED
    BY <2>2 DEF ReplacedAreFree, ColumnIsFree
<1>3. NamesApart(t, cur[t], des[t])
  <2>1. FitTable(t, cur[t]) /\ FitTable(t, des[t]) /\ Twinless(des[t].constraints)
    BY InReachTables
  <2>2. OwnNames(cur[t].constraints) /\ Twinless(des[t].constraints)
    BY <2>1, FitHasOwnNames
  <2>3. \A d, e \in des[t].constraints : DropName(t, d) = DropName(t, e) => d = e
    BY <2>1 DEF FitTable
  <2>4. t \in DOMAIN cur \cap DOMAIN des
    OBVIOUS
  <2>5. /\ DOMAIN des[t].indexes \cap KeyNames(t, des[t]) = {}
        /\ \A d \in cur[t].constraints \cup des[t].constraints : IsConstraint(d)
    BY <2>1 DEF FitTable
  <2>6. ASSUME NEW c \in Left(cur[t].constraints, des[t].constraints)
        PROVE  /\ \A d \in Coming(cur[t].constraints, des[t].constraints) : c.name # DropName(t, d)
               /\ IsKey(c) => c.name \notin DOMAIN des[t].indexes
    BY <1>1, <2>2, <2>3, <2>4, <2>5, NoNameIsTaken
  <2> QED
    BY <2>6 DEF NamesApart
<1>4. TypesChange(cur[t], des[t])
  <2> SUFFICES ASSUME NEW x \in Changed(cur[t].columns, des[t].columns),
                      cur[t].columns[x].mode = des[t].columns[x].mode
               PROVE  TypeChanges(cur[t].columns[x], des[t].columns[x])
    BY DEF TypesChange
  <2>1. t \in DOMAIN cur \cap DOMAIN des /\ x \in DOMAIN cur[t].columns \cap DOMAIN des[t].columns
    BY DEF Changed
  <2>2. /\ Converts(cur[t].columns[x].type, des[t].columns[x].type)
        /\ Converts(des[t].columns[x].type, cur[t].columns[x].type)
        /\ ColumnFits([cur[t].columns[x] EXCEPT !.type = des[t].columns[x].type])
    BY <1>1, <2>1 DEF TypesConvert, ConvertsBack
  <2> QED
    BY <2>2 DEF TypeChanges
<1> QED
  BY <1>2, <1>3, <1>4

-----------------------------------------------------------------------------
(* From one stage to the next.                                             *)

LEMMA NoNamesAreTables ==
  ASSUME NEW cur, NEW des, NEW t, t \in DOMAIN cur \/ t \in DOMAIN des, InReach(cur, des)
  PROVE  t # VersionTable /\ t \in Nat
BY DEF InReach, Consistent, Shaped, FiniteSchema

LEMMA StageOfAnother ==
  ASSUME NEW cur, NEW des, NEW A, NEW t, InReach(cur, des), t \in DOMAIN des, t \notin DOMAIN cur, t \notin A,
         NEW more, more = With(A, t)
  PROVE  Stage(cur, des, more, {}, {}) = WithTableAt(Stage(cur, des, A, {}, {}), t, TableMade(t, des[t]))
<1> DEFINE s == Stage(cur, des, A, {}, {})
           n == Stage(cur, des, more, {}, {})
           w == WithTableAt(s, t, TableMade(t, des[t]))
<1>1. /\ DOMAIN s = ({VersionTable} \cup (DOMAIN cur \ {})) \cup A
      /\ DOMAIN n = ({VersionTable} \cup (DOMAIN cur \ {})) \cup more
      /\ DOMAIN w = DOMAIN s \cup {t}
      /\ n = [u \in DOMAIN n |-> n[u]] /\ w = [u \in DOMAIN w |-> w[u]]
  BY DEF Stage, WithTableAt, Extended
<1>2. DOMAIN n = DOMAIN w
  BY <1>1 DEF With
<1>3. t # VersionTable
  BY NoNamesAreTables
<1>4. ASSUME NEW u \in DOMAIN n PROVE n[u] = w[u]
  <2>1. CASE u = t
    BY <1>1, <1>2, <1>3, <1>4, <2>1 DEF Stage, WithTableAt, Extended, With
  <2>2. CASE u # t
    BY <1>1, <1>2, <1>4, <2>2 DEF Stage, WithTableAt, Extended, With
  <2> QED
    BY <2>1, <2>2
<1> HIDE DEF s, n, w
<1>5. n = w
  BY <1>1, <1>2, <1>4
<1> QED
  BY <1>5 DEF n, w, s

\* A table of the catalog is the one that its definition makes.
LEMMA RecordedIsMade ==
  ASSUME NEW t, NEW table, FitTable(t, table), RecordedTable(t, table)
  PROVE  TableMade(t, table) = table
<1>1. {StoredConstraint(t, c) : c \in table.constraints} = table.constraints
  BY DEF RecordedTable
<1>2. /\ table = [columns |-> table.columns, constraints |-> table.constraints, indexes |-> table.indexes]
      /\ table.columns = StoredColumns(table.columns) /\ table.indexes = StoredIndexes(table.indexes)
  BY DEF FitTable, IsTable, RecordedTable
<1> QED
  BY <1>1, <1>2 DEF TableMade, StoredTable, Table

LEMMA StageWithoutOne ==
  ASSUME NEW cur, NEW des, NEW A, NEW R, NEW t, InReach(cur, des), t \in DOMAIN cur, t \notin A, t \notin R,
         NEW more, more = With(R, t)
  PROVE  Stage(cur, des, A, R, {}) = WithTableAt(Stage(cur, des, A, more, {}), t, TableMade(t, cur[t]))
<1> DEFINE s == Stage(cur, des, A, more, {})
           n == Stage(cur, des, A, R, {})
           w == WithTableAt(s, t, TableMade(t, cur[t]))
<1>1. /\ DOMAIN s = ({VersionTable} \cup (DOMAIN cur \ more)) \cup A
      /\ DOMAIN n = ({VersionTable} \cup (DOMAIN cur \ R)) \cup A
      /\ DOMAIN w = DOMAIN s \cup {t}
      /\ n = [u \in DOMAIN n |-> n[u]] /\ w = [u \in DOMAIN w |-> w[u]]
  BY DEF Stage, WithTableAt, Extended
<1>2. DOMAIN n = DOMAIN w
  BY <1>1 DEF With
<1>3. t # VersionTable /\ TableMade(t, cur[t]) = cur[t]
  BY NoNamesAreTables, InReachTables, RecordedIsMade
<1>4. ASSUME NEW u \in DOMAIN n PROVE n[u] = w[u]
  <2>1. CASE u = t
    BY <1>1, <1>2, <1>3, <1>4, <2>1 DEF Stage, WithTableAt, Extended, With
  <2>2. CASE u # t
    BY <1>1, <1>2, <1>4, <2>2 DEF Stage, WithTableAt, Extended, With
  <2> QED
    BY <2>1, <2>2
<1> HIDE DEF s, n, w
<1>5. n = w
  BY <1>1, <1>2, <1>4
<1> QED
  BY <1>5 DEF n, w, s

\* The next table changes.
LEMMA StageBefore ==
  ASSUME NEW cur, NEW des, NEW A, NEW R, NEW H, OnTheWay(cur, des, A, R, H),
         NEW t \in DOMAIN cur, t \notin R, t \notin H,
         NEW st, st = Stage(cur, des, A, R, H)
  PROVE  st = AtTable(st, t, cur[t])
<1>1. IsMap(st) /\ st[t] = cur[t]
  BY StageTables
<1>2. IsTable(cur[t])
  BY InReachTables DEF OnTheWay, FitTable
<1>3. [st EXCEPT ![t] = cur[t]] = st
  BY <1>1 DEF IsMap
<1> QED
  BY <1>2, <1>3 DEF AtTable, At, IsTable

LEMMA StageOfNext ==
  ASSUME NEW cur, NEW des, NEW A, NEW R, NEW H, OnTheWay(cur, des, A, R, H),
         NEW t \in DOMAIN cur, t \in DOMAIN des, t \notin R, t \notin A, t \notin H,
         NEW more, more = With(H, t), NEW st, st = Stage(cur, des, A, R, H)
  PROVE  Stage(cur, des, A, R, more) = AtTable(st, t, TableAfter(t, cur[t], des[t]))
<1> DEFINE n == Stage(cur, des, A, R, more)
           a == TableAfter(t, cur[t], des[t])
           w == AtTable(st, t, a)
<1>0. w = [st EXCEPT ![t] = a]
  BY DEF AtTable, At, TableAfter, Table
<1>1. /\ DOMAIN st = ({VersionTable} \cup (DOMAIN cur \ R)) \cup A
      /\ DOMAIN n = ({VersionTable} \cup (DOMAIN cur \ R)) \cup A
      /\ DOMAIN w = DOMAIN st
      /\ n = [u \in DOMAIN n |-> n[u]] /\ w = [u \in DOMAIN w |-> w[u]]
  BY <1>0 DEF Stage
<1>2. t # VersionTable
  BY NoNamesAreTables DEF OnTheWay
<1> HIDE DEF w
<1>3. ASSUME NEW u \in DOMAIN n PROVE n[u] = w[u]
  <2>1. CASE u = t
    BY <1>0, <1>1, <1>2, <1>3, <2>1 DEF Stage, With
  <2>2. CASE u # t
    BY <1>0, <1>1, <1>3, <2>2 DEF Stage, With
  <2> QED
    BY <2>1, <2>2
<1> HIDE DEF n, a
<1>4. n = w
  BY <1>1, <1>3
<1> QED
  BY <1>4 DEF n, w, a

-----------------------------------------------------------------------------
(* The migration as a whole.                                               *)

LEMMA TablesFinite ==
  ASSUME NEW cur, NEW des, InReach(cur, des)
  PROVE  /\ IsFiniteSet(Added(cur, des)) /\ Added(cur, des) \subseteq Nat
         /\ IsFiniteSet(Removed(cur, des)) /\ Removed(cur, des) \subseteq Nat
         /\ IsFiniteSet(ChangedTables(cur, des)) /\ ChangedTables(cur, des) \subseteq Nat
<1>1. /\ IsFiniteSet(DOMAIN cur) /\ DOMAIN cur \subseteq Nat
      /\ IsFiniteSet(DOMAIN des) /\ DOMAIN des \subseteq Nat
  BY DEF InReach, Consistent, Shaped, FiniteSchema
<1>2. /\ Added(cur, des) \subseteq DOMAIN des /\ Removed(cur, des) \subseteq DOMAIN cur
      /\ ChangedTables(cur, des) \subseteq DOMAIN cur
  BY DEF Added, Removed, ChangedTables
<1> QED
  BY <1>1, <1>2, FS_Subset

LEMMA AddedTablesPath ==
  ASSUME NEW cur, NEW des, InReach(cur, des), NEW S, S = Added(cur, des)
  PROVE  Path(ByName(S, LAMBDA t : AddedTableSteps(t, des[t])),
              Stage(cur, des, {}, {}, {}), Stage(cur, des, S, {}, {}),
              Stage(cur, des, S, {}, {}), Stage(cur, des, {}, {}, {}))
<1> DEFINE rank == [t \in S |-> t]
           F    == [t \in S |-> AddedTableSteps(t, des[t])]
           ss   == [i \in 1 .. Cardinality(S) |-> F[Ranked(S, rank)[i]]]
           up   == [done \in SUBSET S |-> Stage(cur, des, done, {}, {})]
<1>1. IsFiniteSet(S) /\ S \subseteq Nat
  BY TablesFinite
<1>2. rank \in [S -> Int]
  BY <1>1
<1>3. ByName(S, LAMBDA t : AddedTableSteps(t, des[t])) = FlattenSeq(ss)
  <2>1. \A i \in 1 .. Cardinality(S) : Ranked(S, rank)[i] \in S
    <3> HIDE DEF rank
    <3>1. Ranked(S, rank) \in [1 .. Cardinality(S) -> S]
      BY <1>1, <1>2, RankedIn
    <3> QED
      BY <3>1
  <2>2. InOrder(S, rank, LAMBDA t : AddedTableSteps(t, des[t])) = ss
    BY <2>1 DEF InOrder
  <2> QED
    BY <2>2 DEF ByName
<1>4. ASSUME NEW done \in SUBSET S, NEW x \in S \ done,
             \A y \in done : rank[y] <= rank[x], \A y \in S \ done : rank[x] <= rank[y]
      PROVE  Path(F[x], up[done], up[done \cup {x}], up[done \cup {x}], up[done])
  <2> DEFINE more == With(done, x)
             st   == Stage(cur, des, done, {}, {})
             next == Stage(cur, des, more, {}, {})
             made == TableMade(x, des[x])
  <2>1. x \in DOMAIN des /\ x \notin DOMAIN cur
    BY DEF Added
  <2>2. FitTable(x, des[x])
    BY <2>1, InReachTables
  <2>3. OnTheWay(cur, des, done, {}, {})
    BY DEF OnTheWay
  <2>4. Awaits(st, x, des[x])
    <3>1. \A u \in done : u <= x
      BY <1>4
    <3>2. \A u \in Added(cur, des) \ done : x <= u
      BY <1>4
    <3> QED
      BY <2>3, <3>1, <3>2, AddedAwaits
  <2>5. next = WithTableAt(st, x, made)
    BY <2>1, StageOfAnother
  <2>6. F[x] = AddedTableSteps(x, des[x]) /\ up[done] = st /\ up[done \cup {x}] = next
    BY DEF With
  <2> HIDE DEF F, up, st, next, made
  <2>7. Path(AddedTableSteps(x, des[x]), st, next, next, st)
    BY <2>2, <2>4, <2>5, TableComesAndGoes DEF made
  <2> QED
    BY <2>6, <2>7
<1>5. up[{}] = Stage(cur, des, {}, {}, {}) /\ up[S] = Stage(cur, des, S, {}, {})
  OBVIOUS
<1>6. ss = [i \in 1 .. Cardinality(S) |-> F[Ranked(S, rank)[i]]]
  OBVIOUS
<1>7. \A done \in SUBSET S : \A x \in S \ done :
            /\ \A y \in done : rank[y] <= rank[x]
            /\ \A y \in S \ done : rank[x] <= rank[y]
            => Path(F[x], up[done], up[done \cup {x}], up[done \cup {x}], up[done])
  BY <1>4
<1> HIDE DEF rank, F, ss, up
<1>8. Path(FlattenSeq(ss), up[{}], up[S], up[S], up[{}])
  BY <1>1, <1>2, <1>6, <1>7, RankedPaths
<1> QED
  BY <1>3, <1>5, <1>8

LEMMA RemovedTablesPath ==
  ASSUME NEW cur, NEW des, InReach(cur, des), NEW A, A = Added(cur, des), NEW S, S = Removed(cur, des)
  PROVE  Path(ByName(S, LAMBDA t : RemovedTableSteps(t, cur[t])),
              Stage(cur, des, A, {}, {}), Stage(cur, des, A, S, {}),
              Stage(cur, des, A, S, {}), Stage(cur, des, A, {}, {}))
<1> DEFINE rank == [t \in S |-> t]
           F    == [t \in S |-> RemovedTableSteps(t, cur[t])]
           ss   == [i \in 1 .. Cardinality(S) |-> F[Ranked(S, rank)[i]]]
           up   == [done \in SUBSET S |-> Stage(cur, des, A, done, {})]
<1>1. IsFiniteSet(S) /\ S \subseteq Nat
  BY TablesFinite
<1>2. rank \in [S -> Int]
  BY <1>1
<1>3. ByName(S, LAMBDA t : RemovedTableSteps(t, cur[t])) = FlattenSeq(ss)
  <2>1. \A i \in 1 .. Cardinality(S) : Ranked(S, rank)[i] \in S
    <3> HIDE DEF rank
    <3>1. Ranked(S, rank) \in [1 .. Cardinality(S) -> S]
      BY <1>1, <1>2, RankedIn
    <3> QED
      BY <3>1
  <2>2. InOrder(S, rank, LAMBDA t : RemovedTableSteps(t, cur[t])) = ss
    BY <2>1 DEF InOrder
  <2> QED
    BY <2>2 DEF ByName
<1>4. ASSUME NEW done \in SUBSET S, NEW x \in S \ done,
             \A y \in done : rank[y] <= rank[x], \A y \in S \ done : rank[x] <= rank[y]
      PROVE  Path(F[x], up[done], up[done \cup {x}], up[done \cup {x}], up[done])
  <2> DEFINE more == With(done, x)
             st   == Stage(cur, des, A, done, {})
             next == Stage(cur, des, A, more, {})
             made == TableMade(x, cur[x])
  <2>1. x \in DOMAIN cur /\ x \notin DOMAIN des /\ x \notin A
    BY DEF Removed, Added
  <2>2. FitTable(x, cur[x])
    BY <2>1, InReachTables
  <2>3. OnTheWay(cur, des, A, more, {})
    BY DEF OnTheWay, With
  <2>4. Awaits(next, x, cur[x])
    <3>1. \A u \in done : u <= x
      BY <1>4
    <3>2. \A u \in Removed(cur, des) \ done : x <= u
      BY <1>4
    <3> HIDE DEF next
    <3>3. next = Stage(cur, des, A, more, {}) /\ more = With(done, x)
      BY DEF next
    <3> HIDE DEF more
    <3>4. Awaits(Stage(cur, des, A, more, {}), x, cur[x])
      BY <2>3, <3>1, <3>2, <3>3, RemovedAwaits
    <3> QED
      BY <3>3, <3>4
  <2>5. st = WithTableAt(next, x, made)
    BY <2>1, StageWithoutOne
  <2>6. F[x] = RemovedTableSteps(x, cur[x]) /\ up[done] = st /\ up[done \cup {x}] = next
    BY DEF With
  <2> HIDE DEF F, up, st, next, made
  <2>7. Path(RemovedTableSteps(x, cur[x]), st, next, next, st)
    BY <2>2, <2>4, <2>5, TableComesAndGoes DEF made
  <2> QED
    BY <2>6, <2>7
<1>5. up[{}] = Stage(cur, des, A, {}, {}) /\ up[S] = Stage(cur, des, A, S, {})
  OBVIOUS
<1>6. ss = [i \in 1 .. Cardinality(S) |-> F[Ranked(S, rank)[i]]]
  OBVIOUS
<1>7. \A done \in SUBSET S : \A x \in S \ done :
            /\ \A y \in done : rank[y] <= rank[x]
            /\ \A y \in S \ done : rank[x] <= rank[y]
            => Path(F[x], up[done], up[done \cup {x}], up[done \cup {x}], up[done])
  BY <1>4
<1> HIDE DEF rank, F, ss, up
<1>8. Path(FlattenSeq(ss), up[{}], up[S], up[S], up[{}])
  BY <1>1, <1>2, <1>6, <1>7, RankedPaths
<1> QED
  BY <1>3, <1>5, <1>8

LEMMA ChangedTablesPath ==
  ASSUME NEW cur, NEW des, InReach(cur, des), NEW A, A = Added(cur, des), NEW R, R = Removed(cur, des),
         NEW S, S = ChangedTables(cur, des)
  PROVE  Path(ByName(S, LAMBDA t : TableDiffSteps(t, cur[t], des[t])),
              Stage(cur, des, A, R, {}), Stage(cur, des, A, R, S),
              Stage(cur, des, A, R, S), Stage(cur, des, A, R, {}))
<1> DEFINE rank == [t \in S |-> t]
           F    == [t \in S |-> TableDiffSteps(t, cur[t], des[t])]
           ss   == [i \in 1 .. Cardinality(S) |-> F[Ranked(S, rank)[i]]]
           up   == [done \in SUBSET S |-> Stage(cur, des, A, R, done)]
<1>1. IsFiniteSet(S) /\ S \subseteq Nat
  BY TablesFinite
<1>2. rank \in [S -> Int]
  BY <1>1
<1>3. ByName(S, LAMBDA t : TableDiffSteps(t, cur[t], des[t])) = FlattenSeq(ss)
  <2>1. \A i \in 1 .. Cardinality(S) : Ranked(S, rank)[i] \in S
    <3> HIDE DEF rank
    <3>1. Ranked(S, rank) \in [1 .. Cardinality(S) -> S]
      BY <1>1, <1>2, RankedIn
    <3> QED
      BY <3>1
  <2>2. InOrder(S, rank, LAMBDA t : TableDiffSteps(t, cur[t], des[t])) = ss
    BY <2>1 DEF InOrder
  <2> QED
    BY <2>2 DEF ByName
<1>4. ASSUME NEW done \in SUBSET S, NEW x \in S \ done
      PROVE  Path(F[x], up[done], up[done \cup {x}], up[done \cup {x}], up[done])
  <2> DEFINE more  == With(done, x)
             st    == Stage(cur, des, A, R, done)
             next  == Stage(cur, des, A, R, more)
             after == TableAfter(x, cur[x], des[x])
  <2>1. x \in DOMAIN cur /\ x \in DOMAIN des /\ x \notin A /\ x \notin R
    BY DEF ChangedTables, Added, Removed
  <2>2. FitTable(x, cur[x]) /\ FitTable(x, des[x]) /\ Twinless(des[x].constraints) /\ RecordedTable(x, cur[x])
    BY <2>1, InReachTables
  <2>3. OnTheWay(cur, des, A, R, done)
    BY DEF OnTheWay
  <2>4. Surrounds(st, x, cur[x], des[x])
    BY <2>3, ChangedIsSurrounded
  <2>5. ReplacedAreFree(cur[x], des[x]) /\ TypesChange(cur[x], des[x]) /\ NamesApart(x, cur[x], des[x])
    BY <2>1, ChangesAreWithinReach
  <2>6. st = AtTable(st, x, cur[x])
    BY <2>1, <2>3, StageBefore
  <2>7. next = AtTable(st, x, after)
    BY <2>1, <2>3, StageOfNext
  <2>8. F[x] = TableDiffSteps(x, cur[x], des[x]) /\ up[done] = st /\ up[done \cup {x}] = next
    BY DEF With
  <2> HIDE DEF F, up, st, next, after
  <2>9. Path(TableDiffSteps(x, cur[x], des[x]), AtTable(st, x, cur[x]), AtTable(st, x, after),
             AtTable(st, x, after), AtTable(st, x, cur[x]))
    BY <2>2, <2>4, <2>5, TableChangesAndBack DEF after
  <2> QED
    BY <2>6, <2>7, <2>8, <2>9
<1>5. up[{}] = Stage(cur, des, A, R, {}) /\ up[S] = Stage(cur, des, A, R, S)
  OBVIOUS
<1>6. ss = [i \in 1 .. Cardinality(S) |-> F[Ranked(S, rank)[i]]]
  OBVIOUS
<1>7. \A done \in SUBSET S : \A x \in S \ done :
            /\ \A y \in done : rank[y] <= rank[x]
            /\ \A y \in S \ done : rank[x] <= rank[y]
            => Path(F[x], up[done], up[done \cup {x}], up[done \cup {x}], up[done])
  BY <1>4
<1> HIDE DEF rank, F, ss, up
<1>8. Path(FlattenSeq(ss), up[{}], up[S], up[S], up[{}])
  BY <1>1, <1>2, <1>6, <1>7, RankedPaths
<1> QED
  BY <1>3, <1>5, <1>8

-----------------------------------------------------------------------------
(* The constraints that a table has in the end, and those that it should.  *)

\* Two constraints that differ in their names at most.
Alike(c, d) ==
  /\ c.kind = d.kind /\ c.columns = d.columns /\ c.check = d.check
  /\ c.ref = d.ref /\ c.refColumns = d.refColumns

LEMMA AlikeIs ==
  ASSUME NEW c, NEW d, IsConstraint(c), IsConstraint(d)
  PROVE  Alike(c, d) <=> SemanticKey(c) = SemanticKey(d)
<1>1. ASSUME NEW e, IsConstraint(e)
      PROVE  SemanticKey(e) = [kind |-> e.kind, columns |-> e.columns, check |-> e.check,
                               ref |-> e.ref, refColumns |-> e.refColumns, name |-> Unnamed]
  <2>1. PICK f : f = e /\ f = [kind |-> e.kind, columns |-> e.columns, check |-> e.check,
                               ref |-> e.ref, refColumns |-> e.refColumns, name |-> e.name]
    BY <1>1 DEF IsConstraint
  <2>2. [f EXCEPT !.name = Unnamed] = [kind |-> e.kind, columns |-> e.columns, check |-> e.check,
                               ref |-> e.ref, refColumns |-> e.refColumns, name |-> Unnamed]
    BY <2>1
  <2> QED
    BY <2>1, <2>2 DEF SemanticKey
<1>2. SemanticKey(c) = SemanticKey(d) => Alike(c, d)
  BY SameMeaning DEF Alike
<1>3. Alike(c, d) => SemanticKey(c) = SemanticKey(d)
  BY <1>1 DEF Alike
<1> QED
  BY <1>2, <1>3

\* What the catalog records is a constraint, and recording it again changes
\* nothing.
LEMMA StoredTwice ==
  ASSUME NEW t, NEW d, IsConstraint(d), NEW e, e = StoredConstraint(t, d)
  PROVE  /\ IsConstraint(e)
         /\ e = StoredConstraint(t, e)
         /\ e.kind = d.kind /\ e.check = d.check /\ e.ref = d.ref /\ e.refColumns = d.refColumns
         /\ e.columns = (IF d.kind = "ck" THEN d.check ELSE d.columns)
         /\ e.name = DropName(t, d) /\ e.name # Unnamed
         /\ DropName(t, e) = e.name
<1>1. e.name # Unnamed
  BY StoredHasName
<1>2. DropName(t, e) = e.name
  BY <1>1 DEF DropName
<1>3. /\ e = [kind |-> e.kind, columns |-> e.columns, check |-> e.check,
              ref |-> e.ref, refColumns |-> e.refColumns, name |-> e.name]
      /\ e.kind = d.kind /\ e.check = d.check /\ e.ref = d.ref /\ e.refColumns = d.refColumns
      /\ e.columns = (IF d.kind = "ck" THEN d.check ELSE d.columns)
      /\ e.name = DropName(t, d)
  BY DEF StoredConstraint
<1>4. IsConstraint(e)
  BY ConstraintIsStored
<1>5. StoredConstraint(t, e) = [kind |-> e.kind, columns |-> e.columns, check |-> e.check,
              ref |-> e.ref, refColumns |-> e.refColumns, name |-> e.name]
  BY <1>2, <1>3 DEF StoredConstraint
<1> QED
  BY <1>1, <1>2, <1>3, <1>4, <1>5

\* The constraints K of the catalog are those of N, each under the name that N
\* gives it or a name of its own.
Mirrors(t, K, N) ==
  /\ \A c \in K : c = StoredConstraint(t, c) /\ IsConstraint(c)
  /\ \A c \in K : \E d \in N : Alike(c, StoredConstraint(t, d))
  /\ \A d \in N : \E c \in K : Alike(c, StoredConstraint(t, d)) /\ (d.name # Unnamed => c.name = d.name)
  /\ \A c, e \in K : Alike(c, e) \/ c.name = e.name \/ (c.kind = "pk" /\ e.kind = "pk") => c = e

\* CHECK constraints list no columns when they are declared.
ChecksListNone(N) == \A d \in N : d.kind = "ck" => d.columns = {}

LEMMA StoredApart ==
  ASSUME NEW t, NEW table, FitTable(t, table), Twinless(table.constraints), ChecksListNone(table.constraints),
         NEW c \in table.constraints, NEW d \in table.constraints,
         Alike(StoredConstraint(t, c), StoredConstraint(t, d))
  PROVE  c = d
<1>1. IsConstraint(c) /\ IsConstraint(d)
  BY DEF FitTable
<1>2. Alike(c, d)
  BY DEF Alike, StoredConstraint, ChecksListNone
<1> QED
  BY <1>1, <1>2, AlikeIs DEF Twinless

LEMMA MadeMirrors ==
  ASSUME NEW t, NEW def, FitTable(t, def), Twinless(def.constraints), ChecksListNone(def.constraints),
         NEW K, K = {StoredConstraint(t, d) : d \in def.constraints}
  PROVE  Mirrors(t, K, def.constraints)
<1> DEFINE N == def.constraints
<1>1. \A d \in N : IsConstraint(d)
  BY DEF FitTable
<1>2. \A c \in K : \E d \in N : c = StoredConstraint(t, d)
  OBVIOUS
<1>3. \A d \in N : StoredConstraint(t, d) \in K /\ (d.name # Unnamed => StoredConstraint(t, d).name = d.name)
  BY DEF StoredConstraint, DropName
<1>4. ASSUME NEW c \in K, NEW e \in K,
             Alike(c, e) \/ c.name = e.name \/ (c.kind = "pk" /\ e.kind = "pk")
      PROVE  c = e
  <2>1. PICK d \in N : c = StoredConstraint(t, d)
    BY <1>2
  <2>2. PICK f \in N : e = StoredConstraint(t, f)
    BY <1>2
  <2>3. CASE Alike(c, e)
    <3>1. Alike(StoredConstraint(t, d), StoredConstraint(t, f)) /\ d \in def.constraints /\ f \in def.constraints
      BY <2>1, <2>2, <2>3
    <3>2. d = f
      BY <3>1, StoredApart
    <3> QED
      BY <2>1, <2>2, <3>2
  <2>4. c.name = DropName(t, d) /\ c.kind = d.kind /\ e.name = DropName(t, f) /\ e.kind = f.kind
    BY <2>1, <2>2, StoredReference
  <2>5. (c.name = e.name \/ (c.kind = "pk" /\ e.kind = "pk")) => d = f
    BY <2>4 DEF FitTable
  <2>6. CASE c.name = e.name \/ (c.kind = "pk" /\ e.kind = "pk")
    BY <2>1, <2>2, <2>5, <2>6
  <2> QED
    BY <1>4, <2>3, <2>6
<1>5. \A c \in K : c = StoredConstraint(t, c) /\ IsConstraint(c)
  BY <1>1, <1>2, StoredTwice
<1>6. \A c : Alike(c, c)
  BY DEF Alike
<1> HIDE DEF N
<1>7. /\ \A c \in K : \E d \in N : Alike(c, StoredConstraint(t, d))
      /\ \A d \in N : \E c \in K : Alike(c, StoredConstraint(t, d)) /\ (d.name # Unnamed => c.name = d.name)
  BY <1>2, <1>3, <1>6
<1> QED
  BY <1>4, <1>5, <1>7 DEF Mirrors, N

LEMMA ChangedMirrors ==
  ASSUME NEW t, NEW old, NEW new, FitTable(t, old), RecordedTable(t, old),
         FitTable(t, new), Twinless(new.constraints), ChecksListNone(new.constraints), NamesApart(t, old, new),
         NEW K, K = WithComing(t, old.constraints, new.constraints)
  PROVE  Mirrors(t, K, new.constraints)
<1> DEFINE O    == old.constraints
           N    == new.constraints
           low  == Left(O, N)
           come == Coming(O, N)
<1>1. /\ OwnNames(O) /\ Twinless(N)
      /\ \A c \in O : IsConstraint(c) /\ c = StoredConstraint(t, c)
      /\ \A d \in N : IsConstraint(d)
  BY FitHasOwnNames DEF FitTable, RecordedTable
<1>2. /\ \A c \in low, d \in come : c.name # DropName(t, d)
      /\ \A c : c \in K <=> c \in low \/ \E d \in come : c = StoredConstraint(t, d)
      /\ low \subseteq O
  BY DEF NamesApart, WithComing, Left
<1>3. /\ \A c, e \in O : DropName(t, c) = DropName(t, e) => c = e
      /\ \A d, e \in N : DropName(t, d) = DropName(t, e) \/ (d.kind = "pk" /\ e.kind = "pk") => d = e
  BY DEF FitTable
<1>4. \A d, e \in N : Alike(StoredConstraint(t, d), StoredConstraint(t, e)) => d = e
  BY StoredApart
<1>5. /\ \A c \in O : \A d \in N : ~ConstraintChanged(c, d) =>
           /\ Alike(c, StoredConstraint(t, d))
           /\ d.name # Unnamed => c.name = d.name
  <2> SUFFICES ASSUME NEW c \in O, NEW d \in N, ~ConstraintChanged(c, d)
               PROVE  Alike(c, StoredConstraint(t, d)) /\ (d.name # Unnamed => c.name = d.name)
    OBVIOUS
  <2>1. SemanticKey(c) = SemanticKey(d) /\ (d.name # Unnamed => c.name = d.name)
    BY DEF ConstraintChanged
  <2>2. Alike(c, d)
    BY <1>1, <2>1, AlikeIs
  <2>3. Alike(StoredConstraint(t, c), StoredConstraint(t, d))
    BY <2>2 DEF Alike, StoredConstraint
  <2> QED
    BY <1>1, <2>1, <2>3
<1> HIDE DEF O, N
<1>6. /\ come \subseteq N
      /\ \A d \in N \ come : \E c \in low : ~ConstraintChanged(c, d)
      /\ \A c \in low : \E d \in N \ come : ~ConstraintChanged(c, d)
      /\ \A c, e \in low : SemanticKey(c) = SemanticKey(e) => c = e
  BY <1>1, DiffIsComplete
<1> HIDE DEF low, come
<1>7. \A c : Alike(c, c)
  BY DEF Alike
<1>8. /\ \A d \in come : StoredConstraint(t, d) \in K
      /\ \A d \in come : d.name # Unnamed => StoredConstraint(t, d).name = d.name
  BY <1>2 DEF StoredConstraint, DropName
<1>9. \A c \in K : c = StoredConstraint(t, c) /\ IsConstraint(c)
  BY <1>1, <1>2, <1>6, StoredTwice
<1>10. \A c \in low : \E d \in N \ come : Alike(c, StoredConstraint(t, d))
  BY <1>2, <1>5, <1>6
<1>11. \A c \in K : \E d \in N : Alike(c, StoredConstraint(t, d))
  BY <1>2, <1>6, <1>7, <1>10
<1>12. ASSUME NEW d \in N
       PROVE  \E c \in K : Alike(c, StoredConstraint(t, d)) /\ (d.name # Unnamed => c.name = d.name)
  <2>1. CASE d \in come
    BY <1>7, <1>8, <2>1
  <2>2. CASE d \notin come
    BY <1>2, <1>5, <1>6, <2>2
  <2> QED
    BY <2>1, <2>2
<1>13. ASSUME NEW c \in K, NEW e \in K, Alike(c, e) PROVE c = e
  <2>1. CASE c \in low /\ e \in low
    BY <1>1, <1>2, <1>6, <1>13, <2>1, AlikeIs
  <2>2. ASSUME NEW x \in low, NEW d \in come PROVE ~Alike(x, StoredConstraint(t, d))
    <3>1. PICK f \in N \ come : Alike(x, StoredConstraint(t, f))
      BY <1>10
    <3>2. ASSUME Alike(x, StoredConstraint(t, d)) PROVE Alike(StoredConstraint(t, f), StoredConstraint(t, d))
      BY <3>1, <3>2 DEF Alike
    <3> QED
      BY <1>4, <1>6, <3>1, <3>2
  <2>3. CASE c \notin low /\ e \notin low
    BY <1>2, <1>4, <1>6, <1>13, <2>3
  <2>4. \A x, y : Alike(x, y) => Alike(y, x)
    BY DEF Alike
  <2> QED
    BY <1>2, <1>13, <2>1, <2>2, <2>3, <2>4
<1>14. ASSUME NEW c \in K, NEW e \in K, c.name = e.name PROVE c = e
  <2>1. \A x \in O : x.name = DropName(t, x)
    BY <1>1, StoredReference
  <2>2. \A d : StoredConstraint(t, d).name = DropName(t, d)
    BY StoredReference
  <2>3. CASE c \in low /\ e \in low
    BY <1>2, <1>3, <1>14, <2>1, <2>3
  <2>4. CASE c \notin low /\ e \notin low
    BY <1>2, <1>3, <1>6, <1>14, <2>2, <2>4
  <2> QED
    BY <1>2, <1>14, <2>2, <2>3, <2>4
<1>15. ASSUME NEW c \in K, NEW e \in K, c.kind = "pk", e.kind = "pk" PROVE c = e
  <2>1. PICK d \in N : Alike(c, StoredConstraint(t, d))
    BY <1>11
  <2>2. PICK f \in N : Alike(e, StoredConstraint(t, f))
    BY <1>11
  <2>3. d.kind = "pk" /\ f.kind = "pk"
    BY <1>15, <2>1, <2>2, StoredReference DEF Alike
  <2>4. d = f
    BY <1>3, <2>3
  <2>5. Alike(c, e)
    BY <2>1, <2>2, <2>4 DEF Alike
  <2> QED
    BY <1>13, <2>5
<1> QED
  BY <1>9, <1>11, <1>12, <1>13, <1>14, <1>15 DEF Mirrors, N

-----------------------------------------------------------------------------
(* The catalog that a migration leads to.                                  *)

GoalTable(cur, des, t) ==
  IF t \in DOMAIN cur THEN TableAfter(t, cur[t], des[t]) ELSE TableMade(t, des[t])

Goal(cur, des) == [t \in DOMAIN des |-> GoalTable(cur, des, t)]

AllStored(t, S) == {StoredConstraint(t, d) : d \in S}

LEMMA AllStoredFinite ==
  ASSUME NEW t, NEW S, IsFiniteSet(S)
  PROVE  IsFiniteSet(AllStored(t, S))
<1> DEFINE f == [d \in S |-> StoredConstraint(t, d)]
<1>1. f \in Surjection(S, AllStored(t, S))
  BY DEF AllStored, Surjection
<1> HIDE DEF f
<1> QED
  BY <1>1, FS_Surjection

LEMMA GoalTableIs ==
  ASSUME NEW cur, NEW des, InReach(cur, des), NEW t \in DOMAIN des, NEW g, g = GoalTable(cur, des, t)
  PROVE  /\ IsTable(g)
         /\ g.columns = StoredColumns(des[t].columns)
         /\ g.indexes = StoredIndexes(des[t].indexes)
         /\ Mirrors(t, g.constraints, des[t].constraints)
         /\ IsFiniteSet(g.constraints)
<1> DEFINE N == des[t].constraints
<1>1. FitTable(t, des[t]) /\ Twinless(N) /\ IsFiniteSet(N)
  BY InReachTables DEF FitTable, FiniteTable
<1>2. ChecksListNone(N)
  BY DEF InReach, WellFormed, ChecksListNone
<1>3. CASE t \in DOMAIN cur
  <2> DEFINE O == cur[t].constraints
             K == WithComing(t, O, N)
  <2>1. FitTable(t, cur[t]) /\ RecordedTable(t, cur[t]) /\ NamesApart(t, cur[t], des[t]) /\ IsFiniteSet(O)
    BY <1>3, InReachTables, ChangesAreWithinReach DEF FitTable, FiniteTable
  <2>2. g = Table(StoredColumns(des[t].columns), K, StoredIndexes(des[t].indexes))
    BY <1>3 DEF GoalTable, TableAfter
  <2>3. g.columns = StoredColumns(des[t].columns) /\ g.constraints = K /\ g.indexes = StoredIndexes(des[t].indexes)
    BY <2>2 DEF Table
  <2>4. IsTable(g)
    BY <2>2 DEF Table, IsTable
  <2>5. Mirrors(t, K, N)
    BY <1>1, <1>2, <2>1, ChangedMirrors
  <2>6. IsFiniteSet(K)
    <3>1. OwnNames(O) /\ Twinless(N)
      BY <1>1, <2>1, FitHasOwnNames
    <3> DEFINE come == Coming(O, N)
               kept == Left(O, N)
               new  == AllStored(t, come)
    <3> HIDE DEF O, N
    <3>2. come \subseteq N /\ kept \subseteq O
      BY <3>1, DiffIsComplete DEF Left
    <3>3. IsFiniteSet(come) /\ IsFiniteSet(kept)
      BY <1>1, <2>1, <3>2, FS_Subset
    <3> HIDE DEF come, kept
    <3>4. IsFiniteSet(new)
      BY <3>3, AllStoredFinite
    <3> HIDE DEF new
    <3>5. IsFiniteSet(kept \cup new)
      BY <3>3, <3>4, FS_Union
    <3> QED
      BY <3>5 DEF WithComing, come, kept, new, AllStored
  <2> QED
    BY <2>3, <2>4, <2>5, <2>6
<1>4. CASE t \notin DOMAIN cur
  <2> DEFINE K == {StoredConstraint(t, d) : d \in N}
  <2>1. g = Table(StoredColumns(des[t].columns), K, StoredIndexes(des[t].indexes))
    BY <1>4 DEF GoalTable, TableMade, StoredTable
  <2>2. g.columns = StoredColumns(des[t].columns) /\ g.constraints = K /\ g.indexes = StoredIndexes(des[t].indexes)
    BY <2>1 DEF Table
  <2>3. IsTable(g)
    BY <2>1 DEF Table, IsTable
  <2>4. Mirrors(t, K, N)
    BY <1>1, <1>2, MadeMirrors
  <2>5. IsFiniteSet(K)
    BY <1>1, AllStoredFinite DEF AllStored
  <2> QED
    BY <2>2, <2>3, <2>4, <2>5
<1> QED
  BY <1>3, <1>4

LEMMA GoalIs ==
  ASSUME NEW cur, NEW des, InReach(cur, des), NEW goal, goal = Goal(cur, des)
  PROVE  /\ IsMap(goal)
         /\ DOMAIN goal = DOMAIN des
         /\ \A t \in DOMAIN des :
              /\ IsTable(goal[t])
              /\ goal[t].columns = StoredColumns(des[t].columns)
              /\ goal[t].indexes = StoredIndexes(des[t].indexes)
              /\ Mirrors(t, goal[t].constraints, des[t].constraints)
              /\ IsFiniteSet(goal[t].constraints)
<1>1. IsMap(goal) /\ DOMAIN goal = DOMAIN des /\ \A t \in DOMAIN des : goal[t] = GoalTable(cur, des, t)
  BY DEF Goal, IsMap
<1> QED
  BY <1>1, GoalTableIs

LEMMA GoalAgrees ==
  ASSUME NEW cur, NEW des, InReach(cur, des), NEW goal, goal = Goal(cur, des)
  PROVE  Agrees(goal, des)
<1>1. /\ DOMAIN goal = DOMAIN des
      /\ \A t \in DOMAIN des :
              /\ goal[t].columns = StoredColumns(des[t].columns)
              /\ goal[t].indexes = StoredIndexes(des[t].indexes)
              /\ Mirrors(t, goal[t].constraints, des[t].constraints)
  BY GoalIs
<1>2. \A t \in DOMAIN des : \A d \in des[t].constraints : IsConstraint(d)
  BY InReachTables DEF FitTable
<1>3. ASSUME NEW t \in DOMAIN des
      PROVE  /\ \A c \in goal[t].constraints : \E d \in des[t].constraints :
                  SemanticKey(c) = SemanticKey(StoredConstraint(t, d))
             /\ \A d \in des[t].constraints : \E c \in goal[t].constraints :
                  /\ SemanticKey(c) = SemanticKey(StoredConstraint(t, d))
                  /\ d.name # Unnamed => c.name = d.name
  <2> DEFINE K == goal[t].constraints
             N == des[t].constraints
  <2>1. /\ \A c \in K : IsConstraint(c)
        /\ \A c \in K : \E d \in N : Alike(c, StoredConstraint(t, d))
        /\ \A d \in N : \E c \in K : Alike(c, StoredConstraint(t, d)) /\ (d.name # Unnamed => c.name = d.name)
    BY <1>1 DEF Mirrors
  <2>2. \A d \in N : IsConstraint(StoredConstraint(t, d))
    BY <1>2, StoredTwice
  <2> HIDE DEF K, N
  <2>3. \A c \in K, d \in N : Alike(c, StoredConstraint(t, d)) => SemanticKey(c) = SemanticKey(StoredConstraint(t, d))
    BY <2>1, <2>2, AlikeIs
  <2>4. /\ \A c \in K : \E d \in N : SemanticKey(c) = SemanticKey(StoredConstraint(t, d))
        /\ \A d \in N : \E c \in K : /\ SemanticKey(c) = SemanticKey(StoredConstraint(t, d))
                                     /\ d.name # Unnamed => c.name = d.name
    BY <2>1, <2>3
  <2> QED
    BY <2>4 DEF K, N
<1> QED
  BY <1>1, <1>3 DEF Agrees, StoredColumns, StoredIndexes

LEMMA GoalRefers ==
  ASSUME NEW cur, NEW des, InReach(cur, des), NEW goal, goal = Goal(cur, des)
  PROVE  RefersToConstraints(goal)
<1>1. /\ DOMAIN goal = DOMAIN des
      /\ \A t \in DOMAIN des : Mirrors(t, goal[t].constraints, des[t].constraints)
  BY GoalIs
<1>2. RefersToConstraints(des)
  BY DEF InReach, WithinReach
<1>3. ASSUME NEW t \in DOMAIN des, NEW c \in goal[t].constraints, c.kind = "fk"
      PROVE  c.ref \in DOMAIN des /\ HasConstraint(goal, c.ref, Referred(c))
  <2>1. PICK d \in des[t].constraints : Alike(c, StoredConstraint(t, d))
    BY <1>1 DEF Mirrors
  <2>2. d.kind = "fk" /\ d.ref = c.ref /\ Referred(d) = Referred(c)
    <3>1. d.kind = "fk" /\ d.ref = c.ref /\ d.refColumns = c.refColumns
      BY <1>3, <2>1, StoredReference DEF Alike
    <3> QED
      BY <3>1 DEF Referred
  <2>3. c.ref \in DOMAIN des /\ HasConstraint(des, c.ref, Referred(c))
    BY <1>2, <2>2 DEF RefersToConstraints
  <2>4. PICK k \in des[c.ref].constraints : IsKey(k) /\ k.columns = Referred(c)
    BY <2>3 DEF HasConstraint
  <2>5. PICK e \in goal[c.ref].constraints : Alike(e, StoredConstraint(c.ref, k))
    BY <1>1, <2>3 DEF Mirrors
  <2>6. IsKey(e) /\ e.columns = Referred(c)
    BY <2>4, <2>5 DEF Alike, IsKey, StoredConstraint
  <2> QED
    BY <2>3, <2>6 DEF HasConstraint
<1> QED
  BY <1>1, <1>3 DEF RefersToConstraints

\* Columns and indexes as the catalog has them.
ColumnsStand(D) ==
  /\ IsMap(D)
  /\ \A x \in DOMAIN D :
       /\ IsColumn(D[x])
       /\ StoredColumn(D[x]) = D[x]
       /\ ColumnFits(D[x])
       /\ D[x].mode = "identity" => D[x].notNull
       /\ D[x].mode # Plain => D[x].default = NotGiven

IndexesStand(J, D) ==
  /\ IsMap(J)
  /\ \A x \in DOMAIN J :
       /\ IsIndex(J[x])
       /\ StoredIndex(J[x]) = J[x]
       /\ J[x].columns \subseteq DOMAIN D /\ J[x].columns # {}

LEMMA ColumnsStored ==
  ASSUME NEW t, NEW table, FitTable(t, table), NEW D, D = StoredColumns(table.columns)
  PROVE  /\ ColumnsStand(D)
         /\ DOMAIN D = DOMAIN table.columns
         /\ \A x \in DOMAIN D : D[x].notNull = table.columns[x].notNull
<1> DEFINE C == table.columns
<1>1. \A x \in DOMAIN C : /\ IsColumn(C[x])
                          /\ ColumnFits(C[x])
                          /\ C[x].mode = "identity" => C[x].notNull
                          /\ C[x].mode # Plain => C[x].default = NotGiven
  BY DEF FitTable
<1>2. D = [x \in DOMAIN C |-> StoredColumn(C[x])]
  BY DEF StoredColumns
<1> HIDE DEF C
<1>3. ASSUME NEW x \in DOMAIN C
      PROVE  /\ IsColumn(D[x]) /\ StoredColumn(D[x]) = D[x] /\ ColumnFits(D[x])
             /\ D[x].notNull = C[x].notNull /\ D[x].mode = C[x].mode
             /\ C[x].default = NotGiven => D[x].default = NotGiven
  <2> DEFINE b == C[x]
             c == D[x]
  <2>1. /\ IsColumn(b) /\ ColumnFits(b) /\ c = StoredColumn(b)
        /\ b.mode = "identity" => b.notNull
        /\ b.mode # Plain => b.default = NotGiven
    BY <1>1, <1>2
  <2> HIDE DEF b, c
  <2>2. SoundColumn(c)
    BY <2>1, ColumnStored, FitsStored DEF SoundColumn
  <2>3. c = [type    |-> b.type,
             notNull |-> IF b.mode = "identity" THEN TRUE ELSE b.notNull,
             default |-> IF b.mode = Plain THEN StoredDefault(b.default) ELSE NotGiven,
             mode    |-> b.mode]
    BY <2>1, StoredColumnParts
  <2>4. c.mode = b.mode /\ (b.default = NotGiven => c.default = NotGiven)
    BY <2>3, NoDefaultStored
  <2>5. c.notNull = b.notNull
    <3>1. b.notNull \in BOOLEAN
      BY <2>1 DEF IsColumn
    <3>2. b.mode = "identity" => b.notNull = TRUE
      BY <2>1, <3>1
    <3>3. c.notNull = IF b.mode = "identity" THEN TRUE ELSE b.notNull
      BY <2>3
    <3> QED
      BY <3>2, <3>3
  <2> QED
    BY <2>2, <2>4, <2>5 DEF SoundColumn, b, c
<1>4. IsMap(D) /\ DOMAIN D = DOMAIN C
  BY <1>2 DEF IsMap
<1>5. ColumnsStand(D)
  BY <1>1, <1>3, <1>4 DEF ColumnsStand
<1> QED
  BY <1>3, <1>4, <1>5 DEF C

LEMMA IndexesStored ==
  ASSUME NEW t, NEW table, FitTable(t, table), NEW D, DOMAIN D = DOMAIN table.columns,
         NEW J, J = StoredIndexes(table.indexes)
  PROVE  IndexesStand(J, D) /\ DOMAIN J = DOMAIN table.indexes
<1> DEFINE I == table.indexes
<1>1. \A x \in DOMAIN I : I[x].columns \subseteq DOMAIN D /\ I[x].columns # {}
  BY DEF FitTable
<1>2. J = [x \in DOMAIN I |-> StoredIndex(I[x])]
  BY DEF StoredIndexes
<1> HIDE DEF I
<1>3. ASSUME NEW x \in DOMAIN I
      PROVE  IsIndex(J[x]) /\ StoredIndex(J[x]) = J[x] /\ J[x].columns = I[x].columns
  <2>1. J[x] = StoredIndex(I[x])
    BY <1>2
  <2> QED
    BY <2>1, IndexIsStored
<1>4. IsMap(J) /\ DOMAIN J = DOMAIN I
  BY <1>2 DEF IsMap
<1> QED
  BY <1>1, <1>3, <1>4 DEF IndexesStand, I

LEMMA GoalParts ==
  ASSUME NEW cur, NEW des, InReach(cur, des), NEW goal, goal = Goal(cur, des), NEW t \in DOMAIN des
  PROVE  /\ DOMAIN goal[t].columns = DOMAIN des[t].columns
         /\ \A x \in DOMAIN des[t].columns : goal[t].columns[x].type = des[t].columns[x].type
         /\ ColumnsStand(goal[t].columns)
         /\ DOMAIN goal[t].indexes = DOMAIN des[t].indexes
         /\ IndexesStand(goal[t].indexes, goal[t].columns)
         /\ \A x \in DOMAIN goal[t].columns : goal[t].columns[x].notNull = des[t].columns[x].notNull
<1>1. goal[t].columns = StoredColumns(des[t].columns) /\ goal[t].indexes = StoredIndexes(des[t].indexes)
  BY GoalIs
<1>2. FitTable(t, des[t])
  BY InReachTables
<1>3. /\ ColumnsStand(goal[t].columns)
      /\ DOMAIN goal[t].columns = DOMAIN des[t].columns
      /\ \A x \in DOMAIN goal[t].columns : goal[t].columns[x].notNull = des[t].columns[x].notNull
  BY <1>1, <1>2, ColumnsStored
<1>4. IndexesStand(goal[t].indexes, goal[t].columns) /\ DOMAIN goal[t].indexes = DOMAIN des[t].indexes
  BY <1>1, <1>2, <1>3, IndexesStored
<1>5. ASSUME NEW x \in DOMAIN des[t].columns PROVE goal[t].columns[x].type = des[t].columns[x].type
  <2>1. goal[t].columns[x].type \in TypesOf(des, t, x)
    BY <1>1, <1>2, <1>3, TypeStored
  <2> QED
    BY <2>1 DEF TypesOf
<1> QED
  BY <1>3, <1>4, <1>5

\* The types are those that are declared.
LEMMA GoalTypes ==
  ASSUME NEW cur, NEW des, InReach(cur, des), NEW goal, goal = Goal(cur, des), NEW t \in DOMAIN des,
         NEW d \in des[t].constraints, d.kind = "fk",
         NEW c, c.columns = d.columns, c.ref = d.ref, c.refColumns = d.refColumns
  PROVE  TypesAgree(goal, t, c)
<1>1. RefersToConstraints(des) /\ ConstraintFits(des, t, d)
  BY DEF InReach, WithinReach, WellFormed, Holdable
<1>2. /\ d.ref \in DOMAIN des /\ HasConstraint(des, d.ref, Referred(d))
      /\ TypesAgree(des, t, d)
  BY <1>1 DEF RefersToConstraints, ConstraintFits
<1>3. d.columns \subseteq DOMAIN des[t].columns /\ DOMAIN d.refColumns = d.columns
  BY InReachTables, ColumnsOfFit
<1>4. Referred(d) \subseteq DOMAIN des[d.ref].columns
  <2>1. PICK k \in des[d.ref].constraints : IsKey(k) /\ k.columns = Referred(d)
    BY <1>2 DEF HasConstraint
  <2> QED
    BY <1>2, <2>1, InReachTables, ColumnsOfFit DEF IsKey
<1>5. ASSUME NEW x \in c.columns
      PROVE  <<goal[t].columns[x].type, goal[c.ref].columns[c.refColumns[x]].type>> \in Comparable
  <2> DEFINE y == d.refColumns[x]
  <2>1. x \in d.columns /\ y \in Referred(d)
    BY <1>3 DEF Referred, Range
  <2>2. <<des[t].columns[x].type, des[d.ref].columns[y].type>> \in Comparable
    BY <1>2, <2>1 DEF TypesAgree
  <2>3. c.refColumns[x] = y
    OBVIOUS
  <2> HIDE DEF y
  <2>4. goal[t].columns[x].type = des[t].columns[x].type
    BY <1>3, <2>1, GoalParts
  <2>5. goal[d.ref].columns[y].type = des[d.ref].columns[y].type
    BY <1>2, <1>4, <2>1, GoalParts
  <2> QED
    BY <2>2, <2>3, <2>4, <2>5
<1> QED
  BY <1>5 DEF TypesAgree

\* Its indexes and keys share no name, and each has one that the catalog had or
\* that is declared.
LEMMA GoalNames ==
  ASSUME NEW cur, NEW des, InReach(cur, des), NEW goal, goal = Goal(cur, des)
  PROVE  NamesOnce(goal)
<1>1. DOMAIN goal = DOMAIN des /\ \A t \in DOMAIN des : goal[t] = GoalTable(cur, des, t)
  BY DEF Goal
<1>2. ASSUME NEW t \in DOMAIN des, NEW k \in goal[t].constraints, IsKey(k)
      PROVE  /\ DropName(t, k) \notin DOMAIN des[t].indexes
             /\ \E s \in {cur, des} : t \in DOMAIN s /\ DropName(t, k) \in KeyNames(t, s[t])
  <2>1. FitTable(t, des[t]) /\ Twinless(des[t].constraints)
    BY InReachTables
  <2>2. ASSUME NEW d \in des[t].constraints, k = StoredConstraint(t, d)
        PROVE  DropName(t, k) \in KeyNames(t, des[t]) /\ DropName(t, k) \notin DOMAIN des[t].indexes
    <3>1. IsKey(d) /\ DropName(t, k) = DropName(t, d)
      BY <1>2, <2>2, StoredReference, StoredName
    <3> QED
      BY <2>1, <3>1 DEF KeyNames, FitTable
  <2>3. CASE t \in DOMAIN cur
    <3> DEFINE O == cur[t].constraints
               N == des[t].constraints
    <3>1. goal[t].constraints = WithComing(t, O, N)
      BY <1>1, <2>3 DEF GoalTable, TableAfter, Table
    <3>2. FitTable(t, cur[t]) /\ RecordedTable(t, cur[t]) /\ NamesApart(t, cur[t], des[t])
      BY <2>3, InReachTables, ChangesAreWithinReach
    <3>3. Coming(O, N) \subseteq N
      BY <2>1, <3>2, FitHasOwnNames, DiffIsComplete
    <3>4. CASE k \in Left(O, N)
      <4>1. k \in O /\ k = StoredConstraint(t, k)
        BY <3>2, <3>4 DEF Left, RecordedTable
      <4>2. DropName(t, k) = k.name
        BY <4>1, StoredReference
      <4> QED
        BY <1>2, <2>3, <3>2, <3>4, <4>1, <4>2 DEF NamesApart, KeyNames
    <3>5. CASE k \notin Left(O, N)
      <4>1. PICK d \in N : k = StoredConstraint(t, d)
        BY <1>2, <3>1, <3>3, <3>5 DEF WithComing
      <4> QED
        BY <2>2, <4>1
    <3> QED
      BY <3>4, <3>5
  <2>4. CASE t \notin DOMAIN cur
    <3>1. goal[t].constraints = {StoredConstraint(t, d) : d \in des[t].constraints}
      BY <1>1, <2>4 DEF GoalTable, TableMade, StoredTable, Table
    <3> QED
      BY <1>2, <2>2, <3>1
  <2> QED
    BY <2>3, <2>4
<1>3. \A t \in DOMAIN des : DOMAIN goal[t].indexes = DOMAIN des[t].indexes
  BY GoalParts
<1>4. \A t \in DOMAIN goal : DOMAIN goal[t].indexes \cap KeyNames(t, goal[t]) = {}
  BY <1>1, <1>2, <1>3 DEF KeyNames
<1>5. ASSUME NEW t \in DOMAIN des, NEW x \in RelationNames(t, goal[t])
      PROVE  \E s \in {cur, des} : t \in DOMAIN s /\ x \in RelationNames(t, s[t])
  BY <1>2, <1>3 DEF RelationNames, KeyNames
<1>6. ASSUME NEW t \in DOMAIN des, NEW u \in DOMAIN des, t # u, NEW x, x \in RelationNames(t, goal[t]),
             x \in RelationNames(u, goal[u])
      PROVE  FALSE
  <2>1. PICK s \in {cur, des} : t \in DOMAIN s /\ x \in RelationNames(t, s[t])
    BY <1>5, <1>6
  <2>2. PICK r \in {cur, des} : u \in DOMAIN r /\ x \in RelationNames(u, r[u])
    BY <1>5, <1>6
  <2> QED
    BY <1>6, <2>1, <2>2, RelationsApart
<1> QED
  BY <1>1, <1>4, <1>6 DEF NamesOnce

LEMMA GoalConstraints ==
  ASSUME NEW cur, NEW des, InReach(cur, des), NEW goal, goal = Goal(cur, des), NEW t \in DOMAIN des
  PROVE  /\ \A c \in goal[t].constraints :
              /\ IsConstraint(c) /\ c = StoredConstraint(t, c)
              /\ c.name # Unnamed /\ DropName(t, c) = c.name
              /\ ConstraintFits(goal, t, c)
         /\ \A c, d \in goal[t].constraints :
              (\/ SemanticKey(c) = SemanticKey(d)
               \/ c.name = d.name
               \/ c.kind = "pk" /\ d.kind = "pk") => c = d
<1> DEFINE K == goal[t].constraints
           N == des[t].constraints
           C == des[t].columns
           D == goal[t].columns
<1>1. Mirrors(t, K, N) /\ DOMAIN goal = DOMAIN des
  BY GoalIs
<1>2. \A d \in N : IsConstraint(d) /\ FitsColumns(C, StoredConstraint(t, d))
  BY InReachTables DEF FitTable
<1>3. RefersToConstraints(goal)
  BY GoalRefers
<1>4. DOMAIN D = DOMAIN C /\ \A x \in DOMAIN C : D[x].notNull = C[x].notNull
  BY GoalParts
<1>a. \A d \in N : d.kind = "fk" =>
         \A c : c.columns = d.columns /\ c.ref = d.ref /\ c.refColumns = d.refColumns => TypesAgree(goal, t, c)
  BY GoalTypes
<1> HIDE DEF C, D, N
<1>5. /\ \A c \in K : c = StoredConstraint(t, c) /\ IsConstraint(c)
      /\ \A c \in K : \E d \in N : Alike(c, StoredConstraint(t, d))
      /\ \A c, e \in K : Alike(c, e) \/ c.name = e.name \/ (c.kind = "pk" /\ e.kind = "pk") => c = e
  BY <1>1 DEF Mirrors
<1>6. \A c \in K : c.name # Unnamed /\ DropName(t, c) = c.name
  BY <1>5, StoredTwice
<1>7. ASSUME NEW c \in K PROVE ConstraintFits(goal, t, c)
  <2>1. PICK d \in N : Alike(c, StoredConstraint(t, d))
    BY <1>5
  <2>2. FitsColumns(C, StoredConstraint(t, d))
    BY <1>2
  <2>3. c.columns \cup c.check \subseteq DOMAIN C /\ (c.kind = "pk" => \A x \in c.columns : C[x].notNull)
    BY <2>1, <2>2 DEF FitsColumns, Alike
  <2>4. c.columns \cup c.check \subseteq DOMAIN D /\ (c.kind = "pk" => \A x \in c.columns : D[x].notNull)
    BY <1>4, <2>3
  <2>5. c.kind = "fk" => HasKey(goal, c.ref, Referred(c))
    BY <1>1, <1>3 DEF RefersToConstraints, HasKey
  <2>6. ASSUME c.kind = "fk" PROVE TypesAgree(goal, t, c)
    <3> DEFINE e == StoredConstraint(t, d)
    <3>1. e.kind = d.kind /\ e.ref = d.ref /\ e.refColumns = d.refColumns /\ (e.kind = "fk" => e.columns = d.columns)
      BY StoredReference
    <3>2. c.kind = e.kind /\ c.columns = e.columns /\ c.ref = e.ref /\ c.refColumns = e.refColumns
      BY <2>1 DEF Alike
    <3> HIDE DEF e
    <3>3. d.kind = "fk" /\ d.columns = c.columns /\ d.ref = c.ref /\ d.refColumns = c.refColumns
      BY <2>6, <3>1, <3>2
    <3> QED
      BY <1>a, <3>3
  <2> QED
    BY <2>4, <2>5, <2>6 DEF ConstraintFits, D
<1>8. \A c, d \in K : SemanticKey(c) = SemanticKey(d) => Alike(c, d)
  BY <1>5, AlikeIs
<1> HIDE DEF K
<1>9. \A c, d \in K : (\/ SemanticKey(c) = SemanticKey(d)
                       \/ c.name = d.name
                       \/ c.kind = "pk" /\ d.kind = "pk") => c = d
  BY <1>5, <1>8
<1>10. \A c \in K : /\ IsConstraint(c) /\ c = StoredConstraint(t, c)
                    /\ c.name # Unnamed /\ DropName(t, c) = c.name
                    /\ ConstraintFits(goal, t, c)
  BY <1>5, <1>6, <1>7
<1> QED
  BY <1>9, <1>10 DEF K

LEMMA GoalConsistent ==
  ASSUME NEW cur, NEW des, InReach(cur, des), NEW goal, goal = Goal(cur, des)
  PROVE  Consistent(goal) /\ SaysOnce(goal) /\ VersionTable \notin DOMAIN goal
<1>1. /\ DOMAIN goal = DOMAIN des
      /\ IsMap(goal)
      /\ \A t \in DOMAIN des : IsTable(goal[t]) /\ IsFiniteSet(goal[t].constraints)
  BY GoalIs
<1>2. \A t \in DOMAIN des : /\ DOMAIN goal[t].columns = DOMAIN des[t].columns
                            /\ ColumnsStand(goal[t].columns)
                            /\ DOMAIN goal[t].indexes = DOMAIN des[t].indexes
                            /\ IndexesStand(goal[t].indexes, goal[t].columns)
  BY GoalParts
<1>3. \A t \in DOMAIN des :
         /\ \A c \in goal[t].constraints :
              /\ IsConstraint(c) /\ c = StoredConstraint(t, c)
              /\ c.name # Unnamed /\ DropName(t, c) = c.name
              /\ ConstraintFits(goal, t, c)
         /\ \A c, d \in goal[t].constraints :
              (\/ SemanticKey(c) = SemanticKey(d)
               \/ c.name = d.name
               \/ c.kind = "pk" /\ d.kind = "pk") => c = d
  BY GoalConstraints
<1>4. RefersToConstraints(goal)
  BY GoalRefers
<1>5. FiniteSchema(des) /\ VersionTable \notin DOMAIN des
  BY DEF InReach, Shaped
<1>6. FiniteSchema(goal)
  BY <1>1, <1>2, <1>5 DEF FiniteSchema, FiniteTable
<1>7. Shaped(goal)
  BY <1>1, <1>2, <1>3, <1>6 DEF Shaped, ColumnsStand, IndexesStand
<1>8. Recorded(goal)
  <2>1. ASSUME NEW t \in DOMAIN goal
        PROVE  /\ goal[t].columns = [x \in DOMAIN goal[t].columns |-> StoredColumn(goal[t].columns[x])]
               /\ goal[t].indexes = [x \in DOMAIN goal[t].indexes |-> StoredIndex(goal[t].indexes[x])]
    <3>1. ColumnsStand(goal[t].columns) /\ IndexesStand(goal[t].indexes, goal[t].columns)
      BY <1>1, <1>2
    <3> DEFINE C == goal[t].columns
               I == goal[t].indexes
    <3>2. /\ C = [x \in DOMAIN C |-> C[x]] /\ \A x \in DOMAIN C : StoredColumn(C[x]) = C[x]
          /\ I = [x \in DOMAIN I |-> I[x]] /\ \A x \in DOMAIN I : StoredIndex(I[x]) = I[x]
      BY <3>1 DEF ColumnsStand, IndexesStand, IsMap
    <3> HIDE DEF C, I
    <3>3. C = [x \in DOMAIN C |-> StoredColumn(C[x])] /\ I = [x \in DOMAIN I |-> StoredIndex(I[x])]
      BY <3>2
    <3> QED
      BY <3>3 DEF C, I
  <2> QED
    BY <1>1, <1>3, <2>1 DEF Recorded
<1>9. Holdable(goal)
  <2>1. ASSUME NEW t \in DOMAIN goal
        PROVE  /\ \A c \in goal[t].constraints : ConstraintFits(goal, t, c)
               /\ \A c, d \in goal[t].constraints :
                    DropName(t, c) = DropName(t, d) \/ (c.kind = "pk" /\ d.kind = "pk") => c = d
    <3>1. t \in DOMAIN des
      BY <1>1
    <3>2. \A c \in goal[t].constraints : ConstraintFits(goal, t, c) /\ DropName(t, c) = c.name
      BY <1>3, <3>1
    <3>3. \A c, d \in goal[t].constraints :
              (\/ SemanticKey(c) = SemanticKey(d)
               \/ c.name = d.name
               \/ c.kind = "pk" /\ d.kind = "pk") => c = d
      BY <1>3, <3>1
    <3> QED
      BY <3>2, <3>3
  <2>2. ASSUME NEW t \in DOMAIN goal
        PROVE  /\ \A x \in DOMAIN goal[t].indexes :
                    goal[t].indexes[x].columns \subseteq DOMAIN goal[t].columns /\ goal[t].indexes[x].columns # {}
               /\ \A x \in DOMAIN goal[t].columns :
                    /\ ColumnFits(goal[t].columns[x])
                    /\ goal[t].columns[x].mode = "identity" => goal[t].columns[x].notNull
                    /\ goal[t].columns[x].mode # Plain => goal[t].columns[x].default = NotGiven
    <3> DEFINE C == goal[t].columns
               I == goal[t].indexes
    <3>1. ColumnsStand(C) /\ IndexesStand(I, C)
      BY <1>1, <1>2
    <3> HIDE DEF C, I
    <3>2. \A x \in DOMAIN I : I[x].columns \subseteq DOMAIN C /\ I[x].columns # {}
      BY <3>1 DEF IndexesStand
    <3>3. \A x \in DOMAIN C : /\ ColumnFits(C[x])
                              /\ C[x].mode = "identity" => C[x].notNull
                              /\ C[x].mode # Plain => C[x].default = NotGiven
      BY <3>1 DEF ColumnsStand
    <3> QED
      BY <3>2, <3>3 DEF C, I
  <2>3. NamesOnce(goal)
    BY GoalNames
  <2> QED
    BY <2>1, <2>2, <2>3 DEF Holdable, NamesOnce
<1>10. \A t \in DOMAIN goal : CompleteTable(goal[t])
  <2> SUFFICES ASSUME NEW t \in DOMAIN goal PROVE CompleteTable(goal[t])
    OBVIOUS
  <2> DEFINE I == goal[t].indexes
             J == [x \in DOMAIN I |-> [columns |-> I[x].columns, unique |-> I[x].unique, method |-> I[x].method]]
  <2>1. IsMap(I) /\ \A x \in DOMAIN I : IsIndex(I[x])
    BY <1>1, <1>2 DEF IndexesStand
  <2> HIDE DEF I
  <2>2. \A x \in DOMAIN I : I[x] = [columns |-> I[x].columns, unique |-> I[x].unique, method |-> I[x].method]
    BY <2>1 DEF IsIndex
  <2>3. I = J
    BY <2>1, <2>2 DEF IsMap
  <2> QED
    BY <1>1, <2>3 DEF CompleteTable, I
<1>11. \A t \in DOMAIN goal : ConstraintsNamed(goal[t])
  BY <1>1, <1>3 DEF ConstraintsNamed
<1>12. CatalogOK(goal)
  BY <1>1, <1>5, <1>6, <1>10, <1>11 DEF CatalogOK, IsMap
<1>13. SaysOnce(goal)
  BY <1>1, <1>3 DEF SaysOnce
<1> QED
  BY <1>1, <1>4, <1>5, <1>7, <1>8, <1>9, <1>12, <1>13 DEF Consistent

LEMMA FirstStage ==
  ASSUME NEW cur, NEW des, InReach(cur, des)
  PROVE  Stage(cur, des, {}, {}, {}) = WithTable(cur)
<1>1. VersionTable \notin DOMAIN cur
  BY DEF InReach
<1> QED
  BY <1>1 DEF Stage, WithTable, Extended

\* A table in which nothing differs.
LEMMA SameTableAfter ==
  ASSUME NEW t, NEW old, NEW new, FitTable(t, old), RecordedTable(t, old), SameTable(old, new)
  PROVE  TableAfter(t, old, new) = old
<1> DEFINE O == old.constraints
           N == new.constraints
<1>1. /\ old = Table(old.columns, O, old.indexes)
      /\ StoredColumns(new.columns) = old.columns /\ StoredIndexes(new.indexes) = old.indexes
  BY DEF FitTable, IsTable, Table, RecordedTable, SameTable
<1>2. WithComing(t, O, N) = O
  <2>1. AddedConstraints(O, N) = {} /\ RemovedConstraints(O, N) = {} /\ ChangedConstraints(O, N) = {}
    BY DEF SameTable
  <2> HIDE DEF O, N
  <2>2. Left(O, N) = O /\ Coming(O, N) = {}
    BY <2>1 DEF Left, Coming
  <2> QED
    BY <2>2 DEF WithComing
<1> QED
  BY <1>1, <1>2 DEF TableAfter

LEMMA LastStage ==
  ASSUME NEW cur, NEW des, InReach(cur, des), NEW A, A = Added(cur, des), NEW R, R = Removed(cur, des),
         NEW H, H = ChangedTables(cur, des)
  PROVE  Stage(cur, des, A, R, H) = WithTable(Goal(cur, des))
<1> DEFINE goal == Goal(cur, des)
           s    == Stage(cur, des, A, R, H)
           w    == WithTable(goal)
<1>1. VersionTable \notin DOMAIN cur /\ VersionTable \notin DOMAIN des
  BY DEF InReach
<1>2. DOMAIN goal = DOMAIN des /\ \A t \in DOMAIN des : goal[t] = GoalTable(cur, des, t)
  BY DEF Goal
<1>3. w = [t \in DOMAIN des \cup {VersionTable} |-> IF t = VersionTable THEN VersionTableDef ELSE GoalTable(cur, des, t)]
  BY <1>1, <1>2 DEF WithTable, Extended
<1>4. DOMAIN s = DOMAIN w /\ IsMap(s) /\ IsMap(w)
  BY <1>3 DEF Stage, Added, Removed, IsMap
<1>5. ASSUME NEW t \in DOMAIN w PROVE s[t] = w[t]
  <2>1. OnTheWay(cur, des, A, R, H)
    BY DEF OnTheWay
  <2>2. CASE t = VersionTable
    BY <1>3, <2>1, <2>2, StageTables
  <2>3. CASE t \in A
    <3>1. s[t] = TableMade(t, des[t]) /\ t \in DOMAIN des /\ t \notin DOMAIN cur
      BY <2>1, <2>3, StageTables
    <3> QED
      BY <1>1, <1>3, <3>1 DEF GoalTable
  <2>4. CASE t \in H
    <3>1. s[t] = TableAfter(t, cur[t], des[t]) /\ t \in DOMAIN des /\ t \in DOMAIN cur
      BY <2>1, <2>4, StageTables
    <3> QED
      BY <1>1, <1>3, <3>1 DEF GoalTable
  <2>5. CASE t # VersionTable /\ t \notin A /\ t \notin H
    <3>1. t \in DOMAIN des /\ t \in DOMAIN cur /\ t \notin R /\ SameTable(cur[t], des[t])
      BY <1>3, <2>5 DEF Added, ChangedTables, Removed
    <3>2. s[t] = cur[t]
      BY <2>1, <2>5, <3>1, StageTables
    <3>3. TableAfter(t, cur[t], des[t]) = cur[t]
      BY <3>1, InReachTables, SameTableAfter
    <3> QED
      BY <1>1, <1>3, <3>1, <3>2, <3>3 DEF GoalTable
  <2> QED
    BY <2>2, <2>3, <2>4, <2>5
<1> HIDE DEF s, w
<1>6. s = w
  BY <1>4, <1>5 DEF IsMap
<1> QED
  BY <1>6 DEF s, w

\* A migration leads to what is declared, and back to exactly what was there.
\* Take a catalog and a declared schema that PostgreSQL can hold, as PostgresDDL
\* has it, and that are within reach of each other: a column keeps its type or
\* gets one that converts without USING in both directions, foreign keys fit
\* the types before and after, and no name of a key or index is wanted twice.
\* Then no statement of Up is refused; the catalog is consistent after it and
\* agrees with the declared schema; and no statement of Down is refused, which
\* restores names, types, indexes and definitions to the letter.
THEOREM MigrationComesAndGoes ==
  ASSUME NEW cur, NEW des, InReach(cur, des)
  PROVE  LET steps == MigrationSteps(cur, des)
             goal  == Goal(cur, des)
         IN  /\ Reaches(WithTable(cur), UpStatements(steps), WithTable(goal))
             /\ Reaches(WithTable(goal), DownStatements(steps), WithTable(cur))
             /\ Agrees(goal, des)
             /\ Consistent(goal)
             /\ SaysOnce(goal)
<1> DEFINE A  == Added(cur, des)
           R  == Removed(cur, des)
           H  == ChangedTables(cur, des)
           s1 == ByName(A, LAMBDA t : AddedTableSteps(t, des[t]))
           s2 == ByName(R, LAMBDA t : RemovedTableSteps(t, cur[t]))
           s3 == ByName(H, LAMBDA t : TableDiffSteps(t, cur[t], des[t]))
           a  == Stage(cur, des, {}, {}, {})
           b  == Stage(cur, des, A, {}, {})
           c  == Stage(cur, des, A, R, {})
           d  == Stage(cur, des, A, R, H)
           goal == Goal(cur, des)
<1>1. MigrationSteps(cur, des) = (s1 \o s2) \o s3
  BY DEF MigrationSteps
<1>2. Path(s1, a, b, b, a)
  BY AddedTablesPath
<1>3. Path(s2, b, c, c, b)
  BY RemovedTablesPath
<1>4. Path(s3, c, d, d, c)
  BY ChangedTablesPath
<1>5. a = WithTable(cur) /\ d = WithTable(goal)
  BY FirstStage, LastStage
<1>6. Agrees(goal, des) /\ Consistent(goal) /\ SaysOnce(goal)
  BY GoalAgrees, GoalConsistent
<1> HIDE DEF s1, s2, s3, a, b, c, d, goal
<1>7. Path((s1 \o s2) \o s3, a, d, d, a)
  BY <1>2, <1>3, <1>4, PathsJoined
<1>8. /\ Reaches(a, UpStatements((s1 \o s2) \o s3), d)
      /\ Reaches(d, DownStatements((s1 \o s2) \o s3), a)
  BY <1>7, PathRuns
<1> QED
  BY <1>1, <1>5, <1>6, <1>8 DEF goal

-----------------------------------------------------------------------------
(* What the configs mean.                                                  *)

\* No two constraints of the list say the same.
KeysApart(list) ==
  \A a, b \in DOMAIN list : SemanticKey(list[a]) = SemanticKey(list[b]) => a = b

\* What has been gathered from the constraints S: each once, under its name if
\* it has one.
Stands(list, S) ==
  /\ IsList(list)
  /\ KeysApart(list)
  /\ \A i \in DOMAIN list : list[i] \in S
  /\ \A c \in S : \E i \in DOMAIN list :
       SemanticKey(list[i]) = SemanticKey(c) /\ (c.name # Unnamed => list[i] = c)

\* No constraint is given two names.
OneNameEach(S) ==
  /\ \A c \in S : IsConstraint(c)
  /\ \A c, d \in S : SemanticKey(c) = SemanticKey(d) /\ c.name # Unnamed /\ d.name # Unnamed => c = d

LEMMA RenamedIs ==
  ASSUME NEW c, NEW d, IsConstraint(c), IsConstraint(d), SemanticKey(c) = SemanticKey(d)
  PROVE  [c EXCEPT !.name = d.name] = d
<1>1. Alike(c, d)
  BY AlikeIs
<1>2. PICK e : e = c /\ e = [kind |-> c.kind, columns |-> c.columns, check |-> c.check,
                             ref |-> c.ref, refColumns |-> c.refColumns, name |-> c.name]
  BY DEF IsConstraint
<1>3. [e EXCEPT !.name = d.name] = [kind |-> c.kind, columns |-> c.columns, check |-> c.check,
                             ref |-> c.ref, refColumns |-> c.refColumns, name |-> d.name]
  BY <1>2
<1>4. d = [kind |-> d.kind, columns |-> d.columns, check |-> d.check,
           ref |-> d.ref, refColumns |-> d.refColumns, name |-> d.name]
  BY DEF IsConstraint
<1> QED
  BY <1>1, <1>2, <1>3, <1>4 DEF Alike

LEMMA OneMoreGathered ==
  ASSUME NEW list, NEW S, Stands(list, S), NEW c, NEW more, more = With(S, c), OneNameEach(more),
         NEW r, r = [ok |-> TRUE, list |-> list]
  PROVE  AppendUnique(r, c).ok = TRUE /\ Stands(AppendUnique(r, c).list, more)
<1> DEFINE same == {i \in DOMAIN r.list : SemanticKey(r.list[i]) = SemanticKey(c)}
<1>1. /\ \A d : d \in more <=> d \in S \/ d = c
      /\ IsConstraint(c) /\ \A d \in S : IsConstraint(d)
  BY DEF With, OneNameEach
<1>2. /\ Len(list) \in Nat /\ DOMAIN list = 1 .. Len(list)
      /\ list = [i \in 1 .. Len(list) |-> list[i]]
  BY ListLength DEF Stands
<1>3. CASE same = {}
  <2> DEFINE n   == Len(list)
             new == Append(list, c)
  <2>1. AppendUnique(r, c) = [ok |-> TRUE, list |-> new]
    BY <1>3 DEF AppendUnique
  <2>2. IsList(new)
    BY ListAppended DEF Stands
  <2>3. /\ DOMAIN new = 1 .. n + 1 /\ new[n + 1] = c
        /\ \A i \in 1 .. n : new[i] = list[i]
        /\ \A i \in 1 .. n + 1 : i \in 1 .. n \/ i = n + 1
    BY <1>2, AppendProperties DEF Stands, IsList
  <2>4. \A i \in 1 .. n : SemanticKey(list[i]) # SemanticKey(c)
    BY <1>2, <1>3
  <2> HIDE DEF new, same
  <2>5. KeysApart(new)
    BY <1>2, <2>3, <2>4 DEF Stands, KeysApart
  <2>6. \A i \in DOMAIN new : new[i] \in more
    BY <1>1, <1>2, <2>3 DEF Stands
  <2>7. ASSUME NEW d \in more
        PROVE  \E i \in DOMAIN new : SemanticKey(new[i]) = SemanticKey(d) /\ (d.name # Unnamed => new[i] = d)
    <3>1. CASE d = c
      <4>1. n + 1 \in DOMAIN new
        BY <1>2, <2>3
      <4> QED
        BY <2>3, <3>1, <4>1
    <3>2. CASE d \in S
      <4>1. PICK i \in 1 .. n : SemanticKey(list[i]) = SemanticKey(d) /\ (d.name # Unnamed => list[i] = d)
        BY <1>2, <3>2 DEF Stands
      <4>2. i \in DOMAIN new
        BY <1>2, <2>3
      <4> QED
        BY <2>3, <4>1, <4>2
    <3> QED
      BY <1>1, <3>1, <3>2
  <2>8. Stands(new, more)
    BY <2>2, <2>5, <2>6, <2>7 DEF Stands
  <2> QED
    BY <2>1, <2>8
<1>4. CASE same # {}
  <2> DEFINE i   == CHOOSE j \in same : TRUE
             e   == list[i]
             one == [e EXCEPT !.name = MergedName(e.name, c.name)]
             new == [list EXCEPT ![i] = one]
  <2>1. AppendUnique(r, c) = [r EXCEPT !.ok = TRUE /\ ~Clash(e.name, c.name), !.list = new]
    BY <1>4 DEF AppendUnique
  <2>2. i \in DOMAIN list /\ SemanticKey(e) = SemanticKey(c)
    BY <1>4
  <2> HIDE DEF same, i
  <2>3. e \in S /\ IsConstraint(e)
    BY <1>1, <2>2 DEF Stands
  <2>4. one = (IF e.name = Unnamed THEN c ELSE e)
    <3>1. CASE e.name = Unnamed
      BY <1>1, <2>2, <2>3, <3>1, RenamedIs DEF MergedName
    <3>2. CASE e.name # Unnamed
      BY <2>3, <3>2, RenamedIs DEF MergedName
    <3> QED
      BY <3>1, <3>2
  <2>5. e.name # Unnamed /\ c.name # Unnamed => e = c
    BY <1>1, <2>2, <2>3 DEF OneNameEach
  <2>6. ~Clash(e.name, c.name)
    BY <2>5 DEF Clash
  <2>7. AppendUnique(r, c).ok = TRUE /\ AppendUnique(r, c).list = new
    BY <2>1, <2>6
  <2> HIDE DEF e, one
  <2>8. /\ DOMAIN new = DOMAIN list /\ new[i] = one
        /\ \A j \in DOMAIN list : j # i => new[j] = list[j]
        /\ new = [j \in 1 .. Len(list) |-> new[j]]
    BY <1>2, <2>2
  <2>9. IsList(new)
    BY <1>2, <2>8, MapIsList
  <2>10. SemanticKey(one) = SemanticKey(e) /\ one \in more
    BY <1>1, <2>2, <2>3, <2>4
  <2> HIDE DEF new
  <2>11. \A j \in DOMAIN list : SemanticKey(new[j]) = SemanticKey(list[j])
    BY <2>8, <2>10 DEF e
  <2>12. KeysApart(new)
    BY <2>8, <2>11 DEF Stands, KeysApart
  <2>13. \A j \in DOMAIN new : new[j] \in more
    BY <1>1, <2>8, <2>10 DEF Stands
  <2>14. ASSUME NEW d \in more
         PROVE  \E j \in DOMAIN new : SemanticKey(new[j]) = SemanticKey(d) /\ (d.name # Unnamed => new[j] = d)
    <3>1. CASE d = c
      <4>1. SemanticKey(new[i]) = SemanticKey(d)
        BY <2>2, <2>8, <2>10, <3>1
      <4>2. d.name # Unnamed => new[i] = d
        BY <2>4, <2>5, <2>8, <3>1
      <4>3. i \in DOMAIN new
        BY <2>2, <2>8
      <4> QED
        BY <4>1, <4>2, <4>3
    <3>2. CASE d \in S
      <4>1. PICK j \in DOMAIN list : SemanticKey(list[j]) = SemanticKey(d) /\ (d.name # Unnamed => list[j] = d)
        BY <3>2 DEF Stands
      <4>2. d.name # Unnamed => new[j] = d
        BY <2>4, <2>8, <4>1 DEF e
      <4> QED
        BY <2>8, <2>11, <4>1, <4>2
    <3> QED
      BY <1>1, <3>1, <3>2
  <2> QED
    BY <2>7, <2>9, <2>12, <2>13, <2>14 DEF Stands
<1> QED
  BY <1>3, <1>4

LEMMA MergedStands ==
  ASSUME NEW L, IsList(L), OneNameEach(ToSet(L))
  PROVE  Merged(L).ok = TRUE /\ Stands(Merged(L).list, ToSet(L))
<1> DEFINE n == Len(L)
           seen(i) == {L[j] : j \in 1 .. i}
<1>1. n \in Nat /\ ToSet(L) = seen(n)
  BY ListLength
<1>2. PICK r : /\ r[0] = [ok |-> TRUE, list |-> <<>>]
               /\ \A i \in 1 .. n : r[i] = AppendUnique(r[i - 1], L[i])
               /\ Merged(L) = r[n]
  BY <1>1, MergedDefined
<1> DEFINE S == {i \in 0 .. n : Gathered(r[i]) /\ r[i].ok = TRUE /\ Stands(r[i].list, seen(i))}
<1>3. 0 \in S
  <2>1. IsList(<<>>) /\ DOMAIN <<>> = {} /\ ToSet(<<>>) = {} /\ seen(0) = {}
    BY EmptyList, NoNames
  <2>2. Stands(<<>>, seen(0))
    BY <2>1 DEF Stands, KeysApart
  <2> QED
    BY <1>1, <1>2, <2>1, <2>2 DEF Gathered
<1>4. ASSUME NEW i \in 0 .. n - 1, i \in S PROVE i + 1 \in S
  <2> DEFINE more == With(seen(i), L[i + 1])
  <2>1. i + 1 \in 1 .. n /\ i + 1 \in 0 .. n /\ (i + 1) - 1 = i /\ \A j \in 1 .. i + 1 : j \in 1 .. i \/ j = i + 1
    BY <1>1
  <2>2. r[i + 1] = AppendUnique(r[i], L[i + 1])
    BY <1>2, <2>1
  <2>3. Gathered(r[i]) /\ r[i].ok = TRUE /\ Stands(r[i].list, seen(i))
    BY <1>4
  <2>4. more = seen(i + 1)
    BY <1>1, <2>1 DEF With
  <2>5. OneNameEach(more)
    <3>1. \A c \in more : c \in ToSet(L)
      BY <1>1, <2>1, <2>4
    <3> HIDE DEF more
    <3> QED
      BY <3>1 DEF OneNameEach
  <2>6. r[i] = [ok |-> TRUE, list |-> r[i].list]
    BY <2>3 DEF Gathered
  <2> HIDE DEF seen
  <2>7. more = With(seen(i), L[i + 1])
    OBVIOUS
  <2> HIDE DEF more
  <2>8. AppendUnique(r[i], L[i + 1]).ok = TRUE /\ Stands(AppendUnique(r[i], L[i + 1]).list, more)
    BY <2>3, <2>5, <2>6, <2>7, OneMoreGathered
  <2>9. Gathered(r[i + 1])
    <3>1. IsConstraint(L[i + 1])
      BY <2>1, ListLength DEF OneNameEach
    <3> QED
      BY <2>2, <2>3, <3>1, UniqueAppended
  <2> QED
    BY <2>1, <2>2, <2>4, <2>8, <2>9
<1>5. n \in S
  <2> HIDE DEF S
  <2>1. \A i \in 0 .. n : i \in S
    BY <1>1, <1>3, <1>4, UpTo
  <2> QED
    BY <1>1, <2>1
<1> QED
  BY <1>1, <1>2, <1>5

\* All constraints that a config gives, wherever.
Given(cfg) ==
  ToSet(cfg.constraints)
    \cup UNION {UNION {ToSet(KeysOf(f.name, says)) : says \in ToSet(Said(cfg, f))}
                  : f \in ToSet(cfg.fields)}

LEMMA MeantAre ==
  ASSUME NEW cfg, NEW c
  PROVE  c \in MeantConstraints(cfg) <=>
           c \in Given(cfg) /\ (c.name # Unnamed \/ \A d \in Given(cfg) : SemanticKey(d) = SemanticKey(c) => d = c)
BY DEF MeantConstraints, Given

LEMMA StandsAsMeant ==
  ASSUME NEW cfg, MeansOneEach(cfg), \A c \in Given(cfg) : IsConstraint(c),
         NEW list, Stands(list, Given(cfg))
  PROVE  ToSet(list) = MeantConstraints(cfg)
<1> DEFINE all == Given(cfg)
<1>1. \A c \in all, d \in all : SemanticKey(c) = SemanticKey(d) /\ c.name = d.name => c = d
  <2> SUFFICES ASSUME NEW c \in all, NEW d \in all, SemanticKey(c) = SemanticKey(d), c.name = d.name
               PROVE  c = d
    OBVIOUS
  <2>1. IsConstraint(c) /\ IsConstraint(d)
    OBVIOUS
  <2>2. Alike(c, d)
    BY <2>1, AlikeIs
  <2> QED
    BY <2>1, <2>2 DEF IsConstraint, Alike
<1>2. \A x : x \in ToSet(list) <=> \E i \in DOMAIN list : list[i] = x
  BY DEF ToSet
<1> HIDE DEF all
<1>3. /\ \A i \in DOMAIN list : list[i] \in all
      /\ \A c \in all : \E i \in DOMAIN list :
           SemanticKey(list[i]) = SemanticKey(c) /\ (c.name # Unnamed => list[i] = c)
      /\ \A a, b \in DOMAIN list : SemanticKey(list[a]) = SemanticKey(list[b]) => a = b
  BY DEF Stands, KeysApart, all
<1>4. ASSUME NEW i \in DOMAIN list, list[i].name = Unnamed, NEW d \in all, SemanticKey(d) = SemanticKey(list[i])
      PROVE  d = list[i]
  <2>1. PICK j \in DOMAIN list : SemanticKey(list[j]) = SemanticKey(d) /\ (d.name # Unnamed => list[j] = d)
    BY <1>3
  <2>2. j = i
    BY <1>3, <1>4, <2>1
  <2>3. d.name = Unnamed
    BY <1>4, <2>1, <2>2
  <2> QED
    BY <1>1, <1>3, <1>4, <2>3
<1>5. \A i \in DOMAIN list : list[i] \in MeantConstraints(cfg)
  BY <1>3, <1>4, MeantAre DEF all
<1>6. ASSUME NEW c \in MeantConstraints(cfg) PROVE \E i \in DOMAIN list : list[i] = c
  <2>1. c \in all /\ (c.name # Unnamed \/ \A d \in all : SemanticKey(d) = SemanticKey(c) => d = c)
    BY MeantAre DEF all
  <2>2. PICK i \in DOMAIN list : SemanticKey(list[i]) = SemanticKey(c) /\ (c.name # Unnamed => list[i] = c)
    BY <1>3, <2>1
  <2> QED
    BY <1>3, <2>1, <2>2
<1> QED
  BY <1>2, <1>5, <1>6

LEMMA MeansOneName ==
  ASSUME NEW cfg, MeansOneEach(cfg), \A c \in Given(cfg) : IsConstraint(c)
  PROVE  OneNameEach(Given(cfg))
<1>1. \A c \in Given(cfg) : c.name # Unnamed => c \in MeantConstraints(cfg)
  BY MeantAre
<1> QED
  BY <1>1 DEF MeansOneEach, OneNameEach

\* The config of table t, with what the assumption says of it.
LEMMA ConfigIs ==
  ASSUME NEW configs \in Declared, NEW t \in DOMAIN configs
  PROVE  /\ IsList(configs[t].fields)
         /\ IsList(configs[t].constraints)
         /\ DOMAIN configs[t].columns \subseteq {f.name : f \in ToSet(configs[t].fields)}
         /\ \A c \in ToSet(configs[t].constraints) : IsConstraint(c)
         /\ \A x \in DOMAIN configs[t].indexes : IsIndex(configs[t].indexes[x])
         /\ IsFiniteSet(DOMAIN configs[t].columns)
<1>1. /\ IsList(configs[t].fields)
      /\ IsList(configs[t].constraints)
      /\ DOMAIN configs[t].columns \subseteq {f.name : f \in ToSet(configs[t].fields)}
      /\ \A c \in ToSet(configs[t].constraints) : IsConstraint(c)
      /\ \A x \in DOMAIN configs[t].indexes : IsIndex(configs[t].indexes[x])
  BY RevisionsAssumption DEF IsList
<1> DEFINE F     == ToSet(configs[t].fields)
           names == {f.name : f \in F}
           g     == [f \in F |-> f.name]
<1>2. g \in Surjection(F, names)
  BY DEF Surjection
<1>3. IsFiniteSet(F)
  BY <1>1, ListFinite
<1> HIDE DEF g, names, F
<1>4. IsFiniteSet(names)
  BY <1>2, <1>3, FS_Surjection
<1>5. IsFiniteSet(DOMAIN configs[t].columns)
  BY <1>1, <1>4, FS_Subset DEF names, F
<1> QED
  BY <1>1, <1>5

LEMMA VisitsAll ==
  ASSUME NEW S, IsFiniteSet(S), NEW visit \in SetToSeqs(S)
  PROVE  \E m \in Nat : /\ DOMAIN visit = 1 .. m
                        /\ \A x : x \in S <=> \E j \in 1 .. m : visit[j] = x
<1> DEFINE m == Cardinality(S)
<1>1. m \in Nat /\ IsFiniteSet(1 .. m) /\ Cardinality(1 .. m) = m
  BY FS_CardinalityType, FS_Interval
<1>2. visit \in [1 .. m -> S] /\ \A i, j \in 1 .. m : i # j => visit[i] # visit[j]
  BY DEF SetToSeqs
<1> HIDE DEF m
<1>3. visit \in Injection(1 .. m, S)
  BY <1>2 DEF Injection, IsInjective
<1>4. visit \in Surjection(1 .. m, S)
  BY <1>1, <1>3, FS_Injection DEF m
<1> QED
  BY <1>1, <1>2, <1>4 DEF Surjection

LEMMA SaidIs ==
  ASSUME NEW cfg, NEW f, NEW says
  PROVE  says \in ToSet(Said(cfg, f)) <=>
           says = f.tag \/ (f.name \in DOMAIN cfg.columns /\ says = cfg.columns[f.name])
<1>1. IsList(<<f.tag>>) /\ ToSet(<<f.tag>>) = {f.tag}
  BY SingleList
<1>2. CASE f.name \in DOMAIN cfg.columns
  <2> DEFINE one == <<cfg.columns[f.name]>>
  <2>1. IsList(one) /\ ToSet(one) = {cfg.columns[f.name]}
    BY SingleList
  <2>2. Said(cfg, f) = <<f.tag>> \o one
    BY <1>2 DEF Said
  <2> HIDE DEF one
  <2>3. ToSet(Said(cfg, f)) = {f.tag} \cup {cfg.columns[f.name]}
    BY <1>1, <2>1, <2>2, ListsJoined
  <2> QED
    BY <1>2, <2>3
<1>3. CASE f.name \notin DOMAIN cfg.columns
  <2>1. Said(cfg, f) = <<f.tag>> \o <<>>
    BY <1>3 DEF Said
  <2>2. ToSet(Said(cfg, f)) = {f.tag} \cup {}
    BY <1>1, <2>1, EmptyList, ListsJoined
  <2> QED
    BY <1>3, <2>2
<1> QED
  BY <1>2, <1>3

\* What is in a flattened list of lists.
LEMMA FlattenedIs ==
  ASSUME NEW n \in Nat, NEW ss, ss = [i \in 1 .. n |-> ss[i]], \A i \in 1 .. n : IsList(ss[i])
  PROVE  /\ IsList(FlattenSeq(ss))
         /\ \A c : c \in ToSet(FlattenSeq(ss)) <=> \E i \in 1 .. n : c \in ToSet(ss[i])
<1>1. IsList(ss) /\ ToSet(ss) = {ss[i] : i \in 1 .. n}
  BY MapIsList
<1>2. \A s \in ToSet(ss) : IsList(s)
  BY <1>1
<1>3. IsList(FlattenSeq(ss)) /\ ToSet(FlattenSeq(ss)) \subseteq UNION {ToSet(s) : s \in ToSet(ss)}
  BY <1>1, <1>2, ListsFlattened
<1>4. \A s \in ToSet(ss) : ToSet(s) \subseteq ToSet(FlattenSeq(ss))
  BY <1>1, <1>2, AllFlattened
<1> QED
  BY <1>1, <1>3, <1>4

\* tableConfigToSchema sees every constraint that is given, and nothing else.
LEMMA GivenAreListed ==
  ASSUME NEW configs \in Declared, NEW t \in DOMAIN configs, NEW cfg, cfg = configs[t],
         NEW visit \in SetToSeqs(DOMAIN cfg.columns),
         NEW cols, cols = [j \in DOMAIN visit |-> KeysOf(visit[j], cfg.columns[visit[j]])],
         NEW L, L = TagConstraints(cfg.fields) \o FlattenSeq(cols) \o cfg.constraints
  PROVE  IsList(L) /\ ToSet(L) = Given(cfg)
<1> DEFINE tags == [i \in DOMAIN cfg.fields |-> KeysOf(cfg.fields[i].name, cfg.fields[i].tag)]
           n    == Len(cfg.fields)
<1>1. /\ IsList(cfg.fields) /\ IsList(cfg.constraints)
      /\ DOMAIN cfg.columns \subseteq {f.name : f \in ToSet(cfg.fields)}
      /\ IsFiniteSet(DOMAIN cfg.columns)
  BY ConfigIs
<1>2. /\ n \in Nat /\ DOMAIN cfg.fields = 1 .. n
      /\ \A i \in 1 .. n : cfg.fields[i] \in ToSet(cfg.fields)
      /\ \A f \in ToSet(cfg.fields) : \E i \in 1 .. n : cfg.fields[i] = f
  <2> DEFINE F == cfg.fields
  <2>1. IsList(F)
    BY <1>1
  <2> HIDE DEF F
  <2>2. /\ Len(F) \in Nat /\ DOMAIN F = 1 .. Len(F)
        /\ \A i \in 1 .. Len(F) : F[i] \in ToSet(F)
        /\ \A f \in ToSet(F) : \E i \in 1 .. Len(F) : F[i] = f
    BY <2>1, ListLength
  <2> QED
    BY <2>2 DEF F
<1>3. PICK m \in Nat : /\ DOMAIN visit = 1 .. m
                       /\ \A x : x \in DOMAIN cfg.columns <=> \E j \in 1 .. m : visit[j] = x
  <2> DEFINE D == DOMAIN cfg.columns
  <2>1. IsFiniteSet(D) /\ visit \in SetToSeqs(D)
    BY <1>1
  <2> HIDE DEF D
  <2>2. \E m \in Nat : /\ DOMAIN visit = 1 .. m
                       /\ \A x : x \in D <=> \E j \in 1 .. m : visit[j] = x
    BY <2>1, VisitsAll
  <2> QED
    BY <2>2 DEF D
<1>4. /\ IsList(TagConstraints(cfg.fields))
      /\ \A c : c \in ToSet(TagConstraints(cfg.fields)) <=>
           \E i \in 1 .. n : c \in ToSet(KeysOf(cfg.fields[i].name, cfg.fields[i].tag))
  <2>1. TagConstraints(cfg.fields) = FlattenSeq(tags)
    BY DEF TagConstraints
  <2>2. tags = [i \in 1 .. n |-> tags[i]] /\ \A i \in 1 .. n : tags[i] = KeysOf(cfg.fields[i].name, cfg.fields[i].tag)
    BY <1>2
  <2>3. \A i \in 1 .. n : IsList(tags[i])
    BY <2>2, KeysAreLists
  <2> HIDE DEF tags
  <2>4. /\ IsList(FlattenSeq(tags))
        /\ \A c : c \in ToSet(FlattenSeq(tags)) <=> \E i \in 1 .. n : c \in ToSet(tags[i])
    BY <1>2, <2>2, <2>3, FlattenedIs
  <2> QED
    BY <2>1, <2>2, <2>4
<1>5. /\ IsList(FlattenSeq(cols))
      /\ \A c : c \in ToSet(FlattenSeq(cols)) <=>
           \E j \in 1 .. m : c \in ToSet(KeysOf(visit[j], cfg.columns[visit[j]]))
  <2>1. cols = [j \in 1 .. m |-> cols[j]] /\ \A j \in 1 .. m : cols[j] = KeysOf(visit[j], cfg.columns[visit[j]])
    BY <1>3
  <2>2. \A j \in 1 .. m : IsList(cols[j])
    BY <2>1, KeysAreLists
  <2>3. \A c : c \in ToSet(FlattenSeq(cols)) <=> \E j \in 1 .. m : c \in ToSet(cols[j])
    BY <2>1, <2>2, FlattenedIs
  <2>4. IsList(FlattenSeq(cols))
    BY <2>1, <2>2, FlattenedIs
  <2> QED
    BY <2>1, <2>3, <2>4
<1>6. IsList(L) /\ ToSet(L) = (ToSet(TagConstraints(cfg.fields)) \cup ToSet(FlattenSeq(cols))) \cup ToSet(cfg.constraints)
  BY <1>1, <1>4, <1>5, ListsJoined
<1>7. ASSUME NEW c
      PROVE  c \in Given(cfg) <=>
               \/ c \in ToSet(cfg.constraints)
               \/ \E f \in ToSet(cfg.fields) : c \in ToSet(KeysOf(f.name, f.tag))
               \/ \E x \in DOMAIN cfg.columns : c \in ToSet(KeysOf(x, cfg.columns[x]))
  <2>1. c \in Given(cfg) <=>
          \/ c \in ToSet(cfg.constraints)
          \/ \E f \in ToSet(cfg.fields) : \E says \in ToSet(Said(cfg, f)) : c \in ToSet(KeysOf(f.name, says))
    BY DEF Given
  <2>2. \A f : (\E says \in ToSet(Said(cfg, f)) : c \in ToSet(KeysOf(f.name, says))) <=>
           \/ c \in ToSet(KeysOf(f.name, f.tag))
           \/ f.name \in DOMAIN cfg.columns /\ c \in ToSet(KeysOf(f.name, cfg.columns[f.name]))
    BY SaidIs
  <2>3. \A x \in DOMAIN cfg.columns : \E f \in ToSet(cfg.fields) : x = f.name
    BY <1>1
  <2> QED
    BY <2>1, <2>2, <2>3
<1>8. ASSUME NEW c PROVE c \in ToSet(L) <=> c \in Given(cfg)
  <2>1. c \in ToSet(TagConstraints(cfg.fields)) <=> \E f \in ToSet(cfg.fields) : c \in ToSet(KeysOf(f.name, f.tag))
    BY <1>2, <1>4
  <2>2. c \in ToSet(FlattenSeq(cols)) <=> \E x \in DOMAIN cfg.columns : c \in ToSet(KeysOf(x, cfg.columns[x]))
    BY <1>3, <1>5
  <2> QED
    BY <1>6, <1>7, <2>1, <2>2
<1> QED
  BY <1>6, <1>8

\* Tags and column configs say nothing but keys.
LEMMA GivenAreConstraints ==
  ASSUME NEW configs \in Declared, NEW t \in DOMAIN configs, NEW c \in Given(configs[t])
  PROVE  IsConstraint(c)
<1>1. \A d \in ToSet(configs[t].constraints) : IsConstraint(d)
  BY ConfigIs
<1>2. \A x, says : \A d \in ToSet(KeysOf(x, says)) : IsConstraint(d)
  BY KeysAreLists
<1> QED
  BY <1>1, <1>2 DEF Given

LEMMA LastGivenIs ==
  ASSUME NEW seq, DOMAIN seq \subseteq Nat, NEW i \in DOMAIN seq, seq[i] # NotGiven,
         \A j \in DOMAIN seq : seq[j] # NotGiven => j <= i
  PROVE  LastGiven(seq) = seq[i]
<1> DEFINE given == {j \in DOMAIN seq : seq[j] # NotGiven}
           k     == CHOOSE j \in given : \A l \in given : l <= j
<1>1. i \in given /\ \A j \in given : j <= i /\ j \in Nat
  OBVIOUS
<1>2. k \in given /\ \A l \in given : l <= k
  BY <1>1
<1>3. LastGiven(seq) = seq[k]
  BY <1>1 DEF LastGiven
<1> HIDE DEF k, given
<1>4. k = i
  BY <1>1, <1>2
<1> QED
  BY <1>3, <1>4

LEMMA NoneGiven ==
  ASSUME NEW seq, \A i \in DOMAIN seq : seq[i] = NotGiven
  PROVE  LastGiven(seq) = NotGiven
<1>1. {i \in DOMAIN seq : seq[i] # NotGiven} = {}
  OBVIOUS
<1> QED
  BY <1>1 DEF LastGiven

LEMMA LastOfThree ==
  ASSUME NEW seq, DOMAIN seq = {1, 2, 3}
  PROVE  LastGiven(seq) = IF seq[3] # NotGiven THEN seq[3]
                          ELSE IF seq[2] # NotGiven THEN seq[2] ELSE seq[1]
<1>1. CASE seq[3] # NotGiven
  <2>1. 3 \in DOMAIN seq /\ DOMAIN seq \subseteq Nat /\ \A j \in DOMAIN seq : seq[j] # NotGiven => j <= 3
    BY <1>1
  <2> QED
    BY <1>1, <2>1, LastGivenIs
<1>2. CASE seq[3] = NotGiven /\ seq[2] # NotGiven
  <2>1. 2 \in DOMAIN seq /\ DOMAIN seq \subseteq Nat /\ \A j \in DOMAIN seq : seq[j] # NotGiven => j <= 2
    BY <1>2
  <2> QED
    BY <1>2, <2>1, LastGivenIs
<1>3. CASE seq[3] = NotGiven /\ seq[2] = NotGiven /\ seq[1] # NotGiven
  <2>1. 1 \in DOMAIN seq /\ DOMAIN seq \subseteq Nat /\ \A j \in DOMAIN seq : seq[j] # NotGiven => j <= 1
    BY <1>3
  <2> QED
    BY <1>3, <2>1, LastGivenIs
<1>4. CASE seq[3] = NotGiven /\ seq[2] = NotGiven /\ seq[1] = NotGiven
  BY <1>4, NoneGiven
<1> QED
  BY <1>1, <1>2, <1>3, <1>4

LEMMA LastOfTwo ==
  ASSUME NEW seq, DOMAIN seq = {1, 2}
  PROVE  LastGiven(seq) = IF seq[2] # NotGiven THEN seq[2] ELSE seq[1]
<1>1. CASE seq[2] # NotGiven
  <2>1. 2 \in DOMAIN seq /\ DOMAIN seq \subseteq Nat /\ \A j \in DOMAIN seq : seq[j] # NotGiven => j <= 2
    BY <1>1
  <2> QED
    BY <1>1, <2>1, LastGivenIs
<1>2. CASE seq[2] = NotGiven /\ seq[1] # NotGiven
  <2>1. 1 \in DOMAIN seq /\ DOMAIN seq \subseteq Nat /\ \A j \in DOMAIN seq : seq[j] # NotGiven => j <= 1
    BY <1>2
  <2> QED
    BY <1>2, <2>1, LastGivenIs
<1>3. CASE seq[2] = NotGiven /\ seq[1] = NotGiven
  BY <1>3, NoneGiven
<1> QED
  BY <1>1, <1>2, <1>3

LEMMA LastOfOne ==
  ASSUME NEW seq, DOMAIN seq = {1}
  PROVE  LastGiven(seq) = seq[1]
<1>1. CASE seq[1] # NotGiven
  <2>1. 1 \in DOMAIN seq /\ DOMAIN seq \subseteq Nat /\ \A j \in DOMAIN seq : seq[j] # NotGiven => j <= 1
    BY <1>1
  <2> QED
    BY <1>1, <2>1, LastGivenIs
<1>2. CASE seq[1] = NotGiven
  BY <1>2, NoneGiven
<1> QED
  BY <1>1, <1>2

\* One element in front of a list.
LEMMA InFront ==
  ASSUME NEW x, NEW n \in Nat, NEW s, s = [i \in 1 .. n |-> s[i]]
  PROVE  /\ DOMAIN (<<x>> \o s) = 1 .. n + 1
         /\ (<<x>> \o s)[1] = x
         /\ \A i \in 1 .. n : (<<x>> \o s)[i + 1] = s[i]
<1> DEFINE T == ToSet(s) \cup {x}
<1>1. s \in Seq(T) /\ Len(s) = n
  <2>1. IsList(s) /\ Len(s) = n
    BY MapIsList
  <2> QED
    BY <2>1 DEF IsList
<1>2. <<x>> \in Seq(T) /\ Len(<<x>>) = 1 /\ <<x>>[1] = x
  OBVIOUS
<1> HIDE DEF T
<1> DEFINE c == <<x>> \o s
<1>0. 1 \in 1 .. 1 + n /\ \A i \in 1 .. n : i + 1 \in 1 .. 1 + n /\ ~(i + 1 <= 1) /\ (i + 1) - 1 = i
  OBVIOUS
<1>3. Len(c) = 1 + n /\ c \in Seq(T) /\ \A i \in 1 .. 1 + n : c[i] = IF i <= 1 THEN <<x>>[i] ELSE s[i - 1]
  BY <1>1, <1>2, ConcatProperties
<1> HIDE DEF c
<1>4. DOMAIN c = 1 .. n + 1
  BY <1>3
<1>5. c[1] = x
  <2>1. c[1] = IF 1 <= 1 THEN <<x>>[1] ELSE s[1 - 1]
    BY <1>0, <1>3
  <2>2. 1 <= 1
    OBVIOUS
  <2> QED
    BY <1>2, <2>1, <2>2
<1>6. \A i \in 1 .. n : c[i + 1] = s[i]
  BY <1>0, <1>3
<1> QED
  BY <1>4, <1>5, <1>6 DEF c

\* The config of a column overrides its tag, and the tag its type in Go.
LEMMA OverriddenAsMeant ==
  ASSUME NEW cfg, NEW f
  PROVE  MeantColumn(cfg, f) = IF f.name \in DOMAIN cfg.columns
                               THEN Overridden(FieldColumn(f), cfg.columns[f.name])
                               ELSE FieldColumn(f)
<1> DEFINE said     == Said(cfg, f)
           types    == [i \in DOMAIN said |-> said[i].type]
           defaults == [i \in DOMAIN said |-> said[i].default]
           tag      == f.tag
           base     == [type    |-> IF tag.type = NotGiven THEN f.type ELSE tag.type,
                        notNull |-> ~f.nullable \/ tag.notNull \/ tag.pk,
                        default |-> IF tag.default = NotGiven THEN NotGiven ELSE tag.default,
                        mode    |-> f.mode]
<1>1. MeantColumn(cfg, f) = [type    |-> LastGiven(<<f.type>> \o types),
                             notNull |-> ~f.nullable \/ \E i \in DOMAIN said : said[i].notNull \/ said[i].pk,
                             default |-> LastGiven(defaults),
                             mode    |-> f.mode]
  BY DEF MeantColumn
<1>2. FieldColumn(f) = base
  <2> DEFINE open == ~f.nullable
             bare == [type |-> f.type, notNull |-> open, default |-> NotGiven, mode |-> f.mode]
  <2>1. FieldColumn(f) = Overridden(bare, tag)
    BY DEF FieldColumn
  <2> HIDE DEF open
  <2>2. Overridden(bare, tag) = [type    |-> IF tag.type = NotGiven THEN f.type ELSE tag.type,
                                 notNull |-> open \/ tag.notNull \/ tag.pk,
                                 default |-> IF tag.default = NotGiven THEN NotGiven ELSE tag.default,
                                 mode    |-> f.mode]
    BY OverriddenIs
  <2> QED
    BY <2>1, <2>2 DEF open
<1>3. CASE f.name \in DOMAIN cfg.columns
  <2> DEFINE col == cfg.columns[f.name]
             one == <<col>>
  <2>1. said = <<tag>> \o one
    BY <1>3 DEF Said
  <2>2. one = [i \in 1 .. 1 |-> one[i]] /\ one[1] = col
    OBVIOUS
  <2> HIDE DEF one, said
  <2>3. DOMAIN said = 1 .. 1 + 1 /\ said[1] = tag /\ said[1 + 1] = col
    BY <2>1, <2>2, InFront
  <2>4. DOMAIN said = 1 .. 2 /\ said[1] = tag /\ said[2] = col
    BY <2>3
  <2>5. /\ types = [i \in 1 .. 2 |-> types[i]] /\ types[1] = tag.type /\ types[2] = col.type
        /\ DOMAIN defaults = {1, 2} /\ defaults[1] = tag.default /\ defaults[2] = col.default
    BY <2>4
  <2> HIDE DEF types, defaults
  <2> DEFINE all == <<f.type>> \o types
  <2>6. DOMAIN all = 1 .. 2 + 1 /\ all[1] = f.type /\ all[1 + 1] = tag.type /\ all[2 + 1] = col.type
    BY <2>5, InFront
  <2>7. DOMAIN all = {1, 2, 3} /\ all[1] = f.type /\ all[2] = tag.type /\ all[3] = col.type
    BY <2>6
  <2> HIDE DEF all
  <2>8. LastGiven(all) = IF col.type # NotGiven THEN col.type
                         ELSE IF tag.type # NotGiven THEN tag.type ELSE f.type
    BY <2>7, LastOfThree
  <2>9. LastGiven(defaults) = IF col.default # NotGiven THEN col.default ELSE tag.default
    BY <2>5, LastOfTwo
  <2>10. (~f.nullable \/ \E i \in DOMAIN said : said[i].notNull \/ said[i].pk)
          = ((~f.nullable \/ tag.notNull \/ tag.pk) \/ col.notNull \/ col.pk)
    BY <2>4
  <2> DEFINE a       == IF tag.type = NotGiven THEN f.type ELSE tag.type
             b       == ~f.nullable \/ tag.notNull \/ tag.pk
             d       == IF tag.default = NotGiven THEN NotGiven ELSE tag.default
             type    == IF col.type = NotGiven THEN a ELSE col.type
             open    == b \/ col.notNull \/ col.pk
             default == IF col.default = NotGiven THEN d ELSE col.default
  <2>11. LastGiven(all) = type /\ LastGiven(defaults) = default
    BY <2>8, <2>9
  <2>12. MeantColumn(cfg, f) = [type |-> type, notNull |-> open, default |-> default, mode |-> f.mode]
    <3> HIDE DEF type, default
    <3> QED
      BY <1>1, <2>10, <2>11, Zenon DEF all
  <2>13. base = [type |-> a, notNull |-> b, default |-> d, mode |-> f.mode]
    OBVIOUS
  <2> HIDE DEF a, b, d, base
  <2>14. Overridden(base, col) = [type |-> type, notNull |-> open, default |-> default, mode |-> f.mode]
    BY <2>13, OverriddenIs
  <2> HIDE DEF type, open, default
  <2> QED
    BY <1>2, <1>3, <2>12, <2>14
<1>4. CASE f.name \notin DOMAIN cfg.columns
  <2>1. said = <<tag>> \o <<>>
    BY <1>4 DEF Said
  <2>2. <<>> = [i \in 1 .. 0 |-> <<>>[i]]
    BY NoNames
  <2> HIDE DEF said
  <2>3. DOMAIN said = 1 .. 0 + 1 /\ said[1] = tag
    BY <2>1, <2>2, InFront
  <2>4. DOMAIN said = 1 .. 1 /\ said[1] = tag
    BY <2>3
  <2>5. /\ types = [i \in 1 .. 1 |-> types[i]] /\ types[1] = tag.type
        /\ DOMAIN defaults = {1} /\ defaults[1] = tag.default
    BY <2>4
  <2> HIDE DEF types, defaults
  <2> DEFINE all == <<f.type>> \o types
  <2>6. DOMAIN all = 1 .. 1 + 1 /\ all[1] = f.type /\ all[1 + 1] = tag.type
    BY <2>5, InFront
  <2>7. DOMAIN all = {1, 2} /\ all[1] = f.type /\ all[2] = tag.type
    BY <2>6
  <2> HIDE DEF all
  <2>8. LastGiven(all) = IF tag.type # NotGiven THEN tag.type ELSE f.type
    BY <2>7, LastOfTwo
  <2>9. LastGiven(defaults) = tag.default
    BY <2>5, LastOfOne
  <2>10. (~f.nullable \/ \E i \in DOMAIN said : said[i].notNull \/ said[i].pk)
          = (~f.nullable \/ tag.notNull \/ tag.pk)
    BY <2>4
  <2> QED
    BY <1>1, <1>2, <1>4, <2>8, <2>9, <2>10 DEF all
<1> QED
  BY <1>3, <1>4

\* Whatever the order in which the configs of the columns are visited.
LEMMA TableMeant ==
  ASSUME NEW configs \in Declared, NEW t \in DOMAIN configs, NEW cfg, cfg = configs[t],
         MeansOneEach(cfg), NEW visit \in SetToSeqs(DOMAIN cfg.columns)
  PROVE  TableFromConfig(cfg, visit).ok = TRUE /\ TableFromConfig(cfg, visit).table = Meant(cfg)
<1> DEFINE names   == {f.name : f \in ToSet(cfg.fields)}
           pick(x) == CHOOSE f \in ToSet(cfg.fields) : f.name = x
           columns == [x \in names |-> IF x \in DOMAIN cfg.columns
                                       THEN Overridden(FieldColumn(pick(x)), cfg.columns[x])
                                       ELSE FieldColumn(pick(x))]
           meant   == [x \in names |-> MeantColumn(cfg, pick(x))]
           cols    == [j \in DOMAIN visit |-> KeysOf(visit[j], cfg.columns[visit[j]])]
           L       == TagConstraints(cfg.fields) \o FlattenSeq(cols) \o cfg.constraints
           list    == Merged(L).list
<1>1. TableFromConfig(cfg, visit) =
        [ok    |-> Merged(L).ok,
         table |-> [columns |-> columns, constraints |-> ToSet(list), indexes |-> cfg.indexes]]
  BY DEF TableFromConfig
<1>2. Meant(cfg) = [columns |-> meant, constraints |-> MeantConstraints(cfg), indexes |-> cfg.indexes]
  BY DEF Meant
<1>3. IsList(L) /\ ToSet(L) = Given(cfg)
  <2> HIDE DEF L
  <2>1. L = TagConstraints(cfg.fields) \o FlattenSeq(cols) \o cfg.constraints
    BY DEF L
  <2> HIDE DEF cols
  <2>2. cols = [j \in DOMAIN visit |-> KeysOf(visit[j], cfg.columns[visit[j]])]
    BY DEF cols
  <2> QED
    BY <2>1, <2>2, GivenAreListed
<1> HIDE DEF L
<1>4. \A c \in Given(cfg) : IsConstraint(c)
  BY GivenAreConstraints
<1>5. OneNameEach(ToSet(L))
  BY <1>3, <1>4, MeansOneName
<1>6. Merged(L).ok = TRUE /\ Stands(list, Given(cfg))
  BY <1>3, <1>5, MergedStands
<1> HIDE DEF list
<1>7. ToSet(list) = MeantConstraints(cfg)
  BY <1>4, <1>6, StandsAsMeant
<1>8. columns = meant
  <2>1. ASSUME NEW x \in names PROVE columns[x] = meant[x]
    <3>1. pick(x).name = x
      OBVIOUS
    <3>2. columns[x] = IF x \in DOMAIN cfg.columns
                       THEN Overridden(FieldColumn(pick(x)), cfg.columns[x])
                       ELSE FieldColumn(pick(x))
      OBVIOUS
    <3>3. meant[x] = MeantColumn(cfg, pick(x))
      OBVIOUS
    <3> HIDE DEF pick, columns, meant
    <3> QED
      BY <3>1, <3>2, <3>3, OverriddenAsMeant
  <2>2. columns = [x \in names |-> columns[x]] /\ meant = [x \in names |-> meant[x]]
    OBVIOUS
  <2> HIDE DEF columns, meant
  <2> QED
    BY <2>1, <2>2
<1> HIDE DEF columns, meant
<1> QED
  BY <1>1, <1>2, <1>6, <1>7, <1>8

LEMMA SomeVisit ==
  ASSUME NEW configs, NEW s \in DesiredSchemas(configs), NEW t \in DOMAIN configs
  PROVE  \E visit \in SetToSeqs(DOMAIN configs[t].columns) : s[t] = TableFromConfig(configs[t], visit)
BY DEF DesiredSchemas

\* A schema function does not panic and returns what the configs mean, in
\* whichever order the configs of the columns are visited, wherever a key is
\* declared (in a tag, the config of a column or a list) and wherever its name
\* is given, as long as nothing is given two names.  What the configs say of the
\* version table does not matter.
THEOREM DeclaresWhatItMeans ==
  ASSUME NEW configs \in Declared, NEW s \in DesiredSchemas(configs),
         \A t \in DOMAIN configs \ {VersionTable} : MeansOneEach(configs[t])
  PROVE  /\ \A t \in DOMAIN s : MeansOneEach(configs[t]) => s[t].ok = TRUE
         /\ WithoutVersionTable([t \in DOMAIN s |-> s[t].table]) = Meaning(configs)
<1>1. DOMAIN s = DOMAIN configs
  BY DEF DesiredSchemas
<1>2. ASSUME NEW t \in DOMAIN configs, MeansOneEach(configs[t])
      PROVE  s[t].ok = TRUE /\ s[t].table = Meant(configs[t])
  <2>1. PICK visit \in SetToSeqs(DOMAIN configs[t].columns) : s[t] = TableFromConfig(configs[t], visit)
    BY SomeVisit
  <2> DEFINE cfg == configs[t]
  <2>2. MeansOneEach(cfg) /\ visit \in SetToSeqs(DOMAIN cfg.columns) /\ s[t] = TableFromConfig(cfg, visit)
    BY <1>2, <2>1
  <2> HIDE DEF cfg
  <2>3. cfg = configs[t]
    BY DEF cfg
  <2>4. TableFromConfig(cfg, visit).ok = TRUE /\ TableFromConfig(cfg, visit).table = Meant(cfg)
    BY <2>2, <2>3, TableMeant
  <2> QED
    BY <2>2, <2>3, <2>4
<1> DEFINE others == DOMAIN configs \ {VersionTable}
<1>3. /\ WithoutVersionTable([t \in DOMAIN s |-> s[t].table]) = [t \in others |-> s[t].table]
      /\ Meaning(configs) = [t \in others |-> Meant(configs[t])]
  BY <1>1 DEF WithoutVersionTable, Restrict, Meaning
<1>4. \A t \in others : s[t].table = Meant(configs[t])
  BY <1>2
<1> QED
  BY <1>1, <1>2, <1>3, <1>4

-----------------------------------------------------------------------------
(* Revisions within reach.                                                 *)

\* The version table comes and goes without a trace.
LEMMA WithAndWithout ==
  ASSUME NEW cat, CatalogOK(cat), NEW rest, rest = WithoutVersionTable(cat)
  PROVE  WithTable(rest) = WithTable(cat)
<1>1. /\ DOMAIN rest = DOMAIN cat \ {VersionTable} /\ \A t \in DOMAIN rest : rest[t] = cat[t]
      /\ rest = [t \in DOMAIN rest |-> rest[t]]
  BY DEF WithoutVersionTable, Restrict
<1>2. cat = [t \in DOMAIN cat |-> cat[t]] /\ (VersionTable \in DOMAIN cat => cat[VersionTable] = VersionTableDef)
  BY DEF CatalogOK
<1>3. CASE VersionTable \notin DOMAIN cat
  BY <1>1, <1>2, <1>3
<1>4. CASE VersionTable \in DOMAIN cat
  <2>1. WithTable(cat) = cat
    BY <1>4 DEF WithTable
  <2>2. WithTable(rest) = [t \in DOMAIN rest \cup {VersionTable} |-> IF t = VersionTable THEN VersionTableDef ELSE rest[t]]
    BY <1>1 DEF WithTable, Extended
  <2>3. DOMAIN rest \cup {VersionTable} = DOMAIN cat
    BY <1>1, <1>4
  <2>4. WithTable(rest) = [t \in DOMAIN cat |-> cat[t]]
    BY <1>1, <1>2, <1>4, <2>2, <2>3
  <2> QED
    BY <1>2, <2>1, <2>4
<1> QED
  BY <1>3, <1>4

LEMMA WithoutAgain ==
  ASSUME NEW cat, CatalogOK(cat), VersionTable \notin DOMAIN cat, NEW with, with = WithTable(cat)
  PROVE  WithoutVersionTable(with) = cat
<1>1. cat = [t \in DOMAIN cat |-> cat[t]]
  BY DEF CatalogOK
<1>2. with = [t \in DOMAIN cat \cup {VersionTable} |-> IF t = VersionTable THEN VersionTableDef ELSE cat[t]]
  BY DEF WithTable, Extended
<1>3. WithoutVersionTable(with) = [t \in DOMAIN with \ {VersionTable} |-> with[t]]
  BY DEF WithoutVersionTable, Restrict
<1>4. DOMAIN with \ {VersionTable} = DOMAIN cat /\ \A t \in DOMAIN cat : with[t] = cat[t]
  BY <1>2
<1> QED
  BY <1>1, <1>3, <1>4

\* No foreign key in the version table, none that refers to it.
LEMMA RefersAgain ==
  ASSUME NEW cat, CatalogOK(cat), NEW rest, rest = WithoutVersionTable(cat), RefersToConstraints(rest)
  PROVE  RefersToConstraints(cat)
<1>1. DOMAIN rest = DOMAIN cat \ {VersionTable} /\ \A t \in DOMAIN rest : rest[t] = cat[t]
  BY DEF WithoutVersionTable, Restrict
<1>2. VersionTable \in DOMAIN cat => cat[VersionTable].constraints = {}
  <2>1. VersionTable \in DOMAIN cat => cat[VersionTable] = VersionTableDef
    BY DEF CatalogOK
  <2>2. VersionTableDef.constraints = {}
    BY DEF VersionTableDef
  <2> QED
    BY <2>1, <2>2
<1> QED
  BY <1>1, <1>2 DEF RefersToConstraints, HasConstraint

LEMMA NothingConsistent == Consistent(<<>>) /\ WithoutVersionTable(<<>>) = <<>> /\ VersionTable \notin DOMAIN <<>>
<1>1. DOMAIN <<>> = {} /\ CatalogOK(<<>>) /\ Sound(<<>>)
  BY NoNames, EmptyCatalog
<1>2. \A t : t \notin DOMAIN <<>>
  BY <1>1
<1>3. Consistent(<<>>)
  BY <1>1, <1>2 DEF Consistent, Sound, RefersToConstraints
<1>4. WithoutVersionTable(<<>>) = [t \in DOMAIN <<>> \ {VersionTable} |-> <<>>[t]]
  BY DEF WithoutVersionTable, Restrict
<1>5. WithoutVersionTable(<<>>) = <<>>
  BY <1>1, <1>4
<1> QED
  BY <1>1, <1>3, <1>5

\* What a config means is made of what a diff looks at.
LEMMA MeantParts ==
  ASSUME NEW configs \in Declared, NEW t \in DOMAIN configs, NEW table, table = Meant(configs[t])
  PROVE  /\ IsTable(table)
         /\ \A x \in DOMAIN table.columns : IsColumn(table.columns[x])
         /\ \A c \in table.constraints : IsConstraint(c)
         /\ \A x \in DOMAIN table.indexes : IsIndex(table.indexes[x])
<1> DEFINE cfg     == configs[t]
           names   == {f.name : f \in ToSet(cfg.fields)}
           pick(x) == CHOOSE f \in ToSet(cfg.fields) : f.name = x
           columns == [x \in names |-> MeantColumn(cfg, pick(x))]
<1>1. table = [columns |-> columns, constraints |-> MeantConstraints(cfg), indexes |-> cfg.indexes]
  BY DEF Meant
<1>2. ASSUME NEW f PROVE IsColumn(MeantColumn(cfg, f))
  BY DEF MeantColumn, IsColumn
<1>3. DOMAIN columns = names /\ \A x \in names : columns[x] = MeantColumn(cfg, pick(x))
  OBVIOUS
<1>4. \A c \in MeantConstraints(cfg) : IsConstraint(c)
  BY MeantAre, GivenAreConstraints
<1>5. \A x \in DOMAIN cfg.indexes : IsIndex(cfg.indexes[x])
  BY ConfigIs
<1> HIDE DEF columns, pick, names
<1>6. /\ table.columns = columns /\ table.constraints = MeantConstraints(cfg) /\ table.indexes = cfg.indexes
      /\ IsTable(table)
  BY <1>1 DEF IsTable
<1>7. \A x \in DOMAIN columns : IsColumn(columns[x])
  BY <1>2, <1>3
<1> QED
  BY <1>4, <1>5, <1>6, <1>7

LEMMA MeaningShaped ==
  ASSUME NEW configs \in Declared, NEW s \in DesiredSchemas(configs),
         \A t \in DOMAIN configs \ {VersionTable} : MeansOneEach(configs[t])
  PROVE  Shaped(Meaning(configs)) /\ VersionTable \notin DOMAIN Meaning(configs)
<1> DEFINE whole == [t \in DOMAIN s |-> s[t].table]
<1>1. Shaped(whole) /\ WithoutVersionTable(whole) = Meaning(configs)
  BY DesiredShaped, DeclaresWhatItMeans
<1> HIDE DEF whole
<1> QED
  BY <1>1, VersionTableLeftOut

\* A catalog that PostgreSQL can hold is consistent without the version table,
\* to which no foreign key can refer.
LEMMA RestConsistent ==
  ASSUME NEW cat, CatalogOK(cat), Sound(cat), NEW rest, rest = WithoutVersionTable(cat),
         RefersToConstraints(rest)
  PROVE  Consistent(rest) /\ VersionTable \notin DOMAIN rest
<1>1. /\ DOMAIN rest = DOMAIN cat \ {VersionTable} /\ \A t \in DOMAIN rest : rest[t] = cat[t]
      /\ rest = [t \in DOMAIN rest |-> rest[t]]
  BY DEF WithoutVersionTable, Restrict
<1>2. (\A t \in DOMAIN cat : SoundTable(t, cat[t])) /\ NamesOnce(cat) /\ KeysServed(cat) /\ Shaped(cat)
  BY SoundParts DEF Sound
<1>3. FiniteSchema(rest)
  BY <1>2, VersionTableLeftOut DEF Shaped
<1>4. KeysServed(rest)
  <2> SUFFICES ASSUME NEW t \in DOMAIN rest, NEW c \in rest[t].constraints, c.kind = "fk"
               PROVE  c.ref \in DOMAIN rest /\ KeyIn(rest[c.ref], Referred(c)) /\ TypesAgree(rest, t, c)
    BY DEF KeysServed
  <2>1. c.ref \in DOMAIN rest /\ KeyIn(rest[c.ref], Referred(c))
    BY DEF RefersToConstraints, HasConstraint, KeyIn
  <2>2. TypesAgree(cat, t, c)
    BY <1>1, <1>2 DEF KeysServed
  <2> QED
    BY <1>1, <2>1, <2>2 DEF TypesAgree
<1>5. NamesOnce(rest)
  BY <1>1, <1>2 DEF NamesOnce
<1>6. Sound(rest)
  BY <1>1, <1>2, <1>3, <1>4, <1>5, SoundParts
<1>7. CatalogOK(rest)
  BY <1>1, <1>3 DEF CatalogOK
<1> QED
  BY <1>1, <1>6, <1>7 DEF Consistent, Sound

-----------------------------------------------------------------------------
(* CarefulInv is inductive.                                                *)

\* What the theorems about careful revisions assume.
Prudent == Careful /\ \A configs \in Declared : WellDeclared(configs)

LEMMA NothingDone == Init => CarefulInv
<1> SUFFICES ASSUME Init PROVE CarefulInv
  OBVIOUS
<1>1. db = <<>> /\ migrations = <<>> /\ applied = 0 /\ reading = Idle /\ outcome = "none"
  BY DEF Init
<1>2. Len(migrations) = 0 /\ ToSet(migrations) = {} /\ 1 .. 0 = {} /\ 1 .. 0 - 1 = {}
  BY <1>1, EmptyList
<1>3. Linked
  BY <1>1, <1>2, NothingConsistent DEF Linked
<1> QED
  BY <1>1, <1>2, <1>3, InitOK DEF CarefulInv

\* The actions that only read.
LEMMA OnlyRead ==
  ASSUME CarefulInv, CatalogInv', UNCHANGED <<db, migrations, applied>>,
         outcome' \notin {"refused", "panicked"},
         reading' # Idle => applied = Len(migrations) /\ ~reading'.disturbed
  PROVE  CarefulInv'
<1>1. Linked'
  BY DEF CarefulInv, Linked
<1> QED
  BY <1>1 DEF CarefulInv

\* A query has returned.
LEMMA StillReading ==
  ASSUME CarefulInv, reading.query # 0, reading'.disturbed = reading.disturbed
  PROVE  applied = Len(migrations) /\ ~reading'.disturbed
<1>1. reading # Idle
  BY DEF Idle
<1> QED
  BY <1>1 DEF CarefulInv

LEMMA QueriesKeep ==
  ASSUME CarefulInv, Careful, CatalogInv',
         ReadTables \/ ReadColumns \/ ReadConstraints \/ ReadIndexMetadata \/ ReadIndexKeys
  PROVE  CarefulInv'
<1>1. UNCHANGED <<db, migrations, applied>> /\ outcome' \notin {"refused", "panicked"}
  BY DEF ReadTables, ReadColumns, ReadConstraints, ReadIndexMetadata, ReadIndexKeys, CarefulInv
<1>2. reading = [query     |-> reading.query,   tables    |-> reading.tables,
                 indexes   |-> reading.indexes, disturbed |-> reading.disturbed]
  BY DEF CarefulInv, CatalogInv, ReadingOK
<1>3. applied = Len(migrations) /\ ~reading'.disturbed
  <2>1. CASE ReadTables
    BY <2>1 DEF ReadTables, Idle
  <2>2. CASE ReadColumns
    <3>1. reading.query # 0 /\ reading'.disturbed = reading.disturbed
      BY <1>2, <2>2 DEF ReadColumns
    <3> QED
      BY <3>1, StillReading
  <2>3. CASE ReadConstraints
    <3>1. reading.query # 0 /\ reading'.disturbed = reading.disturbed
      BY <1>2, <2>3 DEF ReadConstraints
    <3> QED
      BY <3>1, StillReading
  <2>4. CASE ReadIndexMetadata
    <3>1. reading.query # 0 /\ reading'.disturbed = reading.disturbed
      BY <1>2, <2>4 DEF ReadIndexMetadata
    <3> QED
      BY <3>1, StillReading
  <2>5. CASE ReadIndexKeys
    <3>1. reading.query # 0 /\ reading'.disturbed = reading.disturbed
      BY <1>2, <2>5 DEF ReadIndexKeys
    <3> QED
      BY <3>1, StillReading
  <2> QED
    BY <2>1, <2>2, <2>3, <2>4, <2>5
<1> QED
  BY <1>1, <1>3, OnlyRead

\* Where the catalog is.
LEMMA WhereItIs ==
  ASSUME CarefulInv, NEW cat, cat = WithoutVersionTable(db)
  PROVE  /\ Len(migrations) \in Nat /\ DOMAIN migrations = 1 .. Len(migrations)
         /\ applied \in 0 .. Len(migrations)
         /\ 0 < applied => cat = After(migrations[applied])
         /\ Consistent(cat) /\ VersionTable \notin DOMAIN cat
         /\ WithTable(cat) = WithTable(db)
<1> DEFINE n == Len(migrations)
<1>1. n \in Nat /\ DOMAIN migrations = 1 .. n /\ applied \in 0 .. n
  <2>1. IsList(migrations)
    BY DEF CarefulInv, CatalogInv, MigrationsOK, IsList
  <2> QED
    BY <2>1, ListLength DEF CarefulInv, CatalogInv, TypeOK
<1>2. /\ \A k \in 1 .. n : LeadsThereAndBack(migrations[k])
      /\ \A k \in 1 .. n - 1 : migrations[k + 1].from = After(migrations[k])
      /\ cat = IF applied < n THEN migrations[applied + 1].from
               ELSE IF applied > 0 THEN After(migrations[applied]) ELSE <<>>
  BY DEF CarefulInv, Linked
<1>3. 0 < applied => cat = After(migrations[applied])
  <2>1. applied < n /\ 0 < applied => applied \in 1 .. n - 1
    BY <1>1
  <2>2. ~(applied < n) /\ 0 < applied => applied > 0
    BY <1>1
  <2> QED
    BY <1>2, <2>1, <2>2
<1>4. Consistent(cat)
  <2>1. CASE 0 < applied
    <3>1. applied \in 1 .. n
      BY <1>1, <2>1
    <3> QED
      BY <1>2, <1>3, <2>1, <3>1 DEF LeadsThereAndBack
  <2>2. CASE ~(0 < applied) /\ applied < n
    <3>1. applied + 1 \in 1 .. n
      BY <1>1, <2>2
    <3> QED
      BY <1>2, <2>2, <3>1 DEF LeadsThereAndBack
  <2>3. CASE ~(0 < applied) /\ ~(applied < n)
    <3>1. cat = <<>>
      BY <1>1, <1>2, <2>3
    <3> QED
      BY <3>1, NothingConsistent
  <2> QED
    BY <2>1, <2>2, <2>3
<1>5. CatalogOK(db)
  BY DEF CarefulInv, CatalogInv
<1>6. WithTable(cat) = WithTable(db)
  BY <1>5, WithAndWithout
<1>7. VersionTable \notin DOMAIN cat
  BY DEF WithoutVersionTable, Restrict
<1> QED
  BY <1>1, <1>3, <1>4, <1>6, <1>7

\* One command of the user.
LEMMA MovedOn ==
  ASSUME CarefulInv, CatalogInv', UNCHANGED migrations,
         NEW k \in 1 .. Len(migrations), NEW m, m = migrations[k],
         \/ applied' = k     /\ db' = WithTable(After(m))
         \/ applied' = k - 1 /\ db' = WithTable(m.from),
         outcome' \notin {"refused", "panicked"},
         reading' = Idle
  PROVE  CarefulInv'
<1> DEFINE n == Len(migrations)
<1>1. n \in Nat /\ k \in 1 .. n
  BY WhereItIs
<1>2. /\ \A j \in 1 .. n : LeadsThereAndBack(migrations[j])
      /\ \A j \in 1 .. n - 1 : migrations[j + 1].from = After(migrations[j])
  BY DEF CarefulInv, Linked
<1>3. /\ Consistent(m.from) /\ VersionTable \notin DOMAIN m.from
      /\ Consistent(After(m)) /\ VersionTable \notin DOMAIN After(m)
  <2>1. LeadsThereAndBack(m)
    BY <1>1, <1>2
  <2>2. VersionTable \notin DOMAIN After(m)
    BY DEF After, WithoutVersionTable, Restrict
  <2> QED
    BY <2>1, <2>2 DEF LeadsThereAndBack
<1>4. /\ WithoutVersionTable(WithTable(m.from)) = m.from
      /\ WithoutVersionTable(WithTable(After(m))) = After(m)
  BY <1>3, WithoutAgain DEF Consistent
<1>5. WithoutVersionTable(db') = IF applied' < n THEN migrations[applied' + 1].from
                                 ELSE IF applied' > 0 THEN After(migrations[applied'])
                                 ELSE <<>>
  <2>1. CASE applied' = k /\ db' = WithTable(After(m))
    <3>1. k < n => k \in 1 .. n - 1
      BY <1>1
    <3>2. k < n => migrations[k + 1].from = After(m)
      BY <1>2, <3>1
    <3>3. k > 0
      BY <1>1
    <3> QED
      BY <1>4, <2>1, <3>2, <3>3
  <2>2. CASE applied' = k - 1 /\ db' = WithTable(m.from)
    <3>1. k - 1 < n /\ (k - 1) + 1 = k
      BY <1>1
    <3> QED
      BY <1>4, <2>2, <3>1
  <2> QED
    BY <2>1, <2>2
<1>6. Linked'
  BY <1>2, <1>5 DEF Linked
<1>7. \A e \in ToSet(migrations) : e.configs \in Declared
  BY DEF CarefulInv
<1> QED
  BY <1>6, <1>7 DEF CarefulInv

LEMMA CommandsKeep ==
  ASSUME CarefulInv, Careful, CatalogInv', Up \/ Down
  PROVE  CarefulInv'
<1> DEFINE n   == Len(migrations)
           cat == WithoutVersionTable(db)
<1>1. /\ n \in Nat /\ applied \in 0 .. n
      /\ 0 < applied => cat = After(migrations[applied])
      /\ WithTable(cat) = WithTable(db)
  BY WhereItIs
<1>2. \A k \in 1 .. n : LeadsThereAndBack(migrations[k])
  BY DEF CarefulInv, Linked
<1>3. reading = Idle /\ reading' = Idle /\ UNCHANGED migrations
  BY DEF Up, Down, Disturb
<1>4. CASE Up
  <2> DEFINE m == migrations[applied + 1]
  <2>1. applied < n /\ Execute(m.up, applied + 1, "up")
    BY <1>4 DEF Up
  <2>2. applied + 1 \in 1 .. n
    BY <1>1, <2>1
  <2>3. cat = m.from
    BY <2>1 DEF CarefulInv, Linked
  <2>4. Run(WithTable(db), m.up) = [ok |-> TRUE, db |-> WithTable(After(m))]
    BY <1>1, <1>2, <2>2, <2>3 DEF LeadsThereAndBack, Reaches
  <2>5. db' = WithTable(After(m)) /\ applied' = applied + 1 /\ outcome' = "up"
    BY <2>1, <2>4 DEF Execute
  <2> QED
    BY <1>3, <2>2, <2>5, MovedOn
<1>5. CASE Down
  <2> DEFINE m == migrations[applied]
  <2>1. 0 < applied /\ Execute(m.down, applied - 1, "down")
    BY <1>5 DEF Down
  <2>2. applied \in 1 .. n
    BY <1>1, <2>1
  <2>3. Run(WithTable(db), m.down) = [ok |-> TRUE, db |-> WithTable(m.from)]
    BY <1>1, <1>2, <2>1, <2>2 DEF LeadsThereAndBack, Reaches
  <2>4. db' = WithTable(m.from) /\ applied' = applied - 1 /\ outcome' = "down"
    BY <2>1, <2>3 DEF Execute
  <2> QED
    BY <1>3, <2>2, <2>4, MovedOn
<1> QED
  BY <1>4, <1>5

\* A revision within reach.
LEMMA RevisionLeads ==
  ASSUME NEW cur, NEW des, InReach(cur, des), NEW steps, steps = MigrationSteps(cur, des),
         NEW m, m.up = UpStatements(steps), m.down = DownStatements(steps), m.from = cur,
         Meaning(m.configs) = des
  PROVE  LeadsThereAndBack(m)
<1> DEFINE goal == Goal(cur, des)
<1>1. /\ Reaches(WithTable(cur), m.up, WithTable(goal))
      /\ Reaches(WithTable(goal), m.down, WithTable(cur))
      /\ Agrees(goal, des) /\ Consistent(goal) /\ SaysOnce(goal)
  BY MigrationComesAndGoes
<1>2. VersionTable \notin DOMAIN goal
  BY GoalConsistent
<1> HIDE DEF goal
<1>3. After(m) = goal
  <2>1. Run(WithTable(m.from), m.up).db = WithTable(goal)
    BY <1>1 DEF Reaches
  <2>2. CatalogOK(goal)
    BY <1>1 DEF Consistent
  <2> QED
    BY <1>2, <2>1, <2>2, WithoutAgain DEF After
<1>4. Consistent(cur) /\ VersionTable \notin DOMAIN cur
  BY DEF InReach
<1> QED
  BY <1>1, <1>3, <1>4 DEF LeadsThereAndBack

\* The tables that are compared mean each constraint once if the schema does.
LEMMA MeansOneEachIf ==
  ASSUME NEW configs, SaysOnce(Meaning(configs)), NEW t \in DOMAIN configs \ {VersionTable}
  PROVE  MeansOneEach(configs[t])
<1>1. t \in DOMAIN Meaning(configs) /\ Meaning(configs)[t] = Meant(configs[t])
  BY DEF Meaning, WithoutVersionTable, Restrict
<1>2. Meant(configs[t]).constraints = MeantConstraints(configs[t])
  BY DEF Meant
<1> QED
  BY <1>1, <1>2 DEF SaysOnce, MeansOneEach

LEMMA LastAppended ==
  ASSUME NEW list, IsList(list), NEW e
  PROVE  Last(Append(list, e)) = e
<1> DEFINE more == Append(list, e)
           S    == ToSet(list) \cup {e}
<1>1. list \in Seq(S)
  BY DEF IsList
<1>2. Len(more) = Len(list) + 1 /\ more[Len(list) + 1] = e
  BY <1>1, AppendProperties
<1> HIDE DEF more
<1> QED
  BY <1>2 DEF Last, more

\* The migration that is made by a revision that reads in peace.
LEMMA RevisionMade ==
  ASSUME CatalogInv, NEW configs \in Declared, Revise(configs), ~reading.disturbed,
         NEW cat, cat = WithoutVersionTable(db), RefersToConstraints(cat),
         \A t \in DOMAIN configs \ {VersionTable} : MeansOneEach(configs[t]),
         NEW des, des = Meaning(configs), NEW steps, steps = MigrationSteps(cat, des)
  PROVE  /\ Shaped(des) /\ VersionTable \notin DOMAIN des
         /\ Careful => WithinReach(cat, des)
         /\ migrations' = Append(migrations, [up      |-> UpStatements(steps),
                                              down    |-> DownStatements(steps),
                                              configs |-> configs,
                                              from    |-> cat])
<1>1. reading.tables = db
  <2>1. reading.query = 5
    BY DEF Revise
  <2>2. reading.tables = IndexesAppended(TablesSoFar(3), KeysRead(IndexesRead(TablesSoFar(3), db), db))
    BY <2>1 DEF CatalogInv, ReadingOK, ReadingExact
  <2>3. CatalogOK(db)
    BY DEF CatalogInv
  <2>4. RefersToConstraints(db)
    BY <2>3, RefersAgain
  <2> QED
    BY <2>2, <2>3, <2>4, AllRead
<1>2. PICK s \in DesiredSchemas(configs) :
        LET cur  == WithoutVersionTable(reading.tables)
            goal == WithoutVersionTable([t \in DOMAIN s |-> s[t].table])
            todo == MigrationSteps(cur, goal)
        IN  /\ Careful => WithinReach(cur, goal)
            /\ migrations' = Append(migrations, [up      |-> UpStatements(todo),
                                                 down    |-> DownStatements(todo),
                                                 configs |-> configs,
                                                 from    |-> cur])
  BY DEF Revise
<1>3. WithoutVersionTable([t \in DOMAIN s |-> s[t].table]) = des
  BY DeclaresWhatItMeans
<1>4. Shaped(des) /\ VersionTable \notin DOMAIN des
  BY MeaningShaped
<1> QED
  BY <1>1, <1>2, <1>3, <1>4

LEMMA NoPanic ==
  ASSUME Prudent, NEW configs \in Declared
  PROVE  ~Panic(configs)
<1>1. \A t \in DOMAIN configs : MeansOneEach(configs[t])
  BY DEF Prudent, WellDeclared
<1>2. \A s \in DesiredSchemas(configs) : \A t \in DOMAIN s : s[t].ok
  BY <1>1, DeclaresWhatItMeans DEF DesiredSchemas
<1> QED
  BY <1>2 DEF Panic

LEMMA ReviseKeeps ==
  ASSUME CarefulInv, Prudent, CatalogInv', NEW configs \in Declared, Revise(configs)
  PROVE  CarefulInv'
<1> DEFINE n   == Len(migrations)
           cat == WithoutVersionTable(db)
           des == Meaning(configs)
<1>1. /\ n \in Nat /\ DOMAIN migrations = 1 .. n /\ applied \in 0 .. n
      /\ 0 < applied => cat = After(migrations[applied])
      /\ Consistent(cat) /\ VersionTable \notin DOMAIN cat
  BY WhereItIs
<1>2. /\ reading' = Idle /\ outcome' = "revision" /\ UNCHANGED <<db, applied>>
      /\ reading # Idle
  BY DEF Revise, Idle
<1>3. applied = n /\ ~reading.disturbed
  BY <1>2 DEF CarefulInv
<1> DEFINE steps == MigrationSteps(cat, des)
           m     == [up      |-> UpStatements(steps),
                     down    |-> DownStatements(steps),
                     configs |-> configs,
                     from    |-> cat]
<1>4. \A t \in DOMAIN configs : MeansOneEach(configs[t])
  BY DEF Prudent, WellDeclared
<1>5. /\ Shaped(des) /\ VersionTable \notin DOMAIN des
      /\ Careful => WithinReach(cat, des)
      /\ migrations' = Append(migrations, m)
  <2>1. CatalogInv /\ RefersToConstraints(cat)
    BY <1>1 DEF CarefulInv, Consistent
  <2> HIDE DEF cat, des, steps
  <2>2. cat = WithoutVersionTable(db) /\ des = Meaning(configs) /\ steps = MigrationSteps(cat, des)
    BY DEF cat, des, steps
  <2> QED
    BY <1>3, <1>4, <2>1, <2>2, RevisionMade
<1>6. InReach(cat, des)
  <2>1. WithinReach(cat, des)
    BY <1>5 DEF Prudent
  <2>2. WellFormed(des)
    BY DEF Prudent, WellDeclared
  <2> QED
    BY <1>1, <1>5, <2>1, <2>2 DEF InReach
<1>7. LeadsThereAndBack(m)
  <2>1. m.up = UpStatements(steps) /\ m.down = DownStatements(steps) /\ m.from = cat /\ Meaning(m.configs) = des
    OBVIOUS
  <2> HIDE DEF m, cat, des, steps
  <2>2. steps = MigrationSteps(cat, des)
    BY DEF steps
  <2> QED
    BY <1>6, <2>1, <2>2, RevisionLeads
<1>8. m.from = cat /\ m.configs \in Declared
  OBVIOUS
<1> HIDE DEF m, cat, des, steps
<1>9. /\ Len(migrations') = n + 1 /\ migrations'[n + 1] = m
      /\ \A k \in 1 .. n : migrations'[k] = migrations[k]
      /\ \A e \in ToSet(migrations') : e \in ToSet(migrations) \/ e = m
  <2>1. IsList(migrations)
    BY DEF CarefulInv, CatalogInv, MigrationsOK, IsList
  <2> DEFINE S == ToSet(migrations) \cup {m}
  <2>2. migrations \in Seq(S)
    BY <2>1 DEF IsList
  <2>3. Len(migrations') = n + 1 /\ migrations'[n + 1] = m /\ \A k \in 1 .. n : migrations'[k] = migrations[k]
    BY <1>5, <2>2, AppendProperties
  <2>4. ToSet(migrations') \subseteq S
    <3>1. migrations' \in Seq(S)
      BY <1>5, <2>2, AppendProperties
    <3> HIDE DEF S
    <3> QED
      BY <3>1, SeqIsList
  <2> QED
    BY <2>3, <2>4
<1>10. \A e \in ToSet(migrations') : e.configs \in Declared
  BY <1>8, <1>9 DEF CarefulInv
<1>11. Linked'
  <2>1. /\ \A k \in 1 .. n : LeadsThereAndBack(migrations[k])
        /\ \A k \in 1 .. n - 1 : migrations[k + 1].from = After(migrations[k])
    BY DEF CarefulInv, Linked
  <2>2. \A k \in 1 .. n + 1 : LeadsThereAndBack(migrations'[k])
    <3>1. \A k \in 1 .. n + 1 : k \in 1 .. n \/ k = n + 1
      BY <1>1
    <3> QED
      BY <1>7, <1>9, <2>1, <3>1
  <2>3. \A k \in 1 .. (n + 1) - 1 : migrations'[k + 1].from = After(migrations'[k])
    <3> SUFFICES ASSUME NEW k \in 1 .. (n + 1) - 1
                 PROVE  migrations'[k + 1].from = After(migrations'[k])
      OBVIOUS
    <3>1. CASE k = n
      <4>1. n \in 1 .. n /\ 0 < applied
        BY <1>1, <1>3, <3>1
      <4>2. cat = After(migrations[n])
        BY <1>1, <1>3, <4>1
      <4> QED
        BY <1>8, <1>9, <3>1, <4>1, <4>2
    <3>2. CASE k # n
      <4>1. k \in 1 .. n - 1 /\ k \in 1 .. n /\ k + 1 \in 1 .. n
        <5>1. n \in Nat
          BY <1>1
        <5> HIDE DEF n
        <5> QED
          BY <3>2, <5>1
      <4> QED
        BY <1>9, <2>1, <4>1
    <3> QED
      BY <3>1, <3>2
  <2>4. applied' < n + 1 /\ applied' + 1 = n + 1
    BY <1>1, <1>2, <1>3
  <2>5. WithoutVersionTable(db') = migrations'[applied' + 1].from
    BY <1>2, <1>8, <1>9, <2>4 DEF cat
  <2> QED
    BY <1>9, <2>2, <2>3, <2>4, <2>5 DEF Linked
<1> QED
  BY <1>2, <1>10, <1>11 DEF CarefulInv

LEMMA CarefulNext ==
  ASSUME CarefulInv, Prudent, [Next]_vars
  PROVE  CarefulInv'
<1>1. CatalogInv' /\ Careful
  BY NextOK DEF CarefulInv, Prudent
<1>2. CASE ReadTables \/ ReadColumns \/ ReadConstraints \/ ReadIndexMetadata \/ ReadIndexKeys
  BY <1>1, <1>2, QueriesKeep
<1>3. CASE GiveUp
  BY <1>1, <1>3, OnlyRead DEF GiveUp
<1>4. ASSUME NEW configs \in Declared, Revise(configs) PROVE CarefulInv'
  BY <1>1, <1>4, ReviseKeeps
<1>5. \A configs \in Declared : ~Panic(configs)
  BY NoPanic
<1>6. CASE Up \/ Down
  BY <1>1, <1>6, CommandsKeep
<1>7. CASE UNCHANGED vars
  <2>1. UNCHANGED <<db, migrations, applied>> /\ outcome' = outcome /\ reading' = reading
    BY <1>7 DEF vars
  <2>2. outcome \notin {"refused", "panicked"} /\ (reading # Idle => applied = Len(migrations) /\ ~reading.disturbed)
    BY DEF CarefulInv
  <2> QED
    BY <1>1, <2>1, <2>2, OnlyRead
<1> QED
  BY <1>2, <1>3, <1>4, <1>5, <1>6, <1>7 DEF Next

LEMMA AlwaysCarefulInv == ASSUME Prudent PROVE Spec => []CarefulInv
<1>1. CarefulInv /\ [Next]_vars => CarefulInv'
  BY CarefulNext
<1> QED
  BY NothingDone, <1>1, PTL DEF Spec

-----------------------------------------------------------------------------
(* Comparing again.                                                        *)

\* Of what the catalog holds only a CHECK constraint reads otherwise than the
\* config that it comes from.
LEMMA ConstraintsSettle ==
  ASSUME NEW t, NEW K, NEW N,
         \A c \in K : IsConstraint(c), \A d \in N : IsConstraint(d),
         \A c \in K : \A e \in K : SemanticKey(c) = SemanticKey(e) => c = e,
         \A c \in K : \E d \in N : SemanticKey(c) = SemanticKey(StoredConstraint(t, d)),
         \A d \in N : \E c \in K : /\ SemanticKey(c) = SemanticKey(StoredConstraint(t, d))
                                   /\ d.name # Unnamed => c.name = d.name,
         NEW U, U = AddedConstraints(K, N) \cup RemovedConstraints(K, N)
                      \cup {p[2] : p \in ChangedConstraints(K, N)},
         NEW c \in U
  PROVE  c.kind = "ck"
<1>1. ASSUME NEW d \in N, d.kind # "ck" PROVE SemanticKey(StoredConstraint(t, d)) = SemanticKey(d)
  <2> DEFINE e == StoredConstraint(t, d)
  <2>1. IsConstraint(e) /\ IsConstraint(d)
    BY StoredTwice
  <2>2. Alike(e, d)
    BY <1>1 DEF Alike, StoredConstraint
  <2> HIDE DEF e
  <2> QED
    BY <2>1, <2>2, AlikeIs DEF e
<1>2. ASSUME NEW e \in K, NEW d \in N, SemanticKey(e) = SemanticKey(StoredConstraint(t, d))
      PROVE  e.kind = d.kind
  <2> DEFINE f == StoredConstraint(t, d)
  <2>1. IsConstraint(f) /\ f.kind = d.kind
    BY StoredTwice DEF StoredConstraint
  <2> HIDE DEF f
  <2>2. Alike(e, f)
    BY <1>2, <2>1, AlikeIs DEF f
  <2> QED
    BY <2>1, <2>2 DEF Alike
<1>8. ASSUME NEW e \in K, NEW d \in N, SemanticKey(e) = SemanticKey(d)
      PROVE  Saying(K, d) = e
  BY <1>8 DEF Saying
<1>3. ASSUME NEW d \in N, d.kind # "ck"
      PROVE  \E e \in K : <<e, d>> \in SemanticMatches(K, N) /\ (d.name # Unnamed => e.name = d.name)
  <2>1. PICK e \in K : /\ SemanticKey(e) = SemanticKey(StoredConstraint(t, d))
                       /\ d.name # Unnamed => e.name = d.name
    OBVIOUS
  <2>2. SemanticKey(e) = SemanticKey(d)
    BY <1>1, <1>3, <2>1
  <2> QED
    BY <1>8, <2>1, <2>2 DEF SemanticMatches
<1>4. /\ SemanticMatches(K, N) \subseteq Matches(K, N)
      /\ \A p \in SemanticMatches(K, N) : p[1] \in K /\ p[2] \in N /\ SemanticKey(p[1]) = SemanticKey(p[2])
  BY DEF Matches, SemanticMatches
<1>5. CASE c \in AddedConstraints(K, N)
  <2> SUFFICES ASSUME c.kind # "ck" PROVE FALSE
    OBVIOUS
  <2>1. c \in N /\ \A p \in Matches(K, N) : p[2] # c
    BY <1>5 DEF AddedConstraints
  <2>2. PICK e \in K : <<e, c>> \in SemanticMatches(K, N)
    BY <1>3, <2>1
  <2> DEFINE p == <<e, c>>
  <2>3. p[2] = c /\ p \in Matches(K, N)
    BY <1>4, <2>2
  <2> HIDE DEF p
  <2> QED
    BY <2>1, <2>3
<1>6. CASE c \in RemovedConstraints(K, N)
  <2> SUFFICES ASSUME c.kind # "ck" PROVE FALSE
    OBVIOUS
  <2>1. c \in K /\ \A p \in Matches(K, N) : p[1] # c
    BY <1>6 DEF RemovedConstraints
  <2>2. PICK d \in N : SemanticKey(c) = SemanticKey(StoredConstraint(t, d))
    BY <2>1
  <2>3. SemanticKey(c) = SemanticKey(d)
    BY <1>1, <1>2, <2>1, <2>2
  <2> DEFINE p == <<c, d>>
  <2>4. p[1] = c /\ p \in SemanticMatches(K, N)
    BY <1>8, <2>1, <2>3 DEF SemanticMatches
  <2> HIDE DEF p
  <2> QED
    BY <1>4, <2>1, <2>4
<1>7. CASE c \in {p[2] : p \in ChangedConstraints(K, N)}
  <2> SUFFICES ASSUME c.kind # "ck" PROVE FALSE
    OBVIOUS
  <2>1. PICK p \in Matches(K, N) : c = p[2] /\ ConstraintChanged(p[1], p[2])
    BY <1>7 DEF ChangedConstraints
  <2>2. p[1] \in K /\ p[2] \in N
    BY <2>1 DEF Matches, SemanticMatches, NameMatches
  <2>3. PICK e \in K : <<e, c>> \in SemanticMatches(K, N) /\ (c.name # Unnamed => e.name = c.name)
    BY <1>3, <2>1, <2>2
  <2> DEFINE q == <<e, c>>
  <2>4. q \in SemanticMatches(K, N) /\ q[1] = e /\ q[2] = c
    BY <2>3
  <2> HIDE DEF q
  <2>5. p \in SemanticMatches(K, N)
    <3>1. p \notin NameMatches(K, N)
      <4>1. p \in NameMatches(K, N) => p[2] \notin {r[2] : r \in SemanticMatches(K, N)}
        BY DEF NameMatches
      <4> QED
        BY <2>1, <2>4, <4>1
    <3> QED
      BY <3>1 DEF Matches
  <2>6. e = p[1]
    BY <1>4, <2>1, <2>2, <2>4, <2>5
  <2> QED
    BY <1>4, <2>1, <2>3, <2>5, <2>6 DEF ConstraintChanged
<1> QED
  BY <1>5, <1>6, <1>7

LEMMA CatalogSettles ==
  ASSUME NEW cat, NEW des, Agrees(cat, des), Consistent(cat), SaysOnce(cat), NEW t \in DOMAIN des,
         \A d \in des[t].constraints : IsConstraint(d),
         \A x \in DOMAIN des[t].indexes : IsIndex(des[t].indexes[x])
  PROVE  SpelledApart(cat[t], des[t])
<1> DEFINE old == cat[t].constraints
           new == des[t].constraints
<1>1. /\ cat[t].columns = [x \in DOMAIN des[t].columns |-> StoredColumn(des[t].columns[x])]
      /\ cat[t].indexes = [x \in DOMAIN des[t].indexes |-> StoredIndex(des[t].indexes[x])]
      /\ t \in DOMAIN cat
  BY DEF Agrees
<1> HIDE DEF old, new
<1>2. /\ \A c \in old : \E d \in new : SemanticKey(c) = SemanticKey(StoredConstraint(t, d))
      /\ \A d \in new : \E c \in old : /\ SemanticKey(c) = SemanticKey(StoredConstraint(t, d))
                                       /\ d.name # Unnamed => c.name = d.name
  BY DEF Agrees, old, new
<1>3. (\A c \in old : IsConstraint(c)) /\ (\A d \in new : IsConstraint(d))
  BY <1>1 DEF Consistent, Shaped, old, new
<1>4. \A c \in old : \A e \in old : SemanticKey(c) = SemanticKey(e) => c = e
  BY <1>1 DEF SaysOnce, old
<1> DEFINE U == AddedConstraints(old, new) \cup RemovedConstraints(old, new)
                  \cup {p[2] : p \in ChangedConstraints(old, new)}
<1>5. \A c \in U : c.kind = "ck"
  <2>1. U = AddedConstraints(old, new) \cup RemovedConstraints(old, new)
              \cup {p[2] : p \in ChangedConstraints(old, new)}
    OBVIOUS
  <2> HIDE DEF U
  <2> QED
    BY <1>2, <1>3, <1>4, <2>1, ConstraintsSettle
<1>6. ASSUME NEW i, IsIndex(i), StoredIndex(i) # i PROVE i.method = NotGiven
  BY <1>6 DEF IsIndex, StoredIndex
<1>7. \A x \in Changed(cat[t].indexes, des[t].indexes) : des[t].indexes[x].method = NotGiven
  BY <1>1, <1>6 DEF Changed
<1>8. /\ DOMAIN cat[t].columns = DOMAIN des[t].columns
      /\ DOMAIN cat[t].indexes = DOMAIN des[t].indexes
      /\ \A x \in Changed(cat[t].columns, des[t].columns) :
              cat[t].columns[x] = StoredColumn(des[t].columns[x])
  BY <1>1 DEF Changed
<1> QED
  BY <1>5, <1>7, <1>8 DEF SpelledApart, old, new

LEMMA LastApplied ==
  ASSUME CarefulInv, 0 < applied, NEW m, m = migrations[applied]
  PROVE  /\ m.configs \in Declared
         /\ Consistent(WithoutVersionTable(db))
         /\ SaysOnce(WithoutVersionTable(db))
         /\ Agrees(WithoutVersionTable(db), Meaning(m.configs))
<1>1. /\ Len(migrations) \in Nat /\ DOMAIN migrations = 1 .. Len(migrations)
      /\ applied \in 1 .. Len(migrations)
      /\ WithoutVersionTable(db) = After(m)
  BY WhereItIs
<1>2. LeadsThereAndBack(m)
  BY <1>1 DEF CarefulInv, Linked
<1>3. m \in ToSet(migrations)
  BY <1>1 DEF ToSet
<1> QED
  BY <1>1, <1>2, <1>3 DEF LeadsThereAndBack, CarefulInv

LEMMA InvSettles ==
  ASSUME CarefulInv
  PROVE  Settles
<1> SUFFICES ASSUME 0 < applied, NEW cur, cur = WithoutVersionTable(db),
                    NEW des, des = Meaning(migrations[applied].configs)
             PROVE  DOMAIN cur = DOMAIN des /\ \A t \in ChangedTables(cur, des) : SpelledApart(cur[t], des[t])
  BY DEF Settles
<1>1. /\ migrations[applied].configs \in Declared
      /\ Consistent(cur)
      /\ SaysOnce(cur)
      /\ Agrees(cur, des)
  BY LastApplied
<1>2. PICK configs \in Declared : des = Meaning(configs)
  BY <1>1
<1>3. \A t \in DOMAIN des : t \in DOMAIN configs /\ des[t] = Meant(configs[t])
  BY <1>2 DEF Meaning, WithoutVersionTable, Restrict
<1>4. \A t \in DOMAIN des : /\ \A d \in des[t].constraints : IsConstraint(d)
                            /\ \A x \in DOMAIN des[t].indexes : IsIndex(des[t].indexes[x])
  BY <1>3, MeantParts
<1>5. DOMAIN cur = DOMAIN des /\ ChangedTables(cur, des) \subseteq DOMAIN des
  BY <1>1 DEF Agrees, ChangedTables
<1> QED
  BY <1>1, <1>4, <1>5, CatalogSettles

-----------------------------------------------------------------------------
(* Theorems.                                                               *)

\* Within what Careful admits the PostgreSQL of PostgresDDL refuses no statement
\* of any migration, after however many others have been executed, reverted and
\* executed again, and no schema function panics.  Careful admits a change of a
\* type only if it converts without USING there and back (TypesConvert) and the
\* foreign keys of the column fit either type (KeyTypesAgree): the code writes
\* the statement for every other change as well, and it is refused.
THEOREM NothingRefused ==
  ASSUME Careful, \A configs \in Declared : WellDeclared(configs)
  PROVE  Spec => []NeverRefused
<1>1. Spec => []CarefulInv
  BY AlwaysCarefulInv DEF Prudent
<1>2. CarefulInv => NeverRefused
  BY DEF CarefulInv, NeverRefused
<1> QED
  BY <1>1, <1>2, PTL

\* After Up the catalog is what the configs of the migration mean.
THEOREM UpIsComplete ==
  ASSUME Careful, \A configs \in Declared : WellDeclared(configs)
  PROVE  Spec => []UpReachesGoal
<1>1. Spec => []CarefulInv
  BY AlwaysCarefulInv DEF Prudent
<1>2. CarefulInv => UpReachesGoal
  BY LastApplied DEF UpReachesGoal
<1> QED
  BY <1>1, <1>2, PTL

\* After Down the catalog is, to the last name, what it was when the migration
\* was made.
THEOREM DownIsInverse ==
  ASSUME Careful, \A configs \in Declared : WellDeclared(configs)
  PROVE  Spec => []DownLeadsBack
<1>1. Spec => []CarefulInv
  BY AlwaysCarefulInv DEF Prudent
<1>2. CarefulInv => DownLeadsBack
  BY DEF CarefulInv, Linked, DownLeadsBack
<1> QED
  BY <1>1, <1>2, PTL

\* A revision that follows finds nothing but spelling.
THEOREM RevisionsSettle ==
  ASSUME Careful, \A configs \in Declared : WellDeclared(configs)
  PROVE  Spec => []Settles
<1>1. Spec => []CarefulInv
  BY AlwaysCarefulInv DEF Prudent
<1> QED
  BY <1>1, InvSettles, PTL

\* Whatever has happened to the catalog: a revision that reads it in peace and
\* asks for something within reach, types that convert without USING included,
\* makes a migration that the PostgreSQL of PostgresDDL executes, that leads to
\* what the configs mean, and that can be reverted.  Nothing is assumed of
\* Careful, of the configs declared or of the migrations before.
THEOREM RepairsFromAnywhere == Spec => RevisionRepairs
<1>1. CatalogInv /\ Next => ComesAndGoes
  <2> SUFFICES ASSUME CatalogInv, Next, migrations' # migrations, ~reading.disturbed,
                      WellFormed(Meaning(Last(migrations').configs)),
                      WithinReach(WithoutVersionTable(db), Meaning(Last(migrations').configs))
               PROVE  LET m    == Last(migrations')
                          goal == Meaning(m.configs)
                          up   == Run(WithTable(db), m.up)
                          down == Run(up.db, m.down)
                      IN  /\ up.ok /\ Agrees(WithoutVersionTable(up.db), goal)
                          /\ down.ok /\ down.db = WithTable(db)
    BY DEF ComesAndGoes
  <2>1. PICK configs \in Declared : Revise(configs)
    BY DEF Next, ReadTables, ReadColumns, ReadConstraints, ReadIndexMetadata, ReadIndexKeys,
           GiveUp, Panic, Up, Down
  <2> DEFINE cat   == WithoutVersionTable(db)
             des   == Meaning(configs)
             steps == MigrationSteps(cat, des)
             m     == Last(migrations')
  <2>2. m.configs = configs
    <3> DEFINE e(up, down, from) == [up |-> up, down |-> down, configs |-> configs, from |-> from]
    <3>1. PICK up, down, from : migrations' = Append(migrations, e(up, down, from))
      BY <2>1 DEF Revise
    <3>2. e(up, down, from).configs = configs
      OBVIOUS
    <3> HIDE DEF e
    <3> QED
      BY <3>1, <3>2, LastAppended DEF CatalogInv, MigrationsOK, IsList
  <2>3. WellFormed(des) /\ WithinReach(cat, des)
    BY <2>2
  <2>4. CatalogOK(db) /\ Sound(db)
    BY DEF CatalogInv
  <2>5. RefersToConstraints(cat)
    BY <2>3 DEF WithinReach
  <2>6. \A t \in DOMAIN configs \ {VersionTable} : MeansOneEach(configs[t])
    BY <2>3, MeansOneEachIf DEF WellFormed
  <2> HIDE DEF cat, des, steps, m
  <2>7. cat = WithoutVersionTable(db) /\ des = Meaning(configs) /\ steps = MigrationSteps(cat, des)
    BY DEF cat, des, steps
  <2>8. /\ Shaped(des) /\ VersionTable \notin DOMAIN des
        /\ migrations' = Append(migrations, [up      |-> UpStatements(steps),
                                             down    |-> DownStatements(steps),
                                             configs |-> configs,
                                             from    |-> cat])
    BY <2>1, <2>5, <2>6, <2>7, RevisionMade
  <2>9. InReach(cat, des)
    <3>1. Consistent(cat) /\ VersionTable \notin DOMAIN cat
      BY <2>4, <2>5, <2>7, RestConsistent
    <3> QED
      BY <2>3, <2>8, <3>1 DEF InReach
  <2>10. m.up = UpStatements(steps) /\ m.down = DownStatements(steps) /\ m.from = cat
    <3> DEFINE e == [up |-> UpStatements(steps), down |-> DownStatements(steps),
                     configs |-> configs, from |-> cat]
    <3>1. migrations' = Append(migrations, e)
      BY <2>8
    <3>2. e.up = UpStatements(steps) /\ e.down = DownStatements(steps) /\ e.from = cat
      OBVIOUS
    <3> HIDE DEF e
    <3>3. m = e
      BY <3>1, LastAppended DEF CatalogInv, MigrationsOK, IsList, m
    <3> QED
      BY <3>2, <3>3
  <2>11. LeadsThereAndBack(m)
    BY <2>2, <2>7, <2>9, <2>10, RevisionLeads
  <2>12. /\ Run(WithTable(cat), m.up) = [ok |-> TRUE, db |-> WithTable(After(m))]
         /\ Run(WithTable(After(m)), m.down) = [ok |-> TRUE, db |-> WithTable(cat)]
         /\ Agrees(After(m), des)
    BY <2>2, <2>7, <2>10, <2>11 DEF LeadsThereAndBack, Reaches
  <2>13. WithTable(cat) = WithTable(db)
    BY <2>4, <2>7, WithAndWithout
  <2>14. After(m) = WithoutVersionTable(Run(WithTable(db), m.up).db)
    BY <2>10, <2>13 DEF After
  <2> QED
    BY <2>2, <2>7, <2>12, <2>13, <2>14 DEF m
<1>2. Spec => []CatalogInv
  BY AlwaysCatalogInv
<1> QED
  BY <1>1, <1>2, PTL DEF Spec, RevisionRepairs
=============================================================================
