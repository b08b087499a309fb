----------------------- MODULE SchemaRevisionsProofs -----------------------
(***************************************************************************)
(* What holds of the catalog and of what revisions read from it, for any   *)
(* configs, migrations and number of commands.                             *)
(***************************************************************************)
EXTENDS SchemaRevisions, ListProofs

-----------------------------------------------------------------------------
(* The steps of a migration.                                               *)

\* Ranked sorts what can be ranked.
LEMMA RankedSorts ==
  ASSUME NEW S, IsFiniteSet(S), NEW rank \in [S -> Int]
  PROVE  LET seq == Ranked(S, rank)
         IN  /\ seq \in [1 .. Cardinality(S) -> S]
             /\ IsInjective(seq)
             /\ \A i, j \in DOMAIN seq : i < j => rank[seq[i]] <= rank[seq[j]]
<1> DEFINE n == Cardinality(S)
<1>1. n \in Nat /\ \E f : f \in Bijection(1 .. n, S)
  BY FS_CardinalityType DEF ExistsBijection
<1>2. PICK f : f \in Bijection(1 .. n, S)
  BY <1>1
<1>3. /\ f \in [1 .. n -> S]
      /\ \A i, j \in 1 .. n : f[i] = f[j] => i = j
  BY <1>2 DEF Bijection, Injection, IsInjective
<1> HIDE DEF n
<1> DEFINE lt == {d \in (1 .. n) \X (1 .. n) :
                    \/ rank[f[d[1]]] < rank[f[d[2]]]
                    \/ rank[f[d[1]]] = rank[f[d[2]]] /\ d[1] < d[2]}
<1>4. \A i, j \in 1 .. n : <<i, j>> \in lt <=>
         rank[f[i]] < rank[f[j]] \/ (rank[f[i]] = rank[f[j]] /\ i < j)
  OBVIOUS
<1>5. \A i \in 1 .. n : rank[f[i]] \in Int
  BY <1>3
<1> HIDE DEF lt
<1>6. /\ \A i, j \in 1 .. n : ~(<<i, j>> \in lt /\ <<j, i>> \in lt)
      /\ \A i, j \in 1 .. n : i # j => <<i, j>> \in lt \/ <<j, i>> \in lt
      /\ \A i, j, k \in 1 .. n : <<i, j>> \in lt /\ <<j, k>> \in lt => <<i, k>> \in lt
  <2>1. ASSUME NEW i \in 1 .. n, NEW j \in 1 .. n
        PROVE  ~(<<i, j>> \in lt /\ <<j, i>> \in lt)
    BY <1>1, <1>4, <1>5
  <2>2. ASSUME NEW i \in 1 .. n, NEW j \in 1 .. n, i # j
        PROVE  <<i, j>> \in lt \/ <<j, i>> \in lt
    BY <1>1, <1>4, <1>5, <2>2
  <2>3. ASSUME NEW i \in 1 .. n, NEW j \in 1 .. n, NEW k \in 1 .. n,
               <<i, j>> \in lt, <<j, k>> \in lt
        PROVE  <<i, k>> \in lt
    BY <1>1, <1>4, <1>5, <2>3
  <2> QED
    BY <2>1, <2>2, <2>3
<1>7. PICK p \in Injection(1 .. n, 1 .. n) :
        \A i, j \in 1 .. n : i < j => ~(<<p[j], p[i]>> \in lt)
  BY <1>1, <1>6, CanBeSorted
<1> DEFINE seq == [i \in 1 .. n |-> f[p[i]]]
<1>8. /\ p \in [1 .. n -> 1 .. n]
      /\ \A i, j \in 1 .. n : p[i] = p[j] => i = j
  BY <1>7 DEF Injection, IsInjective
<1>9. seq \in [1 .. n -> S] /\ IsInjective(seq)
  BY <1>3, <1>8 DEF IsInjective
<1>10. ASSUME NEW i \in 1 .. n, NEW j \in 1 .. n, i < j
       PROVE  rank[seq[i]] <= rank[seq[j]]
  <2>1. p[i] \in 1 .. n /\ p[j] \in 1 .. n /\ ~(<<p[j], p[i]>> \in lt)
    BY <1>7, <1>8, <1>10
  <2>2. ~(rank[f[p[j]]] < rank[f[p[i]]])
    BY <1>4, <2>1
  <2>3. seq[i] = f[p[i]] /\ seq[j] = f[p[j]]
    OBVIOUS
  <2> QED
    BY <1>5, <2>1, <2>2, <2>3
<1> HIDE DEF seq
<1>11. \E q \in [1 .. n -> S] : /\ IsInjective(q)
                                /\ \A i, j \in DOMAIN q : i < j => rank[q[i]] <= rank[q[j]]
  BY <1>9, <1>10
<1> QED
  BY <1>11 DEF Ranked, n

LEMMA RankedIn ==
  ASSUME NEW S, IsFiniteSet(S), NEW rank \in [S -> Int]
  PROVE  /\ Ranked(S, rank) \in [1 .. Cardinality(S) -> S]
         /\ IsInjective(Ranked(S, rank))
BY RankedSorts

\* In no particular order, but one after the other.
LEMMA RankedAnyhow ==
  ASSUME NEW S, IsFiniteSet(S)
  PROVE  \A i \in 1 .. Cardinality(S) : Ranked(S, [x \in S |-> 0])[i] \in S
<1> DEFINE rank == [x \in S |-> 0]
<1>1. rank \in [S -> Int]
  OBVIOUS
<1> HIDE DEF rank
<1>2. Ranked(S, rank) \in [1 .. Cardinality(S) -> S]
  BY <1>1, RankedIn
<1>3. \A i \in 1 .. Cardinality(S) : Ranked(S, rank)[i] \in S
  BY <1>2
<1> QED
  BY <1>3 DEF rank

\* What may be in a migration.
Decent(s) == Spares(s) /\ Proper(s)

SparingStep(step) ==
  /\ step.up = Nothing \/ Decent(step.up)
  /\ step.down = Nothing \/ Decent(step.down)

SparingSteps(steps) == IsList(steps) /\ \A step \in ToSet(steps) : SparingStep(step)

LEMMA StepsInOrder ==
  ASSUME NEW S, IsFiniteSet(S), NEW steps,
         steps = [i \in 1 .. Cardinality(S) |-> steps[i]],
         \A i \in 1 .. Cardinality(S) : SparingStep(steps[i])
  PROVE  SparingSteps(steps)
<1>1. Cardinality(S) \in Nat
  BY FS_CardinalityType
<1> QED
  BY <1>1, MapIsList DEF SparingSteps

LEMMA OneStep ==
  ASSUME NEW step, SparingStep(step)
  PROVE  SparingSteps(<<step>>)
BY SingleList DEF SparingSteps

LEMMA StepsJoined ==
  ASSUME NEW s, NEW t, SparingSteps(s), SparingSteps(t)
  PROVE  SparingSteps(s \o t)
BY ListsJoined DEF SparingSteps

\* Lists of steps in the order of S.
LEMMA StepsFlattened ==
  ASSUME NEW S, IsFiniteSet(S), NEW ss,
         ss = [i \in 1 .. Cardinality(S) |-> ss[i]],
         \A i \in 1 .. Cardinality(S) : SparingSteps(ss[i])
  PROVE  SparingSteps(FlattenSeq(ss))
<1>1. Cardinality(S) \in Nat
  BY FS_CardinalityType
<1>2. IsList(ss) /\ ToSet(ss) = {ss[i] : i \in 1 .. Cardinality(S)}
  BY <1>1, MapIsList
<1>3. \A s \in ToSet(ss) : SparingSteps(s)
  BY <1>2
<1>4. /\ IsList(FlattenSeq(ss))
      /\ ToSet(FlattenSeq(ss)) \subseteq UNION {ToSet(s) : s \in ToSet(ss)}
  BY <1>2, <1>3, ListsFlattened DEF SparingSteps
<1> QED
  BY <1>3, <1>4 DEF SparingSteps

LEMMA SpareIndex ==
  ASSUME NEW t, t # VersionTable, NEW x, NEW i
  PROVE  /\ SparingStep(CreateIndexStep(t, x, i))
         /\ SparingStep(Undo(CreateIndexStep(t, x, i)))
         /\ SparingStep(RestoreIndexStep(t, x, i))
<1>1. Decent(CreateIndex(t, x, i)) /\ Decent(DropIndex(x))
  BY DEF Decent, Spares, Proper, CreateIndex, DropIndex
<1> QED
  BY <1>1 DEF SparingStep, CreateIndexStep, RestoreIndexStep, Undo, Step

LEMMA SpareColumn ==
  ASSUME NEW t, t # VersionTable, NEW x, NEW c, NEW d, IsColumn(c), IsColumn(d)
  PROVE  /\ SparingStep(AddColumnStep(t, x, c))
         /\ SparingStep(Undo(AddColumnStep(t, x, c)))
         /\ SparingStep(Step(ReplaceColumn(t, x, d), ReplaceColumn(t, x, c)))
         /\ SparingStep(Step(SetType(t, x, d), SetType(t, x, c)))
         /\ SparingStep(Step(SetNotNull(t, x, d), SetNotNull(t, x, c)))
         /\ SparingStep(Step(SetDefault(t, x, d), SetDefault(t, x, c)))
<1>1. ASSUME NEW v, IsColumn(v)
      PROVE  /\ Decent(AddColumn(t, x, v)) /\ Decent(DropColumn(t, x))
             /\ Decent(ReplaceColumn(t, x, v)) /\ Decent(SetType(t, x, v))
             /\ Decent(SetNotNull(t, x, v)) /\ Decent(SetDefault(t, x, v))
  <2>1. v.notNull \in BOOLEAN
    BY <1>1 DEF IsColumn
  <2>2. Decent(AddColumn(t, x, v)) /\ Decent(ReplaceColumn(t, x, v))
    BY <1>1 DEF Decent, Spares, Proper, AddColumn, ReplaceColumn
  <2>3. Decent(SetNotNull(t, x, v))
    BY <2>1 DEF Decent, Spares, Proper, SetNotNull
  <2>4. Decent(DropColumn(t, x)) /\ Decent(SetType(t, x, v)) /\ Decent(SetDefault(t, x, v))
    BY DEF Decent, Spares, Proper, DropColumn, SetType, SetDefault
  <2> QED
    BY <2>2, <2>3, <2>4
<1> QED
  BY <1>1 DEF SparingStep, AddColumnStep, Undo, Step

LEMMA SpareConstraint ==
  ASSUME NEW t, t # VersionTable, NEW c, IsConstraint(c)
  PROVE  SparingStep(AddConstraintStep(t, c)) /\ SparingStep(Undo(AddConstraintStep(t, c)))
<1>1. Decent(AddConstraint(t, c)) /\ Decent(DropConstraint(t, c))
  BY DEF Decent, Spares, Proper, AddConstraint, DropConstraint
<1> QED
  BY <1>1 DEF SparingStep, AddConstraintStep, Undo, Step

\* The columns and constraints of a table are what a statement may give it.
Columns(columns)         == IsFiniteSet(DOMAIN columns) /\ \A x \in DOMAIN columns : IsColumn(columns[x])
Constraints(constraints) == IsFiniteSet(constraints) /\ \A c \in constraints : IsConstraint(c)

Parts(table) ==
  Columns(table.columns) /\ Constraints(table.constraints) /\ IsFiniteSet(DOMAIN table.indexes)

LEMMA SpareTable ==
  ASSUME NEW t \in Nat, t # VersionTable, NEW def, Parts(def)
  PROVE  SparingStep(CreateTableStep(t, def)) /\ SparingStep(Undo(CreateTableStep(t, def)))
<1>1. Decent(CreateTable(t, def)) /\ Decent(DropTable(t))
  BY DEF Decent, Spares, Proper, Parts, Columns, Constraints, CreateTable, DropTable
<1> QED
  BY <1>1 DEF SparingStep, CreateTableStep, Undo, Step

LEMMA TableAdded ==
  ASSUME NEW t \in Nat, t # VersionTable, NEW def, Parts(def)
  PROVE  SparingSteps(AddedTableSteps(t, def))
<1> DEFINE S == DOMAIN def.indexes
           rank == [x \in S |-> 0]
           r(i) == Ranked(S, rank)[i]
           steps == [i \in 1 .. Cardinality(S) |-> CreateIndexStep(t, r(i), def.indexes[r(i)])]
<1>1. SparingSteps(steps)
  BY SpareIndex, StepsInOrder DEF Parts
<1>2. AddedTableSteps(t, def) = <<CreateTableStep(t, def)>> \o steps
  BY DEF AddedTableSteps, InAnyOrder, InOrder
<1> HIDE DEF steps
<1> QED
  BY <1>1, <1>2, SpareTable, OneStep, StepsJoined

LEMMA TableRemoved ==
  ASSUME NEW t \in Nat, t # VersionTable, NEW def, Parts(def)
  PROVE  SparingSteps(RemovedTableSteps(t, def))
<1> DEFINE S == DOMAIN def.indexes
           rank == [x \in S |-> 0]
           r(i) == Ranked(S, rank)[i]
           steps == [i \in 1 .. Cardinality(S) |-> RestoreIndexStep(t, r(i), def.indexes[r(i)])]
<1>1. SparingSteps(steps)
  BY SpareIndex, StepsInOrder DEF Parts
<1>2. RemovedTableSteps(t, def) = steps \o <<Undo(CreateTableStep(t, def))>>
  BY DEF RemovedTableSteps, InAnyOrder, InOrder
<1> HIDE DEF steps
<1> QED
  BY <1>1, <1>2, SpareTable, OneStep, StepsJoined

\* What differs between finite tables is finite.
LEMMA DifferenceFinite ==
  ASSUME NEW cur, NEW des, IsFiniteSet(DOMAIN cur), IsFiniteSet(DOMAIN des)
  PROVE  /\ IsFiniteSet(Added(cur, des))
         /\ IsFiniteSet(Removed(cur, des))
         /\ IsFiniteSet(Changed(cur, des))
<1>1. /\ Added(cur, des) \in SUBSET DOMAIN des
      /\ Removed(cur, des) \in SUBSET DOMAIN cur
      /\ Changed(cur, des) \in SUBSET DOMAIN cur
  BY DEF Added, Removed, Changed
<1> QED
  BY <1>1, FS_Subset

LEMMA IndexesDropped ==
  ASSUME NEW t, t # VersionTable, NEW cur, NEW des,
         IsFiniteSet(DOMAIN cur), IsFiniteSet(DOMAIN des)
  PROVE  SparingSteps(DroppedIndexSteps(t, cur, des))
<1> DEFINE r(S, i) == Ranked(S, [x \in S |-> 0])[i]
           steps(S) == [i \in 1 .. Cardinality(S) |->
                          Undo(CreateIndexStep(t, r(S, i), cur[r(S, i)]))]
<1>1. ASSUME NEW S, IsFiniteSet(S) PROVE SparingSteps(steps(S))
  BY <1>1, SpareIndex, StepsInOrder
<1>2. DroppedIndexSteps(t, cur, des) = steps(Removed(cur, des)) \o steps(Changed(cur, des))
  BY DEF DroppedIndexSteps, InAnyOrder, InOrder
<1> HIDE DEF steps
<1> QED
  BY <1>1, <1>2, DifferenceFinite, StepsJoined

LEMMA IndexesCreated ==
  ASSUME NEW t, t # VersionTable, NEW cur, NEW des,
         IsFiniteSet(DOMAIN cur), IsFiniteSet(DOMAIN des)
  PROVE  SparingSteps(CreatedIndexSteps(t, cur, des))
<1> DEFINE r(S, i) == Ranked(S, [x \in S |-> 0])[i]
           steps(S) == [i \in 1 .. Cardinality(S) |->
                          CreateIndexStep(t, r(S, i), des[r(S, i)])]
<1>1. ASSUME NEW S, IsFiniteSet(S) PROVE SparingSteps(steps(S))
  BY <1>1, SpareIndex, StepsInOrder
<1>2. CreatedIndexSteps(t, cur, des) = steps(Changed(cur, des)) \o steps(Added(cur, des))
  BY DEF CreatedIndexSteps, InAnyOrder, InOrder
<1> HIDE DEF steps
<1> QED
  BY <1>1, <1>2, DifferenceFinite, StepsJoined

LEMMA ColumnsChanged ==
  ASSUME NEW t, t # VersionTable, NEW x, NEW cur, NEW des, IsColumn(cur), IsColumn(des)
  PROVE  SparingSteps(ColumnChangeSteps(t, x, cur, des))
<1> DEFINE when(b, s) == IF b THEN <<s>> ELSE <<>>
<1>1. ASSUME NEW b, NEW s, SparingStep(s) PROVE SparingSteps(when(b, s))
  BY <1>1, OneStep, EmptyList DEF SparingSteps
<1> DEFINE s1 == Step(SetType(t, x, des), SetType(t, x, cur))
           s2 == Step(SetNotNull(t, x, des), SetNotNull(t, x, cur))
           s3 == Step(SetDefault(t, x, des), SetDefault(t, x, cur))
           s4 == Step(ReplaceColumn(t, x, des), ReplaceColumn(t, x, cur))
           w1 == when(cur.type # des.type, s1)
           w2 == when(cur.notNull # des.notNull, s2)
           w3 == when(cur.default # des.default, s3)
           w4 == when(TRUE, s4)
<1>2. SparingStep(s1) /\ SparingStep(s2) /\ SparingStep(s3) /\ SparingStep(s4)
  BY SpareColumn
<1> HIDE DEF s1, s2, s3, s4, when
<1>3. SparingSteps(w1) /\ SparingSteps(w2) /\ SparingSteps(w3) /\ SparingSteps(w4)
  BY <1>1, <1>2
<1>4. ColumnChangeSteps(t, x, cur, des) = IF cur.mode # des.mode THEN w4 ELSE w1 \o w2 \o w3
  BY DEF ColumnChangeSteps, s1, s2, s3, s4, when
<1> HIDE DEF w1, w2, w3, w4
<1>5. SparingSteps(w1 \o w2 \o w3)
  BY <1>3, StepsJoined
<1> QED
  BY <1>3, <1>4, <1>5

LEMMA ColumnStepsSpare ==
  ASSUME NEW t, t # VersionTable, NEW cur, NEW des, Columns(cur), Columns(des)
  PROVE  SparingSteps(ColumnSteps(t, cur, des))
<1> DEFINE r(S, i) == Ranked(S, [x \in S |-> 0])[i]
           drops(S)   == [i \in 1 .. Cardinality(S) |-> Undo(AddColumnStep(t, r(S, i), cur[r(S, i)]))]
           adds(S)    == [i \in 1 .. Cardinality(S) |-> AddColumnStep(t, r(S, i), des[r(S, i)])]
           changes(S) == [i \in 1 .. Cardinality(S) |->
                            ColumnChangeSteps(t, r(S, i), cur[r(S, i)], des[r(S, i)])]
<1>1. ASSUME NEW S, IsFiniteSet(S) PROVE \A i \in 1 .. Cardinality(S) : r(S, i) \in S
  BY <1>1, RankedAnyhow
<1>2. /\ \A x \in DOMAIN cur : IsColumn(cur[x])
      /\ \A x \in DOMAIN des : IsColumn(des[x])
  BY DEF Columns
<1>3. /\ Removed(cur, des) \subseteq DOMAIN cur /\ Added(cur, des) \subseteq DOMAIN des
      /\ Changed(cur, des) \subseteq DOMAIN cur /\ Changed(cur, des) \subseteq DOMAIN des
      /\ IsFiniteSet(Removed(cur, des)) /\ IsFiniteSet(Added(cur, des)) /\ IsFiniteSet(Changed(cur, des))
  BY DifferenceFinite DEF Columns, Removed, Added, Changed
<1> HIDE DEF r
<1>4. ASSUME NEW S, IsFiniteSet(S), S \subseteq DOMAIN cur PROVE SparingSteps(drops(S))
  <2>1. \A i \in 1 .. Cardinality(S) : IsColumn(cur[r(S, i)])
    BY <1>1, <1>2, <1>4
  <2> QED
    BY <1>4, <2>1, SpareColumn, StepsInOrder
<1>5. ASSUME NEW S, IsFiniteSet(S), S \subseteq DOMAIN des PROVE SparingSteps(adds(S))
  <2>1. \A i \in 1 .. Cardinality(S) : IsColumn(des[r(S, i)])
    BY <1>1, <1>2, <1>5
  <2> QED
    BY <1>5, <2>1, SpareColumn, StepsInOrder
<1>6. ASSUME NEW S, IsFiniteSet(S), S \subseteq DOMAIN cur, S \subseteq DOMAIN des
      PROVE  SparingSteps(FlattenSeq(changes(S)))
  <2>1. \A i \in 1 .. Cardinality(S) : IsColumn(cur[r(S, i)]) /\ IsColumn(des[r(S, i)])
    BY <1>1, <1>2, <1>6
  <2> QED
    BY <1>6, <2>1, ColumnsChanged, StepsFlattened
<1>7. ColumnSteps(t, cur, des) =
        drops(Removed(cur, des)) \o adds(Added(cur, des)) \o FlattenSeq(changes(Changed(cur, des)))
  BY DEF ColumnSteps, InAnyOrder, InOrder, r
<1> HIDE DEF drops, adds, changes
<1> QED
  BY <1>3, <1>4, <1>5, <1>6, <1>7, StepsJoined

LEMMA ConstraintsFinite ==
  ASSUME NEW cur, NEW des, IsFiniteSet(cur), IsFiniteSet(des)
  PROVE  /\ IsFiniteSet(AddedConstraints(cur, des))
         /\ IsFiniteSet(RemovedConstraints(cur, des))
         /\ \A S \in SUBSET ChangedConstraints(cur, des) : IsFiniteSet(S)
<1>1. /\ AddedConstraints(cur, des) \in SUBSET des
      /\ RemovedConstraints(cur, des) \in SUBSET cur
      /\ ChangedConstraints(cur, des) \in SUBSET (cur \X des)
  BY DEF AddedConstraints, RemovedConstraints, ChangedConstraints, Matches, SemanticMatches,
         NameMatches
<1>2. IsFiniteSet(cur \X des)
  BY FS_Product
<1>3. \A S \in SUBSET ChangedConstraints(cur, des) : S \in SUBSET (cur \X des)
  BY <1>1
<1> QED
  BY <1>1, <1>2, <1>3, FS_Subset

\* What the steps of a revision leave of the constraints of a table, and what
\* they add: a changed one is dropped and added (migration.go).
Left(cur, des) ==
  cur \ (RemovedConstraints(cur, des) \cup {p[1] : p \in ChangedConstraints(cur, des)})

Coming(cur, des) ==
  AddedConstraints(cur, des) \cup {p[2] : p \in ChangedConstraints(cur, des)}

\* Every element has its place.
LEMMA RankedAll ==
  ASSUME NEW S, IsFiniteSet(S), NEW rank \in [S -> Int]
  PROVE  {Ranked(S, rank)[i] : i \in 1 .. Cardinality(S)} = S
<1> DEFINE n   == Cardinality(S)
           seq == Ranked(S, rank)
<1>1. seq \in [1 .. n -> S] /\ IsInjective(seq)
  BY RankedIn
<1>2. n \in Nat
  BY FS_CardinalityType
<1>3. IsFiniteSet(1 .. n) /\ Cardinality(1 .. n) = n
  BY <1>2, FS_Interval
<1> HIDE DEF seq
<1>4. seq \in Injection(1 .. n, S)
  BY <1>1 DEF Injection
<1>5. seq \in Surjection(1 .. n, S)
  BY <1>3, <1>4, FS_Injection
<1> QED
  BY <1>1, <1>5 DEF Surjection, seq

\* The steps that take constraints away and those that bring them are for
\* exactly the ones that do not stay and the ones that come.
LEMMA ConstraintStepsAre ==
  ASSUME NEW t, NEW cur, NEW des, IsFiniteSet(cur), IsFiniteSet(des),
         \A c \in cur \cup des : c.kind \in DOMAIN KindOrder
  PROVE  /\ IsList(DroppedConstraintSteps(t, cur, des)) /\ IsList(AddedConstraintSteps(t, cur, des))
         /\ ToSet(DroppedConstraintSteps(t, cur, des)) =
              {Undo(AddConstraintStep(t, c)) : c \in cur \ Left(cur, des)}
         /\ ToSet(AddedConstraintSteps(t, cur, des)) =
              {AddConstraintStep(t, d) : d \in Coming(cur, des)}
<1> DEFINE rank(S)  == [e \in S |-> KindOrder[e.kind]]
           ranks(S) == [e \in S |-> KindOrder[e[2].kind]]
           size(S)  == Cardinality(S)
           drops(S) == [i \in 1 .. size(S) |-> Undo(AddConstraintStep(t, Ranked(S, rank(S))[i]))]
           adds(S)  == [i \in 1 .. size(S) |-> AddConstraintStep(t, Ranked(S, rank(S))[i])]
           olds(S)  == [i \in 1 .. size(S) |->
                          Undo(AddConstraintStep(t, Ranked(S, ranks(S))[i][1]))]
           news(S)  == [i \in 1 .. size(S) |-> AddConstraintStep(t, Ranked(S, ranks(S))[i][2])]
           changed  == ChangedConstraints(cur, des)
           same     == SemanticMatches(cur, des)
<1>1. /\ RemovedConstraints(cur, des) \subseteq cur
      /\ AddedConstraints(cur, des) \subseteq des
      /\ changed \subseteq cur \X des
  BY DEF AddedConstraints, RemovedConstraints, ChangedConstraints, Matches, SemanticMatches,
         NameMatches
<1>2. \A k \in DOMAIN KindOrder : KindOrder[k] \in Int
  BY DEF KindOrder
<1>3. ASSUME NEW S \in SUBSET (cur \cup des), IsFiniteSet(S)
      PROVE  /\ IsList(drops(S)) /\ ToSet(drops(S)) = {Undo(AddConstraintStep(t, c)) : c \in S}
             /\ IsList(adds(S)) /\ ToSet(adds(S)) = {AddConstraintStep(t, c) : c \in S}
  <2> DEFINE seq == Ranked(S, rank(S))
  <2>1. rank(S) \in [S -> Int]
    BY <1>2
  <2>2. size(S) \in Nat /\ {seq[i] : i \in 1 .. size(S)} = S
    BY <1>3, <2>1, FS_CardinalityType, RankedAll
  <2>3. /\ IsList(drops(S)) /\ ToSet(drops(S)) = {drops(S)[i] : i \in 1 .. size(S)}
        /\ IsList(adds(S)) /\ ToSet(adds(S)) = {adds(S)[i] : i \in 1 .. size(S)}
    BY <2>2, MapIsList
  <2>4. \A i \in 1 .. size(S) : /\ drops(S)[i] = Undo(AddConstraintStep(t, seq[i]))
                                /\ adds(S)[i] = AddConstraintStep(t, seq[i])
    OBVIOUS
  <2> HIDE DEF seq, drops, adds
  <2> QED
    BY <2>2, <2>3, <2>4
<1>4. ASSUME NEW S \in SUBSET (cur \X des), IsFiniteSet(S)
      PROVE  /\ IsList(olds(S)) /\ ToSet(olds(S)) = {Undo(AddConstraintStep(t, p[1])) : p \in S}
             /\ IsList(news(S)) /\ ToSet(news(S)) = {AddConstraintStep(t, p[2]) : p \in S}
  <2> DEFINE seq == Ranked(S, ranks(S))
  <2>1. ranks(S) \in [S -> Int]
    BY <1>2
  <2>2. size(S) \in Nat /\ {seq[i] : i \in 1 .. size(S)} = S
    BY <1>4, <2>1, FS_CardinalityType, RankedAll
  <2>3. /\ IsList(olds(S)) /\ ToSet(olds(S)) = {olds(S)[i] : i \in 1 .. size(S)}
        /\ IsList(news(S)) /\ ToSet(news(S)) = {news(S)[i] : i \in 1 .. size(S)}
    BY <2>2, MapIsList
  <2>4. \A i \in 1 .. size(S) : /\ olds(S)[i] = Undo(AddConstraintStep(t, seq[i][1]))
                                /\ news(S)[i] = AddConstraintStep(t, seq[i][2])
    OBVIOUS
  <2> HIDE DEF seq, olds, news
  <2> QED
    BY <2>2, <2>3, <2>4
<1>5. /\ DroppedConstraintSteps(t, cur, des) =
           drops(RemovedConstraints(cur, des)) \o (olds(changed \cap same) \o olds(changed \ same))
      /\ AddedConstraintSteps(t, cur, des) =
           (news(changed \cap same) \o news(changed \ same)) \o adds(AddedConstraints(cur, des))
  BY DEF DroppedConstraintSteps, AddedConstraintSteps, ForChanged, ByKind, PairsByKind, InOrder
<1>6. /\ IsFiniteSet(changed \cap same) /\ changed \cap same \in SUBSET (cur \X des)
      /\ IsFiniteSet(changed \ same) /\ changed \ same \in SUBSET (cur \X des)
      /\ IsFiniteSet(RemovedConstraints(cur, des)) /\ IsFiniteSet(AddedConstraints(cur, des))
  BY <1>1, ConstraintsFinite
<1> DEFINE both == changed \cap same
           rest == changed \ same
<1>7. both \cup rest = changed
  OBVIOUS
<1> HIDE DEF drops, adds, olds, news, both, rest, changed
<1> DEFINE gone == drops(RemovedConstraints(cur, des))
           come == adds(AddedConstraints(cur, des))
<1>14. /\ IsList(gone) /\ IsList(olds(both)) /\ IsList(olds(rest))
       /\ IsList(come) /\ IsList(news(both)) /\ IsList(news(rest))
  BY <1>1, <1>3, <1>4, <1>6 DEF both, rest
<1>15. /\ DroppedConstraintSteps(t, cur, des) = gone \o (olds(both) \o olds(rest))
       /\ AddedConstraintSteps(t, cur, des) = (news(both) \o news(rest)) \o come
  BY <1>5 DEF both, rest
<1> HIDE DEF gone, come
<1>8. /\ IsList(DroppedConstraintSteps(t, cur, des))
      /\ ToSet(DroppedConstraintSteps(t, cur, des)) = ToSet(gone) \cup (ToSet(olds(both)) \cup ToSet(olds(rest)))
  BY <1>14, <1>15, ListsJoined
<1>9. /\ IsList(AddedConstraintSteps(t, cur, des))
      /\ ToSet(AddedConstraintSteps(t, cur, des)) = (ToSet(news(both)) \cup ToSet(news(rest))) \cup ToSet(come)
  BY <1>14, <1>15, ListsJoined
<1> DEFINE away(c)  == Undo(AddConstraintStep(t, c))
           there(c) == AddConstraintStep(t, c)
<1>10. ToSet(DroppedConstraintSteps(t, cur, des)) =
         {away(c) : c \in RemovedConstraints(cur, des)}
           \cup ({away(p[1]) : p \in both} \cup {away(p[1]) : p \in rest})
  BY <1>1, <1>3, <1>4, <1>6, <1>8 DEF both, rest, gone
<1>11. ToSet(AddedConstraintSteps(t, cur, des)) =
         ({there(p[2]) : p \in both} \cup {there(p[2]) : p \in rest})
           \cup {there(d) : d \in AddedConstraints(cur, des)}
  BY <1>1, <1>3, <1>4, <1>6, <1>9 DEF both, rest, come
<1> HIDE DEF away, there
<1>12. ToSet(DroppedConstraintSteps(t, cur, des)) = {away(c) : c \in cur \ Left(cur, des)}
  <2>1. \A c : c \in cur \ Left(cur, des) <=>
                 c \in RemovedConstraints(cur, des) \/ \E p \in both \cup rest : c = p[1]
    BY <1>1, <1>7 DEF Left, changed
  <2> QED
    BY <1>10, <2>1
<1>13. ToSet(AddedConstraintSteps(t, cur, des)) = {there(d) : d \in Coming(cur, des)}
  <2>1. \A d : d \in Coming(cur, des) <=>
                 d \in AddedConstraints(cur, des) \/ \E p \in both \cup rest : d = p[2]
    BY <1>7 DEF Coming, changed
  <2> QED
    BY <1>11, <2>1
<1> QED
  BY <1>8, <1>9, <1>12, <1>13 DEF away, there

LEMMA ConstraintStepsSpare ==
  ASSUME NEW t, t # VersionTable, NEW cur, NEW des, Constraints(cur), Constraints(des)
  PROVE  /\ SparingSteps(DroppedConstraintSteps(t, cur, des))
         /\ SparingSteps(AddedConstraintSteps(t, cur, des))
<1>1. \A c \in cur \cup des : IsConstraint(c) /\ c.kind \in DOMAIN KindOrder
  BY DEF Constraints, IsConstraint
<1>2. /\ IsList(DroppedConstraintSteps(t, cur, des)) /\ IsList(AddedConstraintSteps(t, cur, des))
      /\ ToSet(DroppedConstraintSteps(t, cur, des)) =
           {Undo(AddConstraintStep(t, c)) : c \in cur \ Left(cur, des)}
      /\ ToSet(AddedConstraintSteps(t, cur, des)) = {AddConstraintStep(t, d) : d \in Coming(cur, des)}
  BY <1>1, ConstraintStepsAre DEF Constraints
<1>3. Coming(cur, des) \subseteq des
  BY DEF Coming, AddedConstraints, ChangedConstraints, Matches, SemanticMatches, NameMatches
<1> QED
  BY <1>1, <1>2, <1>3, SpareConstraint DEF SparingSteps

LEMMA TableChanged ==
  ASSUME NEW t, t # VersionTable, NEW cur, NEW des, Parts(cur), Parts(des)
  PROVE  SparingSteps(TableDiffSteps(t, cur, des))
<1>1. /\ SparingSteps(DroppedIndexSteps(t, cur.indexes, des.indexes))
      /\ SparingSteps(DroppedConstraintSteps(t, cur.constraints, des.constraints))
      /\ SparingSteps(ColumnSteps(t, cur.columns, des.columns))
      /\ SparingSteps(AddedConstraintSteps(t, cur.constraints, des.constraints))
      /\ SparingSteps(CreatedIndexSteps(t, cur.indexes, des.indexes))
  BY IndexesDropped, ConstraintStepsSpare, ColumnStepsSpare, IndexesCreated DEF Parts
<1> QED
  BY <1>1, StepsJoined DEF TableDiffSteps

\* No step of a migration is about the version table, and there are finitely
\* many of them, if the version table is in neither of the two schemas.
LEMMA StepsSpare ==
  ASSUME NEW cur, NEW des, Shaped(cur), Shaped(des),
         VersionTable \notin DOMAIN cur, VersionTable \notin DOMAIN des
  PROVE  SparingSteps(MigrationSteps(cur, des))
<1> DEFINE r(S, i) == Ranked(S, [t \in S |-> t])[i]
           adds(S)    == [i \in 1 .. Cardinality(S) |-> AddedTableSteps(r(S, i), des[r(S, i)])]
           removes(S) == [i \in 1 .. Cardinality(S) |-> RemovedTableSteps(r(S, i), cur[r(S, i)])]
           changes(S) == [i \in 1 .. Cardinality(S) |->
                            TableDiffSteps(r(S, i), cur[r(S, i)], des[r(S, i)])]
<1>1. ASSUME NEW S, IsFiniteSet(S), S \subseteq DOMAIN cur \cup DOMAIN des
      PROVE  \A i \in 1 .. Cardinality(S) : r(S, i) \in S
  <2>1. [t \in S |-> t] \in [S -> Int]
    BY <1>1 DEF Shaped, FiniteSchema
  <2>2. Ranked(S, [t \in S |-> t]) \in [1 .. Cardinality(S) -> S]
    BY <1>1, <2>1, RankedIn
  <2> QED
    BY <2>2
<1>2. \A t \in DOMAIN cur : t \in Nat /\ t # VersionTable /\ Parts(cur[t])
  BY DEF Shaped, FiniteSchema, FiniteTable, Parts, Columns, Constraints
<1>3. \A t \in DOMAIN des : t \in Nat /\ t # VersionTable /\ Parts(des[t])
  BY DEF Shaped, FiniteSchema, FiniteTable, Parts, Columns, Constraints
<1> HIDE DEF r
<1>4. ASSUME NEW S, IsFiniteSet(S), S \subseteq DOMAIN des
      PROVE  SparingSteps(FlattenSeq(adds(S)))
  BY <1>1, <1>3, <1>4, TableAdded, StepsFlattened
<1>5. ASSUME NEW S, IsFiniteSet(S), S \subseteq DOMAIN cur
      PROVE  SparingSteps(FlattenSeq(removes(S)))
  BY <1>1, <1>2, <1>5, TableRemoved, StepsFlattened
<1>6. ASSUME NEW S, IsFiniteSet(S), S \subseteq DOMAIN cur, S \subseteq DOMAIN des
      PROVE  SparingSteps(FlattenSeq(changes(S)))
  BY <1>1, <1>2, <1>3, <1>6, TableChanged, StepsFlattened
<1>7. MigrationSteps(cur, des) =
        FlattenSeq(adds(Added(cur, des))) \o FlattenSeq(removes(Removed(cur, des)))
          \o FlattenSeq(changes(ChangedTables(cur, des)))
  BY DEF MigrationSteps, ByName, InOrder, r
<1>8. /\ IsFiniteSet(Added(cur, des)) /\ Added(cur, des) \subseteq DOMAIN des
      /\ IsFiniteSet(Removed(cur, des)) /\ Removed(cur, des) \subseteq DOMAIN cur
  BY DifferenceFinite DEF Shaped, FiniteSchema, Added, Removed
<1>9. /\ ChangedTables(cur, des) \subseteq DOMAIN cur
      /\ ChangedTables(cur, des) \subseteq DOMAIN des
      /\ IsFiniteSet(ChangedTables(cur, des))
  <2>1. ChangedTables(cur, des) \in SUBSET DOMAIN cur /\ ChangedTables(cur, des) \subseteq DOMAIN des
    BY DEF ChangedTables
  <2> QED
    BY <2>1, FS_Subset DEF Shaped, FiniteSchema
<1> HIDE DEF adds, removes, changes
<1> QED
  BY <1>4, <1>5, <1>6, <1>7, <1>8, <1>9, StepsJoined

\* The statements of such steps.
LEMMA WrittenSpare ==
  ASSUME NEW ss, IsList(ss), \A s \in ToSet(ss) : s = Nothing \/ Decent(s)
  PROVE  SparingList(Written(ss))
<1> DEFINE n == Len(ss)
           w == [i \in DOMAIN ss |-> IF ss[i] = Nothing THEN <<>> ELSE <<ss[i]>>]
<1>1. n \in Nat /\ DOMAIN ss = 1 .. n /\ \A i \in 1 .. n : ss[i] \in ToSet(ss)
  BY ListLength
<1>2. \A i \in 1 .. n : IsList(w[i]) /\ \A s \in ToSet(w[i]) : Decent(s)
  <2> SUFFICES ASSUME NEW i \in 1 .. n PROVE IsList(w[i]) /\ \A s \in ToSet(w[i]) : Decent(s)
    OBVIOUS
  <2>1. CASE ss[i] = Nothing
    BY <1>1, <2>1, EmptyList
  <2>2. CASE ss[i] # Nothing
    <3>1. w[i] = <<ss[i]>> /\ Decent(ss[i])
      BY <1>1, <2>2
    <3>2. IsList(<<ss[i]>>) /\ ToSet(<<ss[i]>>) = {ss[i]}
      BY SingleList
    <3> QED
      BY <3>1, <3>2
  <2> QED
    BY <2>1, <2>2
<1>3. IsList(w) /\ ToSet(w) = {w[i] : i \in 1 .. n}
  BY <1>1, MapIsList
<1>4. Written(ss) = FlattenSeq(w)
  BY DEF Written
<1> HIDE DEF w
<1>5. /\ IsList(FlattenSeq(w))
      /\ ToSet(FlattenSeq(w)) \subseteq UNION {ToSet(s) : s \in ToSet(w)}
  BY <1>2, <1>3, ListsFlattened
<1>6. \A l \in ToSet(w) : \A s \in ToSet(l) : Decent(s)
  BY <1>2, <1>3
<1>7. \A s \in ToSet(FlattenSeq(w)) : Decent(s)
  BY <1>5, <1>6
<1> QED
  BY <1>4, <1>5, <1>7 DEF SparingList, Decent, IsList

LEMMA StatementsSpare ==
  ASSUME NEW steps, SparingSteps(steps)
  PROVE  SparingList(UpStatements(steps)) /\ SparingList(DownStatements(steps))
<1> DEFINE n == Len(steps)
           ups == [i \in DOMAIN steps |-> steps[i].up]
           downs == [i \in DOMAIN steps |-> steps[i].down]
<1>1. /\ n \in Nat /\ DOMAIN steps = 1 .. n
      /\ \A i \in 1 .. n : SparingStep(steps[i])
  BY ListLength DEF SparingSteps
<1>2. IsList(ups) /\ \A s \in ToSet(ups) : s = Nothing \/ Decent(s)
  <2>1. IsList(ups) /\ ToSet(ups) = {ups[i] : i \in 1 .. n}
    BY <1>1, MapIsList
  <2> QED
    BY <1>1, <2>1 DEF SparingStep
<1>3. IsList(downs) /\ \A s \in ToSet(downs) : s = Nothing \/ Decent(s)
  <2>1. IsList(downs) /\ ToSet(downs) = {downs[i] : i \in 1 .. n}
    BY <1>1, MapIsList
  <2> QED
    BY <1>1, <2>1 DEF SparingStep
<1>4. UpStatements(steps) = Written(ups) /\ DownStatements(steps) = Written(Reverse(downs))
  BY DEF UpStatements, DownStatements
<1> HIDE DEF ups, downs
<1>5. IsList(Reverse(downs)) /\ \A s \in ToSet(Reverse(downs)) : s = Nothing \/ Decent(s)
  BY <1>3, ListReversed
<1> QED
  BY <1>2, <1>4, <1>5, WrittenSpare

-----------------------------------------------------------------------------
(* Transactions.                                                           *)

\* The catalogs that a transaction goes through up to its k-th statement.
Follows(f, k, cat, statements) ==
  f = [i \in 0 .. k |-> IF i = 0 THEN [ok |-> TRUE, db |-> cat]
                        ELSE Executed(f[i - 1], statements[i])]

LEMMA FollowsAt ==
  ASSUME NEW cat, NEW statements, NEW k, NEW f, Follows(f, k, cat, statements),
         NEW i \in 0 .. k
  PROVE  f[i] = IF i = 0 THEN [ok |-> TRUE, db |-> cat]
                ELSE Executed(f[i - 1], statements[i])
<1> DEFINE g == [j \in 0 .. k |-> IF j = 0 THEN [ok |-> TRUE, db |-> cat]
                                   ELSE Executed(f[j - 1], statements[j])]
<1>1. f = g
  BY DEF Follows
<1>2. g[i] = IF i = 0 THEN [ok |-> TRUE, db |-> cat] ELSE Executed(f[i - 1], statements[i])
  OBVIOUS
<1> HIDE DEF g
<1> QED
  BY <1>1, <1>2

\* They are well defined: one for each statement.
LEMMA RunDefined ==
  ASSUME NEW cat, NEW statements, Len(statements) \in Nat
  PROVE  \E after :
           /\ after[0] = [ok |-> TRUE, db |-> cat]
           /\ \A i \in 1 .. Len(statements) :
                after[i] = Executed(after[i - 1], statements[i])
           /\ Run(cat, statements) = after[Len(statements)]
<1> DEFINE n == Len(statements)
           start == [ok |-> TRUE, db |-> cat]
           S == {k \in 0 .. n : \E f : Follows(f, k, cat, statements)}
<1>1. 0 \in S
  <2> DEFINE f == [i \in 0 .. 0 |-> start]
  <2>1. Follows(f, 0, cat, statements)
    BY DEF Follows
  <2> HIDE DEF f
  <2> QED
    BY <2>1
<1>2. ASSUME NEW k \in 0 .. n - 1, k \in S PROVE k + 1 \in S
  <2>1. PICK f : Follows(f, k, cat, statements)
    BY <1>2
  <2> DEFINE g == [i \in 0 .. k + 1 |-> IF i <= k THEN f[i] ELSE Executed(f[k], statements[k + 1])]
  <2>2. ASSUME NEW i \in 0 .. k + 1
        PROVE  g[i] = IF i = 0 THEN start ELSE Executed(g[i - 1], statements[i])
    <3> HIDE DEF start
    <3>1. CASE i <= k
      <4>1. g[i] = f[i] /\ (i # 0 => g[i - 1] = f[i - 1])
        BY <3>1
      <4>2. f[i] = IF i = 0 THEN start ELSE Executed(f[i - 1], statements[i])
        <5>1. i \in 0 .. k
          BY <3>1
        <5>2. f[i] = IF i = 0 THEN [ok |-> TRUE, db |-> cat] ELSE Executed(f[i - 1], statements[i])
          BY <2>1, <5>1, FollowsAt
        <5> QED
          BY <5>2 DEF start
      <4> QED
        BY <4>1, <4>2
    <3>2. CASE i = k + 1
      BY <3>2
    <3> QED
      BY <3>1, <3>2
  <2>3. Follows(g, k + 1, cat, statements)
    BY <2>2, Zenon DEF Follows
  <2> HIDE DEF g
  <2>4. k + 1 \in 0 .. n
    OBVIOUS
  <2> QED
    BY <2>3, <2>4
<1>3. n \in S
  <2> HIDE DEF S
  <2>1. n \in Nat
    OBVIOUS
  <2>2. \A i \in 0 .. n - 1 : i \in S => i + 1 \in S
    BY <1>2
  <2> HIDE DEF n
  <2>3. \A i \in 0 .. n : i \in S
    BY <1>1, <2>1, <2>2, UpTo
  <2> QED
    BY <2>1, <2>3
<1> DEFINE after[i \in 0 .. n] == IF i = 0 THEN start ELSE Executed(after[i - 1], statements[i])
<1>4. Follows(after, n, cat, statements)
  <2>1. \E f : Follows(f, n, cat, statements)
    BY <1>3
  <2> QED
    BY <2>1 DEF Follows
<1>5. Run(cat, statements) = after[n]
  BY DEF Run
<1> HIDE DEF after
<1>6. /\ after[0] = start
      /\ \A i \in 1 .. n : after[i] = Executed(after[i - 1], statements[i])
  <2> HIDE DEF n
  <2>1. ASSUME NEW i \in 0 .. n
        PROVE  after[i] = IF i = 0 THEN start ELSE Executed(after[i - 1], statements[i])
    BY <1>4, FollowsAt
  <2>2. n \in Nat
    BY DEF n
  <2> HIDE DEF start
  <2> QED
    BY <2>1, <2>2
<1> QED
  BY <1>5, <1>6

-----------------------------------------------------------------------------
(* The catalog.                                                            *)

Fine(table) == CompleteTable(table) /\ ConstraintsNamed(table) /\ FiniteTable(table)

LEMMA FineCatalog ==
  ASSUME NEW cat
  PROVE  CatalogOK(cat) <=>
           /\ cat = [t \in DOMAIN cat |-> cat[t]]
           /\ DOMAIN cat \subseteq Nat /\ IsFiniteSet(DOMAIN cat)
           /\ \A t \in DOMAIN cat : Fine(cat[t])
           /\ VersionTable \in DOMAIN cat => cat[VersionTable] = VersionTableDef
BY DEF CatalogOK, FiniteSchema, Fine

\* What PostgreSQL makes of a catalog leaves the version table.
Kept(cat, after) ==
  /\ CatalogOK(after)
  /\ VersionTable \in DOMAIN cat => VersionTable \in DOMAIN after

\* The empty list is the function from nothing.
LEMMA NoNames ==
  /\ DOMAIN <<>> = {}
  /\ <<>> = [x \in {} |-> x]
<1>1. <<>> \in Seq({}) /\ Len(<<>>) = 0
  OBVIOUS
<1>2. DOMAIN <<>> = 1 .. Len(<<>>) /\ <<>> \in [1 .. 0 -> {}]
  BY <1>1
<1>3. DOMAIN <<>> = {}
  BY <1>1, <1>2
<1>4. <<>> = [x \in 1 .. 0 |-> <<>>[x]]
  BY <1>2
<1> QED
  BY <1>3, <1>4

LEMMA IndexesReplaced ==
  ASSUME NEW columns, NEW constraints, NEW indexes, NEW new, NEW table,
         table = [columns |-> columns, constraints |-> constraints, indexes |-> indexes]
  PROVE  [table EXCEPT !.indexes = new] =
           [columns |-> columns, constraints |-> constraints, indexes |-> new]
OBVIOUS

\* A table without indexes.
LEMMA NoIndexesComplete ==
  ASSUME NEW columns, NEW constraints, NEW indexes, indexes = <<>>
  PROVE  CompleteTable([columns |-> columns, constraints |-> constraints, indexes |-> indexes])
<1>1. DOMAIN indexes = {} /\ indexes = [x \in {} |-> x]
  BY NoNames
<1> QED
  BY <1>1 DEF CompleteTable, IsTable

\* One table changes.
LEMMA OneChanges ==
  ASSUME NEW cat, CatalogOK(cat), NEW t \in DOMAIN cat, t # VersionTable,
         NEW after, NEW table, after = [cat EXCEPT ![t] = table], Fine(table)
  PROVE  Kept(cat, after)
<1>1. DOMAIN after = DOMAIN cat /\ after[t] = table /\ \A u \in DOMAIN cat \ {t} : after[u] = cat[u]
  OBVIOUS
<1>2. after = [u \in DOMAIN after |-> after[u]]
  OBVIOUS
<1> QED
  BY <1>1, <1>2, FineCatalog DEF Kept

\* One table more, or in place of another.
LEMMA OneMore ==
  ASSUME NEW cat, CatalogOK(cat), NEW t \in Nat, NEW table, Fine(table),
         t = VersionTable => table = VersionTableDef
  PROVE  Kept(cat, Extended(cat, t, table))
<1> DEFINE after == Extended(cat, t, table)
<1>1. /\ DOMAIN after = DOMAIN cat \cup {t} /\ after[t] = table
      /\ \A u \in DOMAIN cat \ {t} : after[u] = cat[u]
      /\ after = [u \in DOMAIN after |-> after[u]]
  BY DEF Extended
<1>2. IsFiniteSet(DOMAIN cat) => IsFiniteSet(DOMAIN cat \cup {t})
  BY FS_AddElement
<1> HIDE DEF after
<1>3. /\ DOMAIN cat \subseteq Nat /\ IsFiniteSet(DOMAIN cat)
      /\ \A u \in DOMAIN cat : Fine(cat[u])
      /\ VersionTable \in DOMAIN cat => cat[VersionTable] = VersionTableDef
  BY FineCatalog
<1>4. \A u \in DOMAIN after : Fine(after[u])
  BY <1>1, <1>3
<1>5. VersionTable \in DOMAIN after => after[VersionTable] = VersionTableDef
  BY <1>1, <1>3
<1>6. CatalogOK(after)
  BY <1>1, <1>2, <1>3, <1>4, <1>5, FineCatalog
<1> QED
  BY <1>1, <1>6 DEF Kept, after

\* Every constraint has a name once it is stored.
LEMMA StoredHasName ==
  ASSUME NEW t, NEW c
  PROVE  StoredConstraint(t, c).name # Unnamed
BY DEF StoredConstraint, DropName, Unnamed

LEMMA ColumnsChange ==
  ASSUME NEW table, Fine(table), NEW columns, IsFiniteSet(DOMAIN columns)
  PROVE  Fine([table EXCEPT !.columns = columns])
BY DEF Fine, CompleteTable, IsTable, ConstraintsNamed, FiniteTable

LEMMA ConstraintsChange ==
  ASSUME NEW table, Fine(table), NEW S, IsFiniteSet(S),
         \A c, e \in S : c.name # Unnamed /\ (c.name = e.name => c = e)
  PROVE  Fine([table EXCEPT !.constraints = S])
BY DEF Fine, CompleteTable, IsTable, ConstraintsNamed, FiniteTable

IndexesFine(indexes) ==
  /\ indexes = [x \in DOMAIN indexes |-> [columns |-> indexes[x].columns,
                                          unique  |-> indexes[x].unique,
                                          method  |-> indexes[x].method]]
  /\ IsFiniteSet(DOMAIN indexes)

LEMMA FineIndexes ==
  ASSUME NEW table, Fine(table)
  PROVE  IndexesFine(table.indexes)
BY DEF Fine, CompleteTable, IsTable, FiniteTable, IndexesFine

LEMMA IndexesChange ==
  ASSUME NEW table, Fine(table), NEW indexes, IndexesFine(indexes)
  PROVE  Fine([table EXCEPT !.indexes = indexes])
BY DEF Fine, CompleteTable, IsTable, ConstraintsNamed, IndexesFine, FiniteTable

LEMMA IndexStored ==
  ASSUME NEW indexes, IndexesFine(indexes), NEW x, NEW i
  PROVE  IndexesFine(Extended(indexes, x, StoredIndex(i)))
<1>1. IsFiniteSet(DOMAIN indexes \cup {x})
  BY FS_AddElement DEF IndexesFine
<1> QED
  BY <1>1 DEF IndexesFine, Extended, StoredIndex

LEMMA IndexesLeft ==
  ASSUME NEW indexes, IndexesFine(indexes), NEW S \in SUBSET DOMAIN indexes
  PROVE  IndexesFine(Restrict(indexes, S))
<1>1. IsFiniteSet(S)
  BY FS_Subset DEF IndexesFine
<1> QED
  BY <1>1 DEF IndexesFine, Restrict

LEMMA ColumnDropped ==
  ASSUME NEW table, Fine(table), NEW x
  PROVE  Fine(WithoutColumn(table, x))
<1> DEFINE S == {y \in DOMAIN table.indexes : x \notin table.indexes[y].columns}
           w == WithoutColumn(table, x)
<1>1. IndexesFine(Restrict(table.indexes, S))
  BY FineIndexes, IndexesLeft
<1>2. w.indexes = Restrict(table.indexes, S)
  BY DEF WithoutColumn, RestrictValues
<1>3. w = [columns |-> w.columns, constraints |-> w.constraints, indexes |-> w.indexes]
  BY DEF WithoutColumn
<1>4. w.constraints \in SUBSET table.constraints
  BY DEF WithoutColumn
<1>5. DOMAIN w.columns \in SUBSET DOMAIN table.columns
  BY DEF WithoutColumn, Restrict
<1> HIDE DEF w
<1>6. IsFiniteSet(w.constraints) /\ IsFiniteSet(DOMAIN w.columns)
  BY <1>4, <1>5, FS_Subset DEF Fine, FiniteTable
<1>7. FiniteTable(w)
  BY <1>1, <1>2, <1>6 DEF FiniteTable, IndexesFine
<1>8. CompleteTable(w)
  BY <1>1, <1>2, <1>3 DEF CompleteTable, IsTable, IndexesFine
<1>9. ConstraintsNamed(w)
  BY <1>4 DEF Fine, ConstraintsNamed
<1> QED
  BY <1>7, <1>8, <1>9 DEF Fine, w

LEMMA ColumnPut ==
  ASSUME NEW table, Fine(table), NEW x, NEW c
  PROVE  Fine(WithColumn(table, x, c))
<1> DEFINE columns == Extended(table.columns, x, StoredColumn(c))
<1>1. IsFiniteSet(DOMAIN table.columns \cup {x})
  BY FS_AddElement DEF Fine, FiniteTable
<1>2. DOMAIN columns = DOMAIN table.columns \cup {x}
  BY DEF Extended
<1>3. WithColumn(table, x, c) = [table EXCEPT !.columns = columns]
  BY DEF WithColumn
<1> HIDE DEF columns
<1> QED
  BY <1>1, <1>2, <1>3, ColumnsChange

LEMMA CreatedFine ==
  ASSUME NEW s, Spares(s), s.op = "create table",
         \A c, d \in Created(s).constraints : c.name = d.name => c = d
  PROVE  Fine(Created(s))
<1> DEFINE f == [c \in s.constraints |-> StoredConstraint(s.table, c)]
<1>1. f \in Surjection(s.constraints, Created(s).constraints)
  BY DEF Created, Surjection
<1>2. IsFiniteSet(Created(s).constraints)
  <2>1. IsFiniteSet(s.constraints)
    BY DEF Spares
  <2> HIDE DEF f
  <2> QED
    BY <1>1, <2>1, FS_Surjection
<1>3. IsFiniteSet(DOMAIN Created(s).columns)
  BY DEF Created, Spares
<1>4. IsFiniteSet(DOMAIN Created(s).indexes)
  <2>1. DOMAIN Created(s).indexes = {}
    BY NoNames DEF Created
  <2> QED
    BY <2>1, FS_EmptySet
<1>5. \A c \in Created(s).constraints : c.name # Unnamed
  BY StoredHasName DEF Created
<1>6. CompleteTable(Created(s))
  <2> DEFINE columns     == [x \in DOMAIN s.columns |-> StoredColumn(s.columns[x])]
             constraints == {StoredConstraint(s.table, c) : c \in s.constraints}
             indexes     == <<>>
  <2>1. Created(s) = [columns |-> columns, constraints |-> constraints, indexes |-> indexes]
    BY DEF Created
  <2>2. indexes = <<>>
    OBVIOUS
  <2> HIDE DEF columns, constraints, indexes
  <2> QED
    BY <2>1, <2>2, NoIndexesComplete
<1> QED
  BY <1>2, <1>3, <1>4, <1>5, <1>6 DEF Fine, FiniteTable, ConstraintsNamed

\* Whatever PostgreSQL accepts leaves a catalog in which every constraint has
\* a name of its own, and with the version table as it was.
LEMMA StatementKeeps ==
  ASSUME NEW cat, CatalogOK(cat), NEW s, Spares(s), Accepts(cat, s)
  PROVE  Kept(cat, Effect(cat, s))
<1> DEFINE t == s.table
<1>1. CASE s.op = "create table"
  <2>1. Effect(cat, s) = Extended(cat, t, Created(s))
    BY <1>1 DEF Effect
  <2>2. \A c, d \in Created(s).constraints : c.name = d.name => c = d
    BY <1>1 DEF Accepts
  <2>3. Fine(Created(s))
    BY <1>1, <2>2, CreatedFine
  <2>4. t \in Nat /\ t # VersionTable
    BY <1>1 DEF Spares
  <2> QED
    BY <2>1, <2>3, <2>4, OneMore
<1>2. CASE s.op = "drop table"
  <2> DEFINE after == Effect(cat, s)
  <2>1. after = [u \in DOMAIN cat \ {t} |-> cat[u]]
    BY <1>2 DEF Effect, Restrict
  <2>2. t # VersionTable
    BY <1>2 DEF Spares
  <2> HIDE DEF after
  <2>3. /\ DOMAIN cat \subseteq Nat /\ IsFiniteSet(DOMAIN cat)
        /\ \A u \in DOMAIN cat : Fine(cat[u])
        /\ VersionTable \in DOMAIN cat => cat[VersionTable] = VersionTableDef
    BY FineCatalog
  <2>4. DOMAIN after = DOMAIN cat \ {t} /\ \A u \in DOMAIN after : after[u] = cat[u]
    BY <2>1
  <2>5. after = [u \in DOMAIN after |-> after[u]]
    BY <2>1
  <2>6. IsFiniteSet(DOMAIN after) /\ DOMAIN after \subseteq Nat
    BY <2>3, <2>4, FS_RemoveElement
  <2>7. /\ \A u \in DOMAIN after : Fine(after[u])
        /\ VersionTable \in DOMAIN after => after[VersionTable] = VersionTableDef
    BY <2>3, <2>4
  <2>8. CatalogOK(after)
    BY <2>5, <2>6, <2>7, FineCatalog
  <2> QED
    BY <2>2, <2>4, <2>8 DEF Kept, after
<1>3. CASE s.op = "create index"
  <2> DEFINE table == [cat[t] EXCEPT !.indexes =
                         Extended(cat[t].indexes, s.index, StoredIndex(s.def))]
  <2>1. Effect(cat, s) = [cat EXCEPT ![t] = table]
    BY <1>3 DEF Effect
  <2>2. t \in DOMAIN cat /\ t # VersionTable
    BY <1>3 DEF Accepts, Spares
  <2>3. Fine(table)
    BY <2>2, FineCatalog, FineIndexes, IndexStored, IndexesChange
  <2> HIDE DEF table
  <2> QED
    BY <2>1, <2>2, <2>3, OneChanges
<1>4. CASE s.op = "drop index"
  <2> DEFINE left(u) == [cat[u] EXCEPT !.indexes =
                           Restrict(cat[u].indexes, DOMAIN cat[u].indexes \ {s.index})]
             after == Effect(cat, s)
  <2>1. after = [u \in DOMAIN cat |-> left(u)]
    BY <1>4 DEF Effect
  <2>2. ASSUME NEW u \in DOMAIN cat PROVE Fine(left(u))
    <3>1. IndexesFine(cat[u].indexes) /\ Fine(cat[u])
      BY FineCatalog, FineIndexes
    <3> QED
      BY <3>1, IndexesLeft, IndexesChange
  <2>3. ASSUME VersionTable \in DOMAIN cat PROVE left(VersionTable) = VersionTableDef
    <3>1. cat[VersionTable] = VersionTableDef
      BY <2>3, FineCatalog
    <3>2. PICK columns, constraints, none :
            /\ VersionTableDef = [columns     |-> columns,
                                  constraints |-> constraints,
                                  indexes     |-> none]
            /\ none = <<>>
      BY DEF VersionTableDef
    <3>3. Restrict(none, DOMAIN none \ {s.index}) = none
      BY <3>2, NoNames DEF Restrict
    <3>4. left(VersionTable) = [VersionTableDef EXCEPT !.indexes = none]
      BY <3>1, <3>2, <3>3
    <3> QED
      BY <3>2, <3>4, IndexesReplaced
  <2> HIDE DEF left, after
  <2>4. /\ DOMAIN after = DOMAIN cat /\ after = [u \in DOMAIN after |-> after[u]]
        /\ \A u \in DOMAIN after : after[u] = left(u)
    BY <2>1
  <2>5. CatalogOK(after)
    <3>1. DOMAIN after \subseteq Nat /\ IsFiniteSet(DOMAIN after)
      BY <2>4, FineCatalog
    <3>2. /\ \A u \in DOMAIN after : Fine(after[u])
          /\ VersionTable \in DOMAIN after => after[VersionTable] = VersionTableDef
      BY <2>2, <2>3, <2>4
    <3> QED
      BY <2>4, <3>1, <3>2, FineCatalog
  <2> QED
    BY <2>4, <2>5 DEF Kept, after
<1>5. CASE s.op = "add column"
  <2> DEFINE table == WithColumn(cat[t], s.column, s.def)
  <2>1. Effect(cat, s) = [cat EXCEPT ![t] = table]
    BY <1>5 DEF Effect
  <2>2. t \in DOMAIN cat /\ t # VersionTable
    BY <1>5 DEF Accepts, Spares
  <2>3. Fine(table)
    BY <2>2, FineCatalog, ColumnPut
  <2> HIDE DEF table
  <2> QED
    BY <2>1, <2>2, <2>3, OneChanges
<1>6. CASE s.op = "drop column"
  <2> DEFINE table == WithoutColumn(cat[t], s.column)
  <2>1. Effect(cat, s) = [cat EXCEPT ![t] = table]
    BY <1>6 DEF Effect
  <2>2. t \in DOMAIN cat /\ t # VersionTable
    BY <1>6 DEF Accepts, Spares
  <2>3. Fine(table)
    BY <2>2, FineCatalog, ColumnDropped
  <2> HIDE DEF table
  <2> QED
    BY <2>1, <2>2, <2>3, OneChanges
<1>7. CASE s.op = "replace column"
  <2> DEFINE table == WithColumn(WithoutColumn(cat[t], s.column), s.column, s.def)
  <2>1. Effect(cat, s) = [cat EXCEPT ![t] = table]
    BY <1>7 DEF Effect
  <2>2. t \in DOMAIN cat /\ t # VersionTable
    BY <1>7 DEF Accepts, Spares
  <2>3. Fine(table)
    BY <2>2, FineCatalog, ColumnDropped, ColumnPut
  <2> HIDE DEF table
  <2> QED
    BY <2>1, <2>2, <2>3, OneChanges
<1>8. CASE s.op \in {"set type", "set not null", "set default"}
  <2>1. t \in DOMAIN cat /\ t # VersionTable
    BY <1>8 DEF Accepts, Spares
  <2> DEFINE old == cat[t].columns
             x   == s.column
             table(columns) == [cat[t] EXCEPT !.columns = columns]
  <2>2. PICK columns : /\ Effect(cat, s) = [cat EXCEPT ![t] = table(columns)]
                       /\ DOMAIN columns = DOMAIN old
    <3>1. CASE s.op = "set type"
      <4> DEFINE columns == [old EXCEPT ![x].type = s.type]
      <4>1. Effect(cat, s) = [cat EXCEPT ![t] = table(columns)]
        BY <3>1 DEF Effect
      <4>2. DOMAIN columns = DOMAIN old
        OBVIOUS
      <4> QED
        BY <4>1, <4>2
    <3>2. CASE s.op = "set not null"
      <4> DEFINE columns == [old EXCEPT ![x].notNull = s.notNull]
      <4>1. Effect(cat, s) = [cat EXCEPT ![t] = table(columns)]
        BY <3>2 DEF Effect
      <4>2. DOMAIN columns = DOMAIN old
        OBVIOUS
      <4> QED
        BY <4>1, <4>2
    <3>3. CASE s.op = "set default"
      <4> DEFINE columns == [old EXCEPT ![x].default = StoredDefault(s.default)]
      <4>1. Effect(cat, s) = [cat EXCEPT ![t] = table(columns)]
        BY <3>3 DEF Effect
      <4>2. DOMAIN columns = DOMAIN old
        OBVIOUS
      <4> QED
        BY <4>1, <4>2
    <3> QED
      BY <1>8, <3>1, <3>2, <3>3
  <2>3. Fine(table(columns))
    <3>1. Fine(cat[t]) /\ IsFiniteSet(DOMAIN columns)
      BY <2>1, <2>2, FineCatalog DEF Fine, FiniteTable
    <3> QED
      BY <3>1, ColumnsChange
  <2> HIDE DEF table
  <2> QED
    BY <2>1, <2>2, <2>3, OneChanges
<1>9. CASE s.op = "add constraint"
  <2> DEFINE c == StoredConstraint(t, s.constraint)
             S == cat[t].constraints \cup {c}
             table == [cat[t] EXCEPT !.constraints = S]
  <2>1. Effect(cat, s) = [cat EXCEPT ![t] = table]
    BY <1>9 DEF Effect
  <2>2. t \in DOMAIN cat /\ c.name \notin ConstraintNames(cat[t]) /\ t # VersionTable
    BY <1>9 DEF Accepts, Spares
  <2>3. Fine(cat[t]) /\ c.name # Unnamed
    BY <2>2, StoredHasName, FineCatalog
  <2> HIDE DEF c
  <2>4. \A d, e \in S : d.name # Unnamed /\ (d.name = e.name => d = e)
    BY <2>2, <2>3 DEF ConstraintNames, Fine, ConstraintsNamed
  <2>5. IsFiniteSet(S)
    BY <2>3, FS_AddElement DEF Fine, FiniteTable
  <2> HIDE DEF S
  <2>6. Fine(table)
    BY <2>3, <2>4, <2>5, ConstraintsChange
  <2> HIDE DEF table
  <2> QED
    BY <2>1, <2>2, <2>6, OneChanges
<1>10. CASE s.op = "drop constraint"
  <2> DEFINE S == {c \in cat[t].constraints : c.name # s.name}
             table == [cat[t] EXCEPT !.constraints = S]
  <2>1. Effect(cat, s) = [cat EXCEPT ![t] = table]
    BY <1>10 DEF Effect
  <2>2. t \in DOMAIN cat /\ t # VersionTable
    BY <1>10 DEF Accepts, Spares
  <2>3. Fine(cat[t])
    BY <2>2, FineCatalog
  <2>4. \A d, e \in S : d.name # Unnamed /\ (d.name = e.name => d = e)
    BY <2>3 DEF Fine, ConstraintsNamed
  <2>5. S \in SUBSET cat[t].constraints
    OBVIOUS
  <2> HIDE DEF S
  <2>6. IsFiniteSet(S)
    BY <2>3, <2>5, FS_Subset DEF Fine, FiniteTable
  <2>7. Fine(table)
    BY <2>3, <2>4, <2>6, ConstraintsChange
  <2> HIDE DEF table
  <2> QED
    BY <2>1, <2>2, <2>7, OneChanges
<1> QED
  BY <1>1, <1>2, <1>3, <1>4, <1>5, <1>6, <1>7, <1>8, <1>9, <1>10 DEF Accepts

-----------------------------------------------------------------------------
(* What PostgreSQL can hold.                                               *)

SoundColumn(c) == IsColumn(c) /\ StoredColumn(c) = c /\ ColumnFits(c)

SoundIndex(i, names) ==
  IsIndex(i) /\ StoredIndex(i) = i /\ i.columns \subseteq names /\ i.columns # {}

SoundConstraint(t, c, columns) ==
  /\ IsConstraint(c) /\ StoredConstraint(t, c) = c
  /\ c.columns \cup c.check \subseteq DOMAIN columns
  /\ c.kind = "pk" => \A x \in c.columns : columns[x].notNull

OneOfAName(constraints) ==
  \A c, d \in constraints : c.name = d.name \/ (c.kind = "pk" /\ d.kind = "pk") => c = d

\* All that Sound says of a table by itself.
SoundTable(t, table) ==
  /\ IsTable(table)
  /\ table.columns = [x \in DOMAIN table.columns |-> table.columns[x]]
  /\ \A x \in DOMAIN table.columns : SoundColumn(table.columns[x])
  /\ \A c \in table.constraints : SoundConstraint(t, c, table.columns)
  /\ OneOfAName(table.constraints)
  /\ table.indexes = [x \in DOMAIN table.indexes |-> table.indexes[x]]
  /\ \A x \in DOMAIN table.indexes : SoundIndex(table.indexes[x], DOMAIN table.columns)

\* A key for foreign keys that refer to these columns of a table.
KeyIn(table, columns) ==
  \/ \E k \in table.constraints : IsKey(k) /\ k.columns = columns
  \/ \E x \in DOMAIN table.indexes : table.indexes[x].unique /\ table.indexes[x].columns = columns

\* All that it says of the tables together.
KeysServed(cat) ==
  \A t \in DOMAIN cat : \A c \in cat[t].constraints :
    c.kind = "fk" => /\ c.ref \in DOMAIN cat /\ KeyIn(cat[c.ref], Referred(c))
                     /\ TypesAgree(cat, t, c)

\* One table is another.
Becomes(cat, t, table, after) == after = [cat EXCEPT ![t] = table]

\* No two indexes or keys have one name.
NamesOnce(cat) ==
  /\ \A t \in DOMAIN cat : DOMAIN cat[t].indexes \cap KeyNames(t, cat[t]) = {}
  /\ \A t, u \in DOMAIN cat : RelationNames(t, cat[t]) \cap RelationNames(u, cat[u]) # {} => t = u

LEMMA NamesLeft ==
  ASSUME NEW cat, NamesOnce(cat), NEW after, DOMAIN after \subseteq DOMAIN cat,
         \A t \in DOMAIN after : /\ DOMAIN after[t].indexes \subseteq DOMAIN cat[t].indexes
                                 /\ after[t].constraints \subseteq cat[t].constraints
  PROVE  NamesOnce(after)
<1>1. \A t \in DOMAIN after : KeyNames(t, after[t]) \subseteq KeyNames(t, cat[t])
  BY DEF KeyNames
<1>2. \A t \in DOMAIN after : RelationNames(t, after[t]) \subseteq RelationNames(t, cat[t])
  BY <1>1 DEF RelationNames
<1>3. \A t \in DOMAIN after : DOMAIN after[t].indexes \cap KeyNames(t, after[t]) = {}
  BY <1>1 DEF NamesOnce
<1> QED
  BY <1>2, <1>3 DEF NamesOnce

\* A table has indexes and keys whose names are new.
TakesNames(cat, t, after) ==
  /\ DOMAIN after = DOMAIN cat \cup {t}
  /\ \A u \in DOMAIN cat \ {t} : after[u] = cat[u]
  /\ DOMAIN after[t].indexes \cap KeyNames(t, after[t]) = {}
  /\ \A x \in RelationNames(t, after[t]) :
       x \notin Relations(cat) \/ (t \in DOMAIN cat /\ x \in RelationNames(t, cat[t]))

LEMMA NamesTaken ==
  ASSUME NEW cat, NamesOnce(cat), NEW t, NEW after, TakesNames(cat, t, after)
  PROVE  NamesOnce(after)
<1> DEFINE old(u) == RelationNames(u, cat[u])
           new(u) == RelationNames(u, after[u])
<1>0. DOMAIN after = DOMAIN cat \cup {t}
  BY DEF TakesNames
<1>1. \A u \in DOMAIN cat \ {t} : new(u) = old(u)
  BY DEF TakesNames
<1>2. \A u \in DOMAIN cat : old(u) \subseteq Relations(cat)
  BY DEF Relations
<1>3. \A u, v \in DOMAIN cat : old(u) \cap old(v) # {} => u = v
  BY DEF NamesOnce
<1>4. \A x \in new(t) : x \notin Relations(cat) \/ (t \in DOMAIN cat /\ x \in old(t))
  BY DEF TakesNames
<1>5. \A u \in DOMAIN after : DOMAIN after[u].indexes \cap KeyNames(u, after[u]) = {}
  BY DEF NamesOnce, TakesNames
<1> HIDE DEF old, new
<1>6. \A u, v \in DOMAIN after : new(u) \cap new(v) # {} => u = v
  BY <1>0, <1>1, <1>2, <1>3, <1>4
<1> QED
  BY <1>5, <1>6 DEF NamesOnce, new

LEMMA NamesFewer ==
  ASSUME NEW cat, NamesOnce(cat), NEW t \in DOMAIN cat, NEW table, NEW after,
         Becomes(cat, t, table, after), DOMAIN table.indexes \subseteq DOMAIN cat[t].indexes,
         table.constraints \subseteq cat[t].constraints
  PROVE  NamesOnce(after)
<1>1. /\ DOMAIN after = DOMAIN cat /\ after[t] = table
      /\ \A u \in DOMAIN cat \ {t} : after[u] = cat[u]
  BY DEF Becomes
<1>2. \A u \in DOMAIN after : /\ DOMAIN after[u].indexes \subseteq DOMAIN cat[u].indexes
                              /\ after[u].constraints \subseteq cat[u].constraints
  BY <1>1
<1> QED
  BY <1>1, <1>2, NamesLeft

\* What the types of its columns let a column be.
LEMMA FitsAs ==
  ASSUME NEW c, NEW d, d.type = c.type, d.default = c.default, d.mode = c.mode
  PROVE  ColumnFits(d) <=> ColumnFits(c)
BY DEF ColumnFits

LEMMA NoDefaultStored == StoredDefault(NotGiven) = NotGiven
BY Zenon DEF StoredDefault, NotGiven

LEMMA StoredColumnParts ==
  ASSUME NEW c, IsColumn(c)
  PROVE  StoredColumn(c) = [type    |-> c.type,
                            notNull |-> IF c.mode = "identity" THEN TRUE ELSE c.notNull,
                            default |-> IF c.mode = Plain THEN StoredDefault(c.default) ELSE NotGiven,
                            mode    |-> c.mode]
<1>1. PICK type, notNull, default, mode :
        c = [type |-> type, notNull |-> notNull, default |-> default, mode |-> mode]
  BY DEF IsColumn
<1> DEFINE d(e) == IF mode = Plain THEN StoredDefault(e) ELSE NotGiven
           n(b) == IF mode = "identity" THEN TRUE ELSE b
<1>2. /\ c.type = type /\ c.notNull = notNull /\ c.default = default /\ c.mode = mode
      /\ StoredColumn(c) = [c EXCEPT !.default = d(@), !.notNull = n(@)]
  BY <1>1, Zenon DEF StoredColumn
<1> HIDE DEF d, n
<1>3. StoredColumn(c) = [type |-> type, notNull |-> n(notNull), default |-> d(default), mode |-> mode]
  BY <1>1, <1>2
<1> QED
  BY <1>2, <1>3 DEF d, n

\* A column that is stored as it is.
LEMMA StoredColumnIs ==
  ASSUME NEW c, IsColumn(c)
  PROVE  StoredColumn(c) = c <=> /\ c.mode = Plain => StoredDefault(c.default) = c.default
                                 /\ c.mode # Plain => c.default = NotGiven
                                 /\ c.mode = "identity" => c.notNull
<1> DEFINE default == IF c.mode = Plain THEN StoredDefault(c.default) ELSE NotGiven
           notNull == IF c.mode = "identity" THEN TRUE ELSE c.notNull
<1>1. StoredColumn(c) = [type |-> c.type, notNull |-> notNull, default |-> default, mode |-> c.mode]
  BY StoredColumnParts
<1>2. c = [type |-> c.type, notNull |-> c.notNull, default |-> c.default, mode |-> c.mode]
  BY DEF IsColumn
<1>3. StoredColumn(c) = c <=> notNull = c.notNull /\ default = c.default
  <2> HIDE DEF notNull, default
  <2> QED
    BY <1>1, <1>2
<1>4. notNull = c.notNull <=> (c.mode = "identity" => c.notNull)
  <2>1. c.notNull \in BOOLEAN
    BY DEF IsColumn
  <2> QED
    BY <2>1
<1> QED
  BY <1>3, <1>4

LEMMA ColumnStored ==
  ASSUME NEW c, IsColumn(c)
  PROVE  /\ IsColumn(StoredColumn(c)) /\ StoredColumn(StoredColumn(c)) = StoredColumn(c)
         /\ ColumnFits(StoredColumn(c)) => SoundColumn(StoredColumn(c))
         /\ c.notNull => StoredColumn(c).notNull
         /\ StoredColumn(c).mode = c.mode
<1> DEFINE default == IF c.mode = Plain THEN StoredDefault(c.default) ELSE NotGiven
           notNull == IF c.mode = "identity" THEN TRUE ELSE c.notNull
           d == StoredColumn(c)
<1>1. d = [type |-> c.type, notNull |-> notNull, default |-> default, mode |-> c.mode]
  BY StoredColumnParts
<1>2. c.mode = "identity" => notNull
  OBVIOUS
<1>3. c.mode # Plain => default = NotGiven
  OBVIOUS
<1>4. c.mode = Plain => StoredDefault(default) = default
  BY DEF StoredDefault
<1>5. notNull \in BOOLEAN
  BY DEF IsColumn
<1> HIDE DEF default, notNull, d
<1>6. IsColumn(d) /\ d.mode = c.mode /\ d.notNull = notNull /\ d.default = default
  BY <1>1, <1>5 DEF IsColumn
<1>7. StoredColumn(d) = d
  BY <1>2, <1>3, <1>4, <1>6, StoredColumnIs
<1> QED
  BY <1>6, <1>7 DEF SoundColumn, d, notNull

LEMMA IndexIsStored ==
  ASSUME NEW i
  PROVE  /\ IsIndex(StoredIndex(i)) /\ StoredIndex(StoredIndex(i)) = StoredIndex(i)
         /\ StoredIndex(i).columns = i.columns
BY DEF StoredIndex, IsIndex, DefaultMethod

LEMMA ConstraintIsStored ==
  ASSUME NEW t, NEW c, IsConstraint(c)
  PROVE  /\ IsConstraint(StoredConstraint(t, c))
         /\ StoredConstraint(t, StoredConstraint(t, c)) = StoredConstraint(t, c)
<1> DEFINE d == StoredConstraint(t, c)
           columns == IF c.kind = "ck" THEN c.check ELSE c.columns
           name == DropName(t, c)
<1>1. d = [kind |-> c.kind, columns |-> columns, check |-> c.check,
           ref |-> c.ref, refColumns |-> c.refColumns, name |-> name]
  BY DEF StoredConstraint
<1>2. name # Unnamed
  BY DEF DropName, Unnamed
<1> HIDE DEF d, name
<1>3. IsConstraint(d)
  BY <1>1 DEF IsConstraint
<1>4. DropName(t, d) = name
  BY <1>1, <1>2 DEF DropName
<1>5. StoredConstraint(t, d) = d
  BY <1>1, <1>4 DEF StoredConstraint
<1> QED
  BY <1>3, <1>5 DEF d

LEMMA SoundParts ==
  ASSUME NEW cat
  PROVE  Sound(cat) <=> /\ FiniteSchema(cat)
                        /\ \A t \in DOMAIN cat : SoundTable(t, cat[t])
                        /\ KeysServed(cat)
                        /\ NamesOnce(cat)
<1> DEFINE parts == /\ FiniteSchema(cat)
                    /\ \A t \in DOMAIN cat : SoundTable(t, cat[t])
                    /\ KeysServed(cat)
                    /\ NamesOnce(cat)
           own(t) == LET table == cat[t]
                         cols  == DOMAIN table.columns
                     IN  /\ \A c \in table.constraints : ConstraintFits(cat, t, c)
                         /\ \A c, d \in table.constraints :
                              DropName(t, c) = DropName(t, d) \/ (c.kind = "pk" /\ d.kind = "pk") => c = d
                         /\ \A x \in DOMAIN table.indexes :
                              table.indexes[x].columns \subseteq cols /\ table.indexes[x].columns # {}
                         /\ \A x \in cols : ColumnFits(table.columns[x])
                         /\ \A x \in cols : table.columns[x].mode = "identity" => table.columns[x].notNull
                         /\ \A x \in cols : table.columns[x].mode # Plain => table.columns[x].default = NotGiven
<1>1. Holdable(cat) <=> (\A t \in DOMAIN cat : own(t)) /\ NamesOnce(cat)
  BY DEF Holdable, NamesOnce
<1>2. ASSUME NEW t \in DOMAIN cat, NEW c \in cat[t].constraints
      PROVE  ConstraintFits(cat, t, c) <=>
               /\ c.columns \cup c.check \subseteq DOMAIN cat[t].columns
               /\ c.kind = "fk" => /\ c.ref \in DOMAIN cat /\ KeyIn(cat[c.ref], Referred(c))
                                   /\ TypesAgree(cat, t, c)
               /\ c.kind = "pk" => \A x \in c.columns : cat[t].columns[x].notNull
  BY DEF ConstraintFits, HasKey, HasConstraint, KeyIn
<1>3. ASSUME NEW t \in DOMAIN cat, NEW c \in cat[t].constraints, StoredConstraint(t, c) = c
      PROVE  DropName(t, c) = c.name
  BY <1>3 DEF StoredConstraint
<1>4. ASSUME Sound(cat) PROVE parts
  <2>1. Shaped(cat) /\ Recorded(cat) /\ Holdable(cat)
    BY <1>4 DEF Sound
  <2>2. ASSUME NEW t \in DOMAIN cat PROVE SoundTable(t, cat[t])
    <3> DEFINE table == cat[t]
    <3>1. /\ IsTable(table)
          /\ \A x \in DOMAIN table.columns : IsColumn(table.columns[x])
          /\ \A c \in table.constraints : IsConstraint(c)
          /\ \A x \in DOMAIN table.indexes : IsIndex(table.indexes[x])
      BY <2>1 DEF Shaped
    <3>2. /\ table.columns = [x \in DOMAIN table.columns |-> StoredColumn(table.columns[x])]
          /\ \A c \in table.constraints : c = StoredConstraint(t, c)
          /\ table.indexes = [x \in DOMAIN table.indexes |-> StoredIndex(table.indexes[x])]
      BY <2>1 DEF Recorded
    <3>3. own(t)
      BY <1>1, <2>1
    <3>4. /\ \A x \in DOMAIN table.columns : table.columns[x] = StoredColumn(table.columns[x])
          /\ table.columns = [x \in DOMAIN table.columns |-> table.columns[x]]
      <4> DEFINE old == table.columns
      <4>1. old = [x \in DOMAIN old |-> StoredColumn(old[x])]
        BY <3>2
      <4> HIDE DEF old
      <4> QED
        <5>1. \A x \in DOMAIN old : old[x] = StoredColumn(old[x])
          BY <4>1
        <5>2. old = [x \in DOMAIN old |-> old[x]]
          BY <4>1
        <5> QED
          BY <5>1, <5>2 DEF old
    <3>5. /\ \A x \in DOMAIN table.indexes : table.indexes[x] = StoredIndex(table.indexes[x])
          /\ table.indexes = [x \in DOMAIN table.indexes |-> table.indexes[x]]
      <4> DEFINE old == table.indexes
      <4>1. old = [x \in DOMAIN old |-> StoredIndex(old[x])]
        BY <3>2
      <4> HIDE DEF old
      <4> QED
        <5>1. \A x \in DOMAIN old : old[x] = StoredIndex(old[x])
          BY <4>1
        <5>2. old = [x \in DOMAIN old |-> old[x]]
          BY <4>1
        <5> QED
          BY <5>1, <5>2 DEF old
    <3>6. \A c \in table.constraints : DropName(t, c) = c.name
      BY <1>3, <3>2
    <3>7. OneOfAName(table.constraints)
      BY <3>3, <3>6 DEF OneOfAName
    <3>8. \A c \in table.constraints : SoundConstraint(t, c, table.columns)
      BY <1>2, <3>1, <3>2, <3>3 DEF SoundConstraint
    <3>9. \A x \in DOMAIN table.columns : SoundColumn(table.columns[x])
      BY <3>1, <3>3, <3>4 DEF SoundColumn
    <3>10. \A x \in DOMAIN table.indexes : SoundIndex(table.indexes[x], DOMAIN table.columns)
      BY <3>1, <3>3, <3>5 DEF SoundIndex
    <3> QED
      BY <3>1, <3>4, <3>5, <3>7, <3>8, <3>9, <3>10 DEF SoundTable
  <2>3. KeysServed(cat)
    BY <1>1, <1>2, <2>1 DEF KeysServed
  <2> QED
    BY <1>1, <2>1, <2>2, <2>3 DEF Shaped
<1>5. ASSUME parts PROVE Sound(cat)
  <2>1. Shaped(cat)
    BY <1>5 DEF Shaped, SoundTable, SoundColumn, SoundConstraint, SoundIndex
  <2>2. ASSUME NEW t \in DOMAIN cat
        PROVE  /\ cat[t].columns = [x \in DOMAIN cat[t].columns |-> StoredColumn(cat[t].columns[x])]
               /\ \A c \in cat[t].constraints : c = StoredConstraint(t, c)
               /\ cat[t].indexes = [x \in DOMAIN cat[t].indexes |-> StoredIndex(cat[t].indexes[x])]
    <3> DEFINE c == cat[t].columns
               i == cat[t].indexes
    <3>1. /\ c = [x \in DOMAIN c |-> c[x]] /\ \A x \in DOMAIN c : StoredColumn(c[x]) = c[x]
          /\ i = [x \in DOMAIN i |-> i[x]] /\ \A x \in DOMAIN i : StoredIndex(i[x]) = i[x]
      BY <1>5 DEF SoundTable, SoundColumn, SoundIndex
    <3>2. \A d \in cat[t].constraints : d = StoredConstraint(t, d)
      BY <1>5 DEF SoundTable, SoundConstraint
    <3> HIDE DEF c, i
    <3>3. c = [x \in DOMAIN c |-> StoredColumn(c[x])] /\ i = [x \in DOMAIN i |-> StoredIndex(i[x])]
      BY <3>1
    <3> QED
      BY <3>2, <3>3 DEF c, i
  <2>3. Recorded(cat)
    BY <2>2 DEF Recorded
  <2>4. ASSUME NEW t \in DOMAIN cat PROVE own(t)
    <3> DEFINE table == cat[t]
    <3>1. SoundTable(t, table)
      BY <1>5
    <3>2. \A c \in table.constraints : ConstraintFits(cat, t, c)
      BY <1>2, <1>5, <3>1 DEF SoundTable, SoundConstraint, KeysServed
    <3>3. \A c \in table.constraints : DropName(t, c) = c.name
      BY <1>3, <3>1 DEF SoundTable, SoundConstraint
    <3>4. \A c, d \in table.constraints :
            DropName(t, c) = DropName(t, d) \/ (c.kind = "pk" /\ d.kind = "pk") => c = d
      BY <3>1, <3>3 DEF SoundTable, OneOfAName
    <3>5. \A x \in DOMAIN table.indexes :
            table.indexes[x].columns \subseteq DOMAIN table.columns /\ table.indexes[x].columns # {}
      BY <3>1 DEF SoundTable, SoundIndex
    <3>6. \A x \in DOMAIN table.columns :
            /\ ColumnFits(table.columns[x])
            /\ table.columns[x].mode = "identity" => table.columns[x].notNull
            /\ table.columns[x].mode # Plain => table.columns[x].default = NotGiven
      BY <3>1, StoredColumnIs DEF SoundTable, SoundColumn
    <3> QED
      BY <3>2, <3>4, <3>5, <3>6
  <2> QED
    BY <1>1, <1>5, <2>1, <2>3, <2>4 DEF Sound
<1> QED
  BY <1>4, <1>5

\* A catalog stays one that PostgreSQL can hold if each table is one by itself,
\* every new foreign key has a key to refer to and no other loses its own.
LEMMA TablesServed ==
  ASSUME NEW cat, Sound(cat), NEW after, DOMAIN after = DOMAIN cat, FiniteSchema(after),
         \A t \in DOMAIN cat : SoundTable(t, after[t]),
         \A t \in DOMAIN cat : \A c \in after[t].constraints \ cat[t].constraints :
           c.kind = "fk" => c.ref \in DOMAIN cat /\ KeyIn(after[c.ref], Referred(c)),
         \A t \in DOMAIN cat : \A c \in ForeignKeysTo(cat, t) :
           KeyIn(cat[t], Referred(c)) => KeyIn(after[t], Referred(c)),
         \A t \in DOMAIN cat : \A c \in after[t].constraints :
           c.kind = "fk" => TypesAgree(after, t, c),
         NamesOnce(after)
  PROVE  Sound(after)
<1>1. KeysServed(cat)
  BY SoundParts
<1>2. ASSUME NEW t \in DOMAIN cat, NEW c \in after[t].constraints, c.kind = "fk"
      PROVE  c.ref \in DOMAIN cat /\ KeyIn(after[c.ref], Referred(c))
  <2>1. CASE c \in cat[t].constraints
    <3>1. c.ref \in DOMAIN cat /\ KeyIn(cat[c.ref], Referred(c))
      BY <1>1, <1>2, <2>1 DEF KeysServed
    <3>2. c \in ForeignKeysTo(cat, c.ref)
      BY <1>2, <2>1 DEF ForeignKeysTo
    <3> QED
      BY <3>1, <3>2
  <2>2. CASE c \notin cat[t].constraints
    BY <1>2, <2>2
  <2> QED
    BY <2>1, <2>2
<1>3. KeysServed(after)
  BY <1>2 DEF KeysServed
<1> QED
  BY <1>3, SoundParts

\* Foreign keys refer to columns.
LEMMA KeysRefer ==
  ASSUME NEW cat, \A u \in DOMAIN cat : SoundTable(u, cat[u]), KeysServed(cat), NEW t \in DOMAIN cat,
         NEW c \in ForeignKeysTo(cat, t)
  PROVE  Referred(c) \subseteq DOMAIN cat[t].columns
<1>1. KeyIn(cat[t], Referred(c)) /\ SoundTable(t, cat[t])
  BY DEF KeysServed, ForeignKeysTo
<1>2. /\ \A k \in cat[t].constraints : k.columns \subseteq DOMAIN cat[t].columns
      /\ \A x \in DOMAIN cat[t].indexes : cat[t].indexes[x].columns \subseteq DOMAIN cat[t].columns
  BY <1>1 DEF SoundTable, SoundConstraint, SoundIndex
<1> QED
  BY <1>1, <1>2 DEF KeyIn

\* The columns that foreign keys use and refer to keep their types.
LEMMA TypesStay ==
  ASSUME NEW cat, Sound(cat), NEW t \in DOMAIN cat, NEW table, NEW after,
         Becomes(cat, t, table, after),
         \A c \in table.constraints \ cat[t].constraints : c.kind = "fk" => TypesAgree(after, t, c),
         \A c \in table.constraints \cap cat[t].constraints : c.kind = "fk" =>
           \A x \in c.columns : table.columns[x].type = cat[t].columns[x].type,
         \A c \in ForeignKeysTo(cat, t) : \A y \in Referred(c) :
           table.columns[y].type = cat[t].columns[y].type
  PROVE  \A u \in DOMAIN cat : \A c \in after[u].constraints : c.kind = "fk" => TypesAgree(after, u, c)
<1>1. /\ DOMAIN after = DOMAIN cat /\ after[t] = table
      /\ \A u \in DOMAIN cat \ {t} : after[u] = cat[u]
  BY DEF Becomes
<1>2. (\A u \in DOMAIN cat : SoundTable(u, cat[u])) /\ KeysServed(cat)
  BY SoundParts
<1> SUFFICES ASSUME NEW u \in DOMAIN cat, NEW c \in after[u].constraints, c.kind = "fk"
             PROVE  TypesAgree(after, u, c)
  OBVIOUS
<1>3. CASE c \notin cat[u].constraints
  <2>1. u = t
    BY <1>1, <1>3
  <2> QED
    BY <1>1, <1>3, <2>1
<1>4. CASE c \in cat[u].constraints
  <2>1. c.ref \in DOMAIN cat /\ TypesAgree(cat, u, c) /\ c \in ForeignKeysTo(cat, c.ref)
    BY <1>2, <1>4 DEF KeysServed, ForeignKeysTo
  <2>2. DOMAIN c.refColumns = c.columns
    BY <1>2, <1>4 DEF SoundTable, SoundConstraint, IsConstraint
  <2>3. ASSUME NEW x \in c.columns
        PROVE  /\ after[u].columns[x].type = cat[u].columns[x].type
               /\ after[c.ref].columns[c.refColumns[x]].type = cat[c.ref].columns[c.refColumns[x]].type
    <3>1. c.refColumns[x] \in Referred(c)
      BY <2>2 DEF Referred, Range
    <3>2. after[u].columns[x].type = cat[u].columns[x].type
      BY <1>1, <1>4
    <3>3. after[c.ref].columns[c.refColumns[x]].type = cat[c.ref].columns[c.refColumns[x]].type
      BY <1>1, <2>1, <3>1
    <3> QED
      BY <3>2, <3>3
  <2> QED
    BY <2>1, <2>3 DEF TypesAgree
<1> QED
  BY <1>3, <1>4

LEMMA OneTableSound ==
  ASSUME NEW cat, Sound(cat), NEW t \in DOMAIN cat, NEW table, NEW after,
         Becomes(cat, t, table, after), FiniteSchema(after), SoundTable(t, table),
         \A c \in table.constraints \ cat[t].constraints :
           c.kind = "fk" => c.ref \in DOMAIN cat /\ KeyIn(after[c.ref], Referred(c)),
         \A c \in ForeignKeysTo(cat, t) : KeyIn(cat[t], Referred(c)) => KeyIn(table, Referred(c)),
         \A u \in DOMAIN cat : \A c \in after[u].constraints : c.kind = "fk" => TypesAgree(after, u, c),
         NamesOnce(after)
  PROVE  Sound(after)
<1>1. /\ DOMAIN after = DOMAIN cat /\ after[t] = table
      /\ \A u \in DOMAIN cat \ {t} : after[u] = cat[u]
  BY DEF Becomes
<1>2. \A u \in DOMAIN cat : SoundTable(u, cat[u])
  BY SoundParts
<1>3. \A u \in DOMAIN cat : SoundTable(u, after[u])
  BY <1>1, <1>2
<1>4. ASSUME NEW u \in DOMAIN cat, NEW c \in after[u].constraints \ cat[u].constraints, c.kind = "fk"
      PROVE  c.ref \in DOMAIN cat /\ KeyIn(after[c.ref], Referred(c))
  <2>1. u = t
    BY <1>1, <1>4
  <2>2. c \in table.constraints \ cat[t].constraints
    BY <1>1, <1>4, <2>1
  <2> QED
    BY <1>4, <2>2
<1>5. \A u \in DOMAIN cat : \A c \in ForeignKeysTo(cat, u) :
        KeyIn(cat[u], Referred(c)) => KeyIn(after[u], Referred(c))
  BY <1>1
<1> QED
  BY <1>1, <1>3, <1>4, <1>5, TablesServed

\* The columns of a table change, or one is added.
LEMMA ColumnsPut ==
  ASSUME NEW t, NEW table, SoundTable(t, table), NEW columns,
         columns = [x \in DOMAIN columns |-> columns[x]],
         DOMAIN table.columns \subseteq DOMAIN columns,
         \A x \in DOMAIN columns : SoundColumn(columns[x]),
         \A c \in table.constraints : c.kind = "pk" => \A x \in c.columns : columns[x].notNull
  PROVE  LET new == [table EXCEPT !.columns = columns]
         IN  /\ SoundTable(t, new)
             /\ new.constraints = table.constraints /\ new.indexes = table.indexes
             /\ new.columns = columns
             /\ \A S : KeyIn(table, S) => KeyIn(new, S)
<1> DEFINE new == [table EXCEPT !.columns = columns]
<1>1. new = [columns |-> columns, constraints |-> table.constraints, indexes |-> table.indexes]
  BY DEF SoundTable, IsTable
<1> HIDE DEF new
<1>2. \A c \in table.constraints : SoundConstraint(t, c, columns)
  BY DEF SoundTable, SoundConstraint
<1>3. \A x \in DOMAIN table.indexes : SoundIndex(table.indexes[x], DOMAIN columns)
  BY DEF SoundTable, SoundIndex
<1>4. SoundTable(t, new)
  BY <1>1, <1>2, <1>3 DEF SoundTable, IsTable
<1>5. \A S : KeyIn(table, S) => KeyIn(new, S)
  BY <1>1 DEF KeyIn
<1> QED
  BY <1>1, <1>4, <1>5 DEF new

LEMMA ColumnLeaves ==
  ASSUME NEW t, NEW table, SoundTable(t, table), NEW x
  PROVE  LET new == WithoutColumn(table, x)
         IN  /\ SoundTable(t, new)
             /\ DOMAIN new.columns = DOMAIN table.columns \ {x}
             /\ \A y \in DOMAIN new.columns : new.columns[y] = table.columns[y]
             /\ new.constraints = {c \in table.constraints : ~UsesColumn(c, x)}
             /\ DOMAIN new.indexes \subseteq DOMAIN table.indexes
             /\ \A S : x \notin S /\ KeyIn(table, S) => KeyIn(new, S)
<1> DEFINE new == WithoutColumn(table, x)
           C == DOMAIN table.columns \ {x}
           K == {c \in table.constraints : ~UsesColumn(c, x)}
           I == {y \in DOMAIN table.indexes : x \notin table.indexes[y].columns}
<1>1. /\ IsTable(new)
      /\ new.columns = [y \in C |-> table.columns[y]]
      /\ new.constraints = K
      /\ new.indexes = [y \in I |-> table.indexes[y]]
  BY DEF WithoutColumn, RestrictValues, Restrict, IsTable
<1> HIDE DEF new
<1>2. DOMAIN new.columns = C /\ DOMAIN new.indexes = I
  BY <1>1
<1>3. /\ new.columns = [y \in DOMAIN new.columns |-> new.columns[y]]
      /\ \A y \in C : new.columns[y] = table.columns[y]
      /\ \A y \in C : SoundColumn(new.columns[y])
  BY <1>1 DEF SoundTable
<1>4. /\ new.indexes = [y \in DOMAIN new.indexes |-> new.indexes[y]]
      /\ \A y \in I : new.indexes[y] = table.indexes[y]
  BY <1>1
<1>5. ASSUME NEW c \in K PROVE SoundConstraint(t, c, new.columns)
  <2>1. SoundConstraint(t, c, table.columns) /\ x \notin c.columns \cup c.check
    BY DEF SoundTable, UsesColumn
  <2> QED
    BY <1>2, <1>3, <2>1 DEF SoundConstraint
<1>6. ASSUME NEW y \in I PROVE SoundIndex(new.indexes[y], C)
  <2>1. SoundIndex(table.indexes[y], DOMAIN table.columns) /\ x \notin table.indexes[y].columns
    BY DEF SoundTable
  <2> QED
    BY <1>4, <2>1 DEF SoundIndex
<1>7. OneOfAName(K)
  BY DEF SoundTable, OneOfAName
<1>8. SoundTable(t, new)
  BY <1>1, <1>2, <1>3, <1>4, <1>5, <1>6, <1>7 DEF SoundTable
<1>9. ASSUME NEW S, x \notin S, KeyIn(table, S) PROVE KeyIn(new, S)
  <2>1. CASE \E k \in table.constraints : IsKey(k) /\ k.columns = S
    <3>1. PICK k \in table.constraints : IsKey(k) /\ k.columns = S
      BY <2>1
    <3>2. k.check = {}
      BY <3>1 DEF SoundTable, SoundConstraint, IsConstraint, IsKey
    <3>3. k \in K
      BY <1>9, <3>1, <3>2 DEF UsesColumn
    <3> QED
      BY <1>1, <3>1, <3>3 DEF KeyIn
  <2>2. CASE \E y \in DOMAIN table.indexes : table.indexes[y].unique /\ table.indexes[y].columns = S
    <3>1. PICK y \in DOMAIN table.indexes : table.indexes[y].unique /\ table.indexes[y].columns = S
      BY <2>2
    <3>2. y \in I
      BY <1>9, <3>1
    <3> QED
      BY <1>2, <1>4, <3>1, <3>2 DEF KeyIn
  <2> QED
    BY <1>9, <2>1, <2>2 DEF KeyIn
<1> QED
  BY <1>1, <1>2, <1>3, <1>8, <1>9 DEF new

\* The table of a statement that creates one.
LEMMA CreatedSound ==
  ASSUME NEW s, NEW cat,
         \A x \in DOMAIN s.columns : IsColumn(s.columns[x]) /\ ColumnFits(StoredColumn(s.columns[x])),
         \A c \in s.constraints : IsConstraint(c),
         \A c \in Created(s).constraints : ConstraintFits(Extended(cat, s.table, Created(s)), s.table, c),
         OneOfAName(Created(s).constraints)
  PROVE  SoundTable(s.table, Created(s)) /\ DOMAIN Created(s).indexes = {}
<1> DEFINE t == s.table
           new == Created(s)
           after == Extended(cat, t, new)
<1>1. \A c \in new.constraints : ConstraintFits(after, t, c)
  OBVIOUS
<1>2. after[t] = new
  BY DEF Extended
<1>4. /\ IsTable(new)
      /\ new.columns = [x \in DOMAIN s.columns |-> StoredColumn(s.columns[x])]
      /\ new.constraints = {StoredConstraint(t, c) : c \in s.constraints}
      /\ new.indexes = <<>>
  BY DEF Created, IsTable
<1> HIDE DEF new, after
<1>5. /\ new.columns = [x \in DOMAIN new.columns |-> new.columns[x]]
      /\ \A x \in DOMAIN new.columns : SoundColumn(new.columns[x])
  BY <1>4, ColumnStored
<1>6. ASSUME NEW c \in new.constraints PROVE SoundConstraint(t, c, new.columns)
  <2>1. IsConstraint(c) /\ StoredConstraint(t, c) = c
    BY <1>4, ConstraintIsStored
  <2>2. ConstraintFits(after, t, c)
    BY <1>1
  <2>3. /\ c.columns \cup c.check \subseteq DOMAIN new.columns
        /\ c.kind = "pk" => \A x \in c.columns : new.columns[x].notNull
    BY <1>2, <2>2 DEF ConstraintFits
  <2> QED
    BY <2>1, <2>3 DEF SoundConstraint
<1>7. DOMAIN new.indexes = {} /\ new.indexes = [x \in DOMAIN new.indexes |-> new.indexes[x]]
  <2> DEFINE none == new.indexes
  <2>1. none = <<>>
    BY <1>4
  <2> HIDE DEF none
  <2>2. DOMAIN none = {} /\ none = [x \in DOMAIN none |-> none[x]]
    BY <2>1, NoNames
  <2> QED
    BY <2>2 DEF none
<1>8. OneOfAName(new.constraints)
  BY DEF new
<1>9. SoundTable(t, new)
  BY <1>4, <1>5, <1>6, <1>7, <1>8 DEF SoundTable
<1> QED
  BY <1>7, <1>9 DEF new

LEMMA IndexesPut ==
  ASSUME NEW t, NEW table, SoundTable(t, table), NEW indexes,
         indexes = [x \in DOMAIN indexes |-> indexes[x]],
         \A x \in DOMAIN indexes : SoundIndex(indexes[x], DOMAIN table.columns)
  PROVE  LET new == [table EXCEPT !.indexes = indexes]
         IN  SoundTable(t, new) /\ new.constraints = table.constraints /\ new.indexes = indexes
<1> DEFINE new == [table EXCEPT !.indexes = indexes]
<1>1. new = [columns |-> table.columns, constraints |-> table.constraints, indexes |-> indexes]
  BY DEF SoundTable, IsTable
<1> HIDE DEF new
<1>2. SoundTable(t, new)
  BY <1>1 DEF SoundTable, IsTable
<1> QED
  BY <1>1, <1>2 DEF new

LEMMA ConstraintsPut ==
  ASSUME NEW t, NEW table, SoundTable(t, table), NEW S, OneOfAName(S),
         \A c \in S : SoundConstraint(t, c, table.columns)
  PROVE  LET new == [table EXCEPT !.constraints = S]
         IN  /\ SoundTable(t, new)
             /\ new.constraints = S /\ new.indexes = table.indexes /\ new.columns = table.columns
<1> DEFINE new == [table EXCEPT !.constraints = S]
<1>1. new = [columns |-> table.columns, constraints |-> S, indexes |-> table.indexes]
  BY DEF SoundTable, IsTable
<1> HIDE DEF new
<1>2. SoundTable(t, new)
  BY <1>1 DEF SoundTable, IsTable
<1> QED
  BY <1>1, <1>2 DEF new

\* Other columns in a table of a catalog, which has room for no less.
LEMMA OtherColumns ==
  ASSUME NEW cat, Sound(cat), NEW t \in DOMAIN cat, NEW columns, NEW after,
         Becomes(cat, t, [cat[t] EXCEPT !.columns = columns], after), FiniteSchema(after),
         columns = [x \in DOMAIN columns |-> columns[x]],
         DOMAIN cat[t].columns \subseteq DOMAIN columns,
         \A x \in DOMAIN columns : SoundColumn(columns[x]),
         \A c \in cat[t].constraints : c.kind = "pk" => \A x \in c.columns : columns[x].notNull,
         \A u \in DOMAIN cat : \A c \in after[u].constraints : c.kind = "fk" => TypesAgree(after, u, c)
  PROVE  Sound(after)
<1> DEFINE table == [cat[t] EXCEPT !.columns = columns]
<1>1. SoundTable(t, cat[t])
  BY SoundParts
<1>2. /\ SoundTable(t, table)
      /\ table.constraints = cat[t].constraints /\ table.indexes = cat[t].indexes
      /\ \A S : KeyIn(cat[t], S) => KeyIn(table, S)
  BY <1>1, ColumnsPut
<1> HIDE DEF table
<1>3. Becomes(cat, t, table, after)
  BY DEF table
<1>4. /\ \A c \in table.constraints \ cat[t].constraints :
           c.kind = "fk" => c.ref \in DOMAIN cat /\ KeyIn(after[c.ref], Referred(c))
      /\ \A c \in ForeignKeysTo(cat, t) : KeyIn(cat[t], Referred(c)) => KeyIn(table, Referred(c))
  BY <1>2
<1>5. NamesOnce(after)
  <2>1. /\ DOMAIN after = DOMAIN cat /\ after[t] = table
        /\ \A u \in DOMAIN cat \ {t} : after[u] = cat[u]
    BY <1>3 DEF Becomes
  <2>2. \A u \in DOMAIN cat : /\ after[u].indexes = cat[u].indexes
                              /\ after[u].constraints = cat[u].constraints
    BY <1>2, <2>1
  <2> QED
    BY <2>1, <2>2, SoundParts, NamesLeft
<1> QED
  BY <1>2, <1>3, <1>4, <1>5, OneTableSound

\* Whatever PostgreSQL accepts leaves a catalog that it can hold.
LEMMA StatementSound ==
  ASSUME NEW cat, CatalogOK(cat), Sound(cat), NEW s, Decent(s), Accepts(cat, s)
  PROVE  Sound(Effect(cat, s))
<1> DEFINE t == s.table
<1>a. FiniteSchema(Effect(cat, s))
  <2>1. Kept(cat, Effect(cat, s))
    BY StatementKeeps DEF Decent
  <2> QED
    BY <2>1 DEF Kept, CatalogOK
<1>b. (\A u \in DOMAIN cat : SoundTable(u, cat[u])) /\ KeysServed(cat) /\ NamesOnce(cat)
  BY SoundParts
<1>1. CASE s.op = "create table"
  <2> DEFINE new   == Created(s)
             after == Extended(cat, t, new)
  <2>1. /\ Effect(cat, s) = after /\ t \notin DOMAIN cat
        /\ \A x \in DOMAIN s.columns : ColumnFits(StoredColumn(s.columns[x]))
        /\ KeyNames(t, new) \cap Relations(cat) = {}
        /\ \A c \in new.constraints : ConstraintFits(after, t, c)
        /\ OneOfAName(new.constraints)
    BY <1>1, Zenon DEF Effect, Accepts, OneOfAName
  <2>2. /\ \A x \in DOMAIN s.columns : IsColumn(s.columns[x])
        /\ \A c \in s.constraints : IsConstraint(c)
    BY <1>1, Zenon DEF Decent, Proper
  <2>3. SoundTable(t, new) /\ DOMAIN new.indexes = {}
    BY <2>1, <2>2, CreatedSound
  <2> HIDE DEF new
  <2>4. /\ DOMAIN after = DOMAIN cat \cup {t} /\ after[t] = new
        /\ \A u \in DOMAIN cat : after[u] = cat[u]
    BY <2>1 DEF Extended
  <2> HIDE DEF after
  <2>5. ASSUME NEW u \in DOMAIN after, NEW c \in after[u].constraints, c.kind = "fk"
        PROVE  /\ c.ref \in DOMAIN after /\ KeyIn(after[c.ref], Referred(c))
               /\ TypesAgree(after, u, c)
    <3>1. CASE u = t
      <4>1. ConstraintFits(after, t, c)
        BY <2>1, <2>4, <2>5, <3>1
      <4> QED
        BY <2>5, <3>1, <4>1 DEF ConstraintFits, HasKey, HasConstraint, KeyIn
    <3>2. CASE u # t
      <4>1. u \in DOMAIN cat /\ c \in cat[u].constraints
        BY <2>4, <2>5, <3>2
      <4>2. c.ref \in DOMAIN cat /\ KeyIn(cat[c.ref], Referred(c)) /\ TypesAgree(cat, u, c)
        BY <1>b, <2>5, <4>1 DEF KeysServed
      <4>3. TypesAgree(after, u, c)
        BY <2>4, <4>1, <4>2 DEF TypesAgree
      <4> QED
        BY <2>4, <4>2, <4>3
    <3> QED
      BY <3>1, <3>2
  <2>6. NamesOnce(after)
    <3>1. /\ DOMAIN after[t].indexes \cap KeyNames(t, after[t]) = {}
          /\ \A x \in RelationNames(t, after[t]) :
               x \notin Relations(cat) \/ (t \in DOMAIN cat /\ x \in RelationNames(t, cat[t]))
      BY <2>1, <2>3, <2>4 DEF RelationNames
    <3>2. \A u \in DOMAIN cat \ {t} : after[u] = cat[u]
      BY <2>4
    <3>3. TakesNames(cat, t, after)
      BY <2>4, <3>1, <3>2 DEF TakesNames
    <3> QED
      BY <1>b, <3>3, NamesTaken
  <2>7. \A u \in DOMAIN after : SoundTable(u, after[u])
    BY <1>b, <2>3, <2>4
  <2>8. KeysServed(after)
    BY <2>5 DEF KeysServed
  <2> QED
    BY <1>a, <2>1, <2>6, <2>7, <2>8, SoundParts
<1>2. CASE s.op = "drop table"
  <2> DEFINE after == Restrict(cat, DOMAIN cat \ {t})
  <2>1. /\ Effect(cat, s) = after
        /\ \A u \in DOMAIN cat \ {t} : \A c \in cat[u].constraints : c.kind = "fk" => c.ref # t
    BY <1>2, Zenon DEF Effect, Accepts
  <2>2. DOMAIN after = DOMAIN cat \ {t} /\ \A u \in DOMAIN after : after[u] = cat[u]
    BY DEF Restrict
  <2> HIDE DEF after
  <2>3. KeysServed(after)
    <3>1. \A u \in DOMAIN after : \A c \in after[u].constraints : c.kind = "fk" =>
            c.ref \in DOMAIN after /\ KeyIn(cat[c.ref], Referred(c)) /\ TypesAgree(cat, u, c)
      BY <1>b, <2>1, <2>2 DEF KeysServed
    <3>2. \A u \in DOMAIN after : \A c \in after[u].constraints : c.kind = "fk" => TypesAgree(after, u, c)
      BY <2>2, <3>1 DEF TypesAgree
    <3> QED
      BY <2>2, <3>1, <3>2 DEF KeysServed
  <2>4. NamesOnce(after)
    BY <1>b, <2>2, NamesLeft
  <2> QED
    BY <1>a, <1>b, <2>1, <2>2, <2>3, <2>4, SoundParts
<1>3. CASE s.op = "create index"
  <2> DEFINE new   == Extended(cat[t].indexes, s.index, StoredIndex(s.def))
             table == [cat[t] EXCEPT !.indexes = new]
             after == Effect(cat, s)
  <2>1. /\ Becomes(cat, t, table, after)
        /\ t \in DOMAIN cat /\ s.index \notin Relations(cat)
        /\ s.def.columns # {} /\ s.def.columns \subseteq DOMAIN cat[t].columns
    BY <1>3, Zenon DEF Effect, Accepts, Becomes
  <2>2. /\ DOMAIN new = DOMAIN cat[t].indexes \cup {s.index}
        /\ new = [x \in DOMAIN new |-> new[x]]
        /\ \A x \in DOMAIN new : new[x] = IF x = s.index THEN StoredIndex(s.def) ELSE cat[t].indexes[x]
    BY DEF Extended
  <2>3. SoundTable(t, cat[t])
    BY <1>b, <2>1
  <2> HIDE DEF new
  <2>4. \A x \in DOMAIN new : SoundIndex(new[x], DOMAIN cat[t].columns)
    BY <2>1, <2>2, <2>3, IndexIsStored DEF SoundTable, SoundIndex
  <2>5. SoundTable(t, table) /\ table.constraints = cat[t].constraints /\ table.indexes = new
    BY <2>2, <2>3, <2>4, IndexesPut
  <2>12. table.columns = cat[t].columns
    BY <2>3 DEF SoundTable, IsTable
  <2> HIDE DEF table, after
  <2>6. s.index \notin RelationNames(t, cat[t])
    BY <2>1 DEF Relations
  <2>7. \A S : KeyIn(cat[t], S) => KeyIn(table, S)
    BY <2>2, <2>5, <2>6 DEF KeyIn, RelationNames
  <2>8. FiniteSchema(after)
    BY <1>a DEF after
  <2>9. \A u \in DOMAIN cat : \A c \in after[u].constraints : c.kind = "fk" => TypesAgree(after, u, c)
    BY <2>1, <2>5, <2>12, TypesStay
  <2>11. NamesOnce(after)
    <3>1. DOMAIN after = DOMAIN cat /\ after[t] = table /\ \A u \in DOMAIN cat \ {t} : after[u] = cat[u]
      BY <2>1 DEF Becomes
    <3>2. KeyNames(t, table) = KeyNames(t, cat[t])
      BY <2>5 DEF KeyNames
    <3>3. DOMAIN table.indexes \cap KeyNames(t, table) = {}
      BY <1>b, <2>1, <2>2, <2>5, <2>6, <3>2 DEF NamesOnce, RelationNames
    <3>4. \A x \in RelationNames(t, table) :
            x \notin Relations(cat) \/ (t \in DOMAIN cat /\ x \in RelationNames(t, cat[t]))
      BY <2>1, <2>2, <2>5, <3>2 DEF RelationNames
    <3>5. DOMAIN after = DOMAIN cat \cup {t} /\ NamesOnce(cat)
      BY <1>b, <2>1, <3>1
    <3>6. TakesNames(cat, t, after)
      BY <3>1, <3>3, <3>4, <3>5 DEF TakesNames
    <3> QED
      BY <3>5, <3>6, NamesTaken
  <2>10. Sound(after)
    BY <2>1, <2>5, <2>7, <2>8, <2>9, <2>11, OneTableSound
  <2> QED
    BY <2>10 DEF after
<1>4. CASE s.op = "drop index"
  <2> DEFINE after == Effect(cat, s)
             left(u) == Restrict(cat[u].indexes, DOMAIN cat[u].indexes \ {s.index})
  <2>1. /\ after = [u \in DOMAIN cat |-> [cat[u] EXCEPT !.indexes = left(u)]]
        /\ \A u \in DOMAIN cat : s.index \in DOMAIN cat[u].indexes => ~SupportsForeignKey(cat, u, s.index)
    BY <1>4, Zenon DEF Effect, Accepts
  <2>2. \A u \in DOMAIN cat :
          /\ DOMAIN left(u) = DOMAIN cat[u].indexes \ {s.index}
          /\ left(u) = [x \in DOMAIN left(u) |-> left(u)[x]]
          /\ \A x \in DOMAIN left(u) : left(u)[x] = cat[u].indexes[x]
    BY DEF Restrict
  <2> HIDE DEF after, left
  <2>3. DOMAIN after = DOMAIN cat /\ \A u \in DOMAIN cat : after[u] = [cat[u] EXCEPT !.indexes = left(u)]
    BY <2>1
  <2>4. \A u \in DOMAIN cat :
          /\ SoundTable(u, after[u])
          /\ after[u].constraints = cat[u].constraints /\ after[u].indexes = left(u)
    <3> SUFFICES ASSUME NEW u \in DOMAIN cat
                 PROVE  /\ SoundTable(u, after[u])
                        /\ after[u].constraints = cat[u].constraints /\ after[u].indexes = left(u)
      OBVIOUS
    <3>1. SoundTable(u, cat[u])
      BY <1>b
    <3>2. \A x \in DOMAIN left(u) : SoundIndex(left(u)[x], DOMAIN cat[u].columns)
      BY <2>2, <3>1 DEF SoundTable
    <3>3. left(u) = [x \in DOMAIN left(u) |-> left(u)[x]]
      BY <2>2
    <3> DEFINE i == left(u)
               table == cat[u]
    <3> HIDE DEF i, table
    <3>4. /\ SoundTable(u, table)
          /\ \A x \in DOMAIN i : SoundIndex(i[x], DOMAIN table.columns)
          /\ i = [x \in DOMAIN i |-> i[x]]
      BY <3>1, <3>2, <3>3 DEF i, table
    <3> DEFINE new == [table EXCEPT !.indexes = i]
    <3>5. SoundTable(u, new) /\ new.constraints = table.constraints /\ new.indexes = i
      BY <3>4, IndexesPut
    <3>6. new = after[u]
      BY <2>3 DEF i, table
    <3> HIDE DEF new
    <3> QED
      BY <3>5, <3>6 DEF i, table
  <2>5. ASSUME NEW u \in DOMAIN cat, NEW c \in ForeignKeysTo(cat, u), KeyIn(cat[u], Referred(c))
        PROVE  KeyIn(after[u], Referred(c))
    <3>1. CASE \E k \in cat[u].constraints : IsKey(k) /\ k.columns = Referred(c)
      BY <2>4, <3>1 DEF KeyIn
    <3>2. CASE ~\E k \in cat[u].constraints : IsKey(k) /\ k.columns = Referred(c)
      <4>1. PICK x \in DOMAIN cat[u].indexes :
              cat[u].indexes[x].unique /\ cat[u].indexes[x].columns = Referred(c)
        BY <2>5, <3>2 DEF KeyIn
      <4>2. x # s.index
        BY <2>1, <2>5, <3>2, <4>1 DEF SupportsForeignKey, HasConstraint
      <4>3. x \in DOMAIN left(u) /\ left(u)[x] = cat[u].indexes[x]
        BY <2>2, <4>2
      <4> QED
        BY <2>4, <4>1, <4>3 DEF KeyIn
    <3> QED
      BY <3>1, <3>2
  <2>6. NamesOnce(after)
    <3>1. \A u \in DOMAIN cat : DOMAIN after[u].indexes \subseteq DOMAIN cat[u].indexes
      BY <2>2, <2>4
    <3> QED
      BY <1>b, <2>3, <2>4, <3>1, NamesLeft
  <2>9. \A u \in DOMAIN cat : after[u].columns = cat[u].columns
    BY <1>b, <2>3, ZenonT(40) DEF SoundTable, IsTable
  <2>10. \A u \in DOMAIN cat : \A c \in after[u].constraints : c.kind = "fk" => TypesAgree(after, u, c)
    BY <1>b, <2>3, <2>4, <2>9 DEF KeysServed, TypesAgree
  <2>7. FiniteSchema(after)
    BY <1>a DEF after
  <2>8. Sound(after)
    BY <2>3, <2>4, <2>5, <2>6, <2>7, <2>10, TablesServed
  <2> QED
    BY <2>8 DEF after
<1>5. CASE s.op = "add column"
  <2> DEFINE new   == Extended(cat[t].columns, s.column, StoredColumn(s.def))
             after == Effect(cat, s)
  <2>1. /\ Becomes(cat, t, [cat[t] EXCEPT !.columns = new], after)
        /\ t \in DOMAIN cat /\ s.column \notin DOMAIN cat[t].columns
        /\ ColumnFits(StoredColumn(s.def))
    BY <1>5, Zenon DEF Effect, Accepts, WithColumn, Becomes
  <2>2. IsColumn(s.def)
    BY <1>5, Zenon DEF Decent, Proper
  <2>3. /\ DOMAIN new = DOMAIN cat[t].columns \cup {s.column}
        /\ new = [x \in DOMAIN new |-> new[x]]
        /\ \A x \in DOMAIN new : new[x] = IF x = s.column THEN StoredColumn(s.def) ELSE cat[t].columns[x]
    BY DEF Extended
  <2>4. SoundTable(t, cat[t])
    BY <1>b, <2>1
  <2> HIDE DEF new, after
  <2>5. \A x \in DOMAIN new : SoundColumn(new[x])
    BY <2>1, <2>2, <2>3, <2>4, ColumnStored DEF SoundTable
  <2>6. \A c \in cat[t].constraints : c.kind = "pk" => \A x \in c.columns : new[x].notNull
    BY <2>1, <2>3, <2>4 DEF SoundTable, SoundConstraint
  <2>7. FiniteSchema(after)
    BY <1>a DEF after
  <2>9. (\A u \in DOMAIN cat : SoundTable(u, cat[u])) /\ KeysServed(cat)
    BY <1>b
  <2>10. \A u \in DOMAIN cat : \A c \in after[u].constraints : c.kind = "fk" => TypesAgree(after, u, c)
    <3> DEFINE table == [cat[t] EXCEPT !.columns = new]
    <3>1. table.columns = new /\ table.constraints = cat[t].constraints
      BY <2>4 DEF SoundTable, IsTable
    <3>2. Becomes(cat, t, table, after)
      BY <2>1
    <3>3. \A y \in DOMAIN cat[t].columns : new[y].type = cat[t].columns[y].type
      BY <2>1, <2>3
    <3> HIDE DEF table
    <3>4. \A c \in table.constraints : \A x \in c.columns : table.columns[x].type = cat[t].columns[x].type
      BY <2>4, <3>1, <3>3 DEF SoundTable, SoundConstraint
    <3>5. \A c \in ForeignKeysTo(cat, t) : Referred(c) \subseteq DOMAIN cat[t].columns
      BY <2>1, <2>9, KeysRefer
    <3>6. \A c \in ForeignKeysTo(cat, t) : \A y \in Referred(c) : table.columns[y].type = cat[t].columns[y].type
      BY <3>1, <3>3, <3>5
    <3> QED
      BY <2>1, <3>1, <3>2, <3>4, <3>6, TypesStay
  <2>8. Sound(after)
    BY <2>1, <2>3, <2>5, <2>6, <2>7, <2>10, OtherColumns
  <2> QED
    BY <2>8 DEF after
<1>6. CASE s.op = "drop column"
  <2> DEFINE table == WithoutColumn(cat[t], s.column)
             after == Effect(cat, s)
  <2>1. Becomes(cat, t, table, after) /\ t \in DOMAIN cat /\ CanDropColumn(cat, t, s.column)
    BY <1>6, Zenon DEF Effect, Accepts, Becomes
  <2>2. /\ SoundTable(t, table)
        /\ DOMAIN table.columns = DOMAIN cat[t].columns \ {s.column}
        /\ \A y \in DOMAIN table.columns : table.columns[y] = cat[t].columns[y]
        /\ table.constraints \subseteq cat[t].constraints
        /\ DOMAIN table.indexes \subseteq DOMAIN cat[t].indexes
        /\ \A S : s.column \notin S /\ KeyIn(cat[t], S) => KeyIn(table, S)
    BY <1>b, <2>1, ColumnLeaves
  <2> HIDE DEF table, after
  <2>3. \A c \in ForeignKeysTo(cat, t) : KeyIn(cat[t], Referred(c)) => KeyIn(table, Referred(c))
    BY <2>1, <2>2 DEF CanDropColumn
  <2>4. FiniteSchema(after)
    BY <1>a DEF after
  <2>6. NamesOnce(after)
    BY <1>b, <2>1, <2>2, NamesFewer
  <2>7. \A u \in DOMAIN cat : \A c \in after[u].constraints : c.kind = "fk" => TypesAgree(after, u, c)
    <3>1. \A c \in table.constraints : \A y \in c.columns : table.columns[y].type = cat[t].columns[y].type
      BY <2>2 DEF SoundTable, SoundConstraint
    <3>2. \A c \in ForeignKeysTo(cat, t) : Referred(c) \subseteq DOMAIN cat[t].columns
      BY <1>b, <2>1, KeysRefer
    <3>3. \A c \in ForeignKeysTo(cat, t) : \A y \in Referred(c) : table.columns[y].type = cat[t].columns[y].type
      BY <2>1, <2>2, <3>2 DEF CanDropColumn
    <3> QED
      BY <2>1, <2>2, <3>1, <3>3, TypesStay
  <2>5. Sound(after)
    BY <2>1, <2>2, <2>3, <2>4, <2>6, <2>7, OneTableSound
  <2> QED
    BY <2>5 DEF after
<1>7. CASE s.op = "replace column"
  <2> DEFINE left  == WithoutColumn(cat[t], s.column)
             new   == Extended(left.columns, s.column, StoredColumn(s.def))
             table == [left EXCEPT !.columns = new]
             after == Effect(cat, s)
  <2>1. /\ Becomes(cat, t, table, after) /\ t \in DOMAIN cat /\ CanDropColumn(cat, t, s.column)
        /\ ColumnFits(StoredColumn(s.def))
    BY <1>7, Zenon DEF Effect, Accepts, WithColumn, Becomes
  <2>2. IsColumn(s.def)
    BY <1>7, Zenon DEF Decent, Proper
  <2>3. /\ SoundTable(t, left)
        /\ DOMAIN left.columns = DOMAIN cat[t].columns \ {s.column}
        /\ \A y \in DOMAIN left.columns : left.columns[y] = cat[t].columns[y]
        /\ left.constraints \subseteq cat[t].constraints
        /\ DOMAIN left.indexes \subseteq DOMAIN cat[t].indexes
        /\ \A S : s.column \notin S /\ KeyIn(cat[t], S) => KeyIn(left, S)
    BY <1>b, <2>1, ColumnLeaves
  <2> HIDE DEF left
  <2>4. /\ DOMAIN new = DOMAIN left.columns \cup {s.column}
        /\ new = [x \in DOMAIN new |-> new[x]]
        /\ \A x \in DOMAIN new : new[x] = IF x = s.column THEN StoredColumn(s.def) ELSE left.columns[x]
    BY DEF Extended
  <2> HIDE DEF new
  <2>5. \A x \in DOMAIN new : SoundColumn(new[x])
    BY <2>1, <2>2, <2>3, <2>4, ColumnStored DEF SoundTable
  <2>6. \A c \in left.constraints : c.kind = "pk" => \A x \in c.columns : new[x].notNull
    BY <2>3, <2>4 DEF SoundTable, SoundConstraint
  <2>7. /\ SoundTable(t, table)
        /\ table.constraints = left.constraints /\ table.indexes = left.indexes
        /\ table.columns = new
        /\ \A S : KeyIn(left, S) => KeyIn(table, S)
    BY <2>3, <2>4, <2>5, <2>6, ColumnsPut
  <2> HIDE DEF table, after
  <2>8. \A c \in ForeignKeysTo(cat, t) : KeyIn(cat[t], Referred(c)) => KeyIn(table, Referred(c))
    BY <2>1, <2>3, <2>7 DEF CanDropColumn
  <2>9. FiniteSchema(after)
    BY <1>a DEF after
  <2>11. NamesOnce(after)
    BY <1>b, <2>1, <2>3, <2>7, NamesFewer
  <2>12. \A u \in DOMAIN cat : \A c \in after[u].constraints : c.kind = "fk" => TypesAgree(after, u, c)
    <3>1. \A y \in DOMAIN cat[t].columns \ {s.column} : table.columns[y].type = cat[t].columns[y].type
      BY <2>3, <2>4, <2>7
    <3>2. \A c \in table.constraints : c.columns \subseteq DOMAIN cat[t].columns \ {s.column}
      BY <2>3, <2>7 DEF SoundTable, SoundConstraint
    <3>3. \A c \in ForeignKeysTo(cat, t) : Referred(c) \subseteq DOMAIN cat[t].columns
      BY <1>b, <2>1, KeysRefer
    <3>4. \A c \in ForeignKeysTo(cat, t) : \A y \in Referred(c) : table.columns[y].type = cat[t].columns[y].type
      BY <2>1, <3>1, <3>3 DEF CanDropColumn
    <3> QED
      BY <2>1, <2>3, <2>7, <3>1, <3>2, <3>4, TypesStay
  <2>10. Sound(after)
    BY <2>1, <2>3, <2>7, <2>8, <2>9, <2>11, <2>12, OneTableSound
  <2> QED
    BY <2>10 DEF after
<1>8. CASE s.op \in {"set type", "set not null", "set default"}
  <2> DEFINE old == cat[t].columns
             x == s.column
             after == Effect(cat, s)
  <2>1. t \in DOMAIN cat /\ x \in DOMAIN old
    BY <1>8, Zenon DEF Accepts
  <2>2. SoundTable(t, cat[t])
    BY <1>b, <2>1
  <2>3. old = [y \in DOMAIN old |-> old[y]] /\ \A y \in DOMAIN old : SoundColumn(old[y])
    BY <2>2 DEF SoundTable
  <2>4. \A c \in cat[t].constraints : c.kind = "pk" => \A y \in c.columns : y \in DOMAIN old /\ old[y].notNull
    BY <2>2 DEF SoundTable, SoundConstraint
  <2>5. PICK c : /\ SoundColumn(c)
                 /\ after = [cat EXCEPT ![t] = [cat[t] EXCEPT !.columns = [old EXCEPT ![x] = c]]]
                 /\ \/ old[x].notNull => c.notNull
                    \/ \A d \in cat[t].constraints : d.kind = "pk" => x \notin d.columns
                 /\ \/ c.type = old[x].type
                    \/ \A u \in DOMAIN after : \A d \in after[u].constraints :
                         d.kind = "fk" => TypesAgree(after, u, d)
    <3>0. IsColumn(old[x]) /\ StoredColumn(old[x]) = old[x] /\ ColumnFits(old[x])
      BY <2>1, <2>3 DEF SoundColumn
    <3> DEFINE o == old[x]
    <3>1. PICK type, notNull, default, mode :
            /\ o = [type |-> type, notNull |-> notNull, default |-> default, mode |-> mode]
            /\ notNull \in BOOLEAN
      BY <3>0 DEF IsColumn
    <3>2. /\ mode = Plain => StoredDefault(default) = default
          /\ mode # Plain => default = NotGiven
          /\ mode = "identity" => notNull
      <4>1. /\ o.mode = Plain => StoredDefault(o.default) = o.default
            /\ o.mode # Plain => o.default = NotGiven
            /\ o.mode = "identity" => o.notNull
        BY <3>0, StoredColumnIs
      <4> QED
        BY <3>1, <4>1
    <3>3. ASSUME NEW a, NEW b \in BOOLEAN, NEW e,
                 mode = Plain => StoredDefault(e) = e,
                 mode # Plain => e = NotGiven,
                 mode = "identity" => b,
                 ColumnFits([type |-> a, notNull |-> b, default |-> e, mode |-> mode])
          PROVE  SoundColumn([type |-> a, notNull |-> b, default |-> e, mode |-> mode])
      <4> DEFINE d == [type |-> a, notNull |-> b, default |-> e, mode |-> mode]
      <4>1. IsColumn(d) /\ d.notNull = b /\ d.default = e /\ d.mode = mode
        BY DEF IsColumn
      <4>3. ColumnFits(d)
        BY <3>3
      <4> HIDE DEF d
      <4>2. StoredColumn(d) = d
        BY <3>3, <4>1, StoredColumnIs
      <4> QED
        BY <4>1, <4>2, <4>3 DEF SoundColumn, d
    <3>4. CASE s.op = "set type"
      <4> DEFINE c == [o EXCEPT !.type = s.type]
      <4>1. /\ after = [cat EXCEPT ![t].columns[x].type = s.type]
            /\ ColumnFits(c)
            /\ \A u \in DOMAIN cat : \A d \in cat[u].constraints :
                 d.kind = "fk" => TypesAgree(after, u, d)
        BY <3>4, Zenon DEF Effect, Accepts
      <4>2. after = [cat EXCEPT ![t] = [cat[t] EXCEPT !.columns = [old EXCEPT ![x] = c]]]
        BY <4>1
      <4>3. c = [type |-> s.type, notNull |-> notNull, default |-> default, mode |-> mode]
        BY <3>1
      <4>4. SoundColumn(c) /\ c.notNull = o.notNull
        <5>1. ColumnFits([type |-> s.type, notNull |-> notNull, default |-> default, mode |-> mode])
          BY <4>1, <4>3
        <5> QED
          BY <3>1, <3>2, <3>3, <4>3, <5>1
      <4>5. /\ DOMAIN after = DOMAIN cat
            /\ \A u \in DOMAIN cat : after[u].constraints = cat[u].constraints
        <5> DEFINE new == [cat[t] EXCEPT !.columns = [old EXCEPT ![x] = c]]
        <5>1. new.constraints = cat[t].constraints
          BY <2>2 DEF SoundTable, IsTable
        <5> HIDE DEF new
        <5>2. after = [cat EXCEPT ![t] = new]
          BY <4>2 DEF new
        <5> QED
          BY <2>2, <5>1, <5>2
      <4> QED
        BY <4>1, <4>2, <4>4, <4>5
    <3>5. CASE s.op = "set not null"
      <4> DEFINE c == [o EXCEPT !.notNull = s.notNull]
      <4>1. /\ after = [cat EXCEPT ![t].columns[x].notNull = s.notNull]
            /\ s.notNull \in BOOLEAN
            /\ \/ s.notNull
               \/ /\ o.mode # "identity"
                  /\ \A d \in cat[t].constraints : d.kind = "pk" => x \notin d.columns
        BY <3>5, Zenon DEF Effect, Accepts, Decent, Proper
      <4>2. after = [cat EXCEPT ![t] = [cat[t] EXCEPT !.columns = [old EXCEPT ![x] = c]]]
        BY <4>1
      <4>3. c = [type |-> type, notNull |-> s.notNull, default |-> default, mode |-> mode]
        BY <3>1
      <4>4. mode = "identity" => s.notNull
        BY <3>1, <4>1
      <4> HIDE DEF c
      <4>5. s.notNull \in BOOLEAN
        BY <4>1
      <4>8. ColumnFits([type |-> type, notNull |-> s.notNull, default |-> default, mode |-> mode])
        BY <3>0, <3>1, FitsAs
      <4>6. SoundColumn([type |-> type, notNull |-> s.notNull, default |-> default, mode |-> mode])
        BY <3>2, <3>3, <4>4, <4>5, <4>8, Zenon
      <4>7. SoundColumn(c) /\ c.notNull = s.notNull /\ c.type = o.type
        BY <3>1, <4>3, <4>6
      <4> QED
        BY <4>1, <4>2, <4>7
    <3>6. CASE s.op = "set default"
      <4> DEFINE e == StoredDefault(s.default)
                 c == [o EXCEPT !.default = e]
      <4>1. /\ after = [cat EXCEPT ![t].columns[x].default = e] /\ o.mode = Plain
            /\ ColumnFits([o EXCEPT !.default = s.default])
        BY <3>6, Zenon DEF Effect, Accepts
      <4>2. StoredDefault(e) = e
        BY Zenon DEF StoredDefault
      <4>6. e # NotGiven => s.default # NotGiven
        BY NoDefaultStored
      <4>7. ColumnFits([type |-> type, notNull |-> notNull, default |-> s.default, mode |-> mode])
        BY <3>1, <4>1
      <4>8. ColumnFits([type |-> type, notNull |-> notNull, default |-> e, mode |-> mode])
        BY <4>2, <4>6, <4>7 DEF ColumnFits
      <4> HIDE DEF e
      <4>3. after = [cat EXCEPT ![t] = [cat[t] EXCEPT !.columns = [old EXCEPT ![x] = c]]]
        BY <4>1
      <4>4. c = [type |-> type, notNull |-> notNull, default |-> e, mode |-> mode] /\ mode = Plain
        BY <3>1, <4>1
      <4>5. SoundColumn(c) /\ c.notNull = o.notNull /\ c.type = o.type
        BY <3>1, <3>2, <3>3, <4>2, <4>4, <4>8
      <4> QED
        BY <4>3, <4>5
    <3> QED
      BY <1>8, <3>4, <3>5, <3>6, Zenon
  <2> DEFINE new == [old EXCEPT ![x] = c]
  <2>6. /\ DOMAIN new = DOMAIN old /\ new = [y \in DOMAIN new |-> new[y]]
        /\ new[x] = c /\ \A y \in DOMAIN old \ {x} : new[y] = old[y]
    BY <2>1
  <2>7. Becomes(cat, t, [cat[t] EXCEPT !.columns = new], after)
    BY <2>5 DEF Becomes
  <2>13. \/ c.type = old[x].type
         \/ \A u \in DOMAIN after : \A d \in after[u].constraints :
              d.kind = "fk" => TypesAgree(after, u, d)
    BY <2>5
  <2> HIDE DEF new, after
  <2>8. \A y \in DOMAIN new : SoundColumn(new[y])
    BY <2>3, <2>5, <2>6
  <2>9. \A d \in cat[t].constraints : d.kind = "pk" => \A y \in d.columns : new[y].notNull
    BY <2>1, <2>4, <2>5, <2>6
  <2>10. FiniteSchema(after)
    BY <1>a DEF after
  <2>12. \A u \in DOMAIN cat : \A d \in after[u].constraints : d.kind = "fk" => TypesAgree(after, u, d)
    <3>1. CASE c.type = old[x].type
      <4> DEFINE table == [cat[t] EXCEPT !.columns = new]
      <4>1. table.columns = new /\ table.constraints = cat[t].constraints
        BY <2>2 DEF SoundTable, IsTable
      <4>2. Becomes(cat, t, table, after)
        BY <2>7
      <4> HIDE DEF table
      <4>3. \A y \in DOMAIN old : new[y].type = old[y].type
        BY <2>6, <3>1
      <4>4. \A d \in cat[t].constraints : d.columns \subseteq DOMAIN old
        BY <2>2 DEF SoundTable, SoundConstraint
      <4>5. \A d \in ForeignKeysTo(cat, t) : Referred(d) \subseteq DOMAIN old
        BY <1>b, <2>1, KeysRefer
      <4> QED
        BY <2>1, <4>1, <4>2, <4>3, <4>4, <4>5, TypesStay
    <3>2. CASE c.type # old[x].type
      BY <2>7, <2>13, <3>2 DEF Becomes
    <3> QED
      BY <3>1, <3>2
  <2>11. Sound(after)
    BY <2>1, <2>6, <2>7, <2>8, <2>9, <2>10, <2>12, OtherColumns
  <2> QED
    BY <2>11 DEF after
<1>9. CASE s.op = "add constraint"
  <2> DEFINE c     == StoredConstraint(t, s.constraint)
             S     == cat[t].constraints \cup {c}
             table == [cat[t] EXCEPT !.constraints = S]
             after == Effect(cat, s)
  <2>1. /\ Becomes(cat, t, table, after) /\ t \in DOMAIN cat
        /\ c.name \notin ConstraintNames(cat[t])
        /\ IsKey(c) => c.name \notin Relations(cat)
        /\ c.kind = "pk" => \A k \in cat[t].constraints : k.kind # "pk"
        /\ ConstraintFits(cat, t, c)
    BY <1>9, Zenon DEF Effect, Accepts, Becomes
  <2>2. IsConstraint(s.constraint)
    BY <1>9, Zenon DEF Decent, Proper
  <2>3. IsConstraint(c) /\ StoredConstraint(t, c) = c
    BY <2>2, ConstraintIsStored
  <2> HIDE DEF c
  <2>4. SoundTable(t, cat[t])
    BY <1>b, <2>1
  <2>5. SoundConstraint(t, c, cat[t].columns)
    BY <2>1, <2>3 DEF SoundConstraint, ConstraintFits
  <2>6. OneOfAName(S)
    BY <2>1, <2>4 DEF SoundTable, OneOfAName, ConstraintNames
  <2>7. \A d \in S : SoundConstraint(t, d, cat[t].columns)
    BY <2>4, <2>5 DEF SoundTable
  <2>8. /\ SoundTable(t, table) /\ table.constraints = S /\ table.indexes = cat[t].indexes
        /\ table.columns = cat[t].columns
    BY <2>4, <2>6, <2>7, ConstraintsPut
  <2> HIDE DEF table, after
  <2>9. \A K : KeyIn(cat[t], K) => KeyIn(table, K)
    BY <2>8 DEF KeyIn
  <2>10. DOMAIN after = DOMAIN cat /\ after[t] = table /\ \A u \in DOMAIN cat \ {t} : after[u] = cat[u]
    BY <2>1 DEF Becomes
  <2>11. c.kind = "fk" => c.ref \in DOMAIN cat /\ KeyIn(after[c.ref], Referred(c))
    <3>1. c.kind = "fk" => c.ref \in DOMAIN cat /\ KeyIn(cat[c.ref], Referred(c))
      BY <2>1 DEF ConstraintFits, HasKey, HasConstraint, KeyIn
    <3> QED
      BY <2>9, <2>10, <3>1
  <2>12. FiniteSchema(after)
    BY <1>a DEF after
  <2>14. NamesOnce(after)
    <3>1. DropName(t, c) = c.name
      BY <2>3 DEF StoredConstraint
    <3>2. \A x \in KeyNames(t, table) : x \in KeyNames(t, cat[t]) \/ x \notin Relations(cat)
      <4> SUFFICES ASSUME NEW d \in S, IsKey(d)
                   PROVE  DropName(t, d) \in KeyNames(t, cat[t]) \/ DropName(t, d) \notin Relations(cat)
        BY <2>8 DEF KeyNames
      <4>1. CASE d = c
        BY <2>1, <3>1, <4>1
      <4>2. CASE d # c
        BY <4>2 DEF KeyNames
      <4> QED
        BY <4>1, <4>2
    <3>3. RelationNames(t, cat[t]) \subseteq Relations(cat)
      BY <2>1 DEF Relations
    <3>4. DOMAIN table.indexes \cap KeyNames(t, table) = {}
      BY <1>b, <2>1, <2>8, <3>2, <3>3 DEF NamesOnce, RelationNames
    <3>5. \A x \in RelationNames(t, table) :
            x \notin Relations(cat) \/ (t \in DOMAIN cat /\ x \in RelationNames(t, cat[t]))
      BY <2>1, <2>8, <3>2 DEF RelationNames
    <3>6. DOMAIN after = DOMAIN cat \cup {t} /\ NamesOnce(cat)
      BY <1>b, <2>1, <2>10
    <3>7. TakesNames(cat, t, after)
      BY <2>10, <3>4, <3>5, <3>6 DEF TakesNames
    <3> QED
      BY <3>6, <3>7, NamesTaken
  <2>15. \A u \in DOMAIN cat : \A d \in after[u].constraints : d.kind = "fk" => TypesAgree(after, u, d)
    <3>1. c.kind = "fk" => TypesAgree(cat, t, c) /\ c.ref \in DOMAIN cat
      BY <2>1 DEF ConstraintFits, HasKey
    <3>2. \A u \in DOMAIN cat : after[u].columns = cat[u].columns
      BY <2>8, <2>10
    <3>3. c.kind = "fk" => TypesAgree(after, t, c)
      BY <2>1, <3>1, <3>2 DEF TypesAgree
    <3>4. \A d \in table.constraints \ cat[t].constraints : d.kind = "fk" => TypesAgree(after, t, d)
      BY <2>8, <3>3
    <3> QED
      BY <2>1, <2>8, <3>4, TypesStay
  <2>13. Sound(after)
    BY <2>1, <2>8, <2>9, <2>11, <2>12, <2>14, <2>15, OneTableSound
  <2> QED
    BY <2>13 DEF after
<1>10. CASE s.op = "drop constraint"
  <2> DEFINE S     == {c \in cat[t].constraints : c.name # s.name}
             table == [cat[t] EXCEPT !.constraints = S]
             after == Effect(cat, s)
  <2>1. /\ Becomes(cat, t, table, after) /\ t \in DOMAIN cat
        /\ \E c \in cat[t].constraints :
             /\ c.name = s.name
             /\ IsKey(c) => \A f \in ForeignKeysTo(cat, t) : Referred(f) # c.columns
    BY <1>10, Zenon DEF Effect, Accepts, Becomes
  <2>2. SoundTable(t, cat[t])
    BY <1>b, <2>1
  <2>3. OneOfAName(S) /\ \A d \in S : SoundConstraint(t, d, cat[t].columns)
    BY <2>2 DEF SoundTable, OneOfAName
  <2>4. /\ SoundTable(t, table) /\ table.constraints = S /\ table.indexes = cat[t].indexes
        /\ table.columns = cat[t].columns
    BY <2>2, <2>3, ConstraintsPut
  <2> HIDE DEF table, after
  <2>5. ASSUME NEW f \in ForeignKeysTo(cat, t), KeyIn(cat[t], Referred(f))
        PROVE  KeyIn(table, Referred(f))
    <3>1. CASE \E k \in cat[t].constraints : IsKey(k) /\ k.columns = Referred(f)
      <4>1. PICK k \in cat[t].constraints : IsKey(k) /\ k.columns = Referred(f)
        BY <3>1
      <4>2. PICK c \in cat[t].constraints :
              /\ c.name = s.name
              /\ IsKey(c) => \A g \in ForeignKeysTo(cat, t) : Referred(g) # c.columns
        BY <2>1
      <4>3. k.name # s.name
        BY <2>2, <4>1, <4>2 DEF SoundTable, OneOfAName
      <4> QED
        BY <2>4, <4>1, <4>3 DEF KeyIn
    <3>2. CASE ~\E k \in cat[t].constraints : IsKey(k) /\ k.columns = Referred(f)
      BY <2>4, <2>5, <3>2 DEF KeyIn
    <3> QED
      BY <3>1, <3>2
  <2>6. FiniteSchema(after)
    BY <1>a DEF after
  <2>8. NamesOnce(after)
    BY <1>b, <2>1, <2>4, NamesFewer
  <2>9. \A u \in DOMAIN cat : \A d \in after[u].constraints : d.kind = "fk" => TypesAgree(after, u, d)
    BY <2>1, <2>4, TypesStay
  <2>7. Sound(after)
    BY <2>1, <2>4, <2>5, <2>6, <2>8, <2>9, OneTableSound
  <2> QED
    BY <2>7 DEF after
<1> QED
  BY <1>1, <1>2, <1>3, <1>4, <1>5, <1>6, <1>7, <1>8, <1>9, <1>10, Zenon DEF Accepts

\* A transaction as a whole, whether or not it is executed to its end.
LEMMA RunKeeps ==
  ASSUME NEW cat, CatalogOK(cat), Sound(cat), NEW statements, SparingList(statements)
  PROVE  Kept(cat, Run(cat, statements).db) /\ Sound(Run(cat, statements).db)
<1> DEFINE n == Len(statements)
<1>1. n \in Nat /\ \A i \in 1 .. n : Decent(statements[i])
  BY ListLength DEF SparingList, IsList, Decent
<1>2. PICK after :
        /\ after[0] = [ok |-> TRUE, db |-> cat]
        /\ \A i \in 1 .. n : after[i] = Executed(after[i - 1], statements[i])
        /\ Run(cat, statements) = after[n]
  BY <1>1, RunDefined
<1> DEFINE S == {i \in 0 .. n : Kept(cat, after[i].db) /\ Sound(after[i].db)}
<1>3. 0 \in S
  BY <1>1, <1>2 DEF Kept
<1>4. ASSUME NEW i \in 0 .. n - 1, i \in S PROVE i + 1 \in S
  <2>1. i + 1 \in 1 .. n /\ i + 1 \in 0 .. n /\ (i + 1) - 1 = i
    BY <1>1
  <2>2. after[i + 1] = Executed(after[i], statements[i + 1])
    BY <1>2, <2>1
  <2>3. Kept(cat, after[i].db) /\ CatalogOK(after[i].db) /\ Sound(after[i].db)
    BY <1>4 DEF Kept
  <2>4. Accepts(after[i].db, statements[i + 1]) =>
          /\ Kept(after[i].db, Effect(after[i].db, statements[i + 1]))
          /\ Sound(Effect(after[i].db, statements[i + 1]))
    BY <1>1, <2>1, <2>3, StatementKeeps, StatementSound DEF Decent
  <2>5. Executed(after[i], statements[i + 1]).db
          \in {after[i].db} \cup IF Accepts(after[i].db, statements[i + 1])
                                 THEN {Effect(after[i].db, statements[i + 1])} ELSE {}
    BY DEF Executed
  <2>6. /\ Kept(cat, Executed(after[i], statements[i + 1]).db)
        /\ Sound(Executed(after[i], statements[i + 1]).db)
    BY <2>3, <2>4, <2>5 DEF Kept
  <2> QED
    BY <2>1, <2>2, <2>6
<1>5. \A i \in 0 .. n : i \in S
  <2> HIDE DEF S
  <2> QED
    BY <1>1, <1>3, <1>4, UpTo
<1> QED
  BY <1>1, <1>2, <1>5

-----------------------------------------------------------------------------
(* What the configs declare.                                               *)

Gathered(r) ==
  /\ r = [ok |-> r.ok, list |-> r.list]
  /\ IsList(r.list)
  /\ \A c \in ToSet(r.list) : IsConstraint(c)

LEMMA UniqueAppended ==
  ASSUME NEW r, Gathered(r), NEW c, IsConstraint(c)
  PROVE  Gathered(AppendUnique(r, c))
<1> DEFINE same == {i \in DOMAIN r.list : SemanticKey(r.list[i]) = SemanticKey(c)}
<1>1. CASE same = {}
  <2>1. AppendUnique(r, c) = [r EXCEPT !.list = Append(r.list, c)]
    BY <1>1 DEF AppendUnique
  <2>2. IsList(Append(r.list, c)) /\ ToSet(Append(r.list, c)) \subseteq ToSet(r.list) \cup {c}
    BY ListAppended DEF Gathered
  <2> QED
    BY <2>1, <2>2 DEF Gathered
<1>2. CASE same # {}
  <2> DEFINE i    == CHOOSE j \in same : TRUE
             new  == [r.list[i] EXCEPT !.name = MergedName(r.list[i].name, c.name)]
             list == [r.list EXCEPT ![i] = new]
             n    == Len(r.list)
  <2>1. AppendUnique(r, c) =
          [r EXCEPT !.ok = r.ok /\ ~Clash(r.list[i].name, c.name), !.list = list]
    BY <1>2 DEF AppendUnique, Gathered
  <2>2. n \in Nat /\ r.list = [j \in 1 .. n |-> r.list[j]]
    BY ListLength DEF Gathered
  <2>3. list = [j \in 1 .. n |-> list[j]]
    <3>1. DOMAIN r.list = 1 .. n
      BY <2>2
    <3> HIDE DEF new, i, n
    <3> QED
      BY <3>1
  <2>4. IsConstraint(new)
    <3>1. i \in DOMAIN r.list
      BY <1>2
    <3>2. IsConstraint(r.list[i])
      BY <2>2, <3>1, ListLength DEF Gathered
    <3> HIDE DEF i
    <3>3. PICK old : old = r.list[i] /\ IsConstraint(old)
      BY <3>2
    <3> DEFINE name == MergedName(old.name, c.name)
               kind == old.kind
    <3>4. new = [old EXCEPT !.name = name]
      BY <3>3
    <3> HIDE DEF name, new
    <3>5. new = [kind |-> old.kind, columns |-> old.columns, check |-> old.check,
                 ref |-> old.ref, refColumns |-> old.refColumns, name |-> name]
      BY <3>3, <3>4 DEF IsConstraint
    <3> QED
      BY <3>3, <3>5 DEF IsConstraint
  <2>5. \A j \in 1 .. n : list[j] = new \/ list[j] = r.list[j]
    <3>1. DOMAIN r.list = 1 .. n
      BY <2>2
    <3> HIDE DEF new, i, n
    <3> QED
      BY <3>1
  <2> HIDE DEF list, new
  <2>6. IsList(list) /\ ToSet(list) = {list[j] : j \in 1 .. n}
    BY <2>2, <2>3, MapIsList
  <2>7. \A j \in 1 .. n : r.list[j] \in ToSet(r.list)
    BY ListLength DEF Gathered
  <2>8. \A d \in ToSet(list) : IsConstraint(d)
    BY <2>4, <2>5, <2>6, <2>7 DEF Gathered
  <2> QED
    BY <2>1, <2>6, <2>8 DEF Gathered
<1> QED
  BY <1>1, <1>2

\* The lists that constraints are gathered in, up to the k-th constraint.
Gathers(f, k, constraints) ==
  f = [i \in 0 .. k |-> IF i = 0 THEN [ok |-> TRUE, list |-> <<>>]
                        ELSE AppendUnique(f[i - 1], constraints[i])]

LEMMA GathersAt ==
  ASSUME NEW constraints, NEW k, NEW f, Gathers(f, k, constraints), NEW i \in 0 .. k
  PROVE  f[i] = IF i = 0 THEN [ok |-> TRUE, list |-> <<>>]
                ELSE AppendUnique(f[i - 1], constraints[i])
<1> DEFINE g == [j \in 0 .. k |-> IF j = 0 THEN [ok |-> TRUE, list |-> <<>>]
                                   ELSE AppendUnique(f[j - 1], constraints[j])]
<1>1. f = g
  BY DEF Gathers
<1>2. g[i] = IF i = 0 THEN [ok |-> TRUE, list |-> <<>>] ELSE AppendUnique(f[i - 1], constraints[i])
  OBVIOUS
<1> HIDE DEF g
<1> QED
  BY <1>1, <1>2

LEMMA MergedDefined ==
  ASSUME NEW constraints, Len(constraints) \in Nat
  PROVE  \E r : /\ r[0] = [ok |-> TRUE, list |-> <<>>]
                /\ \A i \in 1 .. Len(constraints) : r[i] = AppendUnique(r[i - 1], constraints[i])
                /\ Merged(constraints) = r[Len(constraints)]
<1> DEFINE n == Len(constraints)
           start == [ok |-> TRUE, list |-> <<>>]
           S == {k \in 0 .. n : \E f : Gathers(f, k, constraints)}
<1>1. 0 \in S
  <2> DEFINE f == [i \in 0 .. 0 |-> start]
  <2>1. Gathers(f, 0, constraints)
    BY DEF Gathers
  <2> HIDE DEF f
  <2> QED
    BY <2>1
<1>2. ASSUME NEW k \in 0 .. n - 1, k \in S PROVE k + 1 \in S
  <2>1. PICK f : Gathers(f, k, constraints)
    BY <1>2
  <2> DEFINE g == [i \in 0 .. k + 1 |-> IF i <= k THEN f[i]
                                        ELSE AppendUnique(f[k], constraints[k + 1])]
  <2>2. ASSUME NEW i \in 0 .. k + 1
        PROVE  g[i] = IF i = 0 THEN start ELSE AppendUnique(g[i - 1], constraints[i])
    <3> HIDE DEF start
    <3>1. CASE i <= k
      <4>1. g[i] = f[i] /\ (i # 0 => g[i - 1] = f[i - 1])
        BY <3>1
      <4>2. f[i] = IF i = 0 THEN start ELSE AppendUnique(f[i - 1], constraints[i])
        BY <2>1, <3>1, GathersAt DEF start
      <4> QED
        BY <4>1, <4>2
    <3>2. CASE i = k + 1
      BY <3>2
    <3> QED
      BY <3>1, <3>2
  <2>3. Gathers(g, k + 1, constraints)
    BY <2>2, Zenon DEF Gathers
  <2> HIDE DEF g
  <2>4. k + 1 \in 0 .. n
    OBVIOUS
  <2> QED
    BY <2>3, <2>4
<1>3. n \in S
  <2> HIDE DEF S
  <2>1. n \in Nat
    OBVIOUS
  <2>2. \A i \in 0 .. n - 1 : i \in S => i + 1 \in S
    BY <1>2
  <2> HIDE DEF n
  <2>3. \A i \in 0 .. n : i \in S
    BY <1>1, <2>1, <2>2, UpTo
  <2> QED
    BY <2>1, <2>3
<1> DEFINE r[i \in 0 .. n] == IF i = 0 THEN start ELSE AppendUnique(r[i - 1], constraints[i])
<1>4. Gathers(r, n, constraints)
  <2>1. \E f : Gathers(f, n, constraints)
    BY <1>3
  <2> QED
    BY <2>1 DEF Gathers
<1>5. Merged(constraints) = r[n]
  BY DEF Merged
<1> HIDE DEF r
<1>6. /\ r[0] = start
      /\ \A i \in 1 .. n : r[i] = AppendUnique(r[i - 1], constraints[i])
  <2> HIDE DEF n
  <2>1. ASSUME NEW i \in 0 .. n
        PROVE  r[i] = IF i = 0 THEN start ELSE AppendUnique(r[i - 1], constraints[i])
    BY <1>4, GathersAt
  <2>2. n \in Nat
    BY DEF n
  <2> HIDE DEF start
  <2> QED
    BY <2>1, <2>2
<1> QED
  BY <1>5, <1>6

LEMMA MergedGathers ==
  ASSUME NEW constraints, IsList(constraints), \A c \in ToSet(constraints) : IsConstraint(c)
  PROVE  Gathered(Merged(constraints))
<1> DEFINE n == Len(constraints)
<1>1. n \in Nat /\ \A i \in 1 .. n : IsConstraint(constraints[i])
  BY ListLength
<1>2. PICK r : /\ r[0] = [ok |-> TRUE, list |-> <<>>]
               /\ \A i \in 1 .. n : r[i] = AppendUnique(r[i - 1], constraints[i])
               /\ Merged(constraints) = r[n]
  BY <1>1, MergedDefined
<1> DEFINE S == {i \in 0 .. n : Gathered(r[i])}
<1>3. 0 \in S
  BY <1>1, <1>2, EmptyList DEF Gathered
<1>4. ASSUME NEW i \in 0 .. n - 1, i \in S PROVE i + 1 \in S
  <2>1. i + 1 \in 1 .. n /\ i + 1 \in 0 .. n /\ (i + 1) - 1 = i
    BY <1>1
  <2>2. r[i + 1] = AppendUnique(r[i], constraints[i + 1])
    BY <1>2, <2>1
  <2> QED
    BY <1>1, <1>4, <2>1, <2>2, UniqueAppended
<1>5. \A i \in 0 .. n : i \in S
  <2> HIDE DEF S
  <2> QED
    BY <1>1, <1>3, <1>4, UpTo
<1> QED
  BY <1>1, <1>2, <1>5

LEMMA KeysAreLists ==
  ASSUME NEW x, NEW says
  PROVE  IsList(KeysOf(x, says)) /\ \A c \in ToSet(KeysOf(x, says)) : IsConstraint(c)
<1> DEFINE l(b, kind) == IF b THEN <<KeyOn(kind, x)>> ELSE <<>>
<1>1. ASSUME NEW b, NEW kind \in {"pk", "uq"}
      PROVE  IsList(l(b, kind)) /\ \A c \in ToSet(l(b, kind)) : IsConstraint(c)
  <2>1. IsConstraint(KeyOn(kind, x))
    BY DEF KeyOn, IsConstraint, KindOrder
  <2>2. IsList(<<KeyOn(kind, x)>>) /\ ToSet(<<KeyOn(kind, x)>>) = {KeyOn(kind, x)}
    BY SingleList
  <2> QED
    BY <2>1, <2>2, EmptyList
<1>2. KeysOf(x, says) = l(says.pk, "pk") \o l(says.uq, "uq")
  BY DEF KeysOf
<1>3. /\ IsList(l(says.pk, "pk")) /\ \A c \in ToSet(l(says.pk, "pk")) : IsConstraint(c)
      /\ IsList(l(says.uq, "uq")) /\ \A c \in ToSet(l(says.uq, "uq")) : IsConstraint(c)
  BY <1>1
<1> HIDE DEF l
<1>4. /\ IsList(KeysOf(x, says))
      /\ ToSet(KeysOf(x, says)) = ToSet(l(says.pk, "pk")) \cup ToSet(l(says.uq, "uq"))
  BY <1>2, <1>3, ListsJoined
<1> QED
  BY <1>3, <1>4

LEMMA ThreeFields ==
  ASSUME NEW a, NEW b, NEW d, NEW m, NEW x, NEW y, NEW z,
         NEW col, col = [type |-> a, notNull |-> b, default |-> d, mode |-> m]
  PROVE  [col EXCEPT !.type = x, !.notNull = y, !.default = z]
           = [type |-> x, notNull |-> y, default |-> z, mode |-> m]
<1> DEFINE one == [col EXCEPT !.type = x]
           two == [one EXCEPT !.notNull = y]
           end == [two EXCEPT !.default = z]
<1>1. one = [type |-> x, notNull |-> b, default |-> d, mode |-> m]
  OBVIOUS
<1>2. two = [type |-> x, notNull |-> y, default |-> d, mode |-> m]
  <2> HIDE DEF one
  <2> QED BY <1>1
<1>3. end = [type |-> x, notNull |-> y, default |-> z, mode |-> m]
  <2> HIDE DEF two
  <2> QED BY <1>2
<1>4. [col EXCEPT !.type = x, !.notNull = y, !.default = z] = end
  OBVIOUS
<1> QED
  BY <1>3, <1>4

LEMMA OverriddenIs ==
  ASSUME NEW a, NEW b, NEW d, NEW m, NEW says,
         NEW col, col = [type |-> a, notNull |-> b, default |-> d, mode |-> m]
  PROVE  Overridden(col, says) =
           [type    |-> IF says.type = NotGiven THEN a ELSE says.type,
            notNull |-> b \/ says.notNull \/ says.pk,
            default |-> IF says.default = NotGiven THEN d ELSE says.default,
            mode    |-> m]
<1> DEFINE x == IF says.type = NotGiven THEN a ELSE says.type
           y == b \/ says.notNull \/ says.pk
           z == IF says.default = NotGiven THEN d ELSE says.default
<1>1. col.type = a /\ col.notNull = b /\ col.default = d
  OBVIOUS
<1>2. Overridden(col, says) = [col EXCEPT !.type    = IF says.type = NotGiven THEN col.type ELSE says.type,
                                          !.notNull = col.notNull \/ says.notNull \/ says.pk,
                                          !.default = IF says.default = NotGiven THEN col.default ELSE says.default]
  BY DEF Overridden
<1>3. Overridden(col, says) = [col EXCEPT !.type = x, !.notNull = y, !.default = z]
  BY <1>1, <1>2
<1> HIDE DEF x, y, z
<1>4. Overridden(col, says) = [type |-> x, notNull |-> y, default |-> z, mode |-> m]
  BY <1>3, ThreeFields
<1> QED
  BY <1>4 DEF x, y, z

LEMMA DeclaredColumn ==
  ASSUME NEW f, NEW says
  PROVE  IsColumn(FieldColumn(f)) /\ IsColumn(Overridden(FieldColumn(f), says))
<1> DEFINE open == ~f.nullable
           base == [type |-> f.type, notNull |-> open, default |-> NotGiven, mode |-> f.mode]
<1>1. ASSUME NEW a, NEW b, NEW d, NEW m, NEW more
      PROVE  IsColumn([type |-> a, notNull |-> b \/ more.notNull \/ more.pk, default |-> d, mode |-> m])
  BY DEF IsColumn
<1>2. FieldColumn(f) =
        [type    |-> IF f.tag.type = NotGiven THEN f.type ELSE f.tag.type,
         notNull |-> open \/ f.tag.notNull \/ f.tag.pk,
         default |-> IF f.tag.default = NotGiven THEN NotGiven ELSE f.tag.default,
         mode    |-> f.mode]
  <2>1. FieldColumn(f) = Overridden(base, f.tag)
    BY DEF FieldColumn
  <2> HIDE DEF open
  <2> QED
    BY <2>1, OverriddenIs
<1>3. PICK a, b, d, m : FieldColumn(f) = [type |-> a, notNull |-> b, default |-> d, mode |-> m]
  BY <1>2
<1>4. Overridden(FieldColumn(f), says) =
        [type    |-> IF says.type = NotGiven THEN a ELSE says.type,
         notNull |-> b \/ says.notNull \/ says.pk,
         default |-> IF says.default = NotGiven THEN d ELSE says.default,
         mode    |-> m]
  BY <1>3, OverriddenIs
<1> QED
  BY <1>1, <1>2, <1>4

LEMMA TableDeclared ==
  ASSUME NEW configs \in Declared, NEW t \in DOMAIN configs,
         NEW visit \in SetToSeqs(DOMAIN configs[t].columns)
  PROVE  LET table == TableFromConfig(configs[t], visit).table
         IN  /\ FiniteTable(table) /\ IsTable(table)
             /\ \A x \in DOMAIN table.columns : IsColumn(table.columns[x])
             /\ \A c \in table.constraints : IsConstraint(c)
             /\ \A x \in DOMAIN table.indexes : IsIndex(table.indexes[x])
<1> DEFINE cfg   == configs[t]
           names == {f.name : f \in ToSet(cfg.fields)}
           n     == Len(cfg.fields)
           tags  == [i \in DOMAIN cfg.fields |-> KeysOf(cfg.fields[i].name, cfg.fields[i].tag)]
           cols  == [i \in DOMAIN visit |-> KeysOf(visit[i], cfg.columns[visit[i]])]
<1>1. /\ IsList(cfg.fields) /\ IsList(cfg.constraints)
      /\ DOMAIN cfg.columns \in SUBSET names /\ IsFiniteSet(DOMAIN cfg.indexes)
      /\ \A c \in ToSet(cfg.constraints) : IsConstraint(c)
      /\ \A x \in DOMAIN cfg.indexes : IsIndex(cfg.indexes[x])
  BY RevisionsAssumption DEF IsList
<1>2. IsFiniteSet(names)
  <2> DEFINE g == [f \in ToSet(cfg.fields) |-> f.name]
  <2>1. g \in Surjection(ToSet(cfg.fields), names)
    BY DEF Surjection
  <2>2. IsFiniteSet(ToSet(cfg.fields))
    BY <1>1, ListFinite
  <2> HIDE DEF g, names
  <2> QED
    BY <2>1, <2>2, FS_Surjection
<1> HIDE DEF names
<1>3. \E m \in Nat : DOMAIN visit = 1 .. m
  <2>1. IsFiniteSet(DOMAIN cfg.columns)
    BY <1>1, <1>2, FS_Subset
  <2>2. Cardinality(DOMAIN cfg.columns) \in Nat
    BY <2>1, FS_CardinalityType
  <2> QED
    BY <2>2 DEF SetToSeqs
<1>4. IsList(tags) /\ \A l \in ToSet(tags) : IsList(l) /\ \A c \in ToSet(l) : IsConstraint(c)
  <2>1. n \in Nat /\ DOMAIN cfg.fields = 1 .. n
    BY <1>1, ListLength
  <2>2. IsList(tags) /\ ToSet(tags) = {tags[i] : i \in 1 .. n}
    BY <2>1, MapIsList
  <2> QED
    BY <2>1, <2>2, KeysAreLists
<1>5. IsList(cols) /\ \A l \in ToSet(cols) : IsList(l) /\ \A c \in ToSet(l) : IsConstraint(c)
  <2>1. PICK m \in Nat : DOMAIN visit = 1 .. m
    BY <1>3
  <2>2. cols = [i \in 1 .. m |-> cols[i]]
    BY <2>1
  <2> HIDE DEF cols
  <2>3. IsList(cols) /\ ToSet(cols) = {cols[i] : i \in 1 .. m}
    BY <2>2, MapIsList
  <2> USE DEF cols
  <2> QED
    BY <2>1, <2>3, KeysAreLists
<1> DEFINE listed == Merged(TagConstraints(cfg.fields) \o FlattenSeq(cols) \o cfg.constraints)
           table  == TableFromConfig(cfg, visit).table
<1>6. Gathered(listed)
  <2>1. TagConstraints(cfg.fields) = FlattenSeq(tags)
    BY DEF TagConstraints
  <2> HIDE DEF tags, cols, cfg
  <2>2. /\ IsList(TagConstraints(cfg.fields)) /\ IsList(FlattenSeq(cols))
        /\ ToSet(TagConstraints(cfg.fields)) \subseteq UNION {ToSet(l) : l \in ToSet(tags)}
        /\ ToSet(FlattenSeq(cols)) \subseteq UNION {ToSet(l) : l \in ToSet(cols)}
    BY <1>4, <1>5, <2>1, ListsFlattened
  <2> DEFINE all == TagConstraints(cfg.fields) \o FlattenSeq(cols) \o cfg.constraints
  <2>3. /\ IsList(all)
        /\ ToSet(all) =
             (ToSet(TagConstraints(cfg.fields)) \cup ToSet(FlattenSeq(cols))) \cup ToSet(cfg.constraints)
    BY <1>1, <2>2, ListsJoined
  <2>4. /\ \A c \in ToSet(TagConstraints(cfg.fields)) : IsConstraint(c)
        /\ \A c \in ToSet(FlattenSeq(cols)) : IsConstraint(c)
    BY <1>4, <1>5, <2>2
  <2>5. \A c \in ToSet(all) : IsConstraint(c)
    BY <1>1, <2>3, <2>4
  <2> QED
    BY <2>3, <2>5, MergedGathers
<1>7. /\ DOMAIN table.columns = names
      /\ table.constraints = ToSet(listed.list)
      /\ table.indexes = cfg.indexes
      /\ IsTable(table)
  BY DEF TableFromConfig, names, IsTable
<1>10. \A x \in DOMAIN table.columns : IsColumn(table.columns[x])
  <2> DEFINE pick(x) == CHOOSE f \in ToSet(cfg.fields) : f.name = x
             columns == [x \in {f.name : f \in ToSet(cfg.fields)} |->
                           IF x \in DOMAIN cfg.columns THEN Overridden(FieldColumn(pick(x)), cfg.columns[x])
                                                       ELSE FieldColumn(pick(x))]
  <2>1. table.columns = columns
    BY DEF TableFromConfig
  <2> HIDE DEF pick, table, cfg
  <2>2. \A x \in DOMAIN columns : IsColumn(columns[x])
    BY DeclaredColumn
  <2> HIDE DEF columns
  <2> QED
    BY <2>1, <2>2
<1> HIDE DEF listed, table
<1>8. IsFiniteSet(ToSet(listed.list))
  BY <1>6, ListFinite DEF Gathered
<1>9. FiniteTable(table)
  BY <1>1, <1>2, <1>7, <1>8 DEF FiniteTable
<1>11. \A c \in table.constraints : IsConstraint(c)
  BY <1>6, <1>7 DEF Gathered
<1>12. \A x \in DOMAIN table.indexes : IsIndex(table.indexes[x])
  BY <1>1, <1>7
<1> QED
  BY <1>7, <1>9, <1>10, <1>11, <1>12 DEF table

\* What a revision compares with is a schema as well.
LEMMA DesiredShaped ==
  ASSUME NEW configs \in Declared, NEW s \in DesiredSchemas(configs)
  PROVE  Shaped([t \in DOMAIN s |-> s[t].table])
<1> DEFINE fine(table) == /\ FiniteTable(table) /\ IsTable(table)
                          /\ \A x \in DOMAIN table.columns : IsColumn(table.columns[x])
                          /\ \A c \in table.constraints : IsConstraint(c)
                          /\ \A x \in DOMAIN table.indexes : IsIndex(table.indexes[x])
           all == [t \in DOMAIN s |-> s[t].table]
<1>1. DOMAIN s = DOMAIN configs
  BY DEF DesiredSchemas
<1>2. ASSUME NEW t \in DOMAIN configs PROVE fine(s[t].table)
  <2>1. PICK visit \in SetToSeqs(DOMAIN configs[t].columns) :
          s[t] = TableFromConfig(configs[t], visit)
    BY DEF DesiredSchemas
  <2> QED
    BY <2>1, TableDeclared
<1>3. DOMAIN configs \subseteq Nat /\ IsFiniteSet(DOMAIN configs)
  BY RevisionsAssumption
<1>4. DOMAIN all = DOMAIN configs /\ \A t \in DOMAIN all : fine(all[t])
  BY <1>1, <1>2
<1> HIDE DEF all
<1>5. Shaped(all)
  BY <1>3, <1>4 DEF Shaped, FiniteSchema
<1> QED
  BY <1>5 DEF all

LEMMA VersionTableLeftOut ==
  ASSUME NEW s, Shaped(s)
  PROVE  Shaped(WithoutVersionTable(s)) /\ VersionTable \notin DOMAIN WithoutVersionTable(s)
<1> DEFINE w == WithoutVersionTable(s)
<1>1. DOMAIN w = DOMAIN s \ {VersionTable} /\ \A t \in DOMAIN w : w[t] = s[t]
  BY DEF WithoutVersionTable, Restrict
<1> HIDE DEF w
<1>2. IsFiniteSet(DOMAIN w)
  BY <1>1, FS_RemoveElement DEF Shaped, FiniteSchema
<1> QED
  BY <1>1, <1>2 DEF Shaped, FiniteSchema, w

\* A migration made from such schemas leaves the version table alone.
LEMMA RevisionSpares ==
  ASSUME NEW configs \in Declared, NEW s \in DesiredSchemas(configs),
         NEW tables, Shaped(tables)
  PROVE  LET cur   == WithoutVersionTable(tables)
             des   == WithoutVersionTable([t \in DOMAIN s |-> s[t].table])
             steps == MigrationSteps(cur, des)
         IN  SparingList(UpStatements(steps)) /\ SparingList(DownStatements(steps))
<1> DEFINE cur   == WithoutVersionTable(tables)
           all   == [t \in DOMAIN s |-> s[t].table]
           des   == WithoutVersionTable(all)
           steps == MigrationSteps(cur, des)
<1>1. Shaped(all)
  BY DesiredShaped
<1> HIDE DEF all
<1>2. /\ Shaped(cur) /\ VersionTable \notin DOMAIN cur
      /\ Shaped(des) /\ VersionTable \notin DOMAIN des
  BY <1>1, VersionTableLeftOut
<1> HIDE DEF cur, des
<1>3. SparingSteps(steps)
  BY <1>2, StepsSpare
<1> HIDE DEF steps
<1>4. SparingList(UpStatements(steps)) /\ SparingList(DownStatements(steps))
  BY <1>3, StatementsSpare
<1> QED
  BY <1>4 DEF steps, des, cur, all

-----------------------------------------------------------------------------
(* The inductive invariant.                                                *)

LEMMA EmptyCatalog == CatalogOK(<<>>) /\ Sound(<<>>)
<1>1. DOMAIN <<>> = {} /\ <<>> = [x \in {} |-> x]
  BY NoNames
<1>2. IsFiniteSet({})
  BY FS_EmptySet
<1>3. \A e : DOMAIN e = {} /\ e = [x \in {} |-> x] => CatalogOK(e) /\ Sound(e)
  BY <1>2, SoundParts DEF CatalogOK, FiniteSchema, KeysServed, NamesOnce
<1> QED
  BY <1>1, <1>3

LEMMA IdleFine == reading = Idle => ReadingOK
<1> SUFFICES ASSUME reading = Idle PROVE ReadingOK
  OBVIOUS
<1>1. reading.query = 0 /\ reading.tables = <<>> /\ reading.indexes = <<>>
  BY DEF Idle
<1>2. DOMAIN reading.tables = {} /\ Shaped(reading.tables) /\ IndexRows(reading.indexes)
  BY <1>1, NoNames, EmptyCatalog DEF Sound, IndexRows
<1>3. reading = [query     |-> reading.query,   tables    |-> reading.tables,
                 indexes   |-> reading.indexes, disturbed |-> reading.disturbed]
  BY DEF Idle
<1>4. ReadingExact
  BY <1>1 DEF ReadingExact
<1> QED
  BY <1>2, <1>3, <1>4 DEF ReadingOK

LEMMA IdleNext == reading' = Idle => ReadingOK'
<1>1. (reading = Idle => ReadingOK)'
  BY IdleFine, PTL
<1> QED
  BY <1>1 DEF Idle

LEMMA InitOK == Init => CatalogInv
<1> SUFFICES ASSUME Init PROVE CatalogInv
  OBVIOUS
<1>1. db = <<>> /\ migrations = <<>> /\ applied = 0 /\ reading = Idle /\ outcome = "none"
  BY DEF Init
<1>2. CatalogOK(db) /\ Sound(db)
  BY <1>1, EmptyCatalog
<1>3. MigrationsOK
  BY <1>1, EmptyList DEF MigrationsOK, IsList
<1>4. ReadingOK
  BY <1>1, IdleFine
<1>5. applied \in 0 .. Len(migrations) /\ reading.query \in 0 .. 5
  BY <1>1 DEF Idle
<1>6. TypeOK
  BY <1>1, <1>2, <1>5 DEF TypeOK, CatalogOK
<1> QED
  BY <1>2, <1>3, <1>4, <1>6 DEF CatalogInv

\* The parts of the invariant that only depend on db and migrations.
LEMMA CatalogUnchanged ==
  ASSUME CatalogInv, UNCHANGED <<db, migrations, applied>>,
         reading'.query \in 0 .. 5, outcome' \in {"none", "failed", "panicked"} \cup {outcome}
  PROVE  TypeOK' /\ CatalogOK(db)' /\ Sound(db)' /\ MigrationsOK'
BY DEF CatalogInv, TypeOK, MigrationsOK

ReadingFine(r) ==
  /\ r = [query     |-> r.query,   tables    |-> r.tables,
          indexes   |-> r.indexes, disturbed |-> r.disturbed]
  /\ r.query = 0 => r = Idle
  /\ Shaped(r.tables)
  /\ IndexRows(r.indexes)
  /\ \A t \in DOMAIN r.tables : IsFiniteSet(NamesRead(r.indexes, t))

LEMMA ReadingParts ==
  /\ ReadingOK <=> ReadingFine(reading) /\ ReadingExact
  /\ ReadingOK' <=> ReadingFine(reading') /\ ReadingExact'
BY DEF ReadingOK, ReadingFine

LEMMA NoIndexesRead ==
  \A indexes, t : indexes = <<>> => IndexRows(indexes) /\ IsFiniteSet(NamesRead(indexes, t))
<1> SUFFICES ASSUME NEW indexes, NEW t, indexes = <<>>
             PROVE  IndexRows(indexes) /\ IsFiniteSet(NamesRead(indexes, t))
  OBVIOUS
<1>1. DOMAIN indexes = {}
  BY NoNames
<1>2. NamesRead(indexes, t) = {}
  BY <1>1 DEF NamesRead
<1> QED
  BY <1>1, <1>2, FS_EmptySet DEF IndexRows

\* What has been read of the tables while a query adds a part to each.
ShapedTable(table) ==
  /\ IsTable(table) /\ FiniteTable(table)
  /\ \A x \in DOMAIN table.columns : IsColumn(table.columns[x])
  /\ \A c \in table.constraints : IsConstraint(c)
  /\ \A x \in DOMAIN table.indexes : IsIndex(table.indexes[x])

LEMMA ShapedParts ==
  ASSUME NEW s
  PROVE  Shaped(s) <=> /\ DOMAIN s \subseteq Nat /\ IsFiniteSet(DOMAIN s)
                       /\ \A t \in DOMAIN s : ShapedTable(s[t])
BY DEF Shaped, FiniteSchema, ShapedTable

LEMMA ReadTablesOK ==
  ASSUME CatalogInv, ReadTables
  PROVE  CatalogInv'
<1>1. /\ UNCHANGED <<db, migrations, applied>> /\ outcome' = "none"
      /\ reading' = [Idle EXCEPT !.query = 1, !.tables = TablesRead(db)]
  BY DEF ReadTables
<1>2. /\ reading'.query = 1 /\ reading'.tables = TablesRead(db)
      /\ reading'.indexes = <<>>
      /\ reading' = [query   |-> reading'.query,   tables    |-> reading'.tables,
                     indexes |-> reading'.indexes, disturbed |-> reading'.disturbed]
  BY <1>1 DEF Idle
<1>3. TypeOK' /\ CatalogOK(db)' /\ Sound(db)' /\ MigrationsOK'
  BY <1>1, <1>2, CatalogUnchanged
<1>4. Shaped(TablesRead(db))
  <2>1. DOMAIN <<>> = {} /\ IsFiniteSet({})
    BY NoNames, FS_EmptySet
  <2>2. \A e : DOMAIN e = {} => ShapedTable([columns |-> e, constraints |-> {}, indexes |-> e])
    BY <2>1 DEF ShapedTable, FiniteTable, IsTable
  <2>3. DOMAIN db \subseteq Nat /\ IsFiniteSet(DOMAIN db)
    BY DEF CatalogInv, CatalogOK, FiniteSchema
  <2>4. DOMAIN TablesRead(db) = DOMAIN db /\ \A t \in DOMAIN db : ShapedTable(TablesRead(db)[t])
    BY <2>1, <2>2 DEF TablesRead, NoColumns
  <2> QED
    BY <2>3, <2>4, ShapedParts
<1>5. ReadingFine(reading')
  BY <1>2, <1>4, NoIndexesRead DEF ReadingFine
<1>6. ReadingExact'
  BY <1>1, <1>2 DEF ReadingExact, TablesSoFar
<1> QED
  BY <1>3, <1>5, <1>6, ReadingParts DEF CatalogInv

LEMMA TablesChange ==
  ASSUME NEW tables, Shaped(tables), NEW after, DOMAIN after = DOMAIN tables,
         \A t \in DOMAIN tables : ShapedTable(after[t])
  PROVE  Shaped(after)
BY ShapedParts

LEMMA ColumnsReadFine ==
  ASSUME NEW tables, Shaped(tables), Shaped(db)
  PROVE  Shaped(ColumnsRead(tables, db))
<1> DEFINE after == ColumnsRead(tables, db)
<1>1. DOMAIN after = DOMAIN tables
  BY DEF ColumnsRead
<1>2. ASSUME NEW t \in DOMAIN tables PROVE ShapedTable(after[t])
  <2>1. ShapedTable(tables[t])
    BY ShapedParts
  <2>2. CASE t \in DOMAIN db
    <3>1. after[t] = [tables[t] EXCEPT !.columns = db[t].columns]
      BY <2>2 DEF ColumnsRead
    <3>2. IsFiniteSet(DOMAIN db[t].columns) /\ \A x \in DOMAIN db[t].columns : IsColumn(db[t].columns[x])
      BY <2>2 DEF Shaped, FiniteSchema, FiniteTable
    <3> HIDE DEF after
    <3> QED
      BY <2>1, <3>1, <3>2 DEF ShapedTable, IsTable, FiniteTable
  <2>3. CASE t \notin DOMAIN db
    BY <2>1, <2>3 DEF ColumnsRead
  <2> QED
    BY <2>2, <2>3
<1> HIDE DEF after
<1> QED
  BY <1>1, <1>2, TablesChange DEF after

LEMMA ConstraintsReadFine ==
  ASSUME NEW tables, Shaped(tables), Shaped(db)
  PROVE  Shaped(ConstraintsRead(tables, db))
<1> DEFINE after == ConstraintsRead(tables, db)
<1>1. DOMAIN after = DOMAIN tables
  BY DEF ConstraintsRead
<1>2. ASSUME NEW t \in DOMAIN tables PROVE ShapedTable(after[t])
  <2>1. ShapedTable(tables[t])
    BY ShapedParts
  <2>2. CASE t \in DOMAIN db
    <3>1. after[t] = [tables[t] EXCEPT !.constraints = db[t].constraints]
      BY <2>2 DEF ConstraintsRead
    <3>2. IsFiniteSet(db[t].constraints) /\ \A c \in db[t].constraints : IsConstraint(c)
      BY <2>2 DEF Shaped, FiniteSchema, FiniteTable
    <3> HIDE DEF after
    <3> QED
      BY <2>1, <3>1, <3>2 DEF ShapedTable, IsTable, FiniteTable
  <2>3. CASE t \notin DOMAIN db
    BY <2>1, <2>3 DEF ConstraintsRead
  <2> QED
    BY <2>2, <2>3
<1> HIDE DEF after
<1> QED
  BY <1>1, <1>2, TablesChange DEF after

LEMMA IndexesAppendedFine ==
  ASSUME NEW tables, Shaped(tables), NEW indexes,
         IndexRows(indexes), \A t \in DOMAIN tables : IsFiniteSet(NamesRead(indexes, t))
  PROVE  Shaped(IndexesAppended(tables, indexes))
<1> DEFINE after == IndexesAppended(tables, indexes)
           of(t) == [x \in NamesRead(indexes, t) |-> indexes[<<t, x>>]]
<1>1. DOMAIN after = DOMAIN tables /\ \A t \in DOMAIN tables : after[t] = [tables[t] EXCEPT !.indexes = of(t)]
  BY DEF IndexesAppended, NamesRead
<1>2. ASSUME NEW t \in DOMAIN tables PROVE ShapedTable(after[t])
  <2>1. ShapedTable(tables[t])
    BY ShapedParts
  <2>2. IsFiniteSet(DOMAIN of(t)) /\ \A x \in DOMAIN of(t) : IsIndex(of(t)[x])
    <3>1. \A x \in NamesRead(indexes, t) : <<t, x>> \in DOMAIN indexes
      BY DEF NamesRead, IndexRows
    <3> QED
      BY <3>1 DEF IndexRows
  <2>3. after[t] = [tables[t] EXCEPT !.indexes = of(t)]
    BY <1>1
  <2> HIDE DEF after, of
  <2> QED
    BY <2>1, <2>2, <2>3 DEF ShapedTable, IsTable, FiniteTable
<1> HIDE DEF after
<1> QED
  BY <1>1, <1>2, TablesChange DEF after

LEMMA IndexesReadFine ==
  ASSUME NEW tables, Shaped(db)
  PROVE  IndexRows(IndexesRead(tables, db))
<1> DEFINE rows == IndexesRead(tables, db)
<1>1. ASSUME NEW p \in DOMAIN rows PROVE p = <<p[1], p[2]>> /\ IsIndex(rows[p])
  <2>1. p \in ListedIndexes(db)
    BY DEF IndexesRead
  <2>2. PICK t \in DOMAIN db : \E y \in DOMAIN db[t].indexes : p = <<t, y>>
    BY <2>1 DEF ListedIndexes
  <2>3. PICK x \in DOMAIN db[t].indexes : p = <<t, x>>
    BY <2>2
  <2>4. IsIndex(db[t].indexes[x])
    BY DEF Shaped
  <2>5. rows[p] = [db[t].indexes[x] EXCEPT !.columns = {}]
    BY <2>3 DEF IndexesRead
  <2> QED
    BY <2>3, <2>4, <2>5 DEF IsIndex
<1> QED
  BY <1>1 DEF IndexRows

LEMMA KeysReadFine ==
  ASSUME NEW indexes, IndexRows(indexes)
  PROVE  IndexRows(KeysRead(indexes, db))
BY DEF IndexRows, KeysRead, IsIndex

LEMMA IndexesReadFinite ==
  ASSUME NEW tables, CatalogOK(db), NEW t
  PROVE  IsFiniteSet(NamesRead(IndexesRead(tables, db), t))
<1> DEFINE names == NamesRead(IndexesRead(tables, db), t)
<1>1. DOMAIN IndexesRead(tables, db) = {q \in ListedIndexes(db) : q[1] \in DOMAIN tables}
  BY DEF IndexesRead
<1>2. CASE t \in DOMAIN db
  <2>1. names \in SUBSET DOMAIN db[t].indexes
    BY <1>1 DEF NamesRead, ListedIndexes
  <2>2. IsFiniteSet(DOMAIN db[t].indexes)
    BY <1>2 DEF CatalogOK, FiniteSchema, FiniteTable
  <2> HIDE DEF names
  <2>3. IsFiniteSet(names)
    BY <2>1, <2>2, FS_Subset
  <2> QED
    BY <2>3 DEF names
<1>3. CASE t \notin DOMAIN db
  <2>1. names = {}
    BY <1>1, <1>3 DEF NamesRead, ListedIndexes
  <2> QED
    BY <2>1, FS_EmptySet
<1> QED
  BY <1>2, <1>3

\* The queries: nothing changes but what has been read.
IsReading(r) ==
  r = [query   |-> r.query,   tables    |-> r.tables,
       indexes |-> r.indexes, disturbed |-> r.disturbed]

LEMMA QueryReturns ==
  ASSUME CatalogInv, UNCHANGED <<db, migrations, applied, outcome>>,
         IsReading(reading'), reading'.query \in 2 .. 5,
         Shaped(reading'.tables), IndexRows(reading'.indexes),
         \A t \in DOMAIN reading'.tables : IsFiniteSet(NamesRead(reading'.indexes, t)),
         ReadingExact'
  PROVE  CatalogInv'
<1>1. TypeOK' /\ CatalogOK(db)' /\ Sound(db)' /\ MigrationsOK'
  BY CatalogUnchanged
<1>2. ReadingFine(reading')
  BY DEF ReadingFine, IsReading
<1> QED
  BY <1>1, <1>2, ReadingParts DEF CatalogInv

LEMMA ReadColumnsOK ==
  ASSUME CatalogInv, ReadColumns
  PROVE  CatalogInv'
<1> DEFINE tables == ColumnsRead(reading.tables, db)
<1>1. /\ reading.query = 1 /\ reading # Idle
      /\ UNCHANGED <<db, migrations, applied, outcome>>
      /\ reading' = [reading EXCEPT !.query = 2, !.tables = tables]
  BY DEF ReadColumns, Idle
<1>2. /\ IsReading(reading') /\ reading'.query = 2
      /\ reading'.tables = tables /\ reading'.indexes = reading.indexes
  BY <1>1 DEF CatalogInv, ReadingOK, IsReading
<1>3. Shaped(reading.tables) /\ Shaped(db) /\ IndexRows(reading.indexes)
  BY DEF CatalogInv, ReadingOK, Sound
<1>4. Shaped(tables)
  BY <1>3, ColumnsReadFine
<1>5. \A t \in DOMAIN tables : IsFiniteSet(NamesRead(reading.indexes, t))
  BY DEF CatalogInv, ReadingOK, ColumnsRead
<1>6. /\ reading'.query = 2 /\ reading'.tables = tables
      /\ reading'.disturbed = reading.disturbed
  BY <1>1 DEF CatalogInv, ReadingOK
<1>7. ReadingExact'
  <2>1. ~reading.disturbed => reading.tables = TablesRead(db)
    BY <1>1 DEF CatalogInv, ReadingOK, ReadingExact, TablesSoFar
  <2> QED
    BY <1>1, <1>6, <2>1 DEF ReadingExact, TablesSoFar
<1> HIDE DEF tables
<1> QED
  BY <1>1, <1>2, <1>3, <1>4, <1>5, <1>7, QueryReturns

LEMMA ReadConstraintsOK ==
  ASSUME CatalogInv, ReadConstraints
  PROVE  CatalogInv'
<1> DEFINE tables == ConstraintsRead(reading.tables, db)
<1>1. /\ reading.query = 2 /\ reading # Idle
      /\ UNCHANGED <<db, migrations, applied, outcome>>
      /\ reading' = [reading EXCEPT !.query = 3, !.tables = tables]
  BY DEF ReadConstraints, Idle
<1>2. /\ IsReading(reading') /\ reading'.query = 3
      /\ reading'.tables = tables /\ reading'.indexes = reading.indexes
  BY <1>1 DEF CatalogInv, ReadingOK, IsReading
<1>3. Shaped(reading.tables) /\ Shaped(db) /\ IndexRows(reading.indexes)
  BY DEF CatalogInv, ReadingOK, Sound
<1>4. Shaped(tables)
  BY <1>3, ConstraintsReadFine
<1>5. \A t \in DOMAIN tables : IsFiniteSet(NamesRead(reading.indexes, t))
  BY DEF CatalogInv, ReadingOK, ConstraintsRead
<1>6. /\ reading'.query = 3 /\ reading'.tables = tables
      /\ reading'.disturbed = reading.disturbed
  BY <1>1 DEF CatalogInv, ReadingOK
<1>7. ReadingExact'
  <2>1. ~reading.disturbed => reading.tables = ColumnsRead(TablesRead(db), db)
    BY <1>1 DEF CatalogInv, ReadingOK, ReadingExact, TablesSoFar
  <2> QED
    BY <1>1, <1>6, <2>1 DEF ReadingExact, TablesSoFar
<1> HIDE DEF tables
<1> QED
  BY <1>1, <1>2, <1>3, <1>4, <1>5, <1>7, QueryReturns

LEMMA ReadIndexMetadataOK ==
  ASSUME CatalogInv, ReadIndexMetadata
  PROVE  CatalogInv'
<1> DEFINE indexes == IndexesRead(reading.tables, db)
<1>1. /\ reading.query = 3 /\ reading # Idle
      /\ UNCHANGED <<db, migrations, applied, outcome>>
      /\ reading' = [reading EXCEPT !.query = 4, !.indexes = indexes]
  BY DEF ReadIndexMetadata, Idle
<1>2. /\ IsReading(reading') /\ reading'.query = 4
      /\ reading'.tables = reading.tables /\ reading'.indexes = indexes
  BY <1>1 DEF CatalogInv, ReadingOK, IsReading
<1>3. Shaped(reading.tables) /\ Shaped(db) /\ CatalogOK(db)
  BY DEF CatalogInv, ReadingOK, Sound
<1>4. IndexRows(indexes) /\ \A t \in DOMAIN reading.tables : IsFiniteSet(NamesRead(indexes, t))
  BY <1>3, IndexesReadFine, IndexesReadFinite
<1>5. /\ reading'.query = 4 /\ reading'.tables = reading.tables
      /\ reading'.indexes = indexes /\ reading'.disturbed = reading.disturbed
  BY <1>1 DEF CatalogInv, ReadingOK
<1>6. ReadingExact'
  <2>1. ~reading.disturbed => reading.tables = TablesSoFar(3)
    BY <1>1 DEF CatalogInv, ReadingOK, ReadingExact
  <2>2. TablesSoFar(3)' = TablesSoFar(3) /\ TablesSoFar(4)' = TablesSoFar(3)
    BY <1>1 DEF TablesSoFar
  <2> QED
    BY <1>1, <1>5, <2>1, <2>2 DEF ReadingExact
<1> HIDE DEF indexes
<1> QED
  BY <1>1, <1>2, <1>3, <1>4, <1>6, QueryReturns

LEMMA ReadIndexKeysOK ==
  ASSUME CatalogInv, ReadIndexKeys
  PROVE  CatalogInv'
<1> DEFINE keys   == KeysRead(reading.indexes, db)
           tables == IndexesAppended(reading.tables, keys)
<1>1. /\ reading.query = 4 /\ reading # Idle
      /\ UNCHANGED <<db, migrations, applied, outcome>>
      /\ reading' = [reading EXCEPT !.query = 5, !.indexes = <<>>, !.tables = tables]
  BY DEF ReadIndexKeys, Idle
<1> DEFINE none == <<>>
<1>2. /\ IsReading(reading') /\ reading'.query = 5
      /\ reading'.tables = tables /\ reading'.indexes = none
  BY <1>1 DEF CatalogInv, ReadingOK, IsReading
<1>3. Shaped(reading.tables) /\ IndexRows(reading.indexes)
  BY DEF CatalogInv, ReadingOK
<1>4. IndexRows(keys) /\ \A t \in DOMAIN reading.tables : IsFiniteSet(NamesRead(keys, t))
  <2>1. \A t : NamesRead(keys, t) = NamesRead(reading.indexes, t)
    BY DEF NamesRead, KeysRead
  <2> QED
    BY <1>3, <2>1, KeysReadFine DEF CatalogInv, ReadingOK
<1>5. Shaped(tables)
  <2> HIDE DEF keys
  <2> QED
    BY <1>3, <1>4, IndexesAppendedFine
<1>6. IndexRows(none) /\ \A t : IsFiniteSet(NamesRead(none, t))
  BY NoIndexesRead
<1>7. /\ reading'.query = 5 /\ reading'.tables = tables
      /\ reading'.disturbed = reading.disturbed
  BY <1>1 DEF CatalogInv, ReadingOK
<1>8. ReadingExact'
  <2>1. ~reading.disturbed =>
          /\ reading.tables = TablesSoFar(4)
          /\ reading.indexes = IndexesRead(reading.tables, db)
    BY <1>1 DEF CatalogInv, ReadingOK, ReadingExact
  <2>2. TablesSoFar(3)' = TablesSoFar(3) /\ TablesSoFar(4) = TablesSoFar(3)
    BY <1>1 DEF TablesSoFar
  <2> QED
    BY <1>1, <1>7, <2>1, <2>2 DEF ReadingExact
<1> HIDE DEF tables, none
<1> QED
  BY <1>1, <1>2, <1>5, <1>6, <1>8, QueryReturns

LEMMA IdleAgain ==
  ASSUME CatalogInv, UNCHANGED <<db, migrations, applied>>, reading' = Idle,
         outcome' \in {"failed", "panicked"}
  PROVE  CatalogInv'
<1>1. reading'.query = 0
  BY DEF Idle
<1>2. TypeOK' /\ CatalogOK(db)' /\ Sound(db)' /\ MigrationsOK'
  BY <1>1, CatalogUnchanged
<1>3. ReadingOK'
  BY IdleNext
<1> QED
  BY <1>2, <1>3 DEF CatalogInv

LEMMA ReviseOK ==
  ASSUME CatalogInv, NEW configs \in Declared, Revise(configs)
  PROVE  CatalogInv'
<1>1. /\ reading' = Idle /\ outcome' = "revision" /\ UNCHANGED <<db, applied>>
      /\ Shaped(reading.tables)
  BY DEF Revise, CatalogInv, ReadingOK
<1>2. PICK m : migrations' = Append(migrations, m) /\ SparingList(m.up) /\ SparingList(m.down)
  <2>1. PICK s \in DesiredSchemas(configs) :
          LET cur   == WithoutVersionTable(reading.tables)
              des   == WithoutVersionTable([t \in DOMAIN s |-> s[t].table])
              steps == MigrationSteps(cur, des)
          IN  migrations' = Append(migrations, [up      |-> UpStatements(steps),
                                                down    |-> DownStatements(steps),
                                                configs |-> configs,
                                                from    |-> cur])
    BY DEF Revise
  <2> DEFINE cur   == WithoutVersionTable(reading.tables)
             des   == WithoutVersionTable([t \in DOMAIN s |-> s[t].table])
             steps == MigrationSteps(cur, des)
             m     == [up |-> UpStatements(steps), down |-> DownStatements(steps),
                       configs |-> configs, from |-> cur]
  <2>2. SparingList(UpStatements(steps)) /\ SparingList(DownStatements(steps))
    BY <1>1, RevisionSpares
  <2>3. migrations' = Append(migrations, m)
    BY <2>1
  <2>4. m.up = UpStatements(steps) /\ m.down = DownStatements(steps)
    OBVIOUS
  <2> HIDE DEF m
  <2> QED
    BY <2>2, <2>3, <2>4
<1>3. migrations \in Seq(ToSet(migrations))
  BY DEF CatalogInv, MigrationsOK
<1>4. MigrationsOK'
  <2> DEFINE S == ToSet(migrations) \cup {m}
  <2>1. migrations' \in Seq(S)
    BY <1>2, <1>3
  <2>2. \A e \in S : SparingList(e.up) /\ SparingList(e.down)
    BY <1>2 DEF CatalogInv, MigrationsOK
  <2> HIDE DEF S
  <2>3. migrations' \in Seq(ToSet(migrations')) /\ ToSet(migrations') \subseteq S
    BY <2>1, SeqIsList DEF IsList
  <2> QED
    BY <2>2, <2>3 DEF MigrationsOK
<1>5. TypeOK'
  <2>1. applied' \in 0 .. Len(migrations')
    <3>1. Len(migrations') = Len(migrations) + 1 /\ Len(migrations) \in Nat
      BY <1>2, <1>3
    <3>2. applied \in 0 .. Len(migrations) /\ applied' = applied
      BY <1>1 DEF CatalogInv, TypeOK
    <3> QED
      BY <3>1, <3>2
  <2>2. reading'.query \in 0 .. 5
    BY <1>1 DEF Idle
  <2> QED
    BY <1>1, <2>1, <2>2 DEF TypeOK, CatalogInv
<1>6. ReadingOK'
  BY <1>1, IdleNext
<1>7. CatalogOK(db)' /\ Sound(db)'
  BY <1>1 DEF CatalogInv
<1> QED
  BY <1>4, <1>5, <1>6, <1>7 DEF CatalogInv

\* The version table is created as it is.
LEMMA VersionTableFine == Fine(VersionTableDef)
<1> DEFINE names   == {"id", "version"}
           columns == [x \in names |-> [type |-> x, notNull |-> TRUE, default |-> NotGiven, mode |-> Plain]]
           none    == <<>>
<1>1. VersionTableDef = [columns |-> columns, constraints |-> {}, indexes |-> none]
  BY DEF VersionTableDef
<1>2. DOMAIN none = {} /\ IsFiniteSet({})
  BY NoNames, FS_EmptySet
<1>3. IsFiniteSet(names)
  <2>1. IsFiniteSet({"id"}) /\ names = {"id"} \cup {"version"}
    BY FS_Singleton
  <2> QED
    BY <2>1, FS_AddElement
<1>4. DOMAIN columns = names /\ none = <<>>
  OBVIOUS
<1> HIDE DEF columns, none, names
<1>5. CompleteTable(VersionTableDef)
  BY <1>1, <1>4, NoIndexesComplete
<1>6. FiniteTable(VersionTableDef)
  BY <1>1, <1>2, <1>3, <1>4 DEF FiniteTable
<1>7. ConstraintsNamed(VersionTableDef)
  BY <1>1 DEF ConstraintsNamed
<1> QED
  BY <1>5, <1>6, <1>7 DEF Fine

LEMMA VersionTableSound ==
  ASSUME NEW cat, Sound(cat), VersionTable \notin DOMAIN cat,
         FiniteSchema(Extended(cat, VersionTable, VersionTableDef))
  PROVE  Sound(Extended(cat, VersionTable, VersionTableDef))
<1> DEFINE names   == {"id", "version"}
           column(x) == [type |-> x, notNull |-> TRUE, default |-> NotGiven, mode |-> Plain]
           columns == [x \in names |-> column(x)]
           none    == <<>>
           table   == VersionTableDef
           after   == Extended(cat, VersionTable, table)
<1>1. table = [columns |-> columns, constraints |-> {}, indexes |-> none]
  BY DEF VersionTableDef
<1>2. DOMAIN none = {} /\ none = [x \in DOMAIN none |-> none[x]]
  BY NoNames
<1>3. \A x : SoundColumn(column(x))
  <2>1. StoredDefault(NotGiven) = NotGiven
    BY NoDefaultStored
  <2>2. Plain # "identity"
    BY DEF Plain
  <2> HIDE DEF Plain
  <2>3. \A x : /\ IsColumn(column(x)) /\ column(x).mode = Plain
               /\ column(x).default = NotGiven
    BY DEF IsColumn
  <2> HIDE DEF column
  <2>4. \A x : ColumnFits(column(x))
    BY <2>3 DEF ColumnFits
  <2> QED
    BY <2>1, <2>2, <2>3, <2>4, StoredColumnIs DEF SoundColumn
<1>4. DOMAIN columns = names /\ \A x \in names : columns[x] = column(x)
  OBVIOUS
<1>5. columns = [x \in DOMAIN columns |-> columns[x]]
  OBVIOUS
<1> HIDE DEF columns, none, names, column, table
<1>6. \A x \in DOMAIN columns : SoundColumn(columns[x])
  BY <1>3, <1>4
<1>7. SoundTable(VersionTable, table) /\ table.constraints = {} /\ DOMAIN table.indexes = {}
  BY <1>1, <1>2, <1>5, <1>6 DEF SoundTable, IsTable, OneOfAName
<1>8. /\ DOMAIN after = DOMAIN cat \cup {VersionTable} /\ after[VersionTable] = table
      /\ \A u \in DOMAIN cat : after[u] = cat[u]
  BY DEF Extended
<1>9. FiniteSchema(after)
  BY DEF table
<1> HIDE DEF after
<1>10. (\A u \in DOMAIN cat : SoundTable(u, cat[u])) /\ KeysServed(cat) /\ NamesOnce(cat)
  BY SoundParts
<1>11. KeysServed(after)
  BY <1>7, <1>8, <1>10 DEF KeysServed, TypesAgree
<1>12. NamesOnce(after)
  <2>1. RelationNames(VersionTable, after[VersionTable]) = {}
    BY <1>7, <1>8 DEF RelationNames, KeyNames
  <2>2. DOMAIN after[VersionTable].indexes = {}
    BY <1>7, <1>8
  <2>3. TakesNames(cat, VersionTable, after)
    BY <1>8, <2>1, <2>2 DEF TakesNames
  <2> QED
    BY <1>10, <2>3, NamesTaken
<1>13. \A u \in DOMAIN after : SoundTable(u, after[u])
  BY <1>7, <1>8, <1>10
<1> QED
  BY <1>9, <1>11, <1>12, <1>13, SoundParts DEF after, table

LEMMA TableEnsured ==
  ASSUME NEW cat, CatalogOK(cat), Sound(cat)
  PROVE  /\ CatalogOK(WithTable(cat)) /\ Sound(WithTable(cat))
         /\ VersionTable \in DOMAIN WithTable(cat)
<1>1. CASE VersionTable \in DOMAIN cat
  BY <1>1 DEF WithTable
<1>2. CASE VersionTable \notin DOMAIN cat
  <2>1. WithTable(cat) = Extended(cat, VersionTable, VersionTableDef)
    BY <1>2 DEF WithTable
  <2>2. VersionTable \in Nat
    BY DEF VersionTable
  <2>3. Kept(cat, Extended(cat, VersionTable, VersionTableDef))
    BY <2>2, VersionTableFine, OneMore
  <2>4. VersionTable \in DOMAIN Extended(cat, VersionTable, VersionTableDef)
    BY DEF Extended
  <2>5. Sound(Extended(cat, VersionTable, VersionTableDef))
    BY <1>2, <2>3, VersionTableSound DEF Kept, CatalogOK
  <2> QED
    BY <2>1, <2>3, <2>4, <2>5 DEF Kept
<1> QED
  BY <1>1, <1>2

LEMMA Executes ==
  ASSUME CatalogInv, NEW statements, SparingList(statements),
         NEW to \in 0 .. Len(migrations), NEW command \in {"up", "down"},
         Execute(statements, to, command)
  PROVE  /\ CatalogOK(db') /\ Sound(db') /\ VersionTable \in DOMAIN db'
         /\ applied' \in 0 .. Len(migrations)
         /\ outcome' \in {"up", "down", "refused"}
<1> DEFINE cat == WithTable(db)
<1>1. CatalogOK(cat) /\ Sound(cat) /\ VersionTable \in DOMAIN cat
  BY TableEnsured DEF CatalogInv
<1> HIDE DEF cat
<1>2. Kept(cat, Run(cat, statements).db) /\ Sound(Run(cat, statements).db)
  BY <1>1, RunKeeps
<1>3. CatalogOK(Run(cat, statements).db) /\ VersionTable \in DOMAIN Run(cat, statements).db
  BY <1>1, <1>2 DEF Kept
<1>4. applied \in 0 .. Len(migrations)
  BY DEF CatalogInv, TypeOK
<1>5. \/ db' = Run(cat, statements).db /\ applied' = to /\ outcome' = command
      \/ db' = cat /\ outcome' = "refused" /\ UNCHANGED applied
  BY DEF Execute, cat
<1> QED
  BY <1>1, <1>2, <1>3, <1>4, <1>5

\* up and down: what a revision has read does not have to be the catalog any more.
LEMMA DisturbOK ==
  ASSUME CatalogInv, Disturb
  PROVE  ReadingOK' /\ reading'.query \in 0 .. 5
<1>1. CASE reading = Idle
  BY <1>1, IdleNext DEF Disturb, Idle
<1>2. CASE reading # Idle
  <2>1. reading' = [reading EXCEPT !.disturbed = TRUE]
    BY <1>2 DEF Disturb
  <2>2. ReadingFine(reading) /\ reading.query # 0 /\ reading.query \in 0 .. 5
    BY <1>2, ReadingParts DEF CatalogInv, ReadingOK, TypeOK
  <2>3. ReadingFine(reading')
    BY <2>1, <2>2 DEF ReadingFine
  <2>4. reading'.disturbed /\ reading'.query = reading.query
    BY <2>1, <2>2 DEF ReadingFine
  <2>5. ReadingExact'
    BY <2>4 DEF ReadingExact
  <2> QED
    BY <2>2, <2>3, <2>4, <2>5, ReadingParts
<1> QED
  BY <1>1, <1>2

LEMMA CommandsOK ==
  ASSUME CatalogInv, Up \/ Down
  PROVE  CatalogInv' /\ VersionTable \in DOMAIN db'
<1>1. /\ Disturb /\ UNCHANGED migrations
      /\ applied \in 0 .. Len(migrations)
  BY DEF Up, Down, CatalogInv, TypeOK
<1>2. /\ Len(migrations) \in Nat
      /\ \A i \in 1 .. Len(migrations) :
           SparingList(migrations[i].up) /\ SparingList(migrations[i].down)
  BY ListLength DEF CatalogInv, MigrationsOK, IsList
<1>3. /\ CatalogOK(db') /\ Sound(db') /\ VersionTable \in DOMAIN db'
      /\ applied' \in 0 .. Len(migrations)
      /\ outcome' \in {"up", "down", "refused"}
  <2>1. CASE Up
    <3>1. /\ applied + 1 \in 1 .. Len(migrations) /\ applied + 1 \in 0 .. Len(migrations)
          /\ Execute(migrations[applied + 1].up, applied + 1, "up")
      BY <1>1, <1>2, <2>1 DEF Up
    <3> QED
      BY <1>2, <3>1, Executes
  <2>2. CASE Down
    <3>1. /\ applied \in 1 .. Len(migrations) /\ applied - 1 \in 0 .. Len(migrations)
          /\ Execute(migrations[applied].down, applied - 1, "down")
      BY <1>1, <1>2, <2>2 DEF Down
    <3> QED
      BY <1>2, <3>1, Executes
  <2> QED
    BY <2>1, <2>2
<1>4. ReadingOK' /\ reading'.query \in 0 .. 5
  BY <1>1, DisturbOK
<1>5. MigrationsOK'
  BY <1>1 DEF CatalogInv, MigrationsOK
<1>6. TypeOK'
  BY <1>1, <1>3, <1>4 DEF TypeOK, CatalogOK
<1> QED
  BY <1>3, <1>4, <1>5, <1>6 DEF CatalogInv

LEMMA NextOK ==
  ASSUME CatalogInv, [Next]_vars
  PROVE  CatalogInv' /\ KeepsVersionTable
<1>1. ASSUME db' = db, CatalogInv' PROVE KeepsVersionTable
  BY <1>1 DEF KeepsVersionTable
<1>2. CASE ReadTables
  BY <1>1, <1>2, ReadTablesOK DEF ReadTables
<1>3. CASE ReadColumns
  BY <1>1, <1>3, ReadColumnsOK DEF ReadColumns
<1>4. CASE ReadConstraints
  BY <1>1, <1>4, ReadConstraintsOK DEF ReadConstraints
<1>5. CASE ReadIndexMetadata
  BY <1>1, <1>5, ReadIndexMetadataOK DEF ReadIndexMetadata
<1>6. CASE ReadIndexKeys
  BY <1>1, <1>6, ReadIndexKeysOK DEF ReadIndexKeys
<1>7. CASE GiveUp
  BY <1>1, <1>7, IdleAgain DEF GiveUp
<1>8. ASSUME NEW configs \in Declared, Revise(configs) PROVE CatalogInv' /\ KeepsVersionTable
  BY <1>1, <1>8, ReviseOK DEF Revise
<1>9. ASSUME NEW configs \in Declared, Panic(configs) PROVE CatalogInv' /\ KeepsVersionTable
  BY <1>1, <1>9, IdleAgain DEF Panic
<1>10. CASE Up \/ Down
  <2>1. CatalogInv' /\ VersionTable \in DOMAIN db'
    BY <1>10, CommandsOK
  <2>2. KeepsVersionTable
    BY <2>1 DEF KeepsVersionTable, CatalogInv, CatalogOK
  <2> QED
    BY <2>1, <2>2
<1>11. CASE UNCHANGED vars
  <2>1. db' = db /\ UNCHANGED <<migrations, applied, reading, outcome>>
    BY <1>11 DEF vars
  <2>2. CatalogInv'
    BY <2>1 DEF CatalogInv, TypeOK, MigrationsOK, ReadingOK, ReadingExact, TablesSoFar
  <2> QED
    BY <1>1, <2>1, <2>2
<1> QED
  BY <1>2, <1>3, <1>4, <1>5, <1>6, <1>7, <1>8, <1>9, <1>10, <1>11 DEF Next

LEMMA AlwaysCatalogInv == Spec => []CatalogInv
<1>1. CatalogInv /\ [Next]_vars => CatalogInv'
  BY NextOK
<1> QED
  BY InitOK, <1>1, PTL DEF Spec

-----------------------------------------------------------------------------
(* Theorems.                                                               *)

\* The variables have their types and no two constraints of a table ever have
\* one name: PostgreSQL refuses what would give one twice, and a migration is
\* executed as a whole or not at all.
THEOREM TypeCorrect == Spec => []TypeOK
<1>1. CatalogInv => TypeOK
  BY DEF CatalogInv
<1> QED
  BY <1>1, AlwaysCatalogInv, PTL

\* Whatever the configs ask for and whatever a revision has read, up and down
\* leave the version table as apply has created it.
THEOREM VersionTableKept == Spec => VersionTableStays
<1>1. CatalogInv /\ [Next]_vars => [KeepsVersionTable]_db
  BY NextOK
<1> QED
  BY <1>1, AlwaysCatalogInv, PTL DEF Spec, VersionTableStays

\* With foreign keys that refer to constraints every index is listed.
LEMMA AllIndexesListed ==
  ASSUME RefersToConstraints(db), NEW t \in DOMAIN db, NEW x \in DOMAIN db[t].indexes
  PROVE  <<t, x>> \in ListedIndexes(db)
<1> SUFFICES ASSUME SupportsForeignKey(db, t, x) PROVE FALSE
  BY DEF ListedIndexes
<1> DEFINE index == db[t].indexes[x]
<1>1. /\ ~HasConstraint(db, t, index.columns)
      /\ \E c \in ForeignKeysTo(db, t) : Referred(c) = index.columns
  BY DEF SupportsForeignKey
<1> HIDE DEF index
<1>2. PICK c \in ForeignKeysTo(db, t) : Referred(c) = index.columns
  BY <1>1
<1>3. PICK u \in DOMAIN db : c \in db[u].constraints /\ c.kind = "fk" /\ c.ref = t
  BY DEF ForeignKeysTo
<1>4. HasConstraint(db, c.ref, Referred(c))
  BY <1>3 DEF RefersToConstraints
<1> QED
  BY <1>1, <1>2, <1>3, <1>4

\* The five queries put together what the catalog holds.
LEMMA AllRead ==
  ASSUME CatalogOK(db), RefersToConstraints(db)
  PROVE  IndexesAppended(TablesSoFar(3), KeysRead(IndexesRead(TablesSoFar(3), db), db)) = db
<1> DEFINE tables  == TablesSoFar(3)
           indexes == IndexesRead(tables, db)
           keys    == KeysRead(indexes, db)
           after   == IndexesAppended(tables, keys)
<1>1. /\ DOMAIN tables = DOMAIN db
      /\ \A t \in DOMAIN db : /\ IsTable(tables[t])
                             /\ tables[t].columns = db[t].columns
                             /\ tables[t].constraints = db[t].constraints
  <2> DEFINE first  == TablesRead(db)
             second == ColumnsRead(first, db)
  <2>1. DOMAIN first = DOMAIN db /\ \A t \in DOMAIN db : IsTable(first[t])
    BY DEF TablesRead, IsTable
  <2> HIDE DEF first
  <2>2. /\ DOMAIN second = DOMAIN db
        /\ \A t \in DOMAIN db : second[t] = [first[t] EXCEPT !.columns = db[t].columns]
    BY <2>1 DEF ColumnsRead
  <2>3. tables = ConstraintsRead(second, db)
    BY DEF TablesSoFar, first
  <2> HIDE DEF second, tables
  <2>4. \A t \in DOMAIN db : IsTable(second[t]) /\ second[t].columns = db[t].columns
    BY <2>1, <2>2 DEF IsTable
  <2>5. /\ DOMAIN tables = DOMAIN db
        /\ \A t \in DOMAIN db : tables[t] = [second[t] EXCEPT !.constraints = db[t].constraints]
    BY <2>2, <2>3 DEF ConstraintsRead
  <2> QED
    BY <2>4, <2>5 DEF IsTable
<1> HIDE DEF tables
<1>2. \A t \in DOMAIN db : \A x \in DOMAIN db[t].indexes :
         /\ <<t, x>> \in DOMAIN indexes
         /\ indexes[<<t, x>>] = [db[t].indexes[x] EXCEPT !.columns = {}]
  BY <1>1, AllIndexesListed DEF IndexesRead
<1>3. \A t : NamesRead(indexes, t) \subseteq IF t \in DOMAIN db THEN DOMAIN db[t].indexes ELSE {}
  BY DEF NamesRead, IndexesRead, ListedIndexes
<1> HIDE DEF indexes
<1>4. DOMAIN keys = DOMAIN indexes
  BY DEF KeysRead
<1>5. ASSUME NEW t \in DOMAIN db, NEW x \in DOMAIN db[t].indexes
      PROVE  keys[<<t, x>>] = db[t].indexes[x]
  <2> DEFINE index == db[t].indexes[x]
  <2>1. keys[<<t, x>>] = [indexes[<<t, x>>] EXCEPT !.columns = index.columns]
    BY <1>2, AllIndexesListed DEF KeysRead
  <2>2. index = [columns |-> index.columns, unique |-> index.unique, method |-> index.method]
    <3> DEFINE all == db[t].indexes
    <3>1. all = [y \in DOMAIN all |-> [columns |-> all[y].columns,
                                      unique  |-> all[y].unique,
                                      method  |-> all[y].method]]
      BY DEF CatalogOK, CompleteTable
    <3>2. x \in DOMAIN all /\ index = all[x]
      OBVIOUS
    <3> HIDE DEF all, index
    <3> QED
      BY <3>1, <3>2
  <2>3. indexes[<<t, x>>] = [index EXCEPT !.columns = {}]
    BY <1>2
  <2> HIDE DEF index
  <2>4. keys[<<t, x>>] = index
    BY <2>1, <2>2, <2>3
  <2> QED
    BY <2>4 DEF index
<1>6. ASSUME NEW t \in DOMAIN db PROVE NamesRead(keys, t) = DOMAIN db[t].indexes
  <2>1. NamesRead(keys, t) = NamesRead(indexes, t)
    BY <1>4 DEF NamesRead
  <2>2. ASSUME NEW x \in DOMAIN db[t].indexes PROVE x \in NamesRead(indexes, t)
    <3> DEFINE p == <<t, x>>
    <3>1. p \in {q \in DOMAIN indexes : q[1] = t} /\ p[2] = x
      BY <1>2
    <3> HIDE DEF p
    <3> QED
      BY <3>1 DEF NamesRead
  <2> QED
    BY <1>3, <2>1, <2>2
<1> HIDE DEF keys
<1>7. ASSUME NEW t \in DOMAIN db PROVE after[t] = db[t]
  <2> DEFINE read == [x \in NamesRead(keys, t) |-> keys[<<t, x>>]]
             given == db[t].indexes
  <2>1. after[t] = [tables[t] EXCEPT !.indexes = read]
    BY <1>1 DEF IndexesAppended, NamesRead
  <2>2. db[t] = [columns |-> db[t].columns, constraints |-> db[t].constraints, indexes |-> given]
    BY DEF CatalogOK, CompleteTable, IsTable
  <2>3. given = [x \in DOMAIN given |-> given[x]]
    BY DEF CatalogOK, CompleteTable
  <2>4. read = given
    <3>1. read = [x \in DOMAIN given |-> given[x]]
      BY <1>5, <1>6
    <3> HIDE DEF read, given
    <3> QED
      BY <2>3, <3>1
  <2> HIDE DEF read, given, after
  <2>5. tables[t] = [columns     |-> db[t].columns,
                     constraints |-> db[t].constraints,
                     indexes     |-> tables[t].indexes]
    BY <1>1 DEF IsTable
  <2> QED
    BY <2>1, <2>2, <2>4, <2>5, IndexesReplaced
<1>8. after = [t \in DOMAIN db |-> after[t]]
  BY <1>1 DEF IndexesAppended
<1>9. db = [t \in DOMAIN db |-> db[t]]
  BY DEF CatalogOK
<1> HIDE DEF after
<1>10. after = db
  BY <1>7, <1>8, <1>9
<1> QED
  BY <1>10 DEF after, keys, indexes, tables

\* What a revision compares is the catalog, whatever it holds: nothing is lost
\* between the five queries, and nothing is taken for something else, as long
\* as no migration runs between them and no foreign key depends on an index.
THEOREM ReadsTheCatalog == Spec => []SnapshotExact
<1>1. CatalogInv => SnapshotExact
  <2> SUFFICES ASSUME CatalogInv, reading.query = 5, ~reading.disturbed, RefersToConstraints(db)
               PROVE  reading.tables = db
    BY DEF SnapshotExact
  <2>1. reading.tables = IndexesAppended(TablesSoFar(3), KeysRead(IndexesRead(TablesSoFar(3), db), db))
    BY DEF CatalogInv, ReadingOK, ReadingExact
  <2> QED
    BY <2>1, AllRead DEF CatalogInv
<1> QED
  BY <1>1, AlwaysCatalogInv, PTL

-----------------------------------------------------------------------------
(* What the diff of two lists of constraints finds.                        *)

\* No two constraints have one name.
OwnNames(S) == \A c, d \in S : c.name # Unnamed /\ c.name = d.name => c = d

\* Nor do two say the same.
Twinless(S) == OwnNames(S) /\ \A c, d \in S : SemanticKey(c) = SemanticKey(d) => c = d

\* Nobody has two partners.
LEMMA OnePartner ==
  ASSUME NEW cur, NEW des, OwnNames(cur), Twinless(des),
         NEW p \in Matches(cur, des), NEW q \in Matches(cur, des)
  PROVE  /\ p[1] \in cur /\ p[2] \in des
         /\ p[1] = q[1] \/ p[2] = q[2] => p = q
<1> DEFINE semantic == SemanticMatches(cur, des)
           named    == NameMatches(cur, des)
<1>1. \A r \in semantic : /\ r \in cur \X des
                          /\ SemanticKey(r[1]) = SemanticKey(r[2]) /\ r[1] = Saying(cur, r[2])
  BY DEF SemanticMatches
<1>2. \A r \in named : /\ r \in cur \X des
                       /\ r[2].name # Unnamed /\ r[1].name = r[2].name
                       /\ \A s \in semantic : s[1] # r[1] /\ s[2] # r[2]
  BY DEF NameMatches
<1>3. p \in semantic \cup named /\ q \in semantic \cup named
  BY DEF Matches
<1> HIDE DEF semantic, named
<1>4. p \in cur \X des /\ q \in cur \X des
  BY <1>1, <1>2, <1>3
<1>5. ASSUME p[1] = q[1] \/ p[2] = q[2] PROVE p[1] = q[1] /\ p[2] = q[2]
  <2>1. CASE p \in semantic /\ q \in semantic
    BY <1>1, <1>4, <1>5, <2>1 DEF Twinless
  <2>2. CASE p \in named /\ q \in named
    BY <1>2, <1>4, <1>5, <2>2 DEF Twinless, OwnNames
  <2> QED
    BY <1>2, <1>3, <1>5, <2>1, <2>2
<1> QED
  BY <1>4, <1>5

\* If what the diff calls removed or changed goes and what it calls added or
\* changed comes, each constraint of the config is there once, under its name
\* if the config gives one.  A constraint that comes may only find its name
\* taken by one that the config leaves unnamed.
THEOREM DiffIsComplete ==
  ASSUME NEW cur, NEW des, OwnNames(cur), Twinless(des)
  PROVE  LET left == Left(cur, des)
             new  == Coming(cur, des)
         IN  /\ new \subseteq des
             /\ \A d \in des \ new : \E c \in left : ~ConstraintChanged(c, d)
             /\ \A c \in left : \E d \in des \ new : ~ConstraintChanged(c, d)
             /\ \A c, e \in left : SemanticKey(c) = SemanticKey(e) => c = e
             /\ \A c \in left, d \in new :
                  /\ SemanticKey(c) # SemanticKey(d)
                  /\ d.name # Unnamed /\ c.name = d.name =>
                       \E e \in des \ new : e.name = Unnamed /\ SemanticKey(e) = SemanticKey(c)
<1> DEFINE matches == Matches(cur, des)
           changed == ChangedConstraints(cur, des)
           left    == Left(cur, des)
           new     == Coming(cur, des)
<1>1. \A p, q \in matches : /\ p[1] \in cur /\ p[2] \in des
                            /\ p[1] = q[1] \/ p[2] = q[2] => p = q
  BY OnePartner
<1>2. \A p \in matches : p \in changed <=> ConstraintChanged(p[1], p[2])
  BY DEF ChangedConstraints
<1>3. changed \subseteq matches
  BY DEF ChangedConstraints
<1>4. \A c : c \in left <=> \E p \in matches : c = p[1] /\ p \notin changed
  BY <1>1, <1>3 DEF Left, RemovedConstraints
<1>5. /\ new \subseteq des
      /\ \A d : d \in des \ new <=> \E p \in matches : d = p[2] /\ p \notin changed
  BY <1>1, <1>3 DEF Coming, AddedConstraints
<1>6. \A c, d \in des : SemanticKey(c) = SemanticKey(d) => c = d
  BY DEF Twinless
<1> HIDE DEF matches, changed, left, new
<1>7. \A d \in des \ new : \E c \in left : ~ConstraintChanged(c, d)
  BY <1>2, <1>4, <1>5
<1>8. \A c \in left : \E d \in des \ new : ~ConstraintChanged(c, d)
  BY <1>2, <1>4, <1>5
<1>9. ASSUME NEW c \in left, NEW d \in new PROVE SemanticKey(c) # SemanticKey(d)
  <2> SUFFICES ASSUME SemanticKey(c) = SemanticKey(d) PROVE FALSE
    OBVIOUS
  <2>1. PICK p \in matches : c = p[1] /\ p \notin changed
    BY <1>4
  <2>2. SemanticKey(c) = SemanticKey(p[2]) /\ p[2] \in des /\ d \in des
    BY <1>1, <1>2, <1>5, <2>1 DEF ConstraintChanged
  <2>3. p[2] = d
    BY <1>6, <1>9, <2>2
  <2> QED
    BY <1>5, <2>1, <2>3
<1>10. ASSUME NEW c \in left, NEW d \in new, d.name # Unnamed, c.name = d.name
       PROVE  \E e \in des \ new : e.name = Unnamed /\ SemanticKey(e) = SemanticKey(c)
  <2>1. PICK e \in des \ new : ~ConstraintChanged(c, e)
    BY <1>8
  <2>2. SemanticKey(c) = SemanticKey(e) /\ (e.name = Unnamed \/ c.name = e.name)
    BY <2>1 DEF ConstraintChanged
  <2>3. e.name # Unnamed => e = d
    BY <1>5, <1>10, <2>2 DEF Twinless, OwnNames
  <2> QED
    BY <2>1, <2>2, <2>3
<1>11. ASSUME NEW c \in left, NEW e \in left, SemanticKey(c) = SemanticKey(e) PROVE c = e
  <2>1. PICK p \in matches : c = p[1] /\ p \notin changed
    BY <1>4
  <2>2. PICK q \in matches : e = q[1] /\ q \notin changed
    BY <1>4
  <2>3. SemanticKey(p[2]) = SemanticKey(q[2]) /\ p[2] \in des /\ q[2] \in des
    BY <1>1, <1>2, <1>11, <2>1, <2>2 DEF ConstraintChanged
  <2>4. p = q
    BY <1>1, <1>6, <2>3
  <2> QED
    BY <2>1, <2>2, <2>4
<1> QED
  BY <1>5, <1>7, <1>8, <1>9, <1>10, <1>11 DEF left, new

LEMMA SameKind ==
  ASSUME NEW c, NEW d, IsConstraint(c), IsConstraint(d), SemanticKey(c) = SemanticKey(d)
  PROVE  c.kind = d.kind
<1>1. ASSUME NEW e, IsConstraint(e) PROVE SemanticKey(e).kind = e.kind
  <2>1. PICK f : f = e /\ f = [kind |-> e.kind, columns |-> e.columns, check |-> e.check,
                               ref |-> e.ref, refColumns |-> e.refColumns, name |-> e.name]
    BY <1>1 DEF IsConstraint
  <2>2. [f EXCEPT !.name = Unnamed].kind = e.kind
    BY <2>1
  <2> QED
    BY <2>1, <2>2 DEF SemanticKey
<1> QED
  BY <1>1

\* A constraint that is left is matched by what it says.
LEMMA LeftIsMatched ==
  ASSUME NEW old, NEW new, OwnNames(old), Twinless(new), NEW c \in Left(old, new)
  PROVE  \E e \in new \ Coming(old, new) :
           ~ConstraintChanged(c, e) /\ <<c, e>> \in SemanticMatches(old, new)
<1>1. PICK e \in new \ Coming(old, new) : ~ConstraintChanged(c, e)
  BY DiffIsComplete
<1>2. c \in old /\ SemanticKey(c) = SemanticKey(e)
  BY <1>1 DEF Left, ConstraintChanged
<1>3. c = Saying(old, e)
  <2>1. c \in old /\ c \notin RemovedConstraints(old, new) /\ c \notin {p[1] : p \in ChangedConstraints(old, new)}
    BY DEF Left
  <2>2. PICK p \in Matches(old, new) : c = p[1]
    BY <2>1 DEF RemovedConstraints
  <2>3. ~ConstraintChanged(p[1], p[2])
    BY <2>1, <2>2 DEF ChangedConstraints
  <2>4. p[2] \in new
    BY <2>2 DEF Matches, SemanticMatches, NameMatches
  <2>5. SemanticKey(p[2]) = SemanticKey(c)
    BY <2>2, <2>3 DEF ConstraintChanged
  <2>6. p[2] = e
    BY <1>1, <1>2, <2>4, <2>5 DEF Twinless
  <2> DEFINE d0 == Saying(old, e)
  <2>7. d0 \in old /\ SemanticKey(d0) = SemanticKey(e)
    BY <1>2 DEF Saying
  <2> DEFINE q == <<d0, e>>
  <2>8. q \in SemanticMatches(old, new) /\ q[2] = e
    BY <1>1, <2>7 DEF SemanticMatches
  <2>9. p \notin NameMatches(old, new)
    BY <2>6, <2>8 DEF NameMatches
  <2>10. p \in SemanticMatches(old, new)
    BY <2>2, <2>9 DEF Matches
  <2> QED
    BY <2>2, <2>6, <2>10 DEF SemanticMatches
<1> QED
  BY <1>1, <1>2, <1>3 DEF SemanticMatches

\* Within NamesStay no constraint that is added gets a name, from the config
\* or derived, of one that is still there, with which PostgreSQL would refuse
\* it, and no index gets the name of a key that is still there.
THEOREM NoNameIsTaken ==
  ASSUME NEW cur, NEW des, NamesStay(cur, des), NEW t \in DOMAIN cur \cap DOMAIN des,
         OwnNames(cur[t].constraints), Twinless(des[t].constraints),
         \A d, e \in des[t].constraints : DropName(t, d) = DropName(t, e) => d = e,
         DOMAIN des[t].indexes \cap KeyNames(t, des[t]) = {},
         \A d \in cur[t].constraints \cup des[t].constraints : IsConstraint(d),
         NEW c \in Left(cur[t].constraints, des[t].constraints)
  PROVE  /\ \A d \in Coming(cur[t].constraints, des[t].constraints) : c.name # DropName(t, d)
         /\ IsKey(c) => c.name \notin DOMAIN des[t].indexes
<1> DEFINE old == cur[t].constraints
           new == des[t].constraints
<1>1. PICK e \in new \ Coming(old, new) : ~ConstraintChanged(c, e) /\ <<c, e>> \in SemanticMatches(old, new)
  BY LeftIsMatched
<1>2. Coming(old, new) \subseteq new
  BY DiffIsComplete
<1>3. c \in old /\ SemanticKey(c) = SemanticKey(e)
  BY <1>1 DEF Left, ConstraintChanged
<1>4. c.kind = e.kind
  <2>1. IsConstraint(c) /\ IsConstraint(e)
    BY <1>1, <1>3
  <2> QED
    BY <1>3, <2>1, SameKind
<1>5. CASE e.name = Unnamed
  <2> DEFINE p == <<c, e>>
  <2>1. p \in SemanticMatches(old, new) /\ p[1] = c /\ p[2] = e
    BY <1>1
  <2> HIDE DEF p
  <2>2. /\ \A f \in new \ {e} : DropName(t, f) # c.name
        /\ c.name \notin DOMAIN des[t].indexes
    BY <1>5, <2>1 DEF NamesStay
  <2> QED
    BY <1>1, <1>2, <2>2
<1>6. CASE e.name # Unnamed
  <2>1. DropName(t, e) = e.name /\ c.name = e.name
    BY <1>1, <1>6 DEF DropName, ConstraintChanged
  <2>2. IsKey(c) => c.name \in KeyNames(t, des[t])
    BY <1>1, <1>4, <2>1 DEF KeyNames, IsKey
  <2> QED
    BY <1>1, <1>2, <2>1, <2>2
<1> QED
  BY <1>5, <1>6
=============================================================================
