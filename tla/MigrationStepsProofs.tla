------------------------ MODULE MigrationStepsProofs ------------------------
(***************************************************************************)
(* What the statements of a migration make of a catalog, step by step, on  *)
(* the way there and on the way back.                                      *)
(***************************************************************************)
EXTENDS SchemaRevisionsProofs

-----------------------------------------------------------------------------
(* Runs.                                                                   *)

LEMMA RunOfNothing ==
  ASSUME NEW cat
  PROVE  Run(cat, <<>>) = [ok |-> TRUE, db |-> cat]
<1>1. Len(<<>>) = 0
  OBVIOUS
<1>2. PICK f : f[0] = [ok |-> TRUE, db |-> cat] /\ Run(cat, <<>>) = f[0]
  BY <1>1, RunDefined
<1> QED
  BY <1>2

\* One statement more.
LEMMA RunAppended ==
  ASSUME NEW cat, NEW list, IsList(list), NEW s
  PROVE  Run(cat, list \o <<s>>) = Executed(Run(cat, list), s)
<1> DEFINE n    == Len(list)
           more == list \o <<s>>
<1>1. list \in Seq(ToSet(list) \cup {s}) /\ <<s>> \in Seq(ToSet(list) \cup {s}) /\ Len(<<s>>) = 1
  BY DEF IsList
<1>2. n \in Nat /\ Len(more) = n + 1 /\ (\A i \in 1 .. n : more[i] = list[i]) /\ more[n + 1] = s
  BY <1>1
<1> HIDE DEF more
<1>3. PICK f : /\ f[0] = [ok |-> TRUE, db |-> cat]
               /\ \A i \in 1 .. n : f[i] = Executed(f[i - 1], list[i])
               /\ Run(cat, list) = f[n]
  BY <1>2, RunDefined
<1>4. PICK g : /\ g[0] = [ok |-> TRUE, db |-> cat]
               /\ \A i \in 1 .. n + 1 : g[i] = Executed(g[i - 1], more[i])
               /\ Run(cat, more) = g[n + 1]
  BY <1>2, RunDefined
<1> DEFINE S == {i \in 0 .. n : f[i] = g[i]}
<1>5. 0 \in S
  BY <1>2, <1>3, <1>4
<1>6. ASSUME NEW i \in 0 .. n - 1, i \in S PROVE i + 1 \in S
  <2>1. i + 1 \in 1 .. n /\ i + 1 \in 1 .. n + 1 /\ i + 1 \in 0 .. n /\ (i + 1) - 1 = i
    BY <1>2
  <2>2. f[i + 1] = Executed(f[i], list[i + 1]) /\ g[i + 1] = Executed(g[i], more[i + 1])
    BY <1>3, <1>4, <2>1
  <2> QED
    BY <1>2, <1>6, <2>1, <2>2
<1>7. \A i \in 0 .. n : i \in S
  <2> HIDE DEF S
  <2> QED
    BY <1>2, <1>5, <1>6, UpTo
<1>8. f[n] = g[n] /\ n + 1 \in 1 .. n + 1 /\ (n + 1) - 1 = n
  BY <1>2, <1>7
<1>9. g[n + 1] = Executed(g[n], more[n + 1])
  BY <1>4, <1>8
<1> QED
  BY <1>2, <1>3, <1>4, <1>8, <1>9 DEF more

\* A statement leads from one catalog to another; Nothing leads nowhere.
Leads(s, a, b) ==
  IF s = Nothing THEN a = b ELSE Accepts(a, s) /\ b = Effect(a, s)

\* Statements that lead from each catalog to the next can be run.
LEMMA WrittenRuns ==
  ASSUME NEW ss, IsList(ss), NEW f, \A i \in 1 .. Len(ss) : Leads(ss[i], f[i - 1], f[i])
  PROVE  Reaches(f[0], Written(ss), f[Len(ss)])
<1> DEFINE n == Len(ss)
           w == [i \in DOMAIN ss |-> IF ss[i] = Nothing THEN <<>> ELSE <<ss[i]>>]
<1>1. n \in Nat /\ DOMAIN ss = 1 .. n
  BY ListLength
<1>2. IsList(w) /\ Len(w) = n
  BY <1>1, MapIsList
<1>3. \A i \in 1 .. n : w[i] = IF ss[i] = Nothing THEN <<>> ELSE <<ss[i]>>
  BY <1>1
<1>4. Written(ss) = FlattenSeq(w)
  BY DEF Written
<1> HIDE DEF w
<1>5. CASE n = 0
  <2>1. FlattenSeq(w) = w /\ w = <<>>
    BY <1>2, <1>5, ListLength DEF FlattenSeq, IsList
  <2> QED
    BY <1>4, <1>5, <2>1, RunOfNothing DEF Reaches
<1>6. CASE n # 0
  <2>1. PICK l : /\ \A i \in 1 .. n : l[i] = IF i = 1 THEN w[i] ELSE l[i - 1] \o w[i]
                 /\ FlattenSeq(w) = l[n]
    BY <1>1, <1>2, <1>6, FlattenDefined
  <2> DEFINE S == {k \in 0 .. n - 1 : IsList(l[k + 1]) /\ Reaches(f[0], l[k + 1], f[k + 1])}
  <2>2. ASSUME NEW i \in 1 .. n, NEW list, IsList(list), Reaches(f[0], list, f[i - 1])
        PROVE  IsList(list \o w[i]) /\ Reaches(f[0], list \o w[i], f[i])
    <3>1. CASE ss[i] = Nothing
      <4>1. w[i] = <<>> /\ f[i] = f[i - 1]
        BY <1>3, <3>1 DEF Leads
      <4>2. list \o <<>> = list
        BY <2>2 DEF IsList
      <4> QED
        BY <2>2, <4>1, <4>2
    <3>2. CASE ss[i] # Nothing
      <4>1. w[i] = <<ss[i]>> /\ Accepts(f[i - 1], ss[i]) /\ f[i] = Effect(f[i - 1], ss[i])
        BY <1>3, <3>2 DEF Leads
      <4>2. IsList(list \o <<ss[i]>>)
        BY <2>2, SingleList, ListsJoined
      <4>3. Run(f[0], list \o <<ss[i]>>) = Executed([ok |-> TRUE, db |-> f[i - 1]], ss[i])
        BY <2>2, RunAppended DEF Reaches
      <4> QED
        BY <4>1, <4>2, <4>3 DEF Executed, Reaches
    <3> QED
      BY <3>1, <3>2
  <2>3. 0 \in S
    <3>1. 0 + 1 = 1 /\ 1 \in 1 .. n /\ 0 \in 0 .. n - 1 /\ 1 - 1 = 0
      BY <1>1, <1>6
    <3>2. l[1] = w[1]
      BY <2>1, <3>1
    <3>3. <<>> \o w[1] = w[1]
      <4>1. w[1] \in {<<>>, <<ss[1]>>}
        BY <1>3, <3>1
      <4>2. IsList(w[1])
        BY <4>1, EmptyList, SingleList
      <4> QED
        BY <4>2 DEF IsList
    <3>4. Reaches(f[0], <<>>, f[1 - 1])
      BY <3>1, RunOfNothing DEF Reaches
    <3>5. IsList(<<>> \o w[1]) /\ Reaches(f[0], <<>> \o w[1], f[1])
      BY <2>2, <3>1, <3>4, EmptyList
    <3> QED
      BY <3>1, <3>2, <3>3, <3>5
  <2>4. ASSUME NEW k \in 0 .. (n - 1) - 1, k \in S PROVE k + 1 \in S
    <3> DEFINE j == (k + 1) + 1
    <3>1. j \in 1 .. n /\ j # 1 /\ j - 1 = k + 1 /\ k + 1 \in 0 .. n - 1
      BY <1>1
    <3>2. l[j] = l[k + 1] \o w[j]
      BY <2>1, <3>1
    <3> HIDE DEF j
    <3>3. IsList(l[k + 1]) /\ Reaches(f[0], l[k + 1], f[j - 1])
      BY <2>4, <3>1
    <3>4. IsList(l[j]) /\ Reaches(f[0], l[j], f[j])
      BY <2>2, <3>1, <3>2, <3>3
    <3> QED
      BY <3>1, <3>4 DEF j
  <2>5. n - 1 \in S
    <3> HIDE DEF S
    <3>1. n - 1 \in Nat
      BY <1>1, <1>6
    <3>2. \A k \in 0 .. (n - 1) - 1 : k \in S => k + 1 \in S
      BY <2>4
    <3> HIDE DEF n
    <3>3. \A k \in 0 .. n - 1 : k \in S
      BY <2>3, <3>1, <3>2, UpTo
    <3> QED
      BY <3>1, <3>3
  <2>6. (n - 1) + 1 = n
    BY <1>1
  <2> QED
    BY <1>4, <2>1, <2>5, <2>6
<1> QED
  BY <1>5, <1>6

-----------------------------------------------------------------------------
(* Paths.                                                                  *)

\* The steps lead from a to b on the way up, and from c to d on the way down.
Path(steps, a, b, c, d) ==
  LET n == Len(steps)
  IN  /\ IsList(steps)
      /\ \E up : /\ up[0] = a /\ up[n] = b
                 /\ \A i \in 1 .. n : Leads(steps[i].up, up[i - 1], up[i])
      /\ \E down : /\ down[n] = c /\ down[0] = d
                   /\ \A i \in 1 .. n : Leads(steps[i].down, down[i], down[i - 1])

LEMMA PathRuns ==
  ASSUME NEW steps, NEW a, NEW b, NEW c, NEW d, Path(steps, a, b, c, d)
  PROVE  /\ Reaches(a, UpStatements(steps), b)
         /\ Reaches(c, DownStatements(steps), d)
<1> DEFINE n     == Len(steps)
           ups   == [i \in DOMAIN steps |-> steps[i].up]
           downs == [i \in DOMAIN steps |-> steps[i].down]
           back  == Reverse(downs)
<1>1. IsList(steps) /\ n \in Nat /\ DOMAIN steps = 1 .. n
  BY ListLength DEF Path
<1>2. PICK up : /\ up[0] = a /\ up[n] = b
                /\ \A i \in 1 .. n : Leads(steps[i].up, up[i - 1], up[i])
  BY DEF Path
<1>3. PICK down : /\ down[n] = c /\ down[0] = d
                  /\ \A i \in 1 .. n : Leads(steps[i].down, down[i], down[i - 1])
  BY DEF Path
<1>4. /\ IsList(ups) /\ Len(ups) = n /\ \A i \in 1 .. n : ups[i] = steps[i].up
      /\ IsList(downs) /\ Len(downs) = n /\ \A i \in 1 .. n : downs[i] = steps[i].down
  BY <1>1, MapIsList
<1>5. UpStatements(steps) = Written(ups) /\ DownStatements(steps) = Written(back)
  BY DEF UpStatements, DownStatements
<1>6. Reaches(a, Written(ups), b)
  <2> HIDE DEF ups
  <2>1. \A i \in 1 .. Len(ups) : Leads(ups[i], up[i - 1], up[i])
    BY <1>2, <1>4
  <2> QED
    BY <1>2, <1>4, <2>1, WrittenRuns
<1>7. Reaches(c, Written(back), d)
  <2> HIDE DEF downs
  <2>1. back = [i \in 1 .. n |-> downs[(n - i) + 1]]
    BY <1>4 DEF Reverse
  <2> HIDE DEF back
  <2>2. IsList(back) /\ Len(back) = n /\ \A i \in 1 .. n : back[i] = downs[(n - i) + 1]
    <3>1. \A i \in 1 .. n : back[i] = downs[(n - i) + 1]
      BY <2>1
    <3>2. back = [i \in 1 .. n |-> back[i]]
      BY <2>1
    <3> QED
      BY <1>1, <3>1, <3>2, MapIsList
  <2> DEFINE g == [i \in 0 .. n |-> down[n - i]]
  <2>3. g[0] = c /\ g[n] = d
    BY <1>1, <1>3
  <2>4. ASSUME NEW i \in 1 .. n PROVE Leads(back[i], g[i - 1], g[i])
    <3> DEFINE j == (n - i) + 1
    <3>1. j \in 1 .. n /\ j - 1 = n - i /\ j = n - (i - 1) /\ i - 1 \in 0 .. n /\ i \in 0 .. n
      BY <1>1
    <3>2. g[i - 1] = down[j] /\ g[i] = down[j - 1]
      BY <3>1
    <3>3. back[i] = steps[j].down
      BY <1>4, <2>2, <3>1
    <3> HIDE DEF g, j
    <3> QED
      BY <1>3, <3>1, <3>2, <3>3
  <2> HIDE DEF g
  <2> QED
    BY <2>2, <2>3, <2>4, WrittenRuns
<1> QED
  BY <1>5, <1>6, <1>7

LEMMA EmptyPath ==
  ASSUME NEW a, NEW b
  PROVE  Path(<<>>, a, a, b, b)
<1> DEFINE up   == [i \in 0 .. 0 |-> a]
           down == [i \in 0 .. 0 |-> b]
<1>1. Len(<<>>) = 0 /\ up[0] = a /\ down[0] = b
  OBVIOUS
<1> HIDE DEF up, down
<1>2. \A i \in 1 .. 0 : FALSE
  OBVIOUS
<1> QED
  BY <1>1, <1>2, EmptyList DEF Path

LEMMA OneStepPath ==
  ASSUME NEW step, NEW a, NEW b, NEW c, NEW d, Leads(step.up, a, b), Leads(step.down, c, d)
  PROVE  Path(<<step>>, a, b, c, d)
<1> DEFINE up   == [i \in 0 .. 1 |-> IF i = 0 THEN a ELSE b]
           down == [i \in 0 .. 1 |-> IF i = 0 THEN d ELSE c]
           list == <<step>>
<1>1. /\ up[0] = a /\ up[1] = b /\ down[1] = c /\ down[0] = d
      /\ Len(list) = 1 /\ list[1] = step
  OBVIOUS
<1>2. IsList(list)
  BY SingleList
<1> HIDE DEF up, down, list
<1>3. \A i \in 1 .. 1 : i = 1 /\ i - 1 = 0
  OBVIOUS
<1>4. Path(list, a, b, c, d)
  BY <1>1, <1>2, <1>3 DEF Path
<1> QED
  BY <1>4 DEF list

LEMMA PathsJoined ==
  ASSUME NEW s, NEW t, NEW a, NEW b, NEW c, NEW d, NEW e, NEW f,
         Path(s, a, b, d, e), Path(t, b, c, f, d)
  PROVE  Path(s \o t, a, c, f, e)
<1> DEFINE m == Len(s)
           n == Len(t)
           S == ToSet(s) \cup ToSet(t)
           all == s \o t
<1>1. IsList(s) /\ IsList(t) /\ m \in Nat /\ n \in Nat
  BY ListLength DEF Path
<1>2. s \in Seq(S) /\ t \in Seq(S)
  BY <1>1 DEF IsList
<1>3. Len(all) = m + n /\ \A i \in 1 .. m + n : all[i] = IF i <= m THEN s[i] ELSE t[i - m]
  BY <1>2
<1>4. IsList(all)
  BY <1>1, ListsJoined
<1> HIDE DEF all, m, n
<1>5. PICK u : u[0] = a /\ u[m] = b /\ \A i \in 1 .. m : Leads(s[i].up, u[i - 1], u[i])
  BY DEF Path, m
<1>6. PICK v : v[0] = b /\ v[n] = c /\ \A i \in 1 .. n : Leads(t[i].up, v[i - 1], v[i])
  BY DEF Path, n
<1>7. PICK w : w[m] = d /\ w[0] = e /\ \A i \in 1 .. m : Leads(s[i].down, w[i], w[i - 1])
  BY DEF Path, m
<1>8. PICK x : x[n] = f /\ x[0] = d /\ \A i \in 1 .. n : Leads(t[i].down, x[i], x[i - 1])
  BY DEF Path, n
<1> DEFINE up   == [i \in 0 .. m + n |-> IF i <= m THEN u[i] ELSE v[i - m]]
           down == [i \in 0 .. m + n |-> IF i <= m THEN w[i] ELSE x[i - m]]
<1>9. /\ \A i \in 0 .. m : up[i] = u[i] /\ down[i] = w[i]
      /\ \A i \in 0 .. n : up[m + i] = v[i] /\ down[m + i] = x[i]
  <2>1. \A i \in 0 .. m : up[i] = u[i] /\ down[i] = w[i]
    BY <1>1
  <2>2. ASSUME NEW i \in 0 .. n PROVE up[m + i] = v[i] /\ down[m + i] = x[i]
    <3>1. CASE i = 0
      <4>1. up[m + i] = u[m] /\ down[m + i] = w[m]
        BY <1>1, <3>1
      <4> QED
        BY <1>5, <1>6, <1>7, <1>8, <3>1, <4>1
    <3>2. CASE i # 0
      <4>1. m + i \in 0 .. m + n /\ ~(m + i <= m) /\ (m + i) - m = i
        BY <1>1, <3>2
      <4> QED
        BY <4>1
    <3> QED
      BY <3>1, <3>2
  <2> QED
    BY <2>1, <2>2
<1> HIDE DEF up, down
<1>10. ASSUME NEW i \in 1 .. m + n
       PROVE  Leads(all[i].up, up[i - 1], up[i]) /\ Leads(all[i].down, down[i], down[i - 1])
  <2>1. CASE i <= m
    <3>1. i \in 1 .. m /\ i \in 0 .. m /\ i - 1 \in 0 .. m /\ all[i] = s[i]
      BY <1>1, <1>3, <2>1
    <3> QED
      BY <1>5, <1>7, <1>9, <3>1
  <2>2. CASE ~(i <= m)
    <3> DEFINE j == i - m
    <3>1. /\ j \in 1 .. n /\ j \in 0 .. n /\ j - 1 \in 0 .. n
          /\ i = m + j /\ i - 1 = m + (j - 1) /\ all[i] = t[j]
      BY <1>1, <1>3, <2>2
    <3> HIDE DEF j
    <3>2. up[i - 1] = v[j - 1] /\ up[i] = v[j] /\ down[i - 1] = x[j - 1] /\ down[i] = x[j]
      BY <1>9, <3>1
    <3> QED
      BY <1>6, <1>8, <3>1, <3>2
  <2> QED
    BY <2>1, <2>2
<1>11. 0 \in 0 .. m /\ n \in 0 .. n
  BY <1>1
<1>12. up[0] = a /\ up[m + n] = c /\ down[m + n] = f /\ down[0] = e
  BY <1>5, <1>6, <1>7, <1>8, <1>9, <1>11
<1>13. Path(all, a, c, f, e)
  BY <1>3, <1>4, <1>10, <1>12 DEF Path
<1> QED
  BY <1>13 DEF all

\* Lists of steps, one after the other.
LEMMA PathsFlattened ==
  ASSUME NEW ss, IsList(ss), NEW u, NEW v,
         \A i \in 1 .. Len(ss) : Path(ss[i], u[i - 1], u[i], v[i], v[i - 1])
  PROVE  Path(FlattenSeq(ss), u[0], u[Len(ss)], v[Len(ss)], v[0])
<1> DEFINE n == Len(ss)
<1>1. n \in Nat
  BY ListLength
<1>2. CASE n = 0
  <2>1. FlattenSeq(ss) = <<>>
    BY <1>2 DEF FlattenSeq, IsList
  <2> QED
    BY <1>2, <2>1, EmptyPath
<1>3. CASE n # 0
  <2>1. PICK l : /\ \A i \in 1 .. n : l[i] = IF i = 1 THEN ss[i] ELSE l[i - 1] \o ss[i]
                 /\ FlattenSeq(ss) = l[n]
    BY <1>1, <1>3, FlattenDefined
  <2> DEFINE S == {k \in 0 .. n - 1 : Path(l[k + 1], u[0], u[k + 1], v[k + 1], v[0])}
  <2>2. 0 \in S
    <3>1. 0 + 1 = 1 /\ 1 \in 1 .. n /\ 1 - 1 = 0 /\ 0 \in 0 .. n - 1
      BY <1>1, <1>3
    <3>2. l[1] = ss[1] /\ Path(ss[1], u[1 - 1], u[1], v[1], v[1 - 1])
      BY <2>1, <3>1
    <3> QED
      BY <3>1, <3>2
  <2>3. ASSUME NEW k \in 0 .. (n - 1) - 1, k \in S PROVE k + 1 \in S
    <3> DEFINE j == (k + 1) + 1
    <3>1. j \in 1 .. n /\ j # 1 /\ j - 1 = k + 1 /\ k + 1 \in 0 .. n - 1
      BY <1>1
    <3>2. l[j] = l[j - 1] \o ss[j]
      BY <2>1, <3>1
    <3>3. Path(l[j - 1], u[0], u[j - 1], v[j - 1], v[0]) /\ Path(ss[j], u[j - 1], u[j], v[j], v[j - 1])
      BY <2>3, <3>1
    <3>4. Path(l[j - 1] \o ss[j], u[0], u[j], v[j], v[0])
      BY <3>3, PathsJoined
    <3> QED
      BY <3>1, <3>2, <3>4
  <2>4. n - 1 \in S
    <3> HIDE DEF S
    <3>1. n - 1 \in Nat
      BY <1>1, <1>3
    <3>2. \A k \in 0 .. (n - 1) - 1 : k \in S => k + 1 \in S
      BY <2>3
    <3> HIDE DEF n
    <3>3. \A k \in 0 .. n - 1 : k \in S
      BY <2>2, <3>1, <3>2, UpTo
    <3> QED
      BY <3>1, <3>3
  <2>5. (n - 1) + 1 = n
    BY <1>1
  <2> QED
    BY <2>1, <2>4, <2>5
<1> QED
  BY <1>2, <1>3

-----------------------------------------------------------------------------
(* Steps for the elements of a set.                                        *)

\* The first i elements of S in the order of their ranks.
First(S, rank, i) == {Ranked(S, rank)[j] : j \in 1 .. i}

LEMMA RankedElement ==
  ASSUME NEW S, IsFiniteSet(S), NEW rank, rank \in [S -> Int], NEW i \in 1 .. Cardinality(S)
  PROVE  Ranked(S, rank)[i] \in S
BY RankedIn, ZenonT(40)

\* Of what is left, the next one comes first.
LEMMA NextRanked ==
  ASSUME NEW S, IsFiniteSet(S), NEW rank \in [S -> Int]
  PROVE  /\ Cardinality(S) \in Nat
         /\ First(S, rank, 0) = {}
         /\ First(S, rank, Cardinality(S)) = S
         /\ \A i \in 1 .. Cardinality(S) :
              LET x    == Ranked(S, rank)[i]
                  done == First(S, rank, i - 1)
              IN  /\ done \in SUBSET S
                  /\ x \in S \ done
                  /\ First(S, rank, i) = done \cup {x}
                  /\ \A y \in done : rank[y] <= rank[x]
                  /\ \A y \in S \ done : rank[x] <= rank[y]
<1> DEFINE n   == Cardinality(S)
           seq == Ranked(S, rank)
<1>1. n \in Nat
  BY FS_CardinalityType
<1>2. /\ seq \in [1 .. n -> S] /\ IsInjective(seq)
      /\ \A i, j \in DOMAIN seq : i < j => rank[seq[i]] <= rank[seq[j]]
  BY RankedSorts
<1>3. {seq[i] : i \in 1 .. n} = S
  BY RankedAll
<1> HIDE DEF seq
<1>4. ASSUME NEW i \in 1 .. n
      PROVE  LET x    == seq[i]
                 done == {seq[j] : j \in 1 .. i - 1}
             IN  /\ done \in SUBSET S
                 /\ x \in S \ done
                 /\ {seq[j] : j \in 1 .. i} = done \cup {x}
                 /\ \A y \in done : rank[y] <= rank[x]
                 /\ \A y \in S \ done : rank[x] <= rank[y]
  <2> DEFINE x    == seq[i]
             done == {seq[j] : j \in 1 .. i - 1}
  <2>1. \A j \in 1 .. i - 1 : j \in 1 .. n /\ j < i
    BY <1>1
  <2>2. done \in SUBSET S /\ x \in S
    BY <1>2, <2>1
  <2>3. x \notin done
    <3>1. \A j \in 1 .. i - 1 : seq[j] # seq[i]
      BY <1>1, <1>2, <2>1 DEF IsInjective
    <3> QED
      BY <3>1
  <2>4. {seq[j] : j \in 1 .. i} = done \cup {x}
    <3>1. \A j : j \in 1 .. i <=> j \in 1 .. i - 1 \/ j = i
      BY <1>1
    <3> QED
      BY <3>1
  <2>5. \A y \in done : rank[y] <= rank[x]
    BY <1>2, <2>1
  <2>6. ASSUME NEW y \in S \ done PROVE rank[x] <= rank[y]
    <3>1. PICK j \in 1 .. n : seq[j] = y
      BY <1>3
    <3>2. j = i \/ i < j
      BY <1>1, <3>1
    <3> QED
      BY <1>2, <3>1, <3>2
  <2> QED
    BY <2>2, <2>3, <2>4, <2>5, <2>6
<1>5. {seq[j] : j \in 1 .. 0} = {}
  OBVIOUS
<1> QED
  BY <1>1, <1>3, <1>4, <1>5 DEF First, seq

\* The steps F[x] for the elements of S in that order, and the same undone.
StepsFor(S, rank, F)  == [i \in 1 .. Cardinality(S) |-> F[Ranked(S, rank)[i]]]
UndoneFor(S, rank, F) == [i \in 1 .. Cardinality(S) |-> Undo(F[Ranked(S, rank)[i]])]

\* If each step leads on from what the steps before it have reached, in the
\* order of the ranks, all of them do.
LEMMA RankedPath ==
  ASSUME NEW S, IsFiniteSet(S), NEW rank \in [S -> Int], NEW F,
         NEW steps, steps = [i \in 1 .. Cardinality(S) |-> F[Ranked(S, rank)[i]]],
         NEW up, NEW down,
         \A done \in SUBSET S : \A x \in S \ done :
            /\ \A y \in done : rank[y] <= rank[x]
            /\ \A y \in S \ done : rank[x] <= rank[y]
            => /\ Leads(F[x].up, up[done], up[done \cup {x}])
               /\ Leads(F[x].down, down[done \cup {x}], down[done])
  PROVE  Path(steps, up[{}], up[S], down[S], down[{}])
<1> DEFINE n == Cardinality(S)
           first(i) == First(S, rank, i)
           u == [i \in 0 .. n |-> up[first(i)]]
           v == [i \in 0 .. n |-> down[first(i)]]
<1>1. n \in Nat /\ first(0) = {} /\ first(n) = S
  BY NextRanked
<1>2. \A i \in 0 .. n : u[i] = up[first(i)] /\ v[i] = down[first(i)]
  OBVIOUS
<1> HIDE DEF u, v
<1>3. IsList(steps) /\ Len(steps) = n /\ \A i \in 1 .. n : steps[i] = F[Ranked(S, rank)[i]]
  <2>1. \A i \in 1 .. n : steps[i] = F[Ranked(S, rank)[i]]
    OBVIOUS
  <2>2. steps = [i \in 1 .. n |-> steps[i]]
    OBVIOUS
  <2> QED
    BY <1>1, <2>1, <2>2, MapIsList
<1>4. ASSUME NEW i \in 1 .. n
      PROVE  Leads(steps[i].up, u[i - 1], u[i]) /\ Leads(steps[i].down, v[i], v[i - 1])
  <2> DEFINE x    == Ranked(S, rank)[i]
             done == first(i - 1)
  <2>1. /\ done \in SUBSET S
        /\ x \in S \ done
        /\ first(i) = done \cup {x}
        /\ \A y \in done : rank[y] <= rank[x]
        /\ \A y \in S \ done : rank[x] <= rank[y]
    BY NextRanked
  <2>2. i - 1 \in 0 .. n /\ i \in 0 .. n
    BY <1>1
  <2> HIDE DEF x, done, first
  <2>3. Leads(F[x].up, up[done], up[done \cup {x}]) /\ Leads(F[x].down, down[done \cup {x}], down[done])
    BY <2>1
  <2>4. u[i - 1] = up[done] /\ u[i] = up[done \cup {x}] /\ v[i - 1] = down[done] /\ v[i] = down[done \cup {x}]
    BY <1>2, <2>1, <2>2 DEF done
  <2>5. steps[i] = F[x]
    BY <1>3 DEF x
  <2> QED
    BY <2>3, <2>4, <2>5
<1>5. u[0] = up[{}] /\ u[n] = up[S] /\ v[n] = down[S] /\ v[0] = down[{}]
  <2>1. 0 \in 0 .. n /\ n \in 0 .. n
    BY <1>1
  <2> HIDE DEF n, first
  <2> QED
    BY <1>1, <1>2, <2>1
<1> HIDE DEF n
<1> QED
  BY <1>3, <1>4, <1>5 DEF Path

\* The same for lists of steps.
LEMMA RankedPaths ==
  ASSUME NEW S, IsFiniteSet(S), NEW rank \in [S -> Int], NEW F,
         NEW ss, ss = [i \in 1 .. Cardinality(S) |-> F[Ranked(S, rank)[i]]],
         NEW up, NEW down,
         \A done \in SUBSET S : \A x \in S \ done :
            /\ \A y \in done : rank[y] <= rank[x]
            /\ \A y \in S \ done : rank[x] <= rank[y]
            => Path(F[x], up[done], up[done \cup {x}], down[done \cup {x}], down[done])
  PROVE  Path(FlattenSeq(ss), up[{}], up[S], down[S], down[{}])
<1> DEFINE n == Cardinality(S)
           first(i) == First(S, rank, i)
           u == [i \in 0 .. n |-> up[first(i)]]
           v == [i \in 0 .. n |-> down[first(i)]]
<1>1. n \in Nat /\ first(0) = {} /\ first(n) = S
  BY NextRanked
<1>2. \A i \in 0 .. n : u[i] = up[first(i)] /\ v[i] = down[first(i)]
  OBVIOUS
<1> HIDE DEF u, v
<1>3. IsList(ss) /\ Len(ss) = n /\ \A i \in 1 .. n : ss[i] = F[Ranked(S, rank)[i]]
  <2>1. \A i \in 1 .. n : ss[i] = F[Ranked(S, rank)[i]]
    OBVIOUS
  <2>2. ss = [i \in 1 .. n |-> ss[i]]
    OBVIOUS
  <2> QED
    BY <1>1, <2>1, <2>2, MapIsList
<1>4. ASSUME NEW i \in 1 .. n PROVE Path(ss[i], u[i - 1], u[i], v[i], v[i - 1])
  <2> DEFINE x    == Ranked(S, rank)[i]
             done == first(i - 1)
  <2>1. /\ done \in SUBSET S
        /\ x \in S \ done
        /\ first(i) = done \cup {x}
        /\ \A y \in done : rank[y] <= rank[x]
        /\ \A y \in S \ done : rank[x] <= rank[y]
    BY NextRanked
  <2>2. i - 1 \in 0 .. n /\ i \in 0 .. n
    BY <1>1
  <2> HIDE DEF x, done, first
  <2>3. Path(F[x], up[done], up[done \cup {x}], down[done \cup {x}], down[done])
    BY <2>1
  <2>4. u[i - 1] = up[done] /\ u[i] = up[done \cup {x}] /\ v[i - 1] = down[done] /\ v[i] = down[done \cup {x}]
    BY <1>2, <2>1, <2>2 DEF done
  <2>5. ss[i] = F[x]
    BY <1>3 DEF x
  <2> QED
    BY <2>3, <2>4, <2>5
<1>5. u[0] = up[{}] /\ u[n] = up[S] /\ v[n] = down[S] /\ v[0] = down[{}]
  <2>1. 0 \in 0 .. n /\ n \in 0 .. n
    BY <1>1
  <2> HIDE DEF n, first
  <2> QED
    BY <1>1, <1>2, <2>1
<1>6. Path(FlattenSeq(ss), u[0], u[n], v[n], v[0])
  <2> HIDE DEF n
  <2> QED
    BY <1>3, <1>4, PathsFlattened
<1> QED
  BY <1>5, <1>6

\* With each step, one element more has been dealt with.
LeadOn(S, F, at) ==
  \A done \in SUBSET S : \A x \in S \ done :
    /\ Leads(F[x].up, at[done], at[done \cup {x}])
    /\ Leads(F[x].down, at[done \cup {x}], at[done])

\* Steps that lead there and back, and the same steps undone.
LEMMA ThereAndBack ==
  ASSUME NEW S, IsFiniteSet(S), NEW rank \in [S -> Int], NEW F, NEW at, LeadOn(S, F, at),
         NEW a, a = at[{}], NEW b, b = at[S]
  PROVE  Path(StepsFor(S, rank, F), a, b, b, a) /\ Path(UndoneFor(S, rank, F), b, a, a, b)
<1>0. \A done \in SUBSET S : \A x \in S \ done :
        /\ Leads(F[x].up, at[done], at[done \cup {x}])
        /\ Leads(F[x].down, at[done \cup {x}], at[done])
  BY DEF LeadOn
<1> DEFINE steps == StepsFor(S, rank, F)
           back  == UndoneFor(S, rank, F)
<1>1. Path(steps, at[{}], at[S], at[S], at[{}])
  <2>1. steps = [i \in 1 .. Cardinality(S) |-> F[Ranked(S, rank)[i]]]
    BY DEF StepsFor
  <2> HIDE DEF steps
  <2> QED
    BY <1>0, <2>1, RankedPath
<1>2. Path(back, at[S], at[{}], at[{}], at[S])
  <2> DEFINE U    == [x \in S |-> Undo(F[x])]
             left == [done \in SUBSET S |-> at[S \ done]]
  <2>1. back = [i \in 1 .. Cardinality(S) |-> U[Ranked(S, rank)[i]]]
    <3>1. Ranked(S, rank) \in [1 .. Cardinality(S) -> S]
      BY RankedIn
    <3>2. \A i \in 1 .. Cardinality(S) : Ranked(S, rank)[i] \in S
      <4> DEFINE order == Ranked(S, rank)
      <4>1. order \in [1 .. Cardinality(S) -> S]
        BY <3>1
      <4> HIDE DEF order
      <4>2. \A i \in 1 .. Cardinality(S) : order[i] \in S
        BY <4>1
      <4> QED
        BY <4>2 DEF order
    <3> QED
      BY <3>2 DEF UndoneFor
  <2>2. ASSUME NEW done \in SUBSET S, NEW x \in S \ done
        PROVE  /\ Leads(U[x].up, left[done], left[done \cup {x}])
               /\ Leads(U[x].down, left[done \cup {x}], left[done])
    <3> DEFINE rest == S \ (done \cup {x})
    <3>1. /\ rest \in SUBSET S /\ x \in S \ rest /\ rest \cup {x} = S \ done
          /\ done \cup {x} \in SUBSET S
      OBVIOUS
    <3>2. left[done] = at[rest \cup {x}] /\ left[done \cup {x}] = at[rest]
      BY <3>1
    <3>3. U[x].up = F[x].down /\ U[x].down = F[x].up
      BY DEF Undo, Step
    <3> HIDE DEF rest, left, U
    <3> QED
      BY <1>0, <3>1, <3>2, <3>3
  <2>3. left[{}] = at[S] /\ left[S] = at[{}]
    <3>1. {} \in SUBSET S /\ S \in SUBSET S /\ S \ {} = S /\ S \ S = {}
      OBVIOUS
    <3> QED
      BY <3>1
  <2> HIDE DEF back, left, U
  <2>4. Path(back, left[{}], left[S], left[S], left[{}])
    BY <2>1, <2>2, RankedPath
  <2> QED
    BY <2>3, <2>4
<1> QED
  BY <1>1, <1>2

-----------------------------------------------------------------------------
(* What one step makes of a catalog.                                       *)

IsMap(f) == f = [x \in DOMAIN f |-> f[x]]

\* A catalog with nothing but tables in it.
Whole(cat) ==
  /\ IsMap(cat)
  /\ \A t \in DOMAIN cat : IsTable(cat[t]) /\ IsMap(cat[t].indexes)

\* The catalog in which table t has these columns, constraints and indexes and
\* all others are as in base.
At(base, t, C, K, I) == [base EXCEPT ![t] = [columns |-> C, constraints |-> K, indexes |-> I]]

\* The foreign keys that refer to t, if t has the constraints K.
References(base, t, K) ==
  {f \in K \cup UNION {base[u].constraints : u \in DOMAIN base \ {t}} : f.kind = "fk" /\ f.ref = t}

LEMMA ReferencesAt ==
  ASSUME NEW base, NEW t \in DOMAIN base, NEW C, NEW K, NEW I
  PROVE  ForeignKeysTo(At(base, t, C, K, I), t) = References(base, t, K)
<1> DEFINE cat == At(base, t, C, K, I)
<1>1. DOMAIN cat = DOMAIN base /\ cat[t].constraints = K /\ \A u \in DOMAIN base \ {t} : cat[u] = base[u]
  BY DEF At
<1> HIDE DEF cat
<1>2. UNION {cat[u].constraints : u \in DOMAIN cat}
        = K \cup UNION {base[u].constraints : u \in DOMAIN base \ {t}}
  BY <1>1
<1>3. ForeignKeysTo(cat, t) = References(base, t, K)
  BY <1>2 DEF ForeignKeysTo, References
<1> QED
  BY <1>3 DEF cat

LEMMA AtAnother ==
  ASSUME NEW base, NEW t \in DOMAIN base, NEW C, NEW K, NEW I, NEW C2, NEW K2, NEW I2
  PROVE  /\ [At(base, t, C, K, I) EXCEPT ![t] = [columns |-> C2, constraints |-> K2, indexes |-> I2]]
              = At(base, t, C2, K2, I2)
         /\ [At(base, t, C, K, I) EXCEPT ![t].columns = C2] = At(base, t, C2, K, I)
         /\ [At(base, t, C, K, I) EXCEPT ![t].constraints = K2] = At(base, t, C, K2, I)
         /\ [At(base, t, C, K, I) EXCEPT ![t].indexes = I2] = At(base, t, C, K, I2)
<1> DEFINE cat == At(base, t, C, K, I)
<1>1. cat[t] = [columns |-> C, constraints |-> K, indexes |-> I]
  BY DEF At
<1>2. ASSUME NEW table PROVE [cat EXCEPT ![t] = table] = [base EXCEPT ![t] = table]
  BY DEF At
<1> HIDE DEF cat
<1>3. /\ [cat[t] EXCEPT !.columns = C2] = [columns |-> C2, constraints |-> K, indexes |-> I]
      /\ [cat[t] EXCEPT !.constraints = K2] = [columns |-> C, constraints |-> K2, indexes |-> I]
      /\ [cat[t] EXCEPT !.indexes = I2] = [columns |-> C, constraints |-> K, indexes |-> I2]
  BY <1>1
<1>4. /\ [cat EXCEPT ![t].columns = C2] = [cat EXCEPT ![t] = [cat[t] EXCEPT !.columns = C2]]
      /\ [cat EXCEPT ![t].constraints = K2] = [cat EXCEPT ![t] = [cat[t] EXCEPT !.constraints = K2]]
      /\ [cat EXCEPT ![t].indexes = I2] = [cat EXCEPT ![t] = [cat[t] EXCEPT !.indexes = I2]]
  OBVIOUS
<1> QED
  BY <1>2, <1>3, <1>4 DEF At, cat

\* No index and no key of another table has the name.
Elsewhere(base, t, name) ==
  \E u \in DOMAIN base \ {t} : name \in RelationNames(u, base[u])

\* Nor has a key among K, the constraints of t.
Unclaimed(base, t, K, name) ==
  /\ ~Elsewhere(base, t, name)
  /\ \A k \in K : IsKey(k) => DropName(t, k) # name

LEMMA NewName ==
  ASSUME NEW base, NEW t \in DOMAIN base, NEW C, NEW K, NEW I, NEW name,
         Unclaimed(base, t, K, name), name \notin DOMAIN I
  PROVE  name \notin Relations(At(base, t, C, K, I))
<1> DEFINE cat == At(base, t, C, K, I)
<1>1. /\ DOMAIN cat = DOMAIN base /\ cat[t].constraints = K /\ cat[t].indexes = I
      /\ \A u \in DOMAIN base \ {t} : cat[u] = base[u]
  BY DEF At
<1> HIDE DEF cat
<1>2. name \notin RelationNames(t, cat[t])
  BY <1>1 DEF Unclaimed, RelationNames, KeyNames
<1>3. \A u \in DOMAIN base \ {t} : name \notin RelationNames(u, cat[u])
  BY <1>1 DEF Unclaimed, Elsewhere
<1>4. name \notin Relations(cat)
  BY <1>1, <1>2, <1>3 DEF Relations
<1> QED
  BY <1>4 DEF cat

\* CREATE INDEX and DROP INDEX, if no foreign key depends on the index.
LEMMA IndexComesAndGoes ==
  ASSUME NEW base, Whole(base), NEW t \in DOMAIN base, NEW C, NEW K, NEW I, NEW x, NEW i,
         IsMap(I), x \notin DOMAIN I, Unclaimed(base, t, K, x),
         i.columns # {}, i.columns \subseteq DOMAIN C,
         \A f \in References(base, t, K) : \E k \in K : IsKey(k) /\ k.columns = Referred(f),
         NEW J, J = Extended(I, x, StoredIndex(i))
  PROVE  /\ Leads(CreateIndex(t, x, i), At(base, t, C, K, I), At(base, t, C, K, J))
         /\ Leads(DropIndex(x), At(base, t, C, K, J), At(base, t, C, K, I))
<1> DEFINE without == At(base, t, C, K, I)
           with    == At(base, t, C, K, J)
           create  == CreateIndex(t, x, i)
           drop    == DropIndex(x)
<1>1. /\ create.op = "create index" /\ create.table = t /\ create.index = x /\ create.def = i
      /\ drop.op = "drop index" /\ drop.index = x
      /\ create # Nothing /\ drop # Nothing
  BY DEF CreateIndex, DropIndex, Nothing
<1> HIDE DEF create, drop
<1>2. /\ DOMAIN J = DOMAIN I \cup {x} /\ J[x] = StoredIndex(i)
      /\ \A y \in DOMAIN I : J[y] = I[y]
      /\ Restrict(J, DOMAIN J \ {x}) = I
  <2>1. DOMAIN J = DOMAIN I \cup {x} /\ J[x] = StoredIndex(i) /\ \A y \in DOMAIN I : J[y] = I[y]
    BY DEF Extended
  <2>2. (DOMAIN I \cup {x}) \ {x} = DOMAIN I
    OBVIOUS
  <2>3. Restrict(J, DOMAIN I) = [y \in DOMAIN I |-> I[y]]
    BY <2>1 DEF Restrict
  <2> QED
    BY <2>1, <2>2, <2>3 DEF IsMap
<1>3. /\ DOMAIN without = DOMAIN base /\ DOMAIN with = DOMAIN base
      /\ without[t].columns = C /\ without[t].indexes = I
      /\ with[t].constraints = K /\ with[t].indexes = J
      /\ \A u \in DOMAIN base \ {t} : without[u] = base[u] /\ with[u] = base[u]
      /\ with[t] = [columns |-> C, constraints |-> K, indexes |-> J]
      /\ without = [u \in DOMAIN base |-> without[u]]
      /\ without[t] = [columns |-> C, constraints |-> K, indexes |-> I]
  BY DEF At
<1>4. [without EXCEPT ![t].indexes = J] = with
  BY AtAnother
<1>5. References(base, t, K) = ForeignKeysTo(with, t)
  BY ReferencesAt
<1>a. x \notin Relations(without)
  BY NewName
<1>b. \A u \in DOMAIN base \ {t} : x \notin DOMAIN base[u].indexes
  BY DEF Unclaimed, Elsewhere, RelationNames
<1> HIDE DEF without, with
<1>6. Leads(create, without, with)
  <2>1. x \notin Relations(without)
    BY <1>a
  <2>2. Accepts(without, create)
    BY <1>1, <1>3, <2>1 DEF Accepts
  <2>3. Effect(without, create) = [without EXCEPT ![t].indexes = J]
    BY <1>1, <1>3 DEF Effect
  <2> QED
    BY <1>1, <1>4, <2>2, <2>3 DEF Leads
<1>7. Leads(drop, with, without)
  <2>1. t \in DOMAIN with /\ x \in DOMAIN with[t].indexes
    BY <1>2, <1>3
  <2>2. ASSUME NEW u \in DOMAIN with, x \in DOMAIN with[u].indexes
        PROVE  ~SupportsForeignKey(with, u, x)
    <3>1. u = t
      BY <1>3, <1>b, <2>2
    <3>2. \A f \in ForeignKeysTo(with, t) : HasConstraint(with, t, Referred(f))
      BY <1>3, <1>5 DEF HasConstraint
    <3> QED
      BY <3>1, <3>2 DEF SupportsForeignKey
  <2>3. Accepts(with, drop)
    BY <1>1, <2>1, <2>2 DEF Accepts
  <2>4. Effect(with, drop) =
          [u \in DOMAIN with |-> [with[u] EXCEPT !.indexes = Restrict(with[u].indexes, DOMAIN with[u].indexes \ {x})]]
    BY <1>1 DEF Effect
  <2>5. ASSUME NEW u \in DOMAIN base
        PROVE  [with[u] EXCEPT !.indexes = Restrict(with[u].indexes, DOMAIN with[u].indexes \ {x})] = without[u]
    <3>1. CASE u = t
      <4>1. Restrict(with[t].indexes, DOMAIN with[t].indexes \ {x}) = I
        BY <1>2, <1>3
      <4>2. [with[t] EXCEPT !.indexes = I] = without[t]
        BY <1>3, IndexesReplaced
      <4> QED
        BY <3>1, <4>1, <4>2
    <3>2. CASE u # t
      <4> DEFINE table == base[u]
      <4>1. with[u] = table /\ without[u] = table /\ x \notin DOMAIN table.indexes
        BY <1>3, <1>b, <3>2
      <4>2. IsTable(table) /\ table.indexes = [y \in DOMAIN table.indexes |-> table.indexes[y]]
        BY DEF Whole, IsMap
      <4> HIDE DEF table
      <4>3. DOMAIN table.indexes \ {x} = DOMAIN table.indexes
        BY <4>1
      <4>4. Restrict(table.indexes, DOMAIN table.indexes) = table.indexes
        BY <4>2 DEF Restrict
      <4>5. [table EXCEPT !.indexes = table.indexes] = table
        BY <4>2 DEF IsTable
      <4> QED
        BY <4>1, <4>3, <4>4, <4>5
    <3> QED
      BY <3>1, <3>2
  <2>6. Effect(with, drop) = [u \in DOMAIN base |-> without[u]]
    BY <1>3, <2>4, <2>5
  <2> QED
    BY <1>1, <1>3, <2>3, <2>6 DEF Leads
<1> QED
  BY <1>6, <1>7 DEF without, with, create, drop

\* S and one element more.
With(S, x) == S \cup {x}

\* A key may have the name, if t has the indexes I.
FreeForKey(base, t, I, name) == name \notin DOMAIN I /\ ~Elsewhere(base, t, name)

\* ADD CONSTRAINT and DROP CONSTRAINT.
LEMMA ConstraintComesAndGoes ==
  ASSUME NEW base, NEW t \in DOMAIN base, NEW C, NEW K, NEW I, NEW c,
         \A k \in K : k.name # DropName(t, c) /\ DropName(t, k) = k.name,
         IsKey(c) => FreeForKey(base, t, I, DropName(t, c)),
         c.kind = "pk" => \A k \in K : k.kind # "pk",
         ConstraintFits(At(base, t, C, K, I), t, StoredConstraint(t, c)),
         IsKey(c) => References(base, t, K) = {},
         NEW L, L = With(K, StoredConstraint(t, c))
  PROVE  /\ Leads(AddConstraint(t, c), At(base, t, C, K, I), At(base, t, C, L, I))
         /\ Leads(DropConstraint(t, c), At(base, t, C, L, I), At(base, t, C, K, I))
<1> DEFINE e       == StoredConstraint(t, c)
           without == At(base, t, C, K, I)
           with    == At(base, t, C, L, I)
           add     == AddConstraint(t, c)
           drop    == DropConstraint(t, c)
<1>0. \A k : k \in L <=> k \in K \/ k = e
  BY DEF With
<1>1. /\ add.op = "add constraint" /\ add.table = t /\ add.constraint = c
      /\ drop.op = "drop constraint" /\ drop.table = t /\ drop.name = DropName(t, c)
      /\ add # Nothing /\ drop # Nothing
  BY DEF AddConstraint, DropConstraint, Nothing
<1>2. /\ e.kind = c.kind /\ e.name = DropName(t, c)
      /\ c.kind # "ck" => e.columns = c.columns
  BY DEF StoredConstraint
<1>3. /\ DOMAIN without = DOMAIN base /\ DOMAIN with = DOMAIN base
      /\ without[t].constraints = K /\ with[t].constraints = L
  BY DEF At
<1>4. /\ [without EXCEPT ![t].constraints = L] = with
      /\ [with EXCEPT ![t].constraints = K] = without
  BY AtAnother
<1>5. ForeignKeysTo(with, t) = References(base, t, L)
  BY ReferencesAt
<1> HIDE DEF add, drop, without, with
<1>6. Leads(add, without, with)
  <2>1. e.name \notin ConstraintNames(without[t])
    BY <1>2, <1>3 DEF ConstraintNames
  <2>2. e.kind = "pk" => \A k \in without[t].constraints : k.kind # "pk"
    BY <1>2, <1>3
  <2>3. ConstraintFits(without, t, e)
    BY DEF without
  <2>a. IsKey(e) => e.name \notin Relations(without)
    <3>1. IsKey(c) => Unclaimed(base, t, K, DropName(t, c)) /\ DropName(t, c) \notin DOMAIN I
      BY DEF Unclaimed, FreeForKey
    <3>2. IsKey(c) => DropName(t, c) \notin Relations(At(base, t, C, K, I))
      BY <3>1, NewName
    <3> QED
      BY <1>2, <3>2 DEF IsKey, without
  <2> HIDE DEF e
  <2>4. Accepts(without, add)
    BY <1>1, <1>3, <2>1, <2>2, <2>3, <2>a DEF Accepts, e
  <2>5. Effect(without, add) = [without EXCEPT ![t].constraints = L]
    BY <1>1, <1>3 DEF Effect, With, e
  <2> QED
    BY <1>1, <1>4, <2>4, <2>5 DEF Leads
<1>7. Leads(drop, with, without)
  <2>1. e \in with[t].constraints
    BY <1>0, <1>3
  <2>2. ASSUME IsKey(e) PROVE ForeignKeysTo(with, t) = {}
    <3>1. IsKey(c) /\ e.kind # "fk"
      BY <1>2, <2>2 DEF IsKey
    <3> HIDE DEF e
    <3>2. References(base, t, L) = References(base, t, K)
      BY <1>0, <3>1 DEF References
    <3> QED
      BY <1>5, <3>1, <3>2
  <2> HIDE DEF e
  <2>3. Accepts(with, drop)
    BY <1>1, <1>2, <1>3, <2>1, <2>2 DEF Accepts
  <2>4. Effect(with, drop) = [with EXCEPT ![t].constraints = {k \in L : k.name # DropName(t, c)}]
    BY <1>1, <1>3 DEF Effect
  <2>5. {k \in L : k.name # DropName(t, c)} = K
    BY <1>0, <1>2
  <2> QED
    BY <1>1, <1>4, <2>3, <2>4, <2>5 DEF Leads
<1> QED
  BY <1>6, <1>7 DEF without, with, add, drop, e

\* Nothing in the table, and no foreign key to it, uses column x.
Unused(base, t, K, I, x) ==
  /\ \A f \in References(base, t, K) : x \notin Referred(f)
  /\ \A k \in K : ~UsesColumn(k, x)
  /\ \A y \in DOMAIN I : x \notin I[y].columns

LEMMA UnusedColumn ==
  ASSUME NEW table, NEW x, IsMap(table.indexes),
         \A k \in table.constraints : ~UsesColumn(k, x),
         \A y \in DOMAIN table.indexes : x \notin table.indexes[y].columns
  PROVE  WithoutColumn(table, x) = [columns     |-> Restrict(table.columns, DOMAIN table.columns \ {x}),
                                    constraints |-> table.constraints,
                                    indexes     |-> table.indexes]
<1> DEFINE I == table.indexes
<1>1. {k \in table.constraints : ~UsesColumn(k, x)} = table.constraints
  OBVIOUS
<1>2. RestrictValues(I, LAMBDA i : x \notin i.columns) = I
  <2>1. {y \in DOMAIN I : x \notin I[y].columns} = DOMAIN I
    OBVIOUS
  <2>2. Restrict(I, DOMAIN I) = I
    BY DEF Restrict, IsMap
  <2> QED
    BY <2>1, <2>2 DEF RestrictValues
<1> QED
  BY <1>1, <1>2 DEF WithoutColumn

\* f without x.
Less(f, x) == Restrict(f, DOMAIN f \ {x})

Table(C, K, I) == [columns |-> C, constraints |-> K, indexes |-> I]

\* What Accepts and Effect ask of cat, if column x of t is dropped.
LEMMA UnusedDropped ==
  ASSUME NEW base, NEW t \in DOMAIN base, NEW C, NEW K, NEW I, NEW x \in DOMAIN C,
         NEW cat, cat = At(base, t, C, K, I), IsMap(I), Unused(base, t, K, I, x)
  PROVE  /\ CanDropColumn(cat, t, x)
         /\ WithoutColumn(cat[t], x) = Table(Less(C, x), K, I)
<1>1. cat[t].columns = C /\ cat[t].constraints = K /\ cat[t].indexes = I
  BY DEF At
<1>2. ForeignKeysTo(cat, t) = References(base, t, K)
  BY ReferencesAt
<1>3. CanDropColumn(cat, t, x)
  BY <1>1, <1>2 DEF CanDropColumn, Unused
<1> DEFINE table == cat[t]
<1>4. /\ IsMap(table.indexes)
      /\ \A k \in table.constraints : ~UsesColumn(k, x)
      /\ \A y \in DOMAIN table.indexes : x \notin table.indexes[y].columns
  BY <1>1 DEF Unused
<1> HIDE DEF table
<1>5. WithoutColumn(table, x) = [columns     |-> Restrict(table.columns, DOMAIN table.columns \ {x}),
                                 constraints |-> table.constraints,
                                 indexes     |-> table.indexes]
  BY <1>4, UnusedColumn
<1> QED
  BY <1>1, <1>3, <1>5 DEF table, Table, Less

\* ADD COLUMN and DROP COLUMN.
LEMMA ColumnComesAndGoes ==
  ASSUME NEW base, NEW t \in DOMAIN base, NEW C, NEW K, NEW I, NEW x, NEW c,
         NEW D, D = Extended(C, x, StoredColumn(c)), ColumnFits(StoredColumn(c)),
         IsMap(C), IsMap(I), x \notin DOMAIN C, Unused(base, t, K, I, x)
  PROVE  /\ Leads(AddColumn(t, x, c), At(base, t, C, K, I), At(base, t, D, K, I))
         /\ Leads(DropColumn(t, x), At(base, t, D, K, I), At(base, t, C, K, I))
<1> DEFINE without == At(base, t, C, K, I)
           with    == At(base, t, D, K, I)
           add     == AddColumn(t, x, c)
           drop    == DropColumn(t, x)
<1>1. /\ add.op = "add column" /\ add.table = t /\ add.column = x /\ add.def = c
      /\ drop.op = "drop column" /\ drop.table = t /\ drop.column = x
      /\ add # Nothing /\ drop # Nothing
  BY DEF AddColumn, DropColumn, Nothing
<1>2. x \in DOMAIN D /\ Restrict(D, DOMAIN D \ {x}) = C
  <2>1. DOMAIN D = DOMAIN C \cup {x} /\ \A y \in DOMAIN C : D[y] = C[y]
    BY DEF Extended
  <2>2. (DOMAIN C \cup {x}) \ {x} = DOMAIN C
    OBVIOUS
  <2>3. Restrict(D, DOMAIN C) = [y \in DOMAIN C |-> C[y]]
    BY <2>1 DEF Restrict
  <2> QED
    BY <2>1, <2>2, <2>3 DEF IsMap
<1>3. /\ DOMAIN without = DOMAIN base /\ DOMAIN with = DOMAIN base
      /\ without[t].columns = C
      /\ without[t] = [columns |-> C, constraints |-> K, indexes |-> I]
      /\ without = At(base, t, C, K, I) /\ with = At(base, t, D, K, I)
  BY DEF At
<1>4. /\ [At(base, t, C, K, I) EXCEPT ![t] = [columns |-> D, constraints |-> K, indexes |-> I]]
           = At(base, t, D, K, I)
      /\ [At(base, t, D, K, I) EXCEPT ![t] = [columns |-> C, constraints |-> K, indexes |-> I]]
           = At(base, t, C, K, I)
  BY AtAnother
<1> HIDE DEF add, drop, without, with
<1>5. CanDropColumn(with, t, x)
  BY <1>2, <1>3, UnusedDropped
<1>6. WithoutColumn(with[t], x) = [columns |-> C, constraints |-> K, indexes |-> I]
  <2>1. WithoutColumn(with[t], x) = Table(Less(D, x), K, I)
    BY <1>2, <1>3, UnusedDropped
  <2> QED
    BY <1>2, <2>1 DEF Table, Less
<1>7. Leads(add, without, with)
  <2>1. Accepts(without, add)
    BY <1>1, <1>3 DEF Accepts
  <2>2. Effect(without, add) = [without EXCEPT ![t] = WithColumn(without[t], x, c)]
    BY <1>1 DEF Effect
  <2>3. WithColumn(without[t], x, c) = [columns |-> D, constraints |-> K, indexes |-> I]
    BY <1>3 DEF WithColumn
  <2> QED
    BY <1>1, <1>3, <1>4, <2>1, <2>2, <2>3 DEF Leads
<1>8. Leads(drop, with, without)
  <2>1. Accepts(with, drop)
    BY <1>1, <1>3, <1>5 DEF Accepts
  <2>2. Effect(with, drop) = [with EXCEPT ![t] = WithoutColumn(with[t], x)]
    BY <1>1 DEF Effect
  <2> QED
    BY <1>1, <1>3, <1>4, <1>6, <2>1, <2>2 DEF Leads
<1> QED
  BY <1>7, <1>8 DEF without, with, add, drop

\* The catalog in which also column x of t is v.
AtColumn(base, t, C, K, I, x, v) == At(base, t, [C EXCEPT ![x] = v], K, I)

LEMMA ColumnAt ==
  ASSUME NEW base, NEW t \in DOMAIN base, NEW C, NEW K, NEW I, NEW x \in DOMAIN C, NEW v
  PROVE  LET cat == AtColumn(base, t, C, K, I, x, v)
         IN  /\ DOMAIN cat = DOMAIN base
             /\ DOMAIN cat[t].columns = DOMAIN C
             /\ cat[t].columns[x] = v
             /\ cat[t].constraints = K
             /\ \A u \in DOMAIN base \ {t} : cat[u] = base[u]
<1> DEFINE D   == [C EXCEPT ![x] = v]
           cat == AtColumn(base, t, C, K, I, x, v)
<1>1. /\ DOMAIN cat = DOMAIN base /\ cat[t].columns = D /\ cat[t].constraints = K
      /\ \A u \in DOMAIN base \ {t} : cat[u] = base[u]
  <2> HIDE DEF D
  <2>1. cat = At(base, t, D, K, I)
    BY DEF AtColumn, D
  <2> HIDE DEF cat
  <2> QED
    BY <2>1 DEF At
<1>2. DOMAIN D = DOMAIN C /\ D[x] = v
  OBVIOUS
<1> HIDE DEF cat, D
<1> QED
  BY <1>1, <1>2 DEF cat

\* The columns of every foreign key can be compared with those it refers to.
AllAgree(cat) ==
  \A u \in DOMAIN cat : \A c \in cat[u].constraints : c.kind = "fk" => TypesAgree(cat, u, c)

\* ALTER COLUMN.
LEMMA ColumnAltered ==
  ASSUME NEW base, NEW t \in DOMAIN base, NEW C, NEW K, NEW I, NEW x \in DOMAIN C, NEW v, NEW c
  PROVE  LET from  == AtColumn(base, t, C, K, I, x, v)
             to(w) == AtColumn(base, t, C, K, I, x, w)
         IN  /\ /\ Converts(v.type, c.type)
                /\ ColumnFits([v EXCEPT !.type = c.type])
                /\ AllAgree(to([v EXCEPT !.type = c.type]))
                => Leads(SetType(t, x, c), from, to([v EXCEPT !.type = c.type]))
             /\ v.mode # "identity" /\ (\A k \in K : k.kind = "pk" => x \notin k.columns)
                  => Leads(SetNotNull(t, x, c), from, to([v EXCEPT !.notNull = c.notNull]))
             /\ v.mode = Plain /\ ColumnFits([v EXCEPT !.default = c.default])
                  => Leads(SetDefault(t, x, c), from, to([v EXCEPT !.default = StoredDefault(c.default)]))
<1> DEFINE D    == [C EXCEPT ![x] = v]
           cat  == AtColumn(base, t, C, K, I, x, v)
           s1   == SetType(t, x, c)
           s2   == SetNotNull(t, x, c)
           s3   == SetDefault(t, x, c)
           w1   == [v EXCEPT !.type = c.type]
           w2   == [v EXCEPT !.notNull = c.notNull]
           w3   == [v EXCEPT !.default = StoredDefault(c.default)]
<1>1. cat = At(base, t, D, K, I) /\ cat[t].columns = D /\ D[x] = v
  BY DEF AtColumn, At
<1>2. ASSUME NEW w PROVE [cat EXCEPT ![t].columns[x] = w] = AtColumn(base, t, C, K, I, x, w)
  <2>1. [cat EXCEPT ![t].columns[x] = w] = [cat EXCEPT ![t].columns = [cat[t].columns EXCEPT ![x] = w]]
    OBVIOUS
  <2>2. [D EXCEPT ![x] = w] = [C EXCEPT ![x] = w]
    OBVIOUS
  <2> DEFINE E == [C EXCEPT ![x] = w]
  <2> HIDE DEF D, E, cat
  <2>3. [At(base, t, D, K, I) EXCEPT ![t].columns = E] = At(base, t, E, K, I)
    BY AtAnother
  <2>4. [cat EXCEPT ![t].columns[x] = w] = At(base, t, E, K, I)
    BY <1>1, <2>1, <2>2, <2>3 DEF E
  <2> QED
    BY <2>4 DEF AtColumn, E
<1>3. /\ DOMAIN cat = DOMAIN base /\ x \in DOMAIN cat[t].columns
      /\ cat[t].columns[x] = v /\ cat[t].constraints = K
      /\ \A u \in DOMAIN base \ {t} : cat[u] = base[u]
  BY ColumnAt
<1>a. LET to == AtColumn(base, t, C, K, I, x, w1)
      IN  /\ DOMAIN to = DOMAIN base /\ to[t].constraints = K
          /\ \A u \in DOMAIN base \ {t} : to[u] = base[u]
  <2> HIDE DEF w1
  <2> QED
    BY ColumnAt
<1> HIDE DEF cat, D
<1>4. /\ [cat EXCEPT ![t].columns[x].type = c.type] = [cat EXCEPT ![t].columns[x] = w1]
      /\ [cat EXCEPT ![t].columns[x].notNull = c.notNull] = [cat EXCEPT ![t].columns[x] = w2]
      /\ [cat EXCEPT ![t].columns[x].default = StoredDefault(c.default)]
           = [cat EXCEPT ![t].columns[x] = w3]
  BY <1>3
<1>5. /\ s1.op = "set type" /\ s1.table = t /\ s1.column = x /\ s1.type = c.type /\ s1 # Nothing
      /\ s2.op = "set not null" /\ s2.table = t /\ s2.column = x /\ s2.notNull = c.notNull /\ s2 # Nothing
      /\ s3.op = "set default" /\ s3.table = t /\ s3.column = x /\ s3.default = c.default /\ s3 # Nothing
  BY DEF SetType, SetNotNull, SetDefault, Nothing
<1> HIDE DEF s1, s2, s3
<1>6. /\ Effect(cat, s1) = [cat EXCEPT ![t].columns[x].type = c.type]
      /\ Effect(cat, s2) = [cat EXCEPT ![t].columns[x].notNull = c.notNull]
      /\ Effect(cat, s3) = [cat EXCEPT ![t].columns[x].default = StoredDefault(c.default)]
  BY <1>5 DEF Effect
<1>7. /\ Effect(cat, s1) = [cat EXCEPT ![t].columns[x] = w1]
      /\ Effect(cat, s2) = [cat EXCEPT ![t].columns[x] = w2]
      /\ Effect(cat, s3) = [cat EXCEPT ![t].columns[x] = w3]
  BY <1>4, <1>6
<1> HIDE DEF w1, w2, w3
<1>8. /\ Effect(cat, s1) = AtColumn(base, t, C, K, I, x, w1)
      /\ Effect(cat, s2) = AtColumn(base, t, C, K, I, x, w2)
      /\ Effect(cat, s3) = AtColumn(base, t, C, K, I, x, w3)
  BY <1>2, <1>7
<1>9. /\ Converts(v.type, c.type)
      /\ ColumnFits([v EXCEPT !.type = c.type])
      /\ AllAgree(AtColumn(base, t, C, K, I, x, w1))
      => Accepts(cat, s1)
  <2> SUFFICES ASSUME Converts(v.type, c.type), ColumnFits([v EXCEPT !.type = c.type]),
                      AllAgree(AtColumn(base, t, C, K, I, x, w1))
               PROVE  Accepts(cat, s1)
    OBVIOUS
  <2> DEFINE after == [cat EXCEPT ![t].columns[x].type = c.type]
             to    == AtColumn(base, t, C, K, I, x, w1)
  <2>1. after = to
    BY <1>6, <1>8
  <2>2. /\ DOMAIN cat = DOMAIN to
        /\ \A u \in DOMAIN cat : cat[u].constraints = to[u].constraints
    BY <1>3, <1>a
  <2> HIDE DEF to
  <2>3. \A u \in DOMAIN cat : \A k \in cat[u].constraints : k.kind = "fk" => TypesAgree(after, u, k)
    BY <2>1, <2>2 DEF AllAgree, to
  <2> HIDE DEF after
  <2> QED
    BY <1>3, <1>5, <2>3 DEF Accepts, after
<1>10. v.mode # "identity" /\ (\A k \in K : k.kind = "pk" => x \notin k.columns) => Accepts(cat, s2)
  BY <1>3, <1>5 DEF Accepts
<1>11. v.mode = Plain /\ ColumnFits([v EXCEPT !.default = c.default]) => Accepts(cat, s3)
  BY <1>3, <1>5 DEF Accepts
<1>12. /\ Converts(v.type, c.type)
       /\ ColumnFits([v EXCEPT !.type = c.type])
       /\ AllAgree(AtColumn(base, t, C, K, I, x, w1))
       => Leads(s1, cat, AtColumn(base, t, C, K, I, x, w1))
  BY <1>5, <1>8, <1>9 DEF Leads
<1>13. v.mode # "identity" /\ (\A k \in K : k.kind = "pk" => x \notin k.columns)
         => Leads(s2, cat, AtColumn(base, t, C, K, I, x, w2))
  BY <1>5, <1>8, <1>10 DEF Leads
<1>14. v.mode = Plain /\ ColumnFits([v EXCEPT !.default = c.default])
         => Leads(s3, cat, AtColumn(base, t, C, K, I, x, w3))
  BY <1>5, <1>8, <1>11 DEF Leads
<1> QED
  BY <1>12, <1>13, <1>14 DEF cat, s1, s2, s3, w1, w2, w3

\* DROP COLUMN and ADD COLUMN.
LEMMA ColumnPutAnew ==
  ASSUME NEW base, NEW t \in DOMAIN base, NEW C, NEW K, NEW I, NEW x \in DOMAIN C, NEW c,
         NEW D, D = Extended(Restrict(C, DOMAIN C \ {x}), x, StoredColumn(c)), ColumnFits(StoredColumn(c)),
         IsMap(I), Unused(base, t, K, I, x)
  PROVE  Leads(ReplaceColumn(t, x, c), At(base, t, C, K, I), At(base, t, D, K, I))
<1> DEFINE rest == Restrict(C, DOMAIN C \ {x})
           cat  == At(base, t, C, K, I)
           s    == ReplaceColumn(t, x, c)
<1>1. s.op = "replace column" /\ s.table = t /\ s.column = x /\ s.def = c /\ s # Nothing
  BY DEF ReplaceColumn, Nothing
<1>2. DOMAIN cat = DOMAIN base /\ cat = At(base, t, C, K, I) /\ rest = Restrict(C, DOMAIN C \ {x})
  BY DEF At
<1>3. Extended(rest, x, StoredColumn(c)) = D
  OBVIOUS
<1> HIDE DEF rest, s, cat
<1>4. /\ CanDropColumn(cat, t, x)
      /\ WithoutColumn(cat[t], x) = [columns |-> rest, constraints |-> K, indexes |-> I]
  <2>1. CanDropColumn(cat, t, x) /\ WithoutColumn(cat[t], x) = Table(Less(C, x), K, I)
    BY <1>2, UnusedDropped
  <2> QED
    BY <1>2, <2>1 DEF Table, Less
<1>5. [cat EXCEPT ![t] = [columns |-> D, constraints |-> K, indexes |-> I]] = At(base, t, D, K, I)
  <2>1. [At(base, t, C, K, I) EXCEPT ![t] = [columns |-> D, constraints |-> K, indexes |-> I]]
          = At(base, t, D, K, I)
    BY AtAnother
  <2> QED
    BY <1>2, <2>1
<1>6. Accepts(cat, s)
  BY <1>1, <1>2, <1>4 DEF Accepts
<1>7. Effect(cat, s) = [cat EXCEPT ![t] = WithColumn(WithoutColumn(cat[t], x), x, c)]
  BY <1>1 DEF Effect
<1>8. WithColumn(WithoutColumn(cat[t], x), x, c) = [columns |-> D, constraints |-> K, indexes |-> I]
  BY <1>3, <1>4 DEF WithColumn
<1> QED
  BY <1>1, <1>2, <1>5, <1>6, <1>7, <1>8 DEF Leads, s

LEMMA ColumnReplaced ==
  ASSUME NEW base, NEW t \in DOMAIN base, NEW C, NEW K, NEW I, NEW x \in DOMAIN C, NEW v, NEW c,
         ColumnFits(StoredColumn(c)), IsMap(I), Unused(base, t, K, I, x)
  PROVE  Leads(ReplaceColumn(t, x, c), AtColumn(base, t, C, K, I, x, v),
               AtColumn(base, t, C, K, I, x, StoredColumn(c)))
<1> DEFINE D == [C EXCEPT ![x] = v]
           E == [C EXCEPT ![x] = StoredColumn(c)]
<1>1. x \in DOMAIN D
  OBVIOUS
<1>2. E = Extended(Restrict(D, DOMAIN D \ {x}), x, StoredColumn(c))
  BY DEF Extended, Restrict
<1> HIDE DEF D, E
<1>3. Leads(ReplaceColumn(t, x, c), At(base, t, D, K, I), At(base, t, E, K, I))
  BY <1>1, <1>2, ColumnPutAnew
<1> QED
  BY <1>3 DEF AtColumn, D, E

\* A statement where something differs.
When(differs, s) == IF differs THEN <<s>> ELSE <<>>

LEMMA WhenPath ==
  ASSUME NEW differs \in BOOLEAN, NEW step, NEW a, NEW b,
         differs => Leads(step.up, a, b) /\ Leads(step.down, b, a), ~differs => a = b
  PROVE  Path(When(differs, step), a, b, b, a)
BY OneStepPath, EmptyPath DEF When

LEMMA FitsStored ==
  ASSUME NEW c, IsColumn(c), ColumnFits(c)
  PROVE  ColumnFits(StoredColumn(c))
<1> DEFINE d == StoredColumn(c)
<1>1. IsColumn(d) /\ StoredColumn(d) = d
  BY ColumnStored
<1>2. /\ d.type = c.type /\ d.mode = c.mode
      /\ d.default = IF c.mode = Plain THEN StoredDefault(c.default) ELSE NotGiven
  <2> DEFINE notNull == IF c.mode = "identity" THEN TRUE ELSE c.notNull
             default == IF c.mode = Plain THEN StoredDefault(c.default) ELSE NotGiven
  <2>1. d = [type |-> c.type, notNull |-> notNull, default |-> default, mode |-> c.mode]
    BY StoredColumnParts
  <2> HIDE DEF d, notNull, default
  <2>2. d.type = c.type /\ d.mode = c.mode /\ d.default = default
    BY <2>1
  <2> QED
    BY <2>2 DEF default
<1> HIDE DEF d
<1>3. d.mode # Plain => <<d.type, d.mode>> \in Takes
  BY <1>2 DEF ColumnFits
<1>4. d.default # NotGiven => c.mode = Plain /\ d.default = StoredDefault(c.default) /\ c.default # NotGiven
  BY <1>2, NoDefaultStored
<1>5. c.mode = Plain => StoredDefault(d.default) = d.default
  BY <1>1, <1>2, StoredColumnIs
<1>6. d.default # NotGiven => <<d.type, StoredDefault(d.default)>> \in Takes
  BY <1>2, <1>4, <1>5 DEF ColumnFits
<1>7. ColumnFits(d)
  BY <1>3, <1>6 DEF ColumnFits
<1> QED
  BY <1>7 DEF d

\* The values of a column that changes from a to b are converted there and back,
\* and so is its default while it has the type of b already.
TypeChanges(a, b) ==
  /\ Converts(a.type, b.type)
  /\ Converts(b.type, a.type)
  /\ ColumnFits([a EXCEPT !.type = b.type])

\* The steps for a column that is changed lead there and back: a is what the
\* catalog records of it, b what is declared.
LEMMA ColumnChangePath ==
  ASSUME NEW base, NEW t \in DOMAIN base, NEW C, NEW K, NEW I, NEW x \in DOMAIN C,
         IsMap(I), NEW a, NEW b, IsColumn(a), IsColumn(b), a = StoredColumn(a),
         a.mode # b.mode => Unused(base, t, K, I, x),
         a.mode = b.mode /\ a.notNull # b.notNull =>
           a.mode # "identity" /\ \A k \in K : k.kind = "pk" => x \notin k.columns,
         a.mode = b.mode /\ a.default # b.default => a.mode = Plain,
         ColumnFits(a), ColumnFits(b),
         a.mode = b.mode => TypeChanges(a, b),
         \A v : v.type \in {a.type, b.type} => AllAgree(AtColumn(base, t, C, K, I, x, v))
  PROVE  LET from == AtColumn(base, t, C, K, I, x, a)
             to   == AtColumn(base, t, C, K, I, x, StoredColumn(b))
         IN  Path(ColumnChangeSteps(t, x, a, b), from, to, to, from)
<1> DEFINE at(v) == AtColumn(base, t, C, K, I, x, v)
           d  == StoredColumn(b)
           s1 == Step(SetType(t, x, b), SetType(t, x, a))
           s2 == Step(SetNotNull(t, x, b), SetNotNull(t, x, a))
           s3 == Step(SetDefault(t, x, b), SetDefault(t, x, a))
           s4 == Step(ReplaceColumn(t, x, b), ReplaceColumn(t, x, a))
           w1 == When(a.type # b.type, s1)
           w2 == When(a.notNull # b.notNull, s2)
           w3 == When(a.default # b.default, s3)
           w4 == When(TRUE, s4)
<1>1. ColumnChangeSteps(t, x, a, b) = IF a.mode # b.mode THEN w4 ELSE w1 \o w2 \o w3
  BY DEF ColumnChangeSteps, When
<1>2. /\ s1.up = SetType(t, x, b) /\ s1.down = SetType(t, x, a)
      /\ s2.up = SetNotNull(t, x, b) /\ s2.down = SetNotNull(t, x, a)
      /\ s3.up = SetDefault(t, x, b) /\ s3.down = SetDefault(t, x, a)
      /\ s4.up = ReplaceColumn(t, x, b) /\ s4.down = ReplaceColumn(t, x, a)
  BY DEF Step
<1> HIDE DEF s1, s2, s3, s4
<1>3. CASE a.mode # b.mode
  <2>1. Unused(base, t, K, I, x)
    BY <1>3
  <2>2. Leads(s4.up, at(a), at(d))
    BY <1>2, <2>1, FitsStored, ColumnReplaced
  <2>3. Leads(s4.down, at(d), at(a))
    <3>1. Leads(ReplaceColumn(t, x, a), at(d), at(StoredColumn(a)))
      BY <2>1, FitsStored, ColumnReplaced
    <3> QED
      BY <1>2, <3>1
  <2> HIDE DEF at, d
  <2>4. Path(w4, at(a), at(d), at(d), at(a))
    BY <2>2, <2>3, WhenPath
  <2> QED
    BY <1>1, <1>3, <2>4 DEF at, d
<1>4. CASE a.mode = b.mode
  <2> DEFINE m1 == [a EXCEPT !.type = b.type]
             m2 == [m1 EXCEPT !.notNull = b.notNull]
  <2>1. /\ m1.mode = a.mode /\ m2.mode = a.mode /\ d.mode = a.mode
        /\ a.notNull \in BOOLEAN /\ b.notNull \in BOOLEAN
    <3>1. a = [type |-> a.type, notNull |-> a.notNull, default |-> a.default, mode |-> a.mode]
      BY DEF IsColumn
    <3>2. b = [type |-> b.type, notNull |-> b.notNull, default |-> b.default, mode |-> b.mode]
      BY DEF IsColumn
    <3>3. m1.mode = a.mode /\ m2.mode = a.mode
      BY <3>1
    <3>4. d.mode = a.mode
      BY <1>4, ColumnStored
    <3> QED
      BY <3>3, <3>4 DEF IsColumn
  <2>2. a.default = StoredDefault(a.default)
    BY StoredColumnIs, NoDefaultStored
  <2>3. /\ d = [m2 EXCEPT !.default = StoredDefault(b.default)]
        /\ m2 = [d EXCEPT !.default = StoredDefault(a.default)]
    <3> DEFINE notNull == IF b.mode = "identity" THEN TRUE ELSE b.notNull
               default == IF b.mode = Plain THEN StoredDefault(b.default) ELSE NotGiven
    <3>1. d = [type |-> b.type, notNull |-> notNull, default |-> default, mode |-> b.mode]
      BY StoredColumnParts
    <3>2. notNull = b.notNull
      <4>1. b.mode = "identity" => a.notNull = TRUE
        BY <1>4, <2>1, StoredColumnIs
      <4>2. b.mode = "identity" => b.notNull = a.notNull
        BY <1>4
      <4> QED
        BY <4>1, <4>2
    <3>3. default = StoredDefault(b.default)
      <4>1. b.mode # Plain => a.default = NotGiven
        BY <1>4, StoredColumnIs
      <4>2. b.mode # Plain => b.default = a.default
        BY <1>4
      <4> QED
        BY <4>1, <4>2, NoDefaultStored
    <3>4. m2 = [type |-> b.type, notNull |-> b.notNull, default |-> a.default, mode |-> a.mode]
      <4>1. a = [type |-> a.type, notNull |-> a.notNull, default |-> a.default, mode |-> a.mode]
        BY DEF IsColumn
      <4>2. m1 = [type |-> b.type, notNull |-> a.notNull, default |-> a.default, mode |-> a.mode]
        BY <4>1
      <4> HIDE DEF m1
      <4> QED
        BY <4>2
    <3> HIDE DEF notNull, default, d, m2
    <3> QED
      BY <1>4, <2>2, <3>1, <3>2, <3>3, <3>4
  <2>4. m1 = [m2 EXCEPT !.notNull = a.notNull] /\ a = [m1 EXCEPT !.type = a.type]
    BY DEF IsColumn
  <2>5. /\ a.type = b.type => m1 = a
        /\ a.notNull = b.notNull => m2 = m1
        /\ a.default = b.default => d = m2
    <3>1. a = [type |-> a.type, notNull |-> a.notNull, default |-> a.default, mode |-> a.mode]
      BY DEF IsColumn
    <3>2. a.type = b.type => m1 = a
      BY <3>1
    <3>3. m1 = [type |-> b.type, notNull |-> a.notNull, default |-> a.default, mode |-> a.mode]
      BY <3>1
    <3> HIDE DEF m1
    <3>4. a.notNull = b.notNull => m2 = m1
      BY <3>3
    <3>5. m2.default = a.default /\ m2 = [m2 EXCEPT !.default = m2.default]
      BY <3>3
    <3> HIDE DEF m2
    <3>6. a.default = b.default => d = m2
      BY <2>2, <2>3, <3>5
    <3> QED
      BY <3>2, <3>4, <3>6
  <2>a. /\ m1.type = b.type /\ ColumnFits(m1)
        /\ ColumnFits([m2 EXCEPT !.default = b.default])
        /\ ColumnFits([d EXCEPT !.default = a.default])
    <3>1. a = [type |-> a.type, notNull |-> a.notNull, default |-> a.default, mode |-> a.mode]
      BY DEF IsColumn
    <3>2. m1 = [type |-> b.type, notNull |-> a.notNull, default |-> a.default, mode |-> a.mode]
      BY <3>1
    <3>3. ColumnFits(m1)
      BY <1>4 DEF TypeChanges
    <3> HIDE DEF m1
    <3>4. m2 = [type |-> b.type, notNull |-> b.notNull, default |-> a.default, mode |-> a.mode]
      BY <3>2
    <3> DEFINE p == [m2 EXCEPT !.default = b.default]
               q == [d EXCEPT !.default = a.default]
    <3> HIDE DEF m2
    <3>5. p.type = b.type /\ p.default = b.default /\ p.mode = b.mode
      BY <1>4, <3>4
    <3>6. d.type = b.type /\ d.mode = a.mode /\ IsColumn(d)
      <4>1. d.type = b.type
        <5> HIDE DEF d
        <5> QED
          BY <2>3, <3>4
      <4> QED
        BY <2>1, <4>1, ColumnStored
    <3> HIDE DEF d
    <3>7. q.type = m1.type /\ q.default = m1.default /\ q.mode = m1.mode
      BY <3>2, <3>6 DEF IsColumn
    <3> HIDE DEF p, q
    <3>8. ColumnFits(p) /\ ColumnFits(q)
      BY <3>3, <3>5, <3>7, FitsAs
    <3> QED
      BY <3>2, <3>3, <3>8 DEF p, q
  <2> HIDE DEF m1, m2, d
  <2>6. Path(w1, at(a), at(m1), at(m1), at(a))
    <3>1. Leads(SetType(t, x, b), at(a), at([a EXCEPT !.type = b.type]))
      <4>1. AllAgree(AtColumn(base, t, C, K, I, x, m1))
        BY <2>a
      <4> QED
        BY <1>4, <2>a, <4>1, ColumnAltered DEF m1, TypeChanges
    <3>2. Leads(SetType(t, x, a), at(m1), at([m1 EXCEPT !.type = a.type]))
      <4>1. AllAgree(AtColumn(base, t, C, K, I, x, a))
        OBVIOUS
      <4>2. Converts(m1.type, a.type)
        BY <1>4, <2>a DEF TypeChanges
      <4>3. AllAgree(AtColumn(base, t, C, K, I, x, [m1 EXCEPT !.type = a.type])) /\ ColumnFits([m1 EXCEPT !.type = a.type])
        BY <2>4, <4>1
      <4> QED
        BY <4>2, <4>3, ColumnAltered
    <3> HIDE DEF at
    <3> QED
      BY <1>2, <2>4, <2>5, <3>1, <3>2, WhenPath DEF m1
  <2>7. Path(w2, at(m1), at(m2), at(m2), at(m1))
    <3>1. ASSUME a.notNull # b.notNull
          PROVE  Leads(s2.up, at(m1), at(m2)) /\ Leads(s2.down, at(m2), at(m1))
      <4>1. m1.mode # "identity" /\ m2.mode # "identity" /\ \A k \in K : k.kind = "pk" => x \notin k.columns
        BY <1>4, <2>1, <3>1
      <4>2. Leads(SetNotNull(t, x, b), at(m1), at([m1 EXCEPT !.notNull = b.notNull]))
        BY <4>1, ColumnAltered
      <4>3. Leads(SetNotNull(t, x, a), at(m2), at([m2 EXCEPT !.notNull = a.notNull]))
        BY <4>1, ColumnAltered
      <4> HIDE DEF at
      <4> QED
        BY <1>2, <2>4, <4>2, <4>3 DEF m2
    <3> HIDE DEF at
    <3> QED
      BY <2>5, <3>1, WhenPath
  <2>8. Path(w3, at(m2), at(d), at(d), at(m2))
    <3>1. ASSUME a.default # b.default
          PROVE  Leads(s3.up, at(m2), at(d)) /\ Leads(s3.down, at(d), at(m2))
      <4>1. m2.mode = Plain /\ d.mode = Plain
        BY <1>4, <2>1, <3>1
      <4>2. Leads(SetDefault(t, x, b), at(m2), at([m2 EXCEPT !.default = StoredDefault(b.default)]))
        BY <2>a, <4>1, ColumnAltered
      <4>3. Leads(SetDefault(t, x, a), at(d), at([d EXCEPT !.default = StoredDefault(a.default)]))
        BY <2>a, <4>1, ColumnAltered
      <4> HIDE DEF at
      <4> QED
        BY <1>2, <2>3, <4>2, <4>3
    <3> HIDE DEF at
    <3> QED
      BY <2>5, <3>1, WhenPath
  <2> HIDE DEF at, w1, w2, w3
  <2>9. Path(w1 \o w2, at(a), at(m2), at(m2), at(a))
    BY <2>6, <2>7, PathsJoined
  <2>10. Path(w1 \o w2 \o w3, at(a), at(d), at(d), at(a))
    BY <2>8, <2>9, PathsJoined
  <2> QED
    BY <1>1, <1>4, <2>10 DEF at, d
<1> QED
  BY <1>3, <1>4

-----------------------------------------------------------------------------
(* The parts of what is done to a table that changes.                      *)

\* Indexes S as G defines them, in addition to I.
Plus(I, S, G) == [x \in DOMAIN I \cup S |-> IF x \in S THEN StoredIndex(G[x]) ELSE I[x]]

IndexSteps(t, S, G)  == [i \in 1 .. Cardinality(S) |->
                           CreateIndexStep(t, Ranked(S, [x \in S |-> 0])[i], G[Ranked(S, [x \in S |-> 0])[i]])]
IndexesUndone(t, S, G) == [i \in 1 .. Cardinality(S) |->
                           Undo(CreateIndexStep(t, Ranked(S, [x \in S |-> 0])[i], G[Ranked(S, [x \in S |-> 0])[i]]))]

\* Each foreign key to t has the constraint it needs.
KeysHold(base, t, K) ==
  \A f \in References(base, t, K) : \E k \in K : IsKey(k) /\ k.columns = Referred(f)

LEMMA IndexesPath ==
  ASSUME NEW base, Whole(base), NEW t \in DOMAIN base, NEW C, NEW K, NEW I, IsMap(I),
         NEW S, IsFiniteSet(S), NEW G,
         \A x \in S : x \notin DOMAIN I,
         \A x \in S : Unclaimed(base, t, K, x),
         \A x \in S : G[x].columns # {} /\ G[x].columns \subseteq DOMAIN C,
         KeysHold(base, t, K),
         NEW J, J = Plus(I, S, G)
  PROVE  /\ Path(IndexSteps(t, S, G), At(base, t, C, K, I), At(base, t, C, K, J),
                 At(base, t, C, K, J), At(base, t, C, K, I))
         /\ Path(IndexesUndone(t, S, G), At(base, t, C, K, J), At(base, t, C, K, I),
                 At(base, t, C, K, I), At(base, t, C, K, J))
<1> DEFINE rank == [x \in S |-> 0]
           F    == [x \in S |-> CreateIndexStep(t, x, G[x])]
           at   == [done \in SUBSET S |-> At(base, t, C, K, Plus(I, done, G))]
<1>1. rank \in [S -> Int]
  OBVIOUS
<1>2. ASSUME NEW done \in SUBSET S, NEW x \in S \ done
      PROVE  /\ Leads(F[x].up, at[done], at[done \cup {x}])
             /\ Leads(F[x].down, at[done \cup {x}], at[done])
  <2> DEFINE P == Plus(I, done, G)
             Q == Plus(I, done \cup {x}, G)
  <2>1. DOMAIN P = DOMAIN I \cup done /\ IsMap(P)
    BY DEF Plus, IsMap
  <2>2. Q = Extended(P, x, StoredIndex(G[x]))
    <3>1. (DOMAIN I \cup done) \cup {x} = DOMAIN I \cup (done \cup {x})
      OBVIOUS
    <3> QED
      BY <3>1 DEF Plus, Extended
  <2>3. at[done] = At(base, t, C, K, P) /\ at[done \cup {x}] = At(base, t, C, K, Q)
    <3>1. done \cup {x} \in SUBSET S
      OBVIOUS
    <3> QED
      BY <3>1
  <2>4. F[x].up = CreateIndex(t, x, G[x]) /\ F[x].down = DropIndex(x)
    BY DEF CreateIndexStep, Step
  <2> DEFINE i == G[x]
  <2>5. i.columns # {} /\ i.columns \subseteq DOMAIN C /\ x \notin DOMAIN P
    BY <2>1
  <2>6. Unclaimed(base, t, K, x)
    OBVIOUS
  <2> HIDE DEF P, Q, at, F, i
  <2>7. /\ Leads(CreateIndex(t, x, i), At(base, t, C, K, P), At(base, t, C, K, Q))
        /\ Leads(DropIndex(x), At(base, t, C, K, Q), At(base, t, C, K, P))
    <3>1. \A f \in References(base, t, K) : \E k \in K : IsKey(k) /\ k.columns = Referred(f)
      BY DEF KeysHold
    <3>2. Q = Extended(P, x, StoredIndex(i))
      BY <2>2 DEF i
    <3> QED
      BY <2>1, <2>5, <2>6, <3>1, <3>2, IndexComesAndGoes
  <2> QED
    BY <2>3, <2>4, <2>7 DEF i
<1>3. at[{}] = At(base, t, C, K, I) /\ at[S] = At(base, t, C, K, J)
  <2>1. {} \in SUBSET S /\ S \in SUBSET S
    OBVIOUS
  <2>2. Plus(I, {}, G) = I
    BY DEF Plus, IsMap
  <2> QED
    BY <2>1, <2>2
<1>4. \A i \in 1 .. Cardinality(S) : Ranked(S, rank)[i] \in S
  <2> HIDE DEF rank
  <2> QED
    BY <1>1, RankedElement
<1>5. IndexSteps(t, S, G) = StepsFor(S, rank, F) /\ IndexesUndone(t, S, G) = UndoneFor(S, rank, F)
  BY <1>4 DEF IndexSteps, IndexesUndone, StepsFor, UndoneFor
<1> HIDE DEF rank, F, at
<1>6. LeadOn(S, F, at)
  BY <1>2 DEF LeadOn
<1>7. /\ Path(StepsFor(S, rank, F), At(base, t, C, K, I), At(base, t, C, K, J),
              At(base, t, C, K, J), At(base, t, C, K, I))
      /\ Path(UndoneFor(S, rank, F), At(base, t, C, K, J), At(base, t, C, K, I),
              At(base, t, C, K, I), At(base, t, C, K, J))
  BY <1>1, <1>3, <1>6, ThereAndBack
<1> QED
  BY <1>5, <1>7

\* Constraints S as G defines them, in addition to K.
Joined(t, K, S, G) == K \cup {StoredConstraint(t, G[p]) : p \in S}

ConstraintSteps(t, S, rank, G)   == [i \in 1 .. Cardinality(S) |-> AddConstraintStep(t, G[Ranked(S, rank)[i]])]
ConstraintsUndone(t, S, rank, G) == [i \in 1 .. Cardinality(S) |-> Undo(AddConstraintStep(t, G[Ranked(S, rank)[i]]))]

\* The columns are there, and not null where a primary key needs it.
FitsColumns(C, c) ==
  /\ c.columns \cup c.check \subseteq DOMAIN C
  /\ c.kind = "pk" => \A x \in c.columns : C[x].notNull

\* A foreign key of t finds what it refers to.
FindsKey(base, t, K, c) ==
  c.kind = "fk" =>
    IF c.ref = t THEN \E k \in K : IsKey(k) /\ k.columns = Referred(c)
    ELSE c.ref \in DOMAIN base /\ HasConstraint(base, c.ref, Referred(c))

\* It can be compared with that, if t has the columns C.
FitsTypes(base, t, C, c) ==
  c.kind = "fk" =>
    \A x \in c.columns :
      LET there == IF c.ref = t THEN C ELSE base[c.ref].columns
      IN  <<C[x].type, there[c.refColumns[x]].type>> \in Comparable

LEMMA FitsIfItFinds ==
  ASSUME NEW base, NEW t \in DOMAIN base, NEW C, NEW K, NEW I, NEW c,
         FitsColumns(C, c), FindsKey(base, t, K, c), FitsTypes(base, t, C, c)
  PROVE  ConstraintFits(At(base, t, C, K, I), t, c)
<1> DEFINE cat == At(base, t, C, K, I)
<1>1. /\ DOMAIN cat = DOMAIN base /\ cat[t].columns = C /\ cat[t].constraints = K
      /\ \A u \in DOMAIN base \ {t} : cat[u] = base[u]
  BY DEF At
<1> HIDE DEF cat
<1>2. c.kind = "fk" => HasKey(cat, c.ref, Referred(c))
  BY <1>1 DEF FindsKey, HasKey, HasConstraint
<1>a. c.kind = "fk" => TypesAgree(cat, t, c)
  <2> SUFFICES ASSUME c.kind = "fk", NEW x \in c.columns
               PROVE  <<cat[t].columns[x].type, cat[c.ref].columns[c.refColumns[x]].type>> \in Comparable
    BY DEF TypesAgree
  <2>1. cat[c.ref].columns = IF c.ref = t THEN C ELSE base[c.ref].columns
    BY <1>1 DEF FindsKey
  <2> QED
    BY <1>1, <2>1 DEF FitsTypes
<1>3. ConstraintFits(cat, t, c)
  BY <1>1, <1>2, <1>a DEF ConstraintFits, FitsColumns
<1> QED
  BY <1>3 DEF cat

\* What is asked of the constraints of S.
CanJoin(base, t, C, K, I, S, G) ==
  /\ \A k \in K : DropName(t, k) = k.name
  /\ \A p \in S :
       /\ \A k \in K : k.name # DropName(t, G[p])
       /\ IsKey(G[p]) => FreeForKey(base, t, I, DropName(t, G[p]))
       /\ FitsColumns(C, StoredConstraint(t, G[p]))
       /\ FitsTypes(base, t, C, StoredConstraint(t, G[p]))
       /\ FindsKey(base, t, K, StoredConstraint(t, G[p]))
       /\ G[p].kind = "pk" => \A k \in K : k.kind # "pk"
       /\ IsKey(G[p]) => References(base, t, Joined(t, K, S, G)) = {}
  /\ \A p, q \in S :
       DropName(t, G[p]) = DropName(t, G[q]) \/ (G[p].kind = "pk" /\ G[q].kind = "pk") => p = q

LEMMA StoredName ==
  ASSUME NEW t, NEW c
  PROVE  DropName(t, StoredConstraint(t, c)) = StoredConstraint(t, c).name
BY StoredHasName DEF DropName

LEMMA ConstraintsPath ==
  ASSUME NEW base, NEW t \in DOMAIN base, NEW C, NEW K, NEW I,
         NEW S, IsFiniteSet(S), NEW rank, rank \in [S -> Int], NEW G,
         CanJoin(base, t, C, K, I, S, G), NEW L, L = Joined(t, K, S, G)
  PROVE  /\ Path(ConstraintSteps(t, S, rank, G), At(base, t, C, K, I), At(base, t, C, L, I),
                 At(base, t, C, L, I), At(base, t, C, K, I))
         /\ Path(ConstraintsUndone(t, S, rank, G), At(base, t, C, L, I), At(base, t, C, K, I),
                 At(base, t, C, K, I), At(base, t, C, L, I))
<1> DEFINE F  == [p \in S |-> AddConstraintStep(t, G[p])]
           at == [done \in SUBSET S |-> At(base, t, C, Joined(t, K, done, G), I)]
<1>1. ASSUME NEW done \in SUBSET S, NEW p \in S \ done
      PROVE  /\ Leads(F[p].up, at[done], at[done \cup {p}])
             /\ Leads(F[p].down, at[done \cup {p}], at[done])
  <2> DEFINE M == Joined(t, K, done, G)
             N == Joined(t, K, done \cup {p}, G)
             c == G[p]
             e == StoredConstraint(t, c)
  <2>1. N = With(M, e)
    BY DEF Joined, With
  <2>2. at[done] = At(base, t, C, M, I) /\ at[done \cup {p}] = At(base, t, C, N, I)
    <3>1. done \cup {p} \in SUBSET S
      OBVIOUS
    <3> QED
      BY <3>1
  <2>3. F[p].up = AddConstraint(t, c) /\ F[p].down = DropConstraint(t, c)
    BY DEF AddConstraintStep, Step
  <2>4. /\ \A k \in M : k.name # DropName(t, c) /\ DropName(t, k) = k.name
        /\ c.kind = "pk" => \A k \in M : k.kind # "pk"
    <3>1. ASSUME NEW k \in M
          PROVE  /\ k.name # DropName(t, c) /\ DropName(t, k) = k.name
                 /\ ~(c.kind = "pk" /\ k.kind = "pk")
      <4>1. CASE k \in K
        BY <4>1 DEF CanJoin
      <4>2. CASE k \notin K
        <5>1. PICK q \in done : k = StoredConstraint(t, G[q])
          BY <4>2 DEF Joined
        <5>2. k.name = DropName(t, G[q]) /\ k.kind = G[q].kind
          BY <5>1 DEF StoredConstraint
        <5>3. q \in S /\ q # p
          OBVIOUS
        <5>4. DropName(t, k) = k.name
          BY <5>1, StoredName
        <5> QED
          BY <5>2, <5>3, <5>4 DEF CanJoin
      <4> QED
        BY <4>1, <4>2
    <3> QED
      BY <3>1
  <2>5. K \subseteq M /\ M \subseteq L
    BY DEF Joined
  <2>6. FindsKey(base, t, M, e) /\ FitsColumns(C, e) /\ FitsTypes(base, t, C, e)
    <3>1. FindsKey(base, t, K, e) /\ FitsColumns(C, e) /\ FitsTypes(base, t, C, e)
      BY DEF CanJoin
    <3> HIDE DEF e, M
    <3> QED
      BY <2>5, <3>1 DEF FindsKey
  <2>7. IsKey(c) => References(base, t, M) = {}
    <3>1. IsKey(c) => References(base, t, L) = {}
      BY DEF CanJoin
    <3>2. References(base, t, M) \subseteq References(base, t, L)
      BY <2>5 DEF References
    <3> QED
      BY <3>1, <3>2
  <2>a. IsKey(c) => FreeForKey(base, t, I, DropName(t, c))
    BY DEF CanJoin
  <2> HIDE DEF M, N, at, F
  <2>8. ConstraintFits(At(base, t, C, M, I), t, e)
    <3> HIDE DEF e
    <3> QED
      BY <2>6, FitsIfItFinds
  <2> HIDE DEF c
  <2>9. /\ Leads(AddConstraint(t, c), At(base, t, C, M, I), At(base, t, C, N, I))
        /\ Leads(DropConstraint(t, c), At(base, t, C, N, I), At(base, t, C, M, I))
    BY <2>1, <2>4, <2>7, <2>8, <2>a, ConstraintComesAndGoes
  <2> QED
    BY <2>2, <2>3, <2>9
<1>2. At(base, t, C, K, I) = at[{}] /\ At(base, t, C, L, I) = at[S]
  <2>1. {} \in SUBSET S /\ S \in SUBSET S
    OBVIOUS
  <2>2. Joined(t, K, {}, G) = K
    BY DEF Joined
  <2> QED
    BY <2>1, <2>2
<1>3. \A i \in 1 .. Cardinality(S) : Ranked(S, rank)[i] \in S
  BY RankedElement
<1>4. ConstraintSteps(t, S, rank, G) = StepsFor(S, rank, F) /\ ConstraintsUndone(t, S, rank, G) = UndoneFor(S, rank, F)
  BY <1>3 DEF ConstraintSteps, ConstraintsUndone, StepsFor, UndoneFor
<1> HIDE DEF F, at
<1>5. LeadOn(S, F, at)
  BY <1>1 DEF LeadOn
<1>6. /\ Path(StepsFor(S, rank, F), At(base, t, C, K, I), At(base, t, C, L, I),
              At(base, t, C, L, I), At(base, t, C, K, I))
      /\ Path(UndoneFor(S, rank, F), At(base, t, C, L, I), At(base, t, C, K, I),
              At(base, t, C, K, I), At(base, t, C, L, I))
  BY <1>2, <1>5, ThereAndBack
<1> QED
  BY <1>4, <1>6

\* Columns S as G defines them, in addition to or instead of those of C.
Put(C, S, G) == [x \in DOMAIN C \cup S |-> IF x \in S THEN StoredColumn(G[x]) ELSE C[x]]

NewColumnSteps(t, S, G)  == [i \in 1 .. Cardinality(S) |->
                               AddColumnStep(t, Ranked(S, [x \in S |-> 0])[i], G[Ranked(S, [x \in S |-> 0])[i]])]
NewColumnsUndone(t, S, G) == [i \in 1 .. Cardinality(S) |->
                               Undo(AddColumnStep(t, Ranked(S, [x \in S |-> 0])[i], G[Ranked(S, [x \in S |-> 0])[i]]))]

LEMMA NewColumnsPath ==
  ASSUME NEW base, NEW t \in DOMAIN base, NEW C, NEW K, NEW I, IsMap(C), IsMap(I),
         NEW S, IsFiniteSet(S), NEW G,
         \A x \in S : x \notin DOMAIN C /\ Unused(base, t, K, I, x) /\ ColumnFits(StoredColumn(G[x])),
         NEW D, D = Put(C, S, G)
  PROVE  /\ Path(NewColumnSteps(t, S, G), At(base, t, C, K, I), At(base, t, D, K, I),
                 At(base, t, D, K, I), At(base, t, C, K, I))
         /\ Path(NewColumnsUndone(t, S, G), At(base, t, D, K, I), At(base, t, C, K, I),
                 At(base, t, C, K, I), At(base, t, D, K, I))
<1> DEFINE rank == [x \in S |-> 0]
           F    == [x \in S |-> AddColumnStep(t, x, G[x])]
           at   == [done \in SUBSET S |-> At(base, t, Put(C, done, G), K, I)]
<1>1. rank \in [S -> Int]
  OBVIOUS
<1>2. ASSUME NEW done \in SUBSET S, NEW x \in S \ done
      PROVE  /\ Leads(F[x].up, at[done], at[done \cup {x}])
             /\ Leads(F[x].down, at[done \cup {x}], at[done])
  <2> DEFINE P == Put(C, done, G)
             Q == Put(C, done \cup {x}, G)
             c == G[x]
  <2>1. DOMAIN P = DOMAIN C \cup done /\ IsMap(P)
    BY DEF Put, IsMap
  <2>2. Q = Extended(P, x, StoredColumn(c))
    <3>1. (DOMAIN C \cup done) \cup {x} = DOMAIN C \cup (done \cup {x})
      OBVIOUS
    <3> QED
      BY <3>1 DEF Put, Extended
  <2>3. at[done] = At(base, t, P, K, I) /\ at[done \cup {x}] = At(base, t, Q, K, I)
    <3>1. done \cup {x} \in SUBSET S
      OBVIOUS
    <3> QED
      BY <3>1
  <2>4. F[x].up = AddColumn(t, x, c) /\ F[x].down = DropColumn(t, x)
    BY DEF AddColumnStep, Step
  <2>5. x \notin DOMAIN P /\ Unused(base, t, K, I, x) /\ ColumnFits(StoredColumn(c))
    BY <2>1
  <2> HIDE DEF P, Q, at, F, c
  <2>6. /\ Leads(AddColumn(t, x, c), At(base, t, P, K, I), At(base, t, Q, K, I))
        /\ Leads(DropColumn(t, x), At(base, t, Q, K, I), At(base, t, P, K, I))
    BY <2>1, <2>2, <2>5, ColumnComesAndGoes
  <2> QED
    BY <2>3, <2>4, <2>6
<1>3. At(base, t, C, K, I) = at[{}] /\ At(base, t, D, K, I) = at[S]
  <2>1. {} \in SUBSET S /\ S \in SUBSET S
    OBVIOUS
  <2>2. Put(C, {}, G) = C
    BY DEF Put, IsMap
  <2> QED
    BY <2>1, <2>2
<1>4. \A i \in 1 .. Cardinality(S) : Ranked(S, rank)[i] \in S
  <2> HIDE DEF rank
  <2> QED
    BY <1>1, RankedElement
<1>5. NewColumnSteps(t, S, G) = StepsFor(S, rank, F) /\ NewColumnsUndone(t, S, G) = UndoneFor(S, rank, F)
  BY <1>4 DEF NewColumnSteps, NewColumnsUndone, StepsFor, UndoneFor
<1> HIDE DEF rank, F, at
<1>6. LeadOn(S, F, at)
  BY <1>2 DEF LeadOn
<1>7. /\ Path(StepsFor(S, rank, F), At(base, t, C, K, I), At(base, t, D, K, I),
              At(base, t, D, K, I), At(base, t, C, K, I))
      /\ Path(UndoneFor(S, rank, F), At(base, t, D, K, I), At(base, t, C, K, I),
              At(base, t, C, K, I), At(base, t, D, K, I))
  BY <1>1, <1>3, <1>6, ThereAndBack
<1> QED
  BY <1>5, <1>7

\* What a column that changes from a to b must be, K being the constraints and
\* I the indexes that stay.
CanChange(base, t, K, I, x, a, b) ==
  /\ IsColumn(a) /\ IsColumn(b) /\ a = StoredColumn(a)
  /\ a.mode # b.mode => Unused(base, t, K, I, x)
  /\ a.mode = b.mode /\ a.notNull # b.notNull =>
       a.mode # "identity" /\ \A k \in K : k.kind = "pk" => x \notin k.columns
  /\ a.mode = b.mode /\ a.default # b.default => a.mode = Plain
  /\ ColumnFits(a)
  /\ ColumnFits(b)
  /\ a.mode = b.mode => TypeChanges(a, b)

\* The types that column x of a table has, if it has the columns A or B.
TypesIn(A, x)        == IF x \in DOMAIN A THEN {A[x].type} ELSE {}
EitherType(A, B, x) == TypesIn(A, x) \cup TypesIn(B, x)

\* Foreign keys fit the types of their columns whichever columns of t, which
\* change from A to B, have changed already.
AgreeThroughout(base, t, K, I, A, B) ==
  \A Q : DOMAIN Q = DOMAIN B /\ (\A x \in DOMAIN Q : Q[x].type \in EitherType(A, B, x)) =>
    AllAgree(At(base, t, Q, K, I))

ColumnChanges(t, S, A, B) ==
  [i \in 1 .. Cardinality(S) |->
     ColumnChangeSteps(t, Ranked(S, [x \in S |-> 0])[i],
                       A[Ranked(S, [x \in S |-> 0])[i]], B[Ranked(S, [x \in S |-> 0])[i]])]

LEMMA StoredType ==
  ASSUME NEW c, IsColumn(c)
  PROVE  StoredColumn(c).type = c.type
<1> DEFINE notNull == IF c.mode = "identity" THEN TRUE ELSE c.notNull
           default == IF c.mode = Plain THEN StoredDefault(c.default) ELSE NotGiven
<1>1. StoredColumn(c) = [type |-> c.type, notNull |-> notNull, default |-> default, mode |-> c.mode]
  BY StoredColumnParts
<1> HIDE DEF notNull, default
<1> QED
  BY <1>1

LEMMA ColumnChangesPath ==
  ASSUME NEW base, NEW t \in DOMAIN base, NEW C, NEW K, NEW I, IsMap(C), IsMap(I),
         NEW S, S \subseteq DOMAIN C, IsFiniteSet(S), NEW A, NEW B,
         \A x \in S : A[x] = C[x] /\ CanChange(base, t, K, I, x, A[x], B[x]),
         S \subseteq DOMAIN A, DOMAIN C = DOMAIN B, \A x \in DOMAIN C : C[x].type \in EitherType(A, B, x),
         AgreeThroughout(base, t, K, I, A, B),
         NEW D, D = Put(C, S, B)
  PROVE  Path(FlattenSeq(ColumnChanges(t, S, A, B)), At(base, t, C, K, I), At(base, t, D, K, I),
              At(base, t, D, K, I), At(base, t, C, K, I))
<1> DEFINE rank == [x \in S |-> 0]
           F    == [x \in S |-> ColumnChangeSteps(t, x, A[x], B[x])]
           at   == [done \in SUBSET S |-> At(base, t, Put(C, done, B), K, I)]
           ss   == ColumnChanges(t, S, A, B)
<1>1. rank \in [S -> Int]
  OBVIOUS
<1>2. ASSUME NEW done \in SUBSET S, NEW x \in S \ done
      PROVE  Path(F[x], at[done], at[done \cup {x}], at[done \cup {x}], at[done])
  <2> DEFINE P == Put(C, done, B)
             a == A[x]
             b == B[x]
  <2>1. DOMAIN P = DOMAIN C /\ P[x] = a /\ IsMap(P)
    <3>1. DOMAIN C \cup done = DOMAIN C
      OBVIOUS
    <3> QED
      BY <3>1 DEF Put, IsMap
  <2>2. /\ at[done] = AtColumn(base, t, P, K, I, x, a)
        /\ at[done \cup {x}] = AtColumn(base, t, P, K, I, x, StoredColumn(b))
    <3>1. done \cup {x} \in SUBSET S /\ x \in DOMAIN P
      BY <2>1
    <3>2. [P EXCEPT ![x] = a] = P
      <4> HIDE DEF P, a
      <4> QED
        BY <2>1, <3>1 DEF IsMap
    <3>3. [P EXCEPT ![x] = StoredColumn(b)] = Put(C, done \cup {x}, B)
      <4>1. DOMAIN C \cup done = DOMAIN C /\ DOMAIN C \cup (done \cup {x}) = DOMAIN C
        OBVIOUS
      <4> QED
        BY <4>1 DEF Put
    <3> QED
      BY <3>1, <3>2, <3>3 DEF AtColumn
  <2>3. F[x] = ColumnChangeSteps(t, x, a, b) /\ x \in DOMAIN P
    BY <2>1
  <2>4. CanChange(base, t, K, I, x, a, b)
    OBVIOUS
  <2>a. \A y \in DOMAIN P : P[y].type \in EitherType(A, B, y)
    <3> SUFFICES ASSUME NEW y \in DOMAIN P PROVE P[y].type \in EitherType(A, B, y)
      OBVIOUS
    <3>1. y \in DOMAIN C
      BY <2>1
    <3>2. CASE y \in done
      <4>1. P[y] = StoredColumn(B[y]) /\ y \in DOMAIN B
        BY <3>1, <3>2 DEF Put
      <4>2. IsColumn(B[y])
        BY <3>2 DEF CanChange
      <4>3. P[y].type = B[y].type
        BY <4>1, <4>2, StoredType
      <4> QED
        BY <4>1, <4>3 DEF EitherType, TypesIn
    <3>3. CASE y \notin done
      <4>1. P[y] = C[y]
        BY <3>1, <3>3 DEF Put
      <4> QED
        BY <3>1, <4>1
    <3> QED
      BY <3>2, <3>3
  <2>b. a.type \in EitherType(A, B, x) /\ b.type \in EitherType(A, B, x)
    BY DEF EitherType, TypesIn
  <2>c. ASSUME NEW v, v.type \in {a.type, b.type} PROVE AllAgree(AtColumn(base, t, P, K, I, x, v))
    <3> DEFINE Q == [P EXCEPT ![x] = v]
    <3>1. DOMAIN Q = DOMAIN P /\ \A y \in DOMAIN P : Q[y] = IF y = x THEN v ELSE P[y]
      OBVIOUS
    <3>2. DOMAIN P = DOMAIN B
      BY <2>1
    <3> HIDE DEF P, Q, a, b
    <3>3. \A y \in DOMAIN Q : Q[y].type \in EitherType(A, B, y)
      BY <2>a, <2>b, <2>c, <3>1
    <3>4. AllAgree(At(base, t, Q, K, I))
      BY <3>1, <3>2, <3>3 DEF AgreeThroughout
    <3> QED
      BY <3>4 DEF AtColumn, Q
  <2> HIDE DEF P, a, b, at, F
  <2>5. LET from == AtColumn(base, t, P, K, I, x, a)
            to   == AtColumn(base, t, P, K, I, x, StoredColumn(b))
        IN  Path(ColumnChangeSteps(t, x, a, b), from, to, to, from)
    <3>1. /\ IsColumn(a) /\ IsColumn(b) /\ a = StoredColumn(a)
          /\ a.mode # b.mode => Unused(base, t, K, I, x)
          /\ a.mode = b.mode /\ a.notNull # b.notNull =>
               a.mode # "identity" /\ \A k \in K : k.kind = "pk" => x \notin k.columns
          /\ a.mode = b.mode /\ a.default # b.default => a.mode = Plain
          /\ ColumnFits(a) /\ ColumnFits(b)
          /\ a.mode = b.mode => TypeChanges(a, b)
      BY <2>4 DEF CanChange
    <3> QED
      BY <2>3, <2>c, <3>1, ColumnChangePath
  <2> QED
    BY <2>2, <2>3, <2>5
<1>3. At(base, t, C, K, I) = at[{}] /\ At(base, t, D, K, I) = at[S]
  <2>1. {} \in SUBSET S /\ S \in SUBSET S
    OBVIOUS
  <2>2. Put(C, {}, B) = C
    BY DEF Put, IsMap
  <2> QED
    BY <2>1, <2>2
<1>4. ss = [i \in 1 .. Cardinality(S) |-> F[Ranked(S, rank)[i]]]
  <2>1. \A i \in 1 .. Cardinality(S) : Ranked(S, rank)[i] \in S
    <3> HIDE DEF rank
    <3> QED
      BY <1>1, RankedElement
  <2> QED
    BY <2>1 DEF ColumnChanges
<1> HIDE DEF rank, F, at, ss
<1>5. Path(FlattenSeq(ss), at[{}], at[S], at[S], at[{}])
  BY <1>1, <1>2, <1>4, RankedPaths
<1> QED
  BY <1>3, <1>5 DEF ss

-----------------------------------------------------------------------------
(* The parts of TableDiffSteps.                                            *)

\* What both functions say.
Common(cur, des) == [x \in {y \in DOMAIN cur \cap DOMAIN des : cur[y] = des[y]} |-> cur[x]]

StoredIndexes(indexes) == [x \in DOMAIN indexes |-> StoredIndex(indexes[x])]
StoredColumns(columns) == [x \in DOMAIN columns |-> StoredColumn(columns[x])]

LEMMA DroppedIndexesPath ==
  ASSUME NEW base, Whole(base), NEW t \in DOMAIN base, NEW C, NEW K,
         NEW cur, NEW des, IsFiniteSet(DOMAIN cur), IsFiniteSet(DOMAIN des),
         cur = StoredIndexes(cur),
         \A x \in DOMAIN cur : Unclaimed(base, t, K, x),
         \A x \in DOMAIN cur : cur[x].columns # {} /\ cur[x].columns \subseteq DOMAIN C,
         KeysHold(base, t, K)
  PROVE  Path(DroppedIndexSteps(t, cur, des),
              At(base, t, C, K, cur), At(base, t, C, K, Common(cur, des)),
              At(base, t, C, K, Common(cur, des)), At(base, t, C, K, cur))
<1> DEFINE R == Removed(cur, des)
           H == Changed(cur, des)
           I == Common(cur, des)
           M == Plus(I, H, cur)
           s == IndexesUndone(t, R, cur)
           r == IndexesUndone(t, H, cur)
<1>1. DroppedIndexSteps(t, cur, des) = s \o r
  BY DEF DroppedIndexSteps, InAnyOrder, InOrder, IndexesUndone
<1>2. IsFiniteSet(R) /\ IsFiniteSet(H)
  BY DifferenceFinite
<1>3. /\ R \subseteq DOMAIN cur /\ H \subseteq DOMAIN cur
      /\ \A x \in H : x \notin DOMAIN I
      /\ \A x \in R : x \notin DOMAIN M
      /\ IsMap(I) /\ IsMap(M)
  BY DEF Removed, Changed, Common, Plus, IsMap
<1>4. cur = Plus(M, R, cur)
  <2>1. \A x \in DOMAIN cur : StoredIndex(cur[x]) = cur[x]
    BY DEF StoredIndexes
  <2>2. DOMAIN M \cup R = DOMAIN cur
    BY DEF Plus, Common, Changed, Removed
  <2>3. \A x \in DOMAIN M : M[x] = cur[x]
    BY <2>1 DEF Plus, Common, Changed
  <2>4. cur = [x \in DOMAIN cur |-> cur[x]]
    <3>1. cur = [x \in DOMAIN cur |-> StoredIndex(cur[x])]
      BY DEF StoredIndexes
    <3> QED
      BY <3>1
  <2> HIDE DEF M, R
  <2>5. Plus(M, R, cur) = [x \in DOMAIN cur |-> cur[x]]
    BY <2>1, <2>2, <2>3 DEF Plus
  <2> QED
    BY <2>4, <2>5
<1> HIDE DEF R, H, I, M, s, r
<1>5. Path(s, At(base, t, C, K, cur), At(base, t, C, K, M), At(base, t, C, K, M), At(base, t, C, K, cur))
  <2>1. \A x \in R : Unclaimed(base, t, K, x)
    BY <1>3
  <2>2. \A x \in R : cur[x].columns # {} /\ cur[x].columns \subseteq DOMAIN C
    BY <1>3
  <2> QED
    BY <1>2, <1>3, <1>4, <2>1, <2>2, IndexesPath DEF s
<1>6. Path(r, At(base, t, C, K, M), At(base, t, C, K, I), At(base, t, C, K, I), At(base, t, C, K, M))
  <2>1. \A x \in H : Unclaimed(base, t, K, x)
    BY <1>3
  <2>2. \A x \in H : cur[x].columns # {} /\ cur[x].columns \subseteq DOMAIN C
    BY <1>3
  <2>3. M = Plus(I, H, cur)
    BY DEF M
  <2> QED
    BY <1>2, <1>3, <2>1, <2>2, <2>3, IndexesPath DEF r
<1>7. Path(s \o r, At(base, t, C, K, cur), At(base, t, C, K, I), At(base, t, C, K, I), At(base, t, C, K, cur))
  BY <1>5, <1>6, PathsJoined
<1> QED
  BY <1>1, <1>7 DEF I

LEMMA CreatedIndexesPath ==
  ASSUME NEW base, Whole(base), NEW t \in DOMAIN base, NEW C, NEW K,
         NEW cur, NEW des, IsFiniteSet(DOMAIN cur), IsFiniteSet(DOMAIN des),
         cur = StoredIndexes(cur),
         \A x \in DOMAIN des : Unclaimed(base, t, K, x),
         \A x \in DOMAIN des : des[x].columns # {} /\ des[x].columns \subseteq DOMAIN C,
         KeysHold(base, t, K)
  PROVE  Path(CreatedIndexSteps(t, cur, des),
              At(base, t, C, K, Common(cur, des)), At(base, t, C, K, StoredIndexes(des)),
              At(base, t, C, K, StoredIndexes(des)), At(base, t, C, K, Common(cur, des)))
<1> DEFINE A == Added(cur, des)
           H == Changed(cur, des)
           I == Common(cur, des)
           M == Plus(I, H, des)
           J == StoredIndexes(des)
           s == IndexSteps(t, H, des)
           r == IndexSteps(t, A, des)
<1>1. CreatedIndexSteps(t, cur, des) = s \o r
  BY DEF CreatedIndexSteps, InAnyOrder, InOrder, IndexSteps
<1>2. IsFiniteSet(A) /\ IsFiniteSet(H)
  BY DifferenceFinite
<1>3. /\ A \subseteq DOMAIN des /\ H \subseteq DOMAIN des
      /\ \A x \in H : x \notin DOMAIN I
      /\ \A x \in A : x \notin DOMAIN M
      /\ IsMap(I) /\ IsMap(M)
  BY DEF Added, Changed, Common, Plus, IsMap
<1>4. J = Plus(M, A, des)
  <2>1. \A x \in DOMAIN cur : StoredIndex(cur[x]) = cur[x]
    BY DEF StoredIndexes
  <2>2. DOMAIN M \cup A = DOMAIN des
    BY DEF Plus, Common, Changed, Added
  <2>3. \A x \in DOMAIN M : M[x] = StoredIndex(des[x])
    BY <2>1 DEF Plus, Common, Changed
  <2> HIDE DEF M, A
  <2> QED
    BY <2>2, <2>3 DEF Plus, StoredIndexes
<1> HIDE DEF A, H, I, M, J, s, r
<1>5. Path(s, At(base, t, C, K, I), At(base, t, C, K, M), At(base, t, C, K, M), At(base, t, C, K, I))
  <2>1. \A x \in H : Unclaimed(base, t, K, x)
    BY <1>3
  <2>2. \A x \in H : des[x].columns # {} /\ des[x].columns \subseteq DOMAIN C
    BY <1>3
  <2>3. M = Plus(I, H, des)
    BY DEF M
  <2> QED
    BY <1>2, <1>3, <2>1, <2>2, <2>3, IndexesPath DEF s
<1>6. Path(r, At(base, t, C, K, M), At(base, t, C, K, J), At(base, t, C, K, J), At(base, t, C, K, M))
  <2>1. \A x \in A : Unclaimed(base, t, K, x)
    BY <1>3
  <2>2. \A x \in A : des[x].columns # {} /\ des[x].columns \subseteq DOMAIN C
    BY <1>3
  <2> QED
    BY <1>2, <1>3, <1>4, <2>1, <2>2, IndexesPath DEF r
<1>7. Path(s \o r, At(base, t, C, K, I), At(base, t, C, K, J), At(base, t, C, K, J), At(base, t, C, K, I))
  BY <1>5, <1>6, PathsJoined
<1> QED
  BY <1>1, <1>7 DEF I, J

\* What must be true of the constraints that t gets or loses, if it has those
\* of low in any case and those of top at most.
Between(base, t, C, I, low, top) ==
  /\ \A c, d \in top : c.name = d.name \/ (c.kind = "pk" /\ d.kind = "pk") => c = d
  /\ \A c \in top : DropName(t, c) = c.name
  /\ \A c \in top \ low : /\ FitsColumns(C, c)
                          /\ FitsTypes(base, t, C, c)
                          /\ FindsKey(base, t, low, c)
                          /\ IsKey(c) => FreeForKey(base, t, I, c.name)
                          /\ IsKey(c) => References(base, t, top) = {}

LEMMA JoinBetween ==
  ASSUME NEW base, NEW t, NEW C, NEW I, NEW low, NEW top, Between(base, t, C, I, low, top),
         NEW K, low \subseteq K, K \subseteq top, NEW S, NEW G,
         \A p \in S : StoredConstraint(t, G[p]) \in top \ K,
         \A p, q \in S : StoredConstraint(t, G[p]) = StoredConstraint(t, G[q]) => p = q
  PROVE  CanJoin(base, t, C, K, I, S, G)
<1> DEFINE e(p) == StoredConstraint(t, G[p])
<1>1. \A p \in S : e(p) \in top /\ e(p) \notin K /\ e(p) \notin low
  OBVIOUS
<1>2. \A p : e(p).name = DropName(t, G[p]) /\ e(p).kind = G[p].kind
  BY DEF StoredConstraint
<1>3. \A p : IsKey(e(p)) <=> IsKey(G[p])
  BY <1>2 DEF IsKey
<1>4. \A p, q \in S : e(p) = e(q) => p = q
  OBVIOUS
<1>5. References(base, t, Joined(t, K, S, G)) \subseteq References(base, t, top)
  <2>1. Joined(t, K, S, G) \subseteq top
    BY DEF Joined
  <2> QED
    BY <2>1 DEF References
<1> HIDE DEF e
<1>6. ASSUME NEW p \in S
      PROVE  /\ \A k \in K : k.name # DropName(t, G[p])
             /\ IsKey(G[p]) => FreeForKey(base, t, I, DropName(t, G[p]))
             /\ FitsColumns(C, e(p))
             /\ FitsTypes(base, t, C, e(p))
             /\ FindsKey(base, t, K, e(p))
             /\ G[p].kind = "pk" => \A k \in K : k.kind # "pk"
             /\ IsKey(G[p]) => References(base, t, Joined(t, K, S, G)) = {}
  <2>1. /\ FitsColumns(C, e(p)) /\ FitsTypes(base, t, C, e(p)) /\ FindsKey(base, t, low, e(p))
        /\ IsKey(e(p)) => References(base, t, top) = {}
        /\ IsKey(e(p)) => FreeForKey(base, t, I, e(p).name)
    BY <1>1 DEF Between
  <2>2. FindsKey(base, t, K, e(p))
    BY <2>1 DEF FindsKey
  <2>3. ASSUME NEW k \in K PROVE k.name # e(p).name /\ ~(k.kind = "pk" /\ e(p).kind = "pk")
    <3>1. k \in top /\ k # e(p) /\ e(p) \in top
      BY <1>1
    <3> QED
      BY <3>1 DEF Between
  <2> QED
    BY <1>2, <1>3, <1>5, <2>1, <2>2, <2>3
<1>7. ASSUME NEW p \in S, NEW q \in S,
             DropName(t, G[p]) = DropName(t, G[q]) \/ (G[p].kind = "pk" /\ G[q].kind = "pk")
      PROVE  p = q
  <2>1. e(p) \in top /\ e(q) \in top
    BY <1>1
  <2>2. e(p).name = e(q).name \/ (e(p).kind = "pk" /\ e(q).kind = "pk")
    BY <1>2, <1>7
  <2>3. e(p) = e(q)
    BY <2>1, <2>2 DEF Between
  <2> QED
    BY <1>4, <2>3
<1>8. \A k \in K : DropName(t, k) = k.name
  BY DEF Between
<1> QED
  BY <1>6, <1>7, <1>8 DEF CanJoin, e

\* A list of constraint steps leads from the constraints K to L, undone from L
\* to K.
LEMMA ConstraintsBetween ==
  ASSUME NEW base, NEW t \in DOMAIN base, NEW C, NEW I, NEW low, NEW top, Between(base, t, C, I, low, top),
         NEW K, low \subseteq K, K \subseteq top,
         NEW S, IsFiniteSet(S), NEW rank, rank \in [S -> Int], NEW G,
         \A p \in S : StoredConstraint(t, G[p]) \in top \ K,
         \A p, q \in S : StoredConstraint(t, G[p]) = StoredConstraint(t, G[q]) => p = q,
         NEW L, L = Joined(t, K, S, G)
  PROVE  /\ Path(ConstraintSteps(t, S, rank, G), At(base, t, C, K, I), At(base, t, C, L, I),
                 At(base, t, C, L, I), At(base, t, C, K, I))
         /\ Path(ConstraintsUndone(t, S, rank, G), At(base, t, C, L, I), At(base, t, C, K, I),
                 At(base, t, C, K, I), At(base, t, C, L, I))
<1>1. CanJoin(base, t, C, K, I, S, G)
  BY JoinBetween
<1> QED
  BY <1>1, ConstraintsPath

\* The changed pairs of which both say the same, and the others.
SamePairs(cur, des)  == ChangedConstraints(cur, des) \cap SemanticMatches(cur, des)
OtherPairs(cur, des) == ChangedConstraints(cur, des) \ SemanticMatches(cur, des)

LEMMA PairsFinite ==
  ASSUME NEW cur, NEW des, IsFiniteSet(cur), IsFiniteSet(des)
  PROVE  IsFiniteSet(SamePairs(cur, des)) /\ IsFiniteSet(OtherPairs(cur, des))
<1>1. SamePairs(cur, des) \in SUBSET ChangedConstraints(cur, des)
      /\ OtherPairs(cur, des) \in SUBSET ChangedConstraints(cur, des)
  BY DEF SamePairs, OtherPairs
<1> QED
  BY <1>1, ConstraintsFinite

LEMMA PairsAre ==
  ASSUME NEW cur, NEW des, OwnNames(cur), Twinless(des)
  PROVE  LET P == SamePairs(cur, des)
             Q == OtherPairs(cur, des)
         IN  /\ P \cap Q = {} /\ P \cup Q = ChangedConstraints(cur, des)
             /\ \A p \in P \cup Q : /\ p[1] \in cur /\ p[2] \in des
                                    /\ p[1] \notin RemovedConstraints(cur, des)
                                    /\ p[2] \notin AddedConstraints(cur, des)
             /\ \A p, q \in P \cup Q : p[1] = q[1] \/ p[2] = q[2] => p = q
<1>1. \A p \in ChangedConstraints(cur, des) : p \in Matches(cur, des)
  BY DEF ChangedConstraints
<1>2. \A p \in Matches(cur, des) : p[1] \notin RemovedConstraints(cur, des) /\ p[2] \notin AddedConstraints(cur, des)
  BY DEF RemovedConstraints, AddedConstraints
<1>3. \A p, q \in Matches(cur, des) : /\ p[1] \in cur /\ p[2] \in des
                                      /\ p[1] = q[1] \/ p[2] = q[2] => p = q
  BY OnePartner
<1>4. SamePairs(cur, des) \cap OtherPairs(cur, des) = {}
      /\ SamePairs(cur, des) \cup OtherPairs(cur, des) = ChangedConstraints(cur, des)
  BY DEF SamePairs, OtherPairs
<1> QED
  BY <1>1, <1>2, <1>3, <1>4

LEMMA DroppedConstraintsPath ==
  ASSUME NEW base, NEW t \in DOMAIN base, NEW C, NEW I,
         NEW cur, NEW des, IsFiniteSet(cur), IsFiniteSet(des), OwnNames(cur), Twinless(des),
         \A c \in cur \cup des : c.kind \in DOMAIN KindOrder,
         \A c \in cur : c = StoredConstraint(t, c),
         Between(base, t, C, I, Left(cur, des), cur)
  PROVE  Path(DroppedConstraintSteps(t, cur, des),
              At(base, t, C, cur, I), At(base, t, C, Left(cur, des), I),
              At(base, t, C, Left(cur, des), I), At(base, t, C, cur, I))
<1> DEFINE low == Left(cur, des)
           R   == RemovedConstraints(cur, des)
           P   == SamePairs(cur, des)
           Q   == OtherPairs(cur, des)
           gR  == [c \in R |-> c]
           gP  == [p \in P |-> p[1]]
           gQ  == [p \in Q |-> p[1]]
           rR  == [c \in R |-> KindOrder[c.kind]]
           rP  == [p \in P |-> KindOrder[p[2].kind]]
           rQ  == [p \in Q |-> KindOrder[p[2].kind]]
           K1  == Joined(t, low, Q, gQ)
           K2  == Joined(t, K1, P, gP)
           sR  == ConstraintsUndone(t, R, rR, gR)
           sP  == ConstraintsUndone(t, P, rP, gP)
           sQ  == ConstraintsUndone(t, Q, rQ, gQ)
<1>1. IsFiniteSet(R) /\ IsFiniteSet(P) /\ IsFiniteSet(Q)
  BY ConstraintsFinite, PairsFinite
<1>2. /\ P \cap Q = {} /\ P \cup Q = ChangedConstraints(cur, des)
      /\ \A p \in P \cup Q : p[1] \in cur /\ p[2] \in des /\ p[1] \notin R
      /\ \A p, q \in P \cup Q : p[1] = q[1] => p = q
  BY PairsAre
<1>3. R \subseteq cur
  BY DEF RemovedConstraints
<1>4. rR \in [R -> Int] /\ rP \in [P -> Int] /\ rQ \in [Q -> Int]
  <2>1. \A k \in DOMAIN KindOrder : KindOrder[k] \in Int
    BY DEF KindOrder
  <2> HIDE DEF R, P, Q
  <2> QED
    BY <1>2, <1>3, <2>1
<1>5. DroppedConstraintSteps(t, cur, des) = sR \o (sP \o sQ)
  <2> HIDE DEF rR, rP, rQ
  <2>1. /\ \A i \in 1 .. Cardinality(R) : Ranked(R, rR)[i] \in R
        /\ \A i \in 1 .. Cardinality(P) : Ranked(P, rP)[i] \in P
        /\ \A i \in 1 .. Cardinality(Q) : Ranked(Q, rQ)[i] \in Q
    <3> HIDE DEF R, P, Q
    <3> QED
      BY <1>1, <1>4, RankedElement
  <2>2. sR = [i \in 1 .. Cardinality(R) |-> Undo(AddConstraintStep(t, Ranked(R, rR)[i]))]
    <3> HIDE DEF R
    <3> QED
      BY <2>1 DEF ConstraintsUndone
  <2>3. sP = [i \in 1 .. Cardinality(P) |-> Undo(AddConstraintStep(t, Ranked(P, rP)[i][1]))]
    <3> HIDE DEF P
    <3> QED
      BY <2>1 DEF ConstraintsUndone
  <2>4. sQ = [i \in 1 .. Cardinality(Q) |-> Undo(AddConstraintStep(t, Ranked(Q, rQ)[i][1]))]
    <3> HIDE DEF Q
    <3> QED
      BY <2>1 DEF ConstraintsUndone
  <2>5. ByKind(R, LAMBDA c : Undo(AddConstraintStep(t, c))) = sR
    BY <2>2 DEF ByKind, InOrder, rR
  <2>6. PairsByKind(P, LAMBDA p : Undo(AddConstraintStep(t, p[1]))) = sP
    BY <2>3 DEF PairsByKind, InOrder, rP
  <2>7. PairsByKind(Q, LAMBDA p : Undo(AddConstraintStep(t, p[1]))) = sQ
    BY <2>4 DEF PairsByKind, InOrder, rQ
  <2>8. ForChanged(cur, des, LAMBDA p : Undo(AddConstraintStep(t, p[1]))) = sP \o sQ
    BY <2>6, <2>7 DEF ForChanged, SamePairs, OtherPairs
  <2> HIDE DEF sR, sP, sQ, R, P, Q
  <2> QED
    BY <2>5, <2>8 DEF DroppedConstraintSteps, R
<1>6. /\ \A c \in R : StoredConstraint(t, gR[c]) = c
      /\ \A p \in P : StoredConstraint(t, gP[p]) = p[1]
      /\ \A p \in Q : StoredConstraint(t, gQ[p]) = p[1]
  BY <1>2, <1>3
<1>7. /\ \A c : c \in K1 <=> c \in low \/ \E p \in Q : c = p[1]
      /\ \A c : c \in K2 <=> c \in K1 \/ \E p \in P : c = p[1]
      /\ \A c : c \in Joined(t, K2, R, gR) <=> c \in K2 \/ c \in R
  BY <1>6 DEF Joined
<1>8. \A c : c \in low <=> c \in cur /\ c \notin R /\ \A p \in P \cup Q : c # p[1]
  BY <1>2 DEF Left
<1> HIDE DEF low, R, P, Q, gR, gP, gQ, rR, rP, rQ, K1, K2, sR, sP, sQ
<1>9. low \subseteq K1 /\ K1 \subseteq K2 /\ K2 \subseteq cur
  BY <1>2, <1>7, <1>8
<1>10. Joined(t, K2, R, gR) = cur
  <2>1. \A c : c \in cur => c \in low \/ c \in R \/ \E p \in P \cup Q : c = p[1]
    BY <1>8
  <2> QED
    BY <1>3, <1>7, <1>9, <2>1
<1>11. Between(base, t, C, I, low, cur)
  BY DEF low
<1>12. Path(sQ, At(base, t, C, K1, I), At(base, t, C, low, I), At(base, t, C, low, I), At(base, t, C, K1, I))
  <2>1. \A p \in Q : StoredConstraint(t, gQ[p]) \in cur \ low
    BY <1>2, <1>6, <1>8
  <2>2. \A p, q \in Q : StoredConstraint(t, gQ[p]) = StoredConstraint(t, gQ[q]) => p = q
    BY <1>2, <1>6
  <2>3. low \subseteq cur /\ low \subseteq low /\ K1 = Joined(t, low, Q, gQ)
    BY <1>9 DEF K1
  <2> QED
    BY <1>1, <1>4, <1>11, <2>1, <2>2, <2>3, ConstraintsBetween DEF sQ
<1>13. Path(sP, At(base, t, C, K2, I), At(base, t, C, K1, I), At(base, t, C, K1, I), At(base, t, C, K2, I))
  <2>1. \A p \in P : StoredConstraint(t, gP[p]) \in cur \ K1
    <3>1. ASSUME NEW p \in P PROVE p[1] \in cur /\ p[1] \notin K1
      <4>1. \A q \in Q : q[1] # p[1]
        BY <1>2
      <4> QED
        BY <1>2, <1>7, <1>8, <4>1
    <3> QED
      BY <1>6, <3>1
  <2>2. \A p, q \in P : StoredConstraint(t, gP[p]) = StoredConstraint(t, gP[q]) => p = q
    BY <1>2, <1>6
  <2>3. low \subseteq K1 /\ K1 \subseteq cur /\ K2 = Joined(t, K1, P, gP)
    BY <1>9 DEF K2
  <2>4. IsFiniteSet(P) /\ rP \in [P -> Int]
    BY <1>1, <1>4
  <2>5. Path(ConstraintsUndone(t, P, rP, gP), At(base, t, C, K2, I), At(base, t, C, K1, I),
             At(base, t, C, K1, I), At(base, t, C, K2, I))
    BY <1>11, <2>1, <2>2, <2>3, <2>4, ConstraintsBetween
  <2> QED
    BY <2>5 DEF sP
<1>14. Path(sR, At(base, t, C, cur, I), At(base, t, C, K2, I), At(base, t, C, K2, I), At(base, t, C, cur, I))
  <2>1. \A c \in R : StoredConstraint(t, gR[c]) \in cur \ K2
    <3>1. ASSUME NEW c \in R PROVE c \in cur /\ c \notin K2
      BY <1>2, <1>3, <1>7, <1>8
    <3> QED
      BY <1>6, <3>1
  <2>2. \A c, d \in R : StoredConstraint(t, gR[c]) = StoredConstraint(t, gR[d]) => c = d
    BY <1>6
  <2>3. cur = Joined(t, K2, R, gR) /\ low \subseteq K2
    BY <1>9, <1>10
  <2> QED
    BY <1>1, <1>4, <1>9, <1>11, <2>1, <2>2, <2>3, ConstraintsBetween DEF sR
<1>15. Path(sP \o sQ, At(base, t, C, K2, I), At(base, t, C, low, I), At(base, t, C, low, I), At(base, t, C, K2, I))
  BY <1>12, <1>13, PathsJoined
<1>16. Path(sR \o (sP \o sQ), At(base, t, C, cur, I), At(base, t, C, low, I),
            At(base, t, C, low, I), At(base, t, C, cur, I))
  BY <1>14, <1>15, PathsJoined
<1> QED
  BY <1>5, <1>16 DEF low

\* What t has with the constraints that come.
WithComing(t, cur, des) ==
  Left(cur, des) \cup {StoredConstraint(t, d) : d \in Coming(cur, des)}

LEMMA AddedConstraintsPath ==
  ASSUME NEW base, NEW t \in DOMAIN base, NEW C, NEW I,
         NEW cur, NEW des, IsFiniteSet(cur), IsFiniteSet(des), OwnNames(cur), Twinless(des),
         \A c \in cur \cup des : c.kind \in DOMAIN KindOrder,
         NEW top, top = WithComing(t, cur, des),
         Between(base, t, C, I, Left(cur, des), top),
         \A d \in Coming(cur, des) : StoredConstraint(t, d) \notin Left(cur, des),
         \A d, e \in Coming(cur, des) : StoredConstraint(t, d) = StoredConstraint(t, e) => d = e
  PROVE  Path(AddedConstraintSteps(t, cur, des),
              At(base, t, C, Left(cur, des), I), At(base, t, C, top, I),
              At(base, t, C, top, I), At(base, t, C, Left(cur, des), I))
<1> DEFINE low == Left(cur, des)
           new == Coming(cur, des)
           A   == AddedConstraints(cur, des)
           P   == SamePairs(cur, des)
           Q   == OtherPairs(cur, des)
           gA  == [c \in A |-> c]
           gP  == [p \in P |-> p[2]]
           gQ  == [p \in Q |-> p[2]]
           rA  == [c \in A |-> KindOrder[c.kind]]
           rP  == [p \in P |-> KindOrder[p[2].kind]]
           rQ  == [p \in Q |-> KindOrder[p[2].kind]]
           K1  == Joined(t, low, P, gP)
           K2  == Joined(t, K1, Q, gQ)
           sA  == ConstraintSteps(t, A, rA, gA)
           sP  == ConstraintSteps(t, P, rP, gP)
           sQ  == ConstraintSteps(t, Q, rQ, gQ)
<1>1. IsFiniteSet(A) /\ IsFiniteSet(P) /\ IsFiniteSet(Q)
  BY ConstraintsFinite, PairsFinite
<1>2. /\ P \cap Q = {} /\ P \cup Q = ChangedConstraints(cur, des)
      /\ \A p \in P \cup Q : p[1] \in cur /\ p[2] \in des /\ p[2] \notin A
      /\ \A p, q \in P \cup Q : p[2] = q[2] => p = q
  BY PairsAre
<1>3. A \subseteq des
  BY DEF AddedConstraints
<1>4. rA \in [A -> Int] /\ rP \in [P -> Int] /\ rQ \in [Q -> Int]
  <2>1. \A k \in DOMAIN KindOrder : KindOrder[k] \in Int
    BY DEF KindOrder
  <2> HIDE DEF A, P, Q
  <2> QED
    BY <1>2, <1>3, <2>1
<1>5. AddedConstraintSteps(t, cur, des) = (sP \o sQ) \o sA
  <2> HIDE DEF rA, rP, rQ
  <2>1. /\ \A i \in 1 .. Cardinality(A) : Ranked(A, rA)[i] \in A
        /\ \A i \in 1 .. Cardinality(P) : Ranked(P, rP)[i] \in P
        /\ \A i \in 1 .. Cardinality(Q) : Ranked(Q, rQ)[i] \in Q
    <3> HIDE DEF A, P, Q
    <3> QED
      BY <1>1, <1>4, RankedElement
  <2>2. sA = [i \in 1 .. Cardinality(A) |-> AddConstraintStep(t, Ranked(A, rA)[i])]
    <3> HIDE DEF A
    <3> QED
      BY <2>1 DEF ConstraintSteps
  <2>3. sP = [i \in 1 .. Cardinality(P) |-> AddConstraintStep(t, Ranked(P, rP)[i][2])]
    <3> HIDE DEF P
    <3> QED
      BY <2>1 DEF ConstraintSteps
  <2>4. sQ = [i \in 1 .. Cardinality(Q) |-> AddConstraintStep(t, Ranked(Q, rQ)[i][2])]
    <3> HIDE DEF Q
    <3> QED
      BY <2>1 DEF ConstraintSteps
  <2>5. ByKind(A, LAMBDA c : AddConstraintStep(t, c)) = sA
    BY <2>2 DEF ByKind, InOrder, rA
  <2>6. PairsByKind(P, LAMBDA p : AddConstraintStep(t, p[2])) = sP
    BY <2>3 DEF PairsByKind, InOrder, rP
  <2>7. PairsByKind(Q, LAMBDA p : AddConstraintStep(t, p[2])) = sQ
    BY <2>4 DEF PairsByKind, InOrder, rQ
  <2>8. ForChanged(cur, des, LAMBDA p : AddConstraintStep(t, p[2])) = sP \o sQ
    BY <2>6, <2>7 DEF ForChanged, SamePairs, OtherPairs
  <2> HIDE DEF sA, sP, sQ, A, P, Q
  <2> QED
    BY <2>5, <2>8 DEF AddedConstraintSteps, A
<1>6. /\ \A c \in A : gA[c] = c
      /\ \A p \in P : gP[p] = p[2]
      /\ \A p \in Q : gQ[p] = p[2]
  OBVIOUS
<1>7. /\ \A c : c \in K1 <=> c \in low \/ \E p \in P : c = StoredConstraint(t, p[2])
      /\ \A c : c \in K2 <=> c \in K1 \/ \E p \in Q : c = StoredConstraint(t, p[2])
      /\ \A c : c \in Joined(t, K2, A, gA) <=> c \in K2 \/ \E d \in A : c = StoredConstraint(t, d)
  BY <1>6 DEF Joined
<1>8. \A d : d \in new <=> d \in A \/ \E p \in P \cup Q : d = p[2]
  BY <1>2 DEF Coming
<1>9. \A c : c \in top <=> c \in low \/ \E d \in new : c = StoredConstraint(t, d)
  BY DEF WithComing
<1>10. Between(base, t, C, I, low, top)
  OBVIOUS
<1>11. /\ \A d \in new : StoredConstraint(t, d) \notin low
       /\ \A d, e \in new : StoredConstraint(t, d) = StoredConstraint(t, e) => d = e
  OBVIOUS
<1> HIDE DEF low, new, A, P, Q, gA, gP, gQ, rA, rP, rQ, K1, K2, sA, sP, sQ
<1>12. low \subseteq K1 /\ K1 \subseteq K2 /\ K2 \subseteq top
  BY <1>7, <1>8, <1>9
<1>13. Joined(t, K2, A, gA) = top
  <2>1. \A c : c \in top => c \in K2 \/ \E d \in A : c = StoredConstraint(t, d)
    BY <1>7, <1>8, <1>9
  <2> QED
    BY <1>7, <1>8, <1>9, <1>12, <2>1
<1>14. Path(sP, At(base, t, C, low, I), At(base, t, C, K1, I), At(base, t, C, K1, I), At(base, t, C, low, I))
  <2>1. \A p \in P : StoredConstraint(t, gP[p]) \in top \ low
    BY <1>6, <1>8, <1>9, <1>11
  <2>2. \A p, q \in P : StoredConstraint(t, gP[p]) = StoredConstraint(t, gP[q]) => p = q
    BY <1>2, <1>6, <1>8, <1>11
  <2>3. low \subseteq top /\ low \subseteq low /\ K1 = Joined(t, low, P, gP)
    BY <1>12 DEF K1
  <2> QED
    BY <1>1, <1>4, <1>10, <2>1, <2>2, <2>3, ConstraintsBetween DEF sP
<1>15. Path(sQ, At(base, t, C, K1, I), At(base, t, C, K2, I), At(base, t, C, K2, I), At(base, t, C, K1, I))
  <2>1. \A p \in Q : StoredConstraint(t, gQ[p]) \in top \ K1
    <3>1. ASSUME NEW p \in Q PROVE StoredConstraint(t, p[2]) \in top /\ StoredConstraint(t, p[2]) \notin K1
      <4>1. p[2] \in new /\ \A q \in P : q[2] # p[2] /\ q[2] \in new
        BY <1>2, <1>8
      <4> QED
        BY <1>7, <1>9, <1>11, <4>1
    <3> QED
      BY <1>6, <3>1
  <2>2. \A p, q \in Q : StoredConstraint(t, gQ[p]) = StoredConstraint(t, gQ[q]) => p = q
    BY <1>2, <1>6, <1>8, <1>11
  <2>3. K1 \subseteq top /\ K2 = Joined(t, K1, Q, gQ)
    BY <1>12 DEF K2
  <2> QED
    BY <1>1, <1>4, <1>10, <1>12, <2>1, <2>2, <2>3, ConstraintsBetween DEF sQ
<1>16. Path(sA, At(base, t, C, K2, I), At(base, t, C, top, I), At(base, t, C, top, I), At(base, t, C, K2, I))
  <2>1. \A c \in A : StoredConstraint(t, gA[c]) \in top \ K2
    <3>1. ASSUME NEW c \in A PROVE StoredConstraint(t, c) \in top /\ StoredConstraint(t, c) \notin K2
      <4>1. c \in new /\ \A p \in P \cup Q : p[2] # c /\ p[2] \in new
        BY <1>2, <1>8
      <4> QED
        BY <1>7, <1>9, <1>11, <4>1
    <3> QED
      BY <1>6, <3>1
  <2>2. \A c, d \in A : StoredConstraint(t, gA[c]) = StoredConstraint(t, gA[d]) => c = d
    BY <1>6, <1>8, <1>11
  <2>3. top = Joined(t, K2, A, gA) /\ low \subseteq K2
    BY <1>12, <1>13
  <2> QED
    BY <1>1, <1>4, <1>10, <1>12, <2>1, <2>2, <2>3, ConstraintsBetween DEF sA
<1>17. Path(sP \o sQ, At(base, t, C, low, I), At(base, t, C, K2, I), At(base, t, C, K2, I), At(base, t, C, low, I))
  BY <1>14, <1>15, PathsJoined
<1>18. Path((sP \o sQ) \o sA, At(base, t, C, low, I), At(base, t, C, top, I),
            At(base, t, C, top, I), At(base, t, C, low, I))
  BY <1>16, <1>17, PathsJoined
<1> QED
  BY <1>5, <1>18 DEF low

LEMMA ColumnStepsPath ==
  ASSUME NEW base, NEW t \in DOMAIN base, NEW K, NEW I, IsMap(I),
         NEW cur, NEW des, IsFiniteSet(DOMAIN cur), IsFiniteSet(DOMAIN des),
         cur = StoredColumns(cur),
         \A x \in Removed(cur, des) \cup Added(cur, des) : Unused(base, t, K, I, x),
         \A x \in DOMAIN cur : IsColumn(cur[x]) /\ ColumnFits(StoredColumn(cur[x])),
         \A x \in DOMAIN des : IsColumn(des[x]) /\ ColumnFits(StoredColumn(des[x])),
         \A x \in Changed(cur, des) : CanChange(base, t, K, I, x, cur[x], des[x]),
         AgreeThroughout(base, t, K, I, cur, des)
  PROVE  Path(ColumnSteps(t, cur, des),
              At(base, t, cur, K, I), At(base, t, StoredColumns(des), K, I),
              At(base, t, StoredColumns(des), K, I), At(base, t, cur, K, I))
<1> DEFINE R  == Removed(cur, des)
           A  == Added(cur, des)
           H  == Changed(cur, des)
           M  == [x \in DOMAIN cur \cap DOMAIN des |-> cur[x]]
           N  == Put(M, A, des)
           D  == StoredColumns(des)
           sR == NewColumnsUndone(t, R, cur)
           sA == NewColumnSteps(t, A, des)
           sH == FlattenSeq(ColumnChanges(t, H, cur, des))
<1>1. ColumnSteps(t, cur, des) = (sR \o sA) \o sH
  BY DEF ColumnSteps, InAnyOrder, InOrder, NewColumnSteps, NewColumnsUndone, ColumnChanges
<1>2. IsFiniteSet(A) /\ IsFiniteSet(H) /\ IsFiniteSet(R)
  BY DifferenceFinite
<1>3. \A x \in DOMAIN cur : cur[x] = StoredColumn(cur[x])
  BY DEF StoredColumns
<1>4. /\ IsMap(M) /\ IsMap(N)
      /\ \A x \in R : x \notin DOMAIN M
      /\ \A x \in A : x \notin DOMAIN M
      /\ H \subseteq DOMAIN N
      /\ \A x \in H : cur[x] = N[x]
  BY DEF Removed, Added, Changed, Put, IsMap
<1>5. cur = Put(M, R, cur)
  <2>1. DOMAIN M \cup R = DOMAIN cur
    BY DEF Removed
  <2>2. \A x \in DOMAIN M : M[x] = cur[x]
    OBVIOUS
  <2>3. cur = [x \in DOMAIN cur |-> cur[x]]
    BY DEF StoredColumns
  <2> HIDE DEF M, R
  <2> QED
    BY <1>3, <2>1, <2>2, <2>3 DEF Put
<1>6. D = Put(N, H, des)
  <2>1. DOMAIN N = DOMAIN des /\ DOMAIN N \cup H = DOMAIN des
    BY DEF Put, Added, Changed
  <2>2. \A x \in DOMAIN des : x \notin H => N[x] = StoredColumn(des[x])
    BY <1>3 DEF Put, Added, Changed
  <2> HIDE DEF N, H
  <2> QED
    BY <2>1, <2>2 DEF Put, StoredColumns
<1>7. /\ \A x \in R : Unused(base, t, K, I, x) /\ ColumnFits(StoredColumn(cur[x]))
      /\ \A x \in A : Unused(base, t, K, I, x) /\ ColumnFits(StoredColumn(des[x]))
      /\ \A x \in H : CanChange(base, t, K, I, x, cur[x], des[x])
  BY DEF Removed, Added
<1>a. /\ DOMAIN N = DOMAIN des /\ H \subseteq DOMAIN cur
      /\ \A x \in DOMAIN N : N[x].type \in EitherType(cur, des, x)
  <2>1. DOMAIN N = DOMAIN des /\ H \subseteq DOMAIN cur
    BY DEF Put, Added, Changed
  <2>2. ASSUME NEW x \in DOMAIN des PROVE N[x].type \in EitherType(cur, des, x)
    <3>1. CASE x \in DOMAIN cur
      <4>1. N[x] = cur[x]
        BY <3>1 DEF Put, Added
      <4> QED
        BY <3>1, <4>1 DEF EitherType, TypesIn
    <3>2. CASE x \notin DOMAIN cur
      <4>1. N[x] = StoredColumn(des[x]) /\ IsColumn(des[x])
        BY <3>2 DEF Put, Added
      <4>2. N[x].type = des[x].type
        BY <4>1, StoredType
      <4> QED
        BY <4>2 DEF EitherType, TypesIn
    <3> QED
      BY <3>1, <3>2
  <2> QED
    BY <2>1, <2>2
<1> HIDE DEF R, A, H, M, N, D, sR, sA, sH
<1>8. Path(sR, At(base, t, cur, K, I), At(base, t, M, K, I), At(base, t, M, K, I), At(base, t, cur, K, I))
  BY <1>2, <1>4, <1>5, <1>7, NewColumnsPath DEF sR
<1>9. Path(sA, At(base, t, M, K, I), At(base, t, N, K, I), At(base, t, N, K, I), At(base, t, M, K, I))
  <2>1. N = Put(M, A, des)
    BY DEF N
  <2> QED
    BY <1>2, <1>4, <1>7, <2>1, NewColumnsPath DEF sA
<1>10. Path(sH, At(base, t, N, K, I), At(base, t, D, K, I), At(base, t, D, K, I), At(base, t, N, K, I))
  BY <1>2, <1>4, <1>6, <1>7, <1>a, ColumnChangesPath DEF sH
<1>11. Path(sR \o sA, At(base, t, cur, K, I), At(base, t, N, K, I), At(base, t, N, K, I), At(base, t, cur, K, I))
  BY <1>8, <1>9, PathsJoined
<1>12. Path((sR \o sA) \o sH, At(base, t, cur, K, I), At(base, t, D, K, I), At(base, t, D, K, I), At(base, t, cur, K, I))
  BY <1>10, <1>11, PathsJoined
<1> QED
  BY <1>1, <1>12 DEF D

-----------------------------------------------------------------------------
(* A table that changes.                                                   *)

\* What a table must be to be changed to or from.
FitTable(t, table) ==
  /\ IsTable(table)
  /\ FiniteTable(table)
  /\ \A x \in DOMAIN table.columns :
       /\ IsColumn(table.columns[x])
       /\ ColumnFits(table.columns[x])
       /\ table.columns[x].mode = "identity" => table.columns[x].notNull
       /\ table.columns[x].mode # Plain => table.columns[x].default = NotGiven
  /\ \A c \in table.constraints :
       IsConstraint(c) /\ FitsColumns(table.columns, StoredConstraint(t, c))
  /\ \A c, d \in table.constraints :
       DropName(t, c) = DropName(t, d) \/ (c.kind = "pk" /\ d.kind = "pk") => c = d
  /\ \A x \in DOMAIN table.indexes :
       table.indexes[x].columns \subseteq DOMAIN table.columns /\ table.indexes[x].columns # {}
  /\ DOMAIN table.indexes \cap KeyNames(t, table) = {}

\* It is as the catalog has it.
RecordedTable(t, table) ==
  /\ table.columns = StoredColumns(table.columns)
  /\ \A c \in table.constraints : c = StoredConstraint(t, c)
  /\ table.indexes = StoredIndexes(table.indexes)

LEMMA SameMeaning ==
  ASSUME NEW c, NEW d, IsConstraint(c), IsConstraint(d), SemanticKey(c) = SemanticKey(d)
  PROVE  /\ c.kind = d.kind /\ c.columns = d.columns /\ c.check = d.check
         /\ c.ref = d.ref /\ c.refColumns = d.refColumns
<1>1. ASSUME NEW e, IsConstraint(e)
      PROVE  SemanticKey(e) = [kind |-> e.kind, columns |-> e.columns, check |-> e.check,
                               ref |-> e.ref, refColumns |-> e.refColumns, name |-> Unnamed]
  <2>1. PICK f : f = e /\ f = [kind |-> e.kind, columns |-> e.columns, check |-> e.check,
                               ref |-> e.ref, refColumns |-> e.refColumns, name |-> e.name]
    BY <1>1 DEF IsConstraint
  <2>2. [f EXCEPT !.name = Unnamed] = [kind |-> e.kind, columns |-> e.columns, check |-> e.check,
                               ref |-> e.ref, refColumns |-> e.refColumns, name |-> Unnamed]
    BY <2>1
  <2> QED
    BY <2>1, <2>2 DEF SemanticKey
<1> DEFINE k == SemanticKey(c)
<1>2. /\ k.kind = c.kind /\ k.columns = c.columns /\ k.check = c.check /\ k.ref = c.ref /\ k.refColumns = c.refColumns
  BY <1>1
<1>3. /\ k.kind = d.kind /\ k.columns = d.columns /\ k.check = d.check /\ k.ref = d.ref /\ k.refColumns = d.refColumns
  BY <1>1
<1> QED
  BY <1>2, <1>3

LEMMA FitHasOwnNames ==
  ASSUME NEW t, NEW table, FitTable(t, table)
  PROVE  OwnNames(table.constraints) /\ \A c \in table.constraints : c.kind \in DOMAIN KindOrder
<1>1. \A c \in table.constraints : c.kind \in DOMAIN KindOrder
  BY DEF FitTable, IsConstraint
<1>2. ASSUME NEW c \in table.constraints, NEW d \in table.constraints, c.name # Unnamed, c.name = d.name
      PROVE  c = d
  <2>1. DropName(t, c) = DropName(t, d)
    BY <1>2 DEF DropName
  <2> QED
    BY <2>1 DEF FitTable
<1> QED
  BY <1>1, <1>2 DEF OwnNames

\* What is left of the old constraints is the same in the new ones.
LEMMA LeftIsShared ==
  ASSUME NEW t, NEW old, NEW new, FitTable(t, old), FitTable(t, new), Twinless(new.constraints),
         NEW c \in Left(old.constraints, new.constraints)
  PROVE  /\ c \in old.constraints
         /\ \E d \in new.constraints \ Coming(old.constraints, new.constraints) :
              /\ c.kind = d.kind /\ c.columns = d.columns /\ c.check = d.check
              /\ c.ref = d.ref /\ c.refColumns = d.refColumns
<1> DEFINE O == old.constraints
           N == new.constraints
<1>1. c \in O
  BY DEF Left
<1>2. OwnNames(O) /\ Twinless(N)
  BY FitHasOwnNames
<1>3. PICK d \in N \ Coming(O, N) : ~ConstraintChanged(c, d)
  <2> HIDE DEF O, N
  <2> QED
    BY <1>2, DiffIsComplete DEF O, N
<1>4. SemanticKey(c) = SemanticKey(d) /\ IsConstraint(c) /\ IsConstraint(d)
  BY <1>1, <1>3 DEF ConstraintChanged, FitTable
<1> QED
  BY <1>1, <1>3, <1>4, SameMeaning

\* All foreign keys to t before and after.
AllReferences(base, t, old, new) == References(base, t, old.constraints \cup new.constraints)

\* The types that column x of u has while t changes from old to new.
TypesAround(base, t, old, new, u, x) ==
  IF u = t THEN EitherType(old.columns, new.columns, x) ELSE {base[u].columns[x].type}

\* Foreign key c of u fits them all.
Compares(base, t, old, new, u, c) ==
  /\ c.ref \in DOMAIN base
  /\ DOMAIN c.refColumns = c.columns
  /\ \A x \in c.columns :
       TypesAround(base, t, old, new, u, x)
         \X TypesAround(base, t, old, new, c.ref, c.refColumns[x]) \subseteq Comparable

\* What the rest of the catalog must be when a table changes from old to new:
\* no name of an index or a key is taken, foreign keys find what they refer to
\* and fit its types, and the keys that are referred to are left alone.
Surrounds(base, t, old, new) ==
  LET O    == old.constraints
      N    == new.constraints
      refs == AllReferences(base, t, old, new)
  IN  /\ t \in DOMAIN base
      /\ Whole(base)
      /\ \A x \in RelationNames(t, old) \cup RelationNames(t, new) : ~Elsewhere(base, t, x)
      /\ \A u \in DOMAIN base \ {t} : \A c \in base[u].constraints :
           c.kind = "fk" => Compares(base, t, old, new, u, c)
      /\ \A c \in O \cup N : c.kind = "fk" => Compares(base, t, old, new, t, c)
      /\ \A c \in O \cup N : c.kind = "fk" /\ c.ref # t =>
           c.ref \in DOMAIN base /\ HasConstraint(base, c.ref, Referred(c))
      /\ \A f \in refs : \E k \in Left(O, N) : IsKey(k) /\ k.columns = Referred(f)
      /\ refs # {} => \A c \in (O \ Left(O, N)) \cup Coming(O, N) : ~IsKey(c)

\* What stays makes no use of a column that goes, comes or is replaced.
ColumnIsFree(table, x) ==
  /\ \A c \in table.constraints : ~UsesColumn(c, x)
  /\ \A i \in DOMAIN table.indexes : x \notin table.indexes[i].columns

\* As what is stored of a foreign key says the same as the foreign key.
LEMMA StoredReference ==
  ASSUME NEW t, NEW d
  PROVE  LET e == StoredConstraint(t, d)
         IN  /\ e.kind = d.kind /\ e.ref = d.ref /\ e.refColumns = d.refColumns /\ e.name = DropName(t, d)
             /\ Referred(e) = Referred(d)
             /\ IsKey(e) <=> IsKey(d)
             /\ e.kind = "fk" => e.columns = d.columns
BY DEF StoredConstraint, IsKey, Referred

\* Constraints that t may have in between.
Amid(base, t, old, new, K) ==
  /\ Surrounds(base, t, old, new)
  /\ \A c \in K : c \in old.constraints \/ \E d \in new.constraints : c = StoredConstraint(t, d)
  /\ Left(old.constraints, new.constraints) \subseteq K

LEMMA KeysStayThroughout ==
  ASSUME NEW base, NEW t, NEW old, NEW new, NEW K, Amid(base, t, old, new, K)
  PROVE  /\ KeysHold(base, t, K)
         /\ \A f \in References(base, t, K) :
              \E k \in Left(old.constraints, new.constraints) : IsKey(k) /\ k.columns = Referred(f)
         /\ References(base, t, K) # {} =>
              AllReferences(base, t, old, new) # {}
<1> DEFINE low  == Left(old.constraints, new.constraints)
           refs == AllReferences(base, t, old, new)
<1>1. \A f \in refs : \E k \in low : IsKey(k) /\ k.columns = Referred(f)
  BY DEF Surrounds, Amid
<1>2. ASSUME NEW f \in References(base, t, K)
      PROVE  \E g \in refs : Referred(g) = Referred(f)
  <2>1. CASE f \in K /\ f \notin old.constraints
    <3>1. PICK d \in new.constraints : f = StoredConstraint(t, d)
      BY <2>1 DEF Amid
    <3>2. d.kind = f.kind /\ d.ref = f.ref /\ Referred(d) = Referred(f)
      BY <3>1, StoredReference
    <3>3. d \in refs
      BY <3>2 DEF References, AllReferences
    <3> QED
      BY <3>2, <3>3
  <2>2. CASE ~(f \in K /\ f \notin old.constraints)
    <3>1. f \in refs
      BY <2>2 DEF References, AllReferences
    <3> QED
      BY <3>1
  <2> QED
    BY <2>1, <2>2
<1> HIDE DEF low, refs
<1>3. \A f \in References(base, t, K) : \E k \in low : IsKey(k) /\ k.columns = Referred(f)
  BY <1>1, <1>2
<1>4. low \subseteq K
  BY DEF low, Amid
<1>5. KeysHold(base, t, K)
  BY <1>3, <1>4 DEF KeysHold
<1>6. References(base, t, K) # {} => refs # {}
  BY <1>2
<1> QED
  BY <1>3, <1>5, <1>6 DEF low, refs

LEMMA FreeColumnUnused ==
  ASSUME NEW base, NEW t, NEW old, NEW new, FitTable(t, old), FitTable(t, new), Twinless(new.constraints),
         RecordedTable(t, old), Surrounds(base, t, old, new), NEW x,
         \/ x \notin DOMAIN old.columns
         \/ x \notin DOMAIN new.columns
         \/ ColumnIsFree(old, x) /\ ColumnIsFree(new, x)
  PROVE  Unused(base, t, Left(old.constraints, new.constraints), Common(old.indexes, new.indexes), x)
<1> DEFINE low == Left(old.constraints, new.constraints)
           I   == Common(old.indexes, new.indexes)
<1>1. ASSUME NEW c \in low PROVE ~UsesColumn(c, x)
  <2>1. PICK d \in new.constraints : /\ c \in old.constraints
                                     /\ c.kind = d.kind /\ c.columns = d.columns /\ c.check = d.check
    BY LeftIsShared
  <2>2. c = StoredConstraint(t, c)
    BY <2>1 DEF RecordedTable
  <2>3. c.columns \cup c.check \subseteq DOMAIN old.columns
    BY <2>1, <2>2 DEF FitTable, FitsColumns
  <2>4. c.kind = "ck" => c.columns = c.check
    BY <2>2 DEF StoredConstraint
  <2>5. StoredConstraint(t, d).columns = c.columns /\ StoredConstraint(t, d).check = c.check
    BY <2>1, <2>4 DEF StoredConstraint
  <2>6. c.columns \cup c.check \subseteq DOMAIN new.columns
    BY <2>5 DEF FitTable, FitsColumns
  <2> QED
    BY <2>1, <2>3, <2>6 DEF UsesColumn, ColumnIsFree
<1>2. ASSUME NEW y \in DOMAIN I PROVE x \notin I[y].columns
  <2>1. y \in DOMAIN old.indexes /\ y \in DOMAIN new.indexes /\ I[y] = old.indexes[y] /\ I[y] = new.indexes[y]
    BY DEF Common
  <2>2. I[y].columns \subseteq DOMAIN old.columns /\ I[y].columns \subseteq DOMAIN new.columns
    BY <2>1 DEF FitTable
  <2> QED
    BY <2>1, <2>2 DEF ColumnIsFree
<1>3. ASSUME NEW f \in References(base, t, low) PROVE x \notin Referred(f)
  <2>1. Amid(base, t, old, new, low)
    BY DEF Amid, Left
  <2> HIDE DEF low
  <2>2. \A g \in References(base, t, low) :
          \E k \in Left(old.constraints, new.constraints) : IsKey(k) /\ k.columns = Referred(g)
    BY <2>1, KeysStayThroughout
  <2>3. PICK k \in low : k.columns = Referred(f)
    BY <2>2 DEF low
  <2> QED
    BY <1>1, <2>3 DEF UsesColumn
<1> QED
  BY <1>1, <1>2, <1>3 DEF Unused

\* What a constraint of t asks of the types, if t has the columns C, which are
\* those of old or those of new.
LEMMA TypesFit ==
  ASSUME NEW base, NEW t \in DOMAIN base, NEW old, NEW new, NEW C, NEW c,
         c.kind = "fk" => Compares(base, t, old, new, t, c),
         \A x \in DOMAIN C : C[x].type \in EitherType(old.columns, new.columns, x),
         c.kind = "fk" => c.columns \subseteq DOMAIN C,
         c.kind = "fk" /\ c.ref = t => Referred(c) \subseteq DOMAIN C
  PROVE  FitsTypes(base, t, C, c)
<1> SUFFICES ASSUME c.kind = "fk", NEW x \in c.columns,
                    NEW there, there = IF c.ref = t THEN C ELSE base[c.ref].columns
             PROVE  <<C[x].type, there[c.refColumns[x]].type>> \in Comparable
  BY DEF FitsTypes
<1> DEFINE y == c.refColumns[x]
<1>1. y \in Referred(c)
  BY DEF Compares, Referred, Range
<1>2. TypesAround(base, t, old, new, t, x) \X TypesAround(base, t, old, new, c.ref, y) \subseteq Comparable
  BY DEF Compares
<1> HIDE DEF y
<1>3. C[x].type \in TypesAround(base, t, old, new, t, x)
  BY DEF TypesAround
<1>4. there[y].type \in TypesAround(base, t, old, new, c.ref, y)
  BY <1>1 DEF TypesAround
<1> QED
  BY <1>2, <1>3, <1>4 DEF y

\* What the constraints that stay refer to is there before and after.
LEMMA LeftFits ==
  ASSUME NEW t, NEW old, NEW new, FitTable(t, old), FitTable(t, new), Twinless(new.constraints),
         RecordedTable(t, old), NEW c \in Left(old.constraints, new.constraints)
  PROVE  c.columns \subseteq DOMAIN old.columns /\ c.columns \subseteq DOMAIN new.columns
<1>1. PICK d \in new.constraints : /\ c \in old.constraints
                                   /\ c.kind = d.kind /\ c.columns = d.columns /\ c.check = d.check
  BY LeftIsShared
<1>2. c = StoredConstraint(t, c)
  BY <1>1 DEF RecordedTable
<1>3. c.columns \subseteq DOMAIN old.columns
  BY <1>1, <1>2 DEF FitTable, FitsColumns
<1>4. c.kind = "ck" => c.columns = c.check
  BY <1>2 DEF StoredConstraint
<1>5. StoredConstraint(t, d).columns = c.columns
  BY <1>1, <1>4 DEF StoredConstraint
<1> QED
  BY <1>3, <1>5 DEF FitTable, FitsColumns

LEMMA TypesThroughout ==
  ASSUME NEW base, NEW t, NEW old, NEW new, FitTable(t, old), FitTable(t, new), Twinless(new.constraints),
         RecordedTable(t, old), Surrounds(base, t, old, new), NEW I
  PROVE  AgreeThroughout(base, t, Left(old.constraints, new.constraints), I, old.columns, new.columns)
<1> DEFINE low == Left(old.constraints, new.constraints)
<1> SUFFICES ASSUME NEW Q, DOMAIN Q = DOMAIN new.columns,
                    \A x \in DOMAIN Q : Q[x].type \in EitherType(old.columns, new.columns, x)
             PROVE  AllAgree(At(base, t, Q, low, I))
  BY DEF AgreeThroughout
<1> DEFINE cat == At(base, t, Q, low, I)
<1>1. /\ t \in DOMAIN base /\ DOMAIN cat = DOMAIN base /\ cat[t].columns = Q /\ cat[t].constraints = low
      /\ \A u \in DOMAIN base \ {t} : cat[u] = base[u]
  BY DEF At, Surrounds
<1>2. \A c \in low : c \in old.constraints /\ c.columns \subseteq DOMAIN new.columns
  BY LeftFits DEF Left
<1>3. \A f \in References(base, t, low) : \E k \in low : IsKey(k) /\ k.columns = Referred(f)
  <2>1. Amid(base, t, old, new, low)
    BY DEF Amid, Left
  <2> QED
    BY <2>1, KeysStayThroughout DEF KeysHold
<1> HIDE DEF cat, low
<1>4. ASSUME NEW u \in DOMAIN cat, NEW c \in cat[u].constraints, c.kind = "fk" PROVE TypesAgree(cat, u, c)
  <2>1. Compares(base, t, old, new, u, c)
    BY <1>1, <1>2, <1>4 DEF Surrounds
  <2>2. ASSUME c.ref = t PROVE Referred(c) \subseteq DOMAIN new.columns
    <3>1. c \in References(base, t, low)
      BY <1>1, <1>4, <2>2 DEF References
    <3> QED
      BY <1>2, <1>3, <3>1
  <2> SUFFICES ASSUME NEW x \in c.columns
               PROVE  <<cat[u].columns[x].type, cat[c.ref].columns[c.refColumns[x]].type>> \in Comparable
    BY DEF TypesAgree
  <2> DEFINE y == c.refColumns[x]
  <2>3. y \in Referred(c)
    BY <2>1 DEF Compares, Referred, Range
  <2>4. TypesAround(base, t, old, new, u, x) \X TypesAround(base, t, old, new, c.ref, y) \subseteq Comparable
    BY <2>1 DEF Compares
  <2> HIDE DEF y
  <2>5. cat[u].columns[x].type \in TypesAround(base, t, old, new, u, x)
    BY <1>1, <1>2 DEF TypesAround
  <2>6. cat[c.ref].columns[y].type \in TypesAround(base, t, old, new, c.ref, y)
    <3>1. c.ref \in DOMAIN base
      BY <2>1 DEF Compares
    <3> QED
      BY <1>1, <2>2, <2>3, <3>1 DEF TypesAround
  <2> QED
    BY <2>4, <2>5, <2>6 DEF y
<1>5. AllAgree(cat)
  BY <1>4 DEF AllAgree
<1> QED
  BY <1>5 DEF cat, low

\* No constraint that comes has the name of one that stays, nor has an index
\* the name of a key that stays.
NamesApart(t, old, new) ==
  \A c \in Left(old.constraints, new.constraints) :
    /\ \A d \in Coming(old.constraints, new.constraints) : c.name # DropName(t, d)
    /\ IsKey(c) => c.name \notin DOMAIN new.indexes

LEMMA OldConstraintsFit ==
  ASSUME NEW base, NEW t, NEW old, NEW new, FitTable(t, old),
         RecordedTable(t, old), Surrounds(base, t, old, new),
         NEW I, I = Common(old.indexes, new.indexes)
  PROVE  Between(base, t, old.columns, I, Left(old.constraints, new.constraints), old.constraints)
<1> DEFINE O   == old.constraints
           low == Left(O, new.constraints)
<1>1. \A c \in O : c = StoredConstraint(t, c)
  BY DEF RecordedTable
<1>2. \A c \in O : c.name = DropName(t, c)
  BY <1>1, StoredReference
<1>3. \A c, d \in O : c.name = d.name \/ (c.kind = "pk" /\ d.kind = "pk") => c = d
  BY <1>2 DEF FitTable
<1>4. Amid(base, t, old, new, O)
  BY DEF Amid, Left
<1>5. ASSUME NEW c \in O \ low
      PROVE  /\ FitsColumns(old.columns, c)
             /\ FitsTypes(base, t, old.columns, c)
             /\ FindsKey(base, t, low, c)
             /\ IsKey(c) => FreeForKey(base, t, I, c.name)
             /\ IsKey(c) => References(base, t, O) = {}
  <2>1. FitsColumns(old.columns, c)
    BY <1>1 DEF FitTable
  <2>2. ASSUME c.kind = "fk", c.ref = t PROVE \E k \in low : IsKey(k) /\ k.columns = Referred(c)
    <3>1. c \in AllReferences(base, t, old, new)
      BY <2>2 DEF AllReferences, References
    <3> QED
      BY <3>1 DEF Surrounds
  <2>3. c.kind = "fk" /\ c.ref # t => c.ref \in DOMAIN base /\ HasConstraint(base, c.ref, Referred(c))
    BY DEF Surrounds
  <2>4. FindsKey(base, t, low, c)
    BY <2>2, <2>3 DEF FindsKey
  <2>5. ASSUME IsKey(c) PROVE References(base, t, O) = {}
    <3>1. AllReferences(base, t, old, new) = {}
      BY <2>5 DEF Surrounds
    <3> HIDE DEF O
    <3> QED
      BY <1>4, <3>1, KeysStayThroughout
  <2>6. FitsTypes(base, t, old.columns, c)
    <3> DEFINE C == old.columns
    <3>1. \A x \in DOMAIN C : C[x].type \in EitherType(old.columns, new.columns, x)
      BY DEF EitherType, TypesIn
    <3>2. c.kind = "fk" => c.columns \subseteq DOMAIN C
      BY <2>1 DEF FitsColumns
    <3>3. ASSUME c.kind = "fk", c.ref = t PROVE Referred(c) \subseteq DOMAIN C
      <4>1. PICK k \in low : k.columns = Referred(c)
        BY <2>2, <3>3
      <4>2. k \in O /\ k = StoredConstraint(t, k)
        BY <1>1 DEF Left
      <4>3. FitsColumns(C, k)
        BY <4>2 DEF FitTable
      <4> QED
        BY <4>1, <4>3 DEF FitsColumns
    <3>4. t \in DOMAIN base /\ (c.kind = "fk" => Compares(base, t, old, new, t, c))
      BY DEF Surrounds
    <3> HIDE DEF C, O, low
    <3>5. FitsTypes(base, t, C, c)
      BY <3>1, <3>2, <3>3, <3>4, TypesFit
    <3> QED
      BY <3>5 DEF C
  <2>7. ASSUME IsKey(c) PROVE FreeForKey(base, t, I, c.name)
    <3>1. c.name \in KeyNames(t, old)
      BY <1>2, <2>7 DEF KeyNames
    <3>2. c.name \notin DOMAIN old.indexes
      BY <3>1 DEF FitTable
    <3>3. ~Elsewhere(base, t, c.name)
      BY <3>1 DEF Surrounds, RelationNames
    <3> QED
      BY <3>2, <3>3 DEF FreeForKey, Common
  <2> QED
    BY <2>1, <2>4, <2>5, <2>6, <2>7
<1> QED
  BY <1>2, <1>3, <1>5 DEF Between

LEMMA NewConstraintsFit ==
  ASSUME NEW base, NEW t, NEW old, NEW new, FitTable(t, old), FitTable(t, new), Twinless(new.constraints),
         RecordedTable(t, old), Surrounds(base, t, old, new), NamesApart(t, old, new),
         NEW D, D = StoredColumns(new.columns),
         NEW top, top = WithComing(t, old.constraints, new.constraints),
         NEW I, I = Common(old.indexes, new.indexes)
  PROVE  /\ Between(base, t, D, I, Left(old.constraints, new.constraints), top)
         /\ Amid(base, t, old, new, top)
<1> DEFINE O    == old.constraints
           N    == new.constraints
           low  == Left(O, N)
           come == Coming(O, N)
<1>1. \A c : c \in top <=> c \in low \/ \E d \in come : c = StoredConstraint(t, d)
  BY DEF WithComing
<1>2. low \subseteq O /\ come \subseteq N
  <2>1. OwnNames(O) /\ Twinless(N)
    BY FitHasOwnNames
  <2> HIDE DEF O, N
  <2>2. come \subseteq N
    BY <2>1, DiffIsComplete
  <2> QED
    BY <2>2 DEF Left
<1>3. Amid(base, t, old, new, top)
  <2>1. \A c \in top : c \in old.constraints \/ \E d \in new.constraints : c = StoredConstraint(t, d)
    BY <1>1, <1>2
  <2>2. Left(old.constraints, new.constraints) \subseteq top
    BY <1>1
  <2> QED
    BY <2>1, <2>2 DEF Amid
<1>4. \A c \in low : c.name = DropName(t, c) /\ c \in O
  <2>1. \A c \in O : c = StoredConstraint(t, c)
    BY DEF RecordedTable
  <2> QED
    BY <1>2, <2>1, StoredReference
<1>5. ASSUME NEW c \in low, NEW d \in come PROVE ~(c.kind = "pk" /\ d.kind = "pk")
  <2>1. PICK e \in N \ come : c.kind = e.kind
    BY LeftIsShared
  <2>2. d \in N /\ e # d
    BY <1>2, <2>1
  <2> QED
    BY <2>1, <2>2 DEF FitTable
<1>6. \A c \in low, d \in come : c.name # DropName(t, d)
  BY DEF NamesApart
<1>7. \A c, d \in low : c.name = d.name \/ (c.kind = "pk" /\ d.kind = "pk") => c = d
  <2>1. \A c, d \in O : DropName(t, c) = DropName(t, d) \/ (c.kind = "pk" /\ d.kind = "pk") => c = d
    BY DEF FitTable
  <2> HIDE DEF O, low
  <2> QED
    BY <1>4, <2>1
<1>8. \A c, d \in come : DropName(t, c) = DropName(t, d) \/ (c.kind = "pk" /\ d.kind = "pk") => c = d
  <2>1. \A c, d \in N : DropName(t, c) = DropName(t, d) \/ (c.kind = "pk" /\ d.kind = "pk") => c = d
    BY DEF FitTable
  <2> HIDE DEF N, come
  <2> QED
    BY <1>2, <2>1
<1>a. \A c \in low : c.columns \subseteq DOMAIN new.columns
  BY LeftFits
<1>b. \A c \in top : DropName(t, c) = c.name
  BY <1>1, <1>4, StoredName
<1> HIDE DEF low, come
<1>9. ASSUME NEW c \in top, NEW d \in top, c.name = d.name \/ (c.kind = "pk" /\ d.kind = "pk")
      PROVE  c = d
  <2>1. CASE c \in low /\ d \in low
    BY <1>7, <1>9, <2>1
  <2>2. CASE c \in low /\ d \notin low
    <3>1. PICK e \in come : d = StoredConstraint(t, e)
      BY <1>1, <2>2
    <3>2. d.name = DropName(t, e) /\ d.kind = e.kind
      BY <3>1, StoredReference
    <3> QED
      BY <1>5, <1>6, <1>9, <2>2, <3>2
  <2>3. CASE c \notin low /\ d \in low
    <3>1. PICK e \in come : c = StoredConstraint(t, e)
      BY <1>1, <2>3
    <3>2. c.name = DropName(t, e) /\ c.kind = e.kind
      BY <3>1, StoredReference
    <3> QED
      BY <1>5, <1>6, <1>9, <2>3, <3>2
  <2>4. CASE c \notin low /\ d \notin low
    <3>1. PICK e \in come : c = StoredConstraint(t, e)
      BY <1>1, <2>4
    <3>2. PICK f \in come : d = StoredConstraint(t, f)
      BY <1>1, <2>4
    <3>3. c.name = DropName(t, e) /\ c.kind = e.kind /\ d.name = DropName(t, f) /\ d.kind = f.kind
      BY <3>1, <3>2, StoredReference
    <3>4. e = f
      BY <1>8, <1>9, <3>3
    <3> QED
      BY <3>1, <3>2, <3>4
  <2> QED
    BY <2>1, <2>2, <2>3, <2>4
<1>10. ASSUME NEW c \in top \ low
       PROVE  /\ FitsColumns(D, c)
              /\ FitsTypes(base, t, D, c)
              /\ FindsKey(base, t, low, c)
              /\ IsKey(c) => FreeForKey(base, t, I, c.name)
              /\ IsKey(c) => References(base, t, top) = {}
  <2>1. PICK d \in come : c = StoredConstraint(t, d)
    BY <1>1
  <2>2. /\ d \in N /\ c.kind = d.kind /\ c.ref = d.ref /\ c.refColumns = d.refColumns
        /\ Referred(c) = Referred(d) /\ c.name = DropName(t, d)
        /\ IsKey(c) <=> IsKey(d)
        /\ c.kind = "fk" => c.columns = d.columns
    BY <1>2, <2>1, StoredReference
  <2>3. FitsColumns(D, c)
    <3>1. FitsColumns(new.columns, c)
      BY <2>1, <2>2 DEF FitTable
    <3>2. DOMAIN D = DOMAIN new.columns
      BY DEF StoredColumns
    <3>3. ASSUME NEW x \in DOMAIN new.columns PROVE new.columns[x].notNull => D[x].notNull
      <4>1. IsColumn(new.columns[x]) /\ D[x] = StoredColumn(new.columns[x])
        BY DEF FitTable, StoredColumns
      <4> DEFINE v == new.columns[x]
      <4> HIDE DEF v
      <4>2. IsColumn(v) /\ D[x] = StoredColumn(v)
        BY <4>1 DEF v
      <4>3. v.notNull => StoredColumn(v).notNull
        BY <4>2, ColumnStored
      <4> QED
        BY <4>2, <4>3 DEF v
    <3> QED
      BY <3>1, <3>2, <3>3 DEF FitsColumns
  <2>4. ASSUME d.kind = "fk", d.ref = t PROVE \E k \in low : IsKey(k) /\ k.columns = Referred(d)
    <3>1. d \in AllReferences(base, t, old, new)
      BY <2>2, <2>4 DEF AllReferences, References
    <3> QED
      BY <3>1 DEF Surrounds, low
  <2>5. d.kind = "fk" /\ d.ref # t => d.ref \in DOMAIN base /\ HasConstraint(base, d.ref, Referred(d))
    BY <2>2 DEF Surrounds
  <2>6. FindsKey(base, t, low, c)
    BY <2>2, <2>4, <2>5 DEF FindsKey
  <2>7. ASSUME IsKey(c) PROVE References(base, t, top) = {}
    <3>1. IsKey(d) /\ d \in come
      BY <2>2, <2>7
    <3>2. AllReferences(base, t, old, new) = {}
      BY <3>1 DEF Surrounds, come
    <3> QED
      BY <1>3, <3>2, KeysStayThroughout
  <2>8. FitsTypes(base, t, D, c)
    <3>1. DOMAIN D = DOMAIN new.columns
      BY DEF StoredColumns
    <3>2. ASSUME NEW x \in DOMAIN D PROVE D[x].type \in EitherType(old.columns, new.columns, x)
      <4> DEFINE v == new.columns[x]
      <4>1. IsColumn(v) /\ D[x] = StoredColumn(v)
        BY <3>1 DEF FitTable, StoredColumns
      <4> HIDE DEF v
      <4>2. D[x].type = v.type
        BY <4>1, StoredType
      <4> QED
        BY <3>1, <4>2 DEF EitherType, TypesIn, v
    <3>3. c.kind = "fk" => c.columns \subseteq DOMAIN D
      BY <2>3 DEF FitsColumns
    <3>4. c.kind = "fk" /\ c.ref = t => Referred(c) \subseteq DOMAIN D
      BY <1>a, <2>2, <2>4, <3>1
    <3>5. t \in DOMAIN base /\ (d.kind = "fk" => Compares(base, t, old, new, t, d))
      BY <2>2 DEF Surrounds
    <3>6. c.kind = "fk" => Compares(base, t, old, new, t, c)
      BY <2>2, <3>5 DEF Compares
    <3> HIDE DEF N
    <3> QED
      BY <3>2, <3>3, <3>4, <3>5, <3>6, TypesFit
  <2>9. ASSUME IsKey(c) PROVE FreeForKey(base, t, I, c.name)
    <3>1. c.name \in KeyNames(t, new)
      BY <2>2, <2>9 DEF KeyNames
    <3>2. c.name \notin DOMAIN new.indexes
      BY <3>1 DEF FitTable
    <3>3. ~Elsewhere(base, t, c.name)
      BY <3>1 DEF Surrounds, RelationNames
    <3> QED
      BY <3>2, <3>3 DEF FreeForKey, Common
  <2> QED
    BY <2>3, <2>6, <2>7, <2>8, <2>9
<1>11. Between(base, t, D, I, low, top)
  BY <1>9, <1>10, <1>b DEF Between
<1> QED
  BY <1>3, <1>11 DEF low

\* A column with another mode is dropped and added again: nothing may use it.
ReplacedAreFree(old, new) ==
  \A x \in Changed(old.columns, new.columns) :
    old.columns[x].mode # new.columns[x].mode => ColumnIsFree(old, x) /\ ColumnIsFree(new, x)

\* The types of the others are converted there and back.
TypesChange(old, new) ==
  \A x \in Changed(old.columns, new.columns) :
    old.columns[x].mode = new.columns[x].mode => TypeChanges(old.columns[x], new.columns[x])

LEMMA ColumnsCanChange ==
  ASSUME NEW base, NEW t, NEW old, NEW new, FitTable(t, old), FitTable(t, new), Twinless(new.constraints),
         RecordedTable(t, old), Surrounds(base, t, old, new), ReplacedAreFree(old, new), TypesChange(old, new),
         NEW x \in Changed(old.columns, new.columns)
  PROVE  CanChange(base, t, Left(old.constraints, new.constraints), Common(old.indexes, new.indexes), x,
                   old.columns[x], new.columns[x])
<1> DEFINE low == Left(old.constraints, new.constraints)
           I   == Common(old.indexes, new.indexes)
           a   == old.columns[x]
           b   == new.columns[x]
<1>1. x \in DOMAIN old.columns /\ x \in DOMAIN new.columns
  BY DEF Changed
<1>2. IsColumn(a) /\ IsColumn(b)
  BY <1>1 DEF FitTable
<1>3. a = StoredColumn(a)
  BY <1>1 DEF RecordedTable, StoredColumns
<1>4. a.mode # b.mode => Unused(base, t, low, I, x)
  <2>1. a.mode # b.mode => ColumnIsFree(old, x) /\ ColumnIsFree(new, x)
    BY DEF ReplacedAreFree
  <2> HIDE DEF a, b
  <2> QED
    BY <2>1, FreeColumnUnused
<1>5. /\ a.mode = "identity" => a.notNull
      /\ b.mode = "identity" => b.notNull
      /\ a.mode # Plain => a.default = NotGiven
      /\ b.mode # Plain => b.default = NotGiven
  BY <1>1 DEF FitTable
<1>6. ASSUME NEW k \in low, k.kind = "pk", x \in k.columns PROVE a.notNull /\ b.notNull
  <2>1. PICK d \in new.constraints : /\ k \in old.constraints
                                     /\ k.kind = d.kind /\ k.columns = d.columns
    BY LeftIsShared
  <2>2. k = StoredConstraint(t, k) /\ FitsColumns(old.columns, StoredConstraint(t, k))
    BY <2>1 DEF FitTable, RecordedTable
  <2>3. FitsColumns(new.columns, StoredConstraint(t, d))
    BY DEF FitTable
  <2>4. StoredConstraint(t, d).columns = d.columns /\ StoredConstraint(t, d).kind = d.kind
    BY <1>6, <2>1 DEF StoredConstraint
  <2> QED
    BY <1>6, <2>1, <2>2, <2>3, <2>4 DEF FitsColumns
<1>7. a.notNull \in BOOLEAN /\ b.notNull \in BOOLEAN
  BY <1>2 DEF IsColumn
<1>a. ColumnFits(a) /\ ColumnFits(b)
  BY <1>1 DEF FitTable
<1>b. a.mode = b.mode => TypeChanges(a, b)
  BY DEF TypesChange
<1> HIDE DEF a, b, low, I
<1>8. a.mode = b.mode /\ a.notNull # b.notNull =>
        a.mode # "identity" /\ \A k \in low : k.kind = "pk" => x \notin k.columns
  BY <1>5, <1>6, <1>7
<1>9. a.mode = b.mode /\ a.default # b.default => a.mode = Plain
  BY <1>5
<1>10. CanChange(base, t, low, I, x, a, b)
  BY <1>2, <1>3, <1>4, <1>8, <1>9, <1>a, <1>b DEF CanChange
<1> QED
  BY <1>10 DEF a, b, low, I

\* Table t of the catalog is this one.
AtTable(base, t, table) == At(base, t, table.columns, table.constraints, table.indexes)

\* What a table that changes from old to new is in the end.
TableAfter(t, old, new) ==
  Table(StoredColumns(new.columns), WithComing(t, old.constraints, new.constraints), StoredIndexes(new.indexes))

\* The steps for a table that changes lead there and back, if the types that
\* are changed, which is done without USING, convert by themselves in both
\* directions, in a catalog that has the keys which foreign keys need, with
\* types they fit, and where no index or key has the names: the indexes and
\* constraints are out of the way before the columns change, and what is added
\* finds the columns it is about.
THEOREM TableChangesAndBack ==
  ASSUME NEW base, NEW t, NEW old, NEW new, FitTable(t, old), FitTable(t, new), Twinless(new.constraints),
         RecordedTable(t, old), Surrounds(base, t, old, new), ReplacedAreFree(old, new),
         TypesChange(old, new), NamesApart(t, old, new), NEW after, after = TableAfter(t, old, new)
  PROVE  Path(TableDiffSteps(t, old, new), AtTable(base, t, old), AtTable(base, t, after),
              AtTable(base, t, after), AtTable(base, t, old))
<1> DEFINE O   == old.constraints
           N   == new.constraints
           C   == old.columns
           D   == StoredColumns(new.columns)
           low == Left(O, N)
           top == WithComing(t, O, N)
           I   == old.indexes
           M   == Common(old.indexes, new.indexes)
           J   == StoredIndexes(new.indexes)
           s1  == DroppedIndexSteps(t, I, new.indexes)
           s2  == DroppedConstraintSteps(t, O, N)
           s3  == ColumnSteps(t, C, new.columns)
           s4  == AddedConstraintSteps(t, O, N)
           s5  == CreatedIndexSteps(t, I, new.indexes)
<1>1. TableDiffSteps(t, old, new) = (((s1 \o s2) \o s3) \o s4) \o s5
  BY DEF TableDiffSteps
<1>2. /\ IsFiniteSet(DOMAIN C) /\ IsFiniteSet(DOMAIN new.columns)
      /\ IsFiniteSet(O) /\ IsFiniteSet(N)
      /\ IsFiniteSet(DOMAIN I) /\ IsFiniteSet(DOMAIN new.indexes)
  BY DEF FitTable, FiniteTable
<1>3. /\ OwnNames(O) /\ Twinless(N) /\ \A c \in O \cup N : c.kind \in DOMAIN KindOrder
  BY FitHasOwnNames
<1>4. /\ C = StoredColumns(C) /\ I = StoredIndexes(I) /\ \A c \in O : c = StoredConstraint(t, c)
  BY DEF RecordedTable
<1>5. /\ t \in DOMAIN base /\ Whole(base)
      /\ \A x \in DOMAIN I \cup DOMAIN new.indexes : ~Elsewhere(base, t, x)
  BY DEF Surrounds, RelationNames
<1>6. /\ \A x \in DOMAIN I : I[x].columns # {} /\ I[x].columns \subseteq DOMAIN C
      /\ \A x \in DOMAIN new.indexes : new.indexes[x].columns # {} /\ new.indexes[x].columns \subseteq DOMAIN D
  BY DEF FitTable, StoredColumns
<1>7. Between(base, t, C, M, low, O)
  BY OldConstraintsFit
<1>8. Between(base, t, D, M, low, top) /\ Amid(base, t, old, new, top)
  BY NewConstraintsFit
<1>a. \A x \in DOMAIN I : Unclaimed(base, t, O, x)
  <2>1. \A x \in DOMAIN I : x \notin KeyNames(t, old)
    BY DEF FitTable
  <2> QED
    BY <1>5, <2>1 DEF Unclaimed, KeyNames
<1>b. \A x \in DOMAIN new.indexes : Unclaimed(base, t, top, x)
  <2>1. \A x \in DOMAIN new.indexes : x \notin KeyNames(t, new)
    BY DEF FitTable
  <2>2. Coming(O, N) \subseteq N
    <3> HIDE DEF O, N
    <3> QED
      BY <1>3, DiffIsComplete
  <2>3. \A c \in low : c.name = DropName(t, c)
    <3>1. \A c \in low : c \in O
      BY DEF Left
    <3> HIDE DEF O, low
    <3> QED
      BY <1>4, <3>1, StoredReference
  <2>4. ASSUME NEW x \in DOMAIN new.indexes, NEW k \in top, IsKey(k) PROVE DropName(t, k) # x
    <3>1. CASE k \in low
      BY <2>3, <2>4, <3>1 DEF NamesApart
    <3>2. CASE k \notin low
      <4>1. PICK d \in N : k = StoredConstraint(t, d)
        BY <2>2, <3>2 DEF WithComing
      <4>2. DropName(t, k) = DropName(t, d) /\ IsKey(d)
        BY <2>4, <4>1, StoredReference, StoredName
      <4> QED
        BY <2>1, <4>2 DEF KeyNames
    <3> QED
      BY <3>1, <3>2
  <2> HIDE DEF I, top
  <2> QED
    BY <1>5, <2>4 DEF Unclaimed
<1>c. /\ \A x \in DOMAIN C : IsColumn(C[x]) /\ ColumnFits(StoredColumn(C[x]))
      /\ \A x \in DOMAIN new.columns : IsColumn(new.columns[x]) /\ ColumnFits(StoredColumn(new.columns[x]))
  <2> DEFINE E == new.columns
  <2>1. /\ \A x \in DOMAIN C : IsColumn(C[x]) /\ ColumnFits(C[x])
        /\ \A x \in DOMAIN E : IsColumn(E[x]) /\ ColumnFits(E[x])
    BY DEF FitTable
  <2> HIDE DEF C, E
  <2>2. /\ \A x \in DOMAIN C : IsColumn(C[x]) /\ ColumnFits(StoredColumn(C[x]))
        /\ \A x \in DOMAIN E : IsColumn(E[x]) /\ ColumnFits(StoredColumn(E[x]))
    BY <2>1, FitsStored
  <2> QED
    BY <2>2 DEF E
<1>d. AgreeThroughout(base, t, low, M, C, new.columns)
  BY TypesThroughout
<1>9. KeysHold(base, t, O) /\ KeysHold(base, t, top)
  <2>1. Amid(base, t, old, new, O)
    BY DEF Amid, Left
  <2> HIDE DEF O, N, top
  <2> QED
    BY <1>8, <2>1, KeysStayThroughout
<1>10. \A x \in Removed(C, new.columns) \cup Added(C, new.columns) : Unused(base, t, low, M, x)
  <2>1. \A x \in Removed(C, new.columns) \cup Added(C, new.columns) : x \notin DOMAIN C \/ x \notin DOMAIN new.columns
    BY DEF Removed, Added
  <2> QED
    BY <2>1, FreeColumnUnused
<1>11. \A x \in Changed(C, new.columns) : CanChange(base, t, low, M, x, C[x], new.columns[x])
  BY ColumnsCanChange
<1>12. /\ \A d \in Coming(O, N) : StoredConstraint(t, d) \notin low
       /\ \A d, e \in Coming(O, N) : StoredConstraint(t, d) = StoredConstraint(t, e) => d = e
  <2>1. Coming(O, N) \subseteq N
    <3> HIDE DEF O, N
    <3> QED
      BY <1>3, DiffIsComplete
  <2>2. \A d : StoredConstraint(t, d).name = DropName(t, d)
    BY StoredReference
  <2>3. \A d, e \in N : DropName(t, d) = DropName(t, e) => d = e
    BY DEF FitTable
  <2>4. \A c \in low, d \in Coming(O, N) : c.name # DropName(t, d)
    BY DEF NamesApart
  <2>5. \A d \in Coming(O, N) : StoredConstraint(t, d) \notin low
    BY <2>2, <2>4
  <2> HIDE DEF O, N
  <2>6. \A d, e \in Coming(O, N) : StoredConstraint(t, d) = StoredConstraint(t, e) => d = e
    BY <2>1, <2>2, <2>3
  <2> QED
    BY <2>5, <2>6
<1>13. IsMap(M)
  BY DEF Common, IsMap
<1>14. AtTable(base, t, old) = At(base, t, C, O, I) /\ AtTable(base, t, after) = At(base, t, D, top, J)
  <2>1. after.columns = D /\ after.constraints = top /\ after.indexes = J
    BY DEF TableAfter, Table
  <2> QED
    BY <2>1 DEF AtTable
<1>15. D = StoredColumns(new.columns) /\ top = WithComing(t, O, N)
  OBVIOUS
<1> HIDE DEF O, N, C, D, top, I, J, s1, s2, s3, s4, s5
<1>16. Path(s1, At(base, t, C, O, I), At(base, t, C, O, M), At(base, t, C, O, M), At(base, t, C, O, I))
  <2>1. M = Common(I, new.indexes)
    BY DEF I
  <2> QED
    BY <1>2, <1>4, <1>5, <1>6, <1>9, <1>a, <2>1, DroppedIndexesPath DEF s1
<1> HIDE DEF M
<1>17. Path(s2, At(base, t, C, O, M), At(base, t, C, low, M), At(base, t, C, low, M), At(base, t, C, O, M))
  BY <1>2, <1>3, <1>4, <1>5, <1>7, DroppedConstraintsPath DEF s2
<1>18. Path(s4, At(base, t, D, low, M), At(base, t, D, top, M), At(base, t, D, top, M), At(base, t, D, low, M))
  BY <1>2, <1>3, <1>5, <1>8, <1>12, <1>15, AddedConstraintsPath DEF s4
<1>19. Path(s3, At(base, t, C, low, M), At(base, t, D, low, M), At(base, t, D, low, M), At(base, t, C, low, M))
  <2> HIDE DEF low
  <2> QED
    BY <1>2, <1>4, <1>5, <1>10, <1>11, <1>13, <1>15, <1>c, <1>d, ColumnStepsPath DEF s3
<1>20. Path(s5, At(base, t, D, top, M), At(base, t, D, top, J), At(base, t, D, top, J), At(base, t, D, top, M))
  <2>1. M = Common(I, new.indexes) /\ J = StoredIndexes(new.indexes)
    BY DEF M, I, J
  <2> QED
    BY <1>2, <1>4, <1>5, <1>6, <1>9, <1>b, <2>1, CreatedIndexesPath DEF s5
<1> HIDE DEF low
<1>21. Path(s1 \o s2, At(base, t, C, O, I), At(base, t, C, low, M), At(base, t, C, low, M), At(base, t, C, O, I))
  BY <1>16, <1>17, PathsJoined
<1>22. Path((s1 \o s2) \o s3, At(base, t, C, O, I), At(base, t, D, low, M), At(base, t, D, low, M), At(base, t, C, O, I))
  BY <1>19, <1>21, PathsJoined
<1>23. Path(((s1 \o s2) \o s3) \o s4, At(base, t, C, O, I), At(base, t, D, top, M),
            At(base, t, D, top, M), At(base, t, C, O, I))
  BY <1>18, <1>22, PathsJoined
<1>24. Path((((s1 \o s2) \o s3) \o s4) \o s5, At(base, t, C, O, I), At(base, t, D, top, J),
            At(base, t, D, top, J), At(base, t, C, O, I))
  BY <1>20, <1>23, PathsJoined
<1> QED
  BY <1>1, <1>14, <1>24

-----------------------------------------------------------------------------
(* A table that comes or goes.                                             *)

\* The same way back, and nothing on the way up.
LEMMA OnlyBack ==
  ASSUME NEW s, NEW a, NEW b, NEW c, NEW d, Path(s, a, b, c, d),
         NEW r, IsList(r), Len(r) = Len(s),
         \A i \in 1 .. Len(s) : r[i].up = Nothing /\ r[i].down = s[i].down,
         NEW e
  PROVE  Path(r, e, e, c, d)
<1> DEFINE n  == Len(s)
           up == [i \in 0 .. n |-> e]
<1>1. n \in Nat /\ Len(r) = n
  BY ListLength
<1>2. up[0] = e /\ up[n] = e /\ \A i \in 1 .. n : up[i - 1] = e /\ up[i] = e
  BY <1>1
<1>3. PICK down : /\ down[n] = c /\ down[0] = d
                  /\ \A i \in 1 .. n : Leads(s[i].down, down[i], down[i - 1])
  BY DEF Path
<1> HIDE DEF up
<1>4. \A i \in 1 .. n : Leads(r[i].up, up[i - 1], up[i])
  BY <1>2 DEF Leads
<1>5. \A i \in 1 .. n : Leads(r[i].down, down[i], down[i - 1])
  BY <1>3
<1> QED
  BY <1>1, <1>2, <1>3, <1>4, <1>5 DEF Path

\* What the catalog has of a table that is created with its indexes.
StoredTable(t, def, I) ==
  Table(StoredColumns(def.columns), {StoredConstraint(t, c) : c \in def.constraints}, I)

\* The catalog with t, or with another table t.
WithTableAt(base, t, table) == Extended(base, t, table)

\* The catalog may get table t: nothing refers to it yet, what it refers to is
\* there, with types that fit, and its indexes and keys have names of their own.
Awaits(base, t, def) ==
  /\ t \notin DOMAIN base
  /\ Whole(base)
  /\ \A u \in DOMAIN base : \A c \in base[u].constraints : c.kind = "fk" => c.ref # t
  /\ \A x \in RelationNames(t, def) : ~Elsewhere(base, t, x)
  /\ \A c \in def.constraints : FitsTypes(base, t, StoredColumns(def.columns), c)
  /\ \A c \in def.constraints : c.kind = "fk" =>
       IF c.ref = t THEN \E k \in def.constraints : IsKey(k) /\ k.columns = Referred(c)
       ELSE c.ref \in DOMAIN base /\ HasConstraint(base, c.ref, Referred(c))

LEMMA MoreIsWhole ==
  ASSUME NEW base, Whole(base), NEW t, t \notin DOMAIN base, NEW C, NEW K, NEW I, IsMap(I),
         NEW table, table = Table(C, K, I), NEW more, more = WithTableAt(base, t, table)
  PROVE  /\ Whole(more)
         /\ \A u : u \in DOMAIN more <=> u \in DOMAIN base \/ u = t
         /\ more[t] = table
         /\ \A u \in DOMAIN base : more[u] = base[u] /\ u # t
         /\ Less(more, t) = base
<1>1. /\ DOMAIN more = DOMAIN base \cup {t} /\ more[t] = table
      /\ \A u \in DOMAIN base : more[u] = base[u] /\ u # t
      /\ IsMap(more)
  BY DEF WithTableAt, Extended, IsMap
<1>2. IsTable(table) /\ IsMap(table.indexes)
  BY DEF Table, IsTable
<1>3. Whole(more)
  BY <1>1, <1>2 DEF Whole
<1>4. Less(more, t) = base
  <2>1. DOMAIN more \ {t} = DOMAIN base
    BY <1>1
  <2>2. Restrict(more, DOMAIN base) = [u \in DOMAIN base |-> base[u]]
    BY <1>1 DEF Restrict
  <2> QED
    BY <2>1, <2>2 DEF Whole, IsMap, Less
<1> QED
  BY <1>1, <1>3, <1>4

\* What Accepts asks of the two statements.
LEMMA CreateAccepted ==
  ASSUME NEW cat, NEW s, s.op = "create table", s.table \notin DOMAIN cat,
         NEW after, after = Extended(cat, s.table, Created(s)),
         \A x \in DOMAIN s.columns : ColumnFits(StoredColumn(s.columns[x])),
         KeyNames(s.table, Created(s)) \cap Relations(cat) = {},
         \A c \in Created(s).constraints : ConstraintFits(after, s.table, c),
         \A c, d \in Created(s).constraints :
           c.name = d.name \/ (c.kind = "pk" /\ d.kind = "pk") => c = d
  PROVE  Accepts(cat, s)
BY DEF Accepts

LEMMA DropAccepted ==
  ASSUME NEW cat, NEW s, s.op = "drop table", s.table \in DOMAIN cat,
         \A t \in DOMAIN cat \ {s.table} : \A c \in cat[t].constraints :
           c.kind = "fk" => c.ref # s.table
  PROVE  Accepts(cat, s)
BY DEF Accepts

LEMMA TableCanBeCreated ==
  ASSUME NEW base, NEW t, NEW def, FitTable(t, def), Awaits(base, t, def),
         NEW table, table = StoredTable(t, def, <<>>),
         NEW more, more = WithTableAt(base, t, table)
  PROVE  Leads(CreateTable(t, def), base, more)
<1> DEFINE s == CreateTable(t, def)
           C == StoredColumns(def.columns)
           K == {StoredConstraint(t, c) : c \in def.constraints}
<1>1. s.op = "create table" /\ s.table = t /\ s # Nothing /\ s.columns = def.columns
  BY DEF CreateTable, Nothing
<1>2. Created(s) = table
  BY DEF CreateTable, Created, StoredTable, Table, StoredColumns
<1>3. table.columns = C /\ table.constraints = K
  BY DEF StoredTable, Table
<1> HIDE DEF s
<1>4. \A c \in K : \E d \in def.constraints : c = StoredConstraint(t, d)
  OBVIOUS
<1>5. \A d \in def.constraints : StoredConstraint(t, d) \in K
  OBVIOUS
<1>6. DOMAIN more = DOMAIN base \cup {t} /\ more[t] = table /\ \A u \in DOMAIN base : more[u] = base[u]
  BY DEF WithTableAt, Extended, Awaits
<1> HIDE DEF K
<1>7. ASSUME NEW c \in K, NEW d \in K, c.name = d.name \/ (c.kind = "pk" /\ d.kind = "pk")
      PROVE  c = d
  <2>1. PICK e \in def.constraints : c = StoredConstraint(t, e)
    BY <1>4
  <2>2. PICK f \in def.constraints : d = StoredConstraint(t, f)
    BY <1>4
  <2>3. c.name = DropName(t, e) /\ c.kind = e.kind /\ d.name = DropName(t, f) /\ d.kind = f.kind
    BY <2>1, <2>2, StoredReference
  <2>4. e = f
    BY <1>7, <2>3 DEF FitTable
  <2> QED
    BY <2>1, <2>2, <2>4
<1>8. ASSUME NEW c \in K PROVE ConstraintFits(more, t, c)
  <2>1. PICK d \in def.constraints : c = StoredConstraint(t, d)
    BY <1>4
  <2>2. /\ c.kind = d.kind /\ c.ref = d.ref /\ c.refColumns = d.refColumns
        /\ Referred(c) = Referred(d)
        /\ c.kind = "fk" => c.columns = d.columns
    BY <2>1, StoredReference
  <2>3. FitsColumns(C, c)
    <3>1. FitsColumns(def.columns, c)
      BY <2>1 DEF FitTable
    <3>2. DOMAIN C = DOMAIN def.columns
      BY DEF StoredColumns
    <3>3. ASSUME NEW x \in DOMAIN def.columns PROVE def.columns[x].notNull => C[x].notNull
      <4> DEFINE v == def.columns[x]
      <4>1. IsColumn(v) /\ C[x] = StoredColumn(v)
        BY DEF FitTable, StoredColumns
      <4> HIDE DEF v
      <4>2. v.notNull => StoredColumn(v).notNull
        BY <4>1, ColumnStored
      <4> QED
        BY <4>1, <4>2 DEF v
    <3> HIDE DEF C
    <3> QED
      BY <3>1, <3>2, <3>3 DEF FitsColumns
  <2>4. ASSUME c.kind = "fk" PROVE HasKey(more, c.ref, Referred(c))
    <3>1. CASE c.ref = t
      <4>1. PICK k \in def.constraints : IsKey(k) /\ k.columns = Referred(d)
        BY <2>2, <2>4, <3>1 DEF Awaits
      <4> DEFINE e == StoredConstraint(t, k)
      <4>2. e \in K /\ IsKey(e)
        BY <1>5, <4>1, StoredReference
      <4>3. e.columns = Referred(d)
        BY <4>1 DEF StoredConstraint, IsKey
      <4> HIDE DEF e
      <4>4. HasConstraint(more, t, Referred(c))
        BY <1>3, <1>6, <2>2, <4>2, <4>3 DEF HasConstraint
      <4> QED
        BY <1>6, <3>1, <4>4 DEF HasKey
    <3>2. CASE c.ref # t
      <4>1. c.ref \in DOMAIN base /\ HasConstraint(base, c.ref, Referred(c))
        BY <2>2, <2>4, <3>2 DEF Awaits
      <4>2. HasConstraint(more, c.ref, Referred(c))
        BY <1>6, <4>1 DEF HasConstraint
      <4> QED
        BY <1>6, <4>1, <4>2 DEF HasKey
    <3> QED
      BY <3>1, <3>2
  <2>5. ASSUME c.kind = "fk" PROVE TypesAgree(more, t, c)
    <3>1. d.kind = "fk" /\ FitsTypes(base, t, C, d)
      BY <2>2, <2>5 DEF Awaits
    <3>2. c.ref # t => c.ref \in DOMAIN base
      BY <2>2, <3>1 DEF Awaits
    <3>3. more[c.ref].columns = IF d.ref = t THEN C ELSE base[d.ref].columns
      BY <1>3, <1>6, <2>2, <3>2
    <3> HIDE DEF C
    <3>4. \A x \in c.columns : <<C[x].type, more[c.ref].columns[c.refColumns[x]].type>> \in Comparable
      BY <2>2, <2>5, <3>1, <3>3 DEF FitsTypes
    <3> QED
      BY <1>3, <1>6, <3>4 DEF TypesAgree
  <2> QED
    BY <1>3, <1>6, <2>3, <2>4, <2>5 DEF ConstraintFits, FitsColumns
<1>a. \A x \in DOMAIN s.columns : ColumnFits(StoredColumn(s.columns[x]))
  <2>1. \A x \in DOMAIN def.columns : IsColumn(def.columns[x]) /\ ColumnFits(def.columns[x])
    BY DEF FitTable
  <2> QED
    BY <1>1, <2>1, FitsStored
<1>b. KeyNames(s.table, Created(s)) \cap Relations(base) = {}
  <2>1. ASSUME NEW k \in K, IsKey(k) PROVE DropName(t, k) \in RelationNames(t, def)
    <3>1. PICK d \in def.constraints : k = StoredConstraint(t, d)
      BY <1>4
    <3>2. DropName(t, k) = DropName(t, d) /\ IsKey(d)
      BY <2>1, <3>1, StoredReference, StoredName
    <3> QED
      BY <3>2 DEF RelationNames, KeyNames
  <2>2. ASSUME NEW n \in KeyNames(t, table) PROVE n \in RelationNames(t, def)
    <3>1. PICK k \in K : IsKey(k) /\ n = DropName(t, k)
      BY <1>3 DEF KeyNames
    <3> QED
      BY <2>1, <3>1
  <2>3. \A n \in RelationNames(t, def) : n \notin Relations(base)
    BY DEF Awaits, Elsewhere, Relations
  <2> QED
    BY <1>1, <1>2, <2>2, <2>3
<1>9. Accepts(base, s)
  <2>1. t \notin DOMAIN base
    BY DEF Awaits
  <2>2. more = Extended(base, s.table, Created(s))
    BY <1>1, <1>2 DEF WithTableAt
  <2>3. Created(s).constraints = K
    BY <1>2, <1>3
  <2> QED
    BY <1>1, <1>7, <1>8, <1>a, <1>b, <2>1, <2>2, <2>3, CreateAccepted
<1>10. Effect(base, s) = more
  BY <1>1, <1>2 DEF Effect, WithTableAt
<1> QED
  BY <1>1, <1>9, <1>10 DEF Leads, s

LEMMA TableCanBeDropped ==
  ASSUME NEW base, NEW t, NEW def, Awaits(base, t, def), NEW C, NEW K, NEW I, IsMap(I),
         NEW table, table = Table(C, K, I), NEW more, more = WithTableAt(base, t, table)
  PROVE  Leads(DropTable(t), more, base)
<1> DEFINE s == DropTable(t)
<1>1. s.op = "drop table" /\ s.table = t /\ s # Nothing
  BY DEF DropTable, Nothing
<1> HIDE DEF s
<1>2. /\ t \notin DOMAIN base /\ Whole(base)
      /\ \A u \in DOMAIN base : \A c \in base[u].constraints : c.kind = "fk" => c.ref # t
  BY DEF Awaits
<1>3. /\ \A u : u \in DOMAIN more <=> u \in DOMAIN base \/ u = t
      /\ \A u \in DOMAIN base : more[u] = base[u] /\ u # t
      /\ Less(more, t) = base
  BY <1>2, MoreIsWhole
<1>4. \A u \in DOMAIN more \ {t} : \A c \in more[u].constraints : c.kind = "fk" => c.ref # t
  BY <1>2, <1>3
<1>5. Accepts(more, s)
  <2>1. s.table \in DOMAIN more
    BY <1>1, <1>3
  <2>2. \A u \in DOMAIN more \ {s.table} : \A c \in more[u].constraints : c.kind = "fk" => c.ref # s.table
    BY <1>1, <1>4
  <2> QED
    BY <1>1, <2>1, <2>2, DropAccepted
<1>6. Effect(more, s) = base
  BY <1>1, <1>3 DEF Effect, Less
<1> QED
  BY <1>1, <1>5, <1>6 DEF Leads, s

LEMMA AnotherTableAt ==
  ASSUME NEW base, NEW t, NEW C, NEW K, NEW I, NEW table, table = Table(C, K, I),
         NEW more, NEW first, more = WithTableAt(base, t, first)
  PROVE  At(more, t, C, K, I) = WithTableAt(base, t, table)
<1>1. [more EXCEPT ![t] = table] = WithTableAt(base, t, table)
  BY DEF WithTableAt, Extended
<1> QED
  BY <1>1 DEF At, Table

\* The table that is there in the end.
TableMade(t, def) == StoredTable(t, def, StoredIndexes(def.indexes))

\* The steps for a table that is added, and those for one that is removed, lead
\* there and back, indexes included, wherever nothing refers to the table and
\* what it refers to is there.
THEOREM TableComesAndGoes ==
  ASSUME NEW base, NEW t, NEW def, FitTable(t, def), Awaits(base, t, def),
         NEW table, table = TableMade(t, def), NEW more, more = WithTableAt(base, t, table)
  PROVE  /\ Path(AddedTableSteps(t, def), base, more, more, base)
         /\ Path(RemovedTableSteps(t, def), more, base, base, more)
<1> DEFINE C     == StoredColumns(def.columns)
           K     == {StoredConstraint(t, c) : c \in def.constraints}
           G     == def.indexes
           S     == DOMAIN G
           J     == StoredIndexes(G)
           bare  == StoredTable(t, def, <<>>)
           early == WithTableAt(base, t, bare)
           new   == IndexSteps(t, S, G)
           back  == IndexesUndone(t, S, G)
           rest  == [i \in 1 .. Cardinality(S) |->
                       RestoreIndexStep(t, Ranked(S, [x \in S |-> 0])[i], G[Ranked(S, [x \in S |-> 0])[i]])]
<1>1. AddedTableSteps(t, def) = <<CreateTableStep(t, def)>> \o new
  BY DEF AddedTableSteps, InAnyOrder, InOrder, IndexSteps
<1>2. RemovedTableSteps(t, def) = rest \o <<Undo(CreateTableStep(t, def))>>
  BY DEF RemovedTableSteps, InAnyOrder, InOrder
<1>3. bare = Table(C, K, <<>>) /\ table = Table(C, K, J)
  BY DEF StoredTable, TableMade
<1>4. IsMap(<<>>) /\ IsMap(J) /\ DOMAIN <<>> = {}
  <2>1. IsMap(<<>>) /\ DOMAIN <<>> = {}
    BY NoNames DEF IsMap
  <2> QED
    BY <2>1 DEF IsMap, StoredIndexes
<1>5. J = Plus(<<>>, S, G)
  BY <1>4 DEF Plus, StoredIndexes
<1>6. IsFiniteSet(S)
  BY DEF FitTable, FiniteTable
<1>7. \A x \in S : G[x].columns # {} /\ G[x].columns \subseteq DOMAIN C
  BY DEF FitTable, StoredColumns
<1>8. /\ t \notin DOMAIN base /\ Whole(base)
      /\ \A u \in DOMAIN base : \A c \in base[u].constraints : c.kind = "fk" => c.ref # t
      /\ \A x \in S : ~Elsewhere(base, t, x)
  BY DEF Awaits, RelationNames
<1>9. KeysHold(early, t, K)
  <2>0. DOMAIN early \ {t} = DOMAIN base /\ \A u \in DOMAIN base : early[u] = base[u]
    BY <1>8 DEF WithTableAt, Extended
  <2> HIDE DEF early, K
  <2>1. ASSUME NEW f \in References(early, t, K) PROVE f \in K
    <3>1. f \in K \/ \E u \in DOMAIN early \ {t} : f \in early[u].constraints
      BY DEF References
    <3>2. f.kind = "fk" /\ f.ref = t
      BY DEF References
    <3> QED
      BY <1>8, <2>0, <3>1, <3>2
  <2>2. ASSUME NEW f \in References(early, t, K) PROVE \E k \in K : IsKey(k) /\ k.columns = Referred(f)
    <3>1. PICK c \in def.constraints : f = StoredConstraint(t, c)
      BY <2>1 DEF K
    <3>2. c.kind = "fk" /\ c.ref = t /\ Referred(c) = Referred(f)
      BY <3>1, StoredReference DEF References
    <3>3. PICK k \in def.constraints : IsKey(k) /\ k.columns = Referred(c)
      BY <3>2 DEF Awaits
    <3> DEFINE e == StoredConstraint(t, k)
    <3>4. e \in K /\ IsKey(e)
      BY <3>3, StoredReference DEF K
    <3>5. e.columns = Referred(c)
      BY <3>3 DEF StoredConstraint, IsKey
    <3> HIDE DEF e
    <3> QED
      BY <3>2, <3>4, <3>5
  <2> QED
    BY <2>2 DEF KeysHold
<1>10. Leads(CreateTable(t, def), base, early) /\ Leads(DropTable(t), early, base)
  <2> HIDE DEF early, K, C
  <2>1. early = WithTableAt(base, t, bare) /\ bare = StoredTable(t, def, <<>>)
    BY DEF early
  <2> HIDE DEF bare
  <2>2. Leads(CreateTable(t, def), base, early)
    BY <2>1, TableCanBeCreated
  <2>3. Leads(DropTable(t), early, base)
    BY <1>3, <1>4, <2>1, TableCanBeDropped
  <2> QED
    BY <2>2, <2>3
<1>11. Leads(DropTable(t), more, base)
  <2> HIDE DEF K, C, J
  <2> QED
    BY <1>3, <1>4, TableCanBeDropped
<1>12. At(early, t, C, K, <<>>) = early /\ At(early, t, C, K, J) = more
  <2> HIDE DEF K, C, J
  <2>1. At(early, t, C, K, <<>>) = WithTableAt(base, t, bare)
    BY <1>3, AnotherTableAt
  <2>2. At(early, t, C, K, J) = WithTableAt(base, t, table)
    BY <1>3, AnotherTableAt
  <2> QED
    BY <2>1, <2>2
<1>13. /\ Whole(early) /\ t \in DOMAIN early
       /\ \A x \in S : Unclaimed(early, t, K, x)
  <2>a. ASSUME NEW x \in S, NEW k \in K, IsKey(k) PROVE DropName(t, k) # x
    <3>1. PICK d \in def.constraints : k = StoredConstraint(t, d)
      OBVIOUS
    <3>2. DropName(t, k) = DropName(t, d) /\ IsKey(d)
      BY <2>a, <3>1, StoredReference, StoredName
    <3> QED
      BY <3>2 DEF FitTable, KeyNames
  <2> HIDE DEF K, C, J, S
  <2>1. early = WithTableAt(base, t, bare)
    OBVIOUS
  <2> HIDE DEF early, bare
  <2>2. /\ Whole(early)
        /\ \A u : u \in DOMAIN early <=> u \in DOMAIN base \/ u = t
        /\ \A u \in DOMAIN base : early[u] = base[u] /\ u # t
    BY <1>3, <1>4, <1>8, <2>1, MoreIsWhole
  <2>3. \A x \in S : ~Elsewhere(early, t, x)
    BY <1>8, <2>2 DEF Elsewhere
  <2> QED
    BY <2>a, <2>2, <2>3 DEF Unclaimed
<1> HIDE DEF early, bare, C, K, J, S, G
<1>14. /\ Path(new, early, more, more, early)
       /\ Path(back, more, early, early, more)
  <2>1. /\ Path(IndexSteps(t, S, G), At(early, t, C, K, <<>>), At(early, t, C, K, J),
                At(early, t, C, K, J), At(early, t, C, K, <<>>))
        /\ Path(IndexesUndone(t, S, G), At(early, t, C, K, J), At(early, t, C, K, <<>>),
                At(early, t, C, K, <<>>), At(early, t, C, K, J))
    <3>1. \A x \in S : x \notin DOMAIN <<>>
      BY <1>4
    <3> QED
      BY <1>4, <1>5, <1>6, <1>7, <1>9, <1>13, <3>1, IndexesPath
  <2> QED
    BY <1>12, <2>1
<1>15. Path(rest, more, more, early, more)
  <2>1. Cardinality(S) \in Nat
    BY <1>6, FS_CardinalityType
  <2>2. /\ \A i \in 1 .. Cardinality(S) :
             rest[i] = RestoreIndexStep(t, Ranked(S, [x \in S |-> 0])[i], G[Ranked(S, [x \in S |-> 0])[i]])
        /\ rest = [i \in 1 .. Cardinality(S) |-> rest[i]]
    OBVIOUS
  <2>3. /\ \A i \in 1 .. Cardinality(S) :
             back[i] = Undo(CreateIndexStep(t, Ranked(S, [x \in S |-> 0])[i], G[Ranked(S, [x \in S |-> 0])[i]]))
        /\ back = [i \in 1 .. Cardinality(S) |-> back[i]]
    BY DEF IndexesUndone
  <2>4. \A i \in 1 .. Cardinality(S) : rest[i].up = Nothing /\ rest[i].down = back[i].down
    BY <2>2, <2>3 DEF RestoreIndexStep, CreateIndexStep, Undo, Step
  <2> HIDE DEF rest, back
  <2>5. IsList(rest) /\ Len(rest) = Cardinality(S) /\ Len(back) = Cardinality(S)
    BY <2>1, <2>2, <2>3, MapIsList
  <2>6. Len(rest) = Len(back) /\ \A i \in 1 .. Len(back) : rest[i].up = Nothing /\ rest[i].down = back[i].down
    BY <2>4, <2>5
  <2> QED
    BY <1>14, <2>5, <2>6, OnlyBack
<1>16. Path(<<CreateTableStep(t, def)>>, base, early, early, base)
  <2> DEFINE step == CreateTableStep(t, def)
  <2>1. step.up = CreateTable(t, def) /\ step.down = DropTable(t)
    BY DEF CreateTableStep, Step
  <2> HIDE DEF step
  <2>2. Path(<<step>>, base, early, early, base)
    BY <1>10, <2>1, OneStepPath
  <2> QED
    BY <2>2 DEF step
<1>17. Path(<<Undo(CreateTableStep(t, def))>>, more, base, base, early)
  <2> DEFINE step == Undo(CreateTableStep(t, def))
  <2>1. step.down = CreateTable(t, def) /\ step.up = DropTable(t)
    BY DEF CreateTableStep, Step, Undo
  <2> HIDE DEF step
  <2>2. Path(<<step>>, more, base, base, early)
    BY <1>10, <1>11, <2>1, OneStepPath
  <2> QED
    BY <2>2 DEF step
<1> HIDE DEF new, back, rest
<1>18. Path(<<CreateTableStep(t, def)>> \o new, base, more, more, base)
  BY <1>14, <1>16, PathsJoined
<1>19. Path(rest \o <<Undo(CreateTableStep(t, def))>>, more, base, base, more)
  BY <1>15, <1>17, PathsJoined
<1> QED
  BY <1>1, <1>2, <1>18, <1>19
=============================================================================
