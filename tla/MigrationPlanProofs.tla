-------------------------- MODULE MigrationPlanProofs --------------------------
(***************************************************************************)
(* What ApplyMigrations plans, for every registry and every call.          *)
(***************************************************************************)
EXTENDS MigrationPlan, MigrationTargetsProofs

-----------------------------------------------------------------------------
(* Sorting.                                                                *)

\* Version strings are in a strict total order when no two are the same.
LEMMA BeforeOrders ==
  ASSUME NEW a \in Entry, NEW b \in Entry, NEW c \in Entry
  PROVE  /\ ~(Before(a, b) /\ Before(b, a))
         /\ a.key # b.key => Before(a, b) \/ Before(b, a)
         /\ Before(a, b) /\ Before(b, c) => Before(a, c)
<1>1. /\ a.key \in Int /\ b.key \in Int /\ c.key \in Int
      /\ a.lead \in BOOLEAN /\ b.lead \in BOOLEAN /\ c.lead \in BOOLEAN
  BY NAssumption DEF Entry
<1> QED
  BY <1>1 DEF Before

\* The entries in the order of the strings.
LEMMA SortedOrder ==
  ASSUME NEW es \in Seq(Entry), Acceptable(es)
  PROVE  \E p \in Injection(DOMAIN es, DOMAIN es) :
           /\ Sorted(es) = [i \in DOMAIN es |-> es[p[i]]]
           /\ \A i, j \in DOMAIN es : i < j => ~Before(es[p[j]], es[p[i]])
<1> DEFINE n  == Len(es)
           lt == {d \in (1 .. n) \X (1 .. n) : Before(es[d[1]], es[d[2]])}
<1>1. n \in Nat /\ DOMAIN es = 1 .. n /\ \A i \in 1 .. n : es[i] \in Entry
  OBVIOUS
<1>2. \A i, j \in 1 .. n : <<i, j>> \in lt <=> Before(es[i], es[j])
  OBVIOUS
<1>3. \A i, j \in 1 .. n : i # j => es[i].key # es[j].key
  BY <1>1 DEF Acceptable
<1> HIDE DEF n, lt
<1>4. /\ \A i, j \in 1 .. n : ~(<<i, j>> \in lt /\ <<j, i>> \in lt)
      /\ \A i, j \in 1 .. n : i # j => <<i, j>> \in lt \/ <<j, i>> \in lt
      /\ \A i, j, k \in 1 .. n : <<i, j>> \in lt /\ <<j, k>> \in lt => <<i, k>> \in lt
  BY <1>1, <1>2, <1>3, BeforeOrders
<1>5. \E p \in Orders(n) : \A i, j \in 1 .. n : i < j => ~(<<p[j], p[i]>> \in lt)
  BY <1>1, <1>4, CanBeSorted DEF Orders
<1> DEFINE P(p) == \A i, j \in DOMAIN es : i < j => ~Before(es[p[j]], es[p[i]])
           q    == CHOOSE p \in Orders(n) : P(p)
<1>6. \E p \in Orders(n) : P(p)
  BY <1>1, <1>2, <1>5 DEF Orders, Injection
<1>7. q \in Orders(n) /\ P(q)
  BY <1>6
<1>8. Sorted(es) = [i \in DOMAIN es |-> es[q[i]]]
  BY DEF Sorted, n
<1> HIDE DEF q
<1> QED
  BY <1>1, <1>7, <1>8 DEF Orders

\* A normalized registry has the versions of the entries, each once, and in
\* their order when no string begins with a blank.
LEMMA NormalizedVersions ==
  ASSUME NEW es \in Seq(Entry), Acceptable(es), NEW reg, reg = Trimmed(Sorted(es))
  PROVE  /\ reg \in Seq(Versions) /\ DOMAIN reg = DOMAIN es
         /\ \A i, j \in DOMAIN reg : reg[i] = reg[j] => i = j
         /\ ToSet(reg) = {es[i].key : i \in DOMAIN es}
         /\ (\A i \in DOMAIN es : ~es[i].lead) =>
              \A i, j \in DOMAIN reg : i < j => reg[i] < reg[j]
<1>1. PICK p \in Injection(DOMAIN es, DOMAIN es) :
        /\ Sorted(es) = [i \in DOMAIN es |-> es[p[i]]]
        /\ \A i, j \in DOMAIN es : i < j => ~Before(es[p[j]], es[p[i]])
  BY SortedOrder
<1>2. /\ p \in [DOMAIN es -> DOMAIN es]
      /\ \A i, j \in DOMAIN es : p[i] = p[j] => i = j
  BY DEF Injection, IsInjective
<1>3. reg = [i \in DOMAIN es |-> es[p[i]].key]
  BY <1>1, <1>2 DEF Trimmed
<1>4. DOMAIN es = 1 .. Len(es) /\ Len(es) \in Nat /\ \A i \in DOMAIN es : es[i] \in Entry
  OBVIOUS
<1>5. \A i \in DOMAIN es : es[i].key \in Versions
  BY <1>4, NAssumption DEF Acceptable, Entry, Versions
<1>6. \A i, j \in DOMAIN reg : reg[i] = reg[j] => i = j
  BY <1>2, <1>3 DEF Acceptable
<1>7. reg \in Seq(Versions) /\ DOMAIN reg = DOMAIN es
  BY <1>2, <1>3, <1>4, <1>5
<1>8. ToSet(reg) = {es[i].key : i \in DOMAIN es}
  <2>1. IsFiniteSet(DOMAIN es)
    BY <1>4, FS_Interval
  <2>2. \A k \in DOMAIN es : \E i \in DOMAIN es : p[i] = k
    BY <2>1, FS_Injection DEF Surjection
  <2>3. ToSet(reg) = {es[p[i]].key : i \in DOMAIN es}
    BY <1>3 DEF ToSet
  <2>4. \A i \in DOMAIN es : p[i] \in DOMAIN es
    BY <1>2
  <2>5. ASSUME NEW k \in DOMAIN es PROVE es[k].key \in ToSet(reg)
    <3>1. PICK i \in DOMAIN es : p[i] = k
      BY <2>2
    <3> QED
      BY <2>3, <3>1
  <2> QED
    BY <2>3, <2>4, <2>5
<1>9. ASSUME \A i \in DOMAIN es : ~es[i].lead, NEW i \in DOMAIN reg, NEW j \in DOMAIN reg, i < j
      PROVE  reg[i] < reg[j]
  <2>1. ~Before(es[p[j]], es[p[i]]) /\ p[i] \in DOMAIN es /\ p[j] \in DOMAIN es
    BY <1>1, <1>2, <1>7, <1>9
  <2>2. es[p[i]].lead = FALSE /\ es[p[j]].lead = FALSE
    BY <1>4, <1>9, <2>1 DEF Entry
  <2>3. ~(reg[j] < reg[i])
    BY <1>3, <1>7, <1>9, <2>1, <2>2 DEF Before
  <2>4. reg[i] # reg[j] /\ reg[i] \in Int /\ reg[j] \in Int
    BY <1>3, <1>4, <1>5, <1>6, <1>7, <1>9, <2>1 DEF Versions
  <2> QED
    BY <2>3, <2>4
<1> QED
  BY <1>6, <1>7, <1>8, <1>9

-----------------------------------------------------------------------------
(* The invariant.                                                          *)

\* What is asked for.
LEMMA InitPhase == Init => PhaseInv
<1> SUFFICES ASSUME NEW es \in BoundedSeq(Entries, MaxEntries), NEW c \in Currents,
                    NEW t \in Targets, NEW d \in Directions,
                    input = [entries |-> es, current |-> c, target |-> t, direction |-> d],
                    phase = "normalize", registry = <<>>, target = Base, plan = <<>>
             PROVE  PhaseInv
  BY DEF Init
<1>1. PICK m \in 0 .. MaxEntries : es \in [1 .. m -> Entries]
  BY DEF BoundedSeq, SeqOf
<1>2. es \in Seq(Entry)
  BY <1>1, PlanAssumption
<1>3. c \in Versions \cup {Base} /\ t \in Versions \cup {Base, Unset, HeadVersion}
      /\ d \in {"up", "down", "sideways"}
  BY PlanAssumption
<1> QED
  BY <1>2, <1>3 DEF PhaseInv, InputOK

\* Each phase adds what it computes.
LEMMA NextPhase == PhaseInv /\ [Next]_vars => PhaseInv'
<1> SUFFICES ASSUME PhaseInv, [Next]_vars PROVE PhaseInv'
  OBVIOUS
<1>1. InputOK
  BY DEF PhaseInv
<1>2. CASE Normalize
  <2>1. UNCHANGED <<input, target, plan>> /\ phase = "normalize"
    BY <1>2 DEF Normalize
  <2>2. target = Base /\ plan = <<>> /\ registry = <<>>
    BY <2>1 DEF PhaseInv
  <2>3. CASE Acceptable(input.entries)
    <3>1. phase' = "resolve" /\ Normalized'
      BY <1>2, <2>1, <2>3 DEF Normalize, Normalized
    <3> QED
      BY <1>1, <2>1, <2>2, <3>1 DEF PhaseInv, InputOK
  <2>4. CASE ~Acceptable(input.entries)
    <3>1. phase' = "error" /\ registry' = registry
      BY <1>2, <2>4 DEF Normalize
    <3> QED
      BY <1>1, <2>1, <2>2, <2>4, <3>1 DEF PhaseInv, InputOK
  <2> QED
    BY <2>3, <2>4
<1>3. CASE Resolve
  <2>1. UNCHANGED <<input, registry, plan>> /\ phase = "resolve"
    BY <1>3 DEF Resolve
  <2>2. target = Base /\ plan = <<>> /\ Normalized
    BY <2>1 DEF PhaseInv
  <2>3. Normalized' /\ InputOK' /\ Asked' = Asked
    BY <1>1, <2>1, <2>2 DEF Normalized, InputOK, Asked
  <2>4. \/ phase' = "plan" /\ Resolved'
        \/ phase' = "error" /\ Asked' /\ ~Known(registry', input'.target) /\ target' = Base
    BY <1>3, <2>1, <2>2 DEF Resolve, Resolved, Asked
  <2> QED
    BY <2>1, <2>2, <2>3, <2>4 DEF PhaseInv
<1>4. CASE Plan
  <2>1. UNCHANGED <<input, registry, target>> /\ phase = "plan"
    BY <1>4 DEF Plan
  <2>2. plan = <<>> /\ Normalized /\ Resolved
    BY <2>1 DEF PhaseInv
  <2>3. Normalized' /\ InputOK' /\ Resolved' /\ HasPlan' = HasPlan /\ NewPlan' = NewPlan
    BY <1>1, <2>1, <2>2 DEF Normalized, InputOK, Resolved, Asked, HasPlan, NewPlan
  <2>4. \/ phase' = "planned" /\ HasPlan' /\ plan' = NewPlan'
        \/ phase' = "error" /\ ~HasPlan' /\ plan' = <<>>
    BY <1>4, <2>2, <2>3 DEF Plan
  <2> QED
    BY <2>3, <2>4 DEF PhaseInv
<1>5. CASE Ended \/ UNCHANGED vars
  BY <1>5 DEF Ended, vars, PhaseInv, InputOK, Normalized, Resolved, Asked, HasPlan, NewPlan
<1> QED
  BY <1>2, <1>3, <1>4, <1>5 DEF Next

-----------------------------------------------------------------------------
(* Registries and plans.                                                   *)

\* What normalizeMigrationRegistry returns.
IsRegistry(reg) ==
  /\ reg \in Seq(Versions)
  /\ \A i, j \in DOMAIN reg : reg[i] = reg[j] => i = j

\* A version that is known has one place in the registry, and the base is the
\* place before the first.
LEMMA IndexKnown ==
  ASSUME NEW reg, IsRegistry(reg), NEW v, Known(reg, v)
  PROVE  /\ Index(reg, v) \in 0 .. Len(reg)
         /\ Index(reg, v) = 0 <=> v = Base
         /\ Index(reg, v) # 0 => Index(reg, v) \in DOMAIN reg /\ reg[Index(reg, v)] = v
<1>1. DOMAIN reg = 1 .. Len(reg) /\ Len(reg) \in Nat
  BY DEF IsRegistry
<1>2. CASE v = Base
  BY <1>1, <1>2 DEF Index
<1>3. CASE v # Base
  <2>1. \E i \in DOMAIN reg : reg[i] = v
    BY <1>3 DEF Known, ToSet
  <2>2. Index(reg, v) \in DOMAIN reg /\ reg[Index(reg, v)] = v
    BY <1>3, <2>1 DEF Index
  <2> QED
    BY <1>1, <1>3, <2>2
<1> QED
  BY <1>2, <1>3

\* The place of the i-th version is i.
LEMMA IndexOf ==
  ASSUME NEW reg, IsRegistry(reg), NEW i \in DOMAIN reg
  PROVE  Known(reg, reg[i]) /\ Index(reg, reg[i]) = i
<1>1. reg[i] \in Versions /\ reg[i] # Base
  BY NAssumption DEF IsRegistry, Versions, Base
<1>2. Known(reg, reg[i])
  BY DEF Known, ToSet
<1>3. Index(reg, reg[i]) \in DOMAIN reg /\ reg[Index(reg, reg[i])] = reg[i]
  BY <1>1, <1>2, IndexKnown
<1> QED
  BY <1>2, <1>3 DEF IsRegistry

\* The target of a call is known when the registry is normalized.
LEMMA ResolvedKnown ==
  ASSUME PhaseInv, Normalized, Resolved
  PROVE  /\ IsRegistry(registry) /\ target \in Versions \cup {Base}
         /\ Known(registry, target)
<1>1. IsRegistry(registry)
  BY NormalizedVersions DEF PhaseInv, InputOK, Normalized, IsRegistry
<1>2. DOMAIN registry = 1 .. Len(registry) /\ Len(registry) \in Nat
      /\ \A i \in DOMAIN registry : registry[i] \in Versions
  BY <1>1 DEF IsRegistry
<1>3. CASE Asked
  BY <1>1, <1>3 DEF Resolved, Asked, PhaseInv, InputOK
<1>4. CASE ~Asked
  <2>1. registry # <<>> => Len(registry) \in DOMAIN registry
    BY <1>1, <1>2 DEF IsRegistry
  <2> QED
    BY <1>1, <1>2, <1>4, <2>1 DEF Resolved, HeadTarget, Last, Known, ToSet
<1> QED
  BY <1>3, <1>4

\* The place names the version.
LEMMA SameIndex ==
  ASSUME NEW reg, IsRegistry(reg), NEW u, NEW v, Known(reg, u), Known(reg, v),
         Index(reg, u) = Index(reg, v)
  PROVE  u = v
BY IndexKnown

PlanSteps == [migration : Versions, currentAfter : Versions \cup {Base}]

\* A plan up takes the versions between the two places, and the version before
\* its i-th migration is i - 1 places above the first.
LEMMA UpPlanned ==
  ASSUME NEW reg, IsRegistry(reg), NEW c, Known(reg, c), NEW t, Known(reg, t),
         Index(reg, c) <= Index(reg, t),
         NEW p, p = UpPlan(reg, Index(reg, c), Index(reg, t))
  PROVE  /\ p \in Seq(PlanSteps) /\ Len(p) = Index(reg, t) - Index(reg, c)
         /\ \A i \in DOMAIN p : /\ Index(reg, c) + i \in DOMAIN reg
                                /\ p[i].migration = reg[Index(reg, c) + i]
                                /\ p[i].currentAfter = reg[Index(reg, c) + i]
         /\ \A i \in 1 .. Len(p) + 1 :
              Known(reg, At(p, c, i)) /\ Index(reg, At(p, c, i)) = Index(reg, c) + i - 1
         /\ Lands(p, c, t)
<1> DEFINE from == Index(reg, c)
           to   == Index(reg, t)
<1>1. from \in 0 .. Len(reg) /\ to \in 0 .. Len(reg) /\ from <= to
  BY IndexKnown
<1>2. DOMAIN reg = 1 .. Len(reg) /\ Len(reg) \in Nat /\ \A i \in DOMAIN reg : reg[i] \in Versions
  BY DEF IsRegistry
<1>3. p = [i \in 1 .. to - from |-> [migration |-> reg[from + i], currentAfter |-> reg[from + i]]]
  BY DEF UpPlan
<1> HIDE DEF from, to
<1>4. p \in Seq(PlanSteps) /\ Len(p) = to - from /\ DOMAIN p = 1 .. to - from
  <2>1. \A i \in 1 .. to - from : from + i \in DOMAIN reg /\ reg[from + i] \in Versions
    BY <1>1, <1>2
  <2>2. \A i \in 1 .. to - from : p[i] \in PlanSteps
    BY <1>3, <2>1 DEF PlanSteps
  <2>3. to - from \in Nat
    BY <1>1, <1>2
  <2>4. p \in [1 .. to - from -> PlanSteps]
    BY <1>3, <2>2
  <2> QED
    BY <2>3, <2>4
<1>5. \A i \in DOMAIN p : from + i \in DOMAIN reg /\ p[i].migration = reg[from + i]
                          /\ p[i].currentAfter = reg[from + i]
  BY <1>1, <1>2, <1>3, <1>4
<1>6. ASSUME NEW i \in 1 .. Len(p) + 1
      PROVE  Known(reg, At(p, c, i)) /\ Index(reg, At(p, c, i)) = from + i - 1
  <2>1. CASE i = 1
    BY <1>1, <1>2, <2>1 DEF At, from
  <2>2. CASE i # 1
    <3>1. i - 1 \in DOMAIN p /\ from + (i - 1) = from + i - 1
      BY <1>1, <1>2, <1>4, <1>6, <2>2
    <3>2. At(p, c, i) = reg[from + (i - 1)] /\ from + (i - 1) \in DOMAIN reg
      BY <1>5, <2>2, <3>1 DEF At
    <3> QED
      BY <3>1, <3>2, IndexOf
  <2> QED
    BY <2>1, <2>2
<1>7. Lands(p, c, t)
  <2>1. Len(p) + 1 \in 1 .. Len(p) + 1 /\ from + (Len(p) + 1) - 1 = to
    BY <1>1, <1>2, <1>4
  <2>2. Known(reg, At(p, c, Len(p) + 1)) /\ Index(reg, At(p, c, Len(p) + 1)) = Index(reg, t)
    BY <1>6, <2>1 DEF to
  <2> QED
    BY <2>2, SameIndex DEF Lands
<1> QED
  BY <1>4, <1>5, <1>6, <1>7 DEF from, to

\* A plan down takes the versions between the two places, last first, and each
\* is the version before its migration.
LEMMA DownPlanned ==
  ASSUME NEW reg, IsRegistry(reg), NEW c, Known(reg, c), NEW t, Known(reg, t),
         Index(reg, t) <= Index(reg, c),
         NEW p, p = DownPlan(reg, Index(reg, c), Index(reg, t))
  PROVE  /\ p \in Seq(PlanSteps) /\ Len(p) = Index(reg, c) - Index(reg, t)
         /\ \A i \in DOMAIN p : /\ Index(reg, c) + 1 - i \in DOMAIN reg
                                /\ p[i].migration = reg[Index(reg, c) + 1 - i]
                                /\ p[i].migration = At(p, c, i)
         /\ \A i \in 1 .. Len(p) + 1 :
              Known(reg, At(p, c, i)) /\ Index(reg, At(p, c, i)) = Index(reg, c) + 1 - i
         /\ Lands(p, c, t)
<1> DEFINE from == Index(reg, c)
           to   == Index(reg, t)
<1>1. from \in 0 .. Len(reg) /\ to \in 0 .. Len(reg) /\ to <= from
  BY IndexKnown
<1>2. DOMAIN reg = 1 .. Len(reg) /\ Len(reg) \in Nat /\ \A i \in DOMAIN reg : reg[i] \in Versions
  BY DEF IsRegistry
<1>3. p = [i \in 1 .. from - to |->
             [migration    |-> reg[from + 1 - i],
              currentAfter |-> VersionBelow(reg, from + 1 - i)]]
  BY DEF DownPlan
<1> HIDE DEF from, to
<1>4. /\ p \in Seq(PlanSteps) /\ Len(p) = from - to /\ DOMAIN p = 1 .. from - to
      /\ \A i \in DOMAIN p : from + 1 - i \in DOMAIN reg
  <2>1. ASSUME NEW i \in 1 .. from - to
        PROVE  p[i] \in PlanSteps /\ from + 1 - i \in DOMAIN reg
    <3>1. from + 1 - i \in DOMAIN reg /\ reg[from + 1 - i] \in Versions
      BY <1>1, <1>2, <2>1
    <3>2. VersionBelow(reg, from + 1 - i) \in Versions \cup {Base}
      BY <1>1, <1>2, <2>1 DEF VersionBelow
    <3>3. p[i] = [migration    |-> reg[from + 1 - i],
                  currentAfter |-> VersionBelow(reg, from + 1 - i)]
      BY <1>3, <2>1
    <3> QED
      BY <3>1, <3>2, <3>3 DEF PlanSteps
  <2>3. from - to \in Nat
    BY <1>1, <1>2
  <2>4. p \in [1 .. from - to -> PlanSteps]
    BY <1>3, <2>1
  <2> QED
    BY <2>1, <2>3, <2>4
<1>5. ASSUME NEW i \in 1 .. Len(p) + 1
      PROVE  Known(reg, At(p, c, i)) /\ Index(reg, At(p, c, i)) = from + 1 - i
  <2>1. CASE i = 1
    BY <1>1, <1>2, <2>1 DEF At, from
  <2>2. CASE i # 1
    <3>1. i - 1 \in DOMAIN p /\ (from + 1 - (i - 1)) - 1 = from + 1 - i
      BY <1>1, <1>2, <1>4, <1>5, <2>2
    <3>2. At(p, c, i) = VersionBelow(reg, from + 1 - (i - 1))
      BY <1>3, <1>4, <2>2, <3>1 DEF At
    <3>3. CASE from + 1 - (i - 1) > 1
      <4>1. from + 1 - i \in DOMAIN reg
        BY <1>1, <1>2, <1>4, <3>1, <3>3
      <4>2. VersionBelow(reg, from + 1 - (i - 1)) = reg[(from + 1 - (i - 1)) - 1]
        BY <3>3, Zenon DEF VersionBelow
      <4>3. At(p, c, i) = reg[from + 1 - i]
        BY <3>1, <3>2, <4>2, Zenon
      <4> QED
        BY <4>1, <4>3, IndexOf
    <3>4. CASE ~(from + 1 - (i - 1) > 1)
      <4>1. from + 1 - i = 0
        BY <1>1, <1>2, <1>4, <3>1, <3>4
      <4> QED
        BY <3>2, <3>4, <4>1 DEF Known, Index, VersionBelow
    <3> QED
      BY <3>3, <3>4
  <2> QED
    BY <2>1, <2>2
<1>6. ASSUME NEW i \in DOMAIN p
      PROVE  p[i].migration = reg[from + 1 - i] /\ p[i].migration = At(p, c, i)
  <2>1. p[i].migration = reg[from + 1 - i] /\ from + 1 - i \in DOMAIN reg
    BY <1>3, <1>4, <1>6
  <2>2. i \in 1 .. Len(p) + 1
    BY <1>1, <1>2, <1>4, <1>6
  <2> QED
    BY <1>5, <2>1, <2>2, IndexOf, SameIndex
<1>7. Lands(p, c, t)
  <2>1. Len(p) + 1 \in 1 .. Len(p) + 1 /\ from + 1 - (Len(p) + 1) = to
    BY <1>1, <1>2, <1>4
  <2>2. Known(reg, At(p, c, Len(p) + 1)) /\ Index(reg, At(p, c, Len(p) + 1)) = Index(reg, t)
    BY <1>5, <2>1 DEF to
  <2> QED
    BY <2>2, SameIndex DEF Lands
<1> QED
  BY <1>4, <1>5, <1>6, <1>7 DEF from, to

-----------------------------------------------------------------------------
(* What holds of every plan.                                               *)

\* A plan that has been made leads between two known versions.
LEMMA MadePlan ==
  ASSUME PhaseInv, phase = "planned"
  PROVE  /\ IsRegistry(registry) /\ target \in Versions \cup {Base}
         /\ Known(registry, input.current) /\ Known(registry, target)
         /\ \/ /\ input.direction = "up"
               /\ Index(registry, input.current) <= Index(registry, target)
               /\ plan = UpPlan(registry, Index(registry, input.current),
                                Index(registry, target))
            \/ /\ input.direction = "down"
               /\ Index(registry, target) <= Index(registry, input.current)
               /\ plan = DownPlan(registry, Index(registry, input.current),
                                  Index(registry, target))
<1>1. Normalized /\ Resolved /\ HasPlan /\ plan = NewPlan
  BY DEF PhaseInv
<1>2. IsRegistry(registry) /\ target \in Versions \cup {Base} /\ Known(registry, target)
  BY <1>1, ResolvedKnown
<1> QED
  BY <1>1, <1>2 DEF HasPlan, Ordered, NewPlan

\* Every variable has its type.
THEOREM TypeCorrect == Spec => []TypeOK
<1>1. ASSUME PhaseInv PROVE TypeOK
  <2>1. registry \in Seq(Versions) /\ target \in Versions \cup {Base}
    <3>1. CASE registry = <<>> /\ target = Base
      BY <3>1
    <3>2. CASE Normalized
      <4>1. IsRegistry(registry)
        BY <1>1, <3>2, NormalizedVersions DEF PhaseInv, InputOK, Normalized, IsRegistry
      <4>2. target = Base \/ Resolved
        BY <1>1 DEF PhaseInv
      <4> QED
        BY <1>1, <3>2, <4>1, <4>2, ResolvedKnown DEF IsRegistry
    <3> QED
      BY <1>1, <3>1, <3>2 DEF PhaseInv
  <2>2. plan \in Seq(PlanSteps)
    <3>1. CASE phase = "planned"
      BY <1>1, <3>1, MadePlan, UpPlanned, DownPlanned
    <3>2. CASE phase # "planned"
      BY <1>1, <3>2 DEF PhaseInv
    <3> QED
      BY <3>1, <3>2
  <2>3. phase \in {"normalize", "resolve", "plan", "planned", "error"}
    BY <1>1 DEF PhaseInv
  <2> QED
    BY <2>1, <2>2, <2>3 DEF TypeOK, PlanSteps
<1> QED
  BY InitPhase, NextPhase, <1>1, PTL DEF Spec

\* For every registry, in whatever order and with whatever strings, and for
\* every call: the plan ends at the target and runs no migration twice, and a
\* plan down reverts the version it is at.
THEOREM LandsOnTarget == Spec => []PlanLandsOnTarget
<1>1. ASSUME PhaseInv, phase = "planned"
      PROVE  /\ Lands(plan, input.current, target)
             /\ \A i, j \in DOMAIN plan : plan[i].migration = plan[j].migration => i = j
             /\ input.direction = "down" =>
                  \A i \in DOMAIN plan : plan[i].migration = At(plan, input.current, i)
  <2> DEFINE from == Index(registry, input.current)
  <2>1. IsRegistry(registry) /\ from \in Nat
    BY <1>1, MadePlan, IndexKnown DEF IsRegistry
  <2>2. plan \in Seq(PlanSteps)
    BY <1>1, MadePlan, UpPlanned, DownPlanned
  <2>3. CASE input.direction = "up"
    <3>1. /\ Lands(plan, input.current, target)
          /\ \A i \in DOMAIN plan : /\ from + i \in DOMAIN registry
                                    /\ plan[i].migration = registry[from + i]
      BY <1>1, <2>3, MadePlan, UpPlanned
    <3> HIDE DEF from
    <3>2. ASSUME NEW i \in DOMAIN plan, NEW j \in DOMAIN plan,
                 plan[i].migration = plan[j].migration
          PROVE  i = j
      <4>1. from + i = from + j
        BY <2>1, <3>1, <3>2 DEF IsRegistry
      <4> QED
        BY <2>1, <2>2, <4>1
    <3> QED
      BY <2>3, <3>1, <3>2
  <2>4. CASE input.direction = "down"
    <3>1. /\ Lands(plan, input.current, target)
          /\ \A i \in DOMAIN plan : /\ from + 1 - i \in DOMAIN registry
                                    /\ plan[i].migration = registry[from + 1 - i]
                                    /\ plan[i].migration = At(plan, input.current, i)
      BY <1>1, <2>4, MadePlan, DownPlanned
    <3> HIDE DEF from
    <3>2. ASSUME NEW i \in DOMAIN plan, NEW j \in DOMAIN plan,
                 plan[i].migration = plan[j].migration
          PROVE  i = j
      <4>1. from + 1 - i = from + 1 - j
        BY <2>1, <3>1, <3>2 DEF IsRegistry
      <4> QED
        BY <2>1, <2>2, <4>1
    <3> QED
      BY <3>1, <3>2
  <2> QED
    BY <1>1, <2>3, <2>4, MadePlan
<1>2. PhaseInv => PlanLandsOnTarget
  BY <1>1 DEF PlanLandsOnTarget
<1> QED
  BY InitPhase, NextPhase, <1>2, PTL DEF Spec

\* With the same registry, the way down from the target of a plan up is that
\* plan, last migration first, and ends where it began.
THEOREM DownReverts == Spec => []DownRevertsUp
<1>1. ASSUME PhaseInv, phase = "planned", input.direction = "up",
             NEW back,
             back = DownPlan(registry, Index(registry, target), Index(registry, input.current))
      PROVE  /\ [i \in DOMAIN back |-> back[i].migration] =
                  Reverse([i \in DOMAIN plan |-> plan[i].migration])
             /\ Lands(back, target, input.current)
  <2> DEFINE from == Index(registry, input.current)
             to   == Index(registry, target)
             ups  == [i \in DOMAIN plan |-> plan[i].migration]
  <2>1. from \in Nat /\ to \in Nat /\ from <= to /\ IsRegistry(registry)
    BY <1>1, MadePlan, IndexKnown DEF IsRegistry
  <2>2. /\ plan \in Seq(PlanSteps) /\ Len(plan) = to - from
        /\ \A i \in DOMAIN plan : plan[i].migration = registry[from + i]
    BY <1>1, MadePlan, UpPlanned
  <2>3. /\ back \in Seq(PlanSteps) /\ Len(back) = to - from
        /\ \A i \in DOMAIN back : back[i].migration = registry[to + 1 - i]
        /\ Lands(back, target, input.current)
    BY <1>1, MadePlan, DownPlanned
  <2> HIDE DEF from, to
  <2>4. DOMAIN plan = 1 .. to - from /\ DOMAIN back = 1 .. to - from
    BY <2>2, <2>3
  <2>5. ups \in Seq({plan[i].migration : i \in DOMAIN plan}) /\ Len(ups) = to - from
    BY <2>1, <2>4
  <2>6. Reverse(ups) = [i \in 1 .. to - from |-> ups[(to - from - i) + 1]]
    BY <2>5 DEF Reverse
  <2>7. ASSUME NEW i \in 1 .. to - from PROVE back[i].migration = ups[(to - from - i) + 1]
    <3>1. (to - from - i) + 1 \in DOMAIN plan /\ from + ((to - from - i) + 1) = to + 1 - i
      BY <2>1, <2>4, <2>7
    <3>2. ups[(to - from - i) + 1] = registry[from + ((to - from - i) + 1)]
      BY <2>2, <3>1
    <3>3. back[i].migration = registry[to + 1 - i]
      BY <2>3, <2>4, <2>7
    <3> QED
      BY <3>1, <3>2, <3>3, Zenon
  <2> HIDE DEF ups
  <2>8. [i \in DOMAIN back |-> back[i].migration] = Reverse(ups)
    BY <2>4, <2>6, <2>7
  <2> QED
    BY <2>3, <2>8 DEF ups
<1>2. PhaseInv => DownRevertsUp
  BY <1>1 DEF DownRevertsUp
<1> QED
  BY InitPhase, NextPhase, <1>2, PTL DEF Spec

-----------------------------------------------------------------------------
(* Positions and versions.                                                 *)

\* A registry whose versions ascend.
Ascending(reg) ==
  /\ IsRegistry(reg)
  /\ \A i, j \in DOMAIN reg : i < j => reg[i] < reg[j]

\* In it, places are in the order of the versions.
LEMMA IndexOrder ==
  ASSUME NEW reg, Ascending(reg), NEW u, Known(reg, u), NEW v, Known(reg, v)
  PROVE  /\ u \in ToSet(reg) \cup {Base} /\ u \in Nat
         /\ u < v  <=> Index(reg, u) < Index(reg, v)
         /\ u <= v <=> Index(reg, u) <= Index(reg, v)
<1>1. /\ IsRegistry(reg) /\ DOMAIN reg = 1 .. Len(reg) /\ Len(reg) \in Nat
      /\ \A i \in DOMAIN reg : reg[i] \in Nat /\ 0 < reg[i]
  BY NAssumption DEF Ascending, IsRegistry, Versions
<1>2. ASSUME NEW w, Known(reg, w)
      PROVE  /\ w \in Nat /\ Index(reg, w) \in Nat
             /\ Index(reg, w) = 0 <=> w = 0
             /\ Index(reg, w) # 0 => Index(reg, w) \in DOMAIN reg /\ reg[Index(reg, w)] = w
  <2>1. /\ Index(reg, w) \in 0 .. Len(reg)
        /\ Index(reg, w) = 0 <=> w = Base
        /\ Index(reg, w) # 0 => Index(reg, w) \in DOMAIN reg /\ reg[Index(reg, w)] = w
    BY <1>1, <1>2, IndexKnown
  <2> QED
    BY <1>1, <2>1 DEF Base
<1>3. ASSUME NEW w, Known(reg, w), NEW x, Known(reg, x), Index(reg, w) < Index(reg, x)
      PROVE  w < x
  <2>1. CASE Index(reg, w) = 0
    BY <1>1, <1>2, <1>3, <2>1
  <2>2. CASE Index(reg, w) # 0
    BY <1>2, <1>3, <2>2 DEF Ascending
  <2> QED
    BY <2>1, <2>2
<1>4. Index(reg, u) = Index(reg, v) <=> u = v
  BY <1>1, SameIndex
<1>5. u \in ToSet(reg) \cup {Base}
  BY DEF Known
<1> QED
  BY <1>2, <1>3, <1>4, <1>5

\* The smallest of the versions above one is at the next place, ...
LEMMA NextAbove ==
  ASSUME NEW reg, Ascending(reg), NEW u, Known(reg, u), NEW v, Known(reg, v),
         Index(reg, v) = Index(reg, u) + 1
  PROVE  Smallest({w \in ToSet(reg) : u < w}) = v
<1> DEFINE S == {w \in ToSet(reg) : u < w}
<1>1. ToSet(reg) \subseteq Versions /\ IsRegistry(reg)
  BY DEF Ascending, IsRegistry, ToSet
<1>2. Index(reg, u) \in Nat /\ Index(reg, v) # 0
  BY <1>1, IndexKnown DEF IsRegistry
<1>3. v \in S /\ v \in Nat
  <2>1. v # Base
    BY <1>1, <1>2, IndexKnown
  <2> QED
    BY <1>2, <2>1, IndexOrder DEF Known
<1>4. ASSUME NEW w \in S PROVE v <= w
  <2>1. Known(reg, w) /\ u < w
    BY DEF Known
  <2>2. Index(reg, u) < Index(reg, w) /\ Index(reg, w) \in 0 .. Len(reg)
    BY <1>1, <2>1, IndexOrder, IndexKnown
  <2>3. Index(reg, v) <= Index(reg, w)
    BY <1>2, <2>2
  <2> QED
    BY <2>1, <2>3, IndexOrder
<1>5. Smallest(S) \in S /\ \A w \in S : Smallest(S) <= w
  BY <1>1, <1>3, SmallestIsLeast
<1>6. Smallest(S) \in Nat
  BY <1>1, <1>5, NAssumption DEF Versions
<1> QED
  BY <1>3, <1>4, <1>5, <1>6

\* ... and the greatest of those below one at the place before.
LEMMA NextBelow ==
  ASSUME NEW reg, Ascending(reg), NEW u, Known(reg, u), NEW v, Known(reg, v),
         Index(reg, u) = Index(reg, v) + 1
  PROVE  Largest({w \in ToSet(reg) : w < u}) = v
<1> DEFINE S == {w \in ToSet(reg) : w < u}
<1>1. ToSet(reg) \subseteq Versions /\ IsRegistry(reg)
  BY DEF Ascending, IsRegistry, ToSet
<1>2. Index(reg, v) \in Nat /\ v \in Nat /\ v < u
  BY <1>1, IndexKnown, IndexOrder DEF IsRegistry
<1>3. ASSUME NEW w \in S PROVE w <= v
  <2>1. Known(reg, w) /\ w < u
    BY DEF Known
  <2>2. Index(reg, w) < Index(reg, u) /\ Index(reg, w) \in 0 .. Len(reg)
    BY <1>1, <2>1, IndexOrder, IndexKnown
  <2>3. Index(reg, w) <= Index(reg, v)
    BY <1>2, <2>2
  <2> QED
    BY <2>1, <2>3, IndexOrder
<1>4. CASE v = Base
  <2>1. S = {}
    <3> SUFFICES ASSUME NEW w \in S PROVE FALSE
      OBVIOUS
    <3>1. w <= 0 /\ w \in Versions
      BY <1>1, <1>3, <1>4 DEF Base
    <3> QED
      BY <3>1, NAssumption DEF Versions
  <2> QED
    BY <1>4, <2>1 DEF Largest
<1>5. CASE v # Base
  <2>1. v \in S
    BY <1>2, <1>5 DEF Known
  <2>2. Largest(S) \in S /\ \A w \in S : w <= Largest(S)
    BY <1>1, <2>1, LargestIsGreatest
  <2>3. Largest(S) \in Nat
    BY <1>1, <2>2, NAssumption DEF Versions
  <2> QED
    BY <1>2, <1>3, <2>1, <2>2, <2>3
<1> QED
  BY <1>4, <1>5

\* The head is the last.
LEMMA HeadIsLargest ==
  ASSUME NEW reg, Ascending(reg)
  PROVE  HeadTarget(reg) = Largest(ToSet(reg))
<1>1. /\ DOMAIN reg = 1 .. Len(reg) /\ Len(reg) \in Nat /\ reg \in Seq(Versions)
      /\ \A i \in DOMAIN reg : reg[i] \in Nat
      /\ ToSet(reg) \subseteq Versions
  BY NAssumption DEF Ascending, IsRegistry, Versions, ToSet
<1>2. CASE reg = <<>>
  BY <1>2 DEF HeadTarget, Largest, ToSet
<1>3. CASE reg # <<>>
  <2>1. Len(reg) \in DOMAIN reg
    BY <1>1, <1>3
  <2>2. reg[Len(reg)] \in ToSet(reg) /\ reg[Len(reg)] \in Nat
    BY <1>1, <2>1 DEF ToSet
  <2>3. /\ Largest(ToSet(reg)) \in ToSet(reg) /\ Largest(ToSet(reg)) \in Nat
        /\ \A w \in ToSet(reg) : w <= Largest(ToSet(reg))
    BY <1>1, <2>2, LargestIsGreatest, NAssumption DEF Versions
  <2>4. PICK i \in DOMAIN reg : reg[i] = Largest(ToSet(reg))
    BY <2>3 DEF ToSet
  <2>5. reg[i] <= reg[Len(reg)]
    <3>1. CASE i = Len(reg)
      BY <2>2, <3>1
    <3>2. CASE i # Len(reg)
      BY <1>1, <2>1, <3>2 DEF Ascending
    <3> QED
      BY <3>1, <3>2
  <2>6. reg[Len(reg)] = Largest(ToSet(reg))
    BY <2>2, <2>3, <2>4, <2>5
  <2> QED
    BY <1>3, <2>6 DEF HeadTarget, Last
<1> QED
  BY <1>2, <1>3

-----------------------------------------------------------------------------
(* The plan as a walk.                                                     *)

\* The registry that MigrationTargets sees is the normalized one.
LEMMA CallRegistry ==
  ASSUME PhaseInv, Normalized, ~Untrimmed
  PROVE  Ascending(registry) /\ Call.registry = ToSet(registry)
BY NormalizedVersions
   DEF PhaseInv, InputOK, Normalized, Untrimmed, Ascending, IsRegistry, Call

\* The goal is what resolveMigrationTarget returns, when it returns a target.
LEMMA ResolvedGoal ==
  ASSUME PhaseInv, Normalized, ~Untrimmed
  PROVE  /\ Resolved => Goal(Call) = target /\ Resolvable(Call)
         /\ Asked /\ ~Known(registry, input.target) => ~Resolvable(Call)
<1>1. Ascending(registry) /\ Call.registry = ToSet(registry)
  BY CallRegistry
<1>2. Call.target = input.target /\ Call.direction = input.direction
  BY DEF Call
<1>3. HeadTarget(registry) = Largest(Call.registry)
  BY <1>1, HeadIsLargest
<1>4. input.target \in Versions \cup {Base, Unset, HeadVersion}
  BY DEF PhaseInv, InputOK
<1>5. /\ Unset \notin Versions /\ HeadVersion \notin Versions /\ Base \notin Versions
      /\ Unset # HeadVersion /\ Base # Unset /\ Base # HeadVersion
  BY NAssumption DEF Unset, HeadVersion, Versions, Base
<1>6. CASE Asked
  BY <1>1, <1>2, <1>4, <1>5, <1>6 DEF Asked, Resolved, Resolvable, Goal, Known
<1>7. CASE ~Asked
  BY <1>2, <1>3, <1>5, <1>7 DEF Asked, Resolved, Resolvable, Goal
<1> QED
  BY <1>6, <1>7

\* There is a plan for the call exactly when migrationPlan has one.
LEMMA PlannableIsPlan ==
  ASSUME PhaseInv, Normalized, Resolved, ~Untrimmed
  PROVE  HasPlan <=> Plannable(Call, input.current)
<1>1. Ascending(registry) /\ Call.registry = ToSet(registry) /\ Call.direction = input.direction
  BY CallRegistry DEF Call
<1>2. Goal(Call) = target /\ Resolvable(Call) /\ Known(registry, target)
  BY ResolvedGoal, ResolvedKnown
<1>3. Known(registry, input.current) <=> input.current \in Call.registry \cup {Base}
  BY <1>1 DEF Known
<1>4. CASE Known(registry, input.current)
  <2>1. /\ input.current <= target <=>
             Index(registry, input.current) <= Index(registry, target)
        /\ target <= input.current <=>
             Index(registry, target) <= Index(registry, input.current)
    BY <1>1, <1>2, <1>4, IndexOrder
  <2> QED
    BY <1>1, <1>2, <1>3, <1>4, <2>1 DEF HasPlan, Ordered, Plannable
<1>5. CASE ~Known(registry, input.current)
  BY <1>3, <1>5 DEF HasPlan, Plannable
<1> QED
  BY <1>4, <1>5

\* A plan takes the step that Planned and After describe at every version.
LEMMA PlanWalks ==
  ASSUME PhaseInv, phase = "planned", ~Untrimmed, NEW i \in DOMAIN plan,
         NEW c, c = At(plan, input.current, i)
  PROVE  /\ c # Goal(Call)
         /\ plan[i] = [migration |-> Planned(Call, c), currentAfter |-> After(Call, c)]
<1> DEFINE from == Index(registry, input.current)
           to   == Index(registry, target)
           next == At(plan, input.current, i + 1)
<1>1. Normalized /\ Resolved
  BY DEF PhaseInv
<1>2. /\ Ascending(registry) /\ Call.registry = ToSet(registry)
      /\ Call.direction = input.direction /\ Goal(Call) = target
  BY <1>1, CallRegistry, ResolvedGoal DEF Call
<1>3. plan \in Seq(PlanSteps)
  BY MadePlan, UpPlanned, DownPlanned
<1>4. /\ from \in Nat /\ to \in Nat /\ Known(registry, target)
      /\ \A j \in DOMAIN registry : registry[j] \in Versions
  BY MadePlan, IndexKnown DEF IsRegistry
<1>5. /\ DOMAIN plan = 1 .. Len(plan) /\ Len(plan) \in Nat /\ i \in Nat
      /\ i \in 1 .. Len(plan) + 1 /\ i + 1 \in 1 .. Len(plan) + 1 /\ i + 1 # 1 /\ (i + 1) - 1 = i
  BY <1>3
<1>6. next = plan[i].currentAfter
  BY <1>5 DEF At
<1>7. plan[i] = [migration |-> plan[i].migration, currentAfter |-> next]
  <2>1. plan[i] \in PlanSteps
    BY <1>3
  <2> HIDE DEF next
  <2> QED
    BY <1>6, <2>1 DEF PlanSteps
<1> HIDE DEF next
<1>8. CASE input.direction = "up"
  <2>1. /\ Len(plan) = to - from /\ from + i \in DOMAIN registry
        /\ plan[i].migration = registry[from + i]
        /\ plan[i].currentAfter = registry[from + i]
        /\ Known(registry, c) /\ Index(registry, c) = from + i - 1
    BY <1>5, <1>8, MadePlan, UpPlanned
  <2>2. c # target
    BY <1>4, <1>5, <2>1
  <2>3. /\ Known(registry, plan[i].migration)
        /\ Index(registry, plan[i].migration) = Index(registry, c) + 1
    <3>1. Index(registry, registry[from + i]) = from + i /\ Known(registry, registry[from + i])
      BY <1>2, <2>1, IndexOf DEF Ascending
    <3> QED
      BY <1>4, <1>5, <2>1, <3>1
  <2>4. plan[i].migration = Planned(Call, c)
    BY <1>2, <1>8, <2>1, <2>3, NextAbove DEF Planned
  <2>5. next = After(Call, c)
    BY <1>2, <1>6, <1>8, <2>1, <2>4 DEF After
  <2> QED
    BY <1>2, <1>7, <2>2, <2>4, <2>5
<1>9. CASE input.direction = "down"
  <2>1. /\ Len(plan) = from - to /\ plan[i].migration = c
        /\ Known(registry, c) /\ Index(registry, c) = from + 1 - i
        /\ Known(registry, next) /\ Index(registry, next) = from + 1 - (i + 1)
    BY <1>5, <1>9, MadePlan, DownPlanned DEF next
  <2>2. c # target
    <3>1. i <= Len(plan)
      BY <1>5
    <3>2. Index(registry, c) # to
      BY <1>4, <1>5, <2>1, <3>1
    <3> QED
      BY <3>2
  <2>3. Index(registry, c) = Index(registry, next) + 1
    BY <1>4, <1>5, <2>1
  <2>4. plan[i].migration = Planned(Call, c)
    BY <1>2, <1>9, <2>1 DEF Planned
  <2>5. next = After(Call, c)
    BY <1>2, <1>9, <2>1, <2>3, NextBelow DEF After
  <2> QED
    BY <1>2, <1>7, <2>2, <2>4, <2>5
<1> QED
  BY <1>8, <1>9, MadePlan

\* For every registry whose strings do not begin with a blank, the plan by
\* positions is the walk over versions that MigrationApply takes, and there is
\* one exactly when Plannable says so.
THEOREM IsTheWalk == Spec => []PlanIsTheWalk
<1>1. ASSUME PhaseInv, ~Untrimmed, phase = "planned"
      PROVE  /\ Plannable(Call, input.current)
             /\ Lands(plan, input.current, Goal(Call))
  <2>1. Normalized /\ Resolved /\ HasPlan
    BY <1>1 DEF PhaseInv
  <2>2. Lands(plan, input.current, target)
    BY <1>1, MadePlan, UpPlanned, DownPlanned
  <2> QED
    BY <1>1, <2>1, <2>2, PlannableIsPlan, ResolvedGoal
<1>2. ASSUME PhaseInv, ~Untrimmed, phase = "error", Acceptable(input.entries)
      PROVE  ~Plannable(Call, input.current)
  BY <1>2, PlannableIsPlan, ResolvedGoal DEF PhaseInv, Plannable
<1>3. PhaseInv => PlanIsTheWalk
  BY <1>1, <1>2, PlanWalks DEF PlanIsTheWalk
<1> QED
  BY InitPhase, NextPhase, <1>3, PTL DEF Spec
=============================================================================
