----------------------- MODULE MigrationTargetsProofs -----------------------
(* What a plan does to the version, for every registry and every call.      *)
EXTENDS MigrationTargets, ListProofs

\* Largest and Smallest pick a bound of a non-empty set of versions.
LEMMA SmallestIsLeast ==
  ASSUME NEW S \in SUBSET Versions, S # {}
  PROVE  Smallest(S) \in S /\ \A w \in S : Smallest(S) <= w
<1>1. \E x \in S : \A y \in S : x <= y
  BY LeastNat, NAssumption DEF Versions
<1> QED
  BY <1>1 DEF Smallest

\* The head of a registry is its greatest version.
LEMMA LargestIsGreatest ==
  ASSUME NEW S \in SUBSET Versions, S # {}
  PROVE  Largest(S) \in S /\ \A w \in S : w <= Largest(S)
<1> DEFINE T == {N - w : w \in S}
<1>1. T \in SUBSET Nat /\ T # {}
  BY NAssumption DEF Versions
<1>2. PICK x \in T : \A y \in T : x <= y
  BY <1>1, LeastNat
<1>3. PICK v \in S : x = N - v
  OBVIOUS
<1>4. \A w \in S : w <= v
  <2> TAKE w \in S
  <2>1. N - v <= N - w
    BY <1>2, <1>3
  <2> QED
    BY <2>1, NAssumption DEF Versions
<1> QED
  BY <1>4 DEF Largest

\* The target of a call that has a plan is registered or the base.
LEMMA GoalRegistered ==
  ASSUME NEW q \in Request, Resolvable(q)
  PROVE  Goal(q) \in q.registry \cup {Base}
<1>1. q.registry \in SUBSET Versions /\ q.target \in Versions \cup {Base, Unset, HeadVersion}
  BY DEF Request
<1>2. Largest(q.registry) \in q.registry \cup {Base}
  BY <1>1, LargestIsGreatest DEF Largest
<1> QED
  BY <1>1, <1>2 DEF Goal, Resolvable

\* The target of a call is a version or the base.
LEMMA GoalIsVersion ==
  ASSUME NEW q \in Request
  PROVE  Goal(q) \in Versions \cup {Base}
<1>1. q.registry \in SUBSET Versions /\ q.target \in Versions \cup {Base, Unset, HeadVersion}
  BY DEF Request
<1>2. Largest(q.registry) \in Versions \cup {Base}
  BY <1>1, LargestIsGreatest DEF Largest
<1> QED
  BY <1>1, <1>2 DEF Goal

-----------------------------------------------------------------------------
\* A plan that is not empty executes a registered migration and leaves a plan
\* for what remains; each migration of it brings the version nearer to the
\* target without passing it.
THEOREM PlanStep ==
  ASSUME NEW q \in Request, NEW c, Plannable(q, c), c # Goal(q)
  PROVE  /\ Planned(q, c) \in q.registry
         /\ After(q, c) \in q.registry \cup {Base}
         /\ Plannable(q, After(q, c))
         /\ q.direction = "up"   => c < After(q, c) /\ After(q, c) <= Goal(q)
         /\ q.direction = "down" => After(q, c) < c /\ Goal(q) <= After(q, c)
<1>1. q.registry \in SUBSET Versions
  BY DEF Request
<1>2. c \in Versions \cup {Base} /\ c \in q.registry \cup {Base}
  BY <1>1 DEF Plannable
<1>3. Goal(q) \in q.registry \cup {Base}
  BY GoalRegistered DEF Plannable
<1>4. CASE q.direction = "up"
  <2> DEFINE S == {v \in q.registry : c < v}
  <2>1. c < Goal(q)
    BY <1>1, <1>2, <1>3, <1>4, NAssumption DEF Plannable, Versions, Base
  <2>2. Goal(q) \in S
    BY <1>1, <1>2, <1>3, <2>1, NAssumption DEF Versions, Base
  <2>3. Smallest(S) \in S /\ \A w \in S : Smallest(S) <= w
    BY <1>1, <2>2, SmallestIsLeast
  <2>4. Planned(q, c) = Smallest(S) /\ After(q, c) = Smallest(S)
    BY <1>4 DEF Planned, After
  <2> QED
    BY <1>4, <2>2, <2>3, <2>4 DEF Plannable
<1>5. CASE q.direction = "down"
  <2> DEFINE S == {v \in q.registry : v < c}
  <2>1. Goal(q) < c
    BY <1>1, <1>2, <1>3, <1>5, NAssumption DEF Plannable, Versions, Base
  <2>2. c \in q.registry /\ Planned(q, c) = c
    BY <1>1, <1>2, <1>3, <1>5, <2>1, NAssumption DEF Planned, Versions, Base
  <2>3. After(q, c) = Largest(S)
    BY <1>5 DEF After
  <2>4. CASE S = {}
    <3>1. After(q, c) = Base
      BY <2>3, <2>4 DEF Largest
    <3>2. Goal(q) = Base
      BY <1>3, <2>1, <2>4
    <3> QED
      BY <1>5, <2>1, <2>2, <3>1, <3>2 DEF Plannable, Base
  <2>5. CASE S # {}
    <3>1. Largest(S) \in S /\ \A w \in S : w <= Largest(S)
      BY <1>1, <2>5, LargestIsGreatest
    <3>2. Goal(q) <= Largest(S)
      BY <1>1, <1>3, <2>1, <3>1, NAssumption DEF Versions, Base
    <3> QED
      BY <1>5, <2>2, <2>3, <3>1, <3>2 DEF Plannable
  <2> QED
    BY <2>4, <2>5
<1> QED
  BY <1>4, <1>5 DEF Plannable
=============================================================================
