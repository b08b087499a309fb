-------------------------- MODULE MigrationTargets --------------------------
(***************************************************************************)
(* Targets and plans of src/migrations/apply.go as functions of one call   *)
(* of ApplyMigrations and of the version that is stored.                   *)
(*                                                                         *)
(* A migration version is a number in 1..N, in the order of the version    *)
(* strings, and Base is the empty version.  A registry is the set of the   *)
(* versions one build of the program registers: the code refuses           *)
(* duplicates and sorts what is left.  MigrationPlan has the plans as the  *)
(* code computes them, by position in the sorted registry.                 *)
(***************************************************************************)
EXTENDS Integers, FiniteSets

CONSTANT N  \* number of migration versions that any build knows

ASSUME NAssumption == N \in Nat

Versions == 1 .. N
Base     == 0
Unset    == -2    \* target "": head or base, by direction
HeadVersion == -3    \* target "head"

Request == [registry  : SUBSET Versions,
            direction : {"up", "down", "sideways"},
            target    : Versions \cup {Base, Unset, HeadVersion},
            tx        : BOOLEAN]

Largest(S)  == IF S = {} THEN Base ELSE CHOOSE v \in S : \A w \in S : w <= v
Smallest(S) == CHOOSE v \in S : \A w \in S : v <= w

\* resolveMigrationTarget: the version a call is to reach ...
Goal(q) == IF q.target = Unset
           THEN IF q.direction = "down" THEN Base ELSE Largest(q.registry)
           ELSE IF q.target = HeadVersion THEN Largest(q.registry) ELSE q.target

\* ... and whether it is a registered one
Resolvable(q) == q.target \in Versions => q.target \in q.registry

\* migrationPlan has a plan from the stored version c
Plannable(q, c) ==
  /\ Resolvable(q)
  /\ c \in q.registry \cup {Base}
  /\ \/ q.direction = "up"   /\ c <= Goal(q)
     \/ q.direction = "down" /\ Goal(q) <= c

\* Mutant of Planned: a plan that starts from the beginning of the registry.
PlannedFromStart(q, c) == IF q.direction = "up"
                          THEN Smallest({v \in q.registry : v # c})
                          ELSE c

\* The migration the plan has at version c, and its currentAfter.
Planned(q, c) == IF q.direction = "up"
                 THEN Smallest({v \in q.registry : c < v})
                 ELSE c

\* Mutant of After: one migration too far down.
AfterOffByOne(q, c) == IF q.direction = "up" THEN Planned(q, c) ELSE c - 2

After(q, c)   == IF q.direction = "up"
                 THEN Planned(q, c)
                 ELSE Largest({v \in q.registry : v < c})
=============================================================================
