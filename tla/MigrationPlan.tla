---------------------------- MODULE MigrationPlan ----------------------------
(***************************************************************************)
(* What ApplyMigrations of src/migrations/apply.go computes before it      *)
(* touches the database: the registry is normalized, the target resolved   *)
(* and the plan made, by position in the sorted registry.  MigrationApply  *)
(* uses the set operators of MigrationTargets instead; PlanIsTheWalk says  *)
(* when the two agree.                                                     *)
(*                                                                         *)
(* A version string is [lead, key]: its digits, key, after a blank or not  *)
(* (a string of blanks only has key 0).  A blank sorts before every digit. *)
(***************************************************************************)
EXTENDS MigrationTargets, Sequences, SequencesExt

CONSTANTS
  Entries,    \* what a registry is made of: see Entry
  MaxEntries, \* bound: entries of a registry
  Currents,   \* versions that may be stored
  Targets,    \* targets that may be asked for
  Directions

Entry == [lead : BOOLEAN, key : 0 .. N, up : BOOLEAN, down : BOOLEAN]

ASSUME PlanAssumption ==
  /\ Entries \subseteq Entry
  /\ MaxEntries \in Nat
  /\ Currents \subseteq Versions \cup {Base}
  /\ Targets \subseteq Versions \cup {Base, Unset, HeadVersion}
  /\ Directions \subseteq {"up", "down", "sideways"}

VARIABLES
  input,    \* [entries, current, target, direction]
  phase,    \* "normalize", "resolve", "plan", "planned" or "error"
  registry, \* the normalized registry: a sequence of versions
  target,   \* the resolved target
  plan      \* a sequence of [migration, currentAfter]

vars == <<input, phase, registry, target, plan>>

\* normalizeMigrationRegistry: sorted by the strings as they were given, ...
Before(a, b) == \/ a.lead /\ ~b.lead
                \/ a.lead = b.lead /\ a.key < b.key

\* ... then trimmed, and refused when a version is empty, comes twice or lacks
\* a function
Orders(n) == Injection(1 .. n, 1 .. n)

Sorted(es) ==
  LET order == CHOOSE p \in Orders(Len(es)) :
                 \A i, j \in DOMAIN es : i < j => ~Before(es[p[j]], es[p[i]])
  IN  [i \in DOMAIN es |-> es[order[i]]]

Trimmed(es) == [i \in DOMAIN es |-> es[i].key]

\* Mutant of Acceptable: a version of blanks only is let through.
AcceptableBlank(es) == \A i, j \in DOMAIN es : es[i].key = es[j].key => i = j

Acceptable(es) ==
  /\ \A i \in DOMAIN es : es[i].key # 0 /\ es[i].up /\ es[i].down
  /\ \A i, j \in DOMAIN es : es[i].key = es[j].key => i = j

\* migrationIndex and migrationVersionIndex: 0 is the base
Index(reg, v) == IF v = Base THEN 0 ELSE CHOOSE i \in DOMAIN reg : reg[i] = v
Known(reg, v) == v = Base \/ v \in ToSet(reg)

HeadTarget(reg) == IF reg = <<>> THEN Base ELSE Last(reg)

VersionBelow(reg, at) == IF at > 1 THEN reg[at - 1] ELSE Base

\* Mutants of UpPlan and DownPlan: the last migration is left out, the version
\* reverted stays the current one, and migrations are reverted first to last.
UpPlanShort(reg, from, to) ==
  [i \in 1 .. to - from - 1 |->
     [migration |-> reg[from + i], currentAfter |-> reg[from + i]]]

DownPlanKeepsVersion(reg, from, to) ==
  [i \in 1 .. from - to |->
     [migration |-> reg[from + 1 - i], currentAfter |-> reg[from + 1 - i]]]

DownPlanForwards(reg, from, to) ==
  [i \in 1 .. from - to |->
     [migration |-> reg[to + i], currentAfter |-> VersionBelow(reg, to + i)]]

UpPlan(reg, from, to) ==
  [i \in 1 .. to - from |->
     [migration |-> reg[from + i], currentAfter |-> reg[from + i]]]

DownPlan(reg, from, to) ==
  [i \in 1 .. from - to |->
     [migration |-> reg[from + 1 - i], currentAfter |-> VersionBelow(reg, from + 1 - i)]]

Init ==
  /\ \E es \in BoundedSeq(Entries, MaxEntries), c \in Currents,
        t \in Targets, d \in Directions :
       input = [entries |-> es, current |-> c, target |-> t, direction |-> d]
  /\ phase = "normalize"
  /\ registry = <<>>
  /\ target = Base
  /\ plan = <<>>

Normalize ==
  /\ phase = "normalize"
  /\ IF Acceptable(input.entries)
     THEN /\ phase' = "resolve"
          /\ registry' = Trimmed(Sorted(input.entries))
     ELSE /\ phase' = "error"
          /\ UNCHANGED registry
  /\ UNCHANGED <<input, target, plan>>

\* resolveMigrationTarget
Resolve ==
  /\ phase = "resolve"
  /\ \/ /\ input.target \in {Unset, HeadVersion}
        /\ target' = IF input.target = Unset /\ input.direction = "down"
                     THEN Base ELSE HeadTarget(registry)
        /\ phase' = "plan"
     \/ /\ input.target \notin {Unset, HeadVersion}
        /\ Known(registry, input.target)
        /\ target' = input.target
        /\ phase' = "plan"
     \/ /\ input.target \notin {Unset, HeadVersion}
        /\ ~Known(registry, input.target)
        /\ phase' = "error"
        /\ UNCHANGED target
  /\ UNCHANGED <<input, registry, plan>>

\* migrationPlan
Ordered(reg, c, t, d) ==
  \/ d = "up"   /\ Index(reg, c) <= Index(reg, t)
  \/ d = "down" /\ Index(reg, t) <= Index(reg, c)

HasPlan == /\ Known(registry, input.current)
           /\ Ordered(registry, input.current, target, input.direction)

NewPlan ==
  LET from == Index(registry, input.current)
      to   == Index(registry, target)
  IN  IF input.direction = "up" THEN UpPlan(registry, from, to) ELSE DownPlan(registry, from, to)

Plan ==
  /\ phase = "plan"
  /\ \/ HasPlan /\ plan' = NewPlan /\ phase' = "planned"
     \/ ~HasPlan /\ phase' = "error" /\ UNCHANGED plan
  /\ UNCHANGED <<input, registry, target>>

Ended == phase \in {"planned", "error"} /\ UNCHANGED vars

Next == Normalize \/ Resolve \/ Plan \/ Ended

Spec == Init /\ [][Next]_vars

-----------------------------------------------------------------------------
(* Properties.                                                             *)

\* The call as MigrationTargets sees it.
Call == [registry  |-> {input.entries[i].key : i \in DOMAIN input.entries},
         direction |-> input.direction,
         target    |-> input.target,
         tx        |-> TRUE]

Untrimmed == \E i \in DOMAIN input.entries : input.entries[i].lead

\* The version before the i-th migration of a plan that starts at c.
At(p, c, i) == IF i = 1 THEN c ELSE p[i - 1].currentAfter

Lands(p, c, t) == At(p, c, Len(p) + 1) = t

\* Every variable has its type.
TypeOK ==
  /\ phase \in {"normalize", "resolve", "plan", "planned", "error"}
  /\ registry \in Seq(Versions)
  /\ target \in Versions \cup {Base}
  /\ plan \in Seq([migration : Versions, currentAfter : Versions \cup {Base}])

\* The plan by positions in the sorted registry is the walk that takes the
\* next registered version above (the stored one, going down) until the target
\* is reached, and there is no plan exactly when Plannable says so.  This is
\* what lets MigrationApply do without positions.  Version strings that begin
\* with a blank are excluded: they are sorted before they are trimmed.
PlanIsTheWalk ==
  ~Untrimmed =>
    /\ phase = "planned" =>
         /\ Plannable(Call, input.current)
         /\ \A i \in DOMAIN plan :
              LET c == At(plan, input.current, i)
              IN  /\ c # Goal(Call)
                  /\ plan[i] = [migration    |-> Planned(Call, c),
                                currentAfter |-> After(Call, c)]
         /\ Lands(plan, input.current, Goal(Call))
    /\ phase = "error" /\ Acceptable(input.entries) => ~Plannable(Call, input.current)

\* Whatever the strings are, a plan leads from the stored version to the target
\* and executes no migration twice.
PlanLandsOnTarget ==
  phase = "planned" =>
    /\ Lands(plan, input.current, target)
    /\ \A i, j \in DOMAIN plan : plan[i].migration = plan[j].migration => i = j
    /\ input.direction = "down" =>
         \A i \in DOMAIN plan : plan[i].migration = At(plan, input.current, i)

\* Going up and then down again, with the same registry, runs the Down of
\* exactly the migrations whose Up ran, last first, and ends where it began.
DownRevertsUp ==
  phase = "planned" /\ input.direction = "up" =>
    LET back == DownPlan(registry, Index(registry, target), Index(registry, input.current))
    IN  /\ [i \in DOMAIN back |-> back[i].migration] =
              Reverse([i \in DOMAIN plan |-> plan[i].migration])
        /\ Lands(back, target, input.current)
-----------------------------------------------------------------------------
(* The inductive invariant: what each phase has computed.                  *)

InputOK ==
  /\ input.entries \in Seq(Entry)
  /\ input.current \in Versions \cup {Base}
  /\ input.target \in Versions \cup {Base, Unset, HeadVersion}
  /\ input.direction \in {"up", "down", "sideways"}

Normalized ==
  /\ Acceptable(input.entries)
  /\ registry = Trimmed(Sorted(input.entries))

Asked == input.target \notin {Unset, HeadVersion}

Resolved ==
  IF Asked
  THEN Known(registry, input.target) /\ target = input.target
  ELSE target = IF input.target = Unset /\ input.direction = "down"
                THEN Base ELSE HeadTarget(registry)

PhaseInv ==
  /\ InputOK
  /\ phase \in {"normalize", "resolve", "plan", "planned", "error"}
  /\ phase # "planned" => plan = <<>>
  /\ phase \in {"normalize", "resolve"} => target = Base
  /\ phase = "normalize" => registry = <<>>
  /\ phase \in {"resolve", "plan", "planned"} => Normalized
  /\ phase \in {"plan", "planned"} => Resolved
  /\ phase = "planned" => HasPlan /\ plan = NewPlan
  /\ phase = "error" =>
       \/ ~Acceptable(input.entries) /\ registry = <<>> /\ target = Base
       \/ /\ Normalized
          /\ \/ Asked /\ ~Known(registry, input.target) /\ target = Base
             \/ Resolved /\ ~HasPlan
=============================================================================
