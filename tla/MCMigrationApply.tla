-------------------------- MODULE MCMigrationApply --------------------------
(* Instances of MigrationApply: three versions, the second with two         *)
(* statements, of which the last may be repeated.                           *)
EXTENDS MigrationApply, TLC

MCStmts  == [v \in Versions |-> IF v = 2 THEN 2 ELSE 1]
MCStrict == Items \ {<<2, 2>>}

\* Builds that append: an old one with two versions and one with all.
Builds == {1 .. 2, 1 .. N}

\* Every call, of any build, inside transactions.
TxRequests == {q \in Request : q.tx /\ q.registry \in Builds}

\* Calls for the head, with and without transactions.
UpRequests ==
  {q \in Request : q.direction = "up" /\ q.target = HeadVersion /\ q.registry \in Builds}

\* Calls in both directions, by default to head and base.
BothWays ==
  {q \in Request : /\ q.direction \in {"up", "down"}
                   /\ q.target = Unset
                   /\ q.registry = Versions}

\* Builds of two branches: one registers version 2 without version 1.
DivergedRequests ==
  {q \in Request : /\ q.tx
                   /\ q.registry \in {{2}, {1, 2}, {1, 3}, Versions}
                   /\ q.target \in {Unset, HeadVersion, 1}}

RunnerSymmetry == Permutations(Runners)
=============================================================================
