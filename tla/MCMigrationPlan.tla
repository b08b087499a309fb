--------------------------- MODULE MCMigrationPlan ---------------------------
(* Registries of up to three entries over four versions, one of which may   *)
(* lack its Up or its Down function.                                        *)
EXTENDS MigrationPlan

MCEntries ==
  {e \in Entry : e.up /\ e.down} \cup
  {e \in Entry : e.key = 1 /\ ~e.lead /\ e.up # e.down}
MCCurrents   == Versions \cup {Base}
MCTargets    == Versions \cup {Base, Unset, HeadVersion}
MCDirections == {"up", "down", "sideways"}
=============================================================================
