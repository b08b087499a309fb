------------------------- MODULE MCRevisionCommand -------------------------
(* Instances of RevisionCommand: two terminals, two comments.                *)
EXTENDS RevisionCommand

CommandSymmetry == Permutations(Commands)
=============================================================================
