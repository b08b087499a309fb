----------------------------- MODULE VersionLine -----------------------------
(***************************************************************************)
(* What a migration tool promises about the database it manages: the      *)
(* stored version and the schema move together, one whole migration at a   *)
(* time, along the line of the versions 1..N.                              *)
(***************************************************************************)
EXTENDS Integers

CONSTANTS
  N,     \* number of versions
  Parts  \* what each version puts into the schema

VARIABLES version, schema

Init == version = 0 /\ schema = {}

Up ==
  /\ version < N
  /\ version' = version + 1
  /\ schema' = schema \cup Parts[version + 1]

Down ==
  /\ 0 < version
  /\ version' = version - 1
  /\ schema' = schema \ Parts[version]

Next == Up \/ Down

Spec == Init /\ [][Next]_<<version, schema>>
=============================================================================
