---------------------------- MODULE MCImportSearch ---------------------------
(* Small instances of ImportSearch for TLC. *)
EXTENDS ImportSearch

CONSTANT A

\* One row duplicates a question of the first subject, the other of the rest.
Overlapping == [s \in Subjects |-> IF s = A THEN {1} ELSE {2}]
=============================================================================
