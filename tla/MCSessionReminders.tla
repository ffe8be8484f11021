------------------------- MODULE MCSessionReminders -------------------------
(* Small instances of SessionReminders for TLC. *)
EXTENDS SessionReminders, TLC

\* One reminder a unit before the start, one at the start.
MCOffset == [k \in Kinds |-> IF k = "before" THEN 1 ELSE 0]
Symmetry == Permutations(Workers)
=============================================================================
