----------------------------- MODULE ImportBatch -----------------------------
(***************************************************************************)
(* What the two background tasks of a bulk-question upload share: its rows *)
(* and the status of the batch.  ImportSearch looks for duplicates among   *)
(* the rows, ImportRun makes questions of them.                            *)
(***************************************************************************)
EXTENDS Integers, FiniteSets

CONSTANTS
    Rows,           \* row numbers
    MaxCrashes,     \* bound: handlers that break off and rows that fail
    MaxEdits        \* bound: edits and removals of rows, late verdicts

ASSUME BatchAssumption ==
    /\ Rows \subseteq Nat /\ IsFiniteSet(Rows)
    /\ MaxCrashes \in Nat /\ MaxEdits \in Nat

VARIABLES
    status,         \* ImportBatch.status
    crashes, edits

\* The admin may pick a subject, decide on duplicates and confirm.
Editable == status \in {"ready", "failed"}
=============================================================================
