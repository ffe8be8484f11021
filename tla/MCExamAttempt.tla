--------------------------- MODULE MCExamAttempt ---------------------------
(* Instances of ExamAttempt for TLC: the values of its constants are in the *)
(* configuration files, the symmetry of its identities is here.             *)
EXTENDS ExamAttempt, TLC

\* Students, workers and rows are interchangeable identities.
Symmetry == Permutations(Students) \cup Permutations(Workers) \cup Permutations(Rows)
=============================================================================
