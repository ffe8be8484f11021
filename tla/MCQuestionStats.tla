--------------------------- MODULE MCQuestionStats ---------------------------
(* Small instances of QuestionStats for TLC. *)
EXTENDS QuestionStats, TLC

CONSTANTS s1, s2, a1, a2, a3

\* One exam of each student.
OneEach == (a1 :> s1) @@ (a2 :> s2)

\* Two exams of the first student and one of the second.
TwoAndOne == (a1 :> s1) @@ (a2 :> s1) @@ (a3 :> s2)
=============================================================================
