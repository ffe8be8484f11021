----------------------------- MODULE MCPayment ------------------------------
(* Small instances of Payment for TLC. *)
EXTENDS Payment, TLC

\* Threads are only compared; so are students, who are all referred here.
ThreadsAndStudents == Permutations(Workers) \cup Permutations(Users)

=============================================================================
