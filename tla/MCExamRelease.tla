---------------------------- MODULE MCExamRelease ----------------------------
EXTENDS ExamRelease, TLC

Symmetry == Permutations(Students) \cup Permutations(Attempts) \cup Permutations(Sessions)
==============================================================================
