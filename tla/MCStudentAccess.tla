-------------------------- MODULE MCStudentAccess ----------------------------
(* A Mock Test with a session, a Grand Test with a window of its own that    *)
(* may be taken twice, a rescheduled test whose new session is a draft, one  *)
(* question, one course; for TLC.                                            *)
EXTENDS StudentAccess, TLC

CONSTANTS m, g, d, c

TypeOf == m :> "mock" @@ g :> "grand" @@ d :> "pyq"
Twice == [t \in Tests |-> 2]
Once == [t \in BySession |-> 1]
BeforeDraft == m :> 0 @@ d :> 1
InCourse == [t \in Tests |-> {c}]
NoBatch == [t \in Tests |-> {}]
Allowance == "mock_test" :> 2 @@ "qbank" :> 1 @@ "grand_test" :> 0
Bought == {"mock_test", g}
Free == DOMAIN Allowance
WorkerSymmetry == Permutations(Workers)
=============================================================================
