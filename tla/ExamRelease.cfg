SPECIFICATION ReleaseSpec
CONSTANTS
    u1 = u1
    Students = {u1}
    Attempts = {a1, a2}
    Sessions = {s1, s2}
    NoStudent = NoStudent
    NoSession = NoSession
    NoTime = NoTime
    NoForm = NoForm
    Duration = 2
    MaxAttempts = 2
    ReviewDays = 1
    MaxTime = 3
    MaxEdits = 2
INVARIANTS
    AnswersBeforeSolutions
    NeverSitsAfterSolutions
PROPERTIES
    AdoptionKeepsRights
SYMMETRY Symmetry
CHECK_DEADLOCK FALSE
