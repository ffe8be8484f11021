SPECIFICATION Spec
CONSTANTS
    Students = {s1, s2}
    Workers = {w1, w2}
    Rows = {r1, r2}
    TestQuestions = {1}
    Bank = {1}
    Choices = {"right", "wrong"}
    NoStudent = NoStudent
    NoWorker = NoWorker
    NoRow = NoRow
    ScheduleKind = "daily"
    OpensAt = 0
    ClosesAt = 2
    Duration = 1
    MaxAttempts = 2
    FreePreview = 1
    RightMarks = 4
    WrongMarks = 1
    Alongside = {}
    MaxTime = 1
SYMMETRY Symmetry
INVARIANTS
    OneLiveAttempt
    SequentialRank
    FinalizationsDoNotDeadlock
PROPERTIES
    ImplementsOfficial
