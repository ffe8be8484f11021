SPECIFICATION Spec
CONSTANTS
    Students = {s1}
    Workers = {w1, w2}
    Rows = {r1, r2, r3}
    TestQuestions = {1}
    Bank = {1}
    Choices = {"right", "wrong"}
    NoStudent = NoStudent
    NoWorker = NoWorker
    NoRow = NoRow
    ScheduleKind = "open"
    OpensAt = 0
    ClosesAt = 9
    Duration = 1
    MaxAttempts = 2
    FreePreview = 0
    RightMarks = 4
    WrongMarks = 1
    Alongside = {}
    MaxTime = 3
SYMMETRY Symmetry
INVARIANTS ReviewAgreesWithScore
