SPECIFICATION FairSpec
CONSTANTS
    Students = {s1}
    Workers = {w1, w2}
    Rows = {r1}
    TestQuestions = {1}
    Bank = {1}
    Choices = {"right"}
    NoStudent = NoStudent
    NoWorker = NoWorker
    NoRow = NoRow
    ScheduleKind = "daily"
    OpensAt = 0
    ClosesAt = 1
    Duration = 2
    MaxAttempts = 1
    FreePreview = 0
    RightMarks = 4
    WrongMarks = 1
    Alongside = {"practice", "statistics", "reschedule"}
    MaxTime = 1
PROPERTIES ExpiredIsSubmitted RequestsEnd
