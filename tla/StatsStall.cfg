SPECIFICATION FairSpec
CONSTANTS
    s1 = s1
    s2 = s2
    a1 = a1
    a2 = a2
    a3 = a3
    Students = {s1, s2}
    Questions = {q1}
    Options = {A, B, C}
    Right = {A}
    Attempts = {a1, a2}
    Owner <- OneEach
    NoOption = NoOption
    NoDraft = NoDraft
    LossyEnqueue = FALSE
    MaxAnswers = 4
    MaxEdits = 0
PROPERTIES TasksApply
CHECK_DEADLOCK FALSE
