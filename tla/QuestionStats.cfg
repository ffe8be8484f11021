SPECIFICATION Spec
CONSTANTS
    s1 = s1
    s2 = s2
    a1 = a1
    a2 = a2
    a3 = a3
    Students = {s1, s2}
    Questions = {q1}
    Options = {A, B}
    Right = {A}
    Attempts = {a1, a2, a3}
    Owner <- TwoAndOne
    NoOption = NoOption
    NoDraft = NoDraft
    LossyEnqueue = TRUE
    MaxAnswers = 3
    MaxEdits = 1
INVARIANTS PicksExact TotalExact
CHECK_DEADLOCK FALSE
