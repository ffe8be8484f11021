SPECIFICATION Spec
CONSTANTS
    Sources = {s1, s2, s3}
    Durations = {1}
    Subscriptions = {1, 2, 3}
    TestRow = TestRow
    CourseRow = CourseRow
    NoRow = NoRow
    NoEnd = NoEnd
    Workers = {w1, w2}
    NoSource = NoSource
    MaxTime = 1
SYMMETRY Symmetry
PROPERTY RestoresPrevious
CHECK_DEADLOCK FALSE
