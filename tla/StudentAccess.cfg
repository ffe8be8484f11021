SPECIFICATION Spec
CONSTANTS
    m = m
    g = g
    d = d
    c = c
    Tests = {m, g, d}
    Type <- TypeOf
    Pro = {m, g}
    Limit <- Twice
    Preview = {}
    Timed = {m, g, d}
    BySession = {m, d}
    Unpublished = {d}
    SessionLimit <- Once
    Earlier <- BeforeDraft
    Courses = {c}
    CoursesOf <- InCourse
    BatchesOf <- NoBatch
    Drafts = {}
    Assigned = {m, d}
    NeedsReview = {g}
    Questions = {q1}
    Policies <- Free
    Quantity <- Allowance
    Quota = 2
    Products <- Bought
    Workers = {w1, w2}
    NoItem = NoItem
    MaxCrashes = 1
    MaxChanges = 4
SYMMETRY WorkerSymmetry
INVARIANTS StarterWithinAllowance OpensBounded QuotaExact CardIsHonoured
CHECK_DEADLOCK FALSE
