SPECIFICATION Spec
CONSTANTS
    Rows = {1, 2}
    Importers = {w1, w2}
    Clerks = {c1}
    NoRun = NoRun
    NoCopy = NoCopy
    NoRow = 0
    LongRuns = FALSE
    MaxCrashes = 1
    MaxEdits = 1
INVARIANTS OneRun OneQuestionPerRow RollbackLeavesNone
CHECK_DEADLOCK FALSE
SYMMETRY Handlers
