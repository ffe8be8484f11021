SPECIFICATION MediaSpec
CONSTANTS
    Names = {small}
    Original = original
    Workers = {w1, w2}
    MaxUploads = 2
    MaxCrashes = 1
SYMMETRY WorkerSymmetry
INVARIANTS ReadyIsShown AnsweredIsSettled
CHECK_DEADLOCK FALSE
