SPECIFICATION FairSpec
CONSTANTS
    Devices = {d1, d2}
    Workers = {w1, w2}
    MaxTries = 2
    NoDevice = NoDevice
    MaxEvents <- MCMaxEvents
INVARIANTS EmailOnce PushReachesAll
PROPERTIES RetriesEnd EmailSettles
CHECK_DEADLOCK FALSE
