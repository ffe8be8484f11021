SPECIFICATION FairSpec
CONSTANTS
    Kinds = {"before", "starting"}
    Offset <- MCOffset
    Length = 0
    Starts = {1, 2}
    Workers = {w1, w2}
    NoEntry = NoEntry
    MaxTime = 2
    MaxEvents = 2
INVARIANTS NeverEarly RemindersMatch EveryReminderComes StatusTellsDelivery
CHECK_DEADLOCK FALSE
PROPERTIES DueIsDispatched
