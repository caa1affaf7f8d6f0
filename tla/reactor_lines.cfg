CONSTANTS
    waits = waits
    hasty = hasty
    Clients = {waits, hasty}
    Patient = {waits}
    Lines <- LinesOf
    Slots = 2
    QueueSize = 1
    PoolSize = 1
    SendBuffer = 1
SPECIFICATION FairSpec
PROPERTIES
    EveryLineAnswered
CHECK_DEADLOCK FALSE
