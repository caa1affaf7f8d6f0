CONSTANTS
    Workers = {w1, w2}
    Producers = {p1, p2}
    Tasks = {t1, t2, t3, t4}
    NoTask = NoTask
    QueueSize = 2
SPECIFICATION FairSpec
INVARIANTS
    TypeOK
    NoTaskBehindSleepers
    NoSlotBehindSleepers
PROPERTIES
    ImplementsDispatcher
    AcceptedTasksStart
    FullQueueDrains
    StopReturns
