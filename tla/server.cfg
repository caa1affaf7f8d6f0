CONSTANTS
    first = first
    second = second
    Clients = {first, second}
    Lines <- LinesOf
    Answer <- Dictionary
    Apology <- Sorry
    ConfFiles <- Files
    Unset <- Zero
    Atoi <- Numerals
    QueueSize = 2
    PoolSize = 2
    MaxSize = 1
    MaxFaults = 1
SPECIFICATION Spec
INVARIANTS
    TypeOK
    AnswersExplained
    OvertakesOnlyRunning
    ClosedWhenAnswered
CHECK_DEADLOCK FALSE
