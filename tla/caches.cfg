CONSTANTS
    One = one
    Two = two
    x = x
    y = y
    sorry = sorry
    no = no
    Timers <- BothTimers
    Interval <- Intervals
    Frequence = 15
    Workers = {w1}
    Keys <- TwoQueries
    Answer <- Dictionary
    MaxSize = 2
    FirstFiles <- Files
    Counted = {"query", "crash", "open"}
    MaxEvents = 2
    MaxCopy = 5
SPECIFICATION Spec
INVARIANTS
    TypeOK
    NoDanglingIterator
    FileIsOneCompleteCopy
CHECK_DEADLOCK FALSE
