CONSTANTS
    One = one
    Two = two
    x = x
    y = y
    sorry = sorry
    no = no
    Timers <- BothTimers
    Interval <- Intervals
    Frequence = 15
    Workers = {w1}
    Keys <- OneWordQueries
    Answer <- Dictionary
    MaxSize = 2
    FirstFiles <- NoFile
    Counted = {"crash", "open"}
    MaxEvents = 0
    MaxCopy = 2
SPECIFICATION Spec
INVARIANTS
    SlaveIsACopy
CHECK_DEADLOCK FALSE
