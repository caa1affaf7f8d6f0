CONSTANTS
    Entries = {e1, e2, e3}
    StartEntry = StartEntry
    CloseEntry = CloseEntry
    NoEntry = NoEntry
    MaxFailures = 1
SPECIFICATION FairSpec
INVARIANTS
    TypeOK
    NothingLostOrReordered
    ClosedLast
PROPERTIES
    EntriesWritten
    StopReturnsUnlessMissed
\* Each entry is logged once and a stopped log stays stopped.
CHECK_DEADLOCK FALSE
