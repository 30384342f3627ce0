SPECIFICATION Spec
CONSTANTS
    Keys = {1, 2}
    None = None
    HonoursOffset = TRUE
    ListsInKeyOrder = TRUE
    Writers = {w1}
    Scrubbers = {s1}
    Timelines <- MCBackdated
    BootTimeline <- MCBootSecond
    Stamp <- MCWhole
    BatchSize = 1
    MaxWrites = 0
    MaxOffset = 2
INVARIANTS JitReadComplete
