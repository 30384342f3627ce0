SPECIFICATION Spec
CONSTANTS
    Keys = {1, 2}
    None = None
    HonoursOffset = TRUE
    ListsInKeyOrder = TRUE
    Writers = {w1}
    Scrubbers = {s1}
    Timelines <- MCSingle
    BootTimeline <- MCBootFirst
    Stamp <- MCHalf
    BatchSize = 1
    MaxWrites = 1
    MaxOffset = 2
INVARIANTS EvolvedIsLatest
