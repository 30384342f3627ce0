SPECIFICATION FairSpec
CONSTANTS
    Keys = {1, 2}
    None = None
    HonoursOffset = FALSE
    ListsInKeyOrder = TRUE
    Writers = {w1}
    Scrubbers = {s1}
    Timelines <- MCAppended
    BootTimeline <- MCBootFirst
    Stamp <- MCWhole
    BatchSize = 1
    MaxWrites = 0
    MaxOffset = 2
PROPERTIES ScrubEnds
