SPECIFICATION FairSpec
CONSTANTS
    Keys = {1, 2}
    None = None
    HonoursOffset = TRUE
    ListsInKeyOrder = FALSE
    Writers = {w1}
    Scrubbers = {s1, s2}
    Timelines <- MCSingle
    BootTimeline <- MCBootFirst
    Stamp <- MCWhole
    BatchSize = 2
    MaxWrites = 1
    MaxOffset = 2
PROPERTIES ScrubEnds
