SPECIFICATION Spec
CONSTANTS
    Keys = {1, 2}
    None = None
    HonoursOffset = TRUE
    ListsInKeyOrder = TRUE
    Writers = {w1, w2}
    Scrubbers = {s1}
    Timelines <- MCAppended
    BootTimeline <- MCBootFirst
    Stamp <- MCWhole
    BatchSize = 1
    MaxWrites = 2
    MaxOffset = 2
PROPERTIES ScrubNeverOverwritesLiveUpdates
