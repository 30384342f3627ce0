SPECIFICATION Spec
CONSTANTS
    Keys = {1, 2}
    None = None
    HonoursOffset = TRUE
    ListsInKeyOrder = FALSE
    Writers = {w1}
    Scrubbers = {s1}
    Timelines <- MCAppended
    BootTimeline <- MCBootFirst
    Stamp <- MCWhole
    BatchSize = 1
    MaxWrites = 0
    MaxOffset = 2
INVARIANTS ScrubUpgradesUndeleted
