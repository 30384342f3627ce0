SPECIFICATION Spec
CONSTANTS
    Paths = {p1, p2}
    Chunks <- MCChunks
    Requests = {r1, r2}
    MaxCalls = 6
    None = None
SYMMETRY Symmetry
INVARIANTS
    TypeOK
    RecordedIsWhole
    SessionUntilRecorded
    OneSession
