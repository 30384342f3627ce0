SPECIFICATION FairSpec
CONSTANTS
    Users = {u1, u2}
    Types = {visit, like}
    Visit = visit
    Handlers = {h1, h2}
    ChanCap = 1
    FlushSize = 2
    MaxTracks = 3
    None = None
INVARIANTS TypeOK CountsConserved VisitsCountVisitors
PROPERTIES ImplementsQueue TrackReturns EverythingFlushed
