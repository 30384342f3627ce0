SPECIFICATION FairSpec
CONSTANTS
    Components = {k1, text}
    CounterText = text
    Updaters = {u1, u2}
    Clients = {c1, c2}
    ChanCap = 1
    MaxUpdates = 3
    None = None
INVARIANTS TypeOK NoSendOnClosed SettledIsCurrent CountExact
PROPERTIES ShownNeverGoesBack UpdateReturns
