SPECIFICATION Spec
CONSTANTS
    Components = {k1, text}
    CounterText = text
    Updaters = {u1}
    Clients = {c1}
    ChanCap = 1
    MaxUpdates = 2
    None = None
INVARIANTS AllNotified
