SPECIFICATION Spec
CONSTANTS
    Components = {k1, text}
    CounterText = text
    Updaters = {u1, u2}
    Clients = {c1}
    ChanCap = 3
    MaxUpdates = 2
    None = None
INVARIANTS IncrementsCounted
