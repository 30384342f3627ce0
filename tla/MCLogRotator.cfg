SPECIFICATION Spec
CONSTANTS
    Lengths = {1, 2}
    MaxSize = 3
    MaxBackups = 1
    MaxTime = 3
    MaxWrites = 5
    None = None
INVARIANTS LostOnlyTwoWays PrunedOldestFirst
