SPECIFICATION Spec
CONSTANTS
    Lengths = {1, 2}
    MaxSize = 3
    MaxBackups = 2
    MaxTime = 2
    MaxWrites = 5
    None = None
INVARIANTS LostOnlyByPruning
