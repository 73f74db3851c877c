SPECIFICATION Spec
CONSTANTS
    KeepLast = 1
    MaxSteps = 1
    MaxReturn = 2
    MaxRuns = 2
    MaxDamage = 2
    MaxScored = 2
INVARIANTS Coherent NothingLost BestExact
