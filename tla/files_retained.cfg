SPECIFICATION Spec
CONSTANTS
    KeepLast = 1
    MaxSteps = 1
    MaxReturn = 3
    MaxRuns = 2
    MaxDamage = 0
    MaxScored = 3
PROPERTIES BestRetained
