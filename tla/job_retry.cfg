SPECIFICATION Spec
CONSTANTS
    Shadows = {TRUE}
    Cadence = 1
    SaveEvery = 2
    MaxPending = 2
    Retain = 2
    ResumeAny = {}
    Lag = FALSE
    MaxForeign = 0
    MaxUpdates = 3
    MaxRuns = 3
    MaxSerial = 7
CHECK_DEADLOCK FALSE
INVARIANT OwnSegmentAccepted
