SPECIFICATION Spec
CONSTANTS
    Shadows = {TRUE, FALSE}
    Cadence = 1
    SaveEvery = 2
    MaxPending = 2
    Retain = 2
    ResumeAny = {FALSE}
    Lag = TRUE
    MaxForeign = 1
    MaxUpdates = 4
    MaxRuns = 3
    MaxSerial = 7
CHECK_DEADLOCK FALSE
INVARIANTS
    SameRequest HandoffConfirmed NoCandidateLost Recoverable
PROPERTY ImplementsHandoff
