SPECIFICATION Spec
CONSTANTS
    MaxLives = 2
    MaxStep = 2
    MaxReports = 4
    MaxId = 2
    MaxChan = 2
    MaxGaps = 1
    MaxFaults = 1
CHECK_DEADLOCK FALSE
INVARIANTS CoherentAccepted AdmittedOnce IntegrityExact
