SPECIFICATION FairSpec
CONSTANTS
  Owners = {p1, p2}
  Variants = 2
  MaxAttempt = 3
  MaxFaults = 2
CHECK_DEADLOCK FALSE
INVARIANTS ArchiveFresh MeasuredSound
PROPERTIES CompletedKept Finishes
