SPECIFICATION Spec
CONSTANTS
    Slots = {s1, s2}
    Transitions = {"continuation", "generationStart", "gap", "lifeAfterGap"}
    Rows = {1, 2}
    BurnIn = 1
    Bptt = 2
    Sizes = {1}
    PageSize = 3
    FetchBytes = 2
    ReplayBytes = 2
    ReplayChunks = 2
    MaxSeq = 3
    MaxFaults = 2
    MaxRuns = 2
CHECK_DEADLOCK FALSE
INVARIANTS DisposedOnce NothingSkipped NeverRefused PinsReleased FetchAdvances WindowsSound
