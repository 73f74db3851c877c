SPECIFICATION Spec
CONSTANTS
    Gates = {TRUE, FALSE}
    Horizon = 2
    MaxUnconfirmed = 2
    MaxStep = 4
    MaxId = 3
    MaxChan = 2
    MaxGaps = 1
INVARIANTS NoStepTwice CreditIsControl TraceExact
