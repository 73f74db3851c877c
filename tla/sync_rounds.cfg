SPECIFICATION FairSpec
CONSTANTS
    Actors = {a1, a2}
    Horizon = 1
    QueueCap = 1
    MaxIssued = 1
    Budget = 1
    MaxEpoch = 1
    MaxId = 1
    MaxOptSteps = 1
INVARIANTS BudgetExact
PROPERTIES ImplementsRounds BarrierAdvances
