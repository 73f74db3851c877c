SPECIFICATION Spec
CONSTANTS
    Actors = {a1, a2}
    Horizon = 1
    QueueCap = 4
    MaxIssued = 1
    Budget = 0
    MaxEpoch = 1
    MaxId = 2
    MaxOptSteps = 1
SYMMETRY ActorSymmetry
INVARIANTS
    NoFatal OnPolicy AdmissionConserved NoDecisionTwice FenceProven
PROPERTIES PublishBehindBarrier
