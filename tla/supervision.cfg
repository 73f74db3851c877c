SPECIFICATION FairSpec
CONSTANTS
    Players = {actor, evaluator}
    Learner = learner
    Minibatches = 2
    MaxUpdates = 2
    MaxInterrupts = 2
CHECK_DEADLOCK FALSE
INVARIANTS NoOrphan PrimaryReported PublishedWhole
PROPERTY Settles
