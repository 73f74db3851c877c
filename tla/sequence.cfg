SPECIFICATION Spec
CONSTANTS
  Graphs <- MCGraphs
  LifeRules = {"reset", "preserve"}
  Boundaries = {"CONTINUE", "LIFE", "GAP"}
  BatchSizes = {1, 2}
  BurnIn = 1
  Bptt = 2
  MaxBurnIn = 1
  MaxBptt = 2
  MaxAlterations = 2
CHECK_DEADLOCK FALSE
INVARIANTS ManifestExact PredictionsExact ContinuationExact
