CONSTANTS
  Confs <- MCConfs
  Scores = {0, 1}
  NaN = NaN
  Params <- MCParams
  MaxJobs = 2
SPECIFICATION Spec
INVARIANTS BestIsBest GradientsApplied StopsWhenStale
PROPERTY KeepsACheckpoint
