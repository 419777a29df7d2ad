CONSTANTS
  Candidates = {c1, c2}
  Values = {v1}
  MaxRevision = 5
  MaxRestarts = 0
  Restarters = {}
  Quitters = {c1}
  Proclaimers = {}
  Compactions = FALSE
  Failures = FALSE
SPECIFICATION Spec
INVARIANT DestroyedIsQuiet
CHECK_DEADLOCK FALSE
