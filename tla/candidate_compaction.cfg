CONSTANTS
  Candidates = {c1, c2}
  Values = {v1}
  MaxRevision = 5
  MaxRestarts = 0
  Restarters = {}
  Quitters = {}
  Proclaimers = {}
  Compactions = TRUE
  Failures = FALSE
SPECIFICATION Spec
PROPERTY CandidateElected
CHECK_DEADLOCK FALSE
