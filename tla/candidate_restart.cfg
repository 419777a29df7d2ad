CONSTANTS
  Candidates = {c1, c2}
  Values = {v1, v2}
  MaxRevision = 5
  MaxRestarts = 1
  Restarters = {c2}
  Quitters = {c1}
  Proclaimers = {}
  Compactions = FALSE
  Failures = FALSE
SPECIFICATION MCSpec
INVARIANT ValuePublished
PROPERTIES ImplementsElection CandidateElected CallsReturn
CHECK_DEADLOCK FALSE
