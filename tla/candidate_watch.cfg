CONSTANTS
  Candidates = {c1, c2, c3}
  Values = {v1}
  MaxRevision = 5
  MaxRestarts = 0
  Restarters = {}
  Quitters = {}
  Proclaimers = {}
  Compactions = FALSE
  Failures = FALSE
SPECIFICATION Spec
INVARIANTS OneLeader NeverStranded
PROPERTY CandidateElected
CHECK_DEADLOCK FALSE
