CONSTANTS
  Candidates = {c1, c2}
  Values = {v1}
  MaxRevision = 4
  MaxRestarts = 1
  Restarters = {c1, c2}
  Quitters = {c1}
  Proclaimers = {c2}
  Compactions = TRUE
  Failures = TRUE
SPECIFICATION Spec
INVARIANTS StreamIsQuiet
PROPERTIES ImplementsElection
CHECK_DEADLOCK FALSE
