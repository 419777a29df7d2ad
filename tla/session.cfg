CONSTANTS
  TTLs = {5, 10}
  MaxDelay = 1
  Failures = TRUE
SPECIFICATION Spec
INVARIANTS LeaseIsKept NothingOutstanding
PROPERTIES UsesCounter CallsReturn
CHECK_DEADLOCK FALSE
