CONSTANTS
  TTLs = {5}
  MaxDelay = 1
  Failures = FALSE
SPECIFICATION Spec
INVARIANT NoUseAfterDestroy
CHECK_DEADLOCK FALSE
