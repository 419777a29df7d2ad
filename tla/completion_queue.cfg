CONSTANTS
  Ops = {o1, o2}
  NoOp = NoOp
  MaxStarted = 3
SPECIFICATION Spec
INVARIANTS OutstandingIsRegistered
PROPERTIES ImplementsCalls CallbackRuns FutureReady ShutdownReturns
CHECK_DEADLOCK FALSE
