\* The counter: plain operations, one that an async_op_tracer counts and that may start
\* after the shutdown, and the single waiter every owner in the code has.
CONSTANTS
  Ops = {o1, o2, t1}
  Tracers = {t1}
  Waiters = {w1}
  Urls = {1, 2, 3}
  MinDelay = 1
  MaxDelay = 3
  MaxFailures = 1
  MaxChanges = 2
  Calls = {a1, a2}
  Duration = 1
  MaxTime = 2
  Loggers = {th1}
  Sinks = {k1, k2}
  MaxSeverity = 2
  CompileMin = 1
  MaxSinks = 2
  Actives = {x1, x2, x3}
  Temp = Temp
  Queues = {q1, q2}
  NoQueue = NoQueue
  Servers = {1, 2, 3}
  NoServer = NoServer
  MaxTimeouts = 2
  MaxByte = 2
  MaxLen = 4
  MaxCalls = 6
SPECIFICATION Spec
INVARIANTS NoLostWakeup RefreshGoesOn LogDelivers QueuesAreOwned SurvivesFailures PureFunctions
PROPERTIES ImplementsCounter BlockReturns FollowsCluster FutureSettles TestEnds
CHECK_DEADLOCK FALSE
