CONSTANTS
  Keys = {k1, k2}
  Values = {v1, v2}
  FirstValue = v1
  NoNode = NoNode
  Subscribers = {s1}
  MaxRevision = 4
  MaxFailures = 1
SPECIFICATION Spec
INVARIANTS ViewIsCurrent SubscribersInformed
PROPERTIES ImplementsView EventuallyCurrent DestructorReturns
CHECK_DEADLOCK FALSE
