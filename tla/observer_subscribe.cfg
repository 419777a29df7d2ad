CONSTANTS
  Keys = {k1, k2}
  Values = {v1, v2}
  FirstValue = v1
  NoNode = NoNode
  Subscribers = {s1}
  MaxRevision = 3
  MaxFailures = 0
SPECIFICATION Spec
PROPERTY EverySubscriberLearns
CHECK_DEADLOCK FALSE
