\* Two faults, so that one may meet another half way through resign().
CONSTANTS
  Processes = {p1, p2}
  NoLeader = NoLeader
  MaxFaults = 2
SPECIFICATION Spec
PROPERTIES ImplementsElection NoneLeftBehind InterruptEnds Succession LeaderIsShown
CHECK_DEADLOCK FALSE
