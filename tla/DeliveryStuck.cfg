SPECIFICATION FairSpec
CONSTANTS
  Msgs = {m1}
  MayThrow = {"init"}
  MayLose = {}
  MaxSessions = 2
  MaxFaults = 1
  MaxNudges = 0
PROPERTIES
  DeliversWhenBack
CHECK_DEADLOCK FALSE
