SPECIFICATION FairSpec
CONSTANTS
  Msgs = {m1}
  MayThrow = {}
  MayLose = {"init", "send", "flush", "reset"}
  MaxSessions = 2
  MaxFaults = 1
  MaxNudges = 0
PROPERTIES
  GetsThrough
CHECK_DEADLOCK FALSE
