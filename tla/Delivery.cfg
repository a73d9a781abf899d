SPECIFICATION Spec
CONSTANTS
  Msgs = {m1, m2}
  MayThrow = {"fetch", "init", "boot", "flush", "send"}
  MayLose = {}
  MaxSessions = 2
  MaxFaults = 1
  MaxNudges = 1
CONSTRAINT Explored
INVARIANTS
  TypeOK
  DeliveredMeansStored
  NeverForgotten
  ShownOnce
PROPERTIES
  ImplementsCourier
CHECK_DEADLOCK FALSE
