SPECIFICATION FairSpec
CONSTANTS
  c1 = c1
  c2 = c2
  c3 = c3
  c4 = c4
  c5 = c5
  alice = alice
  bob = bob
  NoCall = NoCall
  Calls <- MCCalls
  Dests <- MCDests
  DestOf <- MCDestOf
  KindOf <- MCKindOf
  Hanging <- MCHanging
INVARIANTS
  TypeOK
  MutualExclusion
  ServedInOrder
  EntryIffInUse
PROPERTIES
  WaiterRuns
  ImplementsLock
CHECK_DEADLOCK FALSE
