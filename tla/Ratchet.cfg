SPECIFICATION Spec
CONSTANTS
  MaxSkip = 2
  MaxStored = 2
  MaxAge = 0
  MaxMsgs = 5
  MaxTime = 1
INVARIANTS
  TypeOK
  ReplayRefused
  UsedKeysErased
  UnreadStaysReadable
  OldestForgottenFirst
  MessageKeysDistinct
CHECK_DEADLOCK FALSE
