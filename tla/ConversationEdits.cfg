SPECIFICATION ConvSpec
CONSTANTS
  NoOp = NoOp
  MaxEdits = 2
  MaxReactions = 0
  MaxSessions = 0
  MaxSetbacks = 0
  Builds = {{"edit"}}
INVARIANT NewestEditWins
CHECK_DEADLOCK FALSE
