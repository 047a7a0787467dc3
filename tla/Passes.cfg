SPECIFICATION MCSpec
CONSTANTS
  Colliding = {"a", "b"}
  Statics <- MCStatics
  Shapes <- MCShapes
  NoClaim = NoClaim
  MaxBuilt = 9
  MaxStored = 5
  MaxRounds = 3
  MaxCalls = 2
  MaxChanges = 2
INVARIANTS InternedOnce
PROPERTIES ClearTakesTheRest CallsAnswer
CHECK_DEADLOCK FALSE
