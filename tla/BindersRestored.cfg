SPECIFICATION ReadingSpec
CONSTANTS
  Name = {x}
  Sort = {int}
  Absent = Absent
  MaxOpen = 2
  MaxDepth = 2
PROPERTIES ShadowedRestored
CHECK_DEADLOCK FALSE
