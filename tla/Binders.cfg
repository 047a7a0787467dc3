SPECIFICATION MCSpec
CONSTANTS
  Name = {x, y}
  Sort = {int, real}
  Absent = Absent
  MaxOpen = 3
  MaxDepth = 3
INVARIANTS BindersSeen DisciplinedBalanced DisciplinedResolves
PROPERTIES ImplementsStore
CHECK_DEADLOCK FALSE
