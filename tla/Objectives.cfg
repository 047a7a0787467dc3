SPECIFICATION MCSpec
CONSTANTS
  Objective = {o1, o2, o3}
  Name = {a, b}
  NULL = NULL
  MaxDepth = 2
INVARIANTS NoDangling
PROPERTIES PopNeverMisnames DisciplinedImplementsStore
