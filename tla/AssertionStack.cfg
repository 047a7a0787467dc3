SPECIFICATION ScopedSpec
CONSTANTS
  Node = {n1}
  Group = {g1, g2}
  NULL = NULL
  MaxLen = 2
  MaxDepth = 2
INVARIANTS ScopeInv
PROPERTIES ImplementsStore
