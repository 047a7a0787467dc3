SPECIFICATION MCSpec
CONSTANTS
  Name = {a, b, c}
  Node = {p, q}
  NoName = NoName
  NoNode = NoNode
  MaxDepth = 2
  MaxDisplaced = 5
INVARIANTS DisciplinedScopesUndo
PROPERTIES NamingKeepsBijection OuterBindingsSurvive DisciplinedImplementsStore
