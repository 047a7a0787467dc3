SPECIFICATION MCSpec
CONSTANTS
  VarName <- MCVarName
  FunName <- MCFunName
  SortName <- MCSortName
  ScriptFun <- MCScriptFun
  ScriptSort <- MCScriptSort
  Sort <- MCSort
  Absent = Absent
  MaxDepth = 2
  MaxVars = 2
  MaxFuns = 12
  MaxSorts = 4
INVARIANTS DeclaredListed DisciplinedOneSpelling DisciplinedDumpReadsBack OneCommandPerGroup
PROPERTIES DisciplinedImplementsStore
