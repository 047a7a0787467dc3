SPECIFICATION MCSpec
CONSTANTS
  Texts <- MCTexts
  Scripts <- MCScripts
  NULL = NULL
  MaxAsserts = 2
  MaxDepth = 2
  MaxLog = 3
INVARIANTS CachedRefutes OrderlyLogReplays OrderlyIndexLocates
PROPERTIES OrderlyTextConsumed
CHECK_DEADLOCK FALSE
