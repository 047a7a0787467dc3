SPECIFICATION MCSpec
CONSTANTS
  Texts <- MCTexts
  Numbers <- MCNumbers
  Names <- MCNames
  UserFuns <- MCUserFuns
  Constructors <- MCConstructors
  KeepAnnotations = TRUE
  MaxTexts = 2
INVARIANTS ReadsWhatWasWritten ModeRestored SkipsAsItReads
PROPERTIES Terminates
CHECK_DEADLOCK FALSE
