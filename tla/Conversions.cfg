SPECIFICATION Spec
CONSTANTS
  Symbols <- MCSymbols
  OrderKey <- MCOrderKey
  Sessions <- MCSessions
  MaxCalls = 1
INVARIANTS
  BuildKeepsMeaning
  NormalFormsKeepMeaning
  CNFKeepsModels
  TseitinDefinesOthers
  AbstractionInverse
  KeptFormsHold
CHECK_DEADLOCK FALSE
