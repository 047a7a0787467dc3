SPECIFICATION Spec
CONSTANTS
  Symbols <- MCSymbols
  OrderKey <- MCOrderKey
  Sessions <- ImplicationBelowXor
  MaxCalls = 1
INVARIANT TseitinDefines
CHECK_DEADLOCK FALSE
