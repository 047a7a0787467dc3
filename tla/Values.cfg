CONSTANTS
    OrderKey <- MCOrderKey
    Theory = "Int"
    Subjects = {"ints", "reals", "vectors", "deeper", "arrays", "strings", "pairs", "ones", "sets", "merges"}
SPECIFICATION Spec
INVARIANTS
    BuildKeepsValue
    EvaluateKeepsValue
    EvaluateComplete
    
    IntervalSetsExact
CHECK_DEADLOCK FALSE
