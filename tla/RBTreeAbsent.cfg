\* remove() is also called for keys the tree does not hold.
SPECIFICATION Spec
CONSTANTS
    MaxKey = 3
    Width = 16
    FalseRoot = FalseRoot
    Null = Null
    RemoveAbsent = TRUE
INVARIANTS
    KeepsLowest
CHECK_DEADLOCK FALSE
