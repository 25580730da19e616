\* Trees of up to nine keys; only keys that are present are removed.
SPECIFICATION Spec
CONSTANTS
    MaxKey = 9
    Width = 16
    FalseRoot = FalseRoot
    Null = Null
    RemoveAbsent = FALSE
INVARIANTS
    Balanced
    Iterates
    KeepsLowest
