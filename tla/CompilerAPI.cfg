\* Trees of up to three nodes on one another, texts of up to three tokens and
\* expressions of up to eight.
SPECIFICATION Spec
CONSTANTS
    Names     <- MCNames
    TypeNames <- MCTypeNames
    Strings   <- MCStrings
    Literals  <- MCLiterals
    Operators <- MCOperators
    MaxHeight = 2
    Tokens    <- MCTokens
    MaxTokens = 3
    MaxOperands = 8
INVARIANTS
    RoundTrip
    Grouping
    NothingIsFree
CHECK_DEADLOCK FALSE
