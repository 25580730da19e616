CONSTANTS
    Programs <- AllPrograms
    Primitives <- PrimitiveNames
SPECIFICATION Spec
INVARIANTS
    Accepted
    TemplatesIntact
    FaithfulCopies
    TreesAreOwned
    UsesResolve
CHECK_DEADLOCK FALSE
