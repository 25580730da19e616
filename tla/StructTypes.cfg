\* Two structs and two template instances; every way they can extend, contain
\* and name each other within the bounds of MCPrograms.
CONSTANTS
    A = A
    B = B
    I = I
    J = J
    None = None
    Names = {1, 2}
    Structs = {A, B, I, J}
    Instances = {I, J}
    Programs <- MCPrograms
SPECIFICATION Spec
INVARIANTS
    CheckIsExact
    LayoutFollowsBase
    StageCompletes
PROPERTY
    Terminates
CHECK_DEADLOCK FALSE
