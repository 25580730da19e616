\* The programs of StructTypes.cfg: does the stage refuse every type that
\* contains itself?
CONSTANTS
    A = A
    B = B
    I = I
    J = J
    None = None
    Names = {1, 2}
    Structs = {A, B, I, J}
    Instances = {I, J}
    Programs <- MCPrograms
SPECIFICATION Spec
INVARIANT CircularTypesRefused
CHECK_DEADLOCK FALSE
