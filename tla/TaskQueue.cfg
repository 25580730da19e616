\* Five cells: lists up to length five, with every pattern of reuse of addresses.
SPECIFICATION Spec
CONSTANTS
    Cells = {a1, a2, a3, a4, a5}
    Null = Null
INVARIANTS
    NoLeakNoDangling
PROPERTIES
    ImplementsFifo
