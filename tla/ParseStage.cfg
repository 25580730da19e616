\* Up to five files on one to four hardware threads.
SPECIFICATION Spec
CONSTANTS
    a = a
    b = b
    gone = gone
    Names = {a, b, gone}
    Unreadable = {gone}
    Sources <- MCSources
    Inputs <- AllInputs
INVARIANTS
    InOrder
    StableParsers
    ModulesChecked
