\* Every program of the three families of MCModules.
SPECIFICATION FairSpec
CONSTANTS
    a = a
    b = b
    c = c
    lib_b = lib_b
    gone = gone
    x = x
    y = y
    z = z
    Main = Main
    NoFile = NoFile
    NoId = NoId
    Files <- ThreeFiles
    Names <- AllNames
    Ids = {x, y, z}
    Resolve <- Resolved
    Programs <- AllPrograms
INVARIANTS
    AnswersAgree
    ActivatedRight
    CTOnlyIsHidden
PROPERTIES
    ImplementsOrder
    Terminates
CHECK_DEADLOCK FALSE
