SPECIFICATION Spec
CONSTANTS
    Bodies <- AllBodies
    Kinds <- AllKinds
INVARIANTS
    CodeIsSound
    CodeFollowsSource
CHECK_DEADLOCK FALSE
