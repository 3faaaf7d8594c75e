SPECIFICATION Spec
CONSTANTS
    MaxGen = 2
    FifoCap = 1
INVARIANTS
    ChipFollowsOwner
PROPERTIES
    OnAirInOrder
    DrainedBeforeLeaving
    LockComesBack
