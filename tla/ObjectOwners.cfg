SPECIFICATION Spec
CONSTANTS
    Kinds <- AllKinds
    Indicators <- OneIndicator
    MaxObjects = 5
    MaxPassed = 2
INVARIANTS
    TypeOK
    HandlesAreLive
    OneOwner
PROPERTY
    ImplementsTrees
CHECK_DEADLOCK FALSE
