SPECIFICATION Spec
CONSTANTS
    Kinds <- AllKinds
    Indicators <- OneIndicator
    MaxObjects = 4
    MaxPassed = 2
INVARIANT
    PartsWherePassed
CHECK_DEADLOCK FALSE
