SPECIFICATION LoadedSpec
CONSTANTS
    Kinds <- MuxKinds
    Indicators <- AllIndicators
    MaxObjects = 20
    MaxPassed = 2
INVARIANTS
    MuxSignalIsOwn
    ParentMessageFinds
PROPERTIES
    PartsStayPut
    KeepsTrees
CHECK_DEADLOCK FALSE
