SPECIFICATION FairSpec
CONSTANTS
    WordSize <- McWordSize
    Networks <- McNetworks
INVARIANTS
    CursorAligned
    LayoutShowsSignals
    TreeIsComplete
PROPERTIES
    PrintEnds
CHECK_DEADLOCK FALSE
