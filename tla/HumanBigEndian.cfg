SPECIFICATION FairSpec
CONSTANTS
    WordSize <- McWordSize
    Networks <- McBigEndian
INVARIANTS
    LayoutShowsDecodedBits
CHECK_DEADLOCK FALSE
