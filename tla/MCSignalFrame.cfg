SPECIFICATION FairSpec
CONSTANTS
    s1 = s1
    s2 = s2
    NoSignal = absent
    absent = absent
    Signals = {s1, s2}
    Geometries <- McGeometries
    MessageSize = 9
    RawValues <- McRawValues
    Frames <- McFrames
    Surroundings <- McSurroundings
INVARIANTS
    TypeOK
    EncodedValueReadsBack
    EncodeInBounds
PROPERTIES
    EncodeKeepsOtherBits
    ImplementsRegisters
    EncodeReturns
