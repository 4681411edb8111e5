SPECIFICATION Spec
CONSTANTS
    s1 = s1
    NoSignal = absent
    absent = absent
    Signals = {s1}
    Geometries <- McGeometries
    MessageSize = 13
    RawValues = {}
    Frames <- McFrames
    Surroundings <- McSurroundings
INVARIANT
    GeneratedCompiles
