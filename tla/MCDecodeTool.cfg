SPECIFICATION Spec
CONSTANTS
    DataSize = 2
    Bytes <- McBytes
    CommandLines <- McCommandLines
    Lines <- McLines
    MaxLines = 2
    None = None
INVARIANTS
    TypeOK
    PrintedOnlySelected
    AllSelectedPrinted
PROPERTIES
    EveryLineAnswered
CHECK_DEADLOCK FALSE
