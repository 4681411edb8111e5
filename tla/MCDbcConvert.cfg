SPECIFICATION FairSpec
CONSTANTS
    Names <- McNames
    BusNames <- McBusNames
    MessageElements <- McMessageElements
    Docs <- McDocs
    Commands <- McCommands
    QuotedTexts <- McQuotedTexts
    Misread <- McMisread
    FreeNames <- McFreeNames
INVARIANTS
    ReferencesDeclared
    LoadsIffResolvable
    NetworksAreBuses
    AutoSizeHoldsSignals
    
    ConvertsEveryFile
PROPERTIES
    CommandEnds
CHECK_DEADLOCK FALSE
