SPECIFICATION SessionSpec
CONSTANTS
    s1 = s1
    s2 = s2
    Slots = {s1, s2}
    QuotedTexts <- McQuotedTexts
    Misread <- McMisread
    FreeNames <- McFreeNames
    InitialFiles <- McInitialFiles
    Statements <- McStatements
    MaxStatements = 4
    MaxSaves = 2
    None = None
INVARIANTS
    SavedReloads
    SavedParsesIffWritable
    SavingSettles
PROPERTIES
    CopiesCompareEqual
CHECK_DEADLOCK FALSE
