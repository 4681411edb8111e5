SPECIFICATION Spec
CONSTANTS
    Owners <- McOwners
    Asts <- McAsts
INVARIANTS
    TypeOK
    NetworkIsOwnerScan
CHECK_DEADLOCK FALSE
