SPECIFICATION Spec
CONSTANTS
    c1 = c1
    c2 = c2
    r = r
    Child = {c1, c2}
    Root = r
    Parent <- ChainParent
    Call = {k1, k2}
    NoCall = NoCall
    MaxInbox = 1
CHECK_DEADLOCK FALSE
INVARIANTS
    TypeOK
    OwnershipIsExact
    DrainIsFinal
PROPERTIES
    Settles
