SPECIFICATION Spec
CONSTANTS
    Process = {p1, p2}
    N = 3
    Item = {1, 2, 3}
    Tape <- AllTapes
INVARIANTS
    TypeOK
    LostOnlyInRace
    SeedsOfWhole
    OneAfterTheOther
PROPERTY
    AllReturn
CHECK_DEADLOCK FALSE
