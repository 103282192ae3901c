SPECIFICATION OwnersSpec
CONSTANTS
    Slot = {s1, s2, s3}
    Fd = {f1, f2, f3}
    Addr = {a1, a2}
    Name = {n1, n2}
    None = None
    Block = {b1, b2, b3, b4}
    MaxNodes = 3
    NULL = NULL
    Bar = {p1, p2, p3}
    Columns = {8}
    Unit = 2
SYMMETRY Interchangeable
INVARIANTS
    OwnedOnce
    NothingLeft
    StoreIInv
    NoStoreFault
    StoreFreesAll
    LineEnded
    BarWithinOneCell
CHECK_DEADLOCK FALSE
