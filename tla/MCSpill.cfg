SPECIFICATION FairSpillSpec
CONSTANTS
    Value = {"a", "b"}
    Hole = "hole"
    NoAnswer = "no answer"
    Modes <- AllModes
    SpillAt = 2
    Totals = {1, 2, 3, 4, 5, 6}
INVARIANTS
    SpillIInv
    NeverPanics
    MemoryBounded
PROPERTIES
    ImplementsStack
    Returns
CHECK_DEADLOCK FALSE
