SPECIFICATION DeterminedSpec
CONSTANTS
    Item <- FloatItem
    Keep <- FloatKeep
    Key <- FloatKey
    Zero = "zero"
    Builds = {TRUE, FALSE}
    UpTo = TRUE
    Sizes = {0, 1, 2, 3}
    Depths <- FewDepths
INVARIANTS
    IInv
    RoundTrip
    EveryObjectMoves
PROPERTY
    ImplementsReversible
CHECK_DEADLOCK FALSE
