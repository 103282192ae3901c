SPECIFICATION GeneratorsSpec
CONSTANTS
    Item <- FloatItem
    Keep <- FloatKeep
    Key <- FloatKey
    Zero = "plus0"
    Builds = {TRUE, FALSE}
    Sizes = {0, 1, 2, 3, 4}
    P = 5
    RandBits = 3
    MaxArgument = 3
    MaxObjects = 33
INVARIANTS
    IInv
    SeedsFromObjects
    OnTape
    BoundOnlyAtOne
    EveryIndexReached
    JumpsAhead
PROPERTY
    StepInvertible
CHECK_DEADLOCK FALSE
