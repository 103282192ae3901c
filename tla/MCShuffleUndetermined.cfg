SPECIFICATION FairSpec
CONSTANTS
    Item <- NanItem
    Keep = {"zero"}
    Key <- NanKey
    Zero = "zero"
    Builds = {TRUE, FALSE}
    UpTo = TRUE
    Sizes = {0, 1, 2, 3}
    Depths <- OneDepth
INVARIANTS
    ObjectsConserved
    DrawsAlign
PROPERTY
    CallsReturn
CHECK_DEADLOCK FALSE
