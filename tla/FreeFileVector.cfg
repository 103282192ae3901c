SPECIFICATION FreeSpec
CONSTANTS
    Value = {"a", "b"}
    Hole = "hole"
    MaxLen = 3
INVARIANT
    BackIsLastPushed
CHECK_DEADLOCK FALSE
