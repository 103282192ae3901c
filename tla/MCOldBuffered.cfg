SPECIFICATION Spec
CONSTANTS
    Byte <- Bit
    NUL = 0
    Width <- Widths124
    Keep <- Keep124
    Key <- Key124
    Draws <- OneDraw
    Lengths = {0, 1, 5, 8}
    Modes = {"buffered"}
    Stacks = {8}
    Depths <- OneDepth
INVARIANT OldReverses
CHECK_DEADLOCK FALSE
