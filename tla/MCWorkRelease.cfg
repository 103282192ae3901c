SPECIFICATION Spec
CONSTANTS
    Byte <- Bit
    Width <- Widths124
    Keep <- Keep124
    Key <- Key124
    Zero <- Zero124
    Draws <- FewDraws
    Builds = {FALSE}
    Lengths = {6}
    Depths <- OneDepth
INVARIANT
    Reversable
CHECK_DEADLOCK FALSE
