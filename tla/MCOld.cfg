SPECIFICATION Spec
CONSTANTS
    Byte <- Bit
    NUL = 0
    Width <- Widths124
    Keep <- Keep124
    Key <- Key124
    Draws <- OneDraw
    Lengths = {0, 1, 5, 8}
    Modes = {"inplace", "buffered", "string"}
    Stacks = {3, 8}
    Depths <- FewDepths
INVARIANTS
    OldTypeOK
    OldRoundTrip
    CrashKeepsBytes
    KilledLosesAWord
CHECK_DEADLOCK FALSE
