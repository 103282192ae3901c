SPECIFICATION Spec
CONSTANTS
    Text <- SomeTexts
    Garbage = {0}
    BUFSIZE = 16
    BUFMIN = 4
    NUL = "NUL"
INVARIANT ReadsAll
CHECK_DEADLOCK FALSE
