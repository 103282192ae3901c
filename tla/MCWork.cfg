SPECIFICATION DeterminedSpec
CONSTANTS
    Byte <- Bit
    Width <- Widths124
    Keep <- Keep124
    Key <- Key124
    Zero <- Zero124
    Draws <- FewDraws
    Builds = {TRUE, FALSE}
    Lengths = {0, 1, 5, 8}
    Depths <- FewDepths
INVARIANTS
    TypeOK
    RoundTrip
    BytesConserved
    Recoverable
PROPERTY
    ImplementsReversible
CHECK_DEADLOCK FALSE
