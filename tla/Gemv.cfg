\* Blocks of three, two and one tiles: partial, exact and several ones, with the
\* same program again and with another one, within a call and in the next.
SPECIFICATION Spec
CONSTANTS
    K_div_k = 3
    Depth = 2
    m = 2
    MAX_M_BLOCK = 6
    MaxRepeat = 3
    Shapes = {0, 2, 4, 7, 12, 14}
    MaxCalls = 2
INVARIANTS
    TypeOK
    TilesAreProducts
    CallEndsClean
    BlocksFit
    ReturnsProduct
PROPERTIES
    CallReturns
CHECK_DEADLOCK FALSE
