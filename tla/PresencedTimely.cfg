SPECIFICATION Spec
CONSTANTS
    Grace = 2
    Interval = 1
    MaxDetect = 1
    MaxDispatch = 1
    Horizon = 14
    Widths = {4}
    Heights = {3}
    Faults = {}
INVARIANTS
    AwayInTime
    RelitInTime
    ScreenFollowsFsm
PROPERTIES
    AwayMeansLeft
