SPECIFICATION Spec
CONSTANTS
    Grace = 2
    Interval = 1
    MaxDetect = 1
    MaxDispatch = 1
    Horizon = 8
    Widths = {4}
    Heights = {3, 6}
    Faults = {"model", "camera", "detector", "hyprctl", "setup"}
INVARIANTS
    TypeOK
    StopInTime
    ObservedCameraOpen
    DetectorSized
    LeavesNothing
PROPERTIES
    AwayOnlyAfterGrace
    StopIsHonoured
    PolicySpec
