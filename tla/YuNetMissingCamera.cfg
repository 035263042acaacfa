\* Two widths and two heights make every kind of change: width, height, both.
SPECIFICATION Spec
CONSTANTS
    Widths = {2}
    Heights = {1}
INVARIANTS
    MissingCameraRaises
