\* llama-speculative.service sets no TimeoutStopSec: systemd's default.
SPECIFICATION Spec
CONSTANT
    MaxStop = 90
INVARIANTS
    NoSideEffects
    SoloIsSolo
    SuccessIsCopied
    SurvivalIsReal
    NoOpsAreGone
CHECK_DEADLOCK FALSE
