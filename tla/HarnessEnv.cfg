SPECIFICATION Spec
CONSTANT
    MaxStop = 90
INVARIANTS
    EnvRestored
CHECK_DEADLOCK FALSE
