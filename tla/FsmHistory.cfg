\* A grace period of 3 ticks is longer than two gaps between frames, so runs of
\* misses that are too short, exactly long enough and too long all occur.
SPECIFICATION Spec
CONSTANTS
    Grace = 3
    FirstReading = 1
    MaxTime = 7
    MaxObs = 6
INVARIANTS
    StateFromHistory
\* The machine itself never stops; the run does, at MaxTime and MaxObs.
CHECK_DEADLOCK FALSE
