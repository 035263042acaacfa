\* RestartSec as in presenced.service; five starts in ten seconds is the default
\* of systemd.
SPECIFICATION Spec
CONSTANTS
    RestartSec = 5
    LimitIntervalSec = 10
    LimitBurst = 5
INVARIANTS
    NeverGivesUp
PROPERTIES
    ComesUp
    ProbeReports
