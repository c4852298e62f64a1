SPECIFICATION Spec
CONSTANTS
    Tabs = {t1}
    Access = 3
    Lead = 1
    Idle = 4
    Max = 9
    Horizon = 7
    MaxRevokes = 0
    MaxFailures = 0
SYMMETRY Symmetry
INVARIANTS IdleIsSignedOut
CHECK_DEADLOCK FALSE
