SPECIFICATION Spec
CONSTANTS
    Tabs = {t1, t2}
    Access = 2
    Lead = 1
    Idle = 4
    Max = 5
    Horizon = 7
    MaxRevokes = 1
    MaxFailures = 1
SYMMETRY Symmetry
INVARIANTS TypeOK AbsoluteLifetime RevocationTakesEffect ActivityKeepsCookie
CHECK_DEADLOCK FALSE
