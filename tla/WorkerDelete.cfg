SPECIFICATION Spec
CONSTANTS
    Reports = {r1}
    Workers = {w1, w2}
    Analysts = {a1, a2}
    MaxRetries = 2
    MaxCrashes = 1
    MaxKills = 1
    MaxSwitches = 0
    MaxOutages = 1
    MaxDeletes = 2
SYMMETRY Symmetry
INVARIANTS ReadyIsWhole
PROPERTIES ReadyStaysReady
CHECK_DEADLOCK FALSE
