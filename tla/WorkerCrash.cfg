SPECIFICATION FairSpec
CONSTANTS
    Reports = {r1}
    Workers = {w1, w2}
    Analysts = {a1}
    MaxRetries = 2
    MaxCrashes = 1
    MaxKills = 1
    MaxSwitches = 1
    MaxOutages = 0
    MaxDeletes = 1
INVARIANTS TypeOK DrainedIsSettled DrainedReadyIsPushed
PROPERTIES EventuallySettled
CHECK_DEADLOCK FALSE
