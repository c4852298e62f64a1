SPECIFICATION FairSpec
CONSTANTS
    Clients = {c1, c2}
    Workers = {w1, w2}
    Templates = {}
    Base = base
    Reports = {r1, r2, r3}
    Debounces = {2}
    Margin = 3
    Handling = 1
    Backlog = 1
    Visibility = 4
    MaxChanges = 2
    Reserve = 2
    MaxFaults = 0
    MaxDeletes = 0
PROPERTIES EveryChangeReachesEverySeed
CHECK_DEADLOCK FALSE
