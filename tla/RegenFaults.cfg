SPECIFICATION Spec
CONSTANTS
    Clients = {c1, c2}
    Workers = {w1}
    Templates = {t1}
    Base = base
    Reports = {r1, r2, r3}
    Debounces = {2}
    Margin = 3
    Handling = 1
    Backlog = 1
    Visibility = 4
    MaxChanges = 2
    Reserve = 2
    MaxFaults = 1
    MaxDeletes = 1
SYMMETRY Symmetry
INVARIANTS TypeOK QuietMeansCurrent NewestRunFindsToken PendingHasJob
PROPERTIES OneRunPerDebounce
CHECK_DEADLOCK FALSE
