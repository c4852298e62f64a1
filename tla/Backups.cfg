SPECIFICATION Spec
CONSTANTS
    Files = {f1, f2}
    Runs = {r1, r2}
    Storages = {s1, s2}
    RetentionDays <- Lengths
    Forms <- Entered
    MaxClicks = 3
    MaxFaults = 1
SYMMETRY Symmetry
INVARIANTS TypeOK SuccessIsStored RetentionKeepsItsDays
CHECK_DEADLOCK FALSE
