SPECIFICATION Spec
CONSTANTS
    Admins = {"ann", "bob"}
    Me = "ann"
    Analysts = {}
    Newcomers = {}
    Invites = {}
    Guests = {}
    MaxClicks = 2
    MaxRequests = 2
    MaxFaults = 0
INVARIANTS
    LastAdminStays
CHECK_DEADLOCK FALSE
