SPECIFICATION Spec
CONSTANTS
    Incidents = {1, 2, 3}
    Statuses = {"open", "closed"}
    SortKeys = {"created", "title"}
    Words = {"", "w"}
    PageSizes = {1, 2}
    DefaultPerPage = 1
    Matching <- MCMatching
    Links <- MCLinks
    MaxHistory = 2
    MaxClicks = 2
    MaxForeign = 1
INVARIANTS TypeOK NoEmptyPage EveryViewHasAURL
PROPERTIES ImplementsListView
CHECK_DEADLOCK FALSE
