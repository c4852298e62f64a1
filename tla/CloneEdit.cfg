SPECIFICATION Spec
CONSTANTS
    Ids = {"t1", "t2"}
    Titles = {"a"}
    PhaseNames = {"general", "Detection"}
    MaxClicks = 5
    MaxTasks = 4
PROPERTIES RowEditsItsTask
CHECK_DEADLOCK FALSE
