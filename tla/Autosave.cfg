SPECIFICATION FairSpec
CONSTANTS
    ann = ann
    bob = bob
    Tabs = {ann, bob}
    MaxEdits = 3
    MaxReads = 1
    MaxFailures = 1
    MaxLeaves = 1
INVARIANTS TypeOK SavedMeansStored DraftIsOnItsWay RemoteChangeIsAnnounced
PROPERTIES DraftIsStored
CHECK_DEADLOCK FALSE
