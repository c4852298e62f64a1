SPECIFICATION MCSpec
CONSTANTS
    Admins = {"ann", "bob"}
    Me = "ann"
    Analysts = {}
    Newcomers = {"dan"}
    Invites = {"i1", "i2"}
    Guests = {"g1", "g2"}
    MaxClicks = 2
    MaxRequests = 2
    MaxFaults = 1
    ClickLimit <- PageClicks
    FaultLimit <- PageFailures
    OrgTexts = {"a", "b"}
    OrgMinutes = {5}
    MaxPuts = 2
    ConnectorTexts = {"x"}
    IncidentTemplates = {"t1", "t2"}
    TaskTitles = {"a"}
    PhaseNames = {"general", "Detection"}
    MaxTasks = 4
    Spans = {"https://e.io/x"}
    IndicatorIds = {1, 2}
    IndicatorStatuses = {"active", "blocked"}
    TaskSlots = {1, 2}
    AssetIds = {1, 2}
    AssetStatuses = {"suspected", "confirmed"}
    LinkTypes = {"t"}
    EntryIds = {1, 2}
    EntryTypes = {"note", "evidence"}
    EntryFiles = {"f", "g"}
    EntryAssets = {"a"}
    Titles = {"a", "b"}
    Severities = {"high", "low"}
    Dispositions = {"fp", "tp"}
    Assignees = {"ann", "bob"}
    MaxOthers = 1
    Shipped = {"s"}
    Existing = {"t"}
    ReportTemplates = {"s", "t", "u"}
    Names = {"", "n"}
    Colours = {"c", "d"}
    Companies = {"", "x"}
    Types = {"cover"}
    AiTypes = {}
    AiDisabled = FALSE
    MaxBlocks = 2
    Tasks = {"t", "u"}
INVARIANTS
    PagesTypeOK EnabledIsComplete
    RelationshipsJoinAssets EveryFileIsAccountedFor ChoicesStay SignedOff
PROPERTIES
    LastAdminGoesOnlyOnAStaleCount InvitationAdmitsOnce SecretIsNeverDropped
    UnaskedSettingsStay DragReordersItsPhase AnalystsWordStands
CHECK_DEADLOCK FALSE
