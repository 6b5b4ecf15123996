SPECIFICATION Spec
CONSTANTS
    None = None
    Awaited = Awaited
    Failed = Failed
    Boundless = Boundless
    Nobody = Nobody
    Top = Top
    Nowhere = Nowhere
    Tools = Tools
    Outside = Outside
    a = a
    b = b
    Layouts = {d, f, x}
    DefaultLayout = d
    DeepLayout = f
    FocusTargets = {t1}
    Components = {a, b}
    Unknown = b
    Parent <- MCParent
    Models <- MCModels
    Sizes = {1}
    Runs = {"r"}
    Inspected = {"c1"}
    LiveEvents <- MCEvents
    MaxEvents = 2
    MaxDrops = 1
    ViewKeys = {"overview", "saved"}
    Overviews = {"overview"}
    Cameras = {1}
    Selections = {"c"}
    ReadingDirections = {"left-right"}
    Foldings <- MCFoldings
    Defaults <- MCDefaults
    MaxCanvases = 2
    Executions <- MCExecutions
    MaxExecutions = 2
    Fragile = {1, 2, 3, 20, 62, 63, 122}
    Reports <- MCReports
    Later <- MCLater
    Filters <- MCFilters
    MaxTouched = 1
    Reported <- MCReported
    MaxLog = 4
    NewItems = {4}
    Authors = {"a"}
    Changes = {"c"}
    PageSize = 2
    Window = 3
INVARIANTS
    ArrangementSurvives
    NewestLayoutIsDrawn
    CameraIsTheUsers
    ScenariosRun
    RunIsOneExecution
    InputIsShownWhole
    AgentsAreAccountedFor
    InvalidationsReachReads
    EvidenceStaysLegible
PROPERTIES
    KeyboardKeepsItsPlace
    RowsFollowTheirReader
    ReaderKeepsPlace
    ViewsKeepTheirOwn
CHECK_DEADLOCK FALSE
