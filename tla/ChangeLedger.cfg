SPECIFICATION Spec
CONSTANTS
    t1 = t1
    t2 = t2
    a1 = a1
    s1 = s1
    c1 = c1
    None = None
    Targets = {t1, t2}
    Agents = {a1}
    Steps = {s1}
    Changes = {c1}
    Announced = {"add", "remove"}
    Themes <- MCThemes
    MaxEvents = 3
    MaxMissed = 1
    HistoryLimit = 2
    RecentLimit = 1
INVARIANTS HistoryIsWhole DescriptorsAgree ClosedChangeStaysClosed SettledPictureAgrees ActiveMeansRunning
SYMMETRY MCSymmetry
CHECK_DEADLOCK FALSE
