SPECIFICATION MCSpec
CONSTANTS
    Runs = {r1, r2}
    Agents = {a1, a2, a3}
    Steps = {s1}
    Nobody = Nobody
    NoRun = NoRun
    MaxEvents = 6
    PlanIds = {p1}
    PlanStepIds = {x, y}
    States = {planned, done}
    MaxPlanRevision = 2
SYMMETRY Symmetry
INVARIANTS
    AgentTree
    StepsFinishedByOwner
PROPERTIES
    IdentitiesStay
    FinishedRunGrowsNoMore
    PublishedPlansStay
CHECK_DEADLOCK FALSE
