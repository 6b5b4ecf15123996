SPECIFICATION MCSpec
CONSTANTS
    Components = {c1, c2, c3}
    Relationships = {r1}
    Agents = {a1, a2}
    Top = Top
    Absent = Absent
    NoAgent = NoAgent
    MaxRevision = 3
    SeenComponents = {c1, c2}
    SeenRelationships = {e1}
    SeenAgents = {s1}
    Views = {v1}
    MaxViewRevision = 2
    MaxWritesBesideViews = 2
    Ids = {c1, c2}
    Processes = {m1}
    NotTracked = NotTracked
    MaxLegacy = 3
    MaxEvents = 4
SYMMETRY Symmetry
INVARIANTS
    AcceptedModelIsSound
PROPERTIES
    RetiredStaysRetired
    NoLostUpdate
    ViewsAreSighted
    MigrationStartsTheModel
