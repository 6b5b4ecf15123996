SPECIFICATION Spec
CONSTANTS
    Runs = {r1, r2}
    Agents = {a1}
    Steps = {s1}
    Nobody = Nobody
    NoRun = NoRun
    MaxEvents = 4
INVARIANT CurrentRunIsLastOpened
CHECK_DEADLOCK FALSE
