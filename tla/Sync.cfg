SPECIFICATION MCSpec
CONSTANTS
    b1 = b1  b2 = b2  w1 = w1  p1 = p1
    Browsers = {b1}
    Workflows = {w1, w2}
    Scenarios = {s1}
    Projects = {p1, p2}
    None = None
    WorkflowOf <- MCWorkflowOf
    BatchSize = 2
    MaxEdits = 2
    OpsPerTick = 2
    Outstanding = 2
    MaxRequests = 2
    MaxFaults = 1
    MaxReloads = 1
    Deletes = TRUE
    Items = {i1, i2}
    Undefined = Undefined
    InitialCapacity = 1
    MaxBatch = 3
    MaxSize = 5
CHECK_DEADLOCK FALSE
INVARIANTS
    NoEditLost
PROPERTIES
    LocalCopiesNeverOlder
    ImplementsDeque
    FairSyncSettles
