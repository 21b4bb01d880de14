CONSTANTS
    s1 = s1
    s2 = s2
    db = db
    web = web
    None = None
    Scenarios = {s1}
    QueueCap = 9
    PageSize = 2
    MaxActivities = 1
    MaxDrops = 1
    MaxFailures = 1
    MaxRetries = 1
    MaxCancels = 1
    MaxClicks = 1
    MaxVisits = 2
    Outcomes = {"passed", "failed"}
    Streaming = TRUE
    WorkerFails = TRUE
    Lanes <- MCLanes
    Services <- MCServices
    Diagnostics <- SmallDiagnostics
    Journal <- SmallJournal
    TestName <- MCTestName
    TestService <- MCTestService
    OperationalLimit = 4
    ActivityLimit = 2
CHECK_DEADLOCK FALSE
SPECIFICATION SettlesSpec
PROPERTIES
    PageSettles
