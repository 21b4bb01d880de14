SPECIFICATION MCSpec
CONSTANTS
    r1 = r1  r2 = r2  r3 = r3  r4 = r4
    o1 = o1  o2 = o2
    u1 = u1  u2 = u2
    p1 = p1  p2 = p2
    h1 = h1  h2 = h2  s1 = s1
    c1 = c1  c2 = c2  c3 = c3  c4 = c4
    None = None
    Run = {r1, r2, r3, r4}
    Scenario = {s1}
    Owner = {o1, o2}
    User = {u1, u2}
    Project = {p1, p2}
    Hash = {h1, h2, c1, c2, c3, c4}
    Call = {c1, c2, c3, c4}
    RunOf <- MCRunOf
    Content <- MCContent
    UserOf <- MCUserOf
    ProjectOf <- MCProjectOf
    CreatedAt <- MCCreatedAt
    MaxRecoveries = 1
    MaxRunningPerUser = 1
    MaxRunningPerProject = 1
    MaxQueuedGlobal = 0
    MaxQueuedPerUser = 1
    MaxQueuedPerProject = 1
    SubmissionsPerMinuteUser = 1
    SubmissionsPerMinuteProject = 2
    RunWrites = {}
    SessionWrites = {}
SYMMETRY Symmetry
CHECK_DEADLOCK FALSE
INVARIANTS
    SubmissionTypeOK
    RowMatchesStatus
    WithinLimits
    OneCreatedPerRun
    AdmittedRunIsStored
    OnlyAdmissionsAreCharged
PROPERTIES
    ProgressKept
    LiveLeaseNotStolen
