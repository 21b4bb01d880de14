SPECIFICATION MCSpec
CONSTANTS
    r1 = r1  w1 = w1  w2 = w2  s1 = s1  s2 = s2
    u1 = u1  p1 = p1  h1 = h1
    None = None
    Run = {r1}
    Scenario = {s1}
    Owner = {w1, w2}
    User = {u1}
    Project = {p1}
    Hash = {h1}
    UserOf <- MCUserOf
    ProjectOf <- MCProjectOf
    CreatedAt <- MCCreatedAt
    MaxRecoveries = 1
    MaxRunningPerUser = 1
    MaxRunningPerProject = 1
    MaxQueuedGlobal = 0
    MaxQueuedPerUser = 0
    MaxQueuedPerProject = 0
    SubmissionsPerMinuteUser = 0
    SubmissionsPerMinuteProject = 0
    RunWrites <- MCRunWrites
    SessionWrites <- MCSessionWrites
    ScenarioConcurrency = 1
    MaxFaults = 2
CHECK_DEADLOCK FALSE
INVARIANTS
    CancelRequestWins
    RunRowHonest
    ExecutorAlone
    
PROPERTIES
    WorkersImplementStore
    PromptJobSettles
