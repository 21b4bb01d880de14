CONSTANTS
  None = None
  t1 = t1
  t2 = t2
  s1 = s1
  s2 = s2
  Scenarios = {s1, s2, s3}
  Steps = {t1, t2, t3}
  Needs <- MCNeeds
  ServiceTypes <- MCServiceTypes
  MaxClock = 4
  MaxVersion = 4
  MaxSteps = 3
  Foreign = FALSE
  Remote = FALSE
SPECIFICATION MCSpec
CHECK_DEADLOCK FALSE
INVARIANTS
    RunOrderAgrees
    

    
