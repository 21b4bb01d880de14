SPECIFICATION FairSpec
CONSTANTS
  None = None
  Wf = Wf
  Scenarios = {s}
  Clients = {c1, c2}
  MaxEdits = 3
  MaxJobs = 3
  MaxAttempts = 2
  Faulty = FALSE
  Patient = TRUE
CHECK_DEADLOCK FALSE
PROPERTY NewerWorkKept
