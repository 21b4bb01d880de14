CONSTANTS
  None = None
  Wf = Wf
  Scenarios = {s}
  Clients = {c1, c2}
  MaxEdits = 1
  MaxJobs = 3
  MaxAttempts = 2
  Faulty = TRUE
  Patient = FALSE
CHECK_DEADLOCK FALSE
SPECIFICATION MCSpec
INVARIANTS
    NumbersDense
PROPERTIES
    RestoreIsSafe
    SharedDialogNotStuck
