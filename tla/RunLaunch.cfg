CONSTANTS
  None = None
  Nothing = Nothing
  Scenarios = {s1, s2}
  CanRun = TRUE
  MaxEdits <- MCMaxEdits
  MaxStarts <- MCMaxStarts
  Users = {u1, u2}
  Editors = {u1}
  Workflows = {w1, w2}
  Mac = FALSE
  Storage = TRUE
CHECK_DEADLOCK FALSE
SPECIFICATION MCSpec
INVARIANTS
    
    ShellFitsUser
