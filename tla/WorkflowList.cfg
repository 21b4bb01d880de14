CONSTANTS
  None = None
  NameSuffixes <- MCSuffixes
  Words = {"w", "New Workflow", "Copy", "2", "3", "4", "5"}
  FileName <- MCFileName
  TemplateName <- MCTemplateName
  BlankName <- MCBlankName
  Kinds = {"scenario", "scenario_run"}
  Ids = {w1, w2, w3}
  CloneSlots = {c1, c2}
  MaxWorkflows <- MCMaxWorkflows
SYMMETRY Symmetry
CHECK_DEADLOCK FALSE
SPECIFICATION MCSpec
INVARIANTS
    
    CopyIsFaithful
