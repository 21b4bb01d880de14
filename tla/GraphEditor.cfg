CONSTANTS
  None = None
  TypeOf <- MCTypeOf
  References <- MCReferences
  EdgeIds = {"e1", "e2"}
  Configs = {"blank", "set", "other"}
  Blank = "blank"
  Preset = "set"
  Choices = {"calls", "writes"}
  Openings <- MCOpenings
  Elsewhere <- MCElsewhere
  MaxEdits <- MCMaxEdits
  MaxLayouts = 1
SPECIFICATION Spec
CHECK_DEADLOCK FALSE
INVARIANTS
    EdgesAttached
    ReviewedByAuthor
    UnhurriedIsSaved
