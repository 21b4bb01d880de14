SPECIFICATION MCSpec
CONSTANTS
  s1 = s1
  s2 = s2
  s3 = s3
  None = None
  Names = {s1, s2, s3}
  Nodes = {s1, s2, s3}
  Workflows <- MCDrawn
  Posted <- AnyPosted
CHECK_DEADLOCK FALSE
INVARIANTS
    StartedInOrder
    CleanMeansStopped
    
    CyclesReported
PROPERTIES
    ImplementsClosure
    EverythingEnds
