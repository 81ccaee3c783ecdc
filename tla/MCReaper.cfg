SPECIFICATION BoundedFairSpec
CONSTANTS
  CPU = {c0}
  BSP = c0
  TaskLimit = 5
  CountLimit = 16
  None = None
  TaskMax = 4
INVARIANTS
  NoOrphans
  ClosedStaysOut
  ExecMeansOwned
PROPERTIES
  CollectorCatchesUp
