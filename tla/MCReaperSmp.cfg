SPECIFICATION BoundedSpec
CONSTANTS
  CPU = {c0, c1}
  BSP = c0
  TaskLimit = 3
  CountLimit = 16
  None = None
  TaskMax = 4
INVARIANTS
  SpaceNotInUse
