SPECIFICATION Spec
CONSTANTS
  CPU = {c0, c1}
  BSP = c0
  TaskLimit = 5
  CountLimit = 16
  None = None
VIEW
  LiveState
INVARIANTS
  OneCpuPerTask
  ExecMeansOwned
  PidsUnique
  CountIsExact
