SPECIFICATION FairSpec
CONSTANTS
  CPU = {c0, c1}
  BSP = c0
  TaskLimit = 4
  CountLimit = 16
  None = None
INVARIANTS
  ResumesSavedContext
PROPERTIES
  ReadyTaskRuns
