SPECIFICATION FairSpec
CONSTANTS
  Task = {t0, t1}
  PageLimit = 6
  WordSize = 4
  Usable <- MCUsable
  Sizes <- MCSizes
  CountLimit = 16
  Indivisible = TRUE
INVARIANTS
  EveryPageHasOnePlace
  AvailableIsClean
  FirstFit
  CountIsExact
PROPERTIES
  CallsReturn
