SPECIFICATION Spec
CONSTANTS
  Task = {t0, t1}
  PageLimit = 6
  WordSize = 4
  Usable <- MCUsable
  Sizes <- MCSizes
  CountLimit = 16
  Indivisible = FALSE
INVARIANTS
  NoPageTwice
