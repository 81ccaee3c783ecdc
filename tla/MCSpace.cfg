SPECIFICATION Spec
CONSTANTS
  Frame <- MCFrame
  Width = 4
  Levels = 2
  Redundant <- MCRedundant
  TaskLimit = 3
  TaskMax = 3
  CallMax = 3
  StreamLimit = 4
  Library <- MCLibrary
  ProgramAt = 1
  PageLimit = 4
  StackTop = 8
  LibraryAt = 8
  ContextAt = 15
  Ram <- MCRam
  Video = 28
  Sizes <- MCSizes
  Flows <- MCFlows
  LiveOnly = TRUE
INVARIANTS
  EveryPageHasOnePlace
  LiveSpaceStands
  StreamUsersExact
  LibrariesAreShown
CHECK_DEADLOCK FALSE
