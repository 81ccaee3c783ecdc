SPECIFICATION FairSpec
CONSTANTS
  program = program
  manager = manager
  keyboard = keyboard
  mouse = mouse
  Process = {program, manager}
  Type = {keyboard, mouse}
  AnyType = AnyType
  IpcLimit = 2
  Ttl = 2
  Traffic <- MCTraffic
  None = None
INVARIANTS
  EmptyMeansNone
PROPERTIES
  DeliversMail
  SenderProceeds
