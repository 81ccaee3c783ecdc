SPECIFICATION WindowsSpec
CONSTANTS
  CacheLimit = 3
  Width = 6
  Height = 4
  Users <- MCUsers
  ObjectLimit = 6
  ZoneLimit = 40
  IdMod = 256
  BarHeight = 1
  EntryWidth = 4
  ClockWidth = 1
  Header = 1
  Controls = 2
  Size <- MCSize
  Client <- MCClient
INVARIANTS
  KeysInOrder
  KeysOnce
  PointerOnScreen
  ListMatchesTable
  ActiveIsListed
  
  
PROPERTIES
  EndedWindowsGo
CHECK_DEADLOCK FALSE
