SPECIFICATION FairSpec
CONSTANTS
  Task <- MCTask
  Idle = "idle"
  MaxPriorities = 3
  TickMod = 5
  OvfMod = 1
  EventList = {}
  Apps <- MCApps
  StackBytes = 48
  TcbBytes = 40
  Align = 16
  HeapUnits = 33
  HeapStructUnits = 1
  MaxPended = 2
  MaxNotify = 3
INVARIANTS
  SchedulerSound
  NoAssertFails
  HighestRuns
  NoMissedNotification
  MemoryOwned
  HeapInv
PROPERTIES
  
  EqualShare
