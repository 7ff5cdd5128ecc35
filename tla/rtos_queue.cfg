SPECIFICATION FairSpec
CONSTANTS
  Task <- MCTask
  Idle = "idle"
  MaxPriorities = 4
  TickMod = 4
  OvfMod = 2
  Queue <- MCQueue
  EventList <- MCEventList
  MaxRecursion = 2
  Item = {0, 1, 2}
  None = "none"
  Apps <- MCApps
  MaxPended = 1
  MaxNotify = 1
INVARIANTS
  KernelSound
  NoLostWakeup
  WaitsExactly
  MutexPriority
  
PROPERTIES
  DataIsFifo
  WaitEnds
