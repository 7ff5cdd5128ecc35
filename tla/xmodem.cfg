SPECIFICATION Spec
CONSTANTS
  Images <- MCImages
  MaxSize <- MCMaxSize
  DataTop = 3000
  NumMod = 3
  ErrorLimit = 3
  MaxFaults = 2
  MaxResets = 1
  DamageTo <- MCDamageTo
INVARIANTS
  LoaderSound
  
  ReceivedInOrder
PROPERTIES
  TransferEnds
CHECK_DEADLOCK FALSE
