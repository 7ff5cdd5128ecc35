SPECIFICATION Spec
CONSTANTS
  Brom <- MCBrom
  Itcm <- MCItcm
  ExtInst <- MCExtInst
  Dtcm <- MCDtcm
  ExtData <- MCExtData
  Outside <- MCOutside
  Data <- MCData
  Initial <- MCInitial
  CoreData <- MCCoreData
  MasterData <- MCMasterData
  None = None
  RstDelay = 1
  Resets = "quiet"
INVARIANTS FabricInv
PROPERTIES ServesPorts 
