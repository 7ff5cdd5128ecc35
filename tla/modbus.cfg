SPECIFICATION Spec
CONSTANTS
  T35 = 2
  MaxFrame = 3
  RxDepth = 2
  TextLen = 2
  Damages <- MCDamages
  MaxFaults = 1
  FastCpu = TRUE
  Prompt = TRUE
INVARIANTS
  ModbusInv
  
PROPERTIES
  
  EachServed
