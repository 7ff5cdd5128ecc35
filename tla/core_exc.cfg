CONSTANTS
  Addr <- MCAddr
  BootAddr = "p0"
  ZeroAddr = "zero"
  TrapBase = "t0"
  TblAddr = "zero"
  Succ <- MCSucc
  Slot <- MCSlot
  Vec <- MCVec
  Level <- MCLevel
  Insns <- ExcInsns
  IrqLines = {}
  ClicIrqs = {}
  ShvIrqs = {}
  FetchAnswers = {"ack", "wait", "error"}
  LsuAnswers = {"ack", "wait", "error"}
  TblAnswers = {"ack"}
  EeiAnswers = {"ack", "error"}
  ExtInsns <- ExcExtInsns
SPECIFICATION Spec
PROPERTIES ImplementsHart
