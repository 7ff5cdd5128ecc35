CONSTANTS
  Addr <- MCAddr
  BootAddr = "p0"
  ZeroAddr = "zero"
  TrapBase = "t0"
  TblAddr = "zero"
  Succ <- MCSucc
  Slot <- MCSlot
  Vec <- MCVec
  Level <- MCLevel
  Insns <- StaleInsns
  IrqLines = {}
  ClicIrqs = {}
  ShvIrqs = {}
  FetchAnswers = {"ack", "wait"}
  LsuAnswers = {"ack", "wait"}
  TblAnswers = {"ack"}
  EeiAnswers = {"ack"}
  ExtInsns <- StaleInsns
SPECIFICATION Spec
INVARIANT InstLsuStable

