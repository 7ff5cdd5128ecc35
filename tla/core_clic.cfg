CONSTANTS
  Addr <- MCAddr
  BootAddr = "p0"
  ZeroAddr = "zero"
  TrapBase = "t0"
  TblAddr = "zero"
  Succ <- MCSucc
  Slot <- MCSlot
  Vec <- MCVec
  Level <- MCLevel
  Insns <- ClicInsns
  IrqLines = {}
  ClicIrqs = {1, 2}
  ShvIrqs = {2}
  FetchAnswers = {"ack", "wait"}
  LsuAnswers = {"ack", "wait"}
  TblAnswers = {"ack"}
  EeiAnswers = {"ack"}
  ExtInsns = {}
SPECIFICATION FairSpec
INVARIANTS InstLsuStable
PROPERTIES ImplementsHart KeepsFetching
