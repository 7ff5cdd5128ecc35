CONSTANTS
  Addr <- MCAddr
  BootAddr = "p0"
  ZeroAddr = "zero"
  TrapBase = "t0"
  TblAddr = "zero"
  Succ <- MCSucc
  Slot <- MCSlot
  Vec <- MCVec
  Level <- MCLevel
  Insns <- ClintInsns
  IrqLines = {"mti"}
  ClicIrqs = {}
  ShvIrqs = {}
  FetchAnswers = {"ack", "wait"}
  LsuAnswers = {"ack", "wait"}
  TblAnswers = {"ack"}
  EeiAnswers = {"ack", "wait"}
  ExtInsns = {}
SPECIFICATION FairSpec
INVARIANTS CoreInv InstItfStable
PROPERTIES ImplementsHart EeiOnce AccessIsExecuted KeepsFetching ClintIsTaken
