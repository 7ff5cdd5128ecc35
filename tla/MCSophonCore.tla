--------------------------- MODULE MCSophonCore ---------------------------
(***************************************************************************)
(* Instances of SophonCore for TLC.  The address space is a loop of three  *)
(* instructions of the program (p0, p1, p2), the trap handler (t0, t1),    *)
(* the vector table slots and the CLIC vectors.                            *)
(***************************************************************************)
EXTENDS SophonCore

MCAddr == {"zero", "p0", "p1", "p2", "t0", "t1", "s3", "s7", "v1", "v2"}

\* Every address past a handler's entry falls into t1, which loops.
MCSucc ==
  [a \in MCAddr |->
    CASE a = "p0" -> "p1"
      [] a = "p1" -> "p2"
      [] a = "p2" -> "p0"
      [] a = "zero" -> "p0"
      [] OTHER -> "t1"]

MCSlot == [c \in Codes |-> CASE c = 3 -> "s3" [] c = 7 -> "s7" [] OTHER -> "t0"]

MCVec == [id \in ClicIrqs \cup {NoIrq} |-> CASE id = 1 -> "v1" [] id = 2 -> "v2" [] OTHER -> "zero"]
MCLevel == [id \in ClicIrqs \cup {NoIrq} |-> id]

\* Programs: the sets of instructions a run may fetch at any address.
ClintInsns ==
  {Plain(op) : op \in {"load", "cust", "mie_on", "mie_off", "mret"}}
    \cup {Jump("p0"), WriteMtvec("vector")}

ExcInsns ==
  {Plain(op) : op \in {"load", "store", "cust", "mie_on", "mret", "ecall",
                       "illegal", "misjump", "misload"}}
    \cup {WriteMepc("p0")}

ClicInsns ==
  {Plain(op) : op \in {"store", "mcause", "mnxti", "mret"}}
    \cup {WriteMtvec("clic")}

\* What an external fetch may have left in the demultiplexer.
ExcExtInsns == {Plain("ecall")}

EcallInsns == {Plain("alu"), Plain("mie_on"), Plain("mret"), Plain("ecall")}

StaleInsns == {Plain("alu"), Plain("load"), Plain("store")}
=============================================================================
