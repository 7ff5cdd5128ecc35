----------------------------- MODULE SophonIsa -----------------------------
(***************************************************************************)
(* The part of the Sophon instruction set that decides where the program   *)
(* counter goes next and what the trap registers hold.  Operands and       *)
(* results are abstracted away: an instruction is an operation and, where  *)
(* control depends on it, one argument.                                    *)
(*                                                                         *)
(* An address is a token.  Succ[a] stands for a + 4, Slot[c] for the entry *)
(* of cause c in the CLINT vector table (base + 4 * c) and Vec[id] for the *)
(* word that the CLIC vector table in data memory holds for interrupt id.  *)
(***************************************************************************)
EXTENDS Naturals

CONSTANTS
  Addr,      \* the instruction addresses of the model
  BootAddr,  \* bootaddr_i
  ZeroAddr,  \* address 0, the reset value of pc and mepc
  TrapBase,  \* the base field of mtvec
  TblAddr,   \* the address of a CLIC vector table entry, as mepc may hold it
  Succ,      \* Addr -> Addr, the next sequential instruction
  Slot,      \* Codes -> Addr, CLINT vector mode entry points
  Vec,       \* ClicIrqs \cup {NoIrq} -> Addr, contents of the CLIC table
  Insns,     \* the instructions that may be fetched
  IrqLines,  \* the CLINT interrupt inputs that are connected and enabled
  ClicIrqs,  \* the CLIC interrupt numbers that may be requested
  ShvIrqs,   \* those of them that use hardware vectoring
  Level      \* ClicIrqs \cup {NoIrq} -> Nat, their levels

Codes == 0..31

\* clic_irq_req_i low; the number shown with it is 0.
NoIrq == 0

NoArg == "none"

Modes == {"direct", "vector", "clic"}

\* The operations without an argument.
\* "alu" stands for every instruction that only moves on, wfi and fence too.
\* Three values written to mstatus are told apart: MIE set, MIE cleared, and
\* MIE cleared with MPIE set.  "mcause" restores mcause with MPIE set and a
\* previous level of 0, "mnxti" is csrrsi rd, mnxti, 8.
PlainOps == {"alu", "load", "store", "cust", "mret",
             "mie_on", "mie_off", "mpie_on", "mcause", "mnxti",
             "ecall", "ebreak", "illegal", "misjump", "misload", "misstore"}

InsnType == [op : PlainOps, arg : {NoArg}]
              \cup [op : {"jump", "mepc"}, arg : Addr]
              \cup [op : {"mtvec"}, arg : Modes]

Plain(op)   == [op |-> op, arg |-> NoArg]
Jump(a)     == [op |-> "jump", arg |-> a]
WriteMepc(a) == [op |-> "mepc", arg |-> a]
WriteMtvec(m) == [op |-> "mtvec", arg |-> m]

\* An all-zero word, what inst_data_1d holds after reset, decodes as illegal.
ResetInsn == Plain("illegal")

\* The address of the instruction after i, which is at address a, when
\* mepc = epc: where npc goes unless a trap takes over.
NextOf(i, a, epc) ==
  CASE i.op = "mret" -> epc
    [] i.op = "jump" -> i.arg
    [] OTHER -> Succ[a]

CauseType == [irq : BOOLEAN, code : Codes]
Exc(c) == [irq |-> FALSE, code |-> c]
Irq(c) == [irq |-> TRUE, code |-> c]

\* The exception that an instruction may raise by itself.
ExcCode == [misjump |-> 0, illegal |-> 2, ebreak |-> 3, misload |-> 4,
            load |-> 5, misstore |-> 6, store |-> 7, ecall |-> 11]

\* A trap: what made the core enter it, and the cause it reports.
TrapType == [by : {"reset", "interrupt", "exception"}, cause : CauseType]
NoTrap == [by |-> "reset", cause |-> Exc(0)]

\* Cause codes of the CLINT lines, in the order of their priority.
IrqCode == [msi |-> 3, mti |-> 7, mei |-> 11]

TopLine(lines) ==
  IF "msi" \in lines THEN "msi" ELSE IF "mti" \in lines THEN "mti" ELSE "mei"

ASSUME IsaAssumption ==
  /\ {BootAddr, ZeroAddr, TrapBase, TblAddr} \subseteq Addr
  /\ Succ \in [Addr -> Addr]
  /\ Slot \in [Codes -> Addr]
  /\ Insns \subseteq InsnType
  /\ IrqLines \subseteq {"msi", "mti", "mei"}
  /\ ClicIrqs \subseteq Codes \ {NoIrq}
  /\ ShvIrqs \subseteq ClicIrqs
  /\ Vec \in [ClicIrqs \cup {NoIrq} -> Addr]
  /\ Level \in [ClicIrqs \cup {NoIrq} -> Nat]
=============================================================================
