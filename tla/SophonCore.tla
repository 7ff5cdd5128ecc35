---------------------------- MODULE SophonCore ----------------------------
(***************************************************************************)
(* The Sophon core (design/sophon/sophon.sv) at the level of its clock     *)
(* edges, in the configuration that ships: CLINT and CLIC interrupts, CSRs *)
(* and the EEI, without RVDEBUG and without SOPHON_CLIC_ACK_FF.            *)
(*                                                                         *)
(* A step is one clock edge.  NegEdge is the rising edge of clk_neg_i      *)
(* (fetch address, pc, instruction register, stalls), PosEdge that of      *)
(* clk_i (trap registers, load/store requests, interrupts).  Registers     *)
(* keep the names of the source; combinational signals are operators.      *)
(*                                                                         *)
(* The surroundings answer at the edge the source samples them on:         *)
(*   fetch_ans, eei_ans  inst_ack_i / inst_error_i and eei_ack_i /         *)
(*                       eei_error_i, constant between two NegEdges        *)
(*   lsu_ans, irq_lines, clic_irq   lsu_ack_i / lsu_error_i, the CLINT     *)
(*                       lines and the CLIC request, between two PosEdges  *)
(*   inst_rdata          inst_rdata_i, valid from the PosEdge of the ack   *)
(*   pos_data            inst_pos_data_1d of INST_ITF_DEMUX, which the     *)
(*                       core sees when no tightly coupled memory answers  *)
(*                                                                         *)
(* Observation only, no register of the source: apc, last, wasmie, trap    *)
(* (see SophonHart), faddr (the address the instruction in inst_rdata was  *)
(* read from), if_hold and lsu_hold (what a waiting request showed).       *)
(***************************************************************************)
EXTENDS SophonIsa

CONSTANTS
  FetchAnswers,  \* the answers an instruction fetch may get
  LsuAnswers,    \* the answers a load or store may get
  TblAnswers,    \* the answers the read of the CLIC vector table may get
  EeiAnswers,    \* the answers the enhanced extension interface may give
  ExtInsns       \* instructions that may come through the external channel

Answers == {"ack", "wait", "error"}

ASSUME CoreAssumption ==
  /\ FetchAnswers \subseteq Answers
  /\ LsuAnswers \subseteq Answers
  /\ TblAnswers \subseteq Answers
  /\ EeiAnswers \subseteq Answers
  /\ ExtInsns \subseteq Insns

VARIABLES
  clk,                                                    \* the next edge
  rst_cnt, npc_sel_bootaddr, npc_sel_clint_direct, npc_sel_clint_vector,
  npc_sel_clic_direct, npc_sel_clic_vector, npc_sel_clic_vector_1d,
  clic_npc_vector_lock, if_stall_clic, pc, inst_data_1d, inst_data_1d_vld,
  lsu_valid, lsu_req_neg, lsu_rdata, ex_fetch_access, ex_misalign_load,
  ex_misalign_store, ex_load_access, ex_store_access, fetch_ans, eei_ans,
  if_vld_pos, lsu_load_pending, lsu_store_pending, lsu_post_req,
  mstatus_mie, mstatus_mpie, mtvec_mode, mcause, mepc, clint_irq_vld,
  clic_npc_load_last, curr_clic_level, mpil, csr_wr_mnxti_pos,
  csr_wr_mnxti_pos_1d, mnxti_id, irq_lines, clic_irq, lsu_ans, inst_rdata,
  pos_data,
  apc, last, wasmie, trap, faddr, if_hold, lsu_hold

selVars == <<npc_sel_bootaddr, npc_sel_clint_direct, npc_sel_clint_vector,
             npc_sel_clic_direct, npc_sel_clic_vector, npc_sel_clic_vector_1d,
             clic_npc_vector_lock>>
exVars == <<ex_fetch_access, ex_misalign_load, ex_misalign_store,
            ex_load_access, ex_store_access>>
negVars == <<rst_cnt, selVars, exVars, if_stall_clic, pc, inst_data_1d,
             inst_data_1d_vld, lsu_valid, lsu_req_neg, lsu_rdata, fetch_ans,
             eei_ans, if_hold>>
csrVars == <<mstatus_mie, mstatus_mpie, mtvec_mode, mcause, mepc>>
clicVars == <<clic_npc_load_last, curr_clic_level, mpil, csr_wr_mnxti_pos,
              csr_wr_mnxti_pos_1d, mnxti_id>>
envVars == <<irq_lines, clic_irq, lsu_ans, inst_rdata, pos_data>>
ghostVars == <<apc, last, wasmie, trap>>
posVars == <<if_vld_pos, lsu_load_pending, lsu_store_pending, lsu_post_req,
             clint_irq_vld, csrVars, clicVars, envVars, ghostVars, faddr,
             lsu_hold>>
vars == <<clk, negVars, posVars>>

\* What the load/store interface shows: a table read, or a load or store.
LsuOutType == [we : BOOLEAN, tbl : BOOLEAN, id : Codes]

---------------------------------------------------------------------------
(* Decode of the instruction register and of the fetched instruction.      *)

CsrOps == {"mie_on", "mie_off", "mpie_on", "mepc", "mtvec", "mcause", "mnxti"}

Op == inst_data_1d.op

IsClic == mtvec_mode = "clic"

CsrWr(op) == inst_data_1d_vld /\ Op = op

EeiReq == Op = "cust" /\ inst_data_1d_vld

RetireEei == EeiReq /\ eei_ans = "ack"

\* Variant with a mistake: a store retires although its access failed.
RetireVldOnError ==
  \/ /\ inst_data_1d_vld
     /\ \/ Op \in {"alu", "jump", "mret", "ecall", "ebreak"} \cup CsrOps
        \/ Op = "load" /\ lsu_valid /\ ~ex_load_access
        \/ Op = "store" /\ lsu_valid
  \/ RetireEei

\* An eei_error_i ends the instruction without retiring it.
RetireVld ==
  \/ /\ inst_data_1d_vld
     /\ \/ Op \in {"alu", "jump", "mret", "ecall", "ebreak"} \cup CsrOps
        \/ Op = "load" /\ lsu_valid /\ ~ex_load_access
        \/ Op = "store" /\ lsu_valid /\ ~ex_store_access
  \/ RetireEei

ExVld ==
  /\ ~npc_sel_bootaddr
  /\ \/ Op \in {"illegal", "misjump", "ecall", "ebreak"}
     \/ ex_fetch_access \/ ex_misalign_load \/ ex_misalign_store
     \/ ex_load_access \/ ex_store_access

---------------------------------------------------------------------------
(* Instruction fetch.                                                      *)

LsuAck == lsu_ans # "wait"

EeiAck == eei_ans # "wait"

IfStall ==
  \/ lsu_req_neg /\ ~lsu_valid
  \/ EeiReq /\ ~EeiAck
  \/ if_stall_clic

InstReq == rst_cnt = 7 /\ ~IfStall

IfVld == InstReq /\ fetch_ans # "wait"

IfError == IfVld /\ fetch_ans = "error"

NpcSelClicVectorPos == npc_sel_clic_vector /\ ~npc_sel_clic_vector_1d

ClicNpcVector ==
  IF NpcSelClicVectorPos THEN lsu_rdata ELSE clic_npc_vector_lock

\* The priority of the sources of the next pc.
Npc ==
  IF npc_sel_bootaddr THEN BootAddr
  ELSE IF ExVld \/ npc_sel_clint_direct THEN TrapBase
  ELSE IF npc_sel_clint_vector THEN Slot[mcause.code]
  ELSE IF npc_sel_clic_direct THEN TrapBase
  ELSE IF npc_sel_clic_vector THEN ClicNpcVector
  ELSE NextOf(inst_data_1d, pc, mepc)

---------------------------------------------------------------------------
(* Interrupts and the load/store request.                                  *)

EnPending == IF mstatus_mie /\ ~IsClic THEN irq_lines ELSE {}

ClicEnPending ==
  /\ IsClic
  /\ mstatus_mie
  /\ clic_irq # NoIrq
  /\ Level[clic_irq] > curr_clic_level

\* Variant with a mistake: not aligned to the fetched instruction.
ClicVectorVldAnytime == ClicEnPending /\ clic_irq \in ShvIrqs

ClicVectorVld == ClicEnPending /\ if_vld_pos /\ clic_irq \in ShvIrqs

ClicDirectVld == ClicEnPending /\ if_vld_pos /\ clic_irq \notin ShvIrqs

ClicIrqVld == ClicVectorVld \/ ClicDirectVld

IrqVld == clint_irq_vld \/ ClicIrqVld

EnterEx == IfVld /\ ExVld

EnterIrqEx == IrqVld \/ EnterEx

ExitIrqEx == Op = "mret" /\ RetireVld

\* mintthresh keeps its reset value, 0.
MnxtiVld ==
  /\ IsClic
  /\ clic_irq # NoIrq
  /\ Level[clic_irq] > mpil
  /\ clic_irq \notin ShvIrqs

CsrWrMnxti == MnxtiVld /\ CsrWr("mnxti")

MnxtiClr == csr_wr_mnxti_pos /\ ~csr_wr_mnxti_pos_1d

ClicIrqAck == ClicIrqVld \/ MnxtiClr

ClicNpcLoad == ClicVectorVld \/ clic_npc_load_last

\* Variant with a mistake: an interrupt does not suppress the request.
LsuPreReqDespiteIrq ==
  \/ if_vld_pos /\ inst_rdata.op \in {"load", "store"}
  \/ ClicVectorVld

LsuPreReq ==
  \/ if_vld_pos /\ ~IrqVld /\ inst_rdata.op \in {"load", "store"}
  \/ ClicVectorVld

LsuReq == LsuPreReq \/ lsu_post_req

LsuLoad == inst_rdata.op \in {"load", "misload"} \/ lsu_load_pending

LsuStore == inst_rdata.op \in {"store", "misstore"} \/ lsu_store_pending

\* Operands are abstracted away, so the address of a load or store does not
\* appear; the table entry that is read does.
LsuOut ==
  [we |-> ~ClicNpcLoad /\ LsuStore,
   tbl |-> ClicNpcLoad,
   id |-> IF ClicNpcLoad THEN clic_irq ELSE NoIrq]

---------------------------------------------------------------------------
(* Registers clocked by clk_neg_i.                                         *)

RstDly == rst_cnt' = IF rst_cnt < 7 THEN rst_cnt + 1 ELSE rst_cnt

\* A select is set by its source and dropped by the next fetch.
Select(sel, set) == sel' = (set \/ (sel /\ ~IfVld))

SelBootaddr == npc_sel_bootaddr' = (npc_sel_bootaddr /\ ~IfVld)
SelClintDirect ==
  Select(npc_sel_clint_direct, clint_irq_vld /\ mtvec_mode = "direct")
SelClintVector ==
  Select(npc_sel_clint_vector, clint_irq_vld /\ mtvec_mode = "vector")
SelClicDirect == Select(npc_sel_clic_direct, ClicDirectVld)
TblLoaded == ClicNpcLoad /\ LsuReq /\ LsuAck
SelClicVector == Select(npc_sel_clic_vector, TblLoaded)
SelClicVector1d == npc_sel_clic_vector_1d' = npc_sel_clic_vector

\* Variant with a mistake: the table entry is not kept.
ClicVectorLockMissing == clic_npc_vector_lock' = clic_npc_vector_lock

ClicVectorLock ==
  clic_npc_vector_lock' =
    IF NpcSelClicVectorPos THEN lsu_rdata ELSE clic_npc_vector_lock

\* lsu_rdata_i matters to control when it is a table entry.
LsuRdata ==
  lsu_rdata' = IF TblLoaded THEN Vec[clic_irq] ELSE lsu_rdata

\* Variant with a mistake: the stall is not released.
IfStallClicForever == if_stall_clic' = (if_stall_clic \/ ClicNpcLoad)

IfStallClic ==
  if_stall_clic' = IF TblLoaded THEN FALSE ELSE if_stall_clic \/ ClicNpcLoad

\* Variant with a mistake: pc follows npc without waiting for the fetch.
PcEveryCycle == pc' = Npc

Pc == pc' = IF IfVld /\ ~IfError THEN Npc ELSE pc

InstData1d == inst_data_1d' = IF IfVld THEN inst_rdata ELSE inst_data_1d

\* Variants with a mistake: an interrupt does not discard the instruction, an
\* instruction stays valid after it retires, a failed fetch counts as valid.
InstVldDespiteIrq ==
  inst_data_1d_vld' =
    IF IfVld /\ ~IfError THEN TRUE
    ELSE inst_data_1d_vld /\ ~IfError /\ ~RetireVld

InstVldAfterRetire ==
  inst_data_1d_vld' =
    IF IfVld /\ ~IfError /\ ~IrqVld THEN TRUE
    ELSE inst_data_1d_vld /\ ~IfError

InstVldDespiteError ==
  inst_data_1d_vld' =
    IF IfVld /\ ~IrqVld THEN TRUE ELSE inst_data_1d_vld /\ ~RetireVld

InstData1dVld ==
  inst_data_1d_vld' =
    IF IfVld /\ ~IfError /\ ~IrqVld THEN TRUE
    ELSE inst_data_1d_vld /\ ~IfError /\ ~RetireVld

LsuValid == lsu_valid' = (LsuReq /\ LsuAck)

\* Variant with a mistake: the stall request is never withdrawn.
LsuReqNegForever == lsu_req_neg' = (lsu_req_neg \/ LsuReq)

LsuReqNeg == lsu_req_neg' = LsuReq

ExFetchAccess ==
  ex_fetch_access' = IF IfVld THEN IfError ELSE ex_fetch_access

\* The address of a table read is aligned.
ExMisalign ==
  /\ ex_misalign_load' = IF if_vld_pos
                           THEN inst_rdata.op = "misload" /\ ~ClicNpcLoad
                           ELSE ex_misalign_load
  /\ ex_misalign_store' = IF if_vld_pos
                            THEN inst_rdata.op = "misstore" /\ ~ClicNpcLoad
                            ELSE ex_misalign_store

ExLsuAccess ==
  IF LsuReq /\ lsu_ans = "error"
    THEN /\ ex_load_access' = (LsuLoad \/ ClicNpcLoad)
         /\ ex_store_access' = LsuStore
    ELSE /\ ex_load_access' = (ex_load_access /\ ~IfVld)
         /\ ex_store_access' = (ex_store_access /\ ~IfVld)

\* The surroundings answer the requests that are made after the edge.
NegEnv ==
  /\ eei_ans' \in IF EeiReq' THEN EeiAnswers ELSE {"wait"}
  /\ fetch_ans' \in IF InstReq' THEN FetchAnswers ELSE {"wait"}

NegEdge ==
  /\ clk = "neg"
  /\ clk' = "pos"
  /\ RstDly
  /\ SelBootaddr /\ SelClintDirect /\ SelClintVector
  /\ SelClicDirect /\ SelClicVector /\ SelClicVector1d
  /\ ClicVectorLock /\ LsuRdata /\ IfStallClic
  /\ Pc /\ InstData1d /\ InstData1dVld
  /\ LsuValid /\ LsuReqNeg
  /\ ExFetchAccess /\ ExMisalign /\ ExLsuAccess
  /\ NegEnv
  /\ if_hold' = IF InstReq /\ ~IfVld THEN {Npc} ELSE {}
  /\ UNCHANGED posVars

---------------------------------------------------------------------------
(* Registers clocked by clk_i.                                             *)

IfVldPos == if_vld_pos' = IfVld

\* Variant with a mistake: the kind of a waiting access is not kept.
LsuPendingMissing ==
  lsu_load_pending' = FALSE /\ lsu_store_pending' = FALSE

LsuPending ==
  IF LsuReq
    THEN /\ lsu_load_pending' = (LsuLoad /\ ~LsuAck)
         /\ lsu_store_pending' = (LsuStore /\ ~LsuAck)
    ELSE UNCHANGED <<lsu_load_pending, lsu_store_pending>>

LsuPostReq == lsu_post_req' = (~LsuAck /\ (LsuPreReq \/ lsu_post_req))

\* Variant with a mistake: a trap does not disable interrupts.
MieKeptOnTrap ==
  mstatus_mie' =
    IF ExitIrqEx THEN mstatus_mpie
    ELSE IF CsrWr("mie_off") \/ CsrWr("mpie_on") THEN FALSE
    ELSE mstatus_mie \/ CsrWr("mie_on") \/ (IsClic /\ CsrWr("mnxti"))

MstatusMie ==
  mstatus_mie' =
    IF EnterIrqEx THEN FALSE
    ELSE IF ExitIrqEx THEN mstatus_mpie
    ELSE IF CsrWr("mie_off") \/ CsrWr("mpie_on") THEN FALSE
    ELSE mstatus_mie \/ CsrWr("mie_on") \/ (IsClic /\ CsrWr("mnxti"))

MstatusMpie ==
  mstatus_mpie' =
    IF EnterIrqEx THEN mstatus_mie
    ELSE mstatus_mpie \/ ExitIrqEx \/ CsrWr("mpie_on")
           \/ (IsClic /\ CsrWr("mcause"))

Mtvec == mtvec_mode' = IF CsrWr("mtvec") THEN inst_data_1d.arg ELSE mtvec_mode

\* Driven whenever a source is there, whether or not a trap is entered.
Mcause ==
  mcause' =
    IF Op = "misjump" THEN Exc(0)
    ELSE IF ex_fetch_access THEN Exc(1)
    ELSE IF Op = "illegal" THEN Exc(2)
    ELSE IF Op = "ebreak" THEN Exc(3)
    ELSE IF ex_misalign_load THEN Exc(4)
    ELSE IF ex_load_access THEN Exc(5)
    ELSE IF ex_misalign_store THEN Exc(6)
    ELSE IF ex_store_access THEN Exc(7)
    ELSE IF Op = "ecall" THEN Exc(11)
    ELSE IF EnPending # {} THEN Irq(IrqCode[TopLine(EnPending)])
    ELSE IF ClicIrqVld \/ CsrWrMnxti THEN Irq(clic_irq)
    ELSE IF CsrWr("mcause") THEN Irq(NoIrq)
    ELSE mcause

Mepc ==
  mepc' = IF EnterIrqEx THEN pc
          ELSE IF TblLoaded /\ lsu_ans = "error" THEN TblAddr
          ELSE IF CsrWr("mepc") THEN inst_data_1d.arg
          ELSE mepc

\* Variant with a mistake: accepted in the middle of a fetch.
ClintIrqVldMidFetch ==
  clint_irq_vld' = (~clint_irq_vld /\ EnPending # {})

ClintIrqVld ==
  clint_irq_vld' = (~clint_irq_vld /\ EnPending # {} /\ IfVld)

ClicNpcLoadLast ==
  clic_npc_load_last' = (~TblLoaded /\ ClicNpcLoad)

\* Variant with a mistake: mret leaves the level of the handler.
LevelKeptOnMret ==
  curr_clic_level' =
    IF ClicIrqVld \/ CsrWrMnxti THEN Level[clic_irq] ELSE curr_clic_level

CurrClicLevel ==
  curr_clic_level' =
    IF ClicIrqVld \/ CsrWrMnxti THEN Level[clic_irq]
    ELSE IF ExitIrqEx THEN mpil
    ELSE curr_clic_level

Mpil ==
  mpil' = IF ClicIrqVld THEN curr_clic_level
          ELSE IF IsClic /\ CsrWr("mcause") THEN 0
          ELSE mpil

MnxtiRegs ==
  /\ csr_wr_mnxti_pos' = CsrWrMnxti
  /\ csr_wr_mnxti_pos_1d' = csr_wr_mnxti_pos
  /\ mnxti_id' = IF MnxtiClr THEN NoIrq
                 ELSE IF CsrWrMnxti THEN clic_irq
                 ELSE mnxti_id

\* Variant with a mistake: the data of a failed fetch is what the memory holds.
InstRdataOnError ==
  IF ~IfVld
    THEN inst_rdata' = pos_data /\ UNCHANGED pos_data
    ELSE inst_rdata' \in Insns /\ UNCHANGED pos_data

\* The instruction data of an acknowledged fetch.  An external access also
\* stays in the register of the demultiplexer, which shows at other times.
\* A fetch that no channel decodes is answered with an error and that register.
InstRdata ==
  IF ~IfVld
    THEN inst_rdata' = pos_data /\ UNCHANGED pos_data
    ELSE \/ /\ ~IfError
            /\ inst_rdata' \in Insns
            /\ UNCHANGED pos_data
         \/ /\ inst_rdata' \in ExtInsns
            /\ pos_data' = inst_rdata'
         \/ /\ IfError
            /\ inst_rdata' = pos_data
            /\ UNCHANGED pos_data

PosEnv ==
  /\ irq_lines' \in SUBSET IrqLines
  /\ clic_irq' \in ClicIrqs \cup {NoIrq}
  /\ InstRdata
  /\ lsu_ans' \in IF ~LsuReq' THEN {"wait"}
                  ELSE IF ClicNpcLoad' THEN TblAnswers
                  ELSE LsuAnswers

---------------------------------------------------------------------------
(* Observation: the program the core appears to execute.                   *)

\* Where the interrupt that is entered now continues.
IrqTarget ==
  IF clint_irq_vld
    THEN IF mtvec_mode = "vector" THEN Slot[mcause'.code] ELSE TrapBase
    ELSE IF clic_irq \in ShvIrqs THEN Vec[clic_irq] ELSE TrapBase

\* An instruction of the program leaves the core.
Completes ==
  \/ RetireVld /\ Op \notin {"ecall", "ebreak"}
  \/ EeiReq /\ eei_ans = "error" /\ IfVld

Observe ==
  /\ apc' = IF IrqVld THEN IrqTarget
            ELSE IF EnterEx THEN TrapBase
            ELSE IF Completes THEN NextOf(inst_data_1d, pc, mepc)
            ELSE apc
  /\ last' = IF EnterIrqEx \/ Completes THEN pc ELSE last
  /\ wasmie' = IF EnterIrqEx THEN FALSE
               ELSE IF Completes THEN mstatus_mie
               ELSE wasmie
  /\ trap' = IF EnterIrqEx
               THEN [by |-> IF IrqVld THEN "interrupt" ELSE "exception",
                     cause |-> mcause']
               ELSE trap
  /\ faddr' = IF IfVld THEN Npc ELSE faddr
  /\ lsu_hold' = IF LsuReq /\ ~LsuAck THEN {LsuOut} ELSE {}

PosEdge ==
  /\ clk = "pos"
  /\ clk' = "neg"
  /\ IfVldPos /\ LsuPending /\ LsuPostReq
  /\ MstatusMie /\ MstatusMpie /\ Mtvec /\ Mcause /\ Mepc
  /\ ClintIrqVld /\ ClicNpcLoadLast /\ CurrClicLevel /\ Mpil /\ MnxtiRegs
  /\ UNCHANGED negVars
  /\ PosEnv
  /\ Observe

---------------------------------------------------------------------------
\* What rst_ni does to every register of the core.
Init ==
  /\ rst_cnt = 0 /\ npc_sel_bootaddr = TRUE
  /\ npc_sel_clint_direct = FALSE /\ npc_sel_clint_vector = FALSE
  /\ npc_sel_clic_direct = FALSE /\ npc_sel_clic_vector = FALSE
  /\ npc_sel_clic_vector_1d = FALSE /\ clic_npc_vector_lock = ZeroAddr
  /\ if_stall_clic = FALSE /\ pc = ZeroAddr
  /\ inst_data_1d = ResetInsn /\ inst_data_1d_vld = FALSE
  /\ lsu_valid = FALSE /\ lsu_req_neg = FALSE /\ lsu_rdata = ZeroAddr
  /\ ex_fetch_access = FALSE /\ ex_misalign_load = FALSE
  /\ ex_misalign_store = FALSE /\ ex_load_access = FALSE
  /\ ex_store_access = FALSE /\ fetch_ans = "wait" /\ eei_ans = "wait"
  /\ if_vld_pos = FALSE /\ lsu_load_pending = FALSE
  /\ lsu_store_pending = FALSE /\ lsu_post_req = FALSE
  /\ mstatus_mie = FALSE /\ mstatus_mpie = TRUE /\ mtvec_mode = "direct"
  /\ mcause = Exc(0) /\ mepc = ZeroAddr /\ clint_irq_vld = FALSE
  /\ clic_npc_load_last = FALSE /\ curr_clic_level = 0 /\ mpil = 0
  /\ csr_wr_mnxti_pos = FALSE /\ csr_wr_mnxti_pos_1d = FALSE
  /\ mnxti_id = NoIrq /\ lsu_ans = "wait"
  /\ apc = BootAddr /\ last = ZeroAddr /\ wasmie = FALSE /\ trap = NoTrap
  /\ faddr = ZeroAddr /\ if_hold = {} /\ lsu_hold = {}
  /\ clk = "neg"
  /\ irq_lines = {} /\ clic_irq = NoIrq
  /\ pos_data = ResetInsn /\ inst_rdata = ResetInsn

\* rst_soft_ni resets the core at any time; the interrupt sources and the
\* memory fabric keep their state.
SoftReset ==
  /\ rst_cnt' = 0 /\ npc_sel_bootaddr' = TRUE
  /\ npc_sel_clint_direct' = FALSE /\ npc_sel_clint_vector' = FALSE
  /\ npc_sel_clic_direct' = FALSE /\ npc_sel_clic_vector' = FALSE
  /\ npc_sel_clic_vector_1d' = FALSE /\ clic_npc_vector_lock' = ZeroAddr
  /\ if_stall_clic' = FALSE /\ pc' = ZeroAddr
  /\ inst_data_1d' = ResetInsn /\ inst_data_1d_vld' = FALSE
  /\ lsu_valid' = FALSE /\ lsu_req_neg' = FALSE /\ lsu_rdata' = ZeroAddr
  /\ ex_fetch_access' = FALSE /\ ex_misalign_load' = FALSE
  /\ ex_misalign_store' = FALSE /\ ex_load_access' = FALSE
  /\ ex_store_access' = FALSE /\ fetch_ans' = "wait" /\ eei_ans' = "wait"
  /\ if_vld_pos' = FALSE /\ lsu_load_pending' = FALSE
  /\ lsu_store_pending' = FALSE /\ lsu_post_req' = FALSE
  /\ mstatus_mie' = FALSE /\ mstatus_mpie' = TRUE /\ mtvec_mode' = "direct"
  /\ mcause' = Exc(0) /\ mepc' = ZeroAddr /\ clint_irq_vld' = FALSE
  /\ clic_npc_load_last' = FALSE /\ curr_clic_level' = 0 /\ mpil' = 0
  /\ csr_wr_mnxti_pos' = FALSE /\ csr_wr_mnxti_pos_1d' = FALSE
  /\ mnxti_id' = NoIrq /\ lsu_ans' = "wait"
  /\ apc' = BootAddr /\ last' = ZeroAddr /\ wasmie' = FALSE /\ trap' = NoTrap
  /\ faddr' = ZeroAddr /\ if_hold' = {} /\ lsu_hold' = {}
  /\ inst_rdata' = pos_data
  /\ UNCHANGED <<clk, irq_lines, clic_irq, pos_data>>

Next == NegEdge \/ PosEdge \/ SoftReset

Spec == Init /\ [][Next]_vars

\* The clock runs, every request is answered sooner or later, and the soft
\* reset is not asserted for ever again.
Fairness ==
  /\ WF_vars(NegEdge)
  /\ WF_vars(PosEdge)
  /\ SF_vars(NegEdge /\ fetch_ans' # "wait")
  /\ SF_vars(NegEdge /\ eei_ans' # "wait")
  /\ SF_vars(PosEdge /\ lsu_ans' # "wait")
  /\ <>[][~SoftReset]_vars

FairSpec == Spec /\ Fairness

---------------------------------------------------------------------------
NegTypes ==
  /\ rst_cnt \in 0..7
  /\ npc_sel_bootaddr \in BOOLEAN
  /\ npc_sel_clint_direct \in BOOLEAN /\ npc_sel_clint_vector \in BOOLEAN
  /\ npc_sel_clic_direct \in BOOLEAN /\ npc_sel_clic_vector \in BOOLEAN
  /\ npc_sel_clic_vector_1d \in BOOLEAN
  /\ clic_npc_vector_lock \in Addr /\ lsu_rdata \in Addr
  /\ if_stall_clic \in BOOLEAN
  /\ pc \in Addr
  /\ inst_data_1d \in InsnType /\ inst_data_1d_vld \in BOOLEAN
  /\ lsu_valid \in BOOLEAN /\ lsu_req_neg \in BOOLEAN
  /\ ex_fetch_access \in BOOLEAN
  /\ ex_misalign_load \in BOOLEAN /\ ex_misalign_store \in BOOLEAN
  /\ ex_load_access \in BOOLEAN /\ ex_store_access \in BOOLEAN
  /\ fetch_ans \in Answers /\ eei_ans \in Answers
  /\ if_hold \in SUBSET Addr

PosTypes ==
  /\ if_vld_pos \in BOOLEAN
  /\ lsu_load_pending \in BOOLEAN /\ lsu_store_pending \in BOOLEAN
  /\ lsu_post_req \in BOOLEAN
  /\ mstatus_mie \in BOOLEAN /\ mstatus_mpie \in BOOLEAN
  /\ mtvec_mode \in Modes
  /\ mcause \in CauseType
  /\ mepc \in Addr
  /\ clint_irq_vld \in BOOLEAN
  /\ clic_npc_load_last \in BOOLEAN
  /\ curr_clic_level \in Nat /\ mpil \in Nat
  /\ csr_wr_mnxti_pos \in BOOLEAN /\ csr_wr_mnxti_pos_1d \in BOOLEAN
  /\ mnxti_id \in ClicIrqs \cup {NoIrq}

EnvTypes ==
  /\ irq_lines \in SUBSET IrqLines
  /\ clic_irq \in ClicIrqs \cup {NoIrq}
  /\ lsu_ans \in Answers
  /\ inst_rdata \in InsnType /\ pos_data \in InsnType

GhostTypes ==
  /\ apc \in Addr /\ last \in Addr /\ wasmie \in BOOLEAN
  /\ trap \in TrapType
  /\ faddr \in Addr
  /\ lsu_hold \in SUBSET LsuOutType

TypeOK ==
  /\ clk \in {"neg", "pos"}
  /\ NegTypes
  /\ PosTypes
  /\ EnvTypes
  /\ GhostTypes

\* The core implements the hart software is written for: instructions
\* complete one at a time and in program order, a trap saves the address of
\* the instruction that has not completed and nothing else, and mret undoes
\* exactly one trap.
Hart == INSTANCE SophonHart WITH
  mode <- mtvec_mode, mie <- mstatus_mie, mpie <- mstatus_mpie,
  level <- curr_clic_level, plevel <- mpil
ImplementsHart == Hart!HartSpec

\* A valid instruction was read from the address that pc gives it (l.200-203:
\* the npc selects change at the negedge clock and keep stable).
FetchMatchesPc ==
  inst_data_1d_vld /\ clk = "pos" => pc = faddr

\* Every register, input and observation keeps its type, and what is valid
\* was read from where pc points (l.358, l.463).
CoreInv == TypeOK /\ FetchMatchesPc

\* inst_itf_stable (l.1962): the address of a waiting fetch does not change.
InstItfStable ==
  clk = "neg" => if_hold \subseteq {Npc}

\* inst_lsu_stable (l.1966): a waiting load or store, or table read, keeps
\* its address and its direction.
InstLsuStable ==
  clk = "pos" => lsu_hold \subseteq {LsuOut}

\* A load or store leaves the core only for an instruction that it goes on to
\* execute: not for one that an interrupt or a fetch error discards (l.834).
AccessIsExecuted ==
  [][clk = "neg" /\ clk' = "pos" /\ LsuPreReq /\ ~ClicNpcLoad
       => inst_data_1d_vld']_vars

\* A custom instruction that the extension has taken is not offered to it
\* again while the next instruction is still being fetched (l.470-473).
EeiOnce ==
  [][clk = "neg" /\ clk' = "pos" /\ EeiReq /\ EeiAck /\ ~IfVld => ~EeiReq']_vars

\* irq > exception (l.1921): an interrupt is not entered on top of the
\* exception that arose in the cycle that accepted it.
IrqBeforeException ==
  [][clk = "pos" /\ clk' = "neg" /\ IrqVld => mstatus_mie \/ wasmie]_vars

\* No stall lasts for ever: the core keeps fetching.
KeepsFetching == []<>IfVld

\* A CLINT interrupt that is enabled does not stay pending for ever.
ClintIsTaken == []<>(EnPending = {})
=============================================================================
