-------------------------- MODULE SophonCoreProofs --------------------------
(***************************************************************************)
(* Theorems about SophonCore, for every address space, instruction set and *)
(* interrupt configuration that IsaAssumption and CoreAssumption allow.    *)
(*                                                                         *)
(* The second part shows that SophonCore implements SophonHart:            *)
(* synchronous exceptions are precise in every program without interrupts, *)
(* and interrupts are precise in every program without exceptions, however *)
(* long the memories take to answer. Both in one program are not: the      *)
(* source fails IrqBeforeException then.                                   *)
(***************************************************************************)
EXTENDS SophonCore, TLAPS

---------------------------------------------------------------------------
(* What the combinational signals evaluate to.                             *)

\* The next pc is an address (l.312-356).
LEMMA NpcType ==
  ASSUME NegTypes, PosTypes
  PROVE  Npc \in Addr
<1>1. NextOf(inst_data_1d, pc, mepc) \in Addr
  BY IsaAssumption DEF NextOf, NegTypes, PosTypes, InsnType, PlainOps
<1>2. Slot[mcause.code] \in Addr
  BY IsaAssumption DEF PosTypes, CauseType
<1>3. ClicNpcVector \in Addr
  BY DEF ClicNpcVector, NegTypes
<1> QED
  BY <1>1, <1>2, <1>3, IsaAssumption DEF Npc

\* The cause register stays within CauseType (l.1300-1338).
LEMMA McauseType ==
  ASSUME PosTypes, EnvTypes, Mcause
  PROVE  mcause' \in CauseType
<1>1. \A c \in Codes : Exc(c) \in CauseType /\ Irq(c) \in CauseType
  BY DEF Exc, Irq, CauseType
<1>2. IrqCode[TopLine(EnPending)] \in Codes
  BY DEF IrqCode, TopLine, Codes
<1>3. clic_irq \in Codes /\ NoIrq \in Codes
  BY IsaAssumption DEF EnvTypes, NoIrq, Codes
<1>4. {0, 1, 2, 3, 4, 5, 6, 7, 11} \subseteq Codes
  BY DEF Codes
<1> QED
  BY <1>1, <1>2, <1>3, <1>4 DEF Mcause, PosTypes

LEMMA LevelType ==
  ASSUME EnvTypes
  PROVE  Level[clic_irq] \in Nat
BY IsaAssumption DEF EnvTypes

---------------------------------------------------------------------------
(* Type correctness.                                                       *)

LEMMA TypeInit == Init => TypeOK
<1> SUFFICES ASSUME Init PROVE TypeOK
  OBVIOUS
<1>1. clk \in {"neg", "pos"}
  BY DEF Init
<1>2. NegTypes
  <2>1. ResetInsn \in InsnType
    BY DEF ResetInsn, Plain, InsnType, PlainOps, NoArg
  <2>2. fetch_ans \in Answers /\ eei_ans \in Answers /\ if_hold \in SUBSET Addr
    BY DEF Init, Answers
  <2>3. /\ clic_npc_vector_lock \in Addr /\ lsu_rdata \in Addr /\ pc \in Addr
        /\ rst_cnt \in 0..7 /\ inst_data_1d \in InsnType
    BY <2>1, IsaAssumption DEF Init
  <2> QED
    BY <2>2, <2>3 DEF Init, NegTypes
<1>3. PosTypes
  <2>1. Exc(0) \in CauseType
    BY DEF Exc, CauseType, Codes
  <2> QED
    BY <2>1, IsaAssumption DEF Init, PosTypes, Modes
<1>4. EnvTypes
  <2>1. ResetInsn \in InsnType
    BY DEF ResetInsn, Plain, InsnType, PlainOps, NoArg
  <2> QED
    BY <2>1, IsaAssumption DEF Init, EnvTypes, Answers
<1>5. GhostTypes
  <2>1. NoTrap \in TrapType
    BY DEF NoTrap, TrapType, Exc, CauseType, Codes
  <2> QED
    BY <2>1, IsaAssumption DEF Init, GhostTypes
<1> QED
  BY <1>1, <1>2, <1>3, <1>4, <1>5 DEF TypeOK

\* One step per register that the edge of clk_neg_i clocks.
LEMMA TypeNeg ==
  ASSUME TypeOK, NegEdge
  PROVE  TypeOK'
<1> USE DEF TypeOK
<1>1. clk' \in {"neg", "pos"}
  BY DEF NegEdge
<1>2. NegTypes'
  <2>1. rst_cnt' \in 0..7
    BY DEF NegEdge, RstDly, NegTypes
  <2>2. /\ npc_sel_bootaddr' \in BOOLEAN
        /\ npc_sel_clint_direct' \in BOOLEAN /\ npc_sel_clint_vector' \in BOOLEAN
        /\ npc_sel_clic_direct' \in BOOLEAN /\ npc_sel_clic_vector' \in BOOLEAN
        /\ npc_sel_clic_vector_1d' \in BOOLEAN
    BY DEF NegEdge, SelBootaddr, SelClintDirect, SelClintVector,
           SelClicDirect, SelClicVector, SelClicVector1d, Select, NegTypes
  <2>3. clic_npc_vector_lock' \in Addr
    BY DEF NegEdge, ClicVectorLock, NegTypes
  <2>4. lsu_rdata' \in Addr
    BY IsaAssumption DEF NegEdge, LsuRdata, NegTypes, EnvTypes
  <2>5. if_stall_clic' \in BOOLEAN
    BY DEF NegEdge, IfStallClic, ClicNpcLoad, ClicVectorVld, NegTypes, PosTypes
  <2>6. pc' \in Addr
    BY NpcType DEF NegEdge, Pc, NegTypes
  <2>7. inst_data_1d' \in InsnType
    BY DEF NegEdge, InstData1d, NegTypes, EnvTypes
  <2>8. inst_data_1d_vld' \in BOOLEAN
    BY DEF NegEdge, InstData1dVld, NegTypes
  <2>9. lsu_valid' \in BOOLEAN /\ lsu_req_neg' \in BOOLEAN
    BY DEF NegEdge, LsuValid, LsuReqNeg, LsuReq, LsuPreReq, PosTypes
  <2>10. ex_fetch_access' \in BOOLEAN
    BY DEF NegEdge, ExFetchAccess, IfError, NegTypes
  <2>11. ex_misalign_load' \in BOOLEAN /\ ex_misalign_store' \in BOOLEAN
    BY DEF NegEdge, ExMisalign, NegTypes
  <2>12. ex_load_access' \in BOOLEAN /\ ex_store_access' \in BOOLEAN
    BY DEF NegEdge, ExLsuAccess, LsuLoad, LsuStore, NegTypes
  <2>13. fetch_ans' \in Answers /\ eei_ans' \in Answers
    BY CoreAssumption DEF NegEdge, NegEnv, Answers
  <2>14. if_hold' \in SUBSET Addr
    BY NpcType DEF NegEdge
  <2> QED
    BY <2>1, <2>2, <2>3, <2>4, <2>5, <2>6, <2>7, <2>8, <2>9, <2>10, <2>11,
       <2>12, <2>13, <2>14 DEF NegTypes
<1>3. PosTypes'
  BY DEF NegEdge, posVars, csrVars, clicVars, PosTypes
<1>4. EnvTypes'
  BY DEF NegEdge, posVars, envVars, EnvTypes
<1>5. GhostTypes'
  BY DEF NegEdge, posVars, ghostVars, GhostTypes
<1> QED
  BY <1>1, <1>2, <1>3, <1>4, <1>5

\* One step per register that the edge of clk_i clocks.
LEMMA TypePos ==
  ASSUME TypeOK, PosEdge
  PROVE  TypeOK'
<1> USE DEF TypeOK
<1>1. clk' \in {"neg", "pos"}
  BY DEF PosEdge
<1>2. NegTypes'
  BY DEF PosEdge, negVars, selVars, exVars, NegTypes
<1>3. PosTypes'
  <2>1. if_vld_pos' \in BOOLEAN
    BY DEF PosEdge, IfVldPos, IfVld, InstReq
  <2>2. lsu_load_pending' \in BOOLEAN /\ lsu_store_pending' \in BOOLEAN
    BY DEF PosEdge, LsuPending, LsuAck, PosTypes
  <2>3. lsu_post_req' \in BOOLEAN
    BY DEF PosEdge, LsuPostReq, LsuAck
  <2>4. mstatus_mie' \in BOOLEAN /\ mstatus_mpie' \in BOOLEAN
    BY DEF PosEdge, MstatusMie, MstatusMpie, PosTypes
  <2>5. mtvec_mode' \in Modes
    BY DEF PosEdge, Mtvec, CsrWr, Op, NegTypes, PosTypes, InsnType, PlainOps
  <2>6. mcause' \in CauseType
    BY McauseType DEF PosEdge
  <2>7. mepc' \in Addr
    BY IsaAssumption
    DEF PosEdge, Mepc, CsrWr, Op, NegTypes, PosTypes, InsnType, PlainOps
  <2>8. clint_irq_vld' \in BOOLEAN
    BY DEF PosEdge, ClintIrqVld
  <2>9. clic_npc_load_last' \in BOOLEAN
    BY DEF PosEdge, ClicNpcLoadLast
  <2>10. curr_clic_level' \in Nat /\ mpil' \in Nat
    BY LevelType DEF PosEdge, CurrClicLevel, Mpil, PosTypes
  <2>11. csr_wr_mnxti_pos' \in BOOLEAN /\ csr_wr_mnxti_pos_1d' \in BOOLEAN
    BY DEF PosEdge, MnxtiRegs, CsrWrMnxti, PosTypes
  <2>12. mnxti_id' \in ClicIrqs \cup {NoIrq}
    BY DEF PosEdge, MnxtiRegs, PosTypes, EnvTypes
  <2> QED
    BY <2>1, <2>2, <2>3, <2>4, <2>5, <2>6, <2>7, <2>8, <2>9, <2>10, <2>11,
       <2>12 DEF PosTypes
<1>4. EnvTypes'
  <2>1. irq_lines' \in SUBSET IrqLines /\ clic_irq' \in ClicIrqs \cup {NoIrq}
    BY DEF PosEdge, PosEnv
  <2>2. lsu_ans' \in Answers
    BY CoreAssumption DEF PosEdge, PosEnv, Answers
  <2>3. inst_rdata' \in InsnType /\ pos_data' \in InsnType
    BY IsaAssumption, CoreAssumption DEF PosEdge, PosEnv, InstRdata, EnvTypes
  <2> QED
    BY <2>1, <2>2, <2>3 DEF EnvTypes
<1>5. GhostTypes'
  <2>1. Mcause /\ Observe
    BY DEF PosEdge
  <2>2. mcause' \in CauseType
    BY <2>1, McauseType
  <2>3. apc' \in Addr
    <3>1. IrqTarget \in Addr
      BY <2>2, IsaAssumption DEF IrqTarget, CauseType, EnvTypes
    <3>2. NextOf(inst_data_1d, pc, mepc) \in Addr
      BY IsaAssumption DEF NextOf, NegTypes, PosTypes, InsnType, PlainOps
    <3> QED
      BY <2>1, <3>1, <3>2, IsaAssumption DEF Observe, GhostTypes
  <2>4. last' \in Addr /\ wasmie' \in BOOLEAN
    BY <2>1 DEF Observe, GhostTypes, NegTypes, PosTypes
  <2>5. trap' \in TrapType
    BY <2>1, <2>2 DEF Observe, GhostTypes, TrapType
  <2>6. faddr' \in Addr
    BY <2>1, NpcType DEF Observe, GhostTypes
  <2>7. lsu_hold' \in SUBSET LsuOutType
    <3>1. LsuOut \in LsuOutType
      <4>1. (~ClicNpcLoad /\ LsuStore) \in BOOLEAN
        OBVIOUS
      <4>2. ClicNpcLoad \in BOOLEAN
        BY DEF ClicNpcLoad, ClicVectorVld, PosTypes
      <4>3. clic_irq \in Codes /\ NoIrq \in Codes
        BY IsaAssumption DEF EnvTypes, NoIrq, Codes
      <4> HIDE DEF TypeOK
      <4> QED
        BY <4>1, <4>2, <4>3 DEF LsuOut, LsuOutType
    <3> QED
      BY <2>1, <3>1 DEF Observe
  <2> QED
    BY <2>3, <2>4, <2>5, <2>6, <2>7 DEF GhostTypes
<1> QED
  BY <1>1, <1>2, <1>3, <1>4, <1>5

LEMMA TypeReset ==
  ASSUME TypeOK, SoftReset
  PROVE  TypeOK'
<1> USE DEF TypeOK
<1>1. clk' \in {"neg", "pos"}
  BY DEF SoftReset
<1>2. NegTypes'
  <2>1. ResetInsn \in InsnType
    BY DEF ResetInsn, Plain, InsnType, PlainOps, NoArg
  <2>2. (fetch_ans \in Answers /\ eei_ans \in Answers /\ if_hold \in SUBSET Addr)'
    BY DEF SoftReset, Answers
  <2>3. (/\ clic_npc_vector_lock \in Addr /\ lsu_rdata \in Addr /\ pc \in Addr
         /\ rst_cnt \in 0..7 /\ inst_data_1d \in InsnType)'
    BY <2>1, IsaAssumption DEF SoftReset
  <2> QED
    BY <2>2, <2>3 DEF SoftReset, NegTypes
<1>3. PosTypes'
  <2>1. Exc(0) \in CauseType
    BY DEF Exc, CauseType, Codes
  <2> QED
    BY <2>1, IsaAssumption DEF SoftReset, PosTypes, Modes
<1>4. EnvTypes'
  BY DEF SoftReset, EnvTypes, Answers
<1>5. GhostTypes'
  <2>1. NoTrap \in TrapType
    BY DEF NoTrap, TrapType, Exc, CauseType, Codes
  <2> QED
    BY <2>1, IsaAssumption DEF SoftReset, GhostTypes
<1> QED
  BY <1>1, <1>2, <1>3, <1>4, <1>5

LEMMA TypeStutter ==
  ASSUME TypeOK, UNCHANGED vars
  PROVE  TypeOK'
<1>1. NegTypes'
  BY DEF vars, negVars, selVars, exVars, TypeOK, NegTypes
<1>2. PosTypes' /\ EnvTypes' /\ GhostTypes'
  BY DEF vars, posVars, csrVars, clicVars, envVars, ghostVars, TypeOK,
         PosTypes, EnvTypes, GhostTypes
<1> QED
  BY <1>1, <1>2 DEF TypeOK, vars

\* Every register and every input keeps its type.
THEOREM TypeCorrect == Spec => []TypeOK
<1>1. TypeOK /\ [Next]_vars => TypeOK'
  BY TypeNeg, TypePos, TypeReset, TypeStutter DEF Next
<1> QED
  BY <1>1, TypeInit, PTL DEF Spec

---------------------------------------------------------------------------
(* A waiting fetch keeps its address: inst_itf_stable (l.1962).            *)
(*                                                                         *)
(* What makes npc hold still while the fetch waits is spread over the      *)
(* core: interrupts are accepted, and load/store requests start, only in a *)
(* cycle that completes a fetch (Aligned, PostReqStalls, IrqAligned), and  *)
(* the cause that selects a vector slot is frozen because the trap has     *)
(* disabled interrupts and nothing is left that could write it             *)
(* (SlotFrozen).                                                           *)

\* if_vld_pos is if_vld as the last posedge saw it.
Aligned == clk = "neg" => if_vld_pos = IfVld

\* A request that the last posedge left unanswered stalls the fetch.
PostReqStalls ==
  /\ clk = "neg" /\ lsu_post_req => lsu_req_neg /\ ~lsu_valid
  /\ clk = "pos" => lsu_req_neg = LsuReq /\ lsu_valid = (LsuReq /\ LsuAck)

IrqAligned == clk = "neg" /\ clint_irq_vld => if_vld_pos

SlotFrozen ==
  npc_sel_clint_vector /\ ~clint_irq_vld =>
    /\ ~mstatus_mie
    /\ clk = "pos" => ~(inst_data_1d_vld /\ Op \in CsrOps \cup {"mret"})

HoldIsNpc ==
  \/ if_hold = {}
  \/ /\ if_hold = {Npc}
     /\ clk = "pos" => ~if_vld_pos /\ ~LsuReq /\ ~clint_irq_vld

FetchInv ==
  /\ Aligned
  /\ PostReqStalls
  /\ IrqAligned
  /\ SlotFrozen
  /\ HoldIsNpc

LEMMA PosKeepsFetch ==
  ASSUME PosEdge
  PROVE  /\ IfVld' = IfVld
         /\ ExVld' = ExVld
         /\ Op' = Op
         /\ ClicNpcVector' = ClicNpcVector
BY DEF PosEdge, negVars, selVars, exVars, IfVld, InstReq, IfStall, EeiReq,
       EeiAck, Op, ExVld, ClicNpcVector, NpcSelClicVectorPos

LEMMA NegKeepsLsu ==
  ASSUME NegEdge
  PROVE  LsuReq' = LsuReq /\ LsuAck' = LsuAck
BY DEF NegEdge, posVars, csrVars, clicVars, envVars, LsuReq, LsuPreReq, LsuAck,
       IrqVld, ClicIrqVld, ClicVectorVld, ClicDirectVld, ClicEnPending, IsClic

\* While a fetch waits, no interrupt is being accepted and no load, store or
\* table read is under way.
LEMMA WaitingIsQuiet ==
  ASSUME FetchInv, clk = "neg", InstReq, ~IfVld
  PROVE  ~if_vld_pos /\ ~LsuReq /\ ~clint_irq_vld
<1>1. ~if_vld_pos
  BY DEF FetchInv, Aligned
<1>2. ~clint_irq_vld
  BY <1>1 DEF FetchInv, IrqAligned
<1>3. ~LsuPreReq
  BY <1>1 DEF LsuPreReq, ClicVectorVld
<1>4. ~lsu_post_req
  BY DEF FetchInv, PostReqStalls, InstReq, IfStall
<1> QED
  BY <1>1, <1>2, <1>3, <1>4 DEF LsuReq

LEMMA NegKeepsNpc ==
  ASSUME TypeOK, NegEdge, ~IfVld, ~if_vld_pos, ~LsuReq, ~clint_irq_vld
  PROVE  Npc' = Npc
<1>1. ~ClicDirectVld /\ ~TblLoaded
  BY DEF ClicDirectVld, TblLoaded
<1>2. npc_sel_bootaddr' = npc_sel_bootaddr
  BY DEF NegEdge, SelBootaddr, TypeOK, NegTypes
<1>3. /\ npc_sel_clint_direct' = npc_sel_clint_direct
      /\ npc_sel_clint_vector' = npc_sel_clint_vector
      /\ npc_sel_clic_direct' = npc_sel_clic_direct
      /\ npc_sel_clic_vector' = npc_sel_clic_vector
  BY <1>1 DEF NegEdge, SelClintDirect, SelClintVector, SelClicDirect,
     SelClicVector, Select, TypeOK, NegTypes
<1>4. npc_sel_clic_vector => ClicNpcVector' = ClicNpcVector
  <2>1. lsu_rdata' = lsu_rdata
    BY <1>1 DEF NegEdge, LsuRdata
  <2>2. /\ npc_sel_clic_vector_1d' = npc_sel_clic_vector
        /\ clic_npc_vector_lock' = ClicNpcVector
    BY DEF NegEdge, SelClicVector1d, ClicVectorLock, ClicNpcVector
  <2> QED
    BY <1>3, <2>1, <2>2 DEF ClicNpcVector, NpcSelClicVectorPos
<1>5. inst_data_1d' = inst_data_1d /\ pc' = pc
  BY DEF NegEdge, InstData1d, Pc
<1>6. mcause' = mcause /\ mepc' = mepc
  BY DEF NegEdge, posVars, csrVars
<1>7. ExVld' = ExVld
  <2>1. ex_fetch_access' = ex_fetch_access
    BY DEF NegEdge, ExFetchAccess
  <2>2. /\ ex_misalign_load' = ex_misalign_load
        /\ ex_misalign_store' = ex_misalign_store
    BY DEF NegEdge, ExMisalign
  <2>3. ex_load_access' = ex_load_access /\ ex_store_access' = ex_store_access
    BY DEF NegEdge, ExLsuAccess, TypeOK, NegTypes
  <2> QED
    BY <1>2, <1>5, <2>1, <2>2, <2>3 DEF ExVld, Op
<1>8. NextOf(inst_data_1d, pc, mepc)' = NextOf(inst_data_1d, pc, mepc)
  BY <1>5, <1>6 DEF NextOf
<1> QED
  BY <1>2, <1>3, <1>4, <1>6, <1>7, <1>8 DEF Npc

LEMMA PosKeepsNpc ==
  ASSUME TypeOK, FetchInv, PosEdge, if_hold # {}
  PROVE  Npc' = Npc
<1>1. ~if_vld_pos /\ ~LsuReq /\ ~clint_irq_vld
  BY DEF FetchInv, HoldIsNpc, PosEdge
<1>2. ~IrqVld
  BY <1>1 DEF IrqVld, ClicIrqVld, ClicVectorVld, ClicDirectVld
<1>3. /\ npc_sel_bootaddr' = npc_sel_bootaddr
      /\ npc_sel_clint_direct' = npc_sel_clint_direct
      /\ npc_sel_clint_vector' = npc_sel_clint_vector
      /\ npc_sel_clic_direct' = npc_sel_clic_direct
      /\ npc_sel_clic_vector' = npc_sel_clic_vector
      /\ inst_data_1d' = inst_data_1d
      /\ pc' = pc
  BY DEF PosEdge, negVars, selVars
<1>4. ExVld' = ExVld /\ ClicNpcVector' = ClicNpcVector
  BY PosKeepsFetch
<1>5. CASE npc_sel_bootaddr \/ ExVld \/ npc_sel_clint_direct
  BY <1>3, <1>4, <1>5 DEF Npc
<1>6. CASE ~npc_sel_bootaddr /\ ~ExVld /\ npc_sel_clint_vector
  <2>1. /\ ~mstatus_mie
        /\ ~(inst_data_1d_vld /\ Op \in CsrOps \cup {"mret"})
    BY <1>1, <1>6 DEF FetchInv, SlotFrozen, PosEdge
  <2>2. EnPending = {}
    BY <2>1 DEF EnPending
  <2>3. ~ClicIrqVld
    BY <2>1 DEF ClicIrqVld, ClicVectorVld, ClicDirectVld, ClicEnPending
  <2>4. ~CsrWrMnxti /\ ~CsrWr("mcause")
    BY <2>1 DEF CsrWrMnxti, CsrWr, CsrOps
  <2>5. mcause' = mcause
    BY <1>6, <2>2, <2>3, <2>4 DEF PosEdge, Mcause, ExVld
  <2> QED
    BY <1>3, <1>4, <1>6, <2>5 DEF Npc
<1>7. CASE /\ ~npc_sel_bootaddr /\ ~ExVld /\ ~npc_sel_clint_direct
           /\ ~npc_sel_clint_vector
  <2>1. Op = "mret" => mepc' = mepc
    <3>1. ~EnterIrqEx
      BY <1>2, <1>7 DEF EnterIrqEx, EnterEx
    <3>2. ~TblLoaded
      BY <1>1 DEF TblLoaded
    <3> QED
      BY <3>1, <3>2 DEF PosEdge, Mepc, CsrWr
  <2>2. NextOf(inst_data_1d, pc, mepc)' = NextOf(inst_data_1d, pc, mepc)
    BY <1>3, <2>1 DEF NextOf, Op
  <2> QED
    BY <1>3, <1>4, <1>7, <2>2 DEF Npc
<1> QED
  BY <1>5, <1>6, <1>7

LEMMA FetchInit == Init => FetchInv
<1> SUFFICES ASSUME Init PROVE FetchInv
  OBVIOUS
<1>1. Aligned
  BY DEF Init, Aligned, IfVld, InstReq
<1> QED
  BY <1>1 DEF Init, FetchInv, PostReqStalls, IrqAligned, SlotFrozen, HoldIsNpc

LEMMA FetchNeg ==
  ASSUME TypeOK, FetchInv, NegEdge
  PROVE  FetchInv'
<1>1. clk = "neg" /\ clk' = "pos"
  BY DEF NegEdge
<1>2. if_vld_pos' = if_vld_pos /\ clint_irq_vld' = clint_irq_vld
      /\ mstatus_mie' = mstatus_mie
  BY DEF NegEdge, posVars, csrVars
<1>3. Aligned' /\ IrqAligned'
  BY <1>1 DEF Aligned, IrqAligned
<1>4. PostReqStalls'
  BY <1>1, NegKeepsLsu DEF PostReqStalls, NegEdge, LsuReqNeg, LsuValid
<1>5. SlotFrozen'
  <2> SUFFICES ASSUME npc_sel_clint_vector', ~clint_irq_vld'
               PROVE  /\ ~mstatus_mie'
                      /\ ~(inst_data_1d_vld' /\ Op' \in CsrOps \cup {"mret"})
    BY DEF SlotFrozen, CsrOps
  <2>1. npc_sel_clint_vector /\ ~IfVld /\ ~clint_irq_vld
    BY <1>2 DEF NegEdge, SelClintVector, Select
  <2>2. ~mstatus_mie'
    BY <1>2, <2>1 DEF FetchInv, SlotFrozen
  <2>3. Op' = Op /\ (inst_data_1d_vld' => inst_data_1d_vld /\ ~RetireVld)
    BY <2>1 DEF NegEdge, InstData1d, InstData1dVld, Op
  <2>4. inst_data_1d_vld /\ Op \in CsrOps \cup {"mret"} => RetireVld
    BY DEF RetireVld
  <2> QED
    BY <2>2, <2>3, <2>4
<1>6. HoldIsNpc'
  <2>1. CASE InstReq /\ ~IfVld
    BY <1>1, <1>2, <2>1, NegKeepsNpc, NegKeepsLsu, WaitingIsQuiet
    DEF NegEdge, HoldIsNpc
  <2>2. CASE ~(InstReq /\ ~IfVld)
    BY <2>2 DEF NegEdge, HoldIsNpc
  <2> QED
    BY <2>1, <2>2
<1> QED
  BY <1>3, <1>4, <1>5, <1>6 DEF FetchInv

LEMMA FetchPos ==
  ASSUME TypeOK, FetchInv, PosEdge
  PROVE  FetchInv'
<1>1. clk = "pos" /\ clk' = "neg"
  BY DEF PosEdge
<1>2. if_vld_pos' = IfVld'
  BY PosKeepsFetch DEF PosEdge, IfVldPos
<1>3. Aligned'
  BY <1>2 DEF Aligned
<1>4. IrqAligned'
  BY DEF IrqAligned, PosEdge, IfVldPos, ClintIrqVld
<1>5. PostReqStalls'
  <2>1. lsu_req_neg' = lsu_req_neg /\ lsu_valid' = lsu_valid
    BY DEF PosEdge, negVars
  <2>2. lsu_post_req' => LsuReq /\ ~LsuAck
    BY DEF PosEdge, LsuPostReq, LsuReq
  <2>3. LsuReq /\ ~LsuAck => lsu_req_neg /\ ~lsu_valid
    BY <1>1 DEF FetchInv, PostReqStalls
  <2> QED
    BY <1>1, <2>1, <2>2, <2>3 DEF PostReqStalls
<1>6. SlotFrozen'
  <2> SUFFICES ASSUME npc_sel_clint_vector'
               PROVE  ~mstatus_mie'
    BY <1>1 DEF SlotFrozen
  <2>1. npc_sel_clint_vector
    BY DEF PosEdge, negVars, selVars
  <2>2. CASE clint_irq_vld
    BY <2>2 DEF PosEdge, MstatusMie, EnterIrqEx, IrqVld
  <2>3. CASE ~clint_irq_vld
    <3>1. /\ ~mstatus_mie
          /\ ~(inst_data_1d_vld /\ Op \in CsrOps \cup {"mret"})
      BY <1>1, <2>1, <2>3 DEF FetchInv, SlotFrozen
    <3>2. ~ExitIrqEx
      BY <3>1 DEF ExitIrqEx, RetireVld, RetireEei, EeiReq
    <3>3. ~CsrWr("mie_on") /\ ~CsrWr("mnxti")
      BY <3>1 DEF CsrWr, CsrOps
    <3> QED
      BY <3>1, <3>2, <3>3 DEF PosEdge, MstatusMie
  <2> QED
    BY <2>2, <2>3
<1>7. HoldIsNpc'
  <2>1. if_hold' = if_hold
    BY DEF PosEdge, negVars
  <2>2. if_hold # {} => Npc' = Npc
    BY PosKeepsNpc
  <2> QED
    BY <1>1, <2>1, <2>2 DEF FetchInv, HoldIsNpc
<1> QED
  BY <1>3, <1>4, <1>5, <1>6, <1>7 DEF FetchInv

LEMMA FetchReset ==
  ASSUME SoftReset
  PROVE  FetchInv'
<1>1. Aligned' /\ IrqAligned' /\ SlotFrozen' /\ HoldIsNpc'
  BY DEF SoftReset, Aligned, IrqAligned, SlotFrozen, HoldIsNpc, IfVld, InstReq
<1>2. PostReqStalls'
  BY DEF SoftReset, PostReqStalls, LsuReq, LsuPreReq, ClicVectorVld
<1> QED
  BY <1>1, <1>2 DEF FetchInv

LEMMA FetchStutter ==
  ASSUME FetchInv, UNCHANGED vars
  PROVE  FetchInv'
<1> USE DEF vars, negVars, selVars, exVars, posVars, csrVars, clicVars, envVars
<1>1. IfVld' = IfVld
  BY DEF IfVld, InstReq, IfStall, EeiReq, EeiAck, Op
<1>2. LsuReq' = LsuReq /\ LsuAck' = LsuAck
  BY DEF LsuReq, LsuPreReq, LsuAck, IrqVld, ClicIrqVld, ClicVectorVld,
         ClicDirectVld, ClicEnPending, IsClic
<1>3. Npc' = Npc
  BY DEF Npc, ExVld, ClicNpcVector, NpcSelClicVectorPos, NextOf, Op
<1> QED
  BY <1>1, <1>2, <1>3
  DEF FetchInv, Aligned, PostReqStalls, IrqAligned, SlotFrozen, HoldIsNpc, Op

\* The assertion inst_itf_stable of the source (l.1962), for every program and
\* whatever the memories and the interrupt lines do.
THEOREM FetchAddressStable == Spec => []InstItfStable
<1>1. TypeOK /\ FetchInv /\ [Next]_vars => FetchInv'
  BY FetchNeg, FetchPos, FetchReset, FetchStutter DEF Next
<1>2. FetchInv => InstItfStable
  BY DEF FetchInv, HoldIsNpc, InstItfStable
<1> QED
  BY <1>1, <1>2, FetchInit, TypeCorrect, PTL DEF Spec

---------------------------------------------------------------------------
(* What is valid was read from where pc points.                            *)
(*                                                                         *)
(* The address of a fetch is that of the clk_i edge that completes it, and *)
(* pc takes npc half a cycle later: npc must not move in between.  Only    *)
(* mepc and mcause change at that edge.  mepc is not selected when a trap  *)
(* writes it (Redirected), and mcause only selects a slot in vector mode,  *)
(* which is where the code fails when a second line comes.                 *)

\* Without CLINT lines, or in a program that leaves mtvec in direct mode.
Direct(i) == i.op = "mtvec" => i.arg = "direct"
NoSlots == IrqLines = {} \/ \A i \in Insns \cup ExtInsns : Direct(i)

SlotsUnused ==
  /\ ~npc_sel_clint_vector
  /\ \/ IrqLines = {} /\ ~clint_irq_vld
     \/ /\ mtvec_mode = "direct"
        /\ Direct(inst_data_1d) /\ Direct(inst_rdata) /\ Direct(pos_data)

Redirected ==
  clk = "pos" =>
    /\ clint_irq_vld => npc_sel_clint_direct
    /\ ClicDirectVld => npc_sel_clic_direct
    /\ ClicNpcLoad => npc_sel_clic_vector \/ if_stall_clic

FetchedIsPc ==
  /\ clk = "neg" /\ IfVld => Npc = faddr
  /\ inst_data_1d_vld /\ (clk = "neg" => ~IfVld) => pc = faddr

PcInv == SlotsUnused /\ Redirected /\ FetchedIsPc

LEMMA PosKeepsFetchedNpc ==
  ASSUME SlotsUnused, Redirected, PosEdge, IfVld
  PROVE  Npc' = Npc
<1>1. /\ npc_sel_bootaddr' = npc_sel_bootaddr
      /\ npc_sel_clint_direct' = npc_sel_clint_direct
      /\ npc_sel_clint_vector' = npc_sel_clint_vector
      /\ npc_sel_clic_direct' = npc_sel_clic_direct
      /\ npc_sel_clic_vector' = npc_sel_clic_vector
      /\ inst_data_1d' = inst_data_1d
      /\ pc' = pc
  BY DEF PosEdge, negVars, selVars
<1>2. ExVld' = ExVld /\ ClicNpcVector' = ClicNpcVector
  BY PosKeepsFetch
<1>3. ~npc_sel_clint_vector
  BY DEF SlotsUnused
<1>4. CASE \/ npc_sel_bootaddr \/ ExVld \/ npc_sel_clint_direct
           \/ npc_sel_clic_direct \/ npc_sel_clic_vector
  BY <1>1, <1>2, <1>3, <1>4 DEF Npc
<1>5. CASE /\ ~npc_sel_bootaddr /\ ~ExVld /\ ~npc_sel_clint_direct
           /\ ~npc_sel_clic_direct /\ ~npc_sel_clic_vector
  <2>1. ~if_stall_clic
    BY DEF IfVld, InstReq, IfStall
  <2>2. ~clint_irq_vld /\ ~ClicDirectVld /\ ~ClicNpcLoad
    BY <1>5, <2>1 DEF Redirected, PosEdge
  <2>3. ~EnterIrqEx /\ ~TblLoaded
    BY <1>5, <2>2 DEF EnterIrqEx, EnterEx, IrqVld, ClicIrqVld, ClicNpcLoad, TblLoaded
  <2>4. Op = "mret" => mepc' = mepc
    BY <2>3 DEF PosEdge, Mepc, CsrWr
  <2>5. NextOf(inst_data_1d, pc, mepc)' = NextOf(inst_data_1d, pc, mepc)
    BY <1>1, <2>4 DEF NextOf, Op
  <2> QED
    BY <1>1, <1>2, <1>3, <1>5, <2>5 DEF Npc
<1> QED
  BY <1>4, <1>5

LEMMA PcInit ==
  ASSUME Init, NoSlots
  PROVE  PcInv
<1>1. SlotsUnused
  BY DEF Init, SlotsUnused, Direct, ResetInsn, Plain
<1> QED
  BY <1>1 DEF Init, PcInv, Redirected, FetchedIsPc, IfVld, InstReq

LEMMA PcNeg ==
  ASSUME PcInv, NegEdge
  PROVE  PcInv'
<1>1. /\ clk = "neg" /\ clk' = "pos" /\ faddr' = faddr
      /\ clint_irq_vld' = clint_irq_vld /\ mtvec_mode' = mtvec_mode
      /\ inst_rdata' = inst_rdata /\ pos_data' = pos_data
  BY DEF NegEdge, posVars, csrVars, envVars
<1>2. SlotsUnused'
  <2>1. inst_data_1d' \in {inst_data_1d, inst_rdata}
    BY DEF NegEdge, InstData1d
  <2>2. ~npc_sel_clint_vector'
    BY DEF PcInv, SlotsUnused, NegEdge, SelClintVector, Select
  <2> QED
    BY <1>1, <2>1, <2>2 DEF PcInv, SlotsUnused, Direct
<1>3. Redirected'
  <2>1. clint_irq_vld' => npc_sel_clint_direct'
    BY <1>1 DEF PcInv, SlotsUnused, NegEdge, SelClintDirect, Select, EnvTypes
  <2>2. ClicDirectVld' = ClicDirectVld /\ ClicNpcLoad' = ClicNpcLoad
    BY DEF NegEdge, posVars, csrVars, clicVars, envVars, ClicDirectVld,
           ClicNpcLoad, ClicVectorVld, ClicEnPending, IsClic
  <2>3. ClicDirectVld => npc_sel_clic_direct'
    BY DEF NegEdge, SelClicDirect, Select
  <2>4. ClicNpcLoad => npc_sel_clic_vector' \/ if_stall_clic'
    BY DEF NegEdge, SelClicVector, Select, IfStallClic
  <2> QED
    BY <2>1, <2>2, <2>3, <2>4 DEF Redirected
<1>4. FetchedIsPc'
  <2>1. CASE IfVld /\ ~IfError
    BY <1>1, <2>1 DEF PcInv, FetchedIsPc, NegEdge, Pc
  <2>2. CASE IfError
    BY <1>1, <2>2 DEF FetchedIsPc, NegEdge, InstData1dVld
  <2>3. CASE ~IfVld
    BY <1>1, <2>3 DEF PcInv, FetchedIsPc, NegEdge, Pc, InstData1dVld
  <2> QED
    BY <2>1, <2>2, <2>3
<1> QED
  BY <1>2, <1>3, <1>4 DEF PcInv

LEMMA PcPos ==
  ASSUME TypeOK, PcInv, PosEdge, NoSlots
  PROVE  PcInv'
<1>1. /\ clk = "pos" /\ clk' = "neg" /\ pc' = pc
      /\ inst_data_1d_vld' = inst_data_1d_vld /\ inst_data_1d' = inst_data_1d
      /\ npc_sel_clint_vector' = npc_sel_clint_vector
  BY DEF PosEdge, negVars, selVars
<1>2. SlotsUnused'
  <2>1. CASE IrqLines = {}
    <3>1. EnPending = {}
      BY <2>1 DEF EnPending, TypeOK, EnvTypes
    <3>2. ~clint_irq_vld'
      BY <3>1 DEF PosEdge, ClintIrqVld
    <3> QED
      BY <1>1, <2>1, <3>2 DEF PcInv, SlotsUnused
  <2>2. CASE IrqLines # {}
    <3>1. /\ mtvec_mode = "direct"
          /\ Direct(inst_data_1d) /\ Direct(inst_rdata) /\ Direct(pos_data)
      BY <2>2 DEF PcInv, SlotsUnused
    <3>2. mtvec_mode' = "direct"
      BY <3>1 DEF PosEdge, Mtvec, CsrWr, Op, Direct
    <3>3. \A i \in Insns \cup ExtInsns : Direct(i)
      BY <2>2 DEF NoSlots
    <3>4. {inst_rdata', pos_data'} \subseteq Insns \cup ExtInsns \cup {pos_data}
      BY DEF PosEdge, PosEnv, InstRdata
    <3> QED
      BY <1>1, <3>1, <3>2, <3>3, <3>4 DEF PcInv, SlotsUnused, Direct
  <2> QED
    BY <2>1, <2>2
<1>3. Redirected'
  BY <1>1 DEF Redirected
<1>4. FetchedIsPc'
  <2>1. IfVld' = IfVld
    BY PosKeepsFetch
  <2>2. IfVld => Npc' = Npc
    BY PosKeepsFetchedNpc DEF PcInv
  <2>3. faddr' = IF IfVld THEN Npc ELSE faddr
    BY DEF PosEdge, Observe
  <2> QED
    BY <1>1, <2>1, <2>2, <2>3 DEF PcInv, FetchedIsPc
<1> QED
  BY <1>2, <1>3, <1>4 DEF PcInv

LEMMA PcReset ==
  ASSUME PcInv, SoftReset
  PROVE  PcInv'
<1>1. SlotsUnused'
  BY DEF PcInv, SlotsUnused, SoftReset, Direct, ResetInsn, Plain
<1>2. Redirected'
  BY DEF SoftReset, Redirected, ClicDirectVld, ClicNpcLoad, ClicVectorVld
<1>3. FetchedIsPc'
  BY DEF SoftReset, FetchedIsPc, IfVld, InstReq
<1> QED
  BY <1>1, <1>2, <1>3 DEF PcInv

LEMMA PcStutter ==
  ASSUME PcInv, UNCHANGED vars
  PROVE  PcInv'
<1> USE DEF vars, negVars, selVars, exVars, posVars, csrVars, clicVars, envVars
<1>1. IfVld' = IfVld /\ Npc' = Npc
  BY DEF IfVld, InstReq, IfStall, EeiReq, EeiAck, Npc, ExVld, ClicNpcVector,
         NpcSelClicVectorPos, NextOf, Op
<1>2. ClicDirectVld' = ClicDirectVld /\ ClicNpcLoad' = ClicNpcLoad
  BY DEF ClicDirectVld, ClicNpcLoad, ClicVectorVld, ClicEnPending, IsClic
<1> QED
  BY <1>1, <1>2 DEF PcInv, SlotsUnused, Redirected, FetchedIsPc, Direct

\* Types, and a valid instruction was read from where pc points (l.358, 463):
\* for every memory, every exception and every CLIC, and with CLINT lines for
\* every program that stays in direct mode.
THEOREM CoreCorrect ==
  ASSUME NoSlots
  PROVE  Spec => []CoreInv
<1>1. Init => PcInv
  BY PcInit
<1>2. TypeOK /\ PcInv /\ [Next]_vars => PcInv'
  BY PcNeg, PcPos, PcReset, PcStutter DEF Next
<1>3. TypeOK /\ PcInv => CoreInv
  BY DEF PcInv, FetchedIsPc, CoreInv, FetchMatchesPc
<1> QED
  BY <1>1, <1>2, <1>3, TypeCorrect, PTL DEF Spec

---------------------------------------------------------------------------
(* Accesses and custom instructions.                                       *)

\* The data that comes with a failed fetch is what an external fetch left
\* behind, and that is not a load or a store.
Access(i) == i.op \in {"load", "store"}

FailedFetch ==
  /\ fetch_ans = "error" => "error" \in FetchAnswers
  /\ "error" \in FetchAnswers => ~Access(pos_data)
  /\ clk = "neg" /\ IfError => ~Access(inst_rdata)

\* A load or store that leaves the core is executed (l.834), for every
\* program, unless fetches fail while external memory holds loads or stores:
\* the decision is made with if_vld_pos and the instruction becomes valid with
\* if_vld, half a cycle apart, and Aligned is what makes the two the same.
THEOREM AccessExecuted ==
  ASSUME "error" \in FetchAnswers => \A i \in ExtInsns : ~Access(i)
  PROVE  Spec => AccessIsExecuted
<1> DEFINE A == clk = "neg" /\ clk' = "pos" /\ LsuPreReq /\ ~ClicNpcLoad
                  => inst_data_1d_vld'
<1>1. FetchInv /\ FailedFetch /\ [Next]_vars => [A]_vars
  <2> SUFFICES ASSUME FetchInv, FailedFetch, NegEdge, LsuPreReq, ~ClicNpcLoad
               PROVE  inst_data_1d_vld'
    BY DEF Next, PosEdge, SoftReset
  <2>1. if_vld_pos /\ ~IrqVld /\ Access(inst_rdata)
    BY DEF LsuPreReq, ClicNpcLoad, Access
  <2>2. IfVld /\ ~IfError
    BY <2>1 DEF FetchInv, Aligned, NegEdge, FailedFetch
  <2> QED
    BY <2>1, <2>2 DEF NegEdge, InstData1dVld
<1>2. Init => FailedFetch
  BY DEF Init, FailedFetch, Access, ResetInsn, Plain, IfError, IfVld, InstReq
<1>3. TypeOK /\ FailedFetch /\ [Next]_vars => FailedFetch'
  <2> SUFFICES ASSUME TypeOK, FailedFetch, [Next]_vars
               PROVE  FailedFetch'
    OBVIOUS
  <2>1. CASE NegEdge
    BY <2>1 DEF FailedFetch, NegEdge, NegEnv, posVars, envVars, Access
  <2>2. CASE PosEdge
    <3>1. fetch_ans' = fetch_ans /\ (IfError' => IfError)
      BY <2>2, PosKeepsFetch DEF PosEdge, negVars, IfError
    <3>2. pos_data' = pos_data \/ pos_data' \in ExtInsns
      BY <2>2 DEF PosEdge, PosEnv, InstRdata
    <3>3. IfError => inst_rdata' \in ExtInsns \cup {pos_data}
      BY <2>2 DEF PosEdge, PosEnv, InstRdata, IfError
    <3>4. IfError => "error" \in FetchAnswers
      BY DEF FailedFetch, IfError
    <3> QED
      BY <3>1, <3>2, <3>3, <3>4 DEF FailedFetch, Access
  <2>3. CASE SoftReset
    BY <2>3 DEF FailedFetch, SoftReset, IfError, IfVld, InstReq, Access
  <2>4. CASE UNCHANGED vars
    BY <2>4 DEF FailedFetch, vars, negVars, posVars, envVars, IfError, IfVld,
       InstReq, IfStall, EeiReq, EeiAck, Op, Access
  <2> QED
    BY <2>1, <2>2, <2>3, <2>4 DEF Next
<1>4. TypeOK /\ FetchInv /\ [Next]_vars => FetchInv'
  BY FetchNeg, FetchPos, FetchReset, FetchStutter DEF Next
<1> QED
  BY <1>1, <1>2, <1>3, <1>4, FetchInit, TypeCorrect, PTL
  DEF Spec, AccessIsExecuted

\* A load or store that waits stalls the fetch, so that the data bus shows
\* what an external fetch left behind; a table read is over in its cycle.
MemOp(i) == i.op \in {"load", "misload", "store", "misstore"}

TableAnswered == LsuReq /\ ClicNpcLoad => LsuAck

OutIsHeld == lsu_hold \subseteq {LsuOut}

LsuInv == ~MemOp(pos_data) /\ TableAnswered /\ OutIsHeld

LEMMA PosKeepsOut ==
  ASSUME FetchInv, LsuInv, PosEdge, LsuReq, ~LsuAck
  PROVE  LsuOut' = LsuOut
<1>1. ~IfVld
  BY DEF FetchInv, PostReqStalls, PosEdge, IfVld, InstReq, IfStall
<1>2. ~ClicNpcLoad
  BY DEF LsuInv, TableAnswered
<1>3. ~ClicNpcLoad'
  <2>1. ~if_vld_pos'
    BY <1>1 DEF PosEdge, IfVldPos
  <2>2. ~clic_npc_load_last'
    BY <1>2 DEF PosEdge, ClicNpcLoadLast
  <2> QED
    BY <2>1, <2>2 DEF ClicNpcLoad, ClicVectorVld
<1>4. LsuStore' = LsuStore
  <2>1. lsu_store_pending' = LsuStore
    BY DEF PosEdge, LsuPending, LsuStore
  <2>2. ~MemOp(inst_rdata')
    BY <1>1 DEF PosEdge, PosEnv, InstRdata, LsuInv, MemOp
  <2> QED
    BY <2>1, <2>2 DEF LsuStore, MemOp
<1>5. (~ClicNpcLoad /\ LsuStore)' = (~ClicNpcLoad /\ LsuStore)
  BY <1>2, <1>3, <1>4
<1>6. (IF ClicNpcLoad THEN clic_irq ELSE NoIrq)'
         = (IF ClicNpcLoad THEN clic_irq ELSE NoIrq)
  BY <1>2, <1>3
<1>7. ClicNpcLoad' = ClicNpcLoad
  BY <1>2, <1>3 DEF ClicNpcLoad, ClicVectorVld
<1> QED
  BY <1>5, <1>6, <1>7, Zenon DEF LsuOut

LEMMA LsuInit == ASSUME Init PROVE LsuInv
BY DEF Init, LsuInv, MemOp, ResetInsn, Plain, TableAnswered, OutIsHeld,
   LsuReq, LsuPreReq, ClicVectorVld

LEMMA LsuStep ==
  ASSUME \A i \in ExtInsns : ~MemOp(i), "wait" \notin TblAnswers,
         FetchInv, LsuInv, [Next]_vars
  PROVE  LsuInv'
<1>1. ASSUME UNCHANGED posVars PROVE LsuInv'
  <2> USE <1>1 DEF posVars, csrVars, clicVars, envVars, ghostVars
  <2>1. ClicNpcLoad' = ClicNpcLoad /\ LsuReq' = LsuReq /\ LsuAck' = LsuAck
    BY DEF ClicNpcLoad, ClicVectorVld, ClicEnPending, IsClic, LsuReq,
       LsuPreReq, LsuAck, IrqVld, ClicIrqVld, ClicDirectVld
  <2>2. LsuOut' = LsuOut
    BY <2>1 DEF LsuOut, LsuStore
  <2> QED
    BY <2>1, <2>2 DEF LsuInv, MemOp, TableAnswered, OutIsHeld
<1>2. CASE PosEdge
  <2>1. ~MemOp(pos_data')
    BY <1>2 DEF LsuInv, PosEdge, PosEnv, InstRdata
  <2>2. TableAnswered'
    BY <1>2 DEF PosEdge, PosEnv, TableAnswered, LsuAck
  <2>3. OutIsHeld'
    BY <1>2, PosKeepsOut DEF PosEdge, Observe, OutIsHeld
  <2> QED
    BY <2>1, <2>2, <2>3 DEF LsuInv
<1>3. CASE SoftReset
  BY <1>3 DEF LsuInv, SoftReset, MemOp, TableAnswered, OutIsHeld, LsuReq,
     LsuPreReq, ClicVectorVld
<1> QED
  BY <1>1, <1>2, <1>3 DEF Next, NegEdge, vars

\* The assertion inst_lsu_stable of the source (l.1966), for every program and
\* every memory that may wait, if code in external memory makes no accesses
\* and the vector table answers at once; the source breaks it otherwise.
THEOREM AccessStable ==
  ASSUME \A i \in ExtInsns : ~MemOp(i), "wait" \notin TblAnswers
  PROVE  Spec => []InstLsuStable
<1>1. Init => LsuInv
  BY LsuInit
<1>2. FetchInv /\ LsuInv /\ [Next]_vars => LsuInv'
  BY LsuStep
<1>3. LsuInv => InstLsuStable
  BY DEF LsuInv, OutIsHeld, InstLsuStable
<1>4. TypeOK /\ FetchInv /\ [Next]_vars => FetchInv'
  BY FetchNeg, FetchPos, FetchReset, FetchStutter DEF Next
<1> QED
  BY <1>1, <1>2, <1>3, <1>4, FetchInit, TypeCorrect, PTL DEF Spec

\* The extension is offered a custom instruction once (l.470-473), for every
\* program, when it does not answer with an error.
THEOREM EeiOfferedOnce ==
  ASSUME "error" \notin EeiAnswers
  PROVE  Spec => EeiOnce
<1> DEFINE A == clk = "neg" /\ clk' = "pos" /\ EeiReq /\ EeiAck /\ ~IfVld
                  => ~EeiReq'
           NoError == eei_ans \in {"ack", "wait"}
<1>1. NoError /\ [Next]_vars => [A]_vars
  <2> SUFFICES ASSUME NoError, NegEdge, EeiReq, EeiAck, ~IfVld
               PROVE  ~EeiReq'
    BY DEF Next, PosEdge, SoftReset
  <2>1. RetireVld
    BY DEF EeiAck, RetireVld, RetireEei
  <2>2. ~inst_data_1d_vld'
    BY <2>1 DEF NegEdge, InstData1dVld
  <2> QED
    BY <2>2 DEF EeiReq
<1>2. Init => NoError
  BY DEF Init
<1>3. NoError /\ [Next]_vars => NoError'
  BY CoreAssumption
  DEF Next, NegEdge, NegEnv, PosEdge, negVars, SoftReset, vars, Answers
<1> QED
  BY <1>1, <1>2, <1>3, PTL DEF Spec, EeiOnce

-----------------------------------------------------------------------------
(* The refinement of SophonHart                                             *)

\* An external fetch leaves nothing behind that starts an access or changes
\* the cause of a failed fetch.
Blank(i) == ~MemOp(i) /\ i.op # "misjump"
Raises(i) ==
  i.op \in {"illegal", "misjump", "ecall", "ebreak", "misload", "misstore"}

\* A program without interrupts, a program without exceptions.
Sync == IrqLines = {} /\ ClicIrqs = {}
NoTraps ==
  /\ \A i \in Insns : ~Raises(i)
  /\ "error" \notin FetchAnswers \cup LsuAnswers \cup EeiAnswers

\* One or the other; CLINT interrupts in direct mode, no loads or stores in
\* external memory, and a vector table in memory that answers at once.
Tame ==
  /\ NoSlots
  /\ Sync \/ NoTraps
  /\ \A i \in ExtInsns : Blank(i)
  /\ TblAnswers \subseteq {"ack"}

---------------------------------------------------------------------------
(* The invariant.                                                          *)

\* The exception flags belong to the instruction in the register.
Flags ==
  /\ ex_misalign_load <=> (Op = "misload")
  /\ ex_misalign_store <=> (Op = "misstore")
  /\ ex_load_access => inst_data_1d_vld /\ Op = "load"
  /\ ex_store_access => inst_data_1d_vld /\ Op = "store"
  /\ ex_fetch_access =>
       ~inst_data_1d_vld /\ Op # "misjump" /\ ~npc_sel_bootaddr
  /\ npc_sel_bootaddr => ~inst_data_1d_vld /\ ~mstatus_mie
  /\ npc_sel_bootaddr \/ ex_fetch_access \/ inst_data_1d \in Insns

\* What the data bus shows, with a fetch and without.
Bus ==
  /\ Blank(pos_data)
  /\ clk = "neg" => IF IfVld /\ ~IfError THEN inst_rdata \in Insns
                    ELSE Blank(inst_rdata)
  /\ clk = "pos" =>
       IF if_vld_pos
         THEN /\ inst_rdata = inst_data_1d
              /\ inst_data_1d_vld \/ IrqVld \/ ~MemOp(inst_rdata)
         ELSE Blank(inst_rdata)

NoErrors ==
  Sync \/ /\ fetch_ans # "error" /\ lsu_ans # "error" /\ eei_ans # "error"
          /\ ~ex_fetch_access /\ ~ex_load_access /\ ~ex_store_access

\* A load or store in the register is under way until it is answered.
Pursued ==
  /\ lsu_load_pending \/ lsu_store_pending => lsu_post_req
  /\ lsu_post_req => /\ inst_data_1d_vld
                     /\ \/ Op = "load" /\ ~lsu_store_pending
                        \/ Op = "store" /\ ~lsu_load_pending
  /\ (inst_data_1d_vld /\ Op \in {"load", "store"}
        /\ ~ex_load_access /\ ~ex_store_access)
       => lsu_req_neg /\ (clk = "neg" => lsu_valid \/ lsu_post_req)

\* An interrupt is entered half a cycle after its select is set.
Sel == npc_sel_clint_direct \/ npc_sel_clic_direct \/ npc_sel_clic_vector
Entering == clk = "pos" /\ IrqVld

Selects ==
  /\ Entering => /\ (npc_sel_clint_direct <=> clint_irq_vld)
                 /\ npc_sel_clic_direct <=> ClicDirectVld
                 /\ npc_sel_clic_vector <=> ClicVectorVld
                 /\ ClicVectorVld => /\ ~npc_sel_clic_vector_1d
                                     /\ lsu_rdata = Vec[clic_irq]
                 /\ ~npc_sel_bootaddr
  /\ Sel => ~inst_data_1d_vld /\ (Entering \/ ~mstatus_mie)
  /\ ~if_stall_clic /\ ~clic_npc_load_last
  /\ clint_irq_vld => /\ \E l \in IrqLines : mcause = Irq(IrqCode[l])
                      /\ mstatus_mie \/ wasmie

\* The instruction in the register has not completed.
Live == inst_data_1d_vld /\ (clk = "neg" => ~RetireVld)

Behind == apc = Npc /\ last = pc

\* Where the program is: at the address of the next fetch when the register
\* holds nothing that has still to complete or to trap, and else at pc.
Where ==
  IF Entering THEN apc = pc /\ ~inst_data_1d_vld
  ELSE IF (clk = "neg" /\ IfVld) \/ (~ExVld /\ ~Live) THEN Behind
  ELSE IF ex_fetch_access THEN last = pc
  ELSE apc = pc

\* What is proved before, and what is proved here.
CoreFacts == TypeOK /\ FetchInv /\ PcInv /\ LsuInv
HartInv == Flags /\ Bus /\ NoErrors /\ Pursued /\ Selects /\ Where

---------------------------------------------------------------------------
(* What the invariant says of a cycle.                                     *)

LEMMA OpTypes ==
  ASSUME TypeOK
  PROVE  Op \in PlainOps \cup {"jump", "mepc", "mtvec"}
BY DEF TypeOK, NegTypes, InsnType, Op

\* A program with interrupts has no exceptions.
LEMMA IrqNotSync ==
  ASSUME CoreFacts, HartInv, IrqVld
  PROVE  ~Sync
<1>1. CASE clint_irq_vld
  BY <1>1 DEF HartInv, Selects, Sync
<1>2. CASE ClicIrqVld
  BY <1>2 DEF CoreFacts, ClicIrqVld, ClicVectorVld, ClicDirectVld,
     ClicEnPending, TypeOK, EnvTypes, Sync
<1> QED
  BY <1>1, <1>2 DEF IrqVld

LEMMA InterruptsOnly ==
  ASSUME CoreFacts, HartInv, Tame, ~Sync
  PROVE  ~ExVld /\ (npc_sel_bootaddr \/ ~Raises(inst_data_1d))
<1>1. ~ex_fetch_access /\ ~ex_load_access /\ ~ex_store_access
  BY DEF HartInv, NoErrors
<1>2. npc_sel_bootaddr \/ ~Raises(inst_data_1d)
  BY <1>1 DEF HartInv, Flags, Tame, NoTraps
<1>3. ~npc_sel_bootaddr => ~ex_misalign_load /\ ~ex_misalign_store
  BY <1>2 DEF HartInv, Flags, Raises, Op
<1> QED
  BY <1>1, <1>2, <1>3 DEF ExVld, Raises, Op

\* An exception is pending for a failed fetch or for what is in the register.
LEMMA ExceptionOp ==
  ASSUME HartInv, ExVld
  PROVE  \/ ex_fetch_access /\ ~inst_data_1d_vld
         \/ ~ex_fetch_access /\ Op \in DOMAIN ExcCode
BY DEF HartInv, Flags, ExVld, ExcCode

\* Nothing that is not in the register as valid completes or writes a CSR.
LEMMA Idle ==
  ASSUME ~inst_data_1d_vld
  PROVE  /\ ~RetireVld /\ ~Completes /\ ~ExitIrqEx /\ ~EeiReq
         /\ \A op \in CsrOps : ~CsrWr(op)
BY DEF RetireVld, RetireEei, EeiReq, Completes, ExitIrqEx, CsrWr

\* Of the instructions that trap, ecall and ebreak retire, and complete all
\* the same only as exceptions.
LEMMA TrapsDoNotComplete ==
  ASSUME HartInv, ExVld
  PROVE  /\ RetireVld => Op \in {"ecall", "ebreak"}
         /\ Completes => FALSE
         /\ ~ExitIrqEx /\ ~CsrWr("mepc")
<1>1. CASE ~inst_data_1d_vld
  BY <1>1, Idle DEF CsrOps
<1>2. CASE inst_data_1d_vld
  <2>1. ~ex_fetch_access /\ ~npc_sel_bootaddr
    BY <1>2 DEF HartInv, Flags
  <2>2. Op \in {"illegal", "misjump", "ecall", "ebreak", "misload", "misstore",
               "load", "store"}
    BY <2>1 DEF HartInv, Flags, ExVld
  <2>3. (Op = "load" => ex_load_access) /\ (Op = "store" => ex_store_access)
    BY <2>1 DEF HartInv, Flags, ExVld
  <2>4. RetireVld => Op \in {"ecall", "ebreak"}
    BY <2>2, <2>3 DEF RetireVld, RetireEei, EeiReq, CsrOps
  <2> QED
    BY <2>2, <2>4 DEF Completes, EeiReq, ExitIrqEx, CsrWr
<1> QED
  BY <1>1, <1>2

\* When a fetch completes, so does the instruction in the register, unless it
\* traps.
LEMMA Completion ==
  ASSUME CoreFacts, HartInv, inst_data_1d_vld, IfVld, ~ExVld
  PROVE  Completes /\ (RetireVld \/ (Op = "cust" /\ eei_ans = "error"))
<1>1. ~npc_sel_bootaddr /\ ~ex_load_access /\ ~ex_store_access
  BY DEF HartInv, Flags, ExVld
<1>2. Op \notin {"illegal", "misjump", "ecall", "ebreak",
                "misload", "misstore"}
  BY <1>1 DEF HartInv, Flags, ExVld
<1>3. CASE Op \in {"load", "store"}
  <2>1. lsu_req_neg /\ lsu_valid
    BY <1>1, <1>3 DEF HartInv, Pursued, IfVld, InstReq, IfStall
  <2> QED
    BY <1>1, <1>3, <2>1 DEF RetireVld, Completes
<1>4. CASE Op = "cust"
  <2>1. eei_ans \in {"ack", "error"}
    BY <1>4 DEF IfVld, InstReq, IfStall, EeiReq, EeiAck, CoreFacts, TypeOK,
       NegTypes, Answers
  <2> QED
    BY <1>4, <2>1 DEF RetireVld, RetireEei, EeiReq, Completes
<1>5. CASE Op \notin {"load", "store", "cust"}
  <2>1. Op \in {"alu", "jump", "mret"} \cup CsrOps
    BY <1>2, <1>5, OpTypes DEF CoreFacts, PlainOps, CsrOps
  <2> QED
    BY <2>1, <1>2 DEF RetireVld, Completes
<1> QED
  BY <1>3, <1>4, <1>5

\* The select of a vector is set when the table is read, in one cycle.
LEMMA TableAtOnce ==
  ASSUME CoreFacts, HartInv
  PROVE  /\ ClicNpcLoad <=> ClicVectorVld
         /\ TblLoaded <=> ClicVectorVld
<1>1. (ClicNpcLoad <=> ClicVectorVld)
  BY DEF HartInv, Selects, ClicNpcLoad, ClicVectorVld
<1>2. ClicVectorVld => LsuReq
  BY DEF LsuReq, LsuPreReq
<1>3. ClicVectorVld => LsuAck
  BY <1>1, <1>2 DEF CoreFacts, LsuInv, TableAnswered
<1> QED
  BY <1>1, <1>2, <1>3 DEF TblLoaded, ClicVectorVld

\* An interrupt is accepted with a fetch.
LEMMA AcceptedWithFetch ==
  ASSUME CoreFacts, clk = "neg"
  PROVE  (if_vld_pos <=> IfVld) /\ (IrqVld => IfVld)
BY DEF CoreFacts, FetchInv, Aligned, IrqAligned, IrqVld, ClicIrqVld,
       ClicVectorVld, ClicDirectVld

---------------------------------------------------------------------------
(* The initial states, the soft reset and the steps that change nothing.   *)

LEMMA HartInvInit ==
  ASSUME Init
  PROVE  HartInv
<1>1. Flags /\ Bus /\ NoErrors
  BY DEF Init, Flags, Bus, Blank, MemOp, NoErrors, Op, ResetInsn, Plain, IfVld,
         InstReq, IfError
<1>2. Pursued /\ Selects
  BY DEF Init, Pursued, Selects, Sel, Entering
<1>3. Where
  BY DEF Init, Where, Entering, IfVld, InstReq, ExVld, Live, Behind, Npc
<1> QED
  BY <1>1, <1>2, <1>3 DEF HartInv

LEMMA HartInvReset ==
  ASSUME HartInv, SoftReset
  PROVE  HartInv'
<1>1. ~IfVld' /\ ~IrqVld'
  BY DEF SoftReset, IfVld, InstReq, IrqVld, ClicIrqVld, ClicVectorVld,
         ClicDirectVld
<1>2. Flags' /\ Bus' /\ NoErrors'
  BY <1>1 DEF SoftReset, HartInv, Flags, Bus, Blank, MemOp, NoErrors, Op,
     ResetInsn, Plain
<1>3. Pursued' /\ Selects'
  BY <1>1 DEF SoftReset, Pursued, Selects, Sel, Entering
<1>4. Where'
  BY <1>1 DEF SoftReset, Where, Entering, ExVld, Live, Behind, Npc
<1> QED
  BY <1>2, <1>3, <1>4 DEF HartInv

LEMMA HartInvStutter ==
  ASSUME HartInv, UNCHANGED vars
  PROVE  HartInv'
<1> USE DEF vars, negVars, selVars, exVars, posVars, csrVars, clicVars,
            envVars, ghostVars
<1>1. /\ (IfVld' <=> IfVld) /\ (IfError' <=> IfError)
      /\ (RetireVld' <=> RetireVld) /\ Op' = Op
  BY DEF IfVld, IfError, InstReq, IfStall, EeiReq, EeiAck, Op, RetireVld,
         RetireEei
<1>2. /\ (IrqVld' <=> IrqVld) /\ (ClicDirectVld' <=> ClicDirectVld)
      /\ ClicVectorVld' <=> ClicVectorVld
  BY DEF IrqVld, ClicIrqVld, ClicVectorVld, ClicDirectVld, ClicEnPending,
         IsClic
<1>3. Npc' = Npc /\ (ExVld' <=> ExVld)
  BY DEF Npc, ExVld, ClicNpcVector, NpcSelClicVectorPos, NextOf, Op
<1>4. Flags' /\ Bus' /\ NoErrors'
  BY <1>1, <1>2 DEF HartInv, Flags, Bus, Blank, MemOp, NoErrors
<1>5. Pursued' /\ Selects'
  BY <1>1, <1>2 DEF HartInv, Pursued, Selects, Sel, Entering
<1>6. Where'
  BY <1>1, <1>2, <1>3 DEF HartInv, Where, Entering, Live, Behind
<1> QED
  BY <1>4, <1>5, <1>6 DEF HartInv

---------------------------------------------------------------------------
(* The edge of clk_neg_i: what was fetched moves into the register.        *)

LEMMA NegKeepsIrq ==
  ASSUME NegEdge
  PROVE  /\ IrqVld' <=> IrqVld
         /\ ClicDirectVld' <=> ClicDirectVld
         /\ ClicVectorVld' <=> ClicVectorVld
BY DEF NegEdge, posVars, csrVars, clicVars, envVars, IrqVld, ClicIrqVld,
       ClicVectorVld, ClicDirectVld, ClicEnPending, IsClic

\* An interrupt is accepted when the register is about to be empty.
LEMMA NegIrq ==
  ASSUME CoreFacts, HartInv, Tame, NegEdge, IrqVld
  PROVE  /\ IfVld /\ ~IfError /\ ~ExVld /\ ~Sync
         /\ lsu_ans # "error"
         /\ inst_rdata \in Insns /\ ~Raises(inst_rdata)
         /\ ~inst_data_1d_vld'
<1>1. IfVld /\ ~Sync
  BY AcceptedWithFetch, IrqNotSync DEF NegEdge
<1>2. ~ExVld
  BY <1>1, InterruptsOnly
<1>3. fetch_ans # "error" /\ lsu_ans # "error" /\ eei_ans # "error"
  BY <1>1 DEF HartInv, NoErrors
<1>4. ~IfError
  BY <1>3 DEF IfError
<1>5. inst_rdata \in Insns
  BY <1>1, <1>4 DEF NegEdge, HartInv, Bus
<1>6. ~Raises(inst_rdata)
  BY <1>1, <1>5 DEF Tame, NoTraps
<1>7. inst_data_1d_vld => RetireVld
  BY <1>1, <1>2, <1>3, Completion
<1>8. ~inst_data_1d_vld'
  BY <1>7 DEF NegEdge, InstData1dVld
<1> QED
  BY <1>1, <1>2, <1>3, <1>4, <1>5, <1>6, <1>8

\* A load or store that waits holds the register and the fetch.
LEMMA Waiting ==
  ASSUME CoreFacts, HartInv, clk = "neg", lsu_post_req
  PROVE  /\ ~IfVld /\ ~RetireVld /\ inst_data_1d_vld
         /\ \/ Op = "load" /\ ~lsu_store_pending
            \/ Op = "store" /\ ~lsu_load_pending
<1>1. lsu_req_neg /\ ~lsu_valid
  BY DEF CoreFacts, FetchInv, PostReqStalls
<1>2. ~IfVld
  BY <1>1 DEF IfVld, InstReq, IfStall
<1>3. /\ inst_data_1d_vld
      /\ \/ Op = "load" /\ ~lsu_store_pending
         \/ Op = "store" /\ ~lsu_load_pending
  BY DEF HartInv, Pursued
<1>4. ~RetireVld
  BY <1>1, <1>3 DEF RetireVld, RetireEei, EeiReq, CsrOps
<1> QED
  BY <1>2, <1>3, <1>4

\* Without a fetch nothing is requested but what waits already.
LEMMA OldRequest ==
  ASSUME CoreFacts, HartInv, clk = "neg", ~IfVld
  PROVE  /\ ~if_vld_pos /\ ~ClicNpcLoad /\ ~IrqVld /\ ~clint_irq_vld
         /\ LsuReq <=> lsu_post_req
         /\ (LsuLoad <=> lsu_load_pending) /\ (LsuStore <=> lsu_store_pending)
<1>1. ~if_vld_pos /\ ~IrqVld
  BY AcceptedWithFetch
<1>2. ~ClicNpcLoad
  BY <1>1, TableAtOnce DEF ClicVectorVld
<1>3. (LsuReq <=> lsu_post_req)
  BY <1>1 DEF LsuReq, LsuPreReq, ClicVectorVld, CoreFacts, TypeOK, PosTypes
<1>4. (LsuLoad <=> lsu_load_pending) /\ (LsuStore <=> lsu_store_pending)
  BY DEF HartInv, Bus, Blank, MemOp, LsuLoad, LsuStore, CoreFacts, TypeOK,
         PosTypes
<1> QED
  BY <1>1, <1>2, <1>3, <1>4 DEF IrqVld

\* With a fetch only what was fetched is requested.
LEMMA NewRequest ==
  ASSUME CoreFacts, HartInv, clk = "neg", IfVld, ~IrqVld
  PROVE  /\ if_vld_pos /\ ~ClicNpcLoad
         /\ LsuReq <=> (inst_rdata.op \in {"load", "store"})
         /\ LsuReq => ~IfError
         /\ LsuLoad <=> (inst_rdata.op \in {"load", "misload"})
         /\ LsuStore <=> (inst_rdata.op \in {"store", "misstore"})
<1>1. if_vld_pos
  BY AcceptedWithFetch
<1>2. ~ClicNpcLoad /\ ~ClicVectorVld
  BY TableAtOnce DEF IrqVld, ClicIrqVld
<1>3. ~lsu_post_req
  BY Waiting
<1>4. ~lsu_load_pending /\ ~lsu_store_pending
  BY <1>3 DEF HartInv, Pursued
<1>5. (LsuReq <=> (inst_rdata.op \in {"load", "store"}))
  BY <1>1, <1>2, <1>3 DEF LsuReq, LsuPreReq
<1>6. LsuReq => ~IfError
  BY <1>5 DEF HartInv, Bus, Blank, MemOp
<1> QED
  BY <1>1, <1>2, <1>4, <1>5, <1>6 DEF LsuLoad, LsuStore

\* What the edge does with a fetch that completes.
LEMMA NegFetched ==
  ASSUME CoreFacts, HartInv, Tame, NegEdge, IfVld
  PROVE  /\ Op' = inst_rdata.op /\ ~npc_sel_bootaddr'
         /\ inst_data_1d_vld' <=> (~IfError /\ ~IrqVld)
         /\ ex_fetch_access' <=> IfError
         /\ ex_misalign_load' <=> (Op' = "misload")
         /\ ex_misalign_store' <=> (Op' = "misstore")
         /\ ex_load_access' => ~IrqVld /\ LsuReq /\ Op' = "load"
         /\ ex_store_access' => ~IrqVld /\ LsuReq /\ Op' = "store"
<1>1. /\ Op' = inst_rdata.op /\ ~npc_sel_bootaddr'
      /\ ex_fetch_access' <=> IfError
  BY DEF NegEdge, InstData1d, Op, SelBootaddr, ExFetchAccess
<1>2. CASE IrqVld
  <2>1. ~IfError /\ ~Raises(inst_rdata) /\ ~inst_data_1d_vld'
        /\ lsu_ans # "error"
    BY <1>2, NegIrq
  <2>2. ~ex_load_access' /\ ~ex_store_access'
    BY <2>1 DEF NegEdge, ExLsuAccess
  <2>3. if_vld_pos
    BY AcceptedWithFetch DEF NegEdge
  <2>4. /\ ~ex_misalign_load' /\ ~ex_misalign_store'
        /\ Op' \notin {"misload", "misstore"}
    BY <1>1, <2>1, <2>3 DEF NegEdge, ExMisalign, Raises
  <2>5. (inst_data_1d_vld' <=> (~IfError /\ ~IrqVld))
    <3>1. inst_data_1d_vld' = FALSE
      BY <2>1 DEF NegEdge, InstData1dVld
    <3> QED
      BY <1>2, <3>1
  <2>6. /\ ex_misalign_load' <=> (Op' = "misload")
        /\ ex_misalign_store' <=> (Op' = "misstore")
    <3>1. ex_misalign_load' = FALSE /\ ex_misalign_store' = FALSE
      BY <2>4 DEF NegEdge, ExMisalign
    <3> QED
      BY <2>4, <3>1
  <2> QED
    BY <1>1, <2>2, <2>5, <2>6
<1>3. CASE ~IrqVld
  <2>1. (inst_data_1d_vld' <=> ~IfError)
    BY <1>3 DEF NegEdge, InstData1dVld, IfError
  <2>2. /\ if_vld_pos /\ ~ClicNpcLoad
        /\ LsuReq <=> (inst_rdata.op \in {"load", "store"})
        /\ LsuLoad <=> (inst_rdata.op \in {"load", "misload"})
        /\ LsuStore <=> (inst_rdata.op \in {"store", "misstore"})
    BY <1>3, NewRequest DEF NegEdge
  <2>3. /\ ex_misalign_load' <=> (inst_rdata.op = "misload")
        /\ ex_misalign_store' <=> (inst_rdata.op = "misstore")
    BY <2>2 DEF NegEdge, ExMisalign
  <2>4. /\ ex_load_access' => LsuReq /\ inst_rdata.op = "load"
        /\ ex_store_access' => LsuReq /\ inst_rdata.op = "store"
    BY <2>2 DEF NegEdge, ExLsuAccess
  <2>5. (inst_data_1d_vld' <=> (~IfError /\ ~IrqVld))
    BY <1>3, <2>1
  <2>6. /\ ex_misalign_load' <=> (Op' = "misload")
        /\ ex_misalign_store' <=> (Op' = "misstore")
    BY <1>1, <2>3
  <2>7. /\ ex_load_access' => ~IrqVld /\ LsuReq /\ Op' = "load"
        /\ ex_store_access' => ~IrqVld /\ LsuReq /\ Op' = "store"
    BY <1>1, <1>3, <2>4
  <2> QED
    BY <1>1, <2>5, <2>6, <2>7
<1> QED
  BY <1>2, <1>3

\* What it does without one.
LEMMA NegWaits ==
  ASSUME CoreFacts, HartInv, NegEdge, ~IfVld
  PROVE  /\ inst_data_1d' = inst_data_1d /\ pc' = pc /\ Op' = Op
         /\ npc_sel_bootaddr' <=> npc_sel_bootaddr
         /\ inst_data_1d_vld' <=> Live
         /\ ex_fetch_access' <=> ex_fetch_access
         /\ ex_misalign_load' <=> ex_misalign_load
         /\ ex_misalign_store' <=> ex_misalign_store
         /\ ~LsuReq => /\ (ex_load_access' <=> ex_load_access)
                       /\ ex_store_access' <=> ex_store_access
         /\ ex_load_access' => Live /\ Op = "load"
         /\ ex_store_access' => Live /\ Op = "store"
         /\ LsuReq => Live
<1>1. /\ ~if_vld_pos /\ ~ClicNpcLoad
      /\ LsuReq <=> lsu_post_req
      /\ (LsuLoad <=> lsu_load_pending) /\ (LsuStore <=> lsu_store_pending)
  BY OldRequest DEF NegEdge
<1>2. inst_data_1d' = inst_data_1d /\ pc' = pc /\ Op' = Op
  BY DEF NegEdge, InstData1d, Pc, Op
<1>3. /\ npc_sel_bootaddr' <=> npc_sel_bootaddr
      /\ ex_fetch_access' <=> ex_fetch_access
      /\ ex_misalign_load' <=> ex_misalign_load
      /\ ex_misalign_store' <=> ex_misalign_store
  BY <1>1 DEF NegEdge, SelBootaddr, ExFetchAccess, ExMisalign, CoreFacts,
     TypeOK, NegTypes
<1>4. (inst_data_1d_vld' <=> Live)
  BY DEF NegEdge, InstData1dVld, IfError, Live, CoreFacts, TypeOK, NegTypes
<1>5. LsuReq => /\ Live
                /\ \/ Op = "load" /\ ~LsuStore
                   \/ Op = "store" /\ ~LsuLoad
  BY <1>1, Waiting DEF NegEdge, Live
<1>6. ~LsuReq => /\ (ex_load_access' <=> ex_load_access)
                 /\ ex_store_access' <=> ex_store_access
  BY DEF NegEdge, ExLsuAccess, CoreFacts, TypeOK, NegTypes
<1>7. /\ ex_load_access => Live /\ Op = "load"
      /\ ex_store_access => Live /\ Op = "store"
  BY DEF HartInv, Flags, Live, RetireVld, RetireEei, EeiReq, CsrOps
<1>8. /\ ex_load_access' => Live /\ Op = "load"
      /\ ex_store_access' => Live /\ Op = "store"
  BY <1>1, <1>5, <1>7 DEF NegEdge, ExLsuAccess
<1> QED
  BY <1>2, <1>3, <1>4, <1>5, <1>6, <1>8

LEMMA FlagsNeg ==
  ASSUME CoreFacts, HartInv, Tame, NegEdge
  PROVE  Flags'
<1>1. (mstatus_mie' <=> mstatus_mie)
  BY DEF NegEdge, posVars, csrVars
<1>2. CASE IfVld
  <2>1. LsuReq /\ ~IrqVld => ~IfError
    BY <1>2, NewRequest DEF NegEdge
  <2>2. IfError => Blank(inst_rdata)
    BY DEF NegEdge, HartInv, Bus
  <2>3. ~IfError => inst_data_1d' \in Insns
    BY <1>2 DEF NegEdge, InstData1d, HartInv, Bus
  <2>4. /\ (ex_misalign_load <=> (Op = "misload"))'
        /\ (ex_misalign_store <=> (Op = "misstore"))'
        /\ ~npc_sel_bootaddr'
        /\ ex_fetch_access' <=> IfError
    BY <1>2, NegFetched
  <2>5. /\ ex_load_access' => inst_data_1d_vld' /\ Op' = "load"
        /\ ex_store_access' => inst_data_1d_vld' /\ Op' = "store"
    BY <1>2, <2>1, NegFetched
  <2>6. ex_fetch_access' => ~inst_data_1d_vld' /\ Op' # "misjump"
    BY <1>2, <2>2, NegFetched DEF Blank
  <2> QED
    BY <2>3, <2>4, <2>5, <2>6 DEF Flags
<1>3. CASE ~IfVld
  <2>1. Live => inst_data_1d_vld
    BY DEF Live
  <2> QED
    BY <1>1, <1>3, <2>1, NegWaits DEF HartInv, Flags
<1> QED
  BY <1>2, <1>3

LEMMA BusNeg ==
  ASSUME CoreFacts, HartInv, Tame, NegEdge
  PROVE  Bus'
<1>1. /\ clk = "neg" /\ clk' = "pos" /\ pos_data' = pos_data
      /\ inst_rdata' = inst_rdata /\ (if_vld_pos' <=> if_vld_pos)
  BY DEF NegEdge, posVars, envVars
<1>2. (if_vld_pos <=> IfVld) /\ (IrqVld' <=> IrqVld)
  BY <1>1, AcceptedWithFetch, NegKeepsIrq
<1>3. CASE IfVld
  <2>1. inst_rdata = inst_data_1d'
    BY <1>3 DEF NegEdge, InstData1d
  <2>2. inst_data_1d_vld' \/ IrqVld \/ ~MemOp(inst_rdata)
    BY <1>1, <1>3, NegFetched DEF HartInv, Bus, Blank
  <2> QED
    BY <1>1, <1>2, <1>3, <2>1, <2>2 DEF HartInv, Bus
<1>4. CASE ~IfVld
  BY <1>1, <1>2, <1>4 DEF HartInv, Bus
<1> QED
  BY <1>3, <1>4

LEMMA NoErrorsNeg ==
  ASSUME CoreFacts, HartInv, Tame, NegEdge
  PROVE  NoErrors'
<1> SUFFICES ASSUME ~Sync
             PROVE  NoErrors'
  BY DEF NoErrors, Sync
<1>1. /\ fetch_ans # "error" /\ lsu_ans # "error" /\ eei_ans # "error"
      /\ ~ex_fetch_access /\ ~ex_load_access /\ ~ex_store_access
  BY DEF HartInv, NoErrors
<1>2. fetch_ans' # "error" /\ eei_ans' # "error" /\ lsu_ans' = lsu_ans
  BY DEF NegEdge, NegEnv, posVars, envVars, Tame, NoTraps
<1>3. ~ex_fetch_access' /\ ~ex_load_access' /\ ~ex_store_access'
  BY <1>1 DEF NegEdge, ExFetchAccess, IfError, ExLsuAccess
<1> QED
  BY <1>1, <1>2, <1>3 DEF NoErrors

LEMMA PursuedNeg ==
  ASSUME CoreFacts, HartInv, Tame, NegEdge
  PROVE  Pursued'
<1>1. /\ clk = "neg" /\ clk' = "pos" /\ (lsu_post_req' <=> lsu_post_req)
      /\ lsu_load_pending' <=> lsu_load_pending
      /\ lsu_store_pending' <=> lsu_store_pending
      /\ lsu_req_neg' <=> LsuReq
  BY DEF NegEdge, posVars, LsuReqNeg
<1>2. lsu_post_req => /\ inst_data_1d_vld'
                      /\ \/ Op' = "load" /\ ~lsu_store_pending
                         \/ Op' = "store" /\ ~lsu_load_pending
  BY <1>1, Waiting, NegWaits DEF Live
<1>3. (/\ inst_data_1d_vld' /\ Op' \in {"load", "store"}
       /\ ~ex_load_access' /\ ~ex_store_access') => LsuReq
  <2>1. CASE IfVld
    BY <1>1, <2>1, NegFetched, NewRequest
  <2>2. CASE ~IfVld
    <3> SUFFICES ASSUME Live, Op \in {"load", "store"}, ~LsuReq,
                        ~ex_load_access', ~ex_store_access'
                 PROVE  FALSE
      BY <2>2, NegWaits
    <3>1. ~ex_load_access /\ ~ex_store_access
      BY <2>2, NegWaits
    <3>2. lsu_valid \/ lsu_post_req
      BY <1>1, <3>1 DEF HartInv, Pursued, Live
    <3>3. ~lsu_valid
      BY <1>1, <3>1 DEF Live, RetireVld
    <3> QED
      BY <1>1, <2>2, <3>2, <3>3, OldRequest
  <2> QED
    BY <2>1, <2>2
<1> QED
  BY <1>1, <1>2, <1>3 DEF HartInv, Pursued

LEMMA SelectsNeg ==
  ASSUME CoreFacts, HartInv, Tame, NegEdge
  PROVE  Selects'
<1>1. /\ clk = "neg" /\ clk' = "pos" /\ clint_irq_vld' = clint_irq_vld
      /\ (mstatus_mie' <=> mstatus_mie) /\ (wasmie' <=> wasmie)
      /\ mcause' = mcause
      /\ clic_irq' = clic_irq /\ clic_npc_load_last' = clic_npc_load_last
  BY DEF NegEdge, posVars, csrVars, clicVars, envVars, ghostVars
<1>2. /\ (ClicNpcLoad <=> ClicVectorVld) /\ (TblLoaded <=> ClicVectorVld)
      /\ (IrqVld' <=> IrqVld) /\ (ClicDirectVld' <=> ClicDirectVld)
      /\ ClicVectorVld' <=> ClicVectorVld
  BY TableAtOnce, NegKeepsIrq
<1>3. clint_irq_vld => mtvec_mode = "direct"
  BY DEF CoreFacts, PcInv, SlotsUnused
<1>4. /\ npc_sel_clint_direct' <=>
           (clint_irq_vld \/ (npc_sel_clint_direct /\ ~IfVld))
      /\ npc_sel_clic_direct' <=>
           (ClicDirectVld \/ (npc_sel_clic_direct /\ ~IfVld))
      /\ npc_sel_clic_vector' <=>
           (ClicVectorVld \/ (npc_sel_clic_vector /\ ~IfVld))
  BY <1>2, <1>3 DEF NegEdge, SelClintDirect, SelClicDirect, SelClicVector,
     Select
<1>5. CASE IrqVld
  <2>1. IfVld /\ ~inst_data_1d_vld'
    BY <1>5, NegIrq
  <2>2. ~npc_sel_bootaddr'
    BY <2>1, NegFetched
  <2>3. /\ npc_sel_clint_direct' <=> clint_irq_vld
        /\ npc_sel_clic_direct' <=> ClicDirectVld
        /\ npc_sel_clic_vector' <=> ClicVectorVld
    BY <1>4, <2>1 DEF CoreFacts, TypeOK, NegTypes, PosTypes
  <2>4. ClicVectorVld => ~npc_sel_clic_vector_1d' /\ lsu_rdata' = Vec[clic_irq]
    <3> SUFFICES ASSUME ClicVectorVld
                 PROVE  ~npc_sel_clic_vector_1d' /\ lsu_rdata' = Vec[clic_irq]
      OBVIOUS
    <3>1. mstatus_mie
      BY DEF ClicVectorVld, ClicEnPending
    <3>2. ~npc_sel_clic_vector
      BY <1>1, <3>1 DEF HartInv, Selects, Sel, Entering
    <3> QED
      BY <1>2, <3>2 DEF NegEdge, SelClicVector1d, LsuRdata
  <2> QED
    BY <1>1, <1>2, <1>5, <2>1, <2>2, <2>3, <2>4
    DEF HartInv, Selects, Sel, Entering, NegEdge, IfStallClic
<1>6. CASE ~IrqVld
  <2>1. ~clint_irq_vld /\ ~ClicDirectVld /\ ~ClicVectorVld
    BY <1>6 DEF IrqVld, ClicIrqVld
  <2>2. Sel' => Sel /\ ~IfVld
    BY <1>4, <2>1 DEF Sel
  <2>3. Sel' => ~inst_data_1d_vld' /\ ~mstatus_mie'
    BY <1>1, <2>2, NegWaits DEF HartInv, Selects, Entering, Live
  <2>4. ~if_stall_clic'
    BY <1>2, <2>1 DEF NegEdge, IfStallClic, HartInv, Selects
  <2> QED
    BY <1>1, <1>2, <1>6, <2>1, <2>3, <2>4 DEF HartInv, Selects, Entering
<1> QED
  BY <1>5, <1>6

LEMMA WhereNeg ==
  ASSUME CoreFacts, HartInv, Tame, NegEdge
  PROVE  Where'
<1>1. /\ clk = "neg" /\ clk' = "pos" /\ apc' = apc /\ last' = last
      /\ IrqVld' <=> IrqVld
  BY NegKeepsIrq DEF NegEdge, posVars, ghostVars
<1>2. CASE IfVld
  <2>1. apc = Npc /\ last = pc
    BY <1>1, <1>2 DEF HartInv, Where, Entering, Behind
  <2>2. pc' = IF IfError THEN pc ELSE Npc
    BY <1>2 DEF NegEdge, Pc, IfError
  <2>3. CASE IrqVld
    <3>1. ~IfError /\ ~inst_data_1d_vld'
      BY <2>3, NegIrq
    <3> QED
      BY <1>1, <2>1, <2>2, <2>3, <3>1 DEF Where, Entering
  <2>4. CASE ~IrqVld /\ ~IfError
    <3>1. inst_data_1d_vld' /\ ~ex_fetch_access'
      BY <1>2, <2>4, NegFetched
    <3> QED
      BY <1>1, <2>1, <2>2, <2>4, <3>1 DEF Where, Entering, Live
  <2>5. CASE ~IrqVld /\ IfError
    <3>1. ~npc_sel_bootaddr' /\ ex_fetch_access'
      BY <1>2, <2>5, NegFetched
    <3> QED
      BY <1>1, <2>1, <2>2, <2>5, <3>1 DEF Where, Entering, ExVld
  <2> QED
    BY <2>3, <2>4, <2>5
<1>3. CASE ~IfVld
  <2>1. ~IrqVld /\ ~if_vld_pos /\ ~clint_irq_vld
    BY <1>1, <1>3, OldRequest
  <2>2. /\ pc' = pc /\ Op' = Op /\ (npc_sel_bootaddr' <=> npc_sel_bootaddr)
        /\ inst_data_1d_vld' <=> Live
        /\ ex_fetch_access' <=> ex_fetch_access
        /\ ex_misalign_load' <=> ex_misalign_load
        /\ ex_misalign_store' <=> ex_misalign_store
        /\ LsuReq => Live
    BY <1>3, NegWaits
  <2>3. ~LsuReq => (ExVld' <=> ExVld)
    BY <1>3, <2>2, NegWaits DEF ExVld
  <2>4. CASE ~ExVld /\ ~Live
    <3>1. ~LsuReq
      BY <2>2, <2>4
    <3>2. Npc' = Npc
      BY <1>3, <2>1, <3>1, NegKeepsNpc DEF CoreFacts
    <3> QED
      BY <1>1, <1>3, <2>1, <2>2, <2>3, <2>4, <3>1, <3>2
      DEF HartInv, Where, Entering, Behind, Live
  <2>5. CASE ExVld \/ Live
    <3>1. ExVld' \/ Live'
      BY <1>1, <2>2, <2>3, <2>5 DEF Live
    <3> QED
      BY <1>1, <1>3, <2>1, <2>2, <2>5, <3>1
      DEF HartInv, Where, Entering
  <2> QED
    BY <2>4, <2>5
<1> QED
  BY <1>2, <1>3

---------------------------------------------------------------------------
(* The edge of clk_i: the program advances.                                *)

LEMMA PosKeepsRegister ==
  ASSUME PosEdge
  PROVE  /\ clk = "pos" /\ clk' = "neg" /\ pc' = pc
         /\ inst_data_1d' = inst_data_1d /\ Op' = Op
         /\ inst_data_1d_vld' = inst_data_1d_vld
         /\ npc_sel_bootaddr' = npc_sel_bootaddr
         /\ exVars' = exVars
         /\ (IfVld' <=> IfVld) /\ (IfError' <=> IfError)
         /\ (ExVld' <=> ExVld) /\ (RetireVld' <=> RetireVld)
<1>1. /\ clk = "pos" /\ clk' = "neg" /\ pc' = pc
      /\ inst_data_1d' = inst_data_1d /\ inst_data_1d_vld' = inst_data_1d_vld
      /\ npc_sel_bootaddr' = npc_sel_bootaddr /\ exVars' = exVars
      /\ fetch_ans' = fetch_ans /\ eei_ans' = eei_ans /\ lsu_valid' = lsu_valid
  BY DEF PosEdge, negVars, selVars
<1>2. (IfVld' <=> IfVld) /\ Op' = Op /\ (ExVld' <=> ExVld)
  BY PosKeepsFetch
<1>3. IfError' <=> IfError
  BY <1>1, <1>2 DEF IfError
<1>4. RetireVld' <=> RetireVld
  BY <1>1, <1>2 DEF RetireVld, RetireEei, EeiReq, exVars
<1> QED
  BY <1>1, <1>2, <1>3, <1>4

\* An interrupt is entered while the register is empty and nothing traps.
LEMMA PosIrq ==
  ASSUME CoreFacts, HartInv, Tame, PosEdge, IrqVld
  PROVE  /\ ~Sync /\ ~ExVld /\ ~npc_sel_bootaddr /\ ~inst_data_1d_vld
         /\ apc = pc
<1>1. ~Sync /\ ~ExVld
  BY IrqNotSync, InterruptsOnly
<1>2. ~npc_sel_bootaddr /\ ~inst_data_1d_vld /\ apc = pc
  BY DEF PosEdge, HartInv, Selects, Where, Entering
<1> QED
  BY <1>1, <1>2

\* The instruction that completes is the valid one in the register.
LEMMA PosCompletes ==
  ASSUME CoreFacts, HartInv, Tame, PosEdge, Completes
  PROVE  /\ inst_data_1d_vld /\ ~IrqVld /\ ~ExVld /\ ~EnterIrqEx
         /\ ~npc_sel_bootaddr /\ inst_data_1d \in Insns /\ apc = pc
<1>1. inst_data_1d_vld /\ ~ExVld
  BY Idle, TrapsDoNotComplete
<1>2. ~IrqVld
  BY <1>1, PosIrq
<1>3. ~EnterIrqEx
  BY <1>1, <1>2 DEF EnterIrqEx, EnterEx
<1>4. ~npc_sel_bootaddr /\ inst_data_1d \in Insns
  BY <1>1 DEF HartInv, Flags
<1>5. apc = pc
  BY <1>1, <1>2 DEF PosEdge, HartInv, Where, Entering, Live, Flags
<1> QED
  BY <1>1, <1>2, <1>3, <1>4, <1>5

\* Without a trap the program counter follows the instruction.
LEMMA PosKeepsPlainNpc ==
  ASSUME CoreFacts, HartInv, PosEdge, ~IrqVld, ~ExVld
  PROVE  /\ Npc' = Npc
         /\ inst_data_1d_vld => Npc = NextOf(inst_data_1d, pc, mepc)
<1>1. /\ npc_sel_bootaddr' = npc_sel_bootaddr
      /\ npc_sel_clint_direct' = npc_sel_clint_direct
      /\ npc_sel_clint_vector' = npc_sel_clint_vector
      /\ npc_sel_clic_direct' = npc_sel_clic_direct
      /\ npc_sel_clic_vector' = npc_sel_clic_vector
      /\ inst_data_1d' = inst_data_1d
      /\ pc' = pc
  BY DEF PosEdge, negVars, selVars
<1>2. ExVld' = ExVld /\ ClicNpcVector' = ClicNpcVector
  BY PosKeepsFetch
<1>3. ~npc_sel_clint_vector
  BY DEF CoreFacts, PcInv, SlotsUnused
<1>4. ~EnterIrqEx /\ ~TblLoaded
  BY TableAtOnce DEF EnterIrqEx, EnterEx, IrqVld, ClicIrqVld
<1>5. Op = "mret" => mepc' = mepc
  BY <1>4 DEF PosEdge, Mepc, CsrWr
<1>6. NextOf(inst_data_1d, pc, mepc)' = NextOf(inst_data_1d, pc, mepc)
  BY <1>1, <1>5 DEF NextOf, Op
<1>7. Npc' = Npc
  BY <1>1, <1>2, <1>3, <1>6 DEF Npc
<1>8. inst_data_1d_vld => ~npc_sel_bootaddr /\ ~Sel
  BY DEF HartInv, Flags, Selects
<1> QED
  BY <1>3, <1>7, <1>8 DEF Npc, Sel

LEMMA FlagsPos ==
  ASSUME CoreFacts, HartInv, PosEdge
  PROVE  Flags'
<1>1. npc_sel_bootaddr => ~mstatus_mie'
  <2> SUFFICES ASSUME npc_sel_bootaddr PROVE ~mstatus_mie'
    OBVIOUS
  <2>1. ~inst_data_1d_vld /\ ~mstatus_mie
    BY DEF HartInv, Flags
  <2> QED
    BY <2>1, Idle DEF PosEdge, MstatusMie, CsrOps
<1> QED
  BY <1>1, PosKeepsRegister DEF HartInv, Flags, exVars

LEMMA BusPos ==
  ASSUME CoreFacts, HartInv, Tame, PosEdge
  PROVE  Bus'
<1>1. Blank(pos_data) /\ \A i \in ExtInsns : Blank(i)
  BY DEF HartInv, Bus, Tame
<1>2. Blank(pos_data')
  BY <1>1 DEF PosEdge, PosEnv, InstRdata
<1>3. IF IfVld /\ ~IfError THEN inst_rdata' \in Insns ELSE Blank(inst_rdata')
  BY <1>1, CoreAssumption DEF PosEdge, PosEnv, InstRdata
<1> QED
  BY <1>2, <1>3, PosKeepsRegister DEF Bus, Blank, MemOp

LEMMA NoErrorsPos ==
  ASSUME HartInv, Tame, PosEdge
  PROVE  NoErrors'
<1> SUFFICES ASSUME ~Sync
             PROVE  NoErrors'
  BY DEF NoErrors, Sync
<1>1. /\ fetch_ans # "error" /\ eei_ans # "error"
      /\ ~ex_fetch_access /\ ~ex_load_access /\ ~ex_store_access
  BY DEF HartInv, NoErrors
<1>2. lsu_ans' # "error"
  BY DEF PosEdge, PosEnv, Tame, NoTraps
<1>3. fetch_ans' = fetch_ans /\ eei_ans' = eei_ans /\ exVars' = exVars
  BY DEF PosEdge, negVars
<1> QED
  BY <1>1, <1>2, <1>3 DEF NoErrors, exVars

LEMMA PursuedPos ==
  ASSUME CoreFacts, HartInv, PosEdge
  PROVE  Pursued'
<1>1. /\ clk = "pos" /\ lsu_req_neg' = lsu_req_neg /\ lsu_valid' = lsu_valid
      /\ Op' = Op /\ inst_data_1d_vld' = inst_data_1d_vld /\ exVars' = exVars
  BY PosKeepsRegister DEF PosEdge, negVars
<1>2. lsu_post_req' <=> (LsuReq /\ ~LsuAck)
  BY DEF PosEdge, LsuPostReq, LsuReq
<1>3. /\ lsu_load_pending' => LsuLoad /\ lsu_post_req'
      /\ lsu_store_pending' => LsuStore /\ lsu_post_req'
  <2>1. CASE LsuReq
    BY <1>2, <2>1 DEF PosEdge, LsuPending
  <2>2. CASE ~LsuReq
    BY <2>2 DEF PosEdge, LsuPending, LsuReq, HartInv, Pursued
  <2> QED
    BY <2>1, <2>2
<1>4. LsuReq /\ ~LsuAck => /\ inst_data_1d_vld
                           /\ \/ Op = "load" /\ ~LsuStore
                              \/ Op = "store" /\ ~LsuLoad
  <2> SUFFICES ASSUME LsuReq, ~LsuAck
               PROVE  /\ inst_data_1d_vld
                      /\ \/ Op = "load" /\ ~LsuStore
                         \/ Op = "store" /\ ~LsuLoad
    OBVIOUS
  <2>1. ~ClicVectorVld
    BY TableAtOnce DEF TblLoaded, CoreFacts, LsuInv, TableAnswered
  <2>2. if_vld_pos => inst_rdata = inst_data_1d
    BY <1>1 DEF HartInv, Bus
  <2>3. ~if_vld_pos => ~MemOp(inst_rdata)
    BY <1>1 DEF HartInv, Bus, Blank
  <2>4. CASE lsu_post_req
    BY <2>2, <2>3, <2>4 DEF HartInv, Pursued, LsuLoad, LsuStore, Op, MemOp
  <2>5. CASE ~lsu_post_req
    <3>1. if_vld_pos /\ ~IrqVld /\ inst_rdata.op \in {"load", "store"}
      BY <2>1, <2>5 DEF LsuReq, LsuPreReq
    <3>2. inst_data_1d_vld
      BY <1>1, <3>1 DEF HartInv, Bus, MemOp
    <3>3. ~lsu_load_pending /\ ~lsu_store_pending
      BY <2>5 DEF HartInv, Pursued
    <3> QED
      BY <2>2, <3>1, <3>2, <3>3 DEF LsuLoad, LsuStore, Op
  <2> QED
    BY <2>4, <2>5
<1>5. (/\ inst_data_1d_vld /\ Op \in {"load", "store"}
       /\ ~ex_load_access /\ ~ex_store_access)
        => lsu_req_neg /\ (lsu_valid \/ (LsuReq /\ ~LsuAck))
  BY <1>1 DEF HartInv, Pursued, CoreFacts, FetchInv, PostReqStalls
<1> QED
  BY <1>1, <1>2, <1>3, <1>4, <1>5 DEF Pursued, exVars

\* A CLINT interrupt is accepted for a line, and with interrupts enabled by
\* the instruction before the next one.
LEMMA Accepted ==
  ASSUME CoreFacts, HartInv, Tame, PosEdge, clint_irq_vld'
  PROVE  /\ \E l \in IrqLines : mcause' = Irq(IrqCode[l])
         /\ mstatus_mie' \/ wasmie'
<1>1. EnPending # {} /\ EnPending \subseteq IrqLines
  BY DEF PosEdge, ClintIrqVld, EnPending, CoreFacts, TypeOK, EnvTypes
<1>2. mstatus_mie /\ ~IsClic /\ ~clint_irq_vld
  BY <1>1 DEF PosEdge, ClintIrqVld, EnPending
<1>3. ~IrqVld
  BY <1>2 DEF IrqVld, ClicIrqVld, ClicVectorVld, ClicDirectVld, ClicEnPending
<1>4. ~Sync
  BY <1>1 DEF Sync
<1>5. ~ExVld /\ ~npc_sel_bootaddr
  BY <1>2, <1>4, InterruptsOnly DEF HartInv, Flags
<1>6. mcause' = Irq(IrqCode[TopLine(EnPending)])
  BY <1>1, <1>5 DEF PosEdge, Mcause, ExVld
<1>7. TopLine(EnPending) \in IrqLines
  BY <1>1, IsaAssumption DEF TopLine
<1>8. ~EnterIrqEx
  BY <1>3, <1>5 DEF EnterIrqEx, EnterEx
<1>9. mstatus_mie' \/ wasmie'
  <2>1. CASE Completes
    BY <1>2, <1>8, <2>1 DEF PosEdge, Observe
  <2>2. CASE ~Completes
    <3>1. ~RetireVld
      BY <1>5, <2>2 DEF Completes, ExVld
    <3>2. ~ExitIrqEx /\ ~CsrWr("mie_off") /\ ~CsrWr("mpie_on")
      BY <3>1 DEF ExitIrqEx, CsrWr, RetireVld, CsrOps
    <3> QED
      BY <1>2, <1>8, <3>2 DEF PosEdge, MstatusMie
  <2> QED
    BY <2>1, <2>2
<1> QED
  BY <1>6, <1>7, <1>9

LEMMA SelectsPos ==
  ASSUME CoreFacts, HartInv, Tame, PosEdge
  PROVE  Selects'
<1>1. clk = "pos" /\ clk' = "neg" /\ inst_data_1d_vld' = inst_data_1d_vld
  BY PosKeepsRegister
<1>2. Sel' = Sel /\ if_stall_clic' = if_stall_clic
  BY DEF PosEdge, negVars, selVars, Sel
<1>3. Sel => ~mstatus_mie'
  <2> SUFFICES ASSUME Sel PROVE ~mstatus_mie'
    OBVIOUS
  <2>1. ~inst_data_1d_vld /\ (IrqVld \/ ~mstatus_mie)
    BY DEF HartInv, Selects, Entering
  <2>2. CASE IrqVld
    BY <2>2 DEF PosEdge, MstatusMie, EnterIrqEx
  <2>3. CASE ~mstatus_mie
    BY <2>1, <2>3, Idle DEF PosEdge, MstatusMie, CsrOps
  <2> QED
    BY <2>1, <2>2, <2>3
<1>4. ~clic_npc_load_last'
  BY TableAtOnce DEF PosEdge, ClicNpcLoadLast
<1> QED
  BY <1>1, <1>2, <1>3, <1>4, Accepted DEF HartInv, Selects, Entering

\* The interrupt that is entered is fetched from where it was selected.
LEMMA IrqNpc ==
  ASSUME CoreFacts, HartInv, Tame, PosEdge, IrqVld
  PROVE  Npc' = IrqTarget
<1>1. /\ npc_sel_bootaddr' = npc_sel_bootaddr
      /\ npc_sel_clint_direct' = npc_sel_clint_direct
      /\ npc_sel_clint_vector' = npc_sel_clint_vector
      /\ npc_sel_clic_direct' = npc_sel_clic_direct
      /\ npc_sel_clic_vector' = npc_sel_clic_vector
  BY DEF PosEdge, negVars, selVars
<1>2. ~ExVld' /\ ClicNpcVector' = ClicNpcVector /\ ~npc_sel_bootaddr
  BY PosKeepsFetch, PosIrq
<1>3. /\ (npc_sel_clint_direct <=> clint_irq_vld)
      /\ (npc_sel_clic_direct <=> ClicDirectVld)
      /\ (npc_sel_clic_vector <=> ClicVectorVld)
      /\ ClicVectorVld => ~npc_sel_clic_vector_1d /\ lsu_rdata = Vec[clic_irq]
  BY DEF PosEdge, HartInv, Selects, Entering
<1>4. ~npc_sel_clint_vector /\ (clint_irq_vld => mtvec_mode = "direct")
  BY DEF CoreFacts, PcInv, SlotsUnused
<1>5. CASE clint_irq_vld
  BY <1>1, <1>2, <1>3, <1>4, <1>5 DEF Npc, IrqTarget
<1>6. CASE ~clint_irq_vld /\ ClicDirectVld
  BY <1>1, <1>2, <1>3, <1>4, <1>6 DEF Npc, IrqTarget, ClicDirectVld
<1>7. CASE ~clint_irq_vld /\ ClicVectorVld
  <2>1. ~ClicDirectVld /\ clic_irq \in ShvIrqs
    BY <1>7 DEF ClicDirectVld, ClicVectorVld
  <2>2. ClicNpcVector = Vec[clic_irq]
    BY <1>3, <1>7 DEF ClicNpcVector, NpcSelClicVectorPos
  <2> QED
    BY <1>1, <1>2, <1>3, <1>4, <1>7, <2>1, <2>2 DEF Npc, IrqTarget
<1> QED
  BY <1>5, <1>6, <1>7 DEF IrqVld, ClicIrqVld

LEMMA WherePos ==
  ASSUME CoreFacts, HartInv, Tame, PosEdge
  PROVE  Where'
<1>1. /\ clk = "pos" /\ clk' = "neg" /\ pc' = pc
      /\ inst_data_1d_vld' = inst_data_1d_vld
      /\ ex_fetch_access' = ex_fetch_access
      /\ (IfVld' <=> IfVld) /\ (ExVld' <=> ExVld)
      /\ (Live' <=> inst_data_1d_vld /\ ~RetireVld)
  BY PosKeepsRegister DEF exVars, Live
<1>2. CASE IrqVld
  <2>1. ~ExVld /\ ~inst_data_1d_vld
    BY <1>2, PosIrq
  <2>2. apc' = Npc' /\ last' = pc'
    BY <1>1, <1>2, IrqNpc DEF PosEdge, Observe, EnterIrqEx
  <2> QED
    BY <1>1, <2>1, <2>2 DEF Where, Entering, Behind
<1>3. CASE ~IrqVld /\ EnterEx
  <2>1. Npc' = TrapBase
    BY <1>1, <1>3, PosKeepsRegister DEF EnterEx, ExVld, Npc
  <2>2. apc' = Npc' /\ last' = pc'
    BY <1>1, <1>3, <2>1 DEF PosEdge, Observe, EnterIrqEx
  <2> QED
    BY <1>1, <1>3, <2>2 DEF Where, Entering, Behind, EnterEx
<1>4. CASE ~IrqVld /\ ~EnterEx /\ Completes
  <2>1. inst_data_1d_vld /\ ~ExVld
    BY <1>4, PosCompletes
  <2>2. apc' = Npc' /\ last' = pc'
    BY <1>1, <1>4, <2>1, PosKeepsPlainNpc DEF PosEdge, Observe, EnterIrqEx
  <2>3. IfVld \/ RetireVld
    BY <1>4 DEF Completes
  <2> QED
    BY <1>1, <2>1, <2>2, <2>3 DEF Where, Entering, Behind
<1>5. CASE ~IrqVld /\ ~EnterEx /\ ~Completes
  <2>1. apc' = apc /\ last' = last
    BY <1>5 DEF PosEdge, Observe, EnterIrqEx
  <2>2. CASE ~ExVld /\ ~inst_data_1d_vld
    <3>1. apc = Npc /\ last = pc
      BY <1>1, <1>5, <2>2 DEF HartInv, Where, Entering, Live, Behind
    <3>2. Npc' = Npc
      BY <1>5, <2>2, PosKeepsPlainNpc
    <3> QED
      BY <1>1, <2>1, <2>2, <3>1, <3>2 DEF Where, Entering, Behind
  <2>3. CASE ExVld \/ inst_data_1d_vld
    <3>1. IF ex_fetch_access THEN last = pc ELSE apc = pc
      BY <1>1, <1>5, <2>3 DEF HartInv, Where, Entering, Live
    <3>2. ~IfVld
      BY <1>5, <2>3, Completion DEF EnterEx
    <3>3. ~ExVld /\ inst_data_1d_vld => ~RetireVld
      BY <1>5 DEF Completes, ExVld, HartInv, Flags
    <3> QED
      BY <1>1, <2>1, <2>3, <3>1, <3>2, <3>3 DEF Where, Entering
  <2> QED
    BY <2>2, <2>3
<1> QED
  BY <1>2, <1>3, <1>4, <1>5

LEMMA HartInvStep ==
  ASSUME CoreFacts, HartInv, Tame, [Next]_vars
  PROVE  HartInv'
<1>1. CASE NegEdge
  BY <1>1, FlagsNeg, BusNeg, NoErrorsNeg, PursuedNeg, SelectsNeg, WhereNeg
  DEF HartInv
<1>2. CASE PosEdge
  BY <1>2, FlagsPos, BusPos, NoErrorsPos, PursuedPos, SelectsPos, WherePos
  DEF HartInv
<1>3. CASE SoftReset
  BY <1>3, HartInvReset
<1>4. CASE UNCHANGED vars
  BY <1>4, HartInvStutter
<1> QED
  BY <1>1, <1>2, <1>3, <1>4 DEF Next

---------------------------------------------------------------------------
(* Every step of the core is a step of the hart.                           *)

\* What no instruction has written, no trap entered and mret not restored.
LEMMA CsrsKept ==
  ASSUME CoreFacts, HartInv, PosEdge, ~IrqVld
  PROVE  /\ ~CsrWr("mtvec") => mtvec_mode' = mtvec_mode
         /\ ~EnterEx /\ ~CsrWr("mepc") => mepc' = mepc
         /\ ~CsrWrMnxti /\ ~ExitIrqEx => curr_clic_level' = curr_clic_level
         /\ ~CsrWr("mcause") => mpil' = mpil
<1>1. ~ClicIrqVld /\ ~TblLoaded
  BY TableAtOnce DEF IrqVld, ClicIrqVld
<1> QED
  BY <1>1 DEF PosEdge, Mtvec, Mepc, EnterIrqEx, CurrClicLevel, Mpil

\* A trap saves the program counter and disables interrupts.
LEMMA TrapEntered ==
  ASSUME PosEdge, EnterIrqEx
  PROVE  /\ mepc' = pc /\ last' = pc
         /\ mstatus_mpie' = mstatus_mie /\ mstatus_mie' = FALSE
         /\ wasmie' = FALSE
         /\ trap' = [by |-> IF IrqVld THEN "interrupt" ELSE "exception",
                     cause |-> mcause']
BY DEF PosEdge, Observe, Mepc, MstatusMie, MstatusMpie

LEMMA ClintStep ==
  ASSUME CoreFacts, HartInv, Tame, PosEdge, clint_irq_vld
  PROVE  \E line \in IrqLines : Hart!ClintInterrupt(line)
<1>1. IrqVld /\ EnterIrqEx
  BY DEF IrqVld, EnterIrqEx
<1>2. ~ExVld /\ ~npc_sel_bootaddr /\ ~inst_data_1d_vld /\ apc = pc
  BY <1>1, PosIrq
<1>3. mtvec_mode = "direct"
  BY DEF CoreFacts, PcInv, SlotsUnused
<1>4. ~ClicIrqVld /\ ~IsClic
  BY <1>3 DEF ClicIrqVld, ClicVectorVld, ClicDirectVld, ClicEnPending, IsClic
<1>5. /\ ~CsrWr("mtvec") /\ ~CsrWr("mcause") /\ ~CsrWr("mnxti")
      /\ ~CsrWrMnxti /\ ~ExitIrqEx
  BY <1>2, Idle DEF CsrOps, CsrWrMnxti
<1>6. PICK line \in IrqLines : mcause' = Irq(IrqCode[line])
  <2>1. CASE EnPending # {}
    <3>1. mcause' = Irq(IrqCode[TopLine(EnPending)])
      BY <1>2, <2>1 DEF PosEdge, Mcause, ExVld
    <3>2. TopLine(EnPending) \in IrqLines
      BY <2>1, IsaAssumption DEF TopLine, EnPending, CoreFacts, TypeOK,
         EnvTypes
    <3> QED
      BY <3>1, <3>2
  <2>2. CASE EnPending = {}
    <3>1. mcause' = mcause
      BY <1>2, <1>4, <1>5, <2>2 DEF PosEdge, Mcause, ExVld
    <3> QED
      BY <3>1 DEF HartInv, Selects
  <2> QED
    BY <2>1, <2>2
<1>7. mstatus_mie \/ wasmie
  BY DEF HartInv, Selects
<1>8. apc' = TrapBase
  BY <1>1, <1>3 DEF PosEdge, Observe, IrqTarget
<1>9. /\ mtvec_mode' = mtvec_mode /\ curr_clic_level' = curr_clic_level
      /\ mpil' = mpil
  BY <1>4, <1>5 DEF PosEdge, Mtvec, CurrClicLevel, Mpil
<1>10. Hart!EnterTrap(apc, "interrupt", Hart!Irq(Hart!IrqCode[line]))
  BY <1>1, <1>2, <1>6, <1>9, TrapEntered
  DEF Hart!EnterTrap, Hart!Irq, Hart!IrqCode, Irq, IrqCode
<1>11. Hart!ClintInterrupt(line)
  BY <1>3, <1>7, <1>8, <1>9, <1>10 DEF Hart!ClintInterrupt
<1> QED
  BY <1>11

LEMMA ClicStep ==
  ASSUME CoreFacts, HartInv, Tame, PosEdge, ~clint_irq_vld, IrqVld
  PROVE  \E id \in ClicIrqs : Hart!ClicInterrupt(id)
<1>1. ClicIrqVld /\ EnterIrqEx
  BY DEF IrqVld, EnterIrqEx
<1>2. ~ExVld /\ ~npc_sel_bootaddr /\ ~inst_data_1d_vld /\ apc = pc
  BY PosIrq
<1>3. /\ mtvec_mode = "clic" /\ IsClic /\ mstatus_mie
      /\ clic_irq \in ClicIrqs /\ Level[clic_irq] > curr_clic_level
  BY <1>1 DEF ClicIrqVld, ClicVectorVld, ClicDirectVld, ClicEnPending, IsClic,
     CoreFacts, TypeOK, EnvTypes
<1>4. ~CsrWr("mtvec")
  BY <1>2, Idle DEF CsrOps
<1>5. mcause' = Irq(clic_irq)
  BY <1>1, <1>2, <1>3 DEF PosEdge, Mcause, ExVld, EnPending
<1>6. apc' = IF clic_irq \in ShvIrqs THEN Vec[clic_irq] ELSE TrapBase
  BY DEF PosEdge, Observe, IrqTarget
<1>7. /\ mtvec_mode' = mtvec_mode /\ curr_clic_level' = Level[clic_irq]
      /\ mpil' = curr_clic_level
  BY <1>1, <1>4 DEF PosEdge, Mtvec, CurrClicLevel, Mpil
<1>8. Hart!EnterTrap(apc, "interrupt", Hart!Irq(clic_irq))
  BY <1>1, <1>2, <1>5, <1>7, TrapEntered DEF Hart!EnterTrap, Hart!Irq, Irq
<1> QED
  BY <1>3, <1>6, <1>7, <1>8 DEF Hart!ClicInterrupt

LEMMA ExceptionStep ==
  ASSUME CoreFacts, HartInv, Tame, PosEdge, ~IrqVld, EnterEx
  PROVE  \/ Hart!FetchFault
         \/ \E i \in Insns : Hart!Exception(i)
<1>1. IfVld /\ ExVld /\ ~npc_sel_bootaddr /\ EnterIrqEx
  BY DEF EnterEx, ExVld, EnterIrqEx
<1>2. ~CsrWr("mtvec") /\ ~CsrWr("mcause") /\ ~CsrWrMnxti /\ ~ExitIrqEx
  <2>1. CASE ~inst_data_1d_vld
    BY <2>1, Idle DEF CsrOps, CsrWrMnxti
  <2>2. CASE inst_data_1d_vld
    <3>1. Op \in DOMAIN ExcCode
      BY <1>1, <2>2, ExceptionOp
    <3> QED
      BY <1>1, <3>1, TrapsDoNotComplete DEF ExcCode, CsrWr, CsrWrMnxti
  <2> QED
    BY <2>1, <2>2
<1>3. /\ mtvec_mode' = mtvec_mode /\ curr_clic_level' = curr_clic_level
      /\ mpil' = mpil
  BY <1>2, CsrsKept
<1>4. apc' = TrapBase
  BY DEF PosEdge, Observe
<1>5. clk = "pos" /\ IF ex_fetch_access THEN last = pc ELSE apc = pc
  BY <1>1 DEF PosEdge, HartInv, Where, Entering
<1>6. CASE ex_fetch_access
  <2>1. mcause' = Exc(1)
    BY <1>6 DEF PosEdge, Mcause, HartInv, Flags
  <2>2. Hart!EnterTrap(last, "exception", Hart!Exc(1))
    BY <1>1, <1>3, <1>5, <1>6, <2>1, TrapEntered
    DEF Hart!EnterTrap, Hart!Exc, Exc
  <2> QED
    BY <1>3, <1>4, <2>2 DEF Hart!FetchFault
<1>7. CASE ~ex_fetch_access
  <2>1. Op \in DOMAIN ExcCode /\ inst_data_1d \in Insns
    BY <1>1, <1>7, ExceptionOp DEF HartInv, Flags
  <2>2. /\ Op = "load" => ex_load_access
        /\ Op = "store" => ex_store_access
        /\ ex_load_access => Op = "load"
        /\ ex_store_access => Op = "store"
        /\ (ex_misalign_load <=> Op = "misload")
        /\ (ex_misalign_store <=> Op = "misstore")
    BY <1>1, <1>7 DEF HartInv, Flags, ExVld
  <2>3. mcause' = Exc(ExcCode[Op])
    BY <1>7, <2>1, <2>2 DEF PosEdge, Mcause, ExcCode
  <2>4. Hart!EnterTrap(apc, "exception", Hart!Exc(Hart!ExcCode[Op]))
    BY <1>1, <1>3, <1>5, <1>7, <2>3, TrapEntered
    DEF Hart!EnterTrap, Hart!Exc, Hart!ExcCode, Exc, ExcCode
  <2>5. Hart!Exception(inst_data_1d)
    BY <1>3, <1>4, <2>1, <2>4
    DEF Hart!Exception, Hart!ExcCode, ExcCode, Op
  <2> QED
    BY <2>1, <2>5
<1> QED
  BY <1>6, <1>7

\* An instruction that completes does what its operation says.
LEMMA CompleteStep ==
  ASSUME CoreFacts, HartInv, Tame, PosEdge, Completes
  PROVE  \/ \E i \in Insns : \/ Hart!Exec(i) \/ Hart!WriteMstatus(i)
                             \/ Hart!WriteTrapRegister(i)
         \/ Hart!TrapReturn
         \/ Hart!ReadNext
<1>1. /\ inst_data_1d_vld /\ ~IrqVld /\ ~ExVld /\ ~EnterIrqEx /\ ~EnterEx
      /\ inst_data_1d \in Insns /\ apc = pc
  BY PosCompletes DEF EnterIrqEx
<1>2. \A op \in CsrOps : CsrWr(op) <=> Op = op
  BY <1>1 DEF CsrWr
<1>3. ExitIrqEx <=> Op = "mret"
  BY <1>1 DEF ExitIrqEx, RetireVld
<1>4. /\ apc' = NextOf(inst_data_1d, pc, mepc) /\ last' = pc
      /\ wasmie' = mstatus_mie /\ trap' = trap
  BY <1>1 DEF PosEdge, Observe
<1>5. Hart!Complete(NextOf(inst_data_1d, pc, mepc))
  BY <1>1, <1>4 DEF Hart!Complete
<1>6. /\ Op # "mtvec" => mtvec_mode' = mtvec_mode
      /\ Op # "mepc" => mepc' = mepc
      /\ Op \notin {"mnxti", "mret"} => curr_clic_level' = curr_clic_level
      /\ Op # "mcause" => mpil' = mpil
  BY <1>1, <1>2, <1>3, CsrsKept DEF CsrOps, CsrWrMnxti
<1>7. /\ Op \notin {"mret", "mie_on", "mie_off", "mpie_on", "mnxti"}
           => mstatus_mie' = mstatus_mie
      /\ Op \notin {"mret", "mpie_on", "mcause"}
           => mstatus_mpie' = mstatus_mpie
  BY <1>1, <1>2, <1>3
  DEF PosEdge, MstatusMie, MstatusMpie, CsrOps, CoreFacts, TypeOK, PosTypes
<1>8. /\ Op \notin {"mret", "jump"}
           => NextOf(inst_data_1d, pc, mepc) = Succ[apc]
      /\ Op = "mret" => NextOf(inst_data_1d, pc, mepc) = mepc
      /\ NextOf(inst_data_1d, pc, mepc) = Hart!NextOf(inst_data_1d, apc, mepc)
  BY <1>1 DEF NextOf, Hart!NextOf, Op
<1>9. CASE Op \in {"alu", "load", "store", "cust", "jump"}
  <2>1. Hart!Exec(inst_data_1d)
    BY <1>5, <1>6, <1>7, <1>8, <1>9 DEF Hart!Exec, Op
  <2> QED
    BY <1>1, <2>1
<1>10. CASE Op \in {"mie_on", "mie_off", "mpie_on"}
  <2>1. mstatus_mie' = (Op = "mie_on")
    BY <1>1, <1>2, <1>3, <1>10 DEF PosEdge, MstatusMie, CsrOps
  <2>2. mstatus_mpie' = (mstatus_mpie \/ Op = "mpie_on")
    BY <1>1, <1>2, <1>3, <1>10 DEF PosEdge, MstatusMpie, CsrOps
  <2>3. Hart!WriteMstatus(inst_data_1d)
    BY <1>5, <1>6, <1>8, <1>10, <2>1, <2>2 DEF Hart!WriteMstatus, Op
  <2> QED
    BY <1>1, <2>3
<1>11. CASE Op \in {"mepc", "mtvec", "mcause"}
  <2>1. mepc' = IF Op = "mepc" THEN inst_data_1d.arg ELSE mepc
    BY <1>1, <1>2, <1>6, TableAtOnce
    DEF PosEdge, Mepc, CsrOps, IrqVld, ClicIrqVld
  <2>2. mtvec_mode' = IF Op = "mtvec" THEN inst_data_1d.arg ELSE mtvec_mode
    BY <1>2 DEF PosEdge, Mtvec, CsrOps
  <2>3. IF Op = "mcause" /\ mtvec_mode = "clic"
          THEN mstatus_mpie' = TRUE /\ mpil' = 0
          ELSE mstatus_mpie' = mstatus_mpie /\ mpil' = mpil
    BY <1>1, <1>2, <1>3, <1>11
    DEF PosEdge, MstatusMpie, Mpil, IsClic, IrqVld, ClicIrqVld, CsrOps,
        CoreFacts, TypeOK, PosTypes
  <2>4. Hart!WriteTrapRegister(inst_data_1d)
    BY <1>5, <1>6, <1>7, <1>8, <1>11, <2>1, <2>2, <2>3
    DEF Hart!WriteTrapRegister, Op
  <2> QED
    BY <1>1, <2>4
<1>12. CASE Op = "mret"
  <2>1. /\ mstatus_mie' = mstatus_mpie /\ mstatus_mpie' = TRUE
        /\ curr_clic_level' = mpil
    BY <1>1, <1>3, <1>12
    DEF PosEdge, MstatusMie, MstatusMpie, CurrClicLevel, IrqVld, CsrWrMnxti,
        CsrWr
  <2> QED
    BY <1>5, <1>6, <1>8, <1>12, <2>1 DEF Hart!TrapReturn
<1>13. CASE Op = "mnxti"
  <2>1. mstatus_mie' = (mstatus_mie \/ mtvec_mode = "clic")
    BY <1>1, <1>2, <1>3, <1>13 DEF PosEdge, MstatusMie, CsrOps, IsClic
  <2>2. \/ curr_clic_level' = curr_clic_level
        \/ /\ mtvec_mode = "clic"
           /\ \E id \in ClicIrqs \ ShvIrqs :
                Level[id] > mpil /\ curr_clic_level' = Level[id]
    <3>1. CASE CsrWrMnxti
      BY <3>1 DEF PosEdge, CurrClicLevel, CsrWrMnxti, MnxtiVld, IsClic,
         CoreFacts, TypeOK, EnvTypes
    <3>2. CASE ~CsrWrMnxti
      BY <1>1, <1>3, <1>13, <3>2, CsrsKept
    <3> QED
      BY <3>1, <3>2
  <2> QED
    BY <1>5, <1>6, <1>7, <1>8, <1>13, <2>1, <2>2 DEF Hart!ReadNext
<1> QED
  <2>1. Op \in {"alu", "load", "store", "cust", "jump", "mret"} \cup CsrOps
    BY DEF Completes, RetireVld, RetireEei, EeiReq
  <2> QED
    BY <1>9, <1>10, <1>11, <1>12, <1>13, <2>1 DEF CsrOps

\* Without an interrupt, a trap or a completion, software sees nothing.
LEMMA QuietStep ==
  ASSUME CoreFacts, HartInv, PosEdge, ~IrqVld, ~EnterEx, ~Completes
  PROVE  UNCHANGED Hart!hartVars
<1>1. ~EnterIrqEx
  BY DEF EnterIrqEx
<1>2. apc' = apc /\ last' = last /\ wasmie' = wasmie /\ trap' = trap
  BY <1>1 DEF PosEdge, Observe
<1>3. ~ExitIrqEx /\ \A op \in CsrOps : ~CsrWr(op)
  BY DEF Completes, ExitIrqEx, CsrWr, RetireVld, CsrOps
<1>4. /\ mtvec_mode' = mtvec_mode /\ mepc' = mepc
      /\ curr_clic_level' = curr_clic_level /\ mpil' = mpil
  BY <1>3, CsrsKept DEF CsrOps, CsrWrMnxti
<1>5. mstatus_mie' = mstatus_mie /\ mstatus_mpie' = mstatus_mpie
  BY <1>1, <1>3
  DEF PosEdge, MstatusMie, MstatusMpie, CsrOps, CoreFacts, TypeOK, PosTypes
<1> QED
  BY <1>2, <1>4, <1>5 DEF Hart!hartVars

LEMMA HartStep ==
  ASSUME CoreFacts, HartInv, Tame, [Next]_vars
  PROVE  [Hart!HartNext]_(Hart!hartVars)
<1>1. CASE NegEdge
  BY <1>1 DEF NegEdge, posVars, csrVars, clicVars, ghostVars, Hart!hartVars
<1>2. CASE PosEdge
  <2>1. CASE clint_irq_vld
    BY <1>2, <2>1, ClintStep DEF Hart!HartNext
  <2>2. CASE ~clint_irq_vld /\ IrqVld
    BY <1>2, <2>2, ClicStep DEF Hart!HartNext
  <2>3. CASE ~IrqVld /\ EnterEx
    BY <1>2, <2>3, ExceptionStep DEF Hart!HartNext
  <2>4. CASE Completes
    BY <1>2, <2>4, CompleteStep DEF Hart!HartNext
  <2>5. CASE ~IrqVld /\ ~EnterEx /\ ~Completes
    BY <1>2, <2>5, QuietStep
  <2> QED
    BY <2>1, <2>2, <2>3, <2>4, <2>5
<1>3. CASE SoftReset
  <2>1. Hart!Reset
    BY <1>3 DEF SoftReset, Hart!Reset, NoTrap, Hart!NoTrap, Exc, Hart!Exc
  <2> QED
    BY <2>1 DEF Hart!HartNext
<1>4. CASE UNCHANGED vars
  BY <1>4 DEF vars, posVars, csrVars, clicVars, ghostVars, Hart!hartVars
<1> QED
  BY <1>1, <1>2, <1>3, <1>4 DEF Next

\* The core implements the hart that software is written for, for every
\* program, every memory and every interrupt source that Tame allows.
THEOREM CoreImplementsHart ==
  ASSUME Tame
  PROVE  Spec => ImplementsHart
<1> DEFINE Inv == CoreFacts /\ HartInv
<1>1. Init => Inv /\ Hart!HartInit
  <2> SUFFICES ASSUME Init PROVE Inv /\ Hart!HartInit
    OBVIOUS
  <2>1. NoSlots
    BY DEF Tame
  <2>2. Hart!HartInit
    BY DEF Init, Hart!HartInit, NoTrap, Hart!NoTrap, Exc, Hart!Exc
  <2> QED
    BY <2>1, <2>2, TypeInit, FetchInit, PcInit, LsuInit, HartInvInit
    DEF CoreFacts
<1>2. Inv /\ [Next]_vars => Inv' /\ [Hart!HartNext]_(Hart!hartVars)
  <2> SUFFICES ASSUME Inv, [Next]_vars
               PROVE  Inv' /\ [Hart!HartNext]_(Hart!hartVars)
    OBVIOUS
  <2>1. /\ NoSlots /\ "wait" \notin TblAnswers
        /\ \A i \in ExtInsns : ~MemOp(i)
    BY DEF Tame, Blank
  <2>2. TypeOK /\ FetchInv /\ PcInv /\ LsuInv
    BY DEF CoreFacts
  <2>3. TypeOK'
    BY <2>2, TypeNeg, TypePos, TypeReset, TypeStutter DEF Next
  <2>4. FetchInv'
    BY <2>2, FetchNeg, FetchPos, FetchReset, FetchStutter DEF Next
  <2>5. PcInv'
    BY <2>1, <2>2, PcNeg, PcPos, PcReset, PcStutter DEF Next
  <2>6. LsuInv'
    BY <2>1, <2>2, LsuStep
  <2>7. HartInv' /\ [Hart!HartNext]_(Hart!hartVars)
    BY HartInvStep, HartStep
  <2> QED
    BY <2>3, <2>4, <2>5, <2>6, <2>7 DEF CoreFacts
<1> HIDE DEF Inv
<1> QED
  BY <1>1, <1>2, PTL DEF Spec, ImplementsHart, Hart!HartSpec
=============================================================================
