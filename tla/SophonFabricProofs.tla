------------------------- MODULE SophonFabricProofs -------------------------
(***************************************************************************)
(* Proofs about SophonFabric, for every set of words and values, every     *)
(* reset delay and, where it says so, every moment of a soft reset.        *)
(*                                                                         *)
(* The second part shows that the fabric serves its ports as MemoryPorts   *)
(* says, for every memory map and every number of words, while a reset     *)
(* comes in quiet moments. An edge is taken port by port: what each of     *)
(* them sees before and after, and what happens to the memories.           *)
(***************************************************************************)
EXTENDS SophonFabric, TLAPS

\* A record that is a request, or none, has the fields of a request.
LEMMA RequestFields ==
  ASSUME NEW A, NEW W, NEW r \in Request(A, W) \cup {NoReq}
  PROVE  /\ r.req \in BOOLEAN /\ r.wr \in BOOLEAN
         /\ r.req => r \in Request(A, W) /\ r.addr \in A
         /\ ~r.req => r = NoReq
         /\ r.req /\ r.wr => r.data \in W
<1>1. CASE r \in [req : {TRUE}, addr : A, wr : {FALSE}, data : {None}]
  BY <1>1 DEF Request
<1>2. CASE r \in [req : {TRUE}, addr : A, wr : {TRUE}, data : W]
  BY <1>2 DEF Request
<1>3. CASE r = NoReq
  BY <1>3 DEF NoReq
<1> QED BY <1>1, <1>2, <1>3 DEF Request

LEMMA FetchFields ==
  ASSUME fetch \in FetchReqs \cup {NoFetch}
  PROVE  /\ fetch.req \in BOOLEAN
         /\ fetch.req => fetch.addr \in FetchWords \cup Outside
<1>1. CASE fetch \in FetchReqs
  BY <1>1 DEF FetchReqs, FetchWords
<1>2. CASE fetch = NoFetch
  BY <1>2 DEF NoFetch
<1> QED BY <1>1, <1>2

\* The flags of the type invariant, one by one.
LEMMA Flags ==
  ASSUME TypeOK
  PROVE  /\ inst_pos_req \in BOOLEAN /\ inst_pos_ack_toneg \in BOOLEAN
         /\ inst_neg_ack_topos \in BOOLEAN
         /\ inst_neg_brom_ack_topos \in BOOLEAN
         /\ ext_itcm_req_neg \in BOOLEAN /\ ext_itcm_req_neg_1d \in BOOLEAN
         /\ ext_pending \in BOOLEAN /\ ext_2ch_ack_toneg \in BOOLEAN
         /\ lsu_pending \in BOOLEAN /\ lsu_2ch_ack_toneg \in BOOLEAN
         /\ pending \in BOOLEAN /\ p_valid \in BOOLEAN
         /\ mem_rd_1d \in BOOLEAN /\ is_ext_inst_pending \in BOOLEAN
         /\ q_valid \in BOOLEAN /\ is_ext_data_pending \in BOOLEAN
         /\ ext_reads \in BOOLEAN /\ ext_p_ready \in BOOLEAN
BY DEF TypeOK

\* The requests of the type invariant, by their fields.
LEMMA Requests ==
  ASSUME TypeOK
  PROVE  /\ fetch.req \in BOOLEAN
         /\ fetch.req => fetch.addr \in FetchWords \cup Outside
         /\ lsu.req \in BOOLEAN /\ lsu.wr \in BOOLEAN
         /\ lsu.req => lsu.addr \in Dtcm \cup ExtData \cup Outside
         /\ ~lsu.req => lsu = NoReq
         /\ lsu.req /\ lsu.wr => lsu.data \in CoreData
         /\ ext_q.req \in BOOLEAN /\ ext_q.wr \in BOOLEAN
         /\ ext_q.req => ext_q.addr \in Itcm \cup Dtcm \cup Outside
         /\ ext_q.req /\ ext_q.wr => ext_q.data \in MasterData
         /\ ext_2ch.req \in BOOLEAN /\ ext_2ch.wr \in BOOLEAN
         /\ ext_2ch.req => ext_2ch.addr \in Dtcm
         /\ ext_2ch.req /\ ext_2ch.wr => ext_2ch.data \in MasterData
         /\ lsu_2ch.req \in BOOLEAN /\ lsu_2ch.wr \in BOOLEAN
         /\ lsu_2ch.req => lsu_2ch.addr \in ExtData
         /\ lsu_2ch.req /\ lsu_2ch.wr => lsu_2ch.data \in CoreData
         /\ axi.inst_ready \in BOOLEAN /\ axi.inst_valid \in BOOLEAN
         /\ axi.data_ready \in BOOLEAN /\ axi.data_valid \in BOOLEAN
         /\ axi.data \in Values
<1>1. fetch.req \in BOOLEAN
      /\ (fetch.req => fetch.addr \in FetchWords \cup Outside)
  BY FetchFields DEF TypeOK
<1>2. lsu \in Request(Dtcm \cup ExtData \cup Outside, CoreData) \cup {NoReq}
  BY DEF TypeOK, LsuReqs
<1>3. ext_q \in Request(Itcm \cup Dtcm \cup Outside, MasterData) \cup {NoReq}
  BY DEF TypeOK, ExtReqs
<1>4. ext_2ch \in Request(Dtcm, MasterData) \cup {NoReq}
      /\ lsu_2ch \in Request(ExtData, CoreData) \cup {NoReq}
  BY DEF TypeOK
<1>5. axi \in [inst_ready : BOOLEAN, inst_valid : BOOLEAN,
               data_ready : BOOLEAN, data_valid : BOOLEAN, data : Values]
  BY DEF TypeOK
<1> HIDE DEF TypeOK
<1> QED BY <1>1, <1>2, <1>3, <1>4, <1>5, RequestFields

\* The combinational signals are truth values.
LEMMA Signals ==
  ASSUME TypeOK
  PROVE  /\ FetchAck \in BOOLEAN /\ CoreItcmAck \in BOOLEAN
         /\ CoreItcmReq \in BOOLEAN /\ CoreBromReq \in BOOLEAN
         /\ MemReq \in BOOLEAN /\ ExtItcmReq \in BOOLEAN
         /\ ExtAck \in BOOLEAN /\ MemCs \in BOOLEAN /\ QReady \in BOOLEAN
         /\ LsuAck \in BOOLEAN /\ DataAck \in BOOLEAN
         /\ CoreDtcmReq \in BOOLEAN /\ DataHandshake \in BOOLEAN
BY Flags, Requests
DEF FetchAck, CoreItcmAck, CoreItcmReq, CoreBromReq, MemReq, ExtItcmReq,
    ExtAck, MemCs, QReady, LsuAck, DataAck, CoreDtcmReq, DataHandshake,
    ItcmStall, ExtItcmCs1d, CoreDtcmAck

LEMMA Narrow ==
  ASSUME NEW A, NEW B, NEW W, NEW r \in Request(A, W) \cup {NoReq},
         r.req, r.addr \in B
  PROVE  r \in Request(B, W)
<1>1. CASE r \in [req : {TRUE}, addr : A, wr : {FALSE}, data : {None}]
  BY <1>1 DEF Request
<1>2. CASE r \in [req : {TRUE}, addr : A, wr : {TRUE}, data : W]
  BY <1>2 DEF Request
<1>3. CASE r = NoReq
  BY <1>3 DEF NoReq
<1> QED BY <1>1, <1>2, <1>3 DEF Request

---------------------------------------------------------------------------
(* Types.                                                                  *)

LEMMA TypeInit == Init => TypeOK
<1> SUFFICES ASSUME Init PROVE TypeOK
  OBVIOUS
<1>1. /\ itcm \in [Itcm -> Data] /\ dtcm \in [Dtcm -> Data]
      /\ xmem \in [ExtData -> Data]
  BY FabricAssumption DEF Init
<1>2. rst_cnt \in 0..RstDelay
  BY FabricAssumption DEF Init
<1>3. axi \in [inst_ready : BOOLEAN, inst_valid : BOOLEAN,
               data_ready : BOOLEAN, data_valid : BOOLEAN, data : Values]
  BY DEF Init, Values
<1>4. /\ {itcm_rdata, dtcm_rdata, data_rdata_toneg, mem_rdata_q,
          axi_mem_rdata} \subseteq Values
      /\ {inst_pos_addr, inst_pos_data_1d, q_addr} \subseteq ExtInst \cup {None}
      /\ brom_rdata \in Brom \cup {None}
      /\ cnt_ext_itcm_req \in 0..3
  BY DEF Init, Values
<1>5. /\ ext_2ch \in Request(Dtcm, MasterData) \cup {NoReq}
      /\ lsu_2ch \in Request(ExtData, CoreData) \cup {NoReq}
      /\ ext_q \in ExtReqs \cup {NoReq}
      /\ fetch \in FetchReqs \cup {NoFetch}
      /\ lsu \in LsuReqs \cup {NoReq}
  BY DEF Init
<1>6. {inst_pos_req, inst_pos_ack_toneg, inst_neg_ack_topos,
       inst_neg_brom_ack_topos, ext_itcm_req_neg, ext_itcm_req_neg_1d,
       ext_pending, ext_2ch_ack_toneg, lsu_pending, lsu_2ch_ack_toneg,
       pending, p_valid, mem_rd_1d, is_ext_inst_pending, q_valid,
       is_ext_data_pending, ext_reads, ext_p_ready} \subseteq BOOLEAN
  BY DEF Init
<1>7. clk \in {"neg", "pos"}
  BY DEF Init
<1> QED BY <1>1, <1>2, <1>3, <1>4, <1>5, <1>6, <1>7 DEF TypeOK

\* What an external access reads, or finds in the ITCM, is a value.
LEMMA TypeNegEdge ==
  ASSUME TypeOK, NegEdge
  PROVE  TypeOK'
<1>1. dtcm' \in [Dtcm -> Data] /\ dtcm_rdata' \in Values
  <2>1. LowWord(Dtcm) \in Dtcm
    BY FabricAssumption DEF LowWord
  <2>2. CASE ~ext_2ch.req /\ ~CoreDtcmReq
    BY <2>2 DEF NegEdge, DtcmNeg, TypeOK, Values
  <2>3. CASE ext_2ch.req
    <3>1. ext_2ch.addr \in Dtcm /\ (ext_2ch.wr => ext_2ch.data \in Data)
      BY <2>3, Requests, FabricAssumption
    <3> QED BY <2>3, <3>1 DEF NegEdge, DtcmNeg, TypeOK, Values
  <2>4. CASE ~ext_2ch.req /\ CoreDtcmReq
    <3> DEFINE acc == CoreDtcm
    <3>1. acc.addr \in Dtcm /\ (acc.wr => acc.data \in Data)
      BY <2>1, <2>4, Requests, FabricAssumption
      DEF CoreDtcm, CoreDtcmReq, NoReq
    <3>2. IF acc.wr
            THEN /\ dtcm' = [dtcm EXCEPT ![acc.addr] = acc.data]
                 /\ dtcm_rdata' = None
            ELSE dtcm_rdata' = dtcm[acc.addr] /\ dtcm' = dtcm
      BY <2>4 DEF NegEdge, DtcmNeg
    <3> HIDE DEF acc
    <3> QED BY <3>1, <3>2 DEF TypeOK, Values
  <2> QED BY <2>2, <2>3, <2>4
<1>2. fetch' \in FetchReqs \cup {NoFetch}
  BY DEF NegEdge, CoreNeg, TypeOK
<1>3. rst_cnt' \in 0..RstDelay
  BY FabricAssumption DEF NegEdge, CoreNeg, TypeOK
<1>4. /\ ext_itcm_req_neg' \in BOOLEAN /\ ext_itcm_req_neg_1d' \in BOOLEAN
      /\ inst_pos_ack_toneg' \in BOOLEAN /\ ext_2ch_ack_toneg' \in BOOLEAN
      /\ lsu_2ch_ack_toneg' \in BOOLEAN /\ data_rdata_toneg' \in Values
  BY Flags, Requests, Signals
  DEF NegEdge, ItcmMask, DemuxNeg, InstPosAck, Values
<1>5. UNCHANGED posVars
  BY DEF NegEdge
<1>6. clk' = "pos"
  BY DEF NegEdge
<1> QED
  BY <1>1, <1>2, <1>3, <1>4, <1>5, <1>6
  DEF TypeOK, posVars, instPosVars, itcmVars, demuxPosVars, reqrspVars,
      bridgeVars, envVars

LEMMA TypePosEdge ==
  ASSUME TypeOK, MasterInv, PosEdge
  PROVE  TypeOK'
<1>1. itcm' \in [Itcm -> Data] /\ itcm_rdata' \in Values
  <2>1. ExtItcmCs \/ CoreItcmAck => ItcmAddr \in Itcm
    <3>1. LowWord(Itcm) \in Itcm
      BY FabricAssumption DEF LowWord
    <3>2. ExtItcmCs => ext_q.addr \in Itcm
      BY DEF ExtItcmCs, MasterInv, ExtItcmReq
    <3> QED BY <3>1, <3>2 DEF ItcmAddr, CoreItcmAck, CoreItcmReq
  <2>2. ext_q.req /\ ext_q.wr => ext_q.data \in Data
    BY Requests, FabricAssumption
  <2>3. CASE ExtItcmCs /\ MemReq /\ ext_q.wr /\ ~ext_2ch.req
    BY <2>1, <2>2, <2>3 DEF PosEdge, ItcmPos, TypeOK, Values, MemReq
  <2>4. CASE ~(ExtItcmCs /\ MemReq /\ ext_q.wr /\ ~ext_2ch.req)
    BY <2>1, <2>4 DEF PosEdge, ItcmPos, TypeOK, Values
  <2> QED BY <2>3, <2>4
<1>2. xmem' \in [ExtData -> Data]
  <2>1. DataHandshake /\ lsu_2ch.wr =>
          lsu_2ch.addr \in ExtData /\ lsu_2ch.data \in Data
    BY Requests, FabricAssumption DEF DataHandshake
  <2> QED BY <2>1 DEF PosEdge, AxiPos, TypeOK
<1>3. axi' \in [inst_ready : BOOLEAN, inst_valid : BOOLEAN,
                data_ready : BOOLEAN, data_valid : BOOLEAN, data : Values]
  <2>1. DataHandshake => xmem[lsu_2ch.addr] \in Values
    BY Requests DEF DataHandshake, TypeOK, Values
  <2>2. axi.data \in Values /\ None \in Values
    BY Requests DEF Values
  <2> QED BY <2>1, <2>2 DEF PosEdge, AxiPos
<1>4. /\ ext_2ch' \in Request(Dtcm, MasterData) \cup {NoReq}
      /\ lsu_2ch' \in Request(ExtData, CoreData) \cup {NoReq}
  <2>1. MemReq /\ ext_q.addr \in Dtcm => ext_q \in Request(Dtcm, MasterData)
    BY Narrow DEF MemReq, TypeOK, ExtReqs
  <2>2. lsu.req /\ lsu.addr \in ExtData => lsu \in Request(ExtData, CoreData)
    BY Narrow DEF TypeOK, LsuReqs
  <2> QED BY <2>1, <2>2 DEF PosEdge, ExtDemuxPos, Lsu2ch, TypeOK
<1>5. lsu' \in LsuReqs \cup {NoReq} /\ ext_q' \in ExtReqs \cup {NoReq}
  BY DEF PosEdge, CorePos, MasterPos, TypeOK
<1>6. /\ inst_pos_req' \in BOOLEAN /\ inst_neg_ack_topos' \in BOOLEAN
      /\ inst_neg_brom_ack_topos' \in BOOLEAN
      /\ inst_pos_addr' \in ExtInst \cup {None}
      /\ inst_pos_data_1d' \in ExtInst \cup {None}
      /\ brom_rdata' \in Brom \cup {None}
  BY Flags, Requests, Signals
  DEF PosEdge, InstDemuxPos, BromPos, InstPosAck, FetchWords, CoreBromReq,
      TypeOK
<1>7. /\ ext_pending' \in BOOLEAN /\ lsu_pending' \in BOOLEAN
      /\ pending' \in BOOLEAN /\ p_valid' \in BOOLEAN
      /\ mem_rd_1d' \in BOOLEAN
  BY Flags, Requests, Signals
  DEF PosEdge, ExtDemuxPos, LsuPending, ReqrspToMem, Pending
<1>8. mem_rdata_q' \in Values /\ axi_mem_rdata' \in Values
  <2>1. {None, itcm_rdata, dtcm_rdata, mem_rdata_q, axi_mem_rdata}
          \subseteq Values
    BY DEF TypeOK, Values
  <2> QED BY <2>1 DEF PosEdge, ReqrspToMem, ExtRdata
<1>9. is_ext_inst_pending' \in BOOLEAN /\ q_valid' \in BOOLEAN
  BY Flags, Requests DEF PosEdge, InstBridge, InstPosAck
<1>10. is_ext_data_pending' \in BOOLEAN
  BY Flags, Signals DEF PosEdge, DataBridge
<1>11. q_addr' \in ExtInst \cup {None}
  BY DEF PosEdge, InstBridge, TypeOK
<1>12. ext_reads' \in BOOLEAN /\ ext_p_ready' \in BOOLEAN
  BY <1>7, Flags, Requests DEF PosEdge, MasterPos
<1>13. cnt_ext_itcm_req' \in 0..3
  BY DEF PosEdge, CountExtItcmReq, TypeOK
<1>14. UNCHANGED negVars /\ clk' = "neg"
  BY DEF PosEdge
<1> QED
  BY <1>1, <1>2, <1>3, <1>4, <1>5, <1>6, <1>7, <1>8, <1>9, <1>10, <1>11,
     <1>12, <1>13, <1>14
  DEF TypeOK, negVars, maskVars, demuxNegVars, dtcmVars

LEMMA TypeSoftReset ==
  ASSUME TypeOK, SoftReset
  PROVE  TypeOK'
BY FabricAssumption
DEF SoftReset, TypeOK, instPosVars, itcmVars, maskVars, demuxPosVars,
    demuxNegVars, dtcmVars, reqrspVars, bridgeVars, envVars

LEMMA TypeStutter ==
  ASSUME TypeOK, UNCHANGED vars
  PROVE  TypeOK'
BY DEF TypeOK, vars, posVars, negVars, instPosVars, itcmVars, maskVars,
       demuxPosVars, demuxNegVars, dtcmVars, reqrspVars, bridgeVars, envVars

---------------------------------------------------------------------------
(* The external access port.                                               *)

LEMMA MasterInvInit == Init => MasterInv
BY DEF Init, MasterInv, NoReq, ExtItcmReq, MemReq

\* A request is kept while it is not acknowledged.
LEMMA RequestKept ==
  ASSUME TypeOK, PosEdge, MemReq, ~ExtAck
  PROVE  ext_q' = ext_q /\ ~pending'
BY Flags, Signals
DEF PosEdge, MasterPos, ReqrspToMem, Pending, MemReq, MemCs, QReady

\* The mask is set before the count asks for the memory, and the count has
\* left the memory before the request can change.
LEMMA MasterInvPosEdge ==
  ASSUME TypeOK, MasterInv, PosEdge
  PROVE  MasterInv'
<1>1. (pending <=> p_valid)'
  BY Flags, Signals DEF PosEdge, ReqrspToMem, Pending, MasterInv
<1>2. (ext_2ch.req => MemReq /\ ext_2ch = ext_q)'
  <2> SUFFICES ASSUME ext_2ch'.req
               PROVE  MemReq' /\ ext_2ch' = ext_q'
    OBVIOUS
  <2>1. ~ext_2ch.req /\ MemReq /\ ext_q.addr \in Dtcm /\ ext_2ch' = ext_q
    BY Requests DEF PosEdge, ExtDemuxPos, NoReq, MasterInv
  <2>2. ~ExtItcmReq
    BY <2>1, FabricAssumption DEF ExtItcmReq
  <2>3. ~ExtAck
    BY <2>1, <2>2 DEF ExtAck, MasterInv
  <2> QED BY <2>1, <2>3, RequestKept DEF MemReq
<1>3. (ext_pending => MemReq /\ (ext_q.addr \in Dtcm => ext_2ch.req))'
  <2> SUFFICES ASSUME ext_pending'
               PROVE  MemReq' /\ (ext_q'.addr \in Dtcm => ext_2ch'.req)
    OBVIOUS
  <2>1. MemReq /\ ~ExtAck
    BY Signals DEF PosEdge, ExtDemuxPos, MasterInv
  <2>2. ext_q' = ext_q /\ MemReq'
    BY <2>1, RequestKept DEF MemReq
  <2>3. ~ext_2ch.req
    <3>1. ext_2ch.req => ext_q.addr \in Dtcm
      BY Requests DEF MasterInv
    <3>2. ext_q.addr \in Dtcm => ~ExtItcmReq
      BY FabricAssumption DEF ExtItcmReq
    <3> QED BY <2>1, <3>1, <3>2 DEF ExtAck
  <2> QED BY <2>1, <2>2, <2>3 DEF PosEdge, ExtDemuxPos, MemReq
<1>4. (cnt_ext_itcm_req \in {1, 2} => ExtItcmReq /\ ext_itcm_req_neg)'
  <2> SUFFICES ASSUME cnt_ext_itcm_req' \in {1, 2}
               PROVE  ExtItcmReq' /\ ext_itcm_req_neg'
    OBVIOUS
  <2>1. ExtItcmReq /\ cnt_ext_itcm_req \in {0, 1}
    BY DEF PosEdge, CountExtItcmReq, TypeOK
  <2>2. MemReq /\ ~ExtAck
    BY <2>1 DEF ExtItcmReq, ExtAck, ExtItcmCs1d
  <2>3. ext_itcm_req_neg'
    BY <2>1 DEF PosEdge, MasterInv, negVars, maskVars
  <2> QED BY <2>1, <2>2, <2>3, RequestKept DEF ExtItcmReq, MemReq
<1>5. (cnt_ext_itcm_req = 3 => pending)'
  <2> SUFFICES ASSUME cnt_ext_itcm_req' = 3
               PROVE  pending'
    OBVIOUS
  <2>1. ExtItcmReq /\ cnt_ext_itcm_req = 2
    BY DEF PosEdge, CountExtItcmReq, TypeOK
  <2> QED BY <2>1
      DEF PosEdge, ReqrspToMem, Pending, MemCs, ExtItcmReq, ExtAck,
          ExtItcmCs1d
<1>6. (cnt_ext_itcm_req = 2 => ~ext_2ch_ack_toneg)'
  <2> SUFFICES ASSUME cnt_ext_itcm_req' = 2
               PROVE  ~ext_2ch_ack_toneg'
    OBVIOUS
  <2>1. ExtItcmReq
    BY DEF PosEdge, CountExtItcmReq
  <2>2. ~ext_2ch.req
    BY <2>1, Requests, FabricAssumption DEF MasterInv, ExtItcmReq
  <2> QED BY <2>2 DEF PosEdge, MasterInv, negVars, demuxNegVars
<1>7. clk' = "neg"
  BY DEF PosEdge
<1> QED BY <1>1, <1>2, <1>3, <1>4, <1>5, <1>6, <1>7 DEF MasterInv

LEMMA MasterInvNext ==
  ASSUME TypeOK, MasterInv, [Next]_vars
  PROVE  MasterInv'
<1>1. CASE NegEdge
  <2>1. UNCHANGED <<pending, p_valid, ext_2ch, ext_q, ext_pending,
                    cnt_ext_itcm_req>>
    BY <1>1 DEF NegEdge, posVars, itcmVars, demuxPosVars, reqrspVars, envVars
  <2>2. ext_itcm_req_neg' = ExtItcmReq /\ ext_2ch_ack_toneg' = ext_2ch.req
    BY <1>1 DEF NegEdge, ItcmMask, DemuxNeg
  <2>3. cnt_ext_itcm_req = 2 => ~ext_2ch.req
    BY Requests, FabricAssumption DEF MasterInv, ExtItcmReq
  <2> QED BY <2>1, <2>2, <2>3, Requests, Signals
          DEF MasterInv, MemReq, ExtItcmReq
<1>2. CASE PosEdge
  BY <1>2, MasterInvPosEdge
<1>3. CASE SoftReset
  BY <1>3
  DEF SoftReset, MasterInv, MemReq, ExtItcmReq, itcmVars, maskVars,
      demuxPosVars, demuxNegVars, reqrspVars, envVars
<1>4. CASE UNCHANGED vars
  BY <1>4
  DEF vars, MasterInv, MemReq, ExtItcmReq, posVars, negVars, itcmVars,
      maskVars, demuxPosVars, demuxNegVars, reqrspVars, envVars
<1> QED BY <1>1, <1>2, <1>3, <1>4 DEF Next

\* Types and the master's side do not depend on when the core is reset.
THEOREM TypesAndMaster == Spec => [](TypeOK /\ MasterInv)
<1>1. Init => TypeOK /\ MasterInv
  BY TypeInit, MasterInvInit
<1>2. TypeOK /\ MasterInv /\ [Next]_vars => TypeOK' /\ MasterInv'
  BY TypeNegEdge, TypePosEdge, TypeSoftReset, TypeStutter, MasterInvNext
  DEF Next
<1> QED BY <1>1, <1>2, PTL DEF Spec

---------------------------------------------------------------------------
(* The core's side, reset only while nothing of it is on its way outside.  *)

LEMMA CoreInvInit == Init => FetchInv /\ LsuInv /\ FetchGetsItsWord
BY DEF Init, FetchInv, LsuInv, FetchGetsItsWord, FetchAck, NoReq, NoFetch

\* The fetch waits for as long as its request or its answer is on its way.
LEMMA FetchInvPosEdge ==
  ASSUME TypeOK, FetchInv, PosEdge
  PROVE  FetchInv'
<1>1. fetch' = fetch /\ clk' = "neg" /\ inst_pos_ack_toneg' = axi.inst_valid
  BY Flags, Requests
  DEF PosEdge, negVars, demuxNegVars, FetchInv
<1>2. inst_pos_req' => /\ ~axi.inst_valid /\ fetch.req
                       /\ fetch.addr \in ExtInst /\ inst_pos_addr' = fetch.addr
  BY DEF PosEdge, InstDemuxPos, InstPosAck
<1>3. q_valid' \/ is_ext_inst_pending' =>
        inst_pos_req' /\ q_addr' = inst_pos_addr'
  <2> SUFFICES ASSUME q_valid' \/ is_ext_inst_pending'
               PROVE  inst_pos_req' /\ q_addr' = inst_pos_addr'
    OBVIOUS
  <2>1. /\ ~axi.inst_valid
        /\ inst_pos_req \/ q_valid \/ is_ext_inst_pending
    BY DEF PosEdge, InstBridge, InstPosAck, FetchInv
  <2>2. inst_pos_req /\ inst_pos_req' /\ inst_pos_addr' = inst_pos_addr
    BY <2>1 DEF PosEdge, InstDemuxPos, InstPosAck, FetchInv
  <2>3. q_addr' = inst_pos_addr
    BY <2>1, <2>2 DEF PosEdge, InstBridge, InstPosAck, FetchInv
  <2> QED BY <2>2, <2>3
<1>4. ~(q_valid' /\ is_ext_inst_pending')
  BY DEF PosEdge, InstBridge, InstPosAck, FetchInv
<1>5. axi'.inst_valid => is_ext_inst_pending'
  BY DEF PosEdge, AxiPos
<1>6. inst_pos_ack_toneg' => ~inst_pos_req'
  BY <1>1, <1>2
<1> QED BY <1>1, <1>2, <1>3, <1>4, <1>5, <1>6 DEF FetchInv

LEMMA FetchInvNegEdge ==
  ASSUME TypeOK, FetchInv, NegEdge
  PROVE  FetchInv'
<1>1. UNCHANGED posVars /\ clk' = "pos"
  BY DEF NegEdge
<1>2. inst_pos_ack_toneg' = axi.inst_valid
  BY DEF NegEdge, DemuxNeg, InstPosAck
<1>3. inst_pos_req => fetch' = fetch
  <2> SUFFICES ASSUME inst_pos_req PROVE fetch' = fetch
    OBVIOUS
  <2>1. fetch.req /\ fetch.addr \in ExtInst /\ ~inst_pos_ack_toneg
    BY DEF FetchInv, NegEdge
  <2> QED BY <2>1 DEF NegEdge, CoreNeg, FetchAck
<1> QED BY <1>1, <1>2, <1>3 
        DEF FetchInv, posVars, instPosVars, bridgeVars, envVars

\* An access outside is kept by the core until the bus has answered.
LEMMA LsuInvPosEdge ==
  ASSUME TypeOK, LsuInv, PosEdge
  PROVE  LsuInv'
<1>1. lsu.req /\ ~LsuAck => lsu' = lsu
  BY DEF PosEdge, CorePos
<1>2. lsu_2ch.req => lsu.addr \in ExtData /\ lsu.req
  BY Requests DEF LsuInv
<1>3. lsu.addr \in ExtData => ~CoreDtcmReq
  BY FabricAssumption DEF CoreDtcmReq
<1>4. lsu.req /\ lsu.addr \in ExtData /\ ~DataAck =>
        ~LsuAck /\ lsu_2ch' = lsu /\ lsu' = lsu
  <2> SUFFICES ASSUME lsu.req, lsu.addr \in ExtData, ~DataAck
               PROVE  ~LsuAck /\ lsu_2ch' = lsu
    BY <1>1
  <2>1. ~LsuAck
    BY <1>3, Flags DEF LsuAck, LsuInv
  <2> QED BY <2>1 DEF PosEdge, Lsu2ch
<1>5. (lsu_2ch.req => lsu_2ch = lsu)'
  <2> SUFFICES ASSUME lsu_2ch'.req PROVE lsu_2ch' = lsu'
    OBVIOUS
  <2>1. ~DataAck /\ lsu.req /\ lsu.addr \in ExtData
    BY <1>2 DEF PosEdge, Lsu2ch, NoReq
  <2> QED BY <1>4, <2>1
<1>6. lsu_pending' => lsu.req /\ ~LsuAck
  BY Signals DEF PosEdge, LsuPending, LsuInv
<1>7. (lsu_pending => lsu.req)'
  BY <1>1, <1>6
<1>8. (lsu_pending /\ lsu.addr \in ExtData => lsu_2ch.req)'
  <2> SUFFICES ASSUME lsu_pending', lsu'.addr \in ExtData
               PROVE  lsu_2ch'.req
    OBVIOUS
  <2>1. lsu' = lsu /\ lsu.req /\ ~LsuAck
    BY <1>1, <1>6
  <2>2. ~DataAck
    BY <1>3, <2>1 DEF LsuAck, DataAck
  <2> QED BY <1>4, <2>1, <2>2
<1>9. (is_ext_data_pending => lsu_2ch.req)'
  <2> SUFFICES ASSUME is_ext_data_pending' PROVE lsu_2ch'.req
    OBVIOUS
  <2>1. lsu_2ch.req /\ ~DataAck
    BY DEF PosEdge, DataBridge, DataHandshake, DataAck, LsuInv
  <2> QED BY <1>2, <1>4, <2>1
<1>10. (axi.data_valid => is_ext_data_pending)'
  BY DEF PosEdge, AxiPos
<1> QED BY <1>5, <1>7, <1>8, <1>9, <1>10 DEF LsuInv

\* A fetch from the ITCM is acknowledged while no external access reads it.
LEMMA FetchGetsItsWordPosEdge ==
  ASSUME TypeOK, MasterInv, FetchInv, PosEdge
  PROVE  FetchGetsItsWord'
<1> SUFFICES ASSUME FetchAck', ~FetchError'
             PROVE  FetchData' = IF fetch'.addr \in Itcm
                                   THEN itcm'[fetch'.addr] ELSE fetch'.addr
  BY DEF FetchGetsItsWord
<1>1. /\ fetch' = fetch /\ fetch.req
      /\ fetch.addr \in FetchWords
      /\ UNCHANGED <<ext_itcm_req_neg, ext_itcm_req_neg_1d,
                     inst_pos_ack_toneg>>
  BY Requests
  DEF PosEdge, negVars, maskVars, demuxNegVars, FetchAck, FetchError
<1>2. /\ inst_neg_ack_topos' = CoreItcmAck
      /\ inst_neg_brom_ack_topos' = CoreBromReq
  BY DEF PosEdge, InstDemuxPos
<1>3. CASE fetch.addr \in Itcm
  <2>1. CoreItcmAck /\ ~ext_itcm_req_neg
    BY <1>1, <1>3
    DEF FetchAck, CoreItcmAck, CoreItcmReq, ItcmStall
  <2>2. ~ExtItcmCs
    BY <2>1 DEF ExtItcmCs, MasterInv
  <2>3. itcm_rdata' = itcm[fetch.addr] /\ itcm' = itcm
    BY <2>1, <2>2 DEF PosEdge, ItcmPos, ItcmAddr
  <2> QED BY <1>1, <1>2, <1>3, <2>1, <2>3 DEF FetchData
<1>4. CASE fetch.addr \notin Itcm /\ fetch.addr \in Brom
  <2>1. ~CoreItcmAck /\ CoreBromReq
    BY <1>1, <1>4 DEF CoreItcmAck, CoreItcmReq, CoreBromReq
  <2>2. brom_rdata' = fetch.addr
    BY <2>1 DEF PosEdge, BromPos
  <2> QED BY <1>1, <1>2, <1>4, <2>1, <2>2 DEF FetchData
<1>5. CASE fetch.addr \notin Itcm /\ fetch.addr \notin Brom
  <2>1. fetch.addr \in ExtInst /\ ~CoreItcmAck /\ ~CoreBromReq
    BY <1>1, <1>5
    DEF CoreItcmAck, CoreItcmReq, CoreBromReq, FetchWords
  <2>2. axi.inst_valid
    BY <1>1, <2>1 DEF PosEdge, FetchInv, FetchAck
  <2>3. inst_pos_req /\ q_addr = fetch.addr
    BY <2>2 DEF FetchInv
  <2>4. inst_pos_data_1d' = fetch.addr
    BY <2>2, <2>3 DEF PosEdge, InstDemuxPos, InstPosAck
  <2> QED BY <1>1, <1>2, <1>5, <2>1, <2>4 DEF FetchData
<1> QED BY <1>3, <1>4, <1>5

LEMMA CoreInvNext ==
  ASSUME TypeOK, MasterInv, FetchInv, LsuInv, FetchGetsItsWord,
         Resets # "any", [Next]_vars
  PROVE  FetchInv' /\ LsuInv' /\ FetchGetsItsWord'
<1>1. CASE NegEdge
  <2>1. LsuInv'
    BY <1>1 DEF NegEdge, LsuInv, posVars, demuxPosVars, bridgeVars, envVars
  <2>2. FetchGetsItsWord'
    BY <1>1 DEF NegEdge, FetchGetsItsWord
  <2> QED BY <1>1, <2>1, <2>2, FetchInvNegEdge
<1>2. CASE PosEdge
  BY <1>2, FetchInvPosEdge, LsuInvPosEdge, FetchGetsItsWordPosEdge
<1>3. CASE SoftReset
  <2>1. Quiet
    BY <1>3 DEF SoftReset
  <2>2. FetchInv'
    BY <1>3, <2>1
    DEF SoftReset, Quiet, FetchInv, instPosVars, demuxNegVars, bridgeVars,
        envVars
  <2>3. LsuInv'
    BY <1>3, <2>1
    DEF SoftReset, Quiet, LsuInv, demuxPosVars, bridgeVars, envVars
  <2>4. FetchGetsItsWord'
    BY <1>3 DEF SoftReset, FetchGetsItsWord, FetchAck, NoFetch
  <2> QED BY <2>2, <2>3, <2>4
<1>4. CASE UNCHANGED vars
  BY <1>4
  DEF vars, FetchInv, LsuInv, FetchGetsItsWord, FetchAck, FetchError,
      FetchData, CoreItcmAck, CoreItcmReq, ItcmStall, posVars, negVars,
      instPosVars, itcmVars, maskVars, demuxPosVars, demuxNegVars,
      bridgeVars, envVars
<1> QED BY <1>1, <1>2, <1>3, <1>4 DEF Next

\* The invariant of the fabric, for every memory map and reset delay.
THEOREM FabricCorrect == Spec => []FabricInv
<1>1. Init => FabricInv
  BY TypeInit, MasterInvInit, CoreInvInit DEF FabricInv
<1>2. FabricInv /\ [Next]_vars => FabricInv'
  BY TypeNegEdge, TypePosEdge, TypeSoftReset, TypeStutter, MasterInvNext,
     CoreInvNext
  DEF FabricInv, Next
<1> QED BY <1>1, <1>2, PTL DEF Spec

\* While a reset comes in quiet moments only, an address that some range
\* holds is never answered with an error (data_itf_demux.sv:113): the case
\* in which it is, is that of a reset in the middle of an access.
THEOREM ErrorsAreOutOfRange ==
  ASSUME Resets # "any"
  PROVE  Spec => []ErrorOnlyOutOfRange
<1>1. FabricInv => ErrorOnlyOutOfRange
  <2> SUFFICES ASSUME FabricInv, lsu.req, LsuError
               PROVE  lsu.addr \in Outside
    BY DEF ErrorOnlyOutOfRange
  <2>1. lsu_pending /\ lsu.addr \notin Dtcm /\ lsu.addr \notin ExtData
    BY DEF LsuError, LsuAck, CoreDtcmReq, FabricInv, LsuInv
  <2> QED BY <2>1, Requests DEF FabricInv
<1> QED BY <1>1, FabricCorrect, PTL

-----------------------------------------------------------------------------
(* The refinement of MemoryPorts                                            *)

LEMMA Views ==
  ASSUME NEW r, NEW val
  PROVE  /\ Waiting(r).st = "wait"
         /\ Waiting(r).op.addr = r.addr /\ Waiting(r).op.wr = r.wr
         /\ Waiting(r).op.data = r.data
         /\ Answered(val).st = "done" /\ Nothing.st = "idle"
         /\ Answered(val) = Ports!Done(val)
BY DEF Waiting, Answered, Nothing, Ports!Done

LEMMA SeenPorts ==
  /\ Seen["fetch"] = FetchPort /\ Seen["lsu"] = LsuPort
  /\ Seen["ext"] = ExtPort
BY DEF Seen, PortNames

LEMMA SeenPortsNext ==
  /\ Seen'["fetch"] = FetchPort' /\ Seen'["lsu"] = LsuPort'
  /\ Seen'["ext"] = ExtPort'
BY DEF Seen, PortNames

LEMMA PortStates ==
  /\ FetchPort.st \in {"idle", "wait", "done"}
  /\ LsuPort.st \in {"idle", "wait", "done"}
  /\ ExtPort.st \in {"idle", "wait", "done"}
<1>1. FetchPort.st \in {"idle", "wait", "done"}
  BY Views DEF FetchPort
<1>2. LsuPort.st \in {"idle", "wait", "done"}
  BY Views DEF LsuPort
<1>3. ExtPort.st \in {"idle", "wait", "done"}
  BY Views DEF ExtPort
<1> QED BY <1>1, <1>2, <1>3

\* What is known of the core's side while it is reset in quiet moments.
LEMMA Known ==
  ASSUME FabricInv, Resets # "any"
  PROVE  TypeOK /\ MasterInv /\ FetchInv /\ LsuInv /\ FetchGetsItsWord
BY DEF FabricInv

---------------------------------------------------------------------------
(* The rising edge of clk_neg_i.                                           *)

\* A fetch is made or kept, none is answered.
LEMMA FetchNeg ==
  ASSUME NegEdge, TypeOK
  PROVE  /\ FetchPort'.st \in {"idle", "wait"}
         /\ FetchPort.st = "wait" => FetchPort' = FetchPort
<1>1. clk = "neg" /\ clk' = "pos"
  BY DEF NegEdge
<1>2. FetchPort'.st \in {"idle", "wait"}
  BY <1>1, Views DEF FetchPort
<1>3. ASSUME FetchPort.st = "wait" PROVE FetchPort' = FetchPort
  <2>1. fetch.req /\ ~FetchAck
    BY <1>1, <1>3, Views DEF FetchPort
  <2>2. fetch' = fetch
    BY <2>1 DEF NegEdge, CoreNeg
  <2> QED BY <1>1, <2>1, <2>2 DEF FetchPort
<1> QED BY <1>2, <1>3

\* The access of the core to the DTCM is served unless the master's is.
LsuServedNeg == CoreDtcmReq /\ ~ext_2ch.req

LsuFailsNeg == lsu.req /\ lsu.addr \in Outside /\ lsu_pending

LEMMA NegKeeps ==
  ASSUME NegEdge
  PROVE  UNCHANGED <<lsu, lsu_2ch, lsu_pending, is_ext_data_pending, axi,
                     ext_q, pending, ext_2ch, ext_pending, ext_reads,
                     cnt_ext_itcm_req, itcm, itcm_rdata, xmem, mem_rd_1d,
                     axi_mem_rdata, mem_rdata_q>>
         /\ clk = "neg" /\ clk' = "pos"
BY DEF NegEdge, posVars, demuxPosVars, bridgeVars, envVars, reqrspVars,
       itcmVars

LEMMA DtcmServed ==
  ASSUME TypeOK, LsuInv, NegEdge
  PROVE  dtcm' = IF ext_2ch.req
                   THEN IF ext_2ch.wr
                          THEN [dtcm EXCEPT ![ext_2ch.addr] = ext_2ch.data]
                          ELSE dtcm
                 ELSE IF LsuServedNeg /\ lsu.wr
                   THEN [dtcm EXCEPT ![lsu.addr] = lsu.data]
                 ELSE dtcm
<1>1. CoreDtcmReq => ~lsu_2ch.req
  BY Requests, FabricAssumption DEF CoreDtcmReq, LsuInv
<1> QED BY <1>1 DEF NegEdge, DtcmNeg, CoreDtcm, LsuServedNeg

LEMMA LsuNeg ==
  ASSUME FabricInv, Resets # "any", NegEdge
  PROVE  \/ /\ LsuPort' = LsuPort
            /\ ~LsuServedNeg
         \/ /\ LsuServedNeg
            /\ LsuPort = Waiting(lsu)
            /\ LsuPort' = Answered(IF lsu.wr THEN "ok" ELSE dtcm[lsu.addr])
         \/ /\ ~LsuServedNeg
            /\ lsu.req /\ lsu.addr \in Outside
            /\ LsuPort = Waiting(lsu)
            /\ LsuPort' = Answered("error")
<1>1. TypeOK /\ MasterInv /\ LsuInv
  BY Known
<1>2. CASE ~lsu.req
  BY <1>2, NegKeeps DEF LsuPort, LsuServedNeg, CoreDtcmReq
<1>3. CASE lsu.req /\ lsu.addr \in Dtcm
  <2>1. lsu.addr \notin ExtData /\ lsu.addr \notin Outside /\ ~lsu_2ch.req
        /\ CoreDtcmReq
    BY <1>1, <1>3, Requests, FabricAssumption DEF LsuInv, CoreDtcmReq
  <2>2. LsuPort = Waiting(lsu)
    BY <1>3, <2>1, NegKeeps DEF LsuPort
  <2>3. LsuAck' <=> ~ext_2ch.req
    BY <1>3, <2>1, NegKeeps DEF LsuAck, CoreDtcmReq, CoreDtcmAck
  <2>4. CASE ext_2ch.req
    BY <1>3, <2>1, <2>2, <2>3, <2>4, NegKeeps
    DEF LsuPort, LsuServedNeg, LsuError
  <2>5. CASE ~ext_2ch.req
    <3>1. ~lsu_2ch_ack_toneg'
      BY <2>1 DEF NegEdge, DemuxNeg, DataAck
    <3>2. ~lsu.wr => dtcm_rdata' = dtcm[lsu.addr]
      BY <2>1, <2>5 DEF NegEdge, DtcmNeg, CoreDtcm
    <3>3. LsuPort' = Answered(IF lsu.wr THEN "ok" ELSE LsuRdata')
      BY <1>3, <2>3, <2>5, NegKeeps DEF LsuPort
    <3>4. LsuRdata' = dtcm_rdata'
      BY <3>1 DEF LsuRdata
    <3> QED BY <2>1, <2>2, <2>5, <3>2, <3>3, <3>4 DEF LsuServedNeg
  <2> QED BY <2>4, <2>5
<1>4. CASE lsu.req /\ lsu.addr \in ExtData
  <2>1. lsu.addr \notin Dtcm /\ ~CoreDtcmReq /\ ~CoreDtcmReq'
    BY <1>4, FabricAssumption, NegKeeps DEF CoreDtcmReq
  <2>2. CASE is_ext_data_pending
    <3>1. lsu_2ch.req /\ (LsuAck' <=> DataAck)
      BY <1>1, <2>1, <2>2, NegKeeps DEF LsuAck, DataAck, LsuInv
    <3>2. LsuAck' => LsuRdata' = axi.data
      BY <3>1 DEF NegEdge, DemuxNeg, LsuRdata
    <3> QED BY <1>4, <2>1, <2>2, <3>2, NegKeeps DEF LsuPort, LsuServedNeg
  <2>3. CASE ~is_ext_data_pending
    <3>1. ~LsuAck'
      BY <1>1, <1>4, <2>1, <2>3, NegKeeps, Flags
      DEF LsuAck, DataAck, LsuInv
    <3> QED BY <1>4, <2>1, <2>3, <3>1, NegKeeps
            DEF LsuPort, LsuServedNeg, LsuError
  <2> QED BY <2>2, <2>3
<1>5. CASE lsu.req /\ lsu.addr \notin Dtcm /\ lsu.addr \notin ExtData
  <2>1. lsu.addr \in Outside /\ ~LsuServedNeg
    BY <1>1, <1>5, Requests DEF LsuServedNeg, CoreDtcmReq
  <2>2. LsuPort = Waiting(lsu)
    BY <1>5, NegKeeps DEF LsuPort
  <2>3. LsuPort' \in {Waiting(lsu), Answered("error")}
    BY <1>5, NegKeeps DEF LsuPort
  <2> QED BY <1>5, <2>1, <2>2, <2>3
<1> QED BY <1>2, <1>3, <1>4, <1>5

LEMMA ExtNeg ==
  ASSUME TypeOK, MasterInv, NegEdge
  PROVE  \/ ExtPort' = ExtPort /\ ~ext_2ch.req
         \/ /\ ext_2ch.req /\ ext_2ch = ext_q
            /\ ExtPort = Waiting(ext_q)
            /\ ExtPort' = Answered(IF ext_q.wr THEN "ok"
                                   ELSE dtcm[ext_q.addr])
<1>1. CASE ext_2ch.req
  <2>1. ext_2ch = ext_q /\ ext_q.req /\ ~pending /\ ext_q.addr \in Dtcm
    BY <1>1, Requests DEF MasterInv, MemReq
  <2>2. ext_q.addr \notin Itcm
    BY <2>1, FabricAssumption
  <2>3. ExtPort = Waiting(ext_q)
    BY <2>1, <2>2, NegKeeps DEF ExtPort
  <2>4. ExtPort' = Answered(IF ext_q.wr THEN "ok" ELSE ExtRdata')
    BY <1>1, <2>1, NegKeeps DEF ExtPort
  <2>5. ~ext_q.wr => ExtRdata' = dtcm[ext_q.addr]
    BY <1>1, <2>1 DEF NegEdge, DemuxNeg, DtcmNeg, ExtRdata
  <2> QED BY <1>1, <2>1, <2>3, <2>4, <2>5
<1>2. CASE ~ext_2ch.req
  <2>1. ExtItcmCs1d => ~ext_2ch_ack_toneg /\ ~ext_2ch_ack_toneg'
    BY <1>2, NegKeeps DEF ExtItcmCs1d, MasterInv, NegEdge, DemuxNeg
  <2>2. ExtItcmCs1d => ExtRdata' = ExtRdata
    BY <2>1, NegKeeps DEF ExtRdata
  <2>3. PData' = PData
    BY NegKeeps DEF PData
  <2> QED BY <1>2, <2>2, <2>3, NegKeeps DEF ExtPort, ExtItcmCs1d
<1> QED BY <1>1, <1>2

LEMMA BankNames ==
  ASSUME NEW w \in Words
  PROVE  /\ w \in Itcm => Bank[w] = "itcm"
         /\ w \in Dtcm => Bank[w] = "dtcm"
         /\ w \in ExtData => Bank[w] = "outside"
         /\ Bank[w] = "dtcm" => w \in Dtcm
         /\ w \in Itcm => Memory[w] = itcm[w]
         /\ w \in Dtcm => Memory[w] = dtcm[w]
         /\ w \in ExtData => Memory[w] = xmem[w]
BY FabricAssumption DEF Bank, Memory, Words

LEMMA BankNamesNext ==
  ASSUME NEW w \in Words
  PROVE  /\ w \in Itcm => Memory'[w] = itcm'[w]
         /\ w \in Dtcm => Memory'[w] = dtcm'[w]
         /\ w \in ExtData => Memory'[w] = xmem'[w]
BY FabricAssumption DEF Memory, Words

LEMMA Domain == Ports!Words = Words
BY DEF Ports!Words, Bank

\* A port that is served has its answer from the memory.
LEMMA ServedStep ==
  ASSUME NEW p \in PortNames, NEW r, NEW val,
         Seen[p] = Waiting(r), Seen'[p] = Answered(val),
         val = Ports!Result(p, Waiting(r).op)
  PROVE  Ports!PortStep(p)
BY Views DEF Ports!PortStep, Ports!Served, Ports!Waits

LEMMA ResultInWords ==
  ASSUME NEW p, NEW r, r.addr \in Words
  PROVE  Ports!Result(p, Waiting(r).op) = IF r.wr THEN "ok" ELSE Memory[r.addr]
<1>1. r.addr \notin Brom \cup ExtInst
  BY FabricAssumption DEF Words
<1> QED BY <1>1, Views, Domain DEF Ports!Result

LEMMA ResultOutside ==
  ASSUME NEW p, NEW r, r.addr \in Outside
  PROVE  Ports!Result(p, Waiting(r).op) = IF p \in {"ext"} THEN "ok" ELSE "error"
<1>1. r.addr \notin Brom \cup ExtInst /\ r.addr \notin Words
  BY FabricAssumption DEF Words
<1> QED BY <1>1, Views, Domain DEF Ports!Result

LEMMA NegRefines ==
  ASSUME FabricInv, Resets # "any", NegEdge
  PROVE  Ports!Access
<1> USE SeenPorts
<1>1. TypeOK /\ MasterInv /\ LsuInv
  BY Known
<1>2. Seen'["fetch"] = FetchPort' /\ Seen'["lsu"] = LsuPort'
      /\ Seen'["ext"] = ExtPort'
  BY SeenPortsNext
<1>3. Ports!PortStep("fetch") /\ ~Ports!Served("fetch")
  <2>1. Seen'["fetch"].st \in {"idle", "wait"}
    BY <1>1, <1>2, FetchNeg
  <2>2. Seen["fetch"].st = "wait" => Seen'["fetch"] = Seen["fetch"]
    BY <1>1, <1>2, FetchNeg
  <2>3. Seen["fetch"].st \in {"idle", "wait", "done"}
    BY PortStates
  <2> QED BY <2>1, <2>2, <2>3 DEF Ports!PortStep, Ports!Served, Ports!Waits
<1>4. Ports!PortStep("lsu")
  <2>1. CASE LsuPort' = LsuPort
    BY <1>2, <2>1 DEF Ports!PortStep
  <2>2. CASE /\ LsuServedNeg
             /\ LsuPort = Waiting(lsu)
             /\ LsuPort' = Answered(IF lsu.wr THEN "ok" ELSE dtcm[lsu.addr])
    <3>1. lsu.addr \in Words /\ Memory[lsu.addr] = dtcm[lsu.addr]
      BY <2>2, BankNames DEF LsuServedNeg, CoreDtcmReq, Words
    <3> QED BY <1>2, <2>2, <3>1, ResultInWords, ServedStep DEF PortNames
  <2>3. CASE /\ lsu.addr \in Outside
             /\ LsuPort = Waiting(lsu) /\ LsuPort' = Answered("error")
    BY <1>2, <2>3, ResultOutside, ServedStep DEF PortNames
  <2> QED BY <2>1, <2>2, <2>3, LsuNeg
<1>5. Ports!PortStep("ext")
  <2>1. CASE ExtPort' = ExtPort
    BY <1>2, <2>1 DEF Ports!PortStep
  <2>2. CASE /\ ext_2ch.req /\ ext_2ch = ext_q
             /\ ExtPort = Waiting(ext_q)
             /\ ExtPort' = Answered(IF ext_q.wr THEN "ok"
                                    ELSE dtcm[ext_q.addr])
    <3>1. ext_q.addr \in Words /\ Memory[ext_q.addr] = dtcm[ext_q.addr]
      BY <1>1, <2>2, BankNames, Requests DEF Words
    <3> QED BY <1>2, <2>2, <3>1, ResultInWords, ServedStep DEF PortNames
  <2> QED BY <1>1, <2>1, <2>2, ExtNeg
<1>6. Ports!Served("ext") => /\ ext_2ch.req /\ ext_2ch = ext_q
                             /\ Seen["ext"] = Waiting(ext_q)
  BY <1>1, <1>2, ExtNeg, Views DEF Ports!Served, Ports!Waits
<1>7. Ports!Served("lsu") => /\ Seen["lsu"] = Waiting(lsu)
                             /\ LsuServedNeg \/ lsu.addr \in Outside
  BY <1>2, LsuNeg, Views DEF Ports!Served, Ports!Waits
<1>8. \A w \in Words : \A p, q \in PortNames :
        Ports!InBank(p, w) /\ Ports!InBank(q, w) => p = q
  <2>1. \A w \in Words : ~Ports!InBank("fetch", w)
    BY <1>3 DEF Ports!InBank
  <2>2. \A w \in Words : Ports!InBank("ext", w) => ext_2ch.req
    BY <1>6 DEF Ports!InBank
  <2>3. \A w \in Words : Ports!InBank("lsu", w) => LsuServedNeg
    <3> SUFFICES ASSUME NEW w \in Words, Ports!InBank("lsu", w),
                        lsu.addr \in Outside
                 PROVE  FALSE
      BY <1>7 DEF Ports!InBank
    <3>1. lsu.addr \in Words
      BY <1>7, Views, Domain DEF Ports!InBank
    <3> QED BY <3>1, FabricAssumption DEF Words
  <2> QED BY <2>1, <2>2, <2>3 DEF PortNames, LsuServedNeg
<1>9. \A w \in Words :
        \/ Memory'[w] = Memory[w] /\ ~\E p \in PortNames : Ports!Writes(p, w)
        \/ \E p \in PortNames :
             Ports!Writes(p, w) /\ Memory'[w] = Seen[p].op.data
  <2> SUFFICES ASSUME NEW w \in Words
               PROVE  \/ /\ Memory'[w] = Memory[w]
                         /\ ~\E p \in PortNames : Ports!Writes(p, w)
                      \/ \E p \in PortNames :
                           Ports!Writes(p, w) /\ Memory'[w] = Seen[p].op.data
    OBVIOUS
  <2>1. Ports!Writes("ext", w) => ext_2ch.req /\ ext_2ch.wr /\ w = ext_2ch.addr
    BY <1>6, Views DEF Ports!Writes
  <2>2. Ports!Writes("lsu", w) => LsuServedNeg /\ lsu.wr /\ w = lsu.addr
    <3>1. Ports!Writes("lsu", w) => lsu.wr /\ w = lsu.addr
      BY <1>7, Views DEF Ports!Writes
    <3> QED BY <1>7, <3>1, FabricAssumption DEF Ports!Writes, Words
  <2>3. ~Ports!Writes("fetch", w)
    BY <1>3 DEF Ports!Writes
  <2>4. CASE ext_2ch.req /\ ext_2ch.wr /\ w = ext_2ch.addr
    <3>1. /\ ExtPort = Waiting(ext_q) /\ ext_2ch = ext_q
          /\ ExtPort' = Answered("ok")
      BY <1>1, <2>4, ExtNeg
    <3>2. Ports!Writes("ext", w)
      BY <1>2, <2>4, <3>1, Views
      DEF Ports!Writes, Ports!Served, Ports!Waits
    <3>3. w \in Dtcm /\ Memory'[w] = dtcm'[w]
      BY <1>1, <2>4, Requests, BankNamesNext
    <3>4. dtcm'[w] = ext_2ch.data
      BY <1>1, <2>4, <3>3, DtcmServed DEF TypeOK
    <3>5. Seen["ext"].op.data = ext_2ch.data
      BY <3>1, Views
    <3> QED BY <3>2, <3>3, <3>4, <3>5 DEF PortNames
  <2>5. CASE LsuServedNeg /\ lsu.wr /\ w = lsu.addr
    <3>1. LsuPort = Waiting(lsu) /\ LsuPort' = Answered("ok")
      BY <2>5, LsuNeg
    <3>2. Ports!Writes("lsu", w)
      BY <1>2, <2>5, <3>1, Views
      DEF Ports!Writes, Ports!Served, Ports!Waits
    <3>3. w \in Dtcm /\ Memory'[w] = dtcm'[w]
      BY <2>5, BankNamesNext DEF LsuServedNeg, CoreDtcmReq
    <3>4. dtcm'[w] = lsu.data
      BY <1>1, <2>5, <3>3, DtcmServed DEF TypeOK, LsuServedNeg
    <3>5. Seen["lsu"].op.data = lsu.data
      BY <3>1, Views
    <3> QED BY <3>2, <3>3, <3>4, <3>5 DEF PortNames
  <2>6. CASE /\ ~(ext_2ch.req /\ ext_2ch.wr /\ w = ext_2ch.addr)
             /\ ~(LsuServedNeg /\ lsu.wr /\ w = lsu.addr)
    <3>1. w \in Dtcm => dtcm'[w] = dtcm[w]
      BY <1>1, <2>6, DtcmServed DEF TypeOK
    <3>2. itcm' = itcm /\ xmem' = xmem
      BY NegKeeps
    <3>3. Memory'[w] = Memory[w]
      BY <3>1, <3>2, BankNames, BankNamesNext DEF Words
    <3> QED BY <2>1, <2>2, <2>3, <2>6, <3>3 DEF PortNames
  <2> QED BY <2>4, <2>5, <2>6
<1> QED BY <1>3, <1>4, <1>5, <1>8, <1>9, Domain DEF Ports!Access, PortNames

---------------------------------------------------------------------------
(* The rising edge of clk_i.                                               *)

FetchView == [addr |-> fetch.addr, wr |-> FALSE, data |-> None]

\* An acknowledged fetch has read its word, and alone.
LEMMA FetchPos ==
  ASSUME FabricInv, Resets # "any", PosEdge
  PROVE  \/ FetchPort' = FetchPort /\ FetchPort.st # "wait"
         \/ FetchPort' = FetchPort /\ ~FetchAck'
         \/ /\ FetchAck'
            /\ FetchPort = Waiting(FetchView)
            /\ FetchPort' = Answered(IF fetch.addr \in Outside THEN "error"
                                     ELSE IF fetch.addr \in Itcm
                                       THEN itcm[fetch.addr]
                                     ELSE fetch.addr)
            /\ fetch.addr \in FetchWords \cup Outside
            /\ fetch.addr \in Itcm => ~ExtItcmCs
<1>1. TypeOK /\ MasterInv /\ FetchInv
  BY Known
<1>2. /\ clk = "pos" /\ clk' = "neg" /\ fetch' = fetch
      /\ UNCHANGED <<ext_itcm_req_neg, ext_itcm_req_neg_1d>>
  BY DEF PosEdge, negVars, maskVars
<1>3. CASE ~fetch.req
  BY <1>2, <1>3, Views DEF FetchPort
<1>4. CASE fetch.req /\ ~FetchAck'
  BY <1>2, <1>4 DEF FetchPort
<1>5. CASE fetch.req /\ FetchAck'
  <2>1. FetchPort = Waiting(FetchView)
    BY <1>2, <1>5 DEF FetchPort, FetchView
  <2>2. FetchError' <=> fetch.addr \in Outside
    BY <1>2, <1>5 DEF FetchError
  <2>3. FetchPort' = Answered(IF fetch.addr \in Outside THEN "error"
                              ELSE FetchData')
    BY <1>2, <1>5, <2>2 DEF FetchPort
  <2>4. fetch.addr \in Itcm => ~ExtItcmCs
    BY <1>1, <1>2, <1>5
    DEF FetchAck, CoreItcmAck, ItcmStall, ExtItcmCs, MasterInv
  <2>5. fetch.addr \in Itcm => itcm'[fetch.addr] = itcm[fetch.addr]
    BY <2>4 DEF PosEdge, ItcmPos
  <2>6. fetch.addr \notin Outside =>
          FetchData' = IF fetch.addr \in Itcm THEN itcm[fetch.addr]
                       ELSE fetch.addr
    BY <1>1, <1>2, <1>5, <2>2, <2>5, FetchGetsItsWordPosEdge
    DEF FetchGetsItsWord
  <2> QED BY <1>1, <1>5, <2>1, <2>3, <2>4, <2>6, Requests
<1> QED BY <1>3, <1>4, <1>5

\* The bus works for the access of the core that waits, which is kept.
LEMMA OutsideKept ==
  ASSUME TypeOK, LsuInv, PosEdge, is_ext_data_pending' \/ DataHandshake
  PROVE  /\ lsu_2ch = lsu /\ lsu.req /\ lsu.addr \in ExtData
         /\ ~DataAck /\ ~LsuAck /\ lsu' = lsu
<1>1. lsu_2ch.req /\ ~DataAck
  BY DEF PosEdge, DataBridge, DataHandshake, DataAck, LsuInv
<1>2. lsu_2ch = lsu /\ lsu.req /\ lsu.addr \in ExtData
  BY <1>1, Requests DEF LsuInv
<1>3. ~LsuAck
  BY <1>1, <1>2, FabricAssumption DEF LsuAck, CoreDtcmReq
<1> QED BY <1>1, <1>2, <1>3 DEF PosEdge, CorePos

LEMMA LsuPos ==
  ASSUME FabricInv, Resets # "any", PosEdge
  PROVE  \/ LsuPort' = LsuPort /\ ~DataHandshake
         \/ /\ LsuPort.st \in {"idle", "done"}
            /\ LsuPort'.st \in {"idle", "wait"}
            /\ ~DataHandshake
         \/ /\ DataHandshake /\ lsu_2ch = lsu /\ lsu.addr \in ExtData
            /\ LsuPort = Waiting(lsu)
            /\ LsuPort' = Answered(IF lsu.wr THEN "ok" ELSE xmem[lsu.addr])
<1>1. TypeOK /\ LsuInv
  BY Known
<1>2. clk = "pos" /\ clk' = "neg"
  BY DEF PosEdge
<1>3. LsuPort' = IF ~lsu'.req THEN Nothing
                 ELSE IF lsu'.addr \in ExtData /\ is_ext_data_pending'
                   THEN Answered(IF lsu'.wr THEN "ok" ELSE axi'.data)
                 ELSE Waiting(lsu')
  BY <1>2 DEF LsuPort
<1>4. CASE DataHandshake
  <2>1. /\ lsu_2ch = lsu /\ lsu.req /\ lsu.addr \in ExtData
        /\ ~LsuAck /\ lsu' = lsu
    BY <1>1, <1>4, OutsideKept
  <2>2. lsu.addr \notin Dtcm /\ ~is_ext_data_pending
    BY <1>4, <2>1, FabricAssumption DEF DataHandshake
  <2>3. LsuPort = Waiting(lsu)
    BY <2>1, <2>2 DEF LsuPort, LsuError
  <2>4. is_ext_data_pending' /\ (~lsu.wr => axi'.data = xmem[lsu.addr])
    <3>1. is_ext_data_pending'
      BY <1>4 DEF PosEdge, DataBridge
    <3>2. ~lsu_2ch.wr => axi'.data = xmem[lsu_2ch.addr]
      BY <1>4 DEF PosEdge, AxiPos
    <3> QED BY <2>1, <3>1, <3>2
  <2> QED BY <1>3, <1>4, <2>1, <2>3, <2>4
<1>5. CASE ~DataHandshake /\ (~lsu.req \/ LsuAck)
  <2>1. LsuPort'.st \in {"idle", "wait"}
    BY <1>1, <1>3, <1>5, OutsideKept, Views
  <2>2. LsuPort.st \in {"idle", "done"}
    <3>1. CASE ~lsu.req
      BY <3>1, Views DEF LsuPort
    <3>2. CASE LsuAck /\ lsu.req /\ lsu.addr \in Dtcm
      BY <1>2, <3>2, Views DEF LsuPort
    <3>3. CASE LsuAck /\ lsu.req /\ lsu.addr \in ExtData
      <4>1. ~CoreDtcmReq
        BY <3>3, FabricAssumption DEF CoreDtcmReq
      <4>2. is_ext_data_pending
        BY <1>1, <3>3, <4>1, Flags DEF LsuAck, DataAck, LsuInv
      <4> QED BY <3>3, <4>2, Views DEF LsuPort
    <3>4. CASE LsuAck /\ lsu.req /\ lsu.addr \notin Dtcm
               /\ lsu.addr \notin ExtData
      <4>1. ~CoreDtcmReq /\ ~lsu_2ch.req
        BY <1>1, <3>4, Requests DEF CoreDtcmReq, LsuInv
      <4>2. LsuError
        BY <3>4, <4>1 DEF LsuError
      <4> QED BY <1>2, <3>4, <4>2, Views DEF LsuPort
    <3> QED BY <1>5, <3>1, <3>2, <3>3, <3>4
  <2> QED BY <1>5, <2>1, <2>2
<1>6. CASE ~DataHandshake /\ lsu.req /\ ~LsuAck
  <2>1. lsu' = lsu
    BY <1>6 DEF PosEdge, CorePos
  <2>2. LsuPort = IF lsu.addr \in ExtData /\ is_ext_data_pending
                    THEN Answered(IF lsu.wr THEN "ok" ELSE axi.data)
                  ELSE Waiting(lsu)
    BY <1>6 DEF LsuPort, LsuError
  <2>3. CASE lsu.addr \in ExtData
    <3>1. ~CoreDtcmReq
      BY <2>3, FabricAssumption DEF CoreDtcmReq
    <3>2. ~DataAck
      BY <1>6, <3>1 DEF LsuAck, DataAck
    <3>3. is_ext_data_pending' <=> is_ext_data_pending
      BY <1>1, <1>6, <3>2, Flags DEF PosEdge, DataBridge
    <3>4. is_ext_data_pending => axi'.data = axi.data
      BY <1>6, <3>3 DEF PosEdge, AxiPos
    <3> QED BY <1>3, <1>6, <2>1, <2>2, <2>3, <3>3, <3>4
  <2>4. CASE lsu.addr \notin ExtData
    BY <1>3, <1>6, <2>1, <2>2, <2>4
  <2> QED BY <2>3, <2>4
<1> QED BY <1>1, <1>4, <1>5, <1>6, Requests

\* What is answered becomes the answer of the reqrsp side.
LEMMA AnswerKept ==
  ASSUME TypeOK, MasterInv, PosEdge, MemCs
  PROVE  ExtPort' = Answered(IF ext_q.wr \/ ext_q.addr \in Outside THEN "ok"
                             ELSE ExtRdata)
<1>1. pending'
  BY DEF PosEdge, ReqrspToMem, Pending
<1>2. ext_reads' <=> ~ext_q.wr /\ ext_q.addr \notin Outside
  BY DEF PosEdge, MasterPos
<1>3. ~ext_q.wr => PData' = ExtRdata
  BY DEF PosEdge, ReqrspToMem, PData, MemCs
<1> QED BY <1>1, <1>2, <1>3 DEF ExtPort

LEMMA ExtPos ==
  ASSUME TypeOK, MasterInv, PosEdge
  PROVE  \/ ExtPort' = ExtPort /\ ~ExtItcmCs
         \/ /\ ExtPort.st \in {"idle", "done"}
            /\ ExtPort'.st \in {"idle", "wait"}
            /\ ~ExtItcmCs
         \/ /\ ExtItcmCs /\ ext_q.req /\ ext_q.addr \in Itcm
            /\ ExtPort = Waiting(ext_q)
            /\ ExtPort' = Answered(IF ext_q.wr THEN "ok"
                                   ELSE itcm[ext_q.addr])
         \/ /\ ~ExtItcmCs /\ ext_q.addr \in Outside
            /\ ExtPort = Waiting(ext_q) /\ ExtPort' = Answered("ok")
<1>1. /\ clk = "pos" /\ clk' = "neg"
      /\ ext_2ch_ack_toneg' = ext_2ch_ack_toneg
      /\ ext_2ch_ack_toneg <=> ext_2ch.req
  BY DEF PosEdge, negVars, demuxNegVars, MasterInv
<1>2. ~ExtItcmReq => ~ExtItcmCs /\ cnt_ext_itcm_req' = 0
  BY DEF ExtItcmCs, MasterInv, PosEdge, CountExtItcmReq
<1>3. ExtPort' = IF pending' THEN ExtPort' ELSE IF ~ext_q'.req THEN Nothing
                 ELSE IF ext_q'.addr \in Itcm /\ cnt_ext_itcm_req' = 2
                   THEN Answered(IF ext_q'.wr THEN "ok" ELSE ExtRdata')
                 ELSE Waiting(ext_q')
  BY <1>1 DEF ExtPort, ExtItcmCs1d
<1>4. CASE ~MemReq
  <2>1. ~MemCs /\ ~ExtItcmReq
    BY <1>4 DEF MemCs, ExtItcmReq
  <2>2. CASE pending /\ pending'
    <3>1. ext_reads' = ext_reads
      BY <2>1, <2>2, Flags DEF PosEdge, MasterPos
    <3>2. PData' = PData
      BY <1>4, <2>2 DEF PosEdge, ReqrspToMem, PData
    <3> QED BY <1>2, <2>1, <2>2, <3>1, <3>2 DEF ExtPort
  <2>3. CASE ~pending'
    <3>1. ExtPort.st \in {"idle", "done"}
      BY <1>4, Views DEF ExtPort, MemReq
    <3>2. ExtPort'.st \in {"idle", "wait"}
      BY <1>2, <1>3, <2>1, <2>3, Views
    <3> QED BY <1>2, <2>1, <3>1, <3>2
  <2>4. pending' => pending
    BY <2>1 DEF PosEdge, ReqrspToMem, Pending
  <2> QED BY <2>2, <2>3, <2>4
<1>5. CASE MemReq /\ ~ExtAck
  <2>1. ext_q' = ext_q /\ ~pending' /\ ext_q.req /\ ~pending
    BY <1>5, RequestKept DEF MemReq
  <2>2. ~ext_2ch.req
    <3>1. ext_2ch.req => ~ExtItcmReq
      BY Requests, FabricAssumption DEF MasterInv, ExtItcmReq
    <3> QED BY <1>5, <3>1 DEF ExtAck
  <2>3. ext_q.addr \in Itcm <=> ExtItcmReq
    BY <1>5 DEF ExtItcmReq
  <2>4. ExtPort = Waiting(ext_q)
    BY <1>5, <2>1, <2>2, <2>3 DEF ExtPort, ExtAck
  <2>5. CASE ExtItcmCs
    <3>1. ExtItcmReq /\ cnt_ext_itcm_req' = 2
      BY <2>5 DEF ExtItcmCs, MasterInv, PosEdge, CountExtItcmReq
    <3>2. ~ext_q.wr => ExtRdata' = itcm[ext_q.addr]
      BY <1>1, <2>2, <2>5 DEF PosEdge, ItcmPos, ItcmAddr, ExtRdata
    <3> QED BY <1>3, <2>1, <2>3, <2>4, <2>5, <3>1, <3>2
  <2>6. CASE ~ExtItcmCs
    <3>1. cnt_ext_itcm_req' # 2
      BY <2>6 DEF ExtItcmCs, PosEdge, CountExtItcmReq, TypeOK
    <3> QED BY <1>3, <2>1, <2>4, <2>6, <3>1
  <2> QED BY <2>5, <2>6
<1>6. CASE MemReq /\ ExtAck
  <2>1. MemCs /\ ext_q.req /\ ~pending
    BY <1>6 DEF MemCs, MemReq
  <2>2. ~ExtItcmCs
    BY <1>6 DEF ExtAck, ExtItcmCs, ExtItcmCs1d, MasterInv
  <2>3. CASE ext_q.addr \in Itcm
    <3>1. ExtItcmCs1d /\ ext_q.addr \notin Outside
      BY <1>6, <2>3, FabricAssumption DEF ExtAck, ExtItcmReq
    <3> QED BY <2>1, <2>2, <2>3, <3>1, AnswerKept DEF ExtPort
  <2>4. CASE ext_q.addr \in Dtcm
    <3>1. ext_q.addr \notin Itcm /\ ext_q.addr \notin Outside
      BY <2>4, FabricAssumption
    <3>2. ext_2ch.req
      BY <1>6, <2>4, <3>1 DEF ExtAck, ExtItcmReq, MasterInv
    <3> QED BY <1>1, <2>1, <2>2, <3>1, <3>2, AnswerKept DEF ExtPort
  <2>5. CASE ext_q.addr \in Outside
    <3>1. ext_q.addr \notin Itcm /\ ext_q.addr \notin Dtcm
      BY <2>5, FabricAssumption
    <3>2. ~ext_2ch.req
      BY <3>1, Requests DEF MasterInv
    <3>3. ExtPort = Waiting(ext_q)
      BY <2>1, <3>1, <3>2 DEF ExtPort
    <3> QED BY <2>1, <2>2, <2>5, <3>3, AnswerKept
  <2> QED BY <2>1, <2>3, <2>4, <2>5, Requests
<1> QED BY <1>4, <1>5, <1>6

\* The external access that is at the ITCM.
LEMMA ExtServedPos ==
  ASSUME TypeOK, MasterInv, PosEdge, ExtItcmCs
  PROVE  /\ ExtPort = Waiting(ext_q)
         /\ ExtPort' = Answered(IF ext_q.wr THEN "ok" ELSE itcm[ext_q.addr])
<1>1. ext_q.addr \notin Outside
  BY FabricAssumption DEF ExtItcmCs, MasterInv, ExtItcmReq
<1> QED BY <1>1, ExtPos

LEMMA MemoriesPos ==
  ASSUME TypeOK, MasterInv, PosEdge
  PROVE  /\ dtcm' = dtcm
         /\ itcm' = IF ExtItcmCs /\ ext_q.wr
                      THEN [itcm EXCEPT ![ext_q.addr] = ext_q.data] ELSE itcm
         /\ xmem' = IF DataHandshake /\ lsu_2ch.wr
                      THEN [xmem EXCEPT ![lsu_2ch.addr] = lsu_2ch.data]
                      ELSE xmem
<1>1. dtcm' = dtcm
  BY DEF PosEdge, negVars, dtcmVars
<1>2. ExtItcmCs => MemReq /\ ~ext_2ch.req
  BY Requests, FabricAssumption DEF ExtItcmCs, MasterInv, ExtItcmReq
<1>3. itcm' = IF ExtItcmCs /\ ext_q.wr
                THEN [itcm EXCEPT ![ext_q.addr] = ext_q.data] ELSE itcm
  BY <1>2 DEF PosEdge, ItcmPos, ItcmAddr
<1>4. xmem' = IF DataHandshake /\ lsu_2ch.wr
                THEN [xmem EXCEPT ![lsu_2ch.addr] = lsu_2ch.data] ELSE xmem
  BY DEF PosEdge, AxiPos
<1> QED BY <1>1, <1>3, <1>4

LEMMA PosRefines ==
  ASSUME FabricInv, Resets # "any", PosEdge
  PROVE  Ports!Access
<1> USE SeenPorts, SeenPortsNext
<1> DEFINE LsuServed == DataHandshake /\ lsu_2ch = lsu /\ lsu.addr \in ExtData
<1> DEFINE ExtServed == ExtItcmCs /\ ext_q.req /\ ext_q.addr \in Itcm
<1>1. TypeOK /\ MasterInv /\ LsuInv
  BY Known
<1>2. Ports!PortStep("fetch")
  <2>1. CASE FetchPort' = FetchPort
    BY <2>1 DEF Ports!PortStep
  <2>2. CASE /\ FetchPort = Waiting(FetchView)
             /\ FetchPort' = Answered(IF fetch.addr \in Outside THEN "error"
                                      ELSE IF fetch.addr \in Itcm
                                        THEN itcm[fetch.addr]
                                      ELSE fetch.addr)
             /\ fetch.addr \in FetchWords \cup Outside
    <3>1. FetchView.addr = fetch.addr /\ ~FetchView.wr
      BY DEF FetchView
    <3>2. CASE fetch.addr \in Outside
      BY <2>2, <3>1, <3>2, ResultOutside, ServedStep DEF PortNames
    <3>3. CASE fetch.addr \in Itcm
      <4>1. fetch.addr \notin Outside /\ fetch.addr \in Words
            /\ Memory[fetch.addr] = itcm[fetch.addr]
        BY <3>3, BankNames, FabricAssumption DEF Words
      <4> QED BY <2>2, <3>1, <3>3, <4>1, ResultInWords, ServedStep
              DEF PortNames
    <3>4. CASE fetch.addr \in Brom \cup ExtInst
      <4>1. /\ fetch.addr \notin Outside /\ fetch.addr \notin Itcm
            /\ fetch.addr \notin Words
        BY <3>4, FabricAssumption DEF Words
      <4>2. Ports!Result("fetch", Waiting(FetchView).op) = fetch.addr
        BY <3>1, <3>4, <4>1, Views, Domain DEF Ports!Result
      <4> QED BY <2>2, <4>1, <4>2, ServedStep DEF PortNames
    <3> QED BY <2>2, <3>2, <3>3, <3>4 DEF FetchWords
  <2> QED BY <2>1, <2>2, FetchPos
<1>3. Ports!PortStep("lsu")
  <2>1. CASE LsuPort' = LsuPort
    BY <2>1 DEF Ports!PortStep
  <2>2. CASE LsuPort.st \in {"idle", "done"} /\ LsuPort'.st \in {"idle", "wait"}
    BY <2>2 DEF Ports!PortStep
  <2>3. CASE /\ LsuServed
             /\ LsuPort = Waiting(lsu)
             /\ LsuPort' = Answered(IF lsu.wr THEN "ok" ELSE xmem[lsu.addr])
    <3>1. lsu.addr \in Words /\ Memory[lsu.addr] = xmem[lsu.addr]
      BY <2>3, BankNames DEF Words
    <3> QED BY <2>3, <3>1, ResultInWords, ServedStep DEF PortNames
  <2> QED BY <2>1, <2>2, <2>3, LsuPos
<1>4. Ports!PortStep("ext")
  <2>1. CASE ExtPort' = ExtPort
    BY <2>1 DEF Ports!PortStep
  <2>2. CASE ExtPort.st \in {"idle", "done"} /\ ExtPort'.st \in {"idle", "wait"}
    BY <2>2 DEF Ports!PortStep
  <2>3. CASE /\ ExtServed
             /\ ExtPort = Waiting(ext_q)
             /\ ExtPort' = Answered(IF ext_q.wr THEN "ok"
                                    ELSE itcm[ext_q.addr])
    <3>1. ext_q.addr \in Words /\ Memory[ext_q.addr] = itcm[ext_q.addr]
      BY <2>3, BankNames DEF Words
    <3> QED BY <2>3, <3>1, ResultInWords, ServedStep DEF PortNames
  <2>4. CASE /\ ext_q.addr \in Outside
             /\ ExtPort = Waiting(ext_q) /\ ExtPort' = Answered("ok")
    BY <2>4, ResultOutside, ServedStep DEF PortNames
  <2> QED BY <1>1, <2>1, <2>2, <2>3, <2>4, ExtPos
<1>5. Ports!Served("fetch") =>
        /\ Seen["fetch"] = Waiting(FetchView)
        /\ fetch.addr \in Itcm => ~ExtItcmCs
        /\ fetch.addr \in FetchWords \cup Outside
  BY FetchPos, Views DEF Ports!Served, Ports!Waits
<1>6. Ports!Served("lsu") => LsuServed /\ Seen["lsu"] = Waiting(lsu)
  BY LsuPos, Views DEF Ports!Served, Ports!Waits
<1>7. Ports!Served("ext") => /\ Seen["ext"] = Waiting(ext_q)
                             /\ ExtServed \/ ext_q.addr \in Outside
  BY <1>1, ExtPos, Views DEF Ports!Served, Ports!Waits
<1>8. \A w \in Words : \A p, q \in PortNames :
        Ports!InBank(p, w) /\ Ports!InBank(q, w) => p = q
  <2> SUFFICES ASSUME NEW w \in Words
               PROVE  \A p, q \in PortNames :
                        Ports!InBank(p, w) /\ Ports!InBank(q, w) => p = q
    OBVIOUS
  <2>1. Ports!InBank("fetch", w) => Bank[w] = "itcm" /\ ~ExtItcmCs
    <3> SUFFICES ASSUME Ports!InBank("fetch", w)
                 PROVE  Bank[w] = "itcm" /\ ~ExtItcmCs
      OBVIOUS
    <3>1. /\ fetch.addr \in Words /\ Bank[fetch.addr] = Bank[w]
          /\ fetch.addr \in FetchWords \cup Outside
          /\ fetch.addr \in Itcm => ~ExtItcmCs
      BY <1>5, Views, Domain DEF Ports!InBank, FetchView
    <3>2. fetch.addr \in Itcm
      BY <3>1, FabricAssumption DEF Words, FetchWords
    <3> QED BY <3>1, <3>2, BankNames
  <2>2. Ports!InBank("lsu", w) => Bank[w] = "outside"
    <3> SUFFICES ASSUME Ports!InBank("lsu", w)
                 PROVE  Bank[w] = "outside"
      OBVIOUS
    <3>1. lsu.addr \in ExtData /\ lsu.addr \in Words /\ Bank[lsu.addr] = Bank[w]
      BY <1>6, Views, Domain DEF Ports!InBank
    <3> QED BY <3>1, BankNames
  <2>3. Ports!InBank("ext", w) => Bank[w] = "itcm" /\ ExtItcmCs
    <3> SUFFICES ASSUME Ports!InBank("ext", w)
                 PROVE  Bank[w] = "itcm" /\ ExtItcmCs
      OBVIOUS
    <3>1. ext_q.addr \in Words /\ Bank[ext_q.addr] = Bank[w]
      BY <1>7, Views, Domain DEF Ports!InBank
    <3>2. ExtServed
      BY <1>7, <3>1, FabricAssumption DEF Ports!InBank, Words
    <3> QED BY <3>1, <3>2, BankNames
  <2> QED BY <2>1, <2>2, <2>3 DEF PortNames
<1>9. \A w \in Words :
        \/ Memory'[w] = Memory[w] /\ ~\E p \in PortNames : Ports!Writes(p, w)
        \/ \E p \in PortNames :
             Ports!Writes(p, w) /\ Memory'[w] = Seen[p].op.data
  <2> SUFFICES ASSUME NEW w \in Words
               PROVE  \/ /\ Memory'[w] = Memory[w]
                         /\ ~\E p \in PortNames : Ports!Writes(p, w)
                      \/ \E p \in PortNames :
                           Ports!Writes(p, w) /\ Memory'[w] = Seen[p].op.data
    OBVIOUS
  <2>1. Ports!Writes("ext", w) => ExtServed /\ ext_q.wr /\ w = ext_q.addr
    <3>1. Ports!Writes("ext", w) => ext_q.wr /\ w = ext_q.addr
      BY <1>7, Views DEF Ports!Writes
    <3> QED BY <1>7, <3>1, FabricAssumption DEF Ports!Writes, Words
  <2>2. Ports!Writes("lsu", w) => LsuServed /\ lsu.wr /\ w = lsu.addr
    BY <1>6, Views DEF Ports!Writes
  <2>3. ~Ports!Writes("fetch", w)
    BY <1>5, Views DEF Ports!Writes, FetchView
  <2>4. CASE ExtServed /\ ext_q.wr /\ w = ext_q.addr
    <3>1. ExtPort = Waiting(ext_q) /\ ExtPort' = Answered("ok")
      BY <1>1, <2>4, FabricAssumption, ExtServedPos
    <3>2. Ports!Writes("ext", w)
      BY <2>4, <3>1, Views DEF Ports!Writes, Ports!Served, Ports!Waits
    <3>3. Memory'[w] = ext_q.data
      BY <1>1, <2>4, BankNamesNext, MemoriesPos DEF TypeOK
    <3>4. Seen["ext"].op.data = ext_q.data
      BY <3>1, Views
    <3> QED BY <3>2, <3>3, <3>4 DEF PortNames
  <2>5. CASE LsuServed /\ lsu.wr /\ w = lsu.addr
    <3>1. LsuPort = Waiting(lsu) /\ LsuPort' = Answered("ok")
      BY <2>5, LsuPos
    <3>2. Ports!Writes("lsu", w)
      BY <2>5, <3>1, Views DEF Ports!Writes, Ports!Served, Ports!Waits
    <3>3. Memory'[w] = lsu.data
      BY <1>1, <2>5, BankNamesNext, MemoriesPos DEF TypeOK
    <3>4. Seen["lsu"].op.data = lsu.data
      BY <3>1, Views
    <3> QED BY <3>2, <3>3, <3>4 DEF PortNames
  <2>6. CASE /\ ~(ExtServed /\ ext_q.wr /\ w = ext_q.addr)
             /\ ~(LsuServed /\ lsu.wr /\ w = lsu.addr)
    <3>1. w \in Itcm => itcm'[w] = itcm[w]
      <4>1. ExtItcmCs => ExtServed
        BY <1>1, Requests DEF ExtItcmCs, MasterInv, ExtItcmReq, MemReq
      <4> QED BY <1>1, <2>6, <4>1, MemoriesPos DEF TypeOK
    <3>2. w \in ExtData => xmem'[w] = xmem[w]
      <4>1. DataHandshake => LsuServed
        BY <1>1, OutsideKept
      <4> QED BY <1>1, <2>6, <4>1, MemoriesPos DEF TypeOK
    <3>3. Memory'[w] = Memory[w]
      BY <1>1, <3>1, <3>2, BankNames, BankNamesNext, MemoriesPos DEF Words
    <3> QED BY <2>1, <2>2, <2>3, <2>6, <3>3 DEF PortNames
  <2> QED BY <2>4, <2>5, <2>6
<1> QED BY <1>2, <1>3, <1>4, <1>8, <1>9, Domain DEF Ports!Access, PortNames

---------------------------------------------------------------------------
(* Resets, stuttering, and the whole.                                      *)

LEMMA ResetRefines ==
  ASSUME FabricInv, Resets # "any", SoftReset
  PROVE  Ports!Withdraw
<1>1. /\ fetch' = NoFetch /\ lsu' = NoReq
      /\ UNCHANGED <<clk, itcm, dtcm, xmem, pending, ext_reads, mem_rd_1d,
                     axi_mem_rdata, mem_rdata_q, ext_q, cnt_ext_itcm_req,
                     ext_2ch, ext_2ch_ack_toneg, dtcm_rdata, itcm_rdata>>
  BY DEF SoftReset, itcmVars, dtcmVars, demuxPosVars, demuxNegVars,
         reqrspVars, envVars
<1>2. Memory' = Memory
  BY <1>1 DEF Memory
<1>3. ExtPort' = ExtPort
  BY <1>1 DEF ExtPort, PData, ExtRdata, ExtItcmCs1d
<1>4. FetchPort' = Ports!Idle /\ LsuPort' = Ports!Idle
  BY <1>1 DEF FetchPort, LsuPort, NoFetch, NoReq, Nothing, Ports!Idle
<1>5. Seen' = [p \in PortNames |-> IF p \in {"ext"} THEN Seen[p]
                                   ELSE Ports!Idle]
  BY <1>3, <1>4 DEF Seen, PortNames
<1> QED BY <1>2, <1>5 DEF Ports!Withdraw

LEMMA StutterKeeps ==
  ASSUME UNCHANGED vars
  PROVE  UNCHANGED <<Memory, Seen>>
<1>1. UNCHANGED <<clk, fetch, lsu, itcm, dtcm, xmem, ext_q, axi>>
  BY DEF vars, posVars, negVars, itcmVars, dtcmVars, envVars
<1>2. UNCHANGED <<inst_pos_ack_toneg, inst_neg_ack_topos,
                  inst_neg_brom_ack_topos, inst_pos_data_1d, brom_rdata,
                  itcm_rdata, ext_itcm_req_neg, ext_itcm_req_neg_1d>>
  BY DEF vars, posVars, negVars, instPosVars, itcmVars, maskVars, demuxNegVars
<1>3. UNCHANGED <<pending, ext_reads, mem_rd_1d, axi_mem_rdata, mem_rdata_q,
                  cnt_ext_itcm_req, ext_2ch, ext_2ch_ack_toneg, dtcm_rdata>>
  BY DEF vars, posVars, negVars, itcmVars, dtcmVars, demuxPosVars,
         demuxNegVars, reqrspVars, envVars
<1>4. UNCHANGED <<lsu_2ch, lsu_pending, lsu_2ch_ack_toneg, data_rdata_toneg,
                  is_ext_data_pending>>
  BY DEF vars, posVars, negVars, demuxPosVars, demuxNegVars, bridgeVars
<1>5. UNCHANGED Memory
  BY <1>1 DEF Memory
<1>6. UNCHANGED FetchPort
  BY <1>1, <1>2
  DEF FetchPort, FetchAck, FetchError, FetchData, CoreItcmAck, CoreItcmReq,
      ItcmStall
<1>7. UNCHANGED LsuPort
  BY <1>1, <1>3, <1>4
  DEF LsuPort, LsuAck, LsuError, LsuRdata, CoreDtcmReq, CoreDtcmAck, DataAck
<1>8. UNCHANGED ExtPort
  BY <1>1, <1>2, <1>3 DEF ExtPort, PData, ExtRdata, ExtItcmCs1d
<1> QED BY <1>5, <1>6, <1>7, <1>8 DEF Seen

LEMMA InitRefines == Init => Ports!MemInit
<1> SUFFICES ASSUME Init PROVE Ports!MemInit
  OBVIOUS
<1>1. TypeOK
  BY TypeInit
<1>2. Memory \in [Words -> Data]
  BY <1>1 DEF TypeOK, Memory, Words
<1>3. FetchPort = Ports!Idle /\ LsuPort = Ports!Idle /\ ExtPort = Ports!Idle
  BY DEF Init, FetchPort, LsuPort, ExtPort, NoFetch, NoReq, Nothing,
         Ports!Idle
<1>4. Seen = [p \in PortNames |-> Ports!Idle]
  BY <1>3 DEF Seen
<1> QED BY <1>2, <1>4, Domain DEF Ports!MemInit

LEMMA NextRefines ==
  ASSUME FabricInv, Resets # "any", [Next]_vars
  PROVE  [Ports!MemNext]_<<Memory, Seen>>
BY NegRefines, PosRefines, ResetRefines, StutterKeeps
DEF Next, Ports!MemNext

\* Whatever the fabric does, its users see a memory that serves each of their
\* accesses once and in turn, for every memory map, every content of the
\* words and every reset delay, while a reset comes in quiet moments
\* (sophon_top.sv, sophon_axi_top.sv and what they instantiate).
THEOREM FabricServesPorts ==
  ASSUME Resets # "any"
  PROVE  Spec => ServesPorts
<1>1. FabricInv /\ [Next]_vars => [Ports!MemNext]_<<Memory, Seen>>
  BY NextRefines
<1> QED BY <1>1, FabricCorrect, InitRefines, PTL
        DEF Spec, ServesPorts, Ports!MemSpec
=============================================================================
