----------------------------- MODULE SophonFabric -----------------------------
(***************************************************************************)
(* What lies between the core and its memories (sophon_top.sv,             *)
(* sophon_axi_top.sv and the blocks they use), one step per clock edge:    *)
(* NegEdge is the rising edge of clk_neg_i, PosEdge that of clk_i.         *)
(* Registers keep the names of the source; combinational signals are       *)
(* operators.  Three parties make accesses:                                *)
(*   fetch   instructions from boot ROM, ITCM or outside (INST_ITF_DEMUX)  *)
(*   lsu     data in the DTCM or outside (DATA_ITF_DEMUX, U_DATA_DEMUX)    *)
(*   ext_q   a master outside, in ITCM and DTCM (REQRSP_TO_MEM and the     *)
(*           DATA_ITF_DEMUX U_EXT_ACCESS_DEMUX)                            *)
(* The soft reset of sophon_top.sv resets the core and none of this.       *)
(*                                                                         *)
(* Surroundings, not modelled line by line: the core's two interfaces      *)
(* (fetch, lsu), the AXI bus it is a master of (axi, xmem, the reqrsp      *)
(* adapters in between) and the reqrsp side of the master outside (ext_q,  *)
(* ext_reads, ext_p_ready).                                                 *)
(* A word is accessed as a whole; what a read-only word holds is its name. *)
(* A data or address register that the source merely holds, although       *)
(* nothing reads it before it is written again, is set to None: a party    *)
(* that did read it would get a wrong answer.                              *)
(***************************************************************************)
EXTENDS Naturals

CONSTANTS
  Brom, Itcm, ExtInst,   \* words instructions are fetched from
  Dtcm, ExtData,         \* words data is kept in
  Outside,               \* words that no address range holds
  Data,                  \* what a word of memory may hold,
  Initial,               \* holds at first,
  CoreData, MasterData,  \* and is written by the core and by the master
  None,                  \* no word
  RstDelay,              \* cycles from the reset to the first fetch
  Resets                 \* when a soft reset may come

\* A word is of one kind: code outside is not written as data.
ASSUME FabricAssumption ==
  /\ RstDelay \in Nat
  /\ Resets \in {"never", "quiet", "any"}
  /\ None \notin Data \cup Brom \cup Itcm \cup ExtInst \cup Dtcm \cup ExtData
                 \cup Outside
  /\ Itcm # {} /\ Dtcm # {}
  /\ Initial \cup CoreData \cup MasterData \subseteq Data
  /\ Itcm \cap (Brom \cup ExtInst \cup Dtcm \cup ExtData \cup Outside) = {}
  /\ Dtcm \cap (Brom \cup ExtInst \cup ExtData \cup Outside) = {}
  /\ ExtData \cap (Brom \cup ExtInst \cup Outside) = {}
  /\ Outside \cap (Brom \cup ExtInst) = {}

VARIABLES
  clk,                                                     \* the next edge
  \* the core
  fetch, lsu, rst_cnt,
  \* INST_ITF_DEMUX and the boot ROM
  inst_pos_req, inst_pos_addr, inst_pos_ack_toneg, inst_neg_ack_topos,
  inst_neg_brom_ack_topos, inst_pos_data_1d, brom_rdata,
  \* INST_ITF_ARBITER and the ITCM
  cnt_ext_itcm_req, ext_itcm_req_neg, ext_itcm_req_neg_1d, itcm, itcm_rdata,
  \* U_EXT_ACCESS_DEMUX
  ext_2ch, ext_pending, ext_2ch_ack_toneg,
  \* U_DATA_DEMUX and the DTCM
  lsu_2ch, lsu_pending, lsu_2ch_ack_toneg, data_rdata_toneg, dtcm, dtcm_rdata,
  \* REQRSP_TO_MEM and the register behind it
  pending, p_valid, mem_rd_1d, mem_rdata_q, axi_mem_rdata,
  \* the bridges of instructions and data
  is_ext_inst_pending, q_valid, q_addr, is_ext_data_pending,
  \* the surroundings
  axi, xmem, ext_q, ext_reads, ext_p_ready

coreVars == <<fetch, lsu, rst_cnt>>
instPosVars == <<inst_pos_req, inst_pos_addr, inst_neg_ack_topos,
                 inst_neg_brom_ack_topos, inst_pos_data_1d, brom_rdata>>
itcmVars == <<cnt_ext_itcm_req, itcm, itcm_rdata>>
maskVars == <<ext_itcm_req_neg, ext_itcm_req_neg_1d>>
demuxPosVars == <<ext_2ch, ext_pending, lsu_2ch, lsu_pending>>
demuxNegVars == <<ext_2ch_ack_toneg, lsu_2ch_ack_toneg, data_rdata_toneg,
                  inst_pos_ack_toneg>>
dtcmVars == <<dtcm, dtcm_rdata>>
reqrspVars == <<pending, p_valid, mem_rd_1d, mem_rdata_q, axi_mem_rdata>>
bridgeVars == <<is_ext_inst_pending, q_valid, q_addr, is_ext_data_pending>>
envVars == <<axi, xmem, ext_q, ext_reads, ext_p_ready>>
posVars == <<instPosVars, itcmVars, demuxPosVars, reqrspVars, bridgeVars,
             envVars, lsu>>
negVars == <<maskVars, demuxNegVars, dtcmVars, fetch, rst_cnt>>
vars == <<clk, posVars, negVars>>

\* A request: mem_req_t of the source without its strobes.
Request(addrs, written) ==
  [req : {TRUE}, addr : addrs, wr : {FALSE}, data : {None}]
    \cup [req : {TRUE}, addr : addrs, wr : {TRUE}, data : written]
NoReq == [req |-> FALSE, addr |-> None, wr |-> FALSE, data |-> None]

FetchReqs ==
  [req : {TRUE}, addr : Brom \cup Itcm \cup ExtInst \cup Outside]
NoFetch == [req |-> FALSE, addr |-> None]

LsuReqs == Request(Dtcm \cup ExtData \cup Outside, CoreData)
ExtReqs == Request(Itcm \cup Dtcm \cup Outside, MasterData)

\* Word 0 of a memory, which an address of all zeroes selects.
LowWord(words) == CHOOSE w \in words : TRUE

---------------------------------------------------------------------------
(* Instruction side: acknowledge and data.                                 *)

\* The bridge takes every answer of the bus at once.
InstPosAck == axi.inst_valid

CoreItcmReq == fetch.req /\ fetch.addr \in Itcm

CoreBromReq == fetch.req /\ fetch.addr \in Brom

ItcmStall == ext_itcm_req_neg \/ ext_itcm_req_neg_1d

\* Variant with a mistake: a fetch is not kept off external accesses.
CoreItcmAckUnmasked == CoreItcmReq

CoreItcmAck == CoreItcmReq /\ ~ItcmStall

FetchAck ==
  /\ fetch.req
  /\ fetch.addr \in ExtInst => inst_pos_ack_toneg
  /\ fetch.addr \in Itcm => CoreItcmAck

FetchError == FetchAck /\ fetch.addr \in Outside

FetchData ==
  IF inst_neg_ack_topos THEN itcm_rdata
  ELSE IF inst_neg_brom_ack_topos THEN brom_rdata
  ELSE inst_pos_data_1d

---------------------------------------------------------------------------
(* The external access port.                                               *)

MemReq == ext_q.req /\ ~pending

ExtItcmReq == MemReq /\ ext_q.addr \in Itcm

ExtItcmCs == cnt_ext_itcm_req = 1

ExtItcmCs1d == cnt_ext_itcm_req = 2

\* Out of range, an access is acknowledged in its second cycle.
ExtAck ==
  IF ExtItcmReq THEN ExtItcmCs1d ELSE ext_2ch.req \/ ext_pending

ExtRdata == IF ext_2ch_ack_toneg THEN dtcm_rdata ELSE itcm_rdata

QReady == ExtAck /\ ~pending

MemCs == MemReq /\ ExtAck

PData == IF mem_rd_1d THEN axi_mem_rdata ELSE mem_rdata_q

---------------------------------------------------------------------------
(* The load/store port.                                                    *)

CoreDtcmReq == lsu.req /\ lsu.addr \in Dtcm

CoreDtcmAck == CoreDtcmReq /\ ~ext_2ch.req

DataAck == axi.data_valid /\ lsu_2ch.req

LsuAck ==
  IF CoreDtcmReq THEN CoreDtcmAck
  ELSE IF lsu_2ch.req THEN DataAck
  ELSE lsu_pending

LsuError == LsuAck /\ ~CoreDtcmReq /\ ~lsu_2ch.req

LsuRdata == IF lsu_2ch_ack_toneg THEN data_rdata_toneg ELSE dtcm_rdata

---------------------------------------------------------------------------
(* Registers clocked by clk_i.                                             *)

InstDemuxPos ==
  /\ inst_pos_req' = (~InstPosAck /\ fetch.req /\ fetch.addr \in ExtInst)
  /\ inst_pos_addr' = IF inst_pos_req' THEN fetch.addr ELSE None
  /\ inst_neg_ack_topos' = CoreItcmAck
  /\ inst_neg_brom_ack_topos' = CoreBromReq
  /\ inst_pos_data_1d' = IF inst_pos_req /\ InstPosAck THEN q_addr ELSE None

BromPos == brom_rdata' = IF CoreBromReq THEN fetch.addr ELSE None

\* A two-bit count.
CountExtItcmReq ==
  cnt_ext_itcm_req' =
    IF ExtItcmReq THEN (cnt_ext_itcm_req + 1) % 4 ELSE 0

\* The first channel of a demultiplexer is blanked while the second is busy.
ItcmAddr ==
  IF ~ExtItcmCs THEN fetch.addr
  ELSE IF ext_2ch.req THEN LowWord(Itcm) ELSE ext_q.addr

ItcmPos ==
  IF ExtItcmCs /\ MemReq /\ ext_q.wr /\ ~ext_2ch.req
    THEN /\ itcm' = [itcm EXCEPT ![ItcmAddr] = ext_q.data]
         /\ itcm_rdata' = None
    ELSE /\ itcm_rdata' = IF ExtItcmCs \/ CoreItcmAck THEN itcm[ItcmAddr]
                          ELSE None
         /\ UNCHANGED itcm

\* The DTCM acknowledges the master in the cycle of the request.
ExtDemuxPos ==
  /\ ext_2ch' = IF ext_2ch.req THEN NoReq
                ELSE IF MemReq /\ ext_q.addr \in Dtcm THEN ext_q
                ELSE ext_2ch
  /\ ext_pending' = IF MemReq THEN ~ExtAck ELSE ext_pending

Lsu2ch ==
  lsu_2ch' = IF DataAck THEN NoReq
             ELSE IF lsu.req /\ lsu.addr \in ExtData THEN lsu
             ELSE lsu_2ch

LsuPending == lsu_pending' = IF lsu.req THEN ~LsuAck ELSE lsu_pending

Pending ==
  pending' = (MemCs \/ (pending /\ ~(ext_p_ready /\ p_valid)))

ReqrspToMem ==
  /\ Pending
  /\ p_valid' = (MemCs \/ (p_valid /\ ~ext_p_ready))
  /\ mem_rd_1d' = (MemReq /\ ~ext_q.wr)
  /\ mem_rdata_q' = IF ~pending' THEN None
                    ELSE IF mem_rd_1d THEN axi_mem_rdata ELSE mem_rdata_q
  /\ axi_mem_rdata' = IF MemCs /\ ~ext_q.wr THEN ExtRdata
                      ELSE IF pending' THEN axi_mem_rdata ELSE None

\* Variant with a mistake: a fetch that is being answered is asked again.
InstBridgeAsksAgain ==
  /\ is_ext_inst_pending' =
       ((q_valid /\ axi.inst_ready) \/ (is_ext_inst_pending /\ ~InstPosAck))
  /\ q_valid' = IF q_valid THEN ~axi.inst_ready ELSE inst_pos_req
  /\ q_addr' = IF ~q_valid /\ inst_pos_req THEN inst_pos_addr ELSE q_addr

InstBridge ==
  /\ is_ext_inst_pending' =
       ((q_valid /\ axi.inst_ready) \/ (is_ext_inst_pending /\ ~InstPosAck))
  /\ IF (q_valid /\ axi.inst_ready) \/ is_ext_inst_pending
       THEN /\ q_valid' = FALSE
            /\ q_addr' = IF is_ext_inst_pending' THEN q_addr ELSE None
       ELSE /\ q_valid' = (q_valid \/ inst_pos_req)
            /\ q_addr' = IF inst_pos_req THEN inst_pos_addr ELSE q_addr

DataHandshake == lsu_2ch.req /\ ~is_ext_data_pending /\ axi.data_ready

DataBridge ==
  is_ext_data_pending' = (DataHandshake \/ (is_ext_data_pending /\ ~DataAck))

---------------------------------------------------------------------------
(* The surroundings at the rising edge of clk_i.                           *)

\* Memory outside does an access when it accepts the request.  It accepts and
\* answers when it likes, but only what was asked.
AxiPos ==
  \E ir, iv, dr, dv \in BOOLEAN :
    /\ ir => q_valid'
    /\ iv => is_ext_inst_pending'
    /\ dr => lsu_2ch'.req /\ ~is_ext_data_pending'
    /\ dv => is_ext_data_pending'
    /\ xmem' = IF DataHandshake /\ lsu_2ch.wr
                 THEN [xmem EXCEPT ![lsu_2ch.addr] = lsu_2ch.data] ELSE xmem
    /\ axi' = [inst_ready |-> ir, inst_valid |-> iv,
               data_ready |-> dr, data_valid |-> dv,
               data |-> IF DataHandshake /\ ~lsu_2ch.wr
                          THEN xmem[lsu_2ch.addr]
                        ELSE IF is_ext_data_pending' THEN axi.data ELSE None]

\* The master keeps a request until it is accepted, may have the next one
\* ready, and takes an answer when it likes.  ext_reads remembers whether the
\* request being answered reads a word (meta_buf of axi_to_reqrsp).
MasterPos ==
  /\ IF ext_q.req /\ ~QReady
       THEN ext_q' = ext_q
       ELSE ext_q' \in ExtReqs \cup {NoReq}
  /\ ext_reads' = IF MemCs THEN ~ext_q.wr /\ ext_q.addr \notin Outside
                  ELSE ext_reads /\ pending'
  /\ ext_p_ready' \in IF p_valid' THEN BOOLEAN ELSE {FALSE}

\* The core starts an access with the instruction it has just fetched and
\* keeps it until it is acknowledged.
CorePos ==
  IF lsu.req /\ ~LsuAck
    THEN lsu' = lsu
    ELSE lsu' \in (IF FetchAck THEN LsuReqs ELSE {}) \cup {NoReq}

PosEdge ==
  /\ clk = "pos"
  /\ clk' = "neg"
  /\ InstDemuxPos /\ BromPos
  /\ CountExtItcmReq /\ ItcmPos
  /\ ExtDemuxPos
  /\ Lsu2ch /\ LsuPending
  /\ ReqrspToMem
  /\ InstBridge /\ DataBridge
  /\ AxiPos /\ MasterPos /\ CorePos
  /\ UNCHANGED negVars

---------------------------------------------------------------------------
(* Registers clocked by clk_neg_i.                                         *)

\* Variant with a mistake: the mask is not taken away.
ItcmMaskForever ==
  /\ ext_itcm_req_neg' = (ExtItcmReq \/ ext_itcm_req_neg)
  /\ ext_itcm_req_neg_1d' = ext_itcm_req_neg

\* Two cycles keep fetches off an external access.
ItcmMask ==
  /\ ext_itcm_req_neg' = ExtItcmReq
  /\ ext_itcm_req_neg_1d' = ext_itcm_req_neg

DemuxNeg ==
  /\ inst_pos_ack_toneg' = InstPosAck
  /\ ext_2ch_ack_toneg' = ext_2ch.req
  /\ lsu_2ch_ack_toneg' = DataAck
  /\ data_rdata_toneg' = IF DataAck THEN axi.data ELSE None

\* The access of the core, blanked while its channel outside is busy.
CoreDtcm ==
  IF lsu_2ch.req THEN [NoReq EXCEPT !.req = TRUE, !.addr = LowWord(Dtcm)]
  ELSE lsu

\* The master goes first.
DtcmNeg ==
  LET acc == IF ext_2ch.req THEN ext_2ch ELSE CoreDtcm
  IN IF ~ext_2ch.req /\ ~CoreDtcmReq
       THEN dtcm_rdata' = None /\ UNCHANGED dtcm
     ELSE IF acc.wr
       THEN /\ dtcm' = [dtcm EXCEPT ![acc.addr] = acc.data]
            /\ dtcm_rdata' = None
       ELSE /\ dtcm_rdata' = dtcm[acc.addr]
            /\ UNCHANGED dtcm

\* A fetch is kept until it is acknowledged; none is made while a load or
\* store waits or the reset delay lasts.
CoreNeg ==
  /\ rst_cnt' = IF rst_cnt < RstDelay THEN rst_cnt + 1 ELSE rst_cnt
  /\ IF fetch.req /\ ~FetchAck
       THEN fetch' = fetch
       ELSE fetch' \in (IF rst_cnt' < RstDelay \/ (lsu.req /\ ~LsuAck)
                          THEN {} ELSE FetchReqs) \cup {NoFetch}

NegEdge ==
  /\ clk = "neg"
  /\ clk' = "pos"
  /\ ItcmMask /\ DemuxNeg /\ DtcmNeg /\ CoreNeg
  /\ UNCHANGED posVars

\* Nothing of the core is on its way outside.
Quiet ==
  /\ ~inst_pos_req /\ ~q_valid /\ ~is_ext_inst_pending
  /\ ~lsu_2ch.req /\ ~lsu_pending

\* rst_soft_ni: only the core is reset.
SoftReset ==
  /\ Resets = "any" \/ (Resets = "quiet" /\ Quiet)
  /\ fetch' = NoFetch
  /\ lsu' = NoReq
  /\ rst_cnt' = 0
  /\ UNCHANGED <<clk, maskVars, demuxNegVars, dtcmVars, instPosVars,
                 itcmVars, demuxPosVars, reqrspVars, bridgeVars, envVars>>

Init ==
  /\ clk = "neg"
  /\ fetch = NoFetch /\ lsu = NoReq /\ rst_cnt = 0
  /\ inst_pos_req = FALSE /\ inst_pos_addr = None
  /\ inst_pos_ack_toneg = FALSE
  /\ inst_neg_ack_topos = FALSE /\ inst_neg_brom_ack_topos = FALSE
  /\ inst_pos_data_1d = None /\ brom_rdata = None
  /\ cnt_ext_itcm_req = 0
  /\ ext_itcm_req_neg = FALSE /\ ext_itcm_req_neg_1d = FALSE
  /\ itcm \in [Itcm -> Initial] /\ itcm_rdata = None
  /\ ext_2ch = NoReq /\ ext_pending = FALSE /\ ext_2ch_ack_toneg = FALSE
  /\ lsu_2ch = NoReq /\ lsu_pending = FALSE /\ lsu_2ch_ack_toneg = FALSE
  /\ data_rdata_toneg = None
  /\ dtcm \in [Dtcm -> Initial] /\ dtcm_rdata = None
  /\ pending = FALSE /\ p_valid = FALSE /\ mem_rd_1d = FALSE
  /\ mem_rdata_q = None /\ axi_mem_rdata = None
  /\ is_ext_inst_pending = FALSE /\ q_valid = FALSE /\ q_addr = None
  /\ is_ext_data_pending = FALSE
  /\ axi = [inst_ready |-> FALSE, inst_valid |-> FALSE, data_ready |-> FALSE,
            data_valid |-> FALSE, data |-> None]
  /\ xmem \in [ExtData -> Initial]
  /\ ext_q = NoReq /\ ext_reads = FALSE /\ ext_p_ready = FALSE

Next == NegEdge \/ PosEdge \/ SoftReset

\* Both clocks run, the core is reset only so often, the bus accepts and
\* answers what it is asked, and the master takes its answers and is without
\* a request now and then.
Fairness ==
  /\ []<>(clk = "neg") /\ []<>(clk = "pos")
  /\ <>[](rst_cnt = RstDelay)
  /\ []<>(~q_valid \/ axi.inst_ready)
  /\ []<>(~is_ext_inst_pending \/ axi.inst_valid)
  /\ []<>(~lsu_2ch.req \/ is_ext_data_pending \/ axi.data_ready)
  /\ []<>(~is_ext_data_pending \/ axi.data_valid)
  /\ []<>(~p_valid \/ ext_p_ready)
  /\ []<>(~ext_q.req /\ ~pending)

Spec == Init /\ [][Next]_vars /\ Fairness

---------------------------------------------------------------------------
(* Properties.                                                             *)

Values == Data \cup {None}
FetchWords == Brom \cup Itcm \cup ExtInst

TypeOK ==
  /\ clk \in {"neg", "pos"}
  /\ fetch \in FetchReqs \cup {NoFetch}
  /\ lsu \in LsuReqs \cup {NoReq}
  /\ rst_cnt \in 0..RstDelay
  /\ {inst_pos_req, inst_pos_ack_toneg, inst_neg_ack_topos,
      inst_neg_brom_ack_topos, ext_itcm_req_neg, ext_itcm_req_neg_1d,
      ext_pending, ext_2ch_ack_toneg, lsu_pending, lsu_2ch_ack_toneg,
      pending, p_valid, mem_rd_1d, is_ext_inst_pending, q_valid,
      is_ext_data_pending, ext_reads, ext_p_ready} \subseteq BOOLEAN
  /\ {inst_pos_addr, inst_pos_data_1d, q_addr} \subseteq ExtInst \cup {None}
  /\ brom_rdata \in Brom \cup {None}
  /\ cnt_ext_itcm_req \in 0..3
  /\ itcm \in [Itcm -> Data]
  /\ dtcm \in [Dtcm -> Data]
  /\ xmem \in [ExtData -> Data]
  /\ {itcm_rdata, dtcm_rdata, data_rdata_toneg, mem_rdata_q,
      axi_mem_rdata} \subseteq Values
  /\ ext_2ch \in Request(Dtcm, MasterData) \cup {NoReq}
  /\ lsu_2ch \in Request(ExtData, CoreData) \cup {NoReq}
  /\ axi \in [inst_ready : BOOLEAN, inst_valid : BOOLEAN,
              data_ready : BOOLEAN, data_valid : BOOLEAN, data : Values]
  /\ ext_q \in ExtReqs \cup {NoReq}

\* What each party sees of its access, in the terms of MemoryPorts.
Waiting(r) == [st |-> "wait", op |-> [addr |-> r.addr, wr |-> r.wr,
                                      data |-> r.data]]
Answered(val) == [st |-> "done", val |-> val]
Nothing == [st |-> "idle"]

FetchPort ==
  IF ~fetch.req THEN Nothing
  ELSE IF FetchAck /\ clk = "neg"
    THEN Answered(IF FetchError THEN "error" ELSE FetchData)
  ELSE Waiting([addr |-> fetch.addr, wr |-> FALSE, data |-> None])

LsuPort ==
  LET found(val) == Answered(IF lsu.wr THEN "ok" ELSE val)
      acked == LsuAck /\ clk = "pos"
  IN IF ~lsu.req THEN Nothing
     ELSE IF lsu.addr \in Dtcm /\ acked THEN found(LsuRdata)
     ELSE IF lsu.addr \in ExtData /\ is_ext_data_pending
       THEN found(IF acked THEN LsuRdata ELSE axi.data)
     ELSE IF LsuError /\ clk = "pos" THEN Answered("error")
     ELSE Waiting(lsu)

ExtPort ==
  IF pending THEN Answered(IF ext_reads THEN PData ELSE "ok")
  ELSE IF ~ext_q.req THEN Nothing
  ELSE IF \/ ext_q.addr \in Itcm /\ ExtItcmCs1d
          \/ ext_2ch.req /\ clk = "pos"
    THEN Answered(IF ext_q.wr THEN "ok" ELSE ExtRdata)
  ELSE Waiting(ext_q)

Words == Itcm \cup Dtcm \cup ExtData

Bank == [w \in Words |-> IF w \in Itcm THEN "itcm"
                         ELSE IF w \in Dtcm THEN "dtcm" ELSE "outside"]

Memory == [w \in Words |-> IF w \in Itcm THEN itcm[w]
                           ELSE IF w \in Dtcm THEN dtcm[w] ELSE xmem[w]]

PortNames == {"fetch", "lsu", "ext"}

Seen == [p \in PortNames |-> IF p = "fetch" THEN FetchPort
                             ELSE IF p = "lsu" THEN LsuPort ELSE ExtPort]

Ports == INSTANCE MemoryPorts WITH
  Ports <- PortNames, Masters <- {"ext"}, Fixed <- Brom \cup ExtInst,
  mem <- Memory, port <- Seen

\* Every access of the core and of a master outside takes effect once, while
\* it is asked for, on one memory at a time, and its answer is what it found
\* there, whatever the masks, registers and bridges on its way.
ServesPorts == Ports!MemSpec

\* No access waits for ever, at whichever port and whatever the others ask.
AccessEnds == \A p \in PortNames :
  Ports!Waits(p) ~> ~Ports!Waits(p)

\* Only an address that no range holds is answered with an error.
ErrorOnlyOutOfRange == lsu.req /\ LsuError => lsu.addr \in Outside

\* An acknowledged fetch gets the word it asked for: not that of another
\* fetch, nor what an external access left at the output of the ITCM.
FetchGetsItsWord ==
  clk = "neg" /\ FetchAck /\ ~FetchError =>
    FetchData = IF fetch.addr \in Itcm THEN itcm[fetch.addr] ELSE fetch.addr

\* The request of the master, its count and its mask go together, so that
\* an external access and a fetch never meet at the ITCM.
MasterInv ==
  /\ pending <=> p_valid
  /\ ext_2ch.req => MemReq /\ ext_2ch = ext_q
  /\ ext_pending => MemReq /\ (ext_q.addr \in Dtcm => ext_2ch.req)
  /\ cnt_ext_itcm_req \in {1, 2} => ExtItcmReq /\ ext_itcm_req_neg
  /\ cnt_ext_itcm_req = 3 => pending
  /\ cnt_ext_itcm_req = 2 => ~ext_2ch_ack_toneg
  /\ clk = "pos" => /\ ext_itcm_req_neg <=> ExtItcmReq
                    /\ ext_2ch_ack_toneg <=> ext_2ch.req

\* What is on its way outside was asked for by the fetch that waits.
FetchInv ==
  /\ inst_pos_req => fetch.req /\ inst_pos_addr = fetch.addr
                      /\ fetch.addr \in ExtInst
  /\ q_valid \/ is_ext_inst_pending => inst_pos_req /\ q_addr = inst_pos_addr
  /\ ~(q_valid /\ is_ext_inst_pending)
  /\ axi.inst_valid => is_ext_inst_pending
  /\ clk = "pos" => (inst_pos_ack_toneg <=> axi.inst_valid)
  /\ clk = "neg" /\ inst_pos_ack_toneg => ~inst_pos_req

\* The channel outside and the pending flag belong to the access of the core.
LsuInv ==
  /\ lsu_2ch.req => lsu_2ch = lsu
  /\ lsu_pending => lsu.req
  /\ lsu_pending /\ lsu.addr \in ExtData => lsu_2ch.req
  /\ is_ext_data_pending => lsu_2ch.req
  /\ axi.data_valid => is_ext_data_pending

\* What the two answers above rest on, while a reset comes in quiet moments.
FabricInv ==
  /\ TypeOK
  /\ MasterInv
  /\ Resets # "any" => FetchInv /\ LsuInv /\ FetchGetsItsWord
==============================================================================
