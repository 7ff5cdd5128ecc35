------------------------------- MODULE Xmodem -------------------------------
(***************************************************************************)
(* The boot loader of the boot ROM (sw/bootrom/main.c): two XMODEM         *)
(* transfers, the first to the instruction memory and the second to the    *)
(* data memory, then a flag and a jump.  The host at the other end is not  *)
(* part of the repository: it is the usual stop-and-wait sender.  The line *)
(* loses and damages bytes in both directions, and the core may be reset   *)
(* at any moment.                                                          *)
(*                                                                         *)
(* A step of the receiver is one uart_getc and what follows it up to the   *)
(* next one.  The 128 data bytes of a block and the two bytes of its CRC   *)
(* are one token each: a checksum is that of its data and of nothing else. *)
(***************************************************************************)
EXTENDS Integers, Sequences

CONSTANTS
  Images,       \* what the host may want in the memories, one choice per behaviour
  MaxSize,      \* MaxSize[r]: the size of memory r in blocks
  DataTop,      \* the data of a block is a number from 1000 to this
  NumMod,       \* the numbers a block number byte can hold (256)
  ErrorLimit,   \* consecutive errors that are tolerated (3)
  MaxFaults,    \* bytes the line may lose or damage
  MaxResets,    \* resets in a behaviour
  DamageTo      \* what a damaged byte may turn into

Regions == {"itcm", "dtcm"}

(* Numbers, control bytes and noise are plain, and so are the data of a     *)
(* block; a checksum is above all of them.  SOH is also a number.           *)
Data == 1000..DataTop
Plain == -999..DataTop
Above == DataTop + 1000
SOH == 1
EOT == -4
ACK == -6
NAK == -5
CAN == -8
CHR == -3                       \* the 'C' that asks for a transfer with CRC
CrcHi(d) == d + Above
CrcLo(d) == d + 3 * Above

ASSUME XmodemAssumption ==
  /\ \A im \in Images, r \in Regions : im[r] \in Seq(Data) /\ Len(im[r]) > 0
  /\ \A r \in Regions : MaxSize[r] \in Nat
  /\ DataTop \in Nat /\ NumMod \in Nat /\ NumMod >= 3 /\ NumMod <= 999 /\ ErrorLimit \in Nat
  /\ MaxFaults \in Nat /\ MaxResets \in Nat
  /\ DamageTo \subseteq Plain /\ DamageTo \cap {EOT, CAN} = {}

VARIABLES
  image,        \* the images of this behaviour
  pc,           \* where the receiver waits
  region,       \* the memory being written
  frame,        \* the bytes read of the current frame, after SOH
  block_num, total_received, error_count,
  mem,          \* mem[r]: the blocks written to memory r, in place
  tobrom,       \* the flag tested after a reset
  toRx, toTx,   \* bytes on the line
  host,         \* the host: the memory it serves, the block, what it does
  faults, resets,
  stale         \* a reset has left bytes of an unfinished transfer on the line

xfer == <<block_num, total_received, error_count>>
rxvars == <<pc, region, frame, xfer, mem, tobrom>>
vars == <<image, rxvars, toRx, toTx, host, faults, resets, stale>>
outside == <<image, host, faults, resets, stale>>

-----------------------------------------------------------------------------
(* The receiver *)

(* xmodem_receive starts afresh for memory r. *)
StartReceive(r) ==
  /\ pc' = "start" /\ region' = r
  /\ block_num' = 0 /\ total_received' = 0 /\ error_count' = 0

(* What the boot loader does with the result of xmodem_receive: it gives up *)
(* after a failure, and sets the flag and jumps after the second success.   *)
BootloaderFails == pc' = "failed" /\ UNCHANGED <<region, xfer, tobrom>>
(* FlagAfterItcm is a plausible mistake: the flag is set with the code.     *)
FlagAfterItcm ==
  IF region = "itcm"
  THEN StartReceive("dtcm") /\ tobrom' = TRUE
  ELSE tobrom' = TRUE /\ pc' = "running" /\ UNCHANGED <<region, xfer>>
BootloaderGoesOn ==
  IF region = "itcm"
  THEN StartReceive("dtcm") /\ UNCHANGED tobrom
  ELSE tobrom' = TRUE /\ pc' = "running" /\ UNCHANGED <<region, xfer>>

(* A plausible mistake: errors are not counted.                              *)
ErrorsUncounted(answer) ==
  /\ frame' = <<>> /\ UNCHANGED <<mem, region, xfer, tobrom>>
  /\ toTx' = Append(toTx, answer) /\ pc' = "header"

(* An error of xmodem_receive_block, which has answered and drops the frame: *)
(* xmodem_receive counts it and gives up after too many.                     *)
BlockError(answer) ==
  /\ frame' = <<>> /\ UNCHANGED mem
  /\ IF error_count + 1 > ErrorLimit
     THEN toTx' = toTx \o <<answer, CAN, CAN>> /\ BootloaderFails
     ELSE /\ toTx' = Append(toTx, answer) /\ pc' = "header"
          /\ error_count' = error_count + 1
          /\ UNCHANGED <<region, block_num, total_received, tobrom>>

(* A plausible mistake: the size is not compared. *)
SizeUnchecked ==
  /\ mem' = [mem EXCEPT ![region] =
       SubSeq(@, 1, total_received) \o <<frame[3]>>
         \o SubSeq(@, total_received + 2, Len(@))]
  /\ block_num' = frame[1] /\ frame' = <<>>
  /\ total_received' = total_received + 1 /\ error_count' = 0
  /\ UNCHANGED <<region, tobrom>>
  /\ toTx' = Append(toTx, ACK) /\ pc' = "header"

(* The block is copied, and only then compared with the size of the memory. *)
BlockReceived ==
  /\ mem' = [mem EXCEPT ![region] =
       SubSeq(@, 1, total_received) \o <<frame[3]>>
         \o SubSeq(@, total_received + 2, Len(@))]
  /\ block_num' = frame[1] /\ frame' = <<>>
  /\ total_received' = total_received + 1 /\ error_count' = 0
  /\ UNCHANGED <<region, tobrom>>
  /\ IF total_received + 1 > MaxSize[region]
     THEN toTx' = toTx \o <<ACK, CAN, CAN>> /\ pc' = "failed"
     ELSE toTx' = Append(toTx, ACK) /\ pc' = "header"

(* The uint8_t that the next block must carry; the variant takes any. *)
any_num == frame[1]
expected_num == (block_num + 1) % NumMod

Get(at) == pc = at /\ toRx # <<>> /\ toRx' = Tail(toRx) /\ UNCHANGED outside
GoOn(to) == pc' = to /\ UNCHANGED <<region, xfer, mem, tobrom, toTx>>

(* _brom_main: a program that was loaded before the reset is started again. *)
BromMain ==
  /\ pc = "main"
  /\ IF tobrom THEN pc' = "running" /\ UNCHANGED <<region, xfer>>
               ELSE StartReceive("itcm")
  /\ UNCHANGED <<frame, mem, tobrom, toRx, toTx, outside>>

(* The loop that sends 'C' until the first byte is there. *)
SendC ==
  /\ pc = "start" /\ toRx = <<>> /\ toTx = <<>> /\ toTx' = <<CHR>>
  /\ UNCHANGED <<rxvars, toRx, outside>>
StartSeen ==
  /\ pc = "start" /\ toRx # <<>> /\ GoOn("header")
  /\ UNCHANGED <<frame, toRx, outside>>

(* An end of transmission is acknowledged and ends xmodem_receive, which is *)
(* a failure when nothing was received.                                     *)
EndOfTransmission ==
  /\ Get("header") /\ Head(toRx) = EOT
  /\ toTx' = Append(toTx, ACK) /\ UNCHANGED <<frame, mem>>
  /\ IF total_received > 0 THEN BootloaderGoesOn ELSE BootloaderFails

Header ==
  /\ Get("header") /\ Head(toRx) # EOT
  /\ CASE Head(toRx) = CAN -> GoOn("can") /\ UNCHANGED frame
       [] Head(toRx) = SOH -> GoOn("frame") /\ frame' = <<>>
       [] OTHER -> BlockError(NAK)

(* A second CAN is acknowledged; anything else makes the first one noise. *)
SecondCan ==
  /\ Get("can") /\ BlockError(IF Head(toRx) = CAN THEN ACK ELSE NAK)

(* The packet number, its complement, the data and the two bytes of the     *)
(* checksum.  A wrong complement ends the frame at once: what follows is    *)
(* read as headers.  A block that was acknowledged already is refused like  *)
(* any other wrong number.                                                  *)
Refused(f) ==
  \/ Len(f) = 2 /\ f[1] + f[2] # NumMod - 1
  \/ Len(f) = 5 /\ <<f[4], f[5]>> # <<CrcHi(f[3]), CrcLo(f[3])>>
  \/ Len(f) = 5 /\ f[1] # expected_num
FrameByte ==
  /\ Get("frame")
  /\ LET f == Append(frame, Head(toRx)) IN
     \/ Refused(f) /\ BlockError(NAK)
     \/ ~Refused(f) /\ Len(f) = 5 /\ BlockReceived
     \/ ~Refused(f) /\ Len(f) < 5 /\ GoOn("frame") /\ frame' = f

Receiver ==
  \/ BromMain \/ SendC \/ StartSeen \/ EndOfTransmission
  \/ Header \/ SecondCan \/ FrameByte

-----------------------------------------------------------------------------
(* The host and the line *)

Packet(r, n) ==
  LET d == image[r][n]
  IN <<SOH, n % NumMod, NumMod - 1 - (n % NumMod), d, CrcHi(d), CrcLo(d)>>
Drop(s, i) == SubSeq(s, 1, i - 1) \o SubSeq(s, i + 1, Len(s))

(* The host sends s: it arrives, or a byte of it is lost or damaged, or     *)
(* nothing of it arrives.                                                   *)
Transmit(s) ==
  \/ toRx' = toRx \o s /\ UNCHANGED faults
  \/ /\ faults < MaxFaults /\ faults' = faults + 1
     /\ \/ UNCHANGED toRx
        \/ \E i \in DOMAIN s : toRx' = toRx \o Drop(s, i)
        \/ \E i \in DOMAIN s, b \in DamageTo : toRx' = toRx \o [s EXCEPT ![i] = b]

(* The block n of memory r, or the end of the transmission after the last. *)
Send(r, n) ==
  /\ host' = [reg |-> r, n |-> n, st |-> "sent"]
  /\ Transmit(IF n > Len(image[r]) THEN <<EOT>> ELSE Packet(r, n))

HostReads ==
  /\ toTx # <<>> /\ toTx' = Tail(toTx)
  /\ UNCHANGED <<image, rxvars, resets, stale>>
  /\ LET b == Head(toTx) IN
     CASE host.st = "waits" /\ b = CHR -> Send(host.reg, 1)
       [] host.st = "sent" /\ b = NAK -> Send(host.reg, host.n)
       [] host.st = "sent" /\ b = ACK /\ host.n <= Len(image[host.reg]) ->
            Send(host.reg, host.n + 1)
       [] host.st = "sent" /\ b = ACK /\ host.n > Len(image[host.reg]) ->
            /\ host' = IF host.reg = "itcm"
                       THEN [reg |-> "dtcm", n |-> 1, st |-> "waits"]
                       ELSE [host EXCEPT !.st = "done"]
            /\ UNCHANGED <<toRx, faults>>
       [] host.st = "sent" /\ b = CAN ->
            host' = [host EXCEPT !.st = "cancelled"] /\ UNCHANGED <<toRx, faults>>
       [] OTHER -> UNCHANGED <<host, toRx, faults>>

(* An answer is lost on its way to the host. *)
LoseAnswer ==
  /\ toTx # <<>> /\ toTx' = Tail(toTx)
  /\ faults < MaxFaults /\ faults' = faults + 1
  /\ UNCHANGED <<image, rxvars, toRx, host, resets, stale>>

(* The host hears nothing for a while and sends again, when the line is     *)
(* silent or too early, with an answer on its way.  It may also cancel the  *)
(* transfer.                                                                *)
HostTimeout ==
  /\ host.st = "sent" /\ toRx = <<>> /\ Len(toTx) <= 1
  /\ Send(host.reg, host.n)
  /\ UNCHANGED <<image, rxvars, toTx, resets, stale>>
HostCancels ==
  /\ host.st = "sent" /\ toRx = <<>>
  /\ faults < MaxFaults /\ faults' = faults + 1
  /\ host' = [host EXCEPT !.st = "aborted"] /\ toRx' = <<CAN, CAN, CAN, CAN>>
  /\ UNCHANGED <<image, rxvars, toTx, resets, stale>>

(* The soft reset of the core, after which the host is started again too    *)
(* and discards what it has not read; the memories and the bytes on their   *)
(* way to the core survive it: uart_init leaves the receiver's FIFO alone.  *)
SoftReset ==
  /\ resets < MaxResets /\ resets' = resets + 1
  /\ pc' = "main" /\ frame' = <<>>
  /\ host' = [reg |-> "itcm", n |-> 1, st |-> "waits"]
  /\ toTx' = <<>>
  /\ stale' = (stale \/ (toRx # <<>> /\ ~tobrom))
  /\ UNCHANGED <<image, region, xfer, mem, tobrom, toRx, faults>>

Init ==
  /\ image \in Images
  /\ pc = "main" /\ region = "itcm" /\ frame = <<>>
  /\ block_num = 0 /\ total_received = 0 /\ error_count = 0
  /\ mem = [r \in Regions |-> <<>>] /\ tobrom = FALSE
  /\ toRx = <<>> /\ toTx = <<>>
  /\ host = [reg |-> "itcm", n |-> 1, st |-> "waits"]
  /\ faults = 0 /\ resets = 0 /\ stale = FALSE

Next == Receiver \/ HostReads \/ LoseAnswer \/ HostTimeout \/ HostCancels \/ SoftReset

(* The core runs, and the host reads its line and sends again when nothing  *)
(* but the letter C comes.                                                  *)
Spec == Init /\ [][Next]_vars /\ WF_vars(Receiver) /\ WF_vars(HostReads)
             /\ SF_vars(HostTimeout)

-----------------------------------------------------------------------------
(* Properties *)

Bytes == -999..4 * Above
TypeOK ==
  /\ image \in Images
  /\ pc \in {"main", "start", "header", "can", "frame", "failed", "running"}
  /\ region \in Regions /\ frame \in Seq(Bytes) /\ Len(frame) < 5
  /\ block_num \in 0..NumMod - 1 /\ total_received \in Nat
  /\ error_count \in 0..ErrorLimit
  /\ mem \in [Regions -> Seq(Bytes)] /\ tobrom \in BOOLEAN
  /\ toRx \in Seq(Bytes) /\ toTx \in Seq(Bytes)
  /\ host \in [reg : Regions, n : Nat \ {0},
               st : {"waits", "sent", "done", "cancelled", "aborted"}]
  /\ faults \in 0..MaxFaults /\ resets \in 0..MaxResets /\ stale \in BOOLEAN

IsInitial(s, t) == Len(s) <= Len(t) /\ s = SubSeq(t, 1, Len(s))

(* The program that is started is the whole program: both memories begin    *)
(* with all the blocks the host has for them, in order, whatever was lost,  *)
(* damaged, sent twice or interrupted by a reset, unless the reset left     *)
(* bytes on the line: the next transfer reads them as its own (main.c       *)
(* l.249, l.318).                                                           *)
RunsWholeImage ==
  pc = "running" /\ ~stale => \A r \in Regions : IsInitial(image[r], mem[r])

(* What has been received is a beginning of the image: no block twice, none *)
(* left out, none of the other memory's (l.127-143).                        *)
ReceivedInOrder ==
  ~stale /\ pc # "main" =>
    IsInitial(SubSeq(mem[region], 1, total_received), image[region])

(* A program for which a memory is too small is not started, and the blocks *)
(* written past the end of a memory are never more than one (l.184).        *)
OverrunStops ==
  \A r \in Regions : /\ Len(mem[r]) <= MaxSize[r] + 1
                     /\ pc = "running" /\ ~stale => Len(mem[r]) <= MaxSize[r]

(* Counts and errors keep their bounds, and so does what is written to the  *)
(* memories, through any mixture of faults and retries (l.184-202).         *)
LoaderSound == TypeOK /\ OverrunStops

(* A transfer that is neither reset nor cancelled by the host ends: the      *)
(* program is started or the loader gives up, even if an acknowledge is lost *)
(* and the block refused each time it is sent again.  It ends unless an end  *)
(* of transmission that was sent twice stopped the 'C' of the second         *)
(* transfer: then both sides wait (l.166).                                   *)
Crossed == host.st = "waits" /\ host.reg = "dtcm" /\ pc \in {"header", "can", "frame"}
TransferEnds ==
  [](resets = 0 /\ host.st # "aborted") => <>(pc \in {"running", "failed"} \/ Crossed)
=============================================================================
