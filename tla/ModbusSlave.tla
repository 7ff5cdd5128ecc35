---------------------------- MODULE ModbusSlave ----------------------------
(***************************************************************************)
(* The Modbus RTU slave of sw/freemodbus on the hardware UART: the polling *)
(* loop (mb.c), the frame layer (mbrtu.c), the port to this core           *)
(* (portserial.c, porttimer.c, portevent.c, whose critical sections are    *)
(* empty) and the registers of the demonstration (demo.c).  Around it: the *)
(* UART and its interrupt, the timer of the CLINT, and a master that sends *)
(* requests to this slave, to others and to all, some of them damaged.     *)
(*                                                                         *)
(* A step of the loop makes one access to what it shares with the          *)
(* interrupt handlers.  A handler is one step, but for the wait for room   *)
(* in the transmitter.  Time is counted in characters: Tick is the time of *)
(* one character on the line.  A frame is an address, a function with its  *)
(* data and a checksum, each a token, and the checksum detects any damage. *)
(***************************************************************************)
EXTENDS Integers, Sequences

CONSTANTS
  T35,          \* the silence that ends a frame, in characters (3.5)
  MaxFrame,     \* MB_SER_PDU_SIZE_MAX, in tokens
  RxDepth,      \* the bytes the UART holds for the loop (16)
  TextLen,      \* characters of the message printed for an exception
  Damages,      \* what a damaged byte may turn into
  MaxFaults,    \* frames the line may damage
  FastCpu,      \* the loop is done with an event before another byte comes
  Prompt        \* an interrupt is taken before the loop's next access

(* Bytes are sequences of names: one name for an address or a function, two *)
(* for the checksum of an address and a function.                           *)
Names == {"me", "other", "all", "read", "write", "outside", "unknown", "data",
          "exception", "junk", "text"}
Tokens == Seq(Names)
Addrs == {<<"me">>, <<"other">>, <<"all">>}
Me == <<"me">>
Broadcast == <<"all">>
Requests == {<<"read">>, <<"write">>, <<"outside">>, <<"unknown">>}
Junk == <<"junk">>
Text == <<"text">>

(* The values of a USHORT, and the one that arithmetic leaves in it.        *)
USHORT == 0..65535
Wrapped(n) == n % 65536

Frame(a, p) == <<a, p, a \o p>>
CrcOk(s) == Len(s) = 3 /\ s[3] = s[1] \o s[2]
MinFrame == 3                                   \* MB_SER_PDU_SIZE_MIN

ASSUME ModbusAssumption ==
  /\ T35 \in Nat \ {0} /\ MaxFrame \in Nat /\ MaxFrame >= MinFrame
  /\ RxDepth \in Nat \ {0} /\ TextLen \in Nat /\ MaxFaults \in Nat
  /\ Damages \subseteq Tokens
  /\ FastCpu \in BOOLEAN /\ Prompt \in BOOLEAN

VARIABLES
  ier, iir, rxf, txf, shift,   \* UART: interrupts enabled and identified, the
                               \* bytes received and to be sent, the one on the line
  mtime, mtie,                 \* characters since the timer was set; its enable bit
  eRcvState, eSndState, ucRTUBuf, usRcvBufferPos,
  pucSndBufferCur, usSndBufferCount,
  xEventInQueue, eQueuedEvent,
  pc, isr,                     \* the next access of the loop; whether a handler waits
  loop,                        \* the loop's variables: event, address, length, byte,
                               \* pointer, exception, characters left to print
  sending, gap, await,         \* master: rest of its frame, silence, expects a reply
  line, up, due, served, heard, faults  \* what an observer of the line knows

uart == <<ier, iir, rxf, txf, shift>>
timer == <<mtime, mtie>>
receiver == <<eRcvState, ucRTUBuf, usRcvBufferPos>>
sender == <<eSndState, pucSndBufferCur, usSndBufferCount>>
queue == <<xEventInQueue, eQueuedEvent>>
master == <<sending, gap, await, line, up, due, served, heard, faults>>
vars == <<uart, timer, receiver, sender, queue, pc, isr, loop, master>>

(***************************************************************************)
(* The UART's interrupt.  The identification register keeps a cause until  *)
(* the read that clears it, also when the cause is no longer enabled.      *)
(***************************************************************************)
Settled(i, enabled, rx, tx) ==
  IF "rx" \in enabled /\ rx # <<>> THEN "rx"
  ELSE IF "tx" \in enabled /\ tx = <<>> THEN "tx" ELSE i

(* Every step leaves in the register what the interrupt logic puts there.   *)
Identify(i) == iir' = Settled(i, ier', rxf', txf')

(* uart_putc, once the transmitter has room.                                *)
RoomToSend == txf = <<>>
Put(b) ==
  IF shift = <<>> THEN shift' = <<b>> /\ txf' = <<>>
                  ELSE txf' = <<b>> /\ UNCHANGED shift

vMBPortSerialEnable(kinds) == ier' = kinds
vMBPortTimersEnable == mtime' = 0 /\ mtie' = TRUE

(* xMBPortEventPost, where nothing comes between its two assignments.       *)
Post(event) == xEventInQueue' = TRUE /\ eQueuedEvent' = event

TimerPending == mtie /\ mtime = T35

(***************************************************************************)
(* Interrupt handlers.                                                     *)
(***************************************************************************)

InterruptTaken == isr = "no"

(* Mutants: a frame that is too long is cut instead of ignored; the handler  *)
(* of the timer lets a faulty frame go on.                                  *)
ReceiveFsmCuts(b) ==
  /\ vMBPortTimersEnable
  /\ \/ eRcvState \in {"INIT", "ERROR"} /\ UNCHANGED receiver
     \/ /\ eRcvState = "IDLE"
        /\ ucRTUBuf' = [ucRTUBuf EXCEPT ![1] = b]
        /\ usRcvBufferPos' = 1 /\ eRcvState' = "RCV"
     \/ /\ eRcvState = "RCV" /\ usRcvBufferPos < MaxFrame
        /\ ucRTUBuf' = [ucRTUBuf EXCEPT ![usRcvBufferPos + 1] = b]
        /\ usRcvBufferPos' = usRcvBufferPos + 1
        /\ UNCHANGED eRcvState
     \/ eRcvState = "RCV" /\ usRcvBufferPos = MaxFrame /\ UNCHANGED receiver

TimerLeavesError ==
  /\ InterruptTaken /\ iir = "none" /\ TimerPending
  /\ \/ eRcvState = "INIT" /\ Post("READY")
     \/ eRcvState = "RCV" /\ Post("FRAME_RECEIVED")
     \/ eRcvState \in {"ERROR", "IDLE"} /\ UNCHANGED queue
  /\ mtie' = FALSE /\ eRcvState' = (IF eRcvState = "ERROR" THEN "ERROR" ELSE "IDLE")
  /\ UNCHANGED <<uart, mtime, ucRTUBuf, usRcvBufferPos, sender, pc, isr, loop,
                 master>>

(* xMBRTUReceiveFSM with the byte b.                                        *)
xMBRTUReceiveFSM(b) ==
  /\ vMBPortTimersEnable
  /\ \/ /\ eRcvState \in {"INIT", "ERROR"}
        /\ UNCHANGED receiver
     \/ /\ eRcvState = "IDLE"
        /\ ucRTUBuf' = [ucRTUBuf EXCEPT ![1] = b]
        /\ usRcvBufferPos' = 1 /\ eRcvState' = "RCV"
     \/ /\ eRcvState = "RCV" /\ usRcvBufferPos < MaxFrame
        /\ ucRTUBuf' = [ucRTUBuf EXCEPT ![usRcvBufferPos + 1] = b]
        /\ usRcvBufferPos' = usRcvBufferPos + 1
        /\ UNCHANGED eRcvState
     \/ /\ eRcvState = "RCV" /\ usRcvBufferPos = MaxFrame
        /\ eRcvState' = "ERROR"
        /\ UNCHANGED <<ucRTUBuf, usRcvBufferPos>>

(* EXT_IRQ_Handler for a received byte.                                     *)
RxInterrupt ==
  /\ InterruptTaken /\ iir = "rx" /\ rxf # <<>>
  /\ rxf' = Tail(rxf)
  /\ xMBRTUReceiveFSM(Head(rxf))
  /\ UNCHANGED <<ier, txf, shift, sender, queue, pc, isr, loop, master>>
  /\ Identify("none")

(* Mutant: the end of the reply leaves the receive interrupt off.           *)
FrameSentStaysDeaf ==
  /\ eSndState = "XMIT" /\ usSndBufferCount = 0
  /\ Post("FRAME_SENT")
  /\ vMBPortSerialEnable({})
  /\ eSndState' = "IDLE"
  /\ UNCHANGED <<txf, shift, pucSndBufferCur, usSndBufferCount>>

(* xMBRTUTransmitFSM: the state is idle, there is a byte, there is none.    *)
IdleTransmitter ==
  /\ eSndState = "IDLE"
  /\ vMBPortSerialEnable({"rx"})
  /\ UNCHANGED <<txf, shift, sender, queue>>

SendNext ==
  /\ Put(ucRTUBuf[pucSndBufferCur])
  /\ pucSndBufferCur' = pucSndBufferCur + 1
  /\ usSndBufferCount' = usSndBufferCount - 1
  /\ UNCHANGED <<ier, eSndState, queue>>

FrameSent ==
  /\ eSndState = "XMIT" /\ usSndBufferCount = 0
  /\ Post("FRAME_SENT")
  /\ vMBPortSerialEnable({"rx"})
  /\ eSndState' = "IDLE"
  /\ UNCHANGED <<txf, shift, pucSndBufferCur, usSndBufferCount>>

(* EXT_IRQ_Handler for an empty transmitter: reading the register clears    *)
(* the cause, and a byte is written when there is room for it.              *)
TxInterrupt ==
  /\ InterruptTaken /\ iir = "tx"
  /\ \/ /\ IdleTransmitter \/ FrameSent
        /\ isr' = "no"
     \/ /\ eSndState = "XMIT" /\ usSndBufferCount # 0 /\ RoomToSend
        /\ SendNext /\ isr' = "no"
     \/ /\ eSndState = "XMIT" /\ usSndBufferCount # 0 /\ ~RoomToSend
        /\ isr' = "tx"
        /\ UNCHANGED <<ier, txf, shift, sender, queue>>
  /\ UNCHANGED <<rxf, timer, receiver, pc, loop, master>>
  /\ Identify(Settled("none", ier, rxf, txf))

TxInterruptGoesOn ==
  /\ isr = "tx" /\ RoomToSend
  /\ SendNext /\ isr' = "no"
  /\ UNCHANGED <<rxf, timer, receiver, pc, loop, master>>
  /\ Identify(iir)

(* xMBRTUTimerT35Expired, when no external interrupt comes first.           *)
TimerInterrupt ==
  /\ InterruptTaken /\ iir = "none" /\ TimerPending
  /\ \/ eRcvState = "INIT" /\ Post("READY")
     \/ eRcvState = "RCV" /\ Post("FRAME_RECEIVED")
     \/ eRcvState \in {"ERROR", "IDLE"} /\ UNCHANGED queue
  /\ mtie' = FALSE /\ eRcvState' = "IDLE"
  /\ UNCHANGED <<uart, mtime, ucRTUBuf, usRcvBufferPos, sender, pc, isr, loop,
                 master>>

Interrupt == RxInterrupt \/ TxInterrupt \/ TxInterruptGoesOn \/ TimerInterrupt

(***************************************************************************)
(* The polling loop: eMBPoll and what it calls.                            *)
(***************************************************************************)
Resting == [event |-> "READY", address |-> Junk, length |-> 0, byte |-> Junk,
            cur |-> 0, error |-> FALSE, left |-> 0]

Pending == iir # "none" \/ TimerPending

At(label) == isr = "no" /\ pc = label /\ (Prompt => ~Pending)

Returns == pc' = "poll" /\ loop' = Resting

(* xMBPortEventGet: the flag is tested, the event read, the flag cleared.   *)
PollEvent ==
  /\ At("poll") /\ xEventInQueue
  /\ pc' = "get"
  /\ UNCHANGED <<receiver, sender, queue, loop>>

GetEvent ==
  /\ At("get")
  /\ loop' = [loop EXCEPT !.event = eQueuedEvent]
  /\ pc' = "clear"
  /\ UNCHANGED <<receiver, sender, queue>>

ClearEvent ==
  /\ At("clear")
  /\ xEventInQueue' = FALSE
  /\ \/ loop.event = "FRAME_RECEIVED" /\ pc' = "length" /\ UNCHANGED loop
     \/ loop.event = "EXECUTE" /\ pc' = "execute" /\ UNCHANGED loop
     \/ loop.event \in {"READY", "FRAME_SENT"} /\ Returns
  /\ UNCHANGED <<receiver, sender, eQueuedEvent>>

(* eMBRTUReceive: the length, the checksum, the address, the length again.  *)
CheckLength ==
  /\ At("length")
  /\ \/ usRcvBufferPos >= MinFrame /\ pc' = "crc" /\ UNCHANGED loop
     \/ usRcvBufferPos < MinFrame /\ Returns
  /\ UNCHANGED <<receiver, sender, queue>>

Received == SubSeq(ucRTUBuf, 1, usRcvBufferPos)

CheckCrc ==
  /\ At("crc")
  /\ \/ CrcOk(Received) /\ pc' = "address" /\ UNCHANGED loop
     \/ ~CrcOk(Received) /\ Returns
  /\ UNCHANGED <<receiver, sender, queue>>

ReadAddress ==
  /\ At("address")
  /\ loop' = [loop EXCEPT !.address = ucRTUBuf[1]]
  /\ pc' = "size"
  /\ UNCHANGED <<receiver, sender, queue>>

(* Mutant: every frame is for this slave.                                   *)
AllForUs == TRUE

(* The frame is for this slave or for all, or it is ignored.                *)
ForUs == loop.address \in {Me, Broadcast}

ReadSize ==
  /\ At("size")
  /\ \/ /\ ForUs
        /\ loop' = [loop EXCEPT !.length = Wrapped(usRcvBufferPos - 2)]
        /\ pc' = "flag"
     \/ ~ForUs /\ Returns
  /\ UNCHANGED <<receiver, sender, queue>>

(* xMBPortEventPost( EV_EXECUTE ): the flag, then the event.                *)
SetFlag ==
  /\ At("flag")
  /\ xEventInQueue' = TRUE /\ pc' = "post"
  /\ UNCHANGED <<receiver, sender, eQueuedEvent, loop>>

PostExecute ==
  /\ At("post")
  /\ eQueuedEvent' = "EXECUTE" /\ pc' = "poll"
  /\ UNCHANGED <<receiver, sender, xEventInQueue, loop>>

(* The handler of the function works in the receive buffer.  It refuses a   *)
(* length that is not the function's; a read of registers that do not exist *)
(* has written part of its answer by then.                                  *)
Fails(p) == p \notin {<<"read">>, <<"write">>} \/ loop.length # 1

Written(p) ==
  IF loop.length = 1 /\ p \in {<<"read">>, <<"outside">>} THEN <<"data">> ELSE p

Execute ==
  /\ At("execute")
  /\ LET p == ucRTUBuf[2] IN
     \/ /\ loop.address = Broadcast
        /\ ucRTUBuf' = [ucRTUBuf EXCEPT ![2] = Written(p)]
        /\ Returns
     \/ /\ loop.address # Broadcast /\ ~Fails(p)
        /\ ucRTUBuf' = [ucRTUBuf EXCEPT ![2] = Written(p)]
        /\ pc' = "check" /\ UNCHANGED loop
     \/ /\ loop.address # Broadcast /\ Fails(p)
        /\ ucRTUBuf' = [ucRTUBuf EXCEPT ![2] = <<"exception">>]
        /\ loop' = [loop EXCEPT !.length = 1, !.error = TRUE, !.left = TextLen]
        /\ pc' = "print"
  /\ UNCHANGED <<eRcvState, usRcvBufferPos, sender, queue>>

(* The message about the exception goes out on the line of the bus.         *)
PrintText ==
  /\ At("print")
  /\ \/ /\ loop.left > 0 /\ RoomToSend
        /\ Put(Text)
        /\ loop' = [loop EXCEPT !.left = @ - 1]
        /\ UNCHANGED pc
     \/ /\ loop.left = 0
        /\ pc' = "check"
        /\ UNCHANGED <<txf, shift, loop>>
  /\ UNCHANGED <<ier, receiver, sender, queue>>

(* eMBRTUSend gives up when another frame is coming in.                     *)
CheckIdle ==
  /\ At("check")
  /\ \/ eRcvState = "IDLE" /\ pc' = "frame" /\ UNCHANGED loop
     \/ eRcvState # "IDLE" /\ Returns
  /\ UNCHANGED <<receiver, sender, queue>>

BuildFrame ==
  /\ At("frame")
  /\ ucRTUBuf' = [ucRTUBuf EXCEPT ![1] = Me]
  /\ pucSndBufferCur' = 1 /\ usSndBufferCount' = Wrapped(1 + loop.length)
  /\ pc' = "checksum"
  /\ UNCHANGED <<eRcvState, usRcvBufferPos, eSndState, queue, loop>>

AddChecksum ==
  /\ At("checksum")
  /\ ucRTUBuf' = [ucRTUBuf EXCEPT ![3] = ucRTUBuf[1] \o ucRTUBuf[2]]
  /\ usSndBufferCount' = Wrapped(usSndBufferCount + 1)
  /\ pc' = "start"
  /\ UNCHANGED <<eRcvState, usRcvBufferPos, eSndState, pucSndBufferCur, queue, loop>>

StartTransmitter ==
  /\ At("start")
  /\ eSndState' = "XMIT" /\ pc' = "enable"
  /\ UNCHANGED <<receiver, pucSndBufferCur, usSndBufferCount, queue, loop>>

EnableTransmitter ==
  /\ At("enable")
  /\ vMBPortSerialEnable({"tx"}) /\ pc' = "fsm"
  /\ UNCHANGED <<txf, shift, receiver, sender, queue, loop>>

(* xMBRTUTransmitFSM, called by the loop with the interrupt enabled.        *)
TransmitFirst ==
  /\ At("fsm")
  /\ \/ (IdleTransmitter \/ FrameSent) /\ Returns
     \/ /\ eSndState = "XMIT" /\ usSndBufferCount # 0
        /\ loop' = [loop EXCEPT !.byte = ucRTUBuf[pucSndBufferCur],
                                !.cur = pucSndBufferCur]
        /\ pc' = "put"
        /\ UNCHANGED <<ier, txf, shift, sender, queue>>
  /\ UNCHANGED receiver

PutFirst ==
  /\ At("put") /\ RoomToSend
  /\ Put(loop.byte) /\ pc' = "advance"
  /\ UNCHANGED <<ier, receiver, sender, queue, loop>>

AdvanceFirst ==
  /\ At("advance")
  /\ pucSndBufferCur' = loop.cur + 1
  /\ usSndBufferCount' = Wrapped(usSndBufferCount - 1)
  /\ Returns
  /\ UNCHANGED <<receiver, eSndState, queue>>

(* The steps that do not touch the UART, and those that do.                 *)
Quiet ==
  \/ PollEvent \/ GetEvent \/ ClearEvent
  \/ CheckLength \/ CheckCrc \/ ReadAddress \/ ReadSize \/ SetFlag \/ PostExecute
  \/ Execute \/ CheckIdle \/ BuildFrame \/ AddChecksum \/ StartTransmitter
  \/ AdvanceFirst

eMBPoll ==
  /\ \/ Quiet /\ UNCHANGED <<ier, txf, shift>>
     \/ PrintText \/ EnableTransmitter \/ TransmitFirst \/ PutFirst
  /\ served' = (served \/ pc = "execute")
  /\ UNCHANGED <<rxf, timer, isr, sending, gap, await, line, up, due, heard, faults>>
  /\ Identify(iir)

(***************************************************************************)
(* The line and the master.                                                *)
(***************************************************************************)
None == <<>>

(* What becomes of a frame on the line: one byte lost or damaged, or more   *)
(* bytes behind it.                                                         *)
Without(f, i) == SubSeq(f, 1, i - 1) \o SubSeq(f, i + 1, Len(f))
Damaged(f) ==
  {Without(f, i) : i \in 1..Len(f)}
    \cup {[f EXCEPT ![i] = b] : i \in 1..Len(f), b \in Damages}
    \cup {f \o <<Junk>>, f \o <<Junk, Junk>>}

(* The slave has nothing left to do: a master that waits for an answer long *)
(* enough does not send before.                                             *)
SlaveIdle ==
  /\ pc = "poll" /\ ~xEventInQueue /\ isr = "no" /\ ~Pending
  /\ shift = <<>> /\ txf = <<>>

StartFrame ==
  /\ sending = <<>> /\ gap = T35
  /\ await => SlaveIdle
  /\ \E a \in Addrs, p \in Requests :
       \/ /\ sending' = Frame(a, p) /\ await' = (a = Me)
          /\ UNCHANGED faults
       \/ /\ faults < MaxFaults
          /\ sending' \in Damaged(Frame(a, p)) \ {Frame(a, p)}
          /\ faults' = faults + 1 /\ await' = FALSE
  /\ UNCHANGED <<uart, timer, receiver, sender, queue, pc, isr, loop,
                 gap, line, up, due, served, heard>>

(* Nothing that takes no time is left to do.                                *)
CpuWaits ==
  \/ isr = "tx" /\ ~RoomToSend
  \/ /\ isr = "no" /\ ~Pending
     /\ FastCpu =>
          \/ pc = "poll" /\ ~xEventInQueue
          \/ pc = "put" /\ ~RoomToSend
          \/ pc = "print" /\ loop.left > 0 /\ ~RoomToSend

(* The observer takes what comes between two silences for a frame, once     *)
(* there has been a silence, and notes a request that the slave has to      *)
(* serve.                                                                   *)
HearByte ==
  /\ line' = Append(line, Head(sending)) /\ gap' = 0
  /\ IF line = <<>> THEN due' = None /\ served' = FALSE /\ heard' = shift
                    ELSE heard' = heard \o shift /\ UNCHANGED <<due, served>>
  /\ UNCHANGED up

HearSilence ==
  /\ gap' = IF gap < T35 THEN gap + 1 ELSE gap
  /\ heard' = heard \o shift
  /\ IF gap' = T35 /\ gap < T35
       THEN /\ up' = TRUE /\ line' = <<>> /\ served' = FALSE
            /\ due' = IF up /\ CrcOk(line) /\ line[1] \in {Me, Broadcast}
                        THEN line ELSE None
       ELSE UNCHANGED <<up, line, due, served>>

(* The time of one character: a byte or none from the master, the byte on   *)
(* the other line out and the next one in its place, one more on the timer. *)
Tick ==
  /\ CpuWaits
  /\ \/ /\ sending # <<>>
        /\ sending' = Tail(sending)
        /\ rxf' = IF Len(rxf) < RxDepth THEN Append(rxf, Head(sending)) ELSE rxf
        /\ HearByte
     \/ /\ sending = <<>>
        /\ HearSilence
        /\ UNCHANGED <<sending, rxf>>
  /\ shift' = txf /\ txf' = <<>>
  /\ mtime' = IF mtie /\ mtime < T35 THEN mtime + 1 ELSE mtime
  /\ UNCHANGED <<ier, mtie, receiver, sender, queue, pc, isr, loop, await, faults>>
  /\ Identify(iir)

(* eMBInit and eMBEnable have been called; the line may be in use.          *)
Init ==
  /\ ier = {"rx"} /\ iir = "none" /\ rxf = <<>> /\ txf = <<>> /\ shift = <<>>
  /\ mtime = 0 /\ mtie = TRUE
  /\ eRcvState = "INIT" /\ usRcvBufferPos = 0
  /\ ucRTUBuf = [i \in 1..MaxFrame |-> Junk]
  /\ eSndState = "IDLE" /\ pucSndBufferCur = 1 /\ usSndBufferCount = 0
  /\ xEventInQueue = FALSE /\ eQueuedEvent = "READY"
  /\ pc = "poll" /\ isr = "no" /\ loop = Resting
  /\ sending \in {<<>>, <<Junk>>, Frame(Me, <<"write">>)}
  /\ gap = 0 /\ await = FALSE
  /\ line = <<>> /\ up = FALSE /\ due = None /\ served = FALSE /\ heard = <<>>
  /\ faults = 0

Next == Interrupt \/ eMBPoll \/ StartFrame \/ Tick

Spec == Init /\ [][Next]_vars /\ WF_vars(Tick) /\ WF_vars(eMBPoll) /\ WF_vars(Interrupt)

(***************************************************************************)
(* Properties.                                                             *)
(***************************************************************************)
(* The types, with the bounds of the buffers and of the counts.             *)
Events == {"READY", "FRAME_RECEIVED", "EXECUTE", "FRAME_SENT"}
TypeOK ==
  /\ ier \in SUBSET {"rx", "tx"} /\ iir \in {"none", "rx", "tx"}
  /\ rxf \in Seq(Tokens) /\ txf \in Seq(Tokens) /\ shift \in Seq(Tokens)
  /\ Len(rxf) <= RxDepth /\ Len(txf) <= 1 /\ Len(shift) <= 1
  /\ mtime \in 0..T35 /\ mtie \in BOOLEAN
  /\ eRcvState \in {"INIT", "IDLE", "RCV", "ERROR"} /\ usRcvBufferPos \in 0..MaxFrame
  /\ ucRTUBuf \in [1..MaxFrame -> Tokens]
  /\ eSndState \in {"IDLE", "XMIT"} /\ usSndBufferCount \in USHORT
  /\ pucSndBufferCur \in Nat
  /\ xEventInQueue \in BOOLEAN /\ eQueuedEvent \in Events
  /\ pc \in {"poll", "get", "clear", "length", "crc", "address", "size", "flag",
             "post", "execute", "print", "check", "frame", "checksum", "start",
             "enable", "fsm", "put", "advance"}
  /\ isr \in {"no", "tx"}
  /\ loop \in [event : Events, address : Tokens, length : USHORT, byte : Tokens,
               cur : Nat, error : BOOLEAN, left : Nat]
  /\ sending \in Seq(Tokens) /\ gap \in 0..T35 /\ await \in BOOLEAN
  /\ line \in Seq(Tokens) /\ up \in BOOLEAN /\ due \in Seq(Tokens)
  /\ served \in BOOLEAN /\ heard \in Seq(Tokens) /\ faults \in 0..MaxFaults

(* The receiver is never left deaf: outside the idle state its timer runs,  *)
(* and receive interrupts are off only while a reply goes out, which ends   *)
(* with a transmit interrupt that is enabled (mbrtu.c, porttimer.c).        *)
NeverDeaf ==
  /\ (eRcvState # "IDLE" => mtie)
  /\ ier = {"rx"} \/ (ier = {"tx"} /\ eSndState = "XMIT")
  /\ (eRcvState = "RCV" => usRcvBufferPos >= 1)

ModbusInv == TypeOK /\ NeverDeaf

(* What the line has to carry for a request that the slave has to serve.   *)
Answer(f) == IF f[2] = <<"read">> THEN Frame(Me, <<"data">>) ELSE f
Answered == due # None /\ due[1] = Me /\ ~(due[2] \in {<<"outside">>, <<"unknown">>})
Excepted == due # None /\ due[1] = Me /\ due[2] \in {<<"outside">>, <<"unknown">>}
Replied == Answered /\ heard = Answer(due)
Prefix(s, t) == Len(s) <= Len(t) /\ s = SubSeq(t, 1, Len(s))

(* The reply to a request that is served without an exception is on the     *)
(* line byte by byte, once and in order, and nothing else is, although the  *)
(* loop and the transmit interrupt send it together; frames for others,     *)
(* for all and damaged ones have no reply (eMBRTUSend, xMBRTUTransmitFSM).  *)
ReplyIntact ==
  /\ Answered => Prefix(heard, Answer(due))
  /\ ~Answered /\ ~Excepted => heard = <<>>

(* A function is executed for a request that came over the line undamaged   *)
(* between two silences, was for this slave or for all, and has not been    *)
(* executed before; and with what the request says (eMBPoll).               *)
ServesWhatWasSent ==
  [][pc = "execute" /\ pc' # "execute" =>
       due # None /\ ~served /\ ucRTUBuf[2] = due[2] /\ loop.address = due[1]]_vars

(* Every such request is executed, and answered in full unless it was for   *)
(* all or failed.                                                           *)
EachServed ==
  /\ due # None ~> served
  /\ Answered ~> Replied
=============================================================================
