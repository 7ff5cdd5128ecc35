------------------------------ MODULE SoftUart ------------------------------
(***************************************************************************)
(* The UART that the core emulates (sw/common/uart.c, sw/fgpio_uart):      *)
(* a timer of the virtual state machine (design/cust/vsm.sv) interrupts    *)
(* the core twice in each bit time, once for each channel; the number of   *)
(* the interrupt is the state of the channel, and its handler moves one    *)
(* bit and chooses the next state.  Handlers and the echo loop of main     *)
(* share two rings.  A handler is one step: it runs with interrupts        *)
(* disabled.  The loop takes one step for each access to what it shares.   *)
(* A slot or a byte that nothing reads again is set to 0.                   *)
(***************************************************************************)
EXTENDS Integers, Sequences

CONSTANTS
  RingSize,    \* BUF_MASK + 1
  Bits,        \* the bits of a byte
  Byte,        \* the bytes said
  Greeting,    \* what main sends first
  PerLoop,     \* interrupts that a turn of the loop may take
  MaxLost      \* bound: interrupts that are lost

ASSUME UartAssumption ==
  /\ RingSize \in Nat \ {0, 1} /\ Bits \in Nat \ {0} /\ PerLoop \in Nat
  /\ 2 ^ (Bits - 1) \in Nat \ {0}
  /\ Byte \subseteq 0..2 * 2 ^ (Bits - 1) - 1
  /\ Greeting \in Seq(Byte) /\ Greeting # <<>>

VARIABLES
  rx, tx,      \* sys_uart_rx_ctrl, sys_uart_tx_ctrl and their buffers
  state,       \* VSM: the state of each channel
  turn,        \* VSM: the channel whose comparator matches next
  pin,         \* the level of the transmitted line
  main,        \* main: where it is, the byte it holds, what is left to greet
  line,        \* the other end: the frame it says
  ear,         \* the other end: the frame it hears
  flight,      \* observes: bytes said or greeted and not yet heard
  slack,       \* observes: interrupts since the loop last had nothing to do
  lost,        \* interrupts lost so far
  quiet        \* observes: bit times for which the line has been idle

ring == <<rx, tx>>
observers == <<flight, slack, lost, quiet>>
vars == <<rx, tx, state, turn, pin, main, line, ear, observers>>

-----------------------------------------------------------------------------
(* Rings, bits and frames                                                   *)

After(i) == IF i + 1 = RingSize THEN 0 ELSE i + 1
Empty(z) == z.wr = z.rd
Full(z) == After(z.wr) = z.rd
High == 2 ^ (Bits - 1)
ShiftIn(data, bit) == data \div 2 + bit * High

(* A frame: a start bit, the bits of the byte from the lowest, a stop bit.  *)
(* Position 0 is the idle line.  Pause is a frame without its start bit.    *)
Stop == Bits + 2
Pause == Bits + 1
Level ==
  CASE line.pos \in {0, Stop} -> 1
    [] line.pos = 1 -> 0
    [] OTHER -> line.byte % 2

-----------------------------------------------------------------------------
(* What is observed: it holds until an interrupt is lost or the loop is     *)
(* slower than it can be.                                                   *)

Late == slack > PerLoop
Undisturbed == lost = 0 /\ ~Late
Busy == main.pc # "poll" \/ ~Empty(rx)
Interrupted == slack' = IF Late THEN slack ELSE IF Busy THEN slack + 1 ELSE 0
Observing == lost' = 0 /\ slack' <= PerLoop
InFlight(bytes) == flight' = IF Observing THEN bytes ELSE <<>>

-----------------------------------------------------------------------------
(* The receiving channel                                                    *)

SetSm(ch, s) == state' = [state EXCEPT ![ch] = s]

int30_handle ==
  /\ state.rx = 30 /\ UNCHANGED rx
  /\ IF Level = 0 THEN SetSm("rx", 31) ELSE UNCHANGED state
(* Two plausible mistakes: the count is tested before it is incremented, the *)
(* room is not looked at.                                                    *)
CountedLate ==
  /\ state.rx = 31
  /\ LET last == rx.cnt >= Bits IN
     /\ rx' = [rx EXCEPT !.data = ShiftIn(@, Level), !.cnt = IF last THEN 0 ELSE @ + 1]
     /\ IF last THEN SetSm("rx", 28) ELSE UNCHANGED state
int31_handle ==
  /\ state.rx = 31
  /\ LET last == rx.cnt + 1 >= Bits IN
     /\ rx' = [rx EXCEPT !.data = ShiftIn(@, Level), !.cnt = IF last THEN 0 ELSE @ + 1]
     /\ IF last THEN SetSm("rx", 28) ELSE UNCHANGED state
PushUnchecked ==
  /\ state.rx = 28 /\ SetSm("rx", 30)
  /\ rx' = [rx EXCEPT !.buf[rx.wr] = rx.data, !.wr = After(@), !.data = 0]
int28_handle ==
  /\ state.rx = 28 /\ SetSm("rx", 30)
  /\ rx' = IF Full(rx) THEN [rx EXCEPT !.data = 0]
           ELSE [rx EXCEPT !.buf[rx.wr] = rx.data, !.wr = After(@), !.data = 0]

(* The other end says a bit in each bit time.                               *)
SaysNext ==
  IF line.pos \in {0, Stop}
  THEN \/ line' = [pos |-> 0, byte |-> 0] /\ InFlight(flight)
       \/ \E b \in Byte : line' = [pos |-> 1, byte |-> b] /\ InFlight(Append(flight, b))
  ELSE /\ line' = [pos |-> line.pos + 1,
                   byte |-> IF line.pos = 1 THEN line.byte ELSE line.byte \div 2]
       /\ InFlight(flight)

(* The request lasts one cycle: if the core cannot take it then it is lost. *)
RxInterrupt ==
  /\ turn = "rx" /\ turn' = "tx" /\ UNCHANGED <<tx, pin, main, ear>>
  /\ Interrupted
  /\ \/ /\ int30_handle \/ int31_handle \/ int28_handle
        /\ UNCHANGED lost
        /\ quiet' = IF lost = 0 \/ Level = 0 THEN 0 ELSE IF quiet < Pause THEN quiet + 1 ELSE quiet
     \/ /\ lost < MaxLost /\ lost' = lost + 1 /\ quiet' = 0 /\ UNCHANGED <<rx, state>>
  /\ SaysNext

-----------------------------------------------------------------------------
(* The sending channel                                                      *)

int21_handle ==
  /\ state.tx = 21
  /\ IF Empty(tx) THEN UNCHANGED <<tx, pin, state>>
     ELSE /\ tx' = [tx EXCEPT !.data = tx.buf[tx.rd], !.rd = After(@), !.buf[tx.rd] = 0]
          /\ pin' = 0 /\ SetSm("tx", 18)
(* A plausible mistake: the stop bit is left out.                            *)
NoStopBit ==
  /\ state.tx = 18 /\ pin' = tx.data % 2
  /\ LET last == tx.cnt + 1 >= Bits IN
     /\ tx' = [tx EXCEPT !.data = @ \div 2, !.cnt = IF last THEN 0 ELSE @ + 1]
     /\ IF last THEN SetSm("tx", 21) ELSE UNCHANGED state
int18_handle ==
  /\ state.tx = 18 /\ pin' = tx.data % 2
  /\ LET last == tx.cnt + 1 >= Bits IN
     /\ tx' = [tx EXCEPT !.data = @ \div 2, !.cnt = IF last THEN 0 ELSE @ + 1]
     /\ IF last THEN SetSm("tx", 19) ELSE UNCHANGED state
int19_handle ==
  state.tx = 19 /\ pin' = 1 /\ SetSm("tx", 21) /\ UNCHANGED tx

(* The other end listens; Heard is the end of a frame.                      *)
Heard == ear.pos = Bits + 1
Hears(level) ==
  ear' = CASE ~Observing -> [pos |-> 0, byte |-> 0]
           [] ear.pos = 0 -> [ear EXCEPT !.pos = 1 - level]
           [] ear.pos \in 1..Bits -> [pos |-> ear.pos + 1, byte |-> ShiftIn(ear.byte, level)]
           [] OTHER -> [pos |-> 0, byte |-> 0]
TxInterrupt ==
  /\ turn = "tx" /\ turn' = "rx" /\ UNCHANGED <<rx, main, line, quiet>>
  /\ Interrupted
  /\ \/ (int21_handle \/ int18_handle \/ int19_handle) /\ UNCHANGED lost
     \/ lost < MaxLost /\ lost' = lost + 1 /\ UNCHANGED <<tx, pin, state>>
  /\ Hears(pin')
  /\ InFlight(IF Heard /\ flight # <<>> THEN Tail(flight) ELSE flight)

-----------------------------------------------------------------------------
(* main: tx_push for each byte of the greeting, then the loop               *)

MainStep == UNCHANGED <<state, turn, pin, line, ear, flight, lost, quiet>>
Pushed ==
  /\ main' = IF main.left = <<>> THEN [pc |-> "poll", data |-> 0, left |-> <<>>]
             ELSE [pc |-> "push", data |-> Head(main.left), left |-> Tail(main.left)]
  /\ slack' = IF Late THEN slack ELSE 0
Continue(pc) == main' = [main EXCEPT !.pc = pc] /\ UNCHANGED slack

(* tx_push *)
TestRoom ==
  /\ main.pc = "push" /\ UNCHANGED ring
  /\ IF Full(tx) THEN Pushed ELSE Continue("store")
StoreByte ==
  /\ main.pc = "store" /\ Continue("advance") /\ UNCHANGED rx
  /\ tx' = [tx EXCEPT !.buf[tx.wr] = main.data]
AdvanceTx ==
  /\ main.pc = "advance" /\ Pushed /\ UNCHANGED rx
  /\ tx' = [tx EXCEPT !.wr = After(@)]

(* the loop *)
Poll == main.pc = "poll" /\ ~Empty(rx) /\ Continue("load") /\ UNCHANGED ring
LoadByte ==
  /\ main.pc = "load" /\ UNCHANGED <<ring, slack>>
  /\ main' = [main EXCEPT !.pc = "take", !.data = rx.buf[rx.rd]]
AdvanceRx ==
  /\ main.pc = "take" /\ Continue("push") /\ UNCHANGED tx
  /\ rx' = [rx EXCEPT !.rd = After(@), !.buf[rx.rd] = 0]

MainLoop ==
  (TestRoom \/ StoreByte \/ AdvanceTx \/ Poll \/ LoadByte \/ AdvanceRx) /\ MainStep

-----------------------------------------------------------------------------
(* After sys_uart_init and sys_uart_enabled. *)
EmptyRing == [wr |-> 0, rd |-> 0, data |-> 0, cnt |-> 0, buf |-> [i \in 0..RingSize - 1 |-> 0]]
Init ==
  /\ rx = EmptyRing /\ tx = EmptyRing
  /\ state = [tx |-> 21, rx |-> 30] /\ turn = "rx" /\ pin = 1
  /\ main = [pc |-> "push", data |-> Head(Greeting), left |-> Tail(Greeting)]
  /\ line = [pos |-> 0, byte |-> 0] /\ ear = [pos |-> 0, byte |-> 0]
  /\ flight = Greeting /\ slack = 0 /\ lost = 0 /\ quiet = 0

Next == RxInterrupt \/ TxInterrupt \/ MainLoop
Spec == Init /\ [][Next]_vars

-----------------------------------------------------------------------------
(* Properties *)

Index == 0..RingSize - 1
Value == 0..2 * High - 1
RingType == [wr : Index, rd : Index, data : Value, cnt : 0..Bits - 1, buf : [Index -> Value]]
TypeOK ==
  /\ rx \in RingType /\ tx \in RingType
  /\ state \in [tx : {21, 18, 19}, rx : {30, 31, 28}] /\ pin \in 0..1
  /\ main \in [pc : {"push", "store", "advance", "poll", "load", "take"},
               data : Value, left : Seq(Value)]
  /\ line \in [pos : 0..Stop, byte : Value] /\ quiet \in 0..Pause
  /\ (rx.cnt > 0 => state.rx = 31) /\ (tx.cnt > 0 => state.tx = 18)

(* As long as no interrupt is lost and the loop keeps up, what is heard is   *)
(* the greeting and then what was said, every byte in order and in whole     *)
(* frames: no ring overflows, although the byte to be echoed is taken before *)
(* there is known to be room (fgpio_uart/main.c:43, uart.c:147, 263).        *)
EchoesAll ==
  [][ear.pos # 0 /\ ear'.pos = 0 /\ Undisturbed /\ Undisturbed' =>
       flight # <<>> /\ ear.byte = Head(flight) /\ pin' = 1]_vars

(* A lost interrupt costs the frame it falls into and those that follow it   *)
(* without a pause: once the line was idle for Pause the receiver waits     *)
(* for a start bit (vsm.sv:159, int30_handle, int31_handle).                 *)
Resyncs == quiet = Pause => state.rx = 30 /\ rx.cnt = 0

(* Wherever interrupts are lost, indices and counts keep their ranges, and   *)
(* the receiver finds the next frame (uart.c:99, 209, vsm.sv:159).           *)
UartSound == TypeOK /\ Resyncs

(* The rings are queues, whatever step of a handler comes between whatever   *)
(* steps of the loop: a byte is read before its place is given free and      *)
(* written before it is published, and a full ring keeps what it holds       *)
(* (uart.h:49, uart.c:148 and 268, fgpio_uart/main.c:42).                    *)
Used(z) == z.wr - z.rd + (IF z.rd <= z.wr THEN 0 ELSE RingSize)
Slot(z, i) == z.rd + i - (IF z.rd + i <= RingSize THEN 1 ELSE RingSize + 1)
Contents(z) == [i \in 1..Used(z) |-> z.buf[Slot(z, i)]]
Carried ==
  IF main.pc \in {"push", "store", "advance"} THEN <<main.data>> \o main.left ELSE <<>>
Queues == INSTANCE UartQueues WITH
  Capacity <- RingSize - 1, in <- Contents(rx), hand <- Carried, out <- Contents(tx)
RingsAreQueues == Queues!Spec
=============================================================================
