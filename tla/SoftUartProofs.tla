--------------------------- MODULE SoftUartProofs ---------------------------
(***************************************************************************)
(* Theorems about SoftUart, for every size of the rings, every number of   *)
(* bits in a byte, every greeting and every bound: the types, that the     *)
(* receiver finds the start of a frame again after a lost interrupt, and   *)
(* that the rings and the loop implement UartQueues.                       *)
(***************************************************************************)
EXTENDS SoftUart, SequenceTheorems, TLAPS

-----------------------------------------------------------------------------
(* What the arithmetic of indices and bits needs.                           *)

LEMMA HighNat == High \in Nat \ {0}
BY UartAssumption DEF High

LEMMA ByteIsValue == Byte \subseteq Value
BY UartAssumption DEF Value, High

LEMMA AfterIndex ==
  ASSUME NEW i \in Index
  PROVE  After(i) \in Index /\ After(i) # i
BY UartAssumption DEF After, Index

LEMMA ShiftInValue ==
  ASSUME NEW d \in Value, NEW bit \in 0..1
  PROVE  ShiftIn(d, bit) \in Value
<1>1. d \div 2 \in Nat /\ d \div 2 < High
  BY HighNat DEF Value
<1>2. bit * High = 0 \/ bit * High = High
  BY HighNat
<1> QED BY HighNat, <1>1, <1>2 DEF ShiftIn, Value

LEMMA HalfValue ==
  ASSUME NEW d \in Value
  PROVE  d \div 2 \in Value /\ d % 2 \in 0..1
BY HighNat DEF Value

LEMMA LevelBit == TypeOK => Level \in 0..1
BY HalfValue DEF TypeOK, Level

LEMMA Zeros == 0 \in Value /\ 0 \in Index /\ 0 \in 0..Bits - 1
BY HighNat, UartAssumption DEF Value, Index

-----------------------------------------------------------------------------
(* The contents of a ring.                                                  *)

LEMMA RingFields ==
  ASSUME NEW z \in RingType
  PROVE  /\ RingSize \in Nat /\ RingSize > 1
         /\ z.wr \in Nat /\ z.wr < RingSize /\ z.rd \in Nat /\ z.rd < RingSize
         /\ z.data \in Value /\ z.cnt \in 0..Bits - 1 /\ z.buf \in [Index -> Value]
<1>1. z.wr \in Index /\ z.rd \in Index
  BY DEF RingType
<1>2. z.data \in Value /\ z.cnt \in 0..Bits - 1 /\ z.buf \in [Index -> Value]
  BY DEF RingType
<1> QED BY <1>1, <1>2, UartAssumption DEF Index

LEMMA SlotIndex ==
  ASSUME NEW z \in RingType, NEW i \in 1..Used(z)
  PROVE  Slot(z, i) \in Index
BY RingFields DEF Used, Slot, Index

LEMMA ContentsSeq ==
  ASSUME NEW z \in RingType
  PROVE  /\ Used(z) \in 0..RingSize - 1
         /\ Contents(z) \in Seq(Value)
         /\ Len(Contents(z)) = Used(z)
<1>1. Used(z) \in 0..RingSize - 1
  BY RingFields DEF Used, Index
<1>2. \A i \in 1..Used(z) : z.buf[Slot(z, i)] \in Value
  BY SlotIndex, RingFields
<1> QED BY <1>1, <1>2 DEF Contents

LEMMA EmptyContents ==
  ASSUME NEW z \in RingType
  PROVE  /\ Empty(z) <=> Contents(z) = <<>>
         /\ Full(z) <=> Len(Contents(z)) = RingSize - 1
<1>1. Empty(z) <=> Used(z) = 0
  BY RingFields DEF Used, Empty, Index
<1>2. Full(z) <=> Used(z) = RingSize - 1
  BY RingFields DEF Used, Full, After, Index
<1> QED BY <1>1, <1>2, ContentsSeq

(* What is not between the indices does not matter.                         *)
LEMMA SameContents ==
  ASSUME NEW z \in RingType, NEW w \in RingType, w.wr = z.wr, w.rd = z.rd,
         \A i \in Index \ {z.wr} : w.buf[i] = z.buf[i]
  PROVE  Contents(w) = Contents(z)
<1>1. Used(w) = Used(z) /\ \A i \in 1..Used(z) : Slot(w, i) = Slot(z, i)
  BY DEF Used, Slot
<1>2. \A i \in 1..Used(z) : Slot(z, i) \in Index /\ Slot(z, i) # z.wr
  BY SlotIndex, RingFields DEF Used, Slot, Index
<1> QED BY <1>1, <1>2 DEF Contents

(* Moving the write index on appends what its slot holds.                   *)
LEMMA PushContents ==
  ASSUME NEW z \in RingType, NEW w \in RingType, ~Full(z),
         w.wr = After(z.wr), w.rd = z.rd,
         \A i \in Index \ {z.wr} : w.buf[i] = z.buf[i]
  PROVE  /\ Len(Contents(z)) < RingSize - 1
         /\ Contents(w) = Append(Contents(z), w.buf[z.wr])
<1>0. /\ RingSize \in Nat /\ RingSize > 1
      /\ z.wr \in Nat /\ z.wr < RingSize /\ z.rd \in Nat /\ z.rd < RingSize
  BY RingFields
<1>1. Used(w) = Used(z) + 1 /\ Used(z) < RingSize - 1
  BY <1>0 DEF Used, Full, After
<1>2. \A i \in 1..Used(w) : Slot(w, i) = Slot(z, i)
  BY DEF Slot
<1>3. \A i \in 1..Used(z) : Slot(z, i) \in Index /\ Slot(z, i) # z.wr
  BY SlotIndex, RingFields DEF Used, Slot, Index
<1>4. Slot(z, Used(z) + 1) = z.wr
  BY RingFields DEF Used, Slot, Index
<1>5. Contents(z) \in Seq(Value) /\ Len(Contents(z)) = Used(z) /\ Used(z) \in Nat
  BY ContentsSeq
<1>6. Contents(w) = [i \in 1..Used(z) + 1 |-> w.buf[Slot(z, i)]]
  BY <1>1, <1>2 DEF Contents
<1>7. Append(Contents(z), w.buf[z.wr]) =
        [i \in 1..Used(z) + 1 |-> IF i = Used(z) + 1 THEN w.buf[z.wr] ELSE Contents(z)[i]]
  BY <1>5
<1>8. \A i \in 1..Used(z) : Contents(z)[i] = w.buf[Slot(z, i)]
  BY <1>3 DEF Contents
<1>9. \A i \in 1..Used(z) + 1 :
        w.buf[Slot(z, i)] = IF i = Used(z) + 1 THEN w.buf[z.wr] ELSE Contents(z)[i]
  BY <1>4, <1>5, <1>8
<1> QED BY <1>1, <1>5, <1>6, <1>7, <1>9

(* Moving the read index on takes off what its slot held.                   *)
LEMMA PopContents ==
  ASSUME NEW z \in RingType, NEW w \in RingType, ~Empty(z),
         w.wr = z.wr, w.rd = After(z.rd),
         \A i \in Index \ {z.rd} : w.buf[i] = z.buf[i]
  PROVE  /\ Contents(z) # <<>>
         /\ Head(Contents(z)) = z.buf[z.rd]
         /\ Contents(w) = Tail(Contents(z))
<1>0. /\ RingSize \in Nat /\ RingSize > 1
      /\ z.wr \in Nat /\ z.wr < RingSize /\ z.rd \in Nat /\ z.rd < RingSize
  BY RingFields
<1>1. Used(w) = Used(z) - 1 /\ Used(z) \in Nat \ {0}
  BY <1>0 DEF Used, Empty, After
<1>2. \A i \in 1..Used(w) : Slot(w, i) = Slot(z, i + 1)
  BY <1>0, <1>1 DEF Used, Slot, After
<1>3. \A i \in 2..Used(z) : Slot(z, i) \in Index /\ Slot(z, i) # z.rd
  BY SlotIndex, <1>1, RingFields DEF Used, Slot, Index
<1>4. Slot(z, 1) = z.rd
  BY RingFields DEF Slot, Index
<1>5. Contents(z) \in Seq(Value) /\ Len(Contents(z)) = Used(z)
  BY ContentsSeq
<1>6. Contents(z) # <<>> /\ Head(Contents(z)) = z.buf[z.rd]
  BY <1>1, <1>4, <1>5 DEF Contents
<1>7. /\ Tail(Contents(z)) \in Seq(Value) /\ Len(Tail(Contents(z))) = Used(z) - 1
      /\ \A i \in 1..Used(z) - 1 : Tail(Contents(z))[i] = Contents(z)[i + 1]
  BY <1>1, <1>5, <1>6, HeadTailProperties
<1>8. \A i \in 1..Used(z) - 1 : Contents(w)[i] = Contents(z)[i + 1]
  BY <1>1, <1>2, <1>3 DEF Contents
<1>9. Contents(w) \in Seq(Value) /\ Len(Contents(w)) = Used(z) - 1
  BY <1>1, ContentsSeq
<1> QED BY <1>6, <1>7, <1>8, <1>9, SeqEqual

-----------------------------------------------------------------------------
(* The bytes that the loop holds.                                           *)

LEMMA Prefixed ==
  ASSUME NEW b \in Value, NEW q \in Seq(Value)
  PROVE  /\ <<b>> \o q \in Seq(Value) /\ <<b>> \o q # <<>>
         /\ Head(<<b>> \o q) = b /\ Tail(<<b>> \o q) = q
<1>1. /\ <<b>> \in Seq(Value) /\ Len(<<b>>) = 1 /\ <<b>>[1] = b
  OBVIOUS
<1>2. /\ <<b>> \o q \in Seq(Value) /\ Len(<<b>> \o q) = 1 + Len(q)
      /\ \A i \in 1..1 + Len(q) : (<<b>> \o q)[i] = IF i <= 1 THEN b ELSE q[i - 1]
  BY <1>1, ConcatProperties
<1>3. <<b>> \o q # <<>> /\ Head(<<b>> \o q) = b
  BY <1>2
<1>4. /\ Tail(<<b>> \o q) \in Seq(Value) /\ Len(Tail(<<b>> \o q)) = Len(q)
      /\ \A i \in 1..Len(q) : Tail(<<b>> \o q)[i] = q[i]
  BY <1>2, <1>3, HeadTailProperties
<1> QED BY <1>2, <1>3, <1>4, SeqEqual

LEMMA Rejoined ==
  ASSUME NEW q \in Seq(Value), q # <<>>
  PROVE  Head(q) \in Value /\ Tail(q) \in Seq(Value) /\ <<Head(q)>> \o Tail(q) = q
<1>1. Head(q) \in Value /\ Tail(q) \in Seq(Value)
  BY HeadTailProperties
<1>2. <<Head(q)>> \o Tail(q) = q
  <2>1. /\ <<Head(q)>> \o Tail(q) \in Seq(Value)
        /\ <<Head(q)>> \o Tail(q) # <<>>
        /\ Head(<<Head(q)>> \o Tail(q)) = Head(q)
        /\ Tail(<<Head(q)>> \o Tail(q)) = Tail(q)
    BY <1>1, Prefixed
  <2> QED BY <2>1, SMT
<1> QED BY <1>1, <1>2

-----------------------------------------------------------------------------
(* The inductive invariant: the loop acts on what it found, since a handler  *)
(* never makes a ring with room full or one with contents empty; the         *)
(* receiver is never more idle bits behind than it has bits to read.         *)

Loop ==
  /\ main.pc \in {"store", "advance"} => ~Full(tx)
  /\ main.pc = "advance" => tx.buf[tx.wr] = main.data
  /\ main.pc \in {"load", "take"} => ~Empty(rx)
  /\ main.pc = "take" => main.data = rx.buf[rx.rd]
  /\ main.pc \in {"poll", "load", "take"} => main.left = <<>>
Receiving ==
  /\ state.rx = 31 => quiet <= rx.cnt
  /\ state.rx = 28 => quiet <= Bits
UartInv == TypeOK /\ Loop /\ Receiving

LEMMA InitInv == Init => UartInv
<1> SUFFICES ASSUME Init PROVE UartInv
  OBVIOUS
<1>1. EmptyRing \in RingType
  BY Zeros DEF EmptyRing, RingType, Index
<1>2. Head(Greeting) \in Value /\ Tail(Greeting) \in Seq(Value)
  <2>1. Greeting \in Seq(Value) /\ Greeting # <<>>
    <3>1. Len(Greeting) \in Nat /\ Greeting \in [1..Len(Greeting) -> Byte]
      BY UartAssumption
    <3>2. Greeting \in [1..Len(Greeting) -> Value]
      BY <3>1, ByteIsValue
    <3>3. Greeting \in Seq(Value)
      BY <3>1, <3>2
    <3> QED BY <3>3, UartAssumption
  <2> QED BY <2>1, HeadTailProperties
<1>3. TypeOK
  BY <1>1, <1>2, Zeros, UartAssumption DEF Init, TypeOK, EmptyRing, Stop, Pause
<1> QED BY <1>3 DEF Init, UartInv, Loop, Receiving

(* A receive interrupt: it appends a byte to a ring with room, or changes    *)
(* nothing that the loop looks at.                                           *)
LEMMA ReceiverStep ==
  ASSUME UartInv, RxInterrupt
  PROVE  /\ rx' \in RingType /\ state' \in [tx : {21, 18, 19}, rx : {30, 31, 28}]
         /\ state'.tx = state.tx
         /\ rx'.cnt > 0 => state'.rx = 31
         /\ \/ /\ rx'.wr = rx.wr /\ rx'.rd = rx.rd /\ rx'.buf = rx.buf
            \/ /\ ~Full(rx) /\ rx'.wr = After(rx.wr) /\ rx'.rd = rx.rd
               /\ \A i \in Index \ {rx.wr} : rx'.buf[i] = rx.buf[i]
         /\ quiet' \in 0..Pause /\ Receiving'
<1>1. /\ rx \in RingType /\ state \in [tx : {21, 18, 19}, rx : {30, 31, 28}]
      /\ Level \in 0..1 /\ quiet \in 0..Pause /\ Bits \in Nat \ {0} /\ Pause = Bits + 1
      /\ rx.cnt > 0 => state.rx = 31
      /\ state.rx = 31 => quiet <= rx.cnt
      /\ state.rx = 28 => quiet <= Bits
  BY LevelBit, UartAssumption DEF UartInv, TypeOK, Receiving, Pause
<1>2. /\ rx.cnt \in 0..Bits - 1 /\ rx.data \in Value /\ rx.wr \in Index /\ rx.rd \in Index
      /\ rx.buf \in [Index -> Value] /\ 0 \in Value
  BY <1>1, Zeros DEF RingType
<1>3. CASE lost < MaxLost /\ lost' = lost + 1 /\ quiet' = 0 /\ UNCHANGED <<rx, state>>
  BY <1>1, <1>2, <1>3 DEF Receiving
<1>4. quiet' \in 0..Pause /\ quiet' <= quiet + 1 /\ (Level = 0 => quiet' = 0)
  <2>1. \/ quiet' = 0
        \/ quiet' = IF lost = 0 \/ Level = 0 THEN 0
                    ELSE IF quiet < Pause THEN quiet + 1 ELSE quiet
    BY DEF RxInterrupt
  <2> QED BY <1>1, <2>1
<1>5. CASE int30_handle
  <2>1. rx' = rx /\ state' = IF Level = 0 THEN [state EXCEPT !["rx"] = 31] ELSE state
    BY <1>5 DEF int30_handle, SetSm
  <2>2. state.rx = 30
    BY <1>5 DEF int30_handle
  <2> QED BY <1>1, <1>2, <1>4, <2>1, <2>2 DEF Receiving
<1>6. CASE int31_handle
  <2> DEFINE last == rx.cnt + 1 >= Bits
  <2>1. /\ rx' = [rx EXCEPT !.data = ShiftIn(@, Level), !.cnt = IF last THEN 0 ELSE @ + 1]
        /\ state' = IF last THEN [state EXCEPT !["rx"] = 28] ELSE state
        /\ state.rx = 31
    BY <1>6 DEF int31_handle, SetSm
  <2>2. ShiftIn(rx.data, Level) \in Value
    BY <1>1, <1>2, ShiftInValue
  <2>3. rx' \in RingType
    <3>1. (IF last THEN 0 ELSE rx.cnt + 1) \in 0..Bits - 1
      BY <1>1, <1>2
    <3> HIDE DEF last
    <3> QED BY <1>1, <2>1, <2>2, <3>1 DEF RingType
  <2> QED BY <1>1, <1>2, <1>4, <2>1, <2>3 DEF Receiving, RingType
<1>7. CASE int28_handle
  <2>1. /\ state.rx = 28 /\ state' = [state EXCEPT !["rx"] = 30]
        /\ rx' = IF Full(rx) THEN [rx EXCEPT !.data = 0]
                 ELSE [rx EXCEPT !.buf[rx.wr] = rx.data, !.wr = After(@), !.data = 0]
    BY <1>7 DEF int28_handle, SetSm
  <2>2. rx' \in RingType /\ rx'.cnt = rx.cnt
    BY <1>1, <1>2, <2>1, AfterIndex DEF RingType
  <2>3. \/ /\ rx'.wr = rx.wr /\ rx'.rd = rx.rd /\ rx'.buf = rx.buf
        \/ /\ ~Full(rx) /\ rx'.wr = After(rx.wr) /\ rx'.rd = rx.rd
           /\ \A i \in Index \ {rx.wr} : rx'.buf[i] = rx.buf[i]
    BY <1>1, <1>2, <2>1 DEF RingType
  <2> QED BY <1>1, <1>2, <1>4, <2>1, <2>2, <2>3 DEF Receiving
<1> QED BY <1>3, <1>5, <1>6, <1>7 DEF RxInterrupt

LEMMA LineType ==
  ASSUME TypeOK, SaysNext
  PROVE  line' \in [pos : 0..Stop, byte : Value]
<1>1. /\ line \in [pos : 0..Stop, byte : Value] /\ 0 \in Value /\ Byte \subseteq Value
      /\ Bits \in Nat \ {0} /\ Stop = Bits + 2
  BY Zeros, ByteIsValue, UartAssumption DEF TypeOK, Stop
<1>2. line.byte \div 2 \in Value /\ line.byte \in Value /\ line.pos \in 0..Stop
  BY <1>1, HalfValue
<1>3. CASE line.pos \in {0, Stop}
  BY <1>1, <1>3 DEF SaysNext
<1>4. CASE line.pos \notin {0, Stop}
  <2>1. line' = [pos |-> line.pos + 1,
                 byte |-> IF line.pos = 1 THEN line.byte ELSE line.byte \div 2]
    BY <1>4 DEF SaysNext
  <2> QED BY <1>1, <1>2, <1>4, <2>1
<1> QED BY <1>3, <1>4

(* A send interrupt: it takes the oldest byte, or changes nothing that the   *)
(* loop looks at.                                                            *)
LEMMA SenderStep ==
  ASSUME UartInv, TxInterrupt
  PROVE  /\ tx' \in RingType /\ state' \in [tx : {21, 18, 19}, rx : {30, 31, 28}]
         /\ state'.rx = state.rx /\ pin' \in 0..1
         /\ tx'.cnt > 0 => state'.tx = 18
         /\ \/ /\ tx'.wr = tx.wr /\ tx'.rd = tx.rd /\ tx'.buf = tx.buf
            \/ /\ ~Empty(tx) /\ tx'.wr = tx.wr /\ tx'.rd = After(tx.rd)
               /\ \A i \in Index \ {tx.rd} : tx'.buf[i] = tx.buf[i]
<1>1. /\ tx \in RingType /\ state \in [tx : {21, 18, 19}, rx : {30, 31, 28}]
      /\ pin \in 0..1
      /\ tx.cnt > 0 => state.tx = 18
  BY DEF UartInv, TypeOK
<1>2. /\ tx.cnt \in 0..Bits - 1 /\ tx.data \in Value /\ tx.wr \in Index /\ tx.rd \in Index
      /\ tx.buf \in [Index -> Value] /\ 0 \in Value /\ Bits \in Nat \ {0}
  BY <1>1, Zeros, UartAssumption DEF RingType
<1>3. CASE lost < MaxLost /\ lost' = lost + 1 /\ UNCHANGED <<tx, pin, state>>
  BY <1>1, <1>3
<1>4. CASE int21_handle
  <2>1. CASE Empty(tx)
    BY <1>1, <1>4, <2>1 DEF int21_handle
  <2>2. CASE ~Empty(tx)
    <3>1. /\ tx' = [tx EXCEPT !.data = tx.buf[tx.rd], !.rd = After(@), !.buf[tx.rd] = 0]
          /\ pin' = 0 /\ state' = [state EXCEPT !["tx"] = 18]
      BY <1>4, <2>2 DEF int21_handle, SetSm
    <3>2. tx' \in RingType
      BY <1>1, <1>2, <3>1, AfterIndex DEF RingType
    <3> QED BY <1>1, <1>2, <2>2, <3>1, <3>2 DEF RingType
  <2> QED BY <2>1, <2>2
<1>5. CASE int18_handle
  <2> DEFINE last == tx.cnt + 1 >= Bits
  <2>1. /\ tx' = [tx EXCEPT !.data = @ \div 2, !.cnt = IF last THEN 0 ELSE @ + 1]
        /\ state' = IF last THEN [state EXCEPT !["tx"] = 19] ELSE state
        /\ state.tx = 18 /\ pin' = tx.data % 2
    BY <1>5 DEF int18_handle, SetSm
  <2>2. tx.data \div 2 \in Value /\ tx.data % 2 \in 0..1
    BY <1>2, HalfValue
  <2>3. tx' \in RingType
    <3>1. (IF last THEN 0 ELSE tx.cnt + 1) \in 0..Bits - 1
      BY <1>1, <1>2
    <3> HIDE DEF last
    <3> QED BY <1>1, <2>1, <2>2, <3>1 DEF RingType
  <2> QED BY <1>1, <1>2, <2>1, <2>2, <2>3 DEF RingType
<1>6. CASE int19_handle
  BY <1>1, <1>6 DEF int19_handle, SetSm
<1> QED BY <1>3, <1>4, <1>5, <1>6 DEF TxInterrupt

(* A step of main.                                                          *)
LEMMA MainStepInv ==
  ASSUME UartInv, MainLoop
  PROVE  UartInv'
<1>1. /\ rx \in RingType /\ tx \in RingType /\ main.data \in Value /\ main.left \in Seq(Value)
      /\ main \in [pc : {"push", "store", "advance", "poll", "load", "take"},
                   data : Value, left : Seq(Value)]
  BY DEF UartInv, TypeOK
<1>2. /\ rx.wr \in Index /\ rx.rd \in Index /\ rx.buf \in [Index -> Value]
      /\ tx.wr \in Index /\ tx.rd \in Index /\ tx.buf \in [Index -> Value] /\ 0 \in Value
  BY <1>1, Zeros DEF RingType
<1>3. UNCHANGED <<state, pin, line, quiet>>
  BY DEF MainLoop, MainStep
<1>4. ASSUME Pushed
      PROVE  /\ main' \in [pc : {"push", "poll"}, data : Value, left : Seq(Value)]
             /\ main'.pc = "poll" => main'.left = <<>>
  BY <1>1, <1>2, <1>4, Rejoined DEF Pushed
<1>5. SUFFICES /\ rx' \in RingType /\ tx' \in RingType
               /\ rx'.cnt = rx.cnt /\ tx'.cnt = tx.cnt
               /\ main' \in [pc : {"push", "store", "advance", "poll", "load", "take"},
                             data : Value, left : Seq(Value)]
               /\ Loop'
  BY <1>3 DEF UartInv, TypeOK, Receiving
<1>6. CASE TestRoom
  <2>1. CASE Full(tx)
    BY <1>1, <1>4, <1>6, <2>1 DEF TestRoom, ring, Loop
  <2>2. CASE ~Full(tx)
    BY <1>1, <1>6, <2>2 DEF TestRoom, ring, Loop, Continue, Full
  <2> QED BY <2>1, <2>2
<1>7. CASE StoreByte
  <2>1. /\ main.pc = "store" /\ main' = [main EXCEPT !.pc = "advance"] /\ rx' = rx
        /\ tx' = [tx EXCEPT !.buf[tx.wr] = main.data] /\ ~Full(tx)
    BY <1>7 DEF StoreByte, Continue, UartInv, Loop
  <2> QED BY <1>1, <1>2, <2>1 DEF RingType, Loop, Full
<1>8. CASE AdvanceTx
  <2>1. rx' = rx /\ tx' = [tx EXCEPT !.wr = After(@)] /\ Pushed
    BY <1>8 DEF AdvanceTx
  <2> QED BY <1>1, <1>2, <1>4, <2>1, AfterIndex DEF RingType, Loop
<1>9. CASE Poll
  BY <1>1, <1>9 DEF Poll, ring, Continue, UartInv, Loop, Empty
<1>10. CASE LoadByte
  BY <1>1, <1>2, <1>10 DEF LoadByte, ring, UartInv, Loop, Empty
<1>11. CASE AdvanceRx
  <2>1. /\ main.pc = "take" /\ main' = [main EXCEPT !.pc = "push"] /\ tx' = tx
        /\ rx' = [rx EXCEPT !.rd = After(@), !.buf[rx.rd] = 0]
    BY <1>11 DEF AdvanceRx, Continue
  <2> QED BY <1>1, <1>2, <2>1, AfterIndex DEF RingType, Loop
<1> QED BY <1>6, <1>7, <1>8, <1>9, <1>10, <1>11 DEF MainLoop

LEMMA NextInv ==
  ASSUME UartInv, [Next]_vars
  PROVE  UartInv'
<1>1. CASE RxInterrupt
  <2>1. UNCHANGED <<tx, pin, main>> /\ line' \in [pos : 0..Stop, byte : Value]
    BY <1>1, LineType DEF RxInterrupt, UartInv
  <2>2. TypeOK'
    BY <1>1, <2>1, ReceiverStep DEF UartInv, TypeOK
  <2>3. Loop'
    <3>1. rx \in RingType /\ rx.wr \in Index /\ rx.rd \in Index
      BY DEF UartInv, TypeOK, RingType
    <3>2. ~Empty(rx) => rx'.wr # rx'.rd /\ rx'.buf[rx'.rd] = rx.buf[rx.rd]
      BY <1>1, <3>1, ReceiverStep DEF Empty, Full
    <3> QED BY <2>1, <3>2 DEF UartInv, Loop, Empty, Full
  <2> QED BY <1>1, <2>2, <2>3, ReceiverStep DEF UartInv
<1>2. CASE TxInterrupt
  <2>1. UNCHANGED <<rx, main, line, quiet>>
    BY <1>2 DEF TxInterrupt
  <2>2. TypeOK'
    BY <1>2, <2>1, SenderStep DEF UartInv, TypeOK
  <2>3. Loop'
    <3>1. tx \in RingType /\ tx.wr \in Index /\ tx.rd \in Index
      BY DEF UartInv, TypeOK, RingType
    <3>2. ~Full(tx) => After(tx'.wr) # tx'.rd /\ tx'.buf[tx'.wr] = tx.buf[tx.wr]
      BY <1>2, <3>1, SenderStep, UartAssumption DEF Empty, Full, After, Index
    <3> QED BY <2>1, <3>2 DEF UartInv, Loop, Empty, Full
  <2> QED BY <1>2, <2>1, <2>2, <2>3, SenderStep DEF UartInv, Receiving
<1>3. CASE UNCHANGED vars
  BY <1>3 DEF vars, observers, UartInv, TypeOK, Loop, Receiving, Empty, Full
<1> QED BY <1>1, <1>2, <1>3, MainStepInv DEF Next

THEOREM UartInvariant == Spec => []UartInv
BY InitInv, NextInv, PTL DEF Spec

(* The variables keep their types, and a bit is counted only in the state    *)
(* that reads or sends bits (uart.c:99, 209).                                *)
THEOREM TypeCorrect == Spec => []TypeOK
<1>1. UartInv => TypeOK
  BY DEF UartInv
<1> QED BY UartInvariant, <1>1, PTL

(* However many interrupts are lost, and wherever: after a pause of a frame  *)
(* the receiver waits for a start bit (vsm.sv:159).                          *)
THEOREM ReceiverResyncs == Spec => []Resyncs
<1>1. UartInv => Resyncs
  BY UartAssumption DEF UartInv, TypeOK, RingType, Receiving, Resyncs, Pause
<1> QED BY UartInvariant, <1>1, PTL

(* The two together, as the run of SoftUart checks them (vsm.sv:159).        *)
THEOREM UartIsSound == Spec => []UartSound
<1>1. UartInv => UartSound
  BY UartAssumption DEF UartInv, TypeOK, RingType, Receiving, Resyncs, UartSound, Pause
<1> QED BY UartInvariant, <1>1, PTL

-----------------------------------------------------------------------------
(* The refinement.                                                          *)

LEMMA CarriedSeq ==
  ASSUME TypeOK
  PROVE  /\ main.pc \in {"push", "store", "advance"} =>
              /\ Carried = <<main.data>> \o main.left /\ Carried \in Seq(Value)
              /\ Carried # <<>> /\ Head(Carried) = main.data /\ Tail(Carried) = main.left
         /\ main.pc \notin {"push", "store", "advance"} => Carried = <<>>
<1>1. main.data \in Value /\ main.left \in Seq(Value)
  BY DEF TypeOK
<1> QED BY <1>1, Prefixed DEF Carried

(* After a byte was pushed or dropped the loop carries what is left.        *)
LEMMA PushedCarries ==
  ASSUME TypeOK, Pushed
  PROVE  Carried' = main.left
<1>1. main.data \in Value /\ main.left \in Seq(Value)
  BY DEF TypeOK
<1>2. CASE main.left = <<>>
  BY <1>2 DEF Pushed, Carried
<1>3. CASE main.left # <<>>
  <2>1. Carried' = <<Head(main.left)>> \o Tail(main.left)
    BY <1>3 DEF Pushed, Carried
  <2> QED BY <1>1, <1>3, <2>1, Rejoined
<1> QED BY <1>2, <1>3

LEMMA InitRefines == Init => Queues!Init
<1> SUFFICES ASSUME Init PROVE Queues!Init
  OBVIOUS
<1>1. TypeOK
  BY InitInv DEF UartInv
<1>2. Carried \in Seq(Value)
  BY <1>1, CarriedSeq DEF Init
<1>3. Contents(rx) = <<>> /\ Contents(tx) = <<>>
  BY <1>1, EmptyContents DEF TypeOK, Init, EmptyRing, Empty
<1> QED BY <1>2, <1>3 DEF Queues!Init

LEMMA NextRefines ==
  ASSUME UartInv, UartInv', [Next]_vars
  PROVE  [Queues!Next]_<<Contents(rx), Carried, Contents(tx)>>
<1>1. /\ rx \in RingType /\ tx \in RingType /\ rx' \in RingType /\ tx' \in RingType
      /\ TypeOK /\ main.data \in Value /\ main.left \in Seq(Value)
  BY DEF UartInv, TypeOK
<1>2. Contents(rx)' = Contents(rx') /\ Contents(tx)' = Contents(tx')
  OBVIOUS
<1>3. UNCHANGED main => UNCHANGED Carried
  BY DEF Carried
<1>4. UNCHANGED rx => UNCHANGED Contents(rx)
  BY <1>2
<1>5. UNCHANGED tx => UNCHANGED Contents(tx)
  BY <1>2
<1>6. CASE RxInterrupt
  <2>1. UNCHANGED <<tx, main>>
    BY <1>6 DEF RxInterrupt
  <2>2. CASE rx'.wr = rx.wr /\ rx'.rd = rx.rd /\ rx'.buf = rx.buf
    <3>1. UNCHANGED Contents(rx)
      BY <1>1, <1>2, <2>2, SameContents
    <3> QED BY <1>3, <1>5, <2>1, <3>1
  <2>3. CASE /\ ~Full(rx) /\ rx'.wr = After(rx.wr) /\ rx'.rd = rx.rd
             /\ \A i \in Index \ {rx.wr} : rx'.buf[i] = rx.buf[i]
    <3>1. /\ Len(Contents(rx)) < RingSize - 1
          /\ Contents(rx)' = Append(Contents(rx), rx'.buf[rx.wr])
      BY <1>1, <1>2, <2>3, PushContents
    <3>2. rx'.buf[rx.wr] \in Value
      BY <1>1 DEF RingType
    <3>3. Queues!Arrive
      BY <1>3, <1>5, <2>1, <3>1, <3>2 DEF Queues!Arrive
    <3> QED BY <3>3 DEF Queues!Next
  <2> QED BY <1>6, <2>2, <2>3, ReceiverStep
<1>7. CASE TxInterrupt
  <2>1. UNCHANGED <<rx, main>>
    BY <1>7 DEF TxInterrupt
  <2>2. CASE tx'.wr = tx.wr /\ tx'.rd = tx.rd /\ tx'.buf = tx.buf
    <3>1. UNCHANGED Contents(tx)
      BY <1>1, <1>2, <2>2, SameContents
    <3> QED BY <1>3, <1>4, <2>1, <3>1
  <2>3. CASE /\ ~Empty(tx) /\ tx'.wr = tx.wr /\ tx'.rd = After(tx.rd)
             /\ \A i \in Index \ {tx.rd} : tx'.buf[i] = tx.buf[i]
    <3>1. Contents(tx) # <<>> /\ Contents(tx)' = Tail(Contents(tx))
      BY <1>1, <1>2, <2>3, PopContents
    <3>2. Queues!Send
      BY <1>3, <1>4, <2>1, <3>1 DEF Queues!Send
    <3> QED BY <3>2 DEF Queues!Next
  <2> QED BY <1>7, <2>2, <2>3, SenderStep
<1>8. CASE TestRoom
  <2>1. UNCHANGED <<rx, tx>> /\ main.pc = "push"
    BY <1>8 DEF TestRoom, ring
  <2>2. CASE Full(tx)
    <3>1. Carried # <<>> /\ Carried' = Tail(Carried)
      BY <1>1, <1>8, <2>1, <2>2, CarriedSeq, PushedCarries DEF TestRoom
    <3>2. Len(Contents(tx)) = RingSize - 1
      BY <1>1, <2>2, EmptyContents
    <3>3. Queues!Drop
      BY <1>4, <1>5, <2>1, <3>1, <3>2 DEF Queues!Drop
    <3> QED BY <3>3 DEF Queues!Next
  <2>3. CASE ~Full(tx)
    <3>1. main' = [main EXCEPT !.pc = "store"]
      BY <1>8, <2>3 DEF TestRoom, Continue
    <3>2. UNCHANGED Carried
      BY <1>1, <2>1, <3>1 DEF Carried, TypeOK
    <3> QED BY <1>4, <1>5, <2>1, <3>2
  <2> QED BY <2>2, <2>3
<1>9. CASE StoreByte
  <2>1. /\ main.pc = "store" /\ main' = [main EXCEPT !.pc = "advance"] /\ rx' = rx
        /\ tx' = [tx EXCEPT !.buf[tx.wr] = main.data]
    BY <1>9 DEF StoreByte, Continue
  <2>2. UNCHANGED Carried
    BY <1>1, <2>1 DEF Carried, TypeOK
  <2>3. tx'.wr = tx.wr /\ tx'.rd = tx.rd /\ \A i \in Index \ {tx.wr} : tx'.buf[i] = tx.buf[i]
    BY <1>1, <2>1 DEF RingType
  <2>4. UNCHANGED Contents(tx)
    BY <1>1, <1>2, <2>3, SameContents
  <2> QED BY <1>4, <2>1, <2>2, <2>4
<1>10. CASE AdvanceTx
  <2>1. /\ main.pc = "advance" /\ Pushed /\ rx' = rx /\ tx' = [tx EXCEPT !.wr = After(@)]
        /\ ~Full(tx) /\ tx.buf[tx.wr] = main.data
    BY <1>10 DEF AdvanceTx, UartInv, Loop
  <2>2. tx'.wr = After(tx.wr) /\ tx'.rd = tx.rd /\ tx'.buf = tx.buf
    BY <1>1, <2>1 DEF RingType
  <2>3. Len(Contents(tx)) < RingSize - 1 /\ Contents(tx)' = Append(Contents(tx), main.data)
    BY <1>1, <1>2, <2>1, <2>2, PushContents
  <2>4. Carried # <<>> /\ Head(Carried) = main.data /\ Carried' = Tail(Carried)
    BY <1>1, <2>1, CarriedSeq, PushedCarries
  <2>5. Queues!Put
    BY <1>4, <2>1, <2>3, <2>4 DEF Queues!Put
  <2> QED BY <2>5 DEF Queues!Next
<1>11. CASE Poll \/ LoadByte
  <2>1. /\ UNCHANGED <<rx, tx>>
        /\ main.pc \in {"poll", "load"} /\ main'.pc \in {"load", "take"}
    BY <1>1, <1>11 DEF Poll, LoadByte, Continue, ring, TypeOK
  <2>2. UNCHANGED Carried
    BY <2>1 DEF Carried
  <2> QED BY <1>4, <1>5, <2>1, <2>2
<1>12. CASE AdvanceRx
  <2>1. /\ main.pc = "take" /\ main' = [main EXCEPT !.pc = "push"] /\ tx' = tx
        /\ rx' = [rx EXCEPT !.rd = After(@), !.buf[rx.rd] = 0]
        /\ ~Empty(rx) /\ main.data = rx.buf[rx.rd] /\ main.left = <<>>
    BY <1>12 DEF AdvanceRx, Continue, UartInv, Loop
  <2>2. rx'.wr = rx.wr /\ rx'.rd = After(rx.rd) /\ \A i \in Index \ {rx.rd} : rx'.buf[i] = rx.buf[i]
    BY <1>1, <2>1 DEF RingType
  <2>3. Contents(rx) # <<>> /\ Head(Contents(rx)) = main.data /\ Contents(rx)' = Tail(Contents(rx))
    BY <1>1, <1>2, <2>1, <2>2, PopContents
  <2>4. Carried = <<>> /\ Carried' = <<main.data>> \o <<>>
    BY <1>1, <2>1 DEF Carried, TypeOK
  <2>5. <<main.data>> \o <<>> = <<main.data>>
    BY <1>1
  <2>6. Queues!Take
    BY <1>5, <2>1, <2>3, <2>4, <2>5 DEF Queues!Take
  <2> QED BY <2>6 DEF Queues!Next
<1>13. CASE UNCHANGED vars
  BY <1>3, <1>4, <1>5, <1>13 DEF vars
<1> QED BY <1>6, <1>7, <1>8, <1>9, <1>10, <1>11, <1>12, <1>13 DEF Next, MainLoop

(* The rings and the loop between them implement two bounded queues and a    *)
(* hand: no byte is lost, doubled or overtaken unless the second queue is    *)
(* full when it is put there, whatever handler interrupts whatever step of   *)
(* the loop (uart.c:136-206, 263-277, fgpio_uart/main.c:36-46).              *)
THEOREM QueueRefinement == Spec => RingsAreQueues
BY UartInvariant, InitRefines, NextRefines, PTL DEF Spec, RingsAreQueues, Queues!Spec
=============================================================================
