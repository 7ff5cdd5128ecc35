------------------------- MODULE ModbusSlaveProofs -------------------------
(***************************************************************************)
(* Theorems about ModbusSlave, for every silence, buffer, text and number  *)
(* of damaged frames: the receiver is never left deaf, what is executed is *)
(* what was sent, once, and a reply is on the line byte by byte.  They     *)
(* assume that the loop is done before the next byte comes and that an     *)
(* interrupt comes before the loop's next access.                          *)
(*                                                                         *)
(* Master, line, receiver, loop and sender know nothing of one another.    *)
(* What keeps them in step is time: the observer's silence and the slave's *)
(* timer are one count, the loop works only while the line is silent, and  *)
(* a master that expects a reply does not speak meanwhile.                 *)
(***************************************************************************)
EXTENDS ModbusSlave, SequenceTheorems, TLAPS

-----------------------------------------------------------------------------
(* The invariant                                                            *)

(* The loop has nothing to do, and the sender neither.                      *)
AtRest == pc = "poll" /\ ~xEventInQueue /\ eSndState = "IDLE"

(* The identification register, the enabled interrupts and the sender.      *)
Wires ==
  /\ ier = {"rx"} \/ ier = {"tx"}
  /\ rxf # <<>> => iir = "rx" /\ ier = {"rx"}
  /\ iir = "rx" => rxf # <<>>
  /\ ier = {"tx"} => eSndState = "XMIT"
  /\ isr = "tx" => eSndState = "XMIT" /\ pc # "enable" /\ usSndBufferCount # 0
  /\ pc \in {"start", "enable"} => iir = "none"
  /\ pc = "enable" => eSndState = "XMIT" /\ ier = {"rx"}
  /\ eSndState = "XMIT" => pc \in {"enable", "fsm", "put"}
  /\ eSndState = "XMIT" /\ pc # "enable" =>
       /\ ier = {"tx"} /\ (txf = <<>> => iir = "tx")
       /\ isr = "no" /\ pucSndBufferCur > 1 => iir = "tx"

(* The line has been silent since the receiver last took note of it.        *)
Silent ==
  /\ rxf = <<>> /\ eRcvState = "IDLE" /\ ~mtie
  /\ up /\ gap = T35 /\ line = <<>>

(* What the observer makes of the frame the receiver has.                   *)
Judged ==
  /\ ~served
  /\ IF /\ usRcvBufferPos = 3 /\ ucRTUBuf[3] = ucRTUBuf[1] \o ucRTUBuf[2]
        /\ ucRTUBuf[1] \in {Me, Broadcast}
     THEN due # None /\ due[1] = ucRTUBuf[1] /\ due[2] = ucRTUBuf[2]
     ELSE due = None

(* The receiver has what was on the line, up to the last n bytes.           *)
Kept(n) ==
  /\ Len(line) = usRcvBufferPos + n
  /\ \A i \in 1..usRcvBufferPos : line[i] = ucRTUBuf[i]

(* Time passes in the middle of a frame, or behind it.                      *)
Counting ==
  /\ rxf = <<>> /\ mtie /\ mtime = gap
  /\ AtRest /\ iir = "none" /\ ~served
  /\ \/ eRcvState = "INIT" /\ due = None /\ (up <=> gap = T35) /\ (up => line = <<>>)
     \/ /\ eRcvState = "RCV" /\ up /\ usRcvBufferPos >= 1
        /\ IF gap = T35 THEN line = <<>> /\ Judged ELSE due = None /\ Kept(0)
     \/ /\ eRcvState = "ERROR" /\ up /\ due = None
        /\ IF gap = T35 THEN line = <<>> ELSE Len(line) > 3

(* A byte has arrived that the receiver has not read.                       *)
Arrived ==
  /\ Len(rxf) = 1 /\ gap = 0 /\ AtRest
  /\ due = None /\ ~served
  /\ \/ eRcvState = "INIT" /\ ~up /\ mtie
     \/ eRcvState = "IDLE" /\ up /\ line = rxf
     \/ /\ eRcvState = "RCV" /\ up /\ mtie /\ usRcvBufferPos >= 1
        /\ Kept(1) /\ line[usRcvBufferPos + 1] = rxf[1]
     \/ eRcvState = "ERROR" /\ up /\ mtie /\ Len(line) > 3

Listens == Silent \/ Counting \/ Arrived

(* The master speaks in whole frames, and not while it expects a reply.     *)
Genuine(s) == CrcOk(s) => s[2] \in Requests /\ (s[1] = Me => await)
Speaks ==
  /\ up => Genuine(line \o sending)
  /\ sending # <<>> => shift = <<>> /\ txf = <<>>
  /\ due # None =>
       /\ CrcOk(due) /\ due[1] \in {Me, Broadcast} /\ due[2] \in Requests
       /\ due[1] = Me => IF sending = <<>> THEN await ELSE AtRest /\ ~mtie

(* What the loop is about, step by step.                                    *)
Chosen ==
  /\ due # None /\ ~served
  /\ loop.address = due[1] /\ ucRTUBuf[1] = due[1] /\ ucRTUBuf[2] = due[2]
  /\ loop.length = 1
Replying ==
  /\ due # None /\ due[1] = Me /\ served /\ sending = <<>>
  /\ loop.length = 1
  /\ loop.error <=> due[2] \in {<<"outside">>, <<"unknown">>}
  /\ ~loop.error => ucRTUBuf[2] = Answer(due)[2]
Built ==
  /\ ucRTUBuf[1] = Me
  /\ pucSndBufferCur + usSndBufferCount = IF pc = "checksum" THEN 3 ELSE 4
  /\ pucSndBufferCur >= 1
  /\ pc \in {"checksum", "start", "enable"} => pucSndBufferCur = 1
  /\ pc # "checksum" => ucRTUBuf[3] = ucRTUBuf[1] \o ucRTUBuf[2]

Late == {"print", "check", "frame", "checksum", "start", "enable", "fsm", "put",
         "advance"}
Works ==
  /\ pc \in {"get", "clear", "post"} => xEventInQueue
  /\ pc = "clear" => loop.event = eQueuedEvent
  /\ pc \in {"poll", "get", "clear"} /\ xEventInQueue =>
       /\ eQueuedEvent = "FRAME_RECEIVED" => Judged
       /\ eQueuedEvent = "EXECUTE" => Chosen
  /\ pc \in {"length", "crc", "address", "size"} => Judged
  /\ pc \in {"address", "size"} => usRcvBufferPos = 3 /\ ucRTUBuf[3] = ucRTUBuf[1] \o ucRTUBuf[2]
  /\ pc = "size" => loop.address = ucRTUBuf[1]
  /\ pc \in {"flag", "post", "execute"} => Chosen
  /\ pc \in Late => Replying
  /\ pc \in {"print", "put", "advance"} => loop.error
  /\ pc = "put" => loop.cur = 1
  /\ loop.error => pc \in Late
  /\ pc \in {"checksum", "start"} \/ eSndState = "XMIT" => Built
  /\ xEventInQueue =>
       \/ pc \in {"poll", "get", "clear", "post"}
       \/ pc \in {"fsm", "put", "advance"} /\ eQueuedEvent = "FRAME_SENT"

(* What has been sent and what is on its way to the line.                   *)
Out == heard \o shift \o txf
Begins(s, t) == Len(s) <= Len(t) /\ \A i \in 1..Len(s) : s[i] = t[i]
Sends ==
  /\ ~served \/ (~Answered /\ ~Excepted) => Out = <<>>
  /\ Answered =>
       /\ Begins(Out, Answer(due))
       /\ pc \in {"check", "frame", "checksum", "start", "enable"} => Out = <<>>
       /\ eSndState = "XMIT" => Len(Out) = pucSndBufferCur - 1

IInv == TypeOK /\ Wires /\ Listens /\ Speaks /\ Works /\ Sends

-----------------------------------------------------------------------------
(* Tokens, frames and sequences                                             *)

LEMMA Constants ==
  /\ T35 \in Nat /\ T35 > 0 /\ MaxFrame \in Nat /\ MaxFrame >= 3
  /\ RxDepth \in Nat /\ RxDepth > 0 /\ TextLen \in Nat /\ MaxFaults \in Nat
  /\ Damages \subseteq Tokens
BY ModbusAssumption DEF MinFrame

LEMMA Zero == 0 \in USHORT
BY DEF USHORT

LEMMA WrappedIs ==
  /\ \A n \in Int : Wrapped(n) \in USHORT
  /\ \A n \in 0..9 : Wrapped(n) = n /\ n \in USHORT
BY DEF Wrapped, USHORT

LEMMA USHORTIsNat == USHORT \subseteq Nat
BY DEF USHORT

LEMMA TokensDiffer ==
  /\ Me # Broadcast
  /\ <<"read">> # <<"outside">> /\ <<"read">> # <<"unknown">> /\ <<"read">> # <<"write">>
  /\ <<"write">> # <<"outside">> /\ <<"write">> # <<"unknown">>
<1>1. \A x, y : x # y => <<x>> # <<y>>
  <2> SUFFICES ASSUME NEW x, NEW y, <<x>> = <<y>> PROVE x = y
    OBVIOUS
  <2>1. <<x>>[1] = x /\ <<y>>[1] = y
    OBVIOUS
  <2> QED BY <2>1
<1>2. /\ "me" # "all" /\ "read" # "outside" /\ "read" # "unknown" /\ "read" # "write"
      /\ "write" # "outside" /\ "write" # "unknown"
  OBVIOUS
<1> QED BY <1>1, <1>2 DEF Me, Broadcast

LEMMA AreTokens ==
  /\ Addrs \subseteq Tokens /\ Requests \subseteq Tokens
  /\ Me \in Addrs /\ Broadcast \in Addrs /\ <<"data">> \in Tokens /\ <<"exception">> \in Tokens
  /\ Junk \in Tokens /\ Text \in Tokens
<1>1. \A x \in Names : <<x>> \in Tokens
  BY DEF Tokens
<1>2. /\ "me" \in Names /\ "other" \in Names /\ "all" \in Names /\ "read" \in Names
      /\ "write" \in Names /\ "outside" \in Names /\ "unknown" \in Names
      /\ "data" \in Names /\ "exception" \in Names /\ "junk" \in Names
      /\ "text" \in Names
  BY DEF Names
<1>3. /\ Addrs \subseteq Tokens /\ Me \in Addrs /\ Broadcast \in Addrs
  BY <1>1, <1>2 DEF Addrs, Me, Broadcast
<1>4. Requests \subseteq Tokens
  BY <1>1, <1>2 DEF Requests
<1> QED BY <1>1, <1>2, <1>3, <1>4 DEF Junk, Text

LEMMA NotEmpty ==
  ASSUME NEW s \in Seq(Tokens), Len(s) # 0
  PROVE  s # <<>>
BY EmptySeq

LEMMA Joined ==
  ASSUME NEW a \in Tokens, NEW p \in Tokens
  PROVE  a \o p \in Tokens
BY ConcatProperties DEF Tokens

LEMMA FrameIs ==
  ASSUME NEW a \in Tokens, NEW p \in Tokens
  PROVE  /\ Frame(a, p) \in Seq(Tokens) /\ Len(Frame(a, p)) = 3
         /\ Frame(a, p)[1] = a /\ Frame(a, p)[2] = p /\ Frame(a, p)[3] = a \o p
         /\ CrcOk(Frame(a, p))
<1>1. a \o p \in Tokens
  BY Joined
<1>2. \A c \in Tokens : /\ <<a, p, c>> \in Seq(Tokens) /\ Len(<<a, p, c>>) = 3
                        /\ <<a, p, c>>[1] = a /\ <<a, p, c>>[2] = p /\ <<a, p, c>>[3] = c
  OBVIOUS
<1> QED BY <1>1, <1>2 DEF Frame, CrcOk

(* The checksum finds any damage.                                           *)
LEMMA DamageIsFound ==
  ASSUME NEW a \in Tokens, NEW p \in Tokens,
         NEW s, s \in Damaged(Frame(a, p)), s # Frame(a, p)
  PROVE  s \in Seq(Tokens) /\ s # <<>> /\ ~CrcOk(s)
<1> DEFINE f == Frame(a, p)
<1>0. /\ f \in Seq(Tokens) /\ Len(f) = 3
      /\ f[1] = a /\ f[2] = p /\ f[3] = a \o p
  BY FrameIs
<1> HIDE DEF f
<1>1. CASE \E i \in 1..Len(f) : s = Without(f, i)
  <2>1. PICK i \in 1..3 : s = SubSeq(f, 1, i - 1) \o SubSeq(f, i + 1, Len(f))
    BY <1>0, <1>1 DEF Without
  <2>2. SubSeq(f, 1, i - 1) \in Seq(Tokens) /\ Len(SubSeq(f, 1, i - 1)) = i - 1
    BY <1>0, SubSeqProperties, ElementOfSeq
  <2>3. SubSeq(f, i + 1, Len(f)) \in Seq(Tokens) /\ Len(SubSeq(f, i + 1, Len(f))) = 3 - i
    <3>1. i + 1 \in Int /\ Len(f) \in Int /\ \A k \in i + 1..Len(f) : f[k] \in Tokens
      <4>1. \A k \in 1..3 : f[k] \in Tokens
        BY <1>0, ElementOfSeq
      <4> QED BY <4>1, <1>0
    <3>2. Len(SubSeq(f, i + 1, Len(f))) = IF i + 1 <= Len(f) THEN Len(f) - (i + 1) + 1 ELSE 0
      BY <3>1, SubSeqProperties
    <3> QED BY <3>1, <3>2, <1>0, SubSeqProperties
  <2>4. s \in Seq(Tokens) /\ Len(s) = 2
    <3>1. \A u, v \in Seq(Tokens) : u \o v \in Seq(Tokens) /\ Len(u \o v) = Len(u) + Len(v)
      BY ConcatProperties
    <3>2. (i - 1) + (3 - i) = 2
      BY <2>1
    <3> QED BY <2>1, <2>2, <2>3, <3>1, <3>2
  <2>5. s # <<>>
    <3>1. Len(s) # 0
      BY <2>4
    <3> QED BY ONLY <2>4, <3>1, NotEmpty
  <2> QED BY <2>4, <2>5 DEF CrcOk
<1>2. CASE \E i \in 1..Len(f), b \in Damages : s = [f EXCEPT ![i] = b]
  <2>1. PICK i \in 1..Len(f), b \in Damages : s = [f EXCEPT ![i] = b]
    BY <1>2
  <2>2. i \in 1..3 /\ b \in Tokens
    BY <2>1, <1>0, Constants
  <2>3. /\ s \in Seq(Tokens) /\ Len(s) = 3
        /\ \A j \in 1..3 : s[j] = IF j = i THEN b ELSE f[j]
    BY <2>1, <2>2, <1>0, ExceptSeq
  <2>4. b # f[i]
    <3>1. SUFFICES ASSUME b = f[i] PROVE s = f
      BY DEF f
    <3> QED BY <3>1, <2>2, <2>3, <1>0, SeqEqual
  <2>5. a \in Seq(Names) /\ p \in Seq(Names) /\ b \in Seq(Names)
    BY <2>2 DEF Tokens
  <2>6. ~CrcOk(s)
    <3>1. CASE i = 1
      <4>1. s[1] = b /\ s[2] = p /\ s[3] = a \o p
        BY <3>1, <2>3, <1>0
      <4>2. b \o p # a \o p
        <5>1. \A u, v, x \in Seq(Names) : u \o x = v \o x => u = v
          BY ConcatSimplifications
        <5> QED BY <3>1, <2>4, <2>5, <1>0, <5>1
      <4> QED BY <4>1, <4>2 DEF CrcOk
    <3>2. CASE i = 2
      <4>1. s[1] = a /\ s[2] = b /\ s[3] = a \o p
        BY <3>2, <2>3, <1>0
      <4>2. a \o b # a \o p
        <5>1. \A u, v, x \in Seq(Names) : x \o u = x \o v => u = v
          BY ConcatSimplifications
        <5> QED BY <3>2, <2>4, <2>5, <1>0, <5>1
      <4> QED BY <4>1, <4>2 DEF CrcOk
    <3>3. CASE i = 3
      <4>1. s[1] = a /\ s[2] = p /\ s[3] = b
        BY <3>3, <2>3, <1>0
      <4> QED BY <4>1, <3>3, <2>4, <1>0 DEF CrcOk
    <3> QED BY <3>1, <3>2, <3>3, <2>2
  <2>7. Len(s) # 0
    BY <2>3
  <2>8. s # <<>>
    BY ONLY <2>3, <2>7, NotEmpty
  <2> QED BY <2>3, <2>6, <2>8
<1>3. CASE s = f \o <<Junk>> \/ s = f \o <<Junk, Junk>>
  <2>1. \A t \in Seq(Tokens) : Len(t) > 0 =>
          f \o t \in Seq(Tokens) /\ Len(f \o t) > 3
    <3> SUFFICES ASSUME NEW t \in Seq(Tokens), Len(t) > 0
                 PROVE  f \o t \in Seq(Tokens) /\ Len(f \o t) > 3
      OBVIOUS
    <3>1. f \o t \in Seq(Tokens) /\ Len(f \o t) = Len(f) + Len(t)
      BY <1>0, ConcatProperties
    <3>2. Len(t) \in Nat
      BY LenProperties
    <3> QED BY <3>1, <3>2, <1>0
  <2>2. \A t \in Tokens : /\ <<t>> \in Seq(Tokens) /\ Len(<<t>>) = 1
                          /\ <<t, t>> \in Seq(Tokens) /\ Len(<<t, t>>) = 2
    OBVIOUS
  <2>3. s \in Seq(Tokens) /\ Len(s) > 3
    <3>1. /\ <<Junk>> \in Seq(Tokens) /\ Len(<<Junk>>) > 0
          /\ <<Junk, Junk>> \in Seq(Tokens) /\ Len(<<Junk, Junk>>) > 0
      BY <2>2, AreTokens
    <3> QED BY <1>3, <2>1, <3>1
  <2>4. Len(s) # 0 /\ Len(s) # 3
    <3>1. Len(s) \in Nat
      BY ONLY <2>3, LenProperties
    <3>2. \A n \in Nat : n > 3 => n # 0 /\ n # 3
      OBVIOUS
    <3> QED BY <2>3, <3>1, <3>2
  <2>5. s # <<>>
    BY ONLY <2>3, <2>4, NotEmpty
  <2> QED BY <2>3, <2>4, <2>5 DEF CrcOk
<1> QED BY <1>1, <1>2, <1>3 DEF Damaged, f

LEMMA SingleToken ==
  ASSUME NEW b \in Tokens
  PROVE  <<b>> \in Seq(Tokens) /\ Len(<<b>>) = 1 /\ <<b>>[1] = b /\ <<b>> # <<>>
OBVIOUS

(* A byte leaves the master and is heard: the frame stays the same.         *)
LEMMA MovesOn ==
  ASSUME NEW s \in Seq(Tokens), NEW t \in Seq(Tokens), t # <<>>
  PROVE  Append(s, Head(t)) \o Tail(t) = s \o t
<1>1. Head(t) \in Tokens /\ Tail(t) \in Seq(Tokens) /\ Head(t) = t[1]
  BY HeadTailProperties
<1>2. Append(s, Head(t)) \o Tail(t) = s \o (<<Head(t)>> \o Tail(t))
  BY <1>1, SingleToken, AppendIsConcat, ConcatAssociative
<1>3. <<Head(t)>> \o Tail(t) = t
  <2>1. /\ Tail(t) \in Seq(Tokens) /\ Len(Tail(t)) = Len(t) - 1
        /\ \A i \in 1..Len(Tail(t)) : Tail(t)[i] = t[i + 1]
    BY HeadTailProperties
  <2>2. <<Head(t)>> \in Seq(Tokens) /\ Len(<<Head(t)>>) = 1 /\ <<Head(t)>>[1] = t[1]
    BY <1>1, SingleToken
  <2> DEFINE h == <<Head(t)>>
             u == Tail(t)
  <2> HIDE DEF h, u
  <2>3. /\ h \o u \in Seq(Tokens) /\ Len(h \o u) = Len(h) + Len(u)
        /\ \A i \in 1..Len(h) + Len(u) : (h \o u)[i] = IF i <= Len(h) THEN h[i] ELSE u[i - Len(h)]
    BY <2>1, <2>2, ConcatProperties DEF h, u
  <2>4. Len(t) \in Nat
    BY LenProperties
  <2>5. /\ Len(h \o u) = Len(t)
        /\ \A i \in 1..Len(t) : (h \o u)[i] = t[i]
    <3>1. Len(h) = 1 /\ h[1] = t[1] /\ Len(u) = Len(t) - 1 /\ \A i \in 1..Len(u) : u[i] = t[i + 1]
      BY <2>1, <2>2 DEF h, u
    <3>2. ASSUME NEW i \in 1..Len(t) PROVE (h \o u)[i] = t[i]
      <4>1. CASE i = 1
        BY <4>1, <3>1, <2>3, <2>4
      <4>2. CASE i > 1
        <5>1. i - 1 \in 1..Len(u) /\ (h \o u)[i] = u[i - 1]
          BY <4>2, <3>1, <2>3, <2>4
        <5>2. u[i - 1] = t[(i - 1) + 1]
          BY <5>1, <3>1
        <5> QED BY <5>1, <5>2
      <4>3. i = 1 \/ i > 1
        OBVIOUS
      <4> QED BY <4>1, <4>2, <4>3
    <3> QED BY <3>1, <3>2, <2>3, <2>4
  <2>6. h \o u = t
    BY <2>3, <2>5, SeqEqual
  <2> QED BY <2>6 DEF h, u
<1> QED BY <1>2, <1>3

LEMMA NoneLeft == \A s \in Seq(Tokens) : s \o <<>> = s /\ <<>> \o s = s
BY ConcatEmptySeq

LEMMA AllEmpty ==
  ASSUME NEW s \in Seq(Tokens), NEW t \in Seq(Tokens), NEW u \in Seq(Tokens)
  PROVE  s \o t \o u = <<>> <=> s = <<>> /\ t = <<>> /\ u = <<>>
<1>1. s \o t \in Seq(Tokens)
  BY ConcatProperties
<1> QED BY <1>1, ConcatEqualIffEmpty

LEMMA ShortSeq ==
  ASSUME NEW s \in Seq(Tokens), Len(s) = 1
  PROVE  Head(s) = s[1] /\ Tail(s) = <<>> /\ s # <<>> /\ s[1] \in Tokens
<1>1. s # <<>>
  BY EmptySeq
<1>2. Tail(s) \in Seq(Tokens) /\ Len(Tail(s)) = 0
  BY <1>1, HeadTailProperties
<1> QED BY <1>1, <1>2, EmptySeq, HeadTailProperties, ElementOfSeq

LEMMA ReceivedCrc ==
  ASSUME ucRTUBuf \in [1..MaxFrame -> Tokens], usRcvBufferPos \in 0..MaxFrame
  PROVE  CrcOk(Received) <=>
           usRcvBufferPos = 3 /\ ucRTUBuf[3] = ucRTUBuf[1] \o ucRTUBuf[2]
<1> DEFINE s == SubSeq(ucRTUBuf, 1, usRcvBufferPos)
<1>1. /\ Len(s) = usRcvBufferPos
      /\ \A i \in 1..usRcvBufferPos : s[i] = ucRTUBuf[i]
  <2>1. 1 \in Int /\ usRcvBufferPos \in Int /\ \A i \in 1..usRcvBufferPos : ucRTUBuf[i] \in Tokens
    BY Constants
  <2>2. /\ Len(s) = IF 1 <= usRcvBufferPos THEN usRcvBufferPos - 1 + 1 ELSE 0
        /\ \A i \in 1..usRcvBufferPos - 1 + 1 : s[i] = ucRTUBuf[1 + i - 1]
    BY <2>1, SubSeqProperties
  <2> HIDE DEF s
  <2>3. Len(s) = usRcvBufferPos
    BY <2>2, Constants
  <2>4. ASSUME NEW i \in 1..usRcvBufferPos PROVE s[i] = ucRTUBuf[i]
    <3>1. i \in 1..usRcvBufferPos - 1 + 1 /\ 1 + i - 1 = i
      BY <2>1
    <3> QED BY <3>1, <2>2
  <2> QED BY <2>3, <2>4
<1> HIDE DEF s
<1>2. CrcOk(s) <=> usRcvBufferPos = 3 /\ ucRTUBuf[3] = ucRTUBuf[1] \o ucRTUBuf[2]
  <2>1. CASE usRcvBufferPos = 3
    <3>1. s[1] = ucRTUBuf[1] /\ s[2] = ucRTUBuf[2] /\ s[3] = ucRTUBuf[3] /\ Len(s) = 3
      BY <1>1, <2>1
    <3> QED BY <3>1, <2>1 DEF CrcOk
  <2>2. CASE usRcvBufferPos # 3
    BY <1>1, <2>2 DEF CrcOk
  <2> QED BY <2>1, <2>2
<1> QED BY <1>2 DEF s, Received

(* What a genuine request for this slave has to be answered with.           *)
LEMMA AnswerIs ==
  ASSUME NEW d \in Seq(Tokens), CrcOk(d), d[1] = Me
  PROVE  /\ Answer(d) \in Seq(Tokens) /\ Len(Answer(d)) = 3
         /\ Answer(d)[1] = Me
         /\ Answer(d)[2] = IF d[2] = <<"read">> THEN <<"data">> ELSE d[2]
         /\ Answer(d)[3] = Answer(d)[1] \o Answer(d)[2]
<1>1. CASE d[2] = <<"read">>
  <2>1. Me \in Tokens /\ <<"data">> \in Tokens
    BY AreTokens
  <2>2. Answer(d) = Frame(Me, <<"data">>)
    BY <1>1 DEF Answer
  <2>3. /\ Answer(d) \in Seq(Tokens) /\ Len(Answer(d)) = 3
        /\ Answer(d)[1] = Me /\ Answer(d)[2] = <<"data">> /\ Answer(d)[3] = Me \o <<"data">>
    <3> DEFINE p == <<"data">>
    <3>1. Me \in Tokens /\ p \in Tokens /\ Answer(d) = Frame(Me, p)
      BY <2>1, <2>2
    <3> HIDE DEF p
    <3>2. LET f == Frame(Me, p)
          IN  f \in Seq(Tokens) /\ Len(f) = 3 /\ f[1] = Me /\ f[2] = p /\ f[3] = Me \o p
      BY ONLY <3>1, FrameIs
    <3> QED BY <3>1, <3>2 DEF p
  <2> QED BY <1>1, <2>3
<1>2. CASE d[2] # <<"read">>
  BY <1>2 DEF Answer, CrcOk
<1> QED BY <1>1, <1>2

(* A byte is put where the transmitter has room.                            *)
LEMMA PutIs ==
  ASSUME TypeOK, NEW b \in Tokens, RoomToSend, Put(b), UNCHANGED heard
  PROVE  /\ shift' \in Seq(Tokens) /\ Len(shift') <= 1
         /\ txf' \in Seq(Tokens) /\ Len(txf') <= 1
         /\ Out \in Seq(Tokens) /\ Out' = Append(Out, b)
<1>0. /\ heard \in Seq(Tokens) /\ shift \in Seq(Tokens) /\ Len(shift) <= 1
      /\ txf = <<>> /\ heard' = heard /\ <<>> \in Seq(Tokens) /\ Len(<<>>) = 0
  <2>1. <<>> \in Seq(Tokens) /\ Len(<<>>) = 0
    BY EmptySeq
  <2> QED BY <2>1 DEF TypeOK, RoomToSend
<1>1. heard \o shift \in Seq(Tokens)
  BY <1>0, ConcatProperties
<1>2. Out = heard \o shift /\ Out \in Seq(Tokens)
  BY <1>0, <1>1, NoneLeft DEF Out
<1>3. <<b>> \in Seq(Tokens) /\ Len(<<b>>) = 1
  BY SingleToken
<1>4. CASE shift = <<>>
  <2>1. shift' = <<b>> /\ txf' = <<>>
    BY <1>4 DEF Put
  <2>2. Out = heard
    BY <1>0, <1>2, <1>4, NoneLeft
  <2>3. heard \o <<b>> \in Seq(Tokens)
    BY <1>0, <1>3, ConcatProperties
  <2>4. Out' = heard \o <<b>>
    BY <1>0, <2>1, <2>3, NoneLeft DEF Out
  <2> QED BY <1>0, <1>3, <2>1, <2>2, <2>4, AppendIsConcat
<1>5. CASE shift # <<>>
  <2>1. txf' = <<b>> /\ shift' = shift
    BY <1>5 DEF Put
  <2>2. Out' = (heard \o shift) \o <<b>>
    BY <1>0, <2>1 DEF Out
  <2> QED BY <1>0, <1>1, <1>2, <1>3, <2>1, <2>2, AppendIsConcat
<1> QED BY <1>4, <1>5

(* The loop works while the line is silent and no interrupt is pending.     *)
LEMMA LoopFrame ==
  ASSUME eMBPoll
  PROVE  /\ UNCHANGED <<rxf, timer, isr, sending, gap, await, line, up, due, heard, faults>>
         /\ UNCHANGED <<eRcvState, usRcvBufferPos>>
         /\ served' = (served \/ pc = "execute") /\ Identify(iir)
         /\ isr = "no" /\ (Prompt => ~Pending)
         /\ pc = "poll" => xEventInQueue
<1>1. /\ UNCHANGED <<rxf, timer, isr, sending, gap, await, line, up, due, heard, faults>>
      /\ served' = (served \/ pc = "execute") /\ Identify(iir)
  BY DEF eMBPoll
<1>2. CASE PollEvent \/ GetEvent \/ ClearEvent
  BY <1>1, <1>2 DEF PollEvent, GetEvent, ClearEvent, At, receiver
<1>3. CASE CheckLength \/ CheckCrc \/ ReadAddress \/ ReadSize \/ SetFlag \/ PostExecute
  BY <1>1, <1>3 DEF CheckLength, CheckCrc, ReadAddress, ReadSize, SetFlag, PostExecute,
                    At, receiver
<1>4. CASE CheckIdle \/ BuildFrame \/ AddChecksum \/ StartTransmitter \/ AdvanceFirst
  BY <1>1, <1>4 DEF CheckIdle, BuildFrame, AddChecksum, StartTransmitter,
                    AdvanceFirst, At, receiver
<1>6. CASE Execute
  <2>1. UNCHANGED <<eRcvState, usRcvBufferPos>> /\ At("execute")
    BY <1>6 DEF Execute
  <2> QED BY <1>1, <2>1 DEF At
<1>5. CASE PrintText \/ EnableTransmitter \/ TransmitFirst \/ PutFirst
  BY <1>1, <1>5 DEF PrintText, EnableTransmitter, TransmitFirst, PutFirst, At, receiver
<1> QED BY <1>2, <1>3, <1>4, <1>5, <1>6 DEF eMBPoll, Quiet

LEMMA LoopInSilence ==
  ASSUME Prompt, IInv, eMBPoll
  PROVE  /\ isr = "no" /\ iir = "none" /\ ~TimerPending
         /\ Silent /\ Silent' /\ ~AtRest
<1>1. isr = "no" /\ iir = "none" /\ ~TimerPending
  BY LoopFrame DEF Pending
<1>2. ~AtRest
  BY LoopFrame DEF AtRest
<1>3. Silent
  BY <1>2 DEF IInv, Listens, Counting, Arrived
<1>4. Silent'
  BY <1>3, LoopFrame DEF Silent, timer
<1> QED BY <1>1, <1>2, <1>3, <1>4

(* The interrupt that is left after a step of the loop.                     *)
LEMMA LoopIdentifies ==
  ASSUME Prompt, IInv, eMBPoll
  PROVE  iir' = IF "tx" \in ier' /\ txf' = <<>> THEN "tx" ELSE "none"
BY LoopFrame, LoopInSilence DEF Silent, Identify, Settled

LEMMA Initially == Init => IInv
<1> SUFFICES ASSUME Init PROVE IInv
  OBVIOUS
<1>1. /\ <<>> \in Seq(Tokens) /\ Len(<<>>) = 0
      /\ <<Junk>> \in Seq(Tokens) /\ Frame(Me, <<"write">>) \in Seq(Tokens)
  BY EmptySeq, AreTokens, SingleToken, FrameIs DEF Requests
<1>2. sending \in Seq(Tokens)
  BY <1>1 DEF Init
<1>3. loop \in [event : Events, address : Tokens, length : USHORT, byte : Tokens,
               cur : Nat, error : BOOLEAN, left : Nat] /\ ~loop.error
  BY AreTokens, Zero DEF Init, Resting, Events
<1>4. ucRTUBuf \in [1..MaxFrame -> Tokens]
  BY AreTokens DEF Init
<1>5. TypeOK
  <2>1. mtime \in 0..T35 /\ gap \in 0..T35 /\ faults \in 0..MaxFaults
        /\ usRcvBufferPos \in 0..MaxFrame
    BY Constants DEF Init
  <2>2. Len(rxf) <= RxDepth /\ Len(txf) <= 1 /\ Len(shift) <= 1
    BY <1>1, Constants DEF Init
  <2>3. rxf \in Seq(Tokens) /\ txf \in Seq(Tokens) /\ shift \in Seq(Tokens)
        /\ line \in Seq(Tokens) /\ due \in Seq(Tokens) /\ heard \in Seq(Tokens)
    BY <1>1 DEF Init, None
  <2>4. /\ ier \in SUBSET {"rx", "tx"} /\ iir \in {"none", "rx", "tx"}
        /\ eQueuedEvent \in Events /\ usSndBufferCount \in USHORT
    BY Zero DEF Init, Events
  <2> QED BY <2>1, <2>2, <2>3, <2>4, <1>2, <1>3, <1>4 DEF Init, TypeOK
<1>6. Wires /\ Listens
  BY Constants DEF Init, Wires, Listens, Counting, AtRest, None
<1>7. Speaks /\ Works
  <2>1. Speaks
    BY DEF Init, Speaks, None
  <2>2. ~xEventInQueue /\ pc = "poll" /\ eSndState = "IDLE" /\ ~loop.error
    BY <1>3 DEF Init
  <2> QED BY <2>1, <2>2 DEF Works, Late
<1>8. Sends
  <2>1. Out = <<>>
    BY <1>1, NoneLeft DEF Init, Out
  <2> QED BY <2>1 DEF Init, Sends, None, Answered
<1> QED BY <1>5, <1>6, <1>7, <1>8 DEF IInv

-----------------------------------------------------------------------------
(* The types                                                                *)

LEMMA SlotOfFrame == 1..3 \subseteq 1..MaxFrame
BY Constants

LEMMA LoopField ==
  ASSUME TypeOK
  PROVE  /\ loop.address \in Tokens /\ loop.length \in USHORT /\ loop.byte \in Tokens
         /\ loop.cur \in Nat /\ loop.left \in Nat /\ loop.event \in Events
BY DEF TypeOK

LEMMA RestingType ==
  /\ Resting \in [event : Events, address : Tokens, length : USHORT, byte : Tokens,
                  cur : Nat, error : BOOLEAN, left : Nat]
  /\ ~Resting.error
BY AreTokens, Zero DEF Resting, Events

(* The part of the types that the steps of the loop and of the sender touch. *)
Labels ==
  {"poll", "get", "clear", "length", "crc", "address", "size", "flag", "post",
   "execute", "print", "check", "frame", "checksum", "start", "enable", "fsm",
   "put", "advance"}
LoopType ==
  [event : Events, address : Tokens, length : USHORT, byte : Tokens,
   cur : Nat, error : BOOLEAN, left : Nat]
Working ==
  /\ ier \in SUBSET {"rx", "tx"}
  /\ txf \in Seq(Tokens) /\ shift \in Seq(Tokens) /\ Len(txf) <= 1 /\ Len(shift) <= 1
  /\ ucRTUBuf \in [1..MaxFrame -> Tokens]
  /\ eSndState \in {"IDLE", "XMIT"} /\ usSndBufferCount \in USHORT
  /\ pucSndBufferCur \in Nat
  /\ xEventInQueue \in BOOLEAN /\ eQueuedEvent \in Events
  /\ pc \in Labels /\ loop \in LoopType

LEMMA WorkingTypes ==
  ASSUME TypeOK, Working',
         UNCHANGED <<rxf, timer, sending, gap, await, line, up, due, heard, faults>>,
         UNCHANGED <<eRcvState, usRcvBufferPos>>,
         iir' \in {"none", "rx", "tx"}, isr' \in {"no", "tx"}, served' \in BOOLEAN
  PROVE  TypeOK'
<1>1. /\ mtime \in 0..T35 /\ mtie \in BOOLEAN /\ rxf \in Seq(Tokens) /\ Len(rxf) <= RxDepth
      /\ eRcvState \in {"INIT", "IDLE", "RCV", "ERROR"} /\ usRcvBufferPos \in 0..MaxFrame
      /\ sending \in Seq(Tokens) /\ gap \in 0..T35 /\ await \in BOOLEAN
      /\ line \in Seq(Tokens) /\ up \in BOOLEAN /\ due \in Seq(Tokens)
      /\ heard \in Seq(Tokens) /\ faults \in 0..MaxFaults
  BY DEF TypeOK
<1> QED BY <1>1 DEF TypeOK, Working, Labels, LoopType, timer

LEMMA WorkingNow == TypeOK => Working
BY DEF TypeOK, Working, Labels, LoopType

LEMMA LoopChanges ==
  ASSUME NEW l \in LoopType
  PROVE  /\ \A e \in Events : [l EXCEPT !.event = e] \in LoopType
         /\ \A t \in Tokens : [l EXCEPT !.address = t] \in LoopType
         /\ \A n \in USHORT : [l EXCEPT !.length = n] \in LoopType
         /\ \A t \in Tokens, n \in Nat : [l EXCEPT !.byte = t, !.cur = n] \in LoopType
         /\ \A n \in Nat : [l EXCEPT !.left = n] \in LoopType
         /\ \A n \in USHORT, k \in Nat :
              [l EXCEPT !.length = n, !.error = TRUE, !.left = k] \in LoopType
BY DEF LoopType

LEMMA BufChanges ==
  ASSUME ucRTUBuf \in [1..MaxFrame -> Tokens], NEW i \in 1..MaxFrame, NEW t \in Tokens
  PROVE  /\ [ucRTUBuf EXCEPT ![i] = t] \in [1..MaxFrame -> Tokens]
         /\ \A j \in 1..MaxFrame :
              [ucRTUBuf EXCEPT ![i] = t][j] = IF j = i THEN t ELSE ucRTUBuf[j]
OBVIOUS

LEMMA EventTypes == {"READY", "FRAME_RECEIVED", "EXECUTE", "FRAME_SENT"} = Events
BY DEF Events

LEMMA LoopTypes ==
  ASSUME Prompt, IInv, eMBPoll
  PROVE  TypeOK'
<1>0. /\ TypeOK /\ Working /\ 1 \in 1..MaxFrame /\ 2 \in 1..MaxFrame /\ 3 \in 1..MaxFrame
      /\ loop \in LoopType /\ Resting \in LoopType
  BY WorkingNow, Constants, RestingType DEF IInv, Working, LoopType
<1>1. ASSUME Working' PROVE TypeOK'
  <2>1. iir' \in {"none", "rx", "tx"}
    BY LoopIdentifies
  <2>2. isr' \in {"no", "tx"} /\ served' \in BOOLEAN
    BY <1>0, LoopFrame DEF TypeOK
  <2> QED BY <1>0, <1>1, <2>1, <2>2, LoopFrame, WorkingTypes
<1>2. CASE Quiet /\ UNCHANGED <<ier, txf, shift>>
  <2>0. Working' <=> /\ ucRTUBuf' \in [1..MaxFrame -> Tokens]
                     /\ eSndState' \in {"IDLE", "XMIT"} /\ usSndBufferCount' \in USHORT
                     /\ pucSndBufferCur' \in Nat
                     /\ xEventInQueue' \in BOOLEAN /\ eQueuedEvent' \in Events
                     /\ pc' \in Labels /\ loop' \in LoopType
    BY <1>0, <1>2 DEF Working
  <2>1. CASE PollEvent
    BY <2>1, <1>1, <2>0, <1>0 DEF PollEvent, Working, Labels, receiver, sender, queue
  <2>2. CASE GetEvent
    <3>1. eQueuedEvent \in Events
      BY <1>0 DEF Working
    <3>2. loop' \in LoopType
      BY <1>0, <2>2, <3>1, LoopChanges DEF GetEvent
    <3>3. pc' = "clear" /\ UNCHANGED <<receiver, sender, queue>>
      BY <2>2 DEF GetEvent
    <3> QED BY <1>1, <2>0, <1>0, <3>2, <3>3 DEF Working, Labels, receiver, sender, queue
  <2>3. CASE ClearEvent
    BY <2>3, <1>1, <2>0, <1>0 DEF ClearEvent, Returns, Working, Labels, receiver, sender
  <2>4. CASE CheckLength
    BY <2>4, <1>1, <2>0, <1>0 DEF CheckLength, Returns, Working, Labels, receiver, sender, queue
  <2>5. CASE CheckCrc
    BY <2>5, <1>1, <2>0, <1>0 DEF CheckCrc, Returns, Working, Labels, receiver, sender, queue
  <2>6. CASE ReadAddress
    <3>1. ucRTUBuf[1] \in Tokens
      BY <1>0 DEF Working
    <3> QED BY <2>6, <1>1, <2>0, <1>0, <3>1, LoopChanges
            DEF ReadAddress, Working, Labels, receiver, sender, queue
  <2>7. CASE ReadSize
    <3>1. Wrapped(usRcvBufferPos - 2) \in USHORT
      BY <1>0, WrappedIs, Constants DEF TypeOK
    <3> QED BY <2>7, <1>1, <2>0, <1>0, <3>1, LoopChanges
            DEF ReadSize, Returns, Working, Labels, receiver, sender, queue
  <2>8. CASE SetFlag
    BY <2>8, <1>1, <2>0, <1>0 DEF SetFlag, Working, Labels, receiver, sender
  <2>9. CASE PostExecute
    BY <2>9, <1>1, <2>0, <1>0, EventTypes DEF PostExecute, Working, Labels, receiver, sender
  <2>10. CASE Execute
    <3>1. ucRTUBuf[2] \in Tokens /\ Written(ucRTUBuf[2]) \in Tokens
      BY <1>0, AreTokens DEF Working, Written
    <3>2. \A t \in Tokens : [ucRTUBuf EXCEPT ![2] = t] \in [1..MaxFrame -> Tokens]
      BY <1>0, BufChanges DEF Working
    <3>3. [loop EXCEPT !.length = 1, !.error = TRUE, !.left = TextLen] \in LoopType
      <4>1. 1 \in USHORT /\ TextLen \in Nat
        BY WrappedIs, Constants
      <4> QED BY <1>0, <4>1, LoopChanges
    <3>4. /\ \/ ucRTUBuf' = [ucRTUBuf EXCEPT ![2] = Written(ucRTUBuf[2])]
             \/ ucRTUBuf' = [ucRTUBuf EXCEPT ![2] = <<"exception">>]
          /\ \/ loop' = Resting \/ loop' = loop
             \/ loop' = [loop EXCEPT !.length = 1, !.error = TRUE, !.left = TextLen]
          /\ pc' \in {"poll", "check", "print"}
          /\ UNCHANGED <<sender, queue>>
      BY <2>10 DEF Execute, Returns
    <3>5. ucRTUBuf' \in [1..MaxFrame -> Tokens] /\ loop' \in LoopType
      BY <1>0, <3>1, <3>2, <3>3, <3>4, AreTokens
    <3> QED BY <1>1, <2>0, <1>0, <3>4, <3>5 DEF Working, Labels, sender, queue
  <2>11. CASE CheckIdle
    BY <2>11, <1>1, <2>0, <1>0 DEF CheckIdle, Returns, Working, Labels, receiver, sender, queue
  <2>12. CASE BuildFrame
    <3>1. Wrapped(1 + loop.length) \in USHORT
      <4>1. loop.length \in Nat
        BY <1>0, LoopField, USHORTIsNat
      <4>2. 1 + loop.length \in Int
        BY <4>1
      <4> QED BY <4>2, WrappedIs
    <3>2. Me \in Tokens
      BY AreTokens
    <3> QED BY <2>12, <1>1, <2>0, <1>0, <3>1, <3>2, BufChanges
            DEF BuildFrame, Working, Labels, queue
  <2>13. CASE AddChecksum
    <3>1. Wrapped(usSndBufferCount + 1) \in USHORT
      BY <1>0, WrappedIs, USHORTIsNat DEF Working
    <3>2. ucRTUBuf[1] \o ucRTUBuf[2] \in Tokens
      BY <1>0, Joined DEF Working
    <3> QED BY <2>13, <1>1, <2>0, <1>0, <3>1, <3>2, BufChanges
            DEF AddChecksum, Working, Labels, queue
  <2>14. CASE StartTransmitter
    BY <2>14, <1>1, <2>0, <1>0 DEF StartTransmitter, Working, Labels, receiver, queue
  <2>15. CASE AdvanceFirst
    <3>1. Wrapped(usSndBufferCount - 1) \in USHORT /\ loop.cur + 1 \in Nat
      BY <1>0, LoopField, WrappedIs, USHORTIsNat DEF Working
    <3> QED BY <2>15, <1>1, <2>0, <1>0, <3>1
            DEF AdvanceFirst, Returns, Working, Labels, receiver, queue
  <2> QED BY <1>1, <1>2, <2>1, <2>2, <2>3, <2>4, <2>5, <2>6, <2>7, <2>8, <2>9, <2>10,
             <2>11, <2>12, <2>13, <2>14, <2>15 DEF Quiet
<1>3. CASE PrintText
  <2>1. CASE loop.left > 0 /\ RoomToSend /\ Put(Text) /\ pc' = pc
             /\ loop' = [loop EXCEPT !.left = @ - 1]
    <3>1. /\ shift' \in Seq(Tokens) /\ Len(shift') <= 1
          /\ txf' \in Seq(Tokens) /\ Len(txf') <= 1
      BY <1>0, <2>1, AreTokens, LoopFrame, PutIs
    <3>2. loop.left - 1 \in Nat
      BY <1>0, <2>1, LoopField
    <3>3. loop' \in LoopType
      BY <1>0, <2>1, <3>2, LoopChanges
    <3> QED BY <1>0, <1>1, <1>3, <2>1, <3>1, <3>3
            DEF PrintText, Working, receiver, sender, queue
  <2>2. CASE pc' = "check" /\ UNCHANGED <<txf, shift, loop>>
    BY <1>0, <1>1, <1>3, <2>2 DEF PrintText, Working, Labels, receiver, sender, queue
  <2> QED BY <1>3, <2>1, <2>2 DEF PrintText
<1>4. CASE EnableTransmitter
  BY <1>0, <1>1, <1>4
  DEF EnableTransmitter, vMBPortSerialEnable, Working, Labels, receiver, sender, queue
<1>5. CASE TransmitFirst
  <2>1. CASE (IdleTransmitter \/ FrameSent) /\ Returns
    BY <1>0, <1>1, <1>5, <2>1, EventTypes
    DEF TransmitFirst, IdleTransmitter, FrameSent, Post, vMBPortSerialEnable, Returns,
        Working, Labels, receiver, sender, queue
  <2>2. CASE /\ eSndState = "XMIT" /\ usSndBufferCount # 0
             /\ loop' = [loop EXCEPT !.byte = ucRTUBuf[pucSndBufferCur],
                                     !.cur = pucSndBufferCur]
             /\ pc' = "put"
             /\ UNCHANGED <<ier, txf, shift, sender, queue>>
    <3>1. pucSndBufferCur \in 1..3
      <4>1. Built /\ pc = "fsm"
        BY <1>5, <2>2 DEF IInv, Works, TransmitFirst, At
      <4>2. usSndBufferCount \in Nat /\ pucSndBufferCur \in Nat
        BY <1>0, USHORTIsNat DEF Working
      <4> QED BY <2>2, <4>1, <4>2 DEF Built
    <3>2. ucRTUBuf[pucSndBufferCur] \in Tokens /\ pucSndBufferCur \in Nat
      BY <1>0, <3>1, SlotOfFrame DEF Working
    <3>3. loop' \in LoopType
      BY <1>0, <2>2, <3>2, LoopChanges
    <3> QED BY <1>0, <1>1, <1>5, <2>2, <3>3
            DEF TransmitFirst, Working, Labels, receiver, sender, queue
  <2> QED BY <1>5, <2>1, <2>2 DEF TransmitFirst
<1>6. CASE PutFirst
  <2>1. /\ shift' \in Seq(Tokens) /\ Len(shift') <= 1
        /\ txf' \in Seq(Tokens) /\ Len(txf') <= 1
    BY <1>0, <1>6, LoopField, LoopFrame, PutIs DEF PutFirst
  <2> QED BY <1>0, <1>1, <1>6, <2>1 DEF PutFirst, Working, Labels, receiver, sender, queue
<1> QED BY <1>2, <1>3, <1>4, <1>5, <1>6 DEF eMBPoll

-----------------------------------------------------------------------------
(* Steps of the loop                                                        *)

LEMMA LoopWires ==
  ASSUME Prompt, IInv, eMBPoll
  PROVE  Wires'
<1>0. /\ Wires /\ rxf = <<>> /\ rxf' = <<>> /\ isr = "no" /\ isr' = "no" /\ iir = "none"
      /\ iir' = IF "tx" \in ier' /\ txf' = <<>> THEN "tx" ELSE "none"
      /\ ier = {"rx"} \/ ier = {"tx"}
  BY LoopFrame, LoopInSilence, LoopIdentifies DEF IInv, Silent, Wires
<1>1. "tx" \notin {"rx"} /\ "tx" \in {"tx"} /\ {"rx"} # {"tx"}
  OBVIOUS
(* The steps that find the transmitter idle and leave it so.                *)
<1>2. ASSUME eSndState' = "IDLE", ier' = {"rx"}, pc' # "enable"
      PROVE  Wires'
  BY <1>0, <1>1, <1>2 DEF Wires
<1>3. eSndState \in {"IDLE", "XMIT"}
  BY DEF IInv, TypeOK
<1>4. ier = {"rx"} <=> eSndState = "IDLE" \/ pc = "enable"
  BY <1>0, <1>1, <1>3 DEF Wires
<1>5. ASSUME pc \notin {"enable", "fsm", "put"}, pc' # "enable", UNCHANGED <<eSndState, ier>>
      PROVE  Wires'
  BY <1>0, <1>2, <1>3, <1>4, <1>5 DEF Wires
<1>6. CASE Quiet /\ UNCHANGED <<ier, txf, shift>>
  <2>1. CASE PollEvent \/ GetEvent \/ ClearEvent \/ CheckLength \/ CheckCrc
    BY <2>1, <1>5, <1>6 DEF PollEvent, GetEvent, ClearEvent, CheckLength, CheckCrc, Returns, At,
                sender
  <2>2. CASE ReadAddress \/ ReadSize \/ SetFlag \/ PostExecute \/ Execute
    <3>1. /\ pc \in {"address", "size", "flag", "post", "execute"}
          /\ pc' \in {"size", "flag", "poll", "post", "check", "print"} /\ UNCHANGED sender
      BY <2>2 DEF ReadAddress, ReadSize, SetFlag, PostExecute, Execute, Returns, At
    <3> QED BY <3>1, <1>5, <1>6 DEF sender
  <2>3. CASE CheckIdle \/ BuildFrame \/ AddChecksum
    BY <2>3, <1>5, <1>6 DEF CheckIdle, BuildFrame, AddChecksum, Returns, At, sender
  <2>4. CASE StartTransmitter
    <3>1. /\ pc = "start" /\ pc' = "enable" /\ eSndState' = "XMIT"
          /\ ier' = ier /\ txf' = txf
      BY <2>4, <1>6 DEF StartTransmitter, At
    <3>2. ier' = {"rx"}
      BY <3>1, <1>0, <1>3, <1>4 DEF Wires
    <3> QED BY <3>1, <3>2, <1>0, <1>1 DEF Wires
  <2>5. CASE AdvanceFirst
    BY <2>5, <1>5, <1>6 DEF AdvanceFirst, Returns, At
  <2> QED BY <1>6, <2>1, <2>2, <2>3, <2>4, <2>5 DEF Quiet
<1>7. CASE PrintText
  BY <1>5, <1>7 DEF PrintText, At, sender
<1>8. CASE EnableTransmitter
  <2>1. /\ pc = "enable" /\ pc' = "fsm" /\ ier' = {"tx"} /\ eSndState = "XMIT"
        /\ UNCHANGED sender
    BY <1>8, <1>0 DEF EnableTransmitter, vMBPortSerialEnable, At, Wires
  <2>2. pucSndBufferCur = 1
    BY <2>1 DEF IInv, Works, Built
  <2> QED BY <2>1, <2>2, <1>0, <1>1 DEF Wires, sender
<1>9. CASE TransmitFirst
  <2>1. CASE (IdleTransmitter \/ FrameSent) /\ Returns
    BY <2>1, <1>2 DEF IdleTransmitter, FrameSent, Returns, vMBPortSerialEnable, sender
  <2>2. CASE pc = "fsm" /\ pc' = "put" /\ UNCHANGED <<ier, txf, shift, sender>> /\ eSndState = "XMIT"
    BY <2>2, <1>0, <1>1 DEF Wires, sender
  <2> QED BY <1>9, <2>1, <2>2 DEF TransmitFirst, At
<1>10. CASE PutFirst
  <2>1. /\ pc = "put" /\ pc' = "advance" /\ txf = <<>> /\ UNCHANGED <<ier, sender>>
    BY <1>10 DEF PutFirst, RoomToSend, At
  <2>2. eSndState = "IDLE"
    BY <2>1, <1>0, <1>3 DEF Wires
  <2> QED BY <2>1, <2>2, <1>2, <1>4 DEF sender
<1> QED BY <1>6, <1>7, <1>8, <1>9, <1>10 DEF eMBPoll

LEMMA LoopListens ==
  ASSUME Prompt, IInv, eMBPoll
  PROVE  Listens'
BY LoopInSilence DEF Listens

(* The loop puts a byte on the line only when it replies.                   *)
LEMMA LoopPuts ==
  ASSUME Prompt, IInv, eMBPoll, ~(UNCHANGED <<txf, shift>>)
  PROVE  pc \in Late
<1>1. CASE PrintText \/ TransmitFirst \/ PutFirst
  BY <1>1 DEF PrintText, TransmitFirst, PutFirst, At, Late
<1> QED BY <1>1 DEF eMBPoll, EnableTransmitter

LEMMA LoopSpeaks ==
  ASSUME Prompt, IInv, eMBPoll
  PROVE  Speaks'
<1>0. Speaks /\ ~AtRest /\ UNCHANGED <<sending, await, line, up, due>>
  BY LoopFrame, LoopInSilence DEF IInv
<1>1. sending # <<>> => UNCHANGED <<txf, shift>>
  BY LoopPuts DEF IInv, Works, Replying
<1> QED BY <1>0, <1>1 DEF Speaks, Genuine

(* What the steps of the loop leave of what it is about.                    *)
LEMMA LoopKeeps ==
  ASSUME Prompt, IInv, eMBPoll
  PROVE  /\ ucRTUBuf' = ucRTUBuf /\ pc # "execute" => (Judged' <=> Judged)
         /\ ucRTUBuf' = ucRTUBuf /\ pc # "execute"
            /\ loop'.address = loop.address /\ loop'.length = loop.length =>
              (Chosen' <=> Chosen)
         /\ ucRTUBuf'[2] = ucRTUBuf[2] /\ loop'.error = loop.error
            /\ loop'.length = loop.length /\ Replying => Replying'
<1>1. /\ UNCHANGED <<usRcvBufferPos, due, sending>>
      /\ served' = (served \/ pc = "execute")
  BY LoopFrame
<1>2. ASSUME ucRTUBuf' = ucRTUBuf, pc # "execute" PROVE Judged' <=> Judged
  BY <1>1, <1>2 DEF Judged
<1>3. ASSUME ucRTUBuf' = ucRTUBuf, pc # "execute", loop'.address = loop.address,
             loop'.length = loop.length
      PROVE  Chosen' <=> Chosen
  BY <1>1, <1>3 DEF Chosen
<1>4. ASSUME ucRTUBuf'[2] = ucRTUBuf[2], loop'.error = loop.error,
             loop'.length = loop.length, Replying
      PROVE  Replying'
  BY <1>1, <1>4 DEF Replying, Answer
<1> QED BY <1>2, <1>3, <1>4

(* A poll that ends leaves nothing in the queue but the end of a reply.     *)
LEMMA LoopReturns ==
  ASSUME Returns, eSndState' = "IDLE", xEventInQueue' => eQueuedEvent' = "FRAME_SENT"
  PROVE  Works'
BY RestingType DEF Returns, Works, Late

LEMMA LoopWorks ==
  ASSUME Prompt, IInv, eMBPoll
  PROVE  Works'
<1>0. /\ TypeOK /\ Works /\ Wires /\ eSndState \in {"IDLE", "XMIT"}
      /\ iir = "none" /\ isr = "no"
  BY LoopInSilence DEF IInv, TypeOK
<1>1. /\ UNCHANGED <<usRcvBufferPos, due, sending, await>>
      /\ served' = (served \/ pc = "execute")
  BY LoopFrame
<1>2. pc \notin {"enable", "fsm", "put"} => eSndState = "IDLE"
  BY <1>0 DEF Wires
<1>3. CASE Quiet /\ UNCHANGED <<ier, txf, shift>>
  <2>1. CASE PollEvent
    <3>1. /\ pc = "poll" /\ pc' = "get" /\ xEventInQueue
          /\ UNCHANGED <<ucRTUBuf, eSndState, xEventInQueue, eQueuedEvent, loop>>
      BY <2>1 DEF PollEvent, At, receiver, sender, queue
    <3>2. (Judged' <=> Judged) /\ (Chosen' <=> Chosen)
      BY <3>1, LoopKeeps
    <3> QED BY <3>1, <3>2, <1>0, <1>2 DEF Works, Late
  <2>2. CASE GetEvent
    <3>1. /\ pc = "get" /\ pc' = "clear" /\ loop' = [loop EXCEPT !.event = eQueuedEvent]
          /\ UNCHANGED <<ucRTUBuf, eSndState, xEventInQueue, eQueuedEvent>>
      BY <2>2 DEF GetEvent, At, receiver, sender, queue
    <3>2. /\ loop'.event = eQueuedEvent /\ loop'.address = loop.address
          /\ loop'.length = loop.length /\ loop'.error = loop.error
      BY <3>1, <1>0 DEF TypeOK
    <3>3. (Judged' <=> Judged) /\ (Chosen' <=> Chosen)
      BY <3>1, <3>2, LoopKeeps
    <3>4. /\ pc = "get" /\ pc' = "clear"
          /\ UNCHANGED <<eSndState, xEventInQueue, eQueuedEvent>>
      BY <3>1
    <3> QED BY <3>2, <3>3, <3>4, <1>0, <1>2 DEF Works, Late
  <2>3. CASE ClearEvent
    <3>1. /\ pc = "clear" /\ xEventInQueue' = FALSE
          /\ UNCHANGED <<ucRTUBuf, eSndState, eQueuedEvent>>
      BY <2>3 DEF ClearEvent, At, receiver, sender
    <3>2. CASE loop.event = "FRAME_RECEIVED" /\ pc' = "length" /\ UNCHANGED loop
      BY <3>1, <3>2, <1>0, <1>2, LoopKeeps DEF Works, Late
    <3>3. CASE loop.event = "EXECUTE" /\ pc' = "execute" /\ UNCHANGED loop
      BY <3>1, <3>3, <1>0, <1>2, LoopKeeps DEF Works, Late
    <3>4. CASE Returns
      BY <3>1, <3>4, <1>2, LoopReturns
    <3> QED BY <2>3, <3>2, <3>3, <3>4 DEF ClearEvent
  <2>4. CASE CheckLength
    <3>1. pc = "length" /\ UNCHANGED <<ucRTUBuf, eSndState, xEventInQueue, eQueuedEvent>>
      BY <2>4 DEF CheckLength, At, receiver, sender, queue
    <3>2. ~xEventInQueue' /\ eSndState' = "IDLE" /\ Judged'
      BY <3>1, <1>0, <1>2, LoopKeeps DEF Works
    <3>3. (pc' = "crc" /\ UNCHANGED loop) \/ Returns
      BY <2>4 DEF CheckLength
    <3> QED BY <3>1, <3>2, <3>3, <1>0, LoopReturns DEF Works, Late
  <2>5. CASE CheckCrc
    <3>1. pc = "crc" /\ UNCHANGED <<ucRTUBuf, eSndState, xEventInQueue, eQueuedEvent>>
      BY <2>5 DEF CheckCrc, At, receiver, sender, queue
    <3>2. ~xEventInQueue' /\ eSndState' = "IDLE" /\ Judged'
      BY <3>1, <1>0, <1>2, LoopKeeps DEF Works
    <3>3. \/ /\ pc' = "address" /\ UNCHANGED loop
             /\ usRcvBufferPos = 3 /\ ucRTUBuf[3] = ucRTUBuf[1] \o ucRTUBuf[2]
          \/ Returns
      BY <2>5, <1>0, ReceivedCrc DEF CheckCrc, TypeOK
    <3> QED BY <3>1, <3>2, <3>3, <1>0, <1>1, LoopReturns DEF Works, Late
  <2>6. CASE ReadAddress
    <3>1. /\ pc = "address" /\ pc' = "size" /\ loop' = [loop EXCEPT !.address = ucRTUBuf[1]]
          /\ UNCHANGED <<ucRTUBuf, eSndState, xEventInQueue, eQueuedEvent>>
      BY <2>6 DEF ReadAddress, At, receiver, sender, queue
    <3>2. ~xEventInQueue' /\ eSndState' = "IDLE" /\ Judged'
      BY <3>1, <1>0, <1>2, LoopKeeps DEF Works
    <3>3. loop'.address = ucRTUBuf'[1] /\ loop'.error = loop.error
      BY <3>1, <1>0 DEF TypeOK
    <3>4. pc = "address" /\ pc' = "size" /\ UNCHANGED ucRTUBuf
      BY <3>1
    <3> QED BY <3>2, <3>3, <3>4, <1>0, <1>1 DEF Works, Late
  <2>7. CASE ReadSize
    <3>1. pc = "size" /\ UNCHANGED <<ucRTUBuf, eSndState, xEventInQueue, eQueuedEvent>>
      BY <2>7 DEF ReadSize, At, receiver, sender, queue
    <3>2. ~xEventInQueue' /\ eSndState' = "IDLE" /\ ~loop.error
      BY <3>1, <1>0, <1>2 DEF Works, Late
    <3>3. CASE ForUs /\ loop' = [loop EXCEPT !.length = Wrapped(usRcvBufferPos - 2)]
               /\ pc' = "flag"
      <4>1. /\ usRcvBufferPos = 3 /\ ucRTUBuf[3] = ucRTUBuf[1] \o ucRTUBuf[2]
            /\ loop.address = ucRTUBuf[1] /\ Judged
        BY <3>1, <1>0 DEF Works
      <4>2. /\ due # None /\ due[1] = ucRTUBuf[1] /\ due[2] = ucRTUBuf[2] /\ ~served
        BY <4>1, <3>3 DEF Judged, ForUs
      <4>3. Wrapped(usRcvBufferPos - 2) = 1
        BY <4>1, WrappedIs
      <4>4. loop'.address = loop.address /\ loop'.length = 1 /\ loop'.error = loop.error
        BY <3>3, <4>3, <1>0 DEF TypeOK
      <4>5. Chosen'
        BY <3>1, <4>1, <4>2, <4>4, <1>1 DEF Chosen
      <4>6. pc' = "flag"
        BY <3>3
      <4> QED BY <3>2, <4>4, <4>5, <4>6 DEF Works, Late
    <3>4. CASE Returns
      BY <3>2, <3>4, LoopReturns
    <3> QED BY <2>7, <3>3, <3>4 DEF ReadSize
  <2>8. CASE SetFlag
    <3>1. /\ pc = "flag" /\ pc' = "post" /\ xEventInQueue'
          /\ UNCHANGED <<ucRTUBuf, eSndState, loop>>
      BY <2>8 DEF SetFlag, At, receiver, sender
    <3>2. Chosen' /\ eSndState' = "IDLE"
      BY <3>1, <1>0, <1>2, LoopKeeps DEF Works
    <3> QED BY <3>1, <3>2, <1>0 DEF Works, Late
  <2>9. CASE PostExecute
    <3>1. /\ pc = "post" /\ pc' = "poll" /\ eQueuedEvent' = "EXECUTE"
          /\ UNCHANGED <<ucRTUBuf, eSndState, loop>>
      BY <2>9 DEF PostExecute, At, receiver, sender
    <3>2. Chosen' /\ eSndState' = "IDLE"
      BY <3>1, <1>0, <1>2, LoopKeeps DEF Works
    <3> QED BY <3>1, <3>2, <1>0 DEF Works, Late
  <2>10. CASE Execute
    <3>1. pc = "execute" /\ UNCHANGED <<eSndState, xEventInQueue, eQueuedEvent>>
      BY <2>10 DEF Execute, At, sender, queue
    <3>2. ~xEventInQueue' /\ eSndState' = "IDLE" /\ ~loop.error /\ Chosen /\ served'
      BY <3>1, <1>0, <1>1, <1>2 DEF Works, Late
    <3> DEFINE p == ucRTUBuf[2]
    <3>3. CASE loop.address = Broadcast /\ Returns
      BY <3>2, <3>3, LoopReturns
    <3>4. ASSUME loop.address # Broadcast
          PROVE  due' # None /\ due'[1] = Me /\ sending' = <<>> /\ loop.length = 1
                 /\ p = due[2] /\ due[2] \in Requests
      <4>1. /\ due # None /\ due[1] = loop.address /\ p = due[2] /\ loop.length = 1
        BY <3>2 DEF Chosen
      <4>2. due[1] = Me /\ due[2] \in Requests
        BY <4>1, <3>4 DEF IInv, Speaks
      <4>3. sending = <<>>
        BY <4>1, <4>2, LoopInSilence DEF IInv, Speaks
      <4> QED BY <4>1, <4>2, <4>3, <1>1
    <3>5. \A t \in Tokens : [ucRTUBuf EXCEPT ![2] = t][2] = t
      <4>1. 2 \in 1..MaxFrame /\ ucRTUBuf \in [1..MaxFrame -> Tokens]
        BY Constants, <1>0 DEF TypeOK
      <4> QED BY <4>1, BufChanges
    <3>6. CASE loop.address # Broadcast /\ ~Fails(p) /\ pc' = "check" /\ UNCHANGED loop
               /\ ucRTUBuf' = [ucRTUBuf EXCEPT ![2] = Written(p)]
      <4>1. /\ due' # None /\ due'[1] = Me /\ sending' = <<>> /\ loop.length = 1
            /\ p = due[2] /\ due[2] \in {<<"read">>, <<"write">>}
        BY <3>4, <3>6 DEF Fails
      <4>2. Answer(due)[2] = IF p = <<"read">> THEN <<"data">> ELSE p
        <5>1. due \in Seq(Tokens) /\ CrcOk(due) /\ due[1] = Me
          BY <4>1, <1>0, <1>1 DEF IInv, Speaks, TypeOK
        <5> QED BY <5>1, <4>1, AnswerIs
      <4>3. /\ <<"read">> \in Tokens /\ <<"write">> \in Tokens /\ <<"data">> \in Tokens
        BY AreTokens DEF Requests
      <4>4. Written(p) = Answer(due)[2] /\ Written(p) \in Tokens
        BY <4>1, <4>2, <4>3, TokensDiffer DEF Written
      <4>5. ucRTUBuf'[2] = Answer(due)[2]
        BY <3>5, <3>6, <4>4
      <4>6. due'[2] \notin {<<"outside">>, <<"unknown">>}
        BY <4>1, <1>1, TokensDiffer
      <4>7. Answer(due)' = Answer(due)
        BY <1>1
      <4>8. Replying'
        BY <4>1, <4>5, <4>6, <4>7, <3>2, <3>6 DEF Replying
      <4> QED BY <3>2, <3>6, <4>8 DEF Works, Late
    <3>7. CASE loop.address # Broadcast /\ Fails(p) /\ pc' = "print"
               /\ loop' = [loop EXCEPT !.length = 1, !.error = TRUE, !.left = TextLen]
      <4>1. /\ due' # None /\ due'[1] = Me /\ sending' = <<>>
            /\ due'[2] \in {<<"outside">>, <<"unknown">>}
        BY <3>4, <3>7, <1>1 DEF Fails, Requests
      <4>2. loop'.length = 1 /\ loop'.error = TRUE
        BY <3>7, <1>0 DEF TypeOK
      <4>3. Replying'
        BY <4>1, <4>2, <3>2 DEF Replying
      <4>4. pc' = "print"
        BY <3>7
      <4> QED BY <3>2, <4>2, <4>3, <4>4 DEF Works, Late
    <3> QED BY <2>10, <3>3, <3>6, <3>7 DEF Execute
  <2>11. CASE CheckIdle
    <3>1. pc = "check" /\ UNCHANGED <<ucRTUBuf, eSndState, xEventInQueue, eQueuedEvent>>
      BY <2>11 DEF CheckIdle, At, receiver, sender, queue
    <3>2. ~xEventInQueue' /\ eSndState' = "IDLE" /\ Replying
      BY <3>1, <1>0, <1>2 DEF Works, Late
    <3>3. (pc' = "frame" /\ UNCHANGED loop) \/ Returns
      BY <2>11 DEF CheckIdle
    <3>4. CASE pc' = "frame" /\ UNCHANGED loop
      <4>1. Replying'
        BY <3>1, <3>2, <3>4, LoopKeeps
      <4> QED BY <3>2, <3>4, <4>1 DEF Works, Late
    <3> QED BY <3>2, <3>3, <3>4, LoopReturns
  <2>12. CASE BuildFrame
    <3>1. /\ pc = "frame" /\ pc' = "checksum" /\ ucRTUBuf' = [ucRTUBuf EXCEPT ![1] = Me]
          /\ pucSndBufferCur' = 1 /\ usSndBufferCount' = Wrapped(1 + loop.length)
          /\ UNCHANGED <<eSndState, xEventInQueue, eQueuedEvent, loop>>
      BY <2>12 DEF BuildFrame, At, queue
    <3>2. ~xEventInQueue' /\ eSndState' = "IDLE" /\ Replying
      BY <3>1, <1>0, <1>2 DEF Works, Late
    <3>3. ucRTUBuf'[1] = Me /\ ucRTUBuf'[2] = ucRTUBuf[2]
      <4>1. /\ 1 \in 1..MaxFrame /\ 2 \in 1..MaxFrame /\ Me \in Tokens
            /\ ucRTUBuf \in [1..MaxFrame -> Tokens]
        BY Constants, AreTokens, <1>0 DEF TypeOK
      <4> QED BY <3>1, <4>1, BufChanges
    <3>4. Replying'
      BY <3>1, <3>2, <3>3, LoopKeeps
    <3>5. usSndBufferCount' = 2
      <4>1. loop.length = 1
        BY <3>2 DEF Replying
      <4> QED BY <3>1, <4>1, WrappedIs
    <3>7. pc' = "checksum" /\ pucSndBufferCur' = 1
      BY <3>1
    <3>6. Built'
      BY <3>3, <3>5, <3>7 DEF Built
    <3> QED BY <3>2, <3>4, <3>6, <3>7 DEF Works, Late
  <2>13. CASE AddChecksum
    <3>1. /\ pc = "checksum" /\ pc' = "start"
          /\ ucRTUBuf' = [ucRTUBuf EXCEPT ![3] = ucRTUBuf[1] \o ucRTUBuf[2]]
          /\ usSndBufferCount' = Wrapped(usSndBufferCount + 1)
          /\ UNCHANGED <<eSndState, pucSndBufferCur, xEventInQueue, eQueuedEvent, loop>>
      BY <2>13 DEF AddChecksum, At, queue
    <3>2. ~xEventInQueue' /\ eSndState' = "IDLE" /\ Replying /\ Built
      BY <3>1, <1>0, <1>2 DEF Works, Late
    <3>3. /\ ucRTUBuf'[1] = ucRTUBuf[1] /\ ucRTUBuf'[2] = ucRTUBuf[2]
          /\ ucRTUBuf'[3] = ucRTUBuf[1] \o ucRTUBuf[2]
      <4>1. /\ 1 \in 1..MaxFrame /\ 2 \in 1..MaxFrame /\ 3 \in 1..MaxFrame
            /\ ucRTUBuf \in [1..MaxFrame -> Tokens]
        BY Constants, <1>0 DEF TypeOK
      <4>2. ucRTUBuf[1] \o ucRTUBuf[2] \in Tokens
        BY <4>1, Joined
      <4> QED BY <3>1, <4>1, <4>2, BufChanges
    <3>4. Replying'
      BY <3>1, <3>2, <3>3, LoopKeeps
    <3>5. usSndBufferCount' = 3
      <4>1. usSndBufferCount = 2
        <5>1. usSndBufferCount \in Nat /\ pucSndBufferCur = 1
              /\ pucSndBufferCur + usSndBufferCount = 3
          BY <3>1, <3>2, <1>0, USHORTIsNat DEF Built, TypeOK
        <5> QED BY <5>1
      <4> QED BY <3>1, <4>1, WrappedIs
    <3>7. pc' = "start"
      BY <3>1
    <3>6. Built'
      <4>1. pucSndBufferCur' = 1 /\ Me = ucRTUBuf[1]
        BY <3>1, <3>2 DEF Built
      <4> QED BY <3>3, <3>5, <3>7, <4>1 DEF Built
    <3>8. loop'.error = loop.error
      BY <3>1
    <3> QED BY <3>2, <3>4, <3>6, <3>7, <3>8 DEF Works, Late
  <2>14. CASE StartTransmitter
    <3>1. /\ pc = "start" /\ pc' = "enable"
          /\ UNCHANGED <<ucRTUBuf, pucSndBufferCur, usSndBufferCount, xEventInQueue,
                         eQueuedEvent, loop>>
      BY <2>14 DEF StartTransmitter, At, receiver, queue
    <3>2. ~xEventInQueue' /\ Replying /\ Built
      BY <3>1, <1>0 DEF Works, Late
    <3>3. Replying' /\ Built'
      BY <3>1, <3>2, LoopKeeps DEF Built
    <3> QED BY <3>1, <3>2, <3>3 DEF Works, Late
  <2>15. CASE AdvanceFirst
    <3>1. pc = "advance" /\ Returns /\ UNCHANGED <<eSndState, xEventInQueue, eQueuedEvent>>
      BY <2>15 DEF AdvanceFirst, At, queue
    <3>2. eSndState' = "IDLE" /\ (xEventInQueue' => eQueuedEvent' = "FRAME_SENT")
      BY <3>1, <1>0, <1>2 DEF Works
    <3> QED BY <3>1, <3>2, LoopReturns
  <2> QED BY <1>3, <2>1, <2>2, <2>3, <2>4, <2>5, <2>6, <2>7, <2>8, <2>9, <2>10,
             <2>11, <2>12, <2>13, <2>14, <2>15 DEF Quiet
<1>4. CASE PrintText
  <2>1. pc = "print" /\ UNCHANGED <<ucRTUBuf, eSndState, xEventInQueue, eQueuedEvent>>
    BY <1>4 DEF PrintText, At, receiver, sender, queue
  <2>2. ~xEventInQueue' /\ eSndState' = "IDLE" /\ Replying /\ loop.error
    BY <2>1, <1>0, <1>2 DEF Works, Late
  <2>3. /\ pc' \in {"print", "check"}
        /\ loop' = [loop EXCEPT !.left = @ - 1] \/ UNCHANGED loop
    BY <1>4, <2>1 DEF PrintText
  <2>4. loop'.error = loop.error /\ loop'.length = loop.length
    BY <2>3, <1>0 DEF TypeOK
  <2>5. Replying'
    BY <2>1, <2>2, <2>4, LoopKeeps
  <2>6. pc' \in {"print", "check"}
    BY <2>3
  <2> QED BY <2>2, <2>4, <2>5, <2>6 DEF Works, Late
<1>5. CASE EnableTransmitter
  <2>1. /\ pc = "enable" /\ pc' = "fsm"
        /\ UNCHANGED <<ucRTUBuf, eSndState, pucSndBufferCur, usSndBufferCount,
                       xEventInQueue, eQueuedEvent, loop>>
    BY <1>5 DEF EnableTransmitter, At, receiver, sender, queue
  <2>2. ~xEventInQueue' /\ Replying /\ Built
    BY <2>1, <1>0 DEF Works, Wires, Late
  <2>3. Replying' /\ Built'
    BY <2>1, <2>2, LoopKeeps DEF Built
  <2> QED BY <2>1, <2>2, <2>3 DEF Works, Late
<1>6. CASE TransmitFirst
  <2>1. pc = "fsm" /\ UNCHANGED ucRTUBuf
    BY <1>6 DEF TransmitFirst, At, receiver
  <2>2. CASE (IdleTransmitter \/ FrameSent) /\ Returns
    <3>1. eSndState' = "IDLE" /\ (xEventInQueue' => eQueuedEvent' = "FRAME_SENT")
      BY <2>1, <2>2, <1>0 DEF IdleTransmitter, FrameSent, Post, sender, queue, Works
    <3> QED BY <2>2, <3>1, LoopReturns
  <2>3. CASE /\ eSndState = "XMIT" /\ usSndBufferCount # 0
             /\ loop' = [loop EXCEPT !.byte = ucRTUBuf[pucSndBufferCur],
                                     !.cur = pucSndBufferCur]
             /\ pc' = "put"
             /\ UNCHANGED <<ier, txf, shift, sender, queue>>
    <3>1. /\ pc' = "put" /\ eSndState = "XMIT"
          /\ UNCHANGED <<eSndState, pucSndBufferCur, usSndBufferCount, xEventInQueue,
                         eQueuedEvent>>
      BY <2>3 DEF sender, queue
    <3>2. /\ loop'.cur = pucSndBufferCur /\ loop'.error = loop.error
          /\ loop'.length = loop.length
      BY <2>3, <1>0 DEF TypeOK
    <3>3. Replying /\ Built /\ (xEventInQueue => eQueuedEvent = "FRAME_SENT")
      BY <2>1, <3>1, <1>0 DEF Works, Late
    <3>4. txf # <<>> /\ pucSndBufferCur = 1
      <4>1. txf # <<>> /\ ~(pucSndBufferCur > 1)
        BY <2>1, <3>1, <1>0 DEF Wires
      <4>2. pucSndBufferCur \in Nat /\ pucSndBufferCur >= 1
        BY <3>3, <1>0 DEF Built, TypeOK
      <4> QED BY <4>1, <4>2
    <3>5. loop.error
      <4>1. SUFFICES ASSUME ~loop.error PROVE FALSE
        <5>1. loop.error \in BOOLEAN
          BY <1>0 DEF TypeOK
        <5> QED BY <5>1
      <4>2. Answered
        BY <3>3, <4>1 DEF Replying, Answered
      <4>3. Len(Out) = 0
        BY <4>2, <3>1, <3>4 DEF IInv, Sends
      <4>4. heard \in Seq(Tokens) /\ shift \in Seq(Tokens) /\ txf \in Seq(Tokens)
        BY <1>0 DEF TypeOK
      <4>5. Out \in Seq(Tokens)
        BY <4>4, ConcatProperties DEF Out
      <4>6. Out = <<>>
        BY <4>3, <4>5, EmptySeq
      <4> QED BY <3>4, <4>4, <4>6, AllEmpty DEF Out
    <3>6. Replying' /\ Built'
      BY <2>1, <3>1, <3>2, <3>3, LoopKeeps DEF Built
    <3> QED BY <3>1, <3>2, <3>3, <3>4, <3>5, <3>6 DEF Works, Late
  <2> QED BY <1>6, <2>2, <2>3 DEF TransmitFirst
<1>7. CASE PutFirst
  <2>1. /\ pc = "put" /\ pc' = "advance" /\ txf = <<>>
        /\ UNCHANGED <<ucRTUBuf, eSndState, xEventInQueue, eQueuedEvent, loop>>
    BY <1>7 DEF PutFirst, At, RoomToSend, receiver, sender, queue
  <2>2. eSndState' = "IDLE"
    BY <2>1, <1>0 DEF Wires
  <2>3. /\ Replying /\ loop.error
        /\ (xEventInQueue => eQueuedEvent = "FRAME_SENT")
    BY <2>1, <1>0 DEF Works, Late
  <2>4. Replying'
    BY <2>1, <2>3, LoopKeeps
  <2> QED BY <2>1, <2>2, <2>3, <2>4 DEF Works, Late
<1> QED BY <1>3, <1>4, <1>5, <1>6, <1>7 DEF eMBPoll

LEMMA LoopSends ==
  ASSUME Prompt, IInv, eMBPoll
  PROVE  Sends'
<1>0. /\ TypeOK /\ Works /\ Wires /\ Sends /\ eSndState \in {"IDLE", "XMIT"}
  BY DEF IInv, TypeOK
<1>1. /\ UNCHANGED <<due, heard>> /\ served' = (served \/ pc = "execute")
      /\ (Answered' <=> Answered) /\ (Excepted' <=> Excepted) /\ Answer(due)' = Answer(due)
  BY LoopFrame DEF Answered, Excepted
(* While a text is sent: nothing is said about the replies to exceptions.   *)
<1>2. CASE loop.error
  <2>1. Replying
    BY <1>0, <1>2 DEF Works
  <2>2. served' /\ Excepted' /\ ~Answered'
    BY <1>1, <1>2, <2>1 DEF Replying, Excepted, Answered
  <2> QED BY <2>2 DEF Sends
<1>3. CASE ~loop.error
  <2>0. pc \notin {"print", "put", "advance"}
    BY <1>0, <1>3 DEF Works
  <2>1. /\ UNCHANGED <<txf, shift>>
        /\ pc' \in {"check", "frame", "checksum", "start", "enable"} =>
             pc \in {"execute", "check", "frame", "checksum", "start"}
        /\ eSndState' = "XMIT" =>
             pucSndBufferCur' = pucSndBufferCur /\ (eSndState = "XMIT" \/ pc = "start")
    <3>1. CASE Quiet /\ UNCHANGED <<ier, txf, shift>>
      <4>1. CASE PollEvent \/ GetEvent \/ ClearEvent \/ CheckLength \/ CheckCrc
        BY <3>1, <4>1 DEF PollEvent, GetEvent, ClearEvent, CheckLength, CheckCrc, Returns, sender
      <4>2. CASE ReadAddress \/ ReadSize \/ SetFlag \/ PostExecute \/ CheckIdle
        BY <3>1, <4>2 DEF ReadAddress, ReadSize, SetFlag, PostExecute, CheckIdle, Returns,
                          sender, At
      <4>3. CASE Execute
        <5>1. pc = "execute" /\ UNCHANGED sender
          BY <4>3 DEF Execute, At
        <5> QED BY <3>1, <5>1 DEF sender
      <4>4. CASE BuildFrame
        <5>1. pc = "frame" /\ UNCHANGED eSndState
          BY <4>4 DEF BuildFrame, At
        <5> QED BY <3>1, <5>1, <1>0 DEF Wires
      <4>5. CASE AddChecksum \/ StartTransmitter
        BY <3>1, <4>5 DEF AddChecksum, StartTransmitter, At
      <4>6. CASE AdvanceFirst
        BY <2>0, <4>6 DEF AdvanceFirst, At
      <4> QED BY <3>1, <4>1, <4>2, <4>3, <4>4, <4>5, <4>6 DEF Quiet
    <3>2. CASE PrintText \/ PutFirst
      BY <2>0, <3>2 DEF PrintText, PutFirst, At
    <3>3. CASE EnableTransmitter
      BY <3>3 DEF EnableTransmitter, sender
    <3>4. CASE TransmitFirst
      BY <3>4 DEF TransmitFirst, IdleTransmitter, FrameSent, Returns, sender
    <3> QED BY <3>1, <3>2, <3>3, <3>4 DEF eMBPoll
  <2>2. Out' = Out
    BY <1>1, <2>1 DEF Out
  <2>3. pc = "execute" => ~served
    BY <1>0 DEF Works, Chosen
  <2>4. Begins(Out, Answer(due))' <=> Begins(Out, Answer(due))
    BY <1>1, <2>2 DEF Begins
  <2>5. ~served' \/ (~Answered' /\ ~Excepted') => Out' = <<>>
    BY <1>0, <1>1, <2>2 DEF Sends
  <2>6. ASSUME Answered'
        PROVE  /\ Begins(Out, Answer(due))'
               /\ pc' \in {"check", "frame", "checksum", "start", "enable"} => Out' = <<>>
               /\ eSndState' = "XMIT" => Len(Out') = pucSndBufferCur' - 1
    <3>1. Answered /\ Begins(Out, Answer(due))'
      BY <2>6, <1>0, <1>1, <2>4 DEF Sends
    <3>2. pc \in {"execute", "check", "frame", "checksum", "start"} => Out = <<>>
      BY <3>1, <2>3, <1>0 DEF Sends
    <3>3. pc = "start" => pucSndBufferCur = 1 /\ Len(Out) = 0
      <4>1. pc = "start" => pucSndBufferCur = 1
        BY <1>0 DEF Works, Built
      <4> QED BY <4>1, <3>2, EmptySeq
    <3>4. eSndState = "XMIT" => Len(Out) = pucSndBufferCur - 1
      BY <3>1, <1>0 DEF Sends
    <3> QED BY <3>1, <3>2, <3>3, <3>4, <2>1, <2>2
  <2> QED BY <2>5, <2>6 DEF Sends
<1>4. loop.error \in BOOLEAN
  BY <1>0 DEF TypeOK
<1> QED BY <1>2, <1>3, <1>4

LEMMA LoopStep ==
  ASSUME Prompt, IInv, eMBPoll
  PROVE  IInv'
BY LoopTypes, LoopWires, LoopListens, LoopSpeaks, LoopWorks, LoopSends DEF IInv

-----------------------------------------------------------------------------
(* Interrupts                                                               *)

(* The receiver reads the byte that has arrived, and the count starts again. *)
LEMMA RxStep ==
  ASSUME IInv, RxInterrupt
  PROVE  IInv'
<1>0. /\ TypeOK /\ Wires /\ Listens /\ Speaks /\ Works /\ Sends
      /\ T35 \in Nat /\ T35 > 0 /\ MaxFrame \in Nat /\ MaxFrame >= 3
  BY Constants DEF IInv
<1>1. /\ rxf # <<>> /\ isr = "no" /\ rxf' = Tail(rxf) /\ Identify("none")
      /\ mtime' = 0 /\ mtie' = TRUE /\ xMBRTUReceiveFSM(Head(rxf))
      /\ UNCHANGED <<ier, txf, shift, sender, queue, pc, isr, loop, master>>
  BY DEF RxInterrupt, InterruptTaken, xMBRTUReceiveFSM, vMBPortTimersEnable
<1>2. Arrived
  BY <1>0, <1>1 DEF Listens, Silent, Counting
<1>3. AtRest /\ AtRest' /\ ier = {"rx"} /\ ier' = {"rx"} /\ gap' = gap /\ gap = 0
  BY <1>0, <1>1, <1>2 DEF Arrived, AtRest, Wires, sender, queue, master
<1>4. Head(rxf) = rxf[1] /\ rxf' = <<>> /\ rxf[1] \in Tokens
  BY <1>0, <1>1, <1>2, ShortSeq DEF Arrived, TypeOK
<1>5. iir' = "none"
  <2>1. "tx" \notin {"rx"}
    OBVIOUS
  <2> QED BY <1>1, <1>3, <1>4, <2>1 DEF Identify, Settled
<1>6. \/ eRcvState \in {"INIT", "ERROR"} /\ UNCHANGED receiver
      \/ /\ eRcvState = "IDLE" /\ ucRTUBuf' = [ucRTUBuf EXCEPT ![1] = rxf[1]]
         /\ usRcvBufferPos' = 1 /\ eRcvState' = "RCV"
      \/ /\ eRcvState = "RCV" /\ usRcvBufferPos < MaxFrame
         /\ ucRTUBuf' = [ucRTUBuf EXCEPT ![usRcvBufferPos + 1] = rxf[1]]
         /\ usRcvBufferPos' = usRcvBufferPos + 1 /\ eRcvState' = eRcvState
      \/ /\ eRcvState = "RCV" /\ usRcvBufferPos = MaxFrame /\ eRcvState' = "ERROR"
         /\ UNCHANGED <<ucRTUBuf, usRcvBufferPos>>
  BY <1>1, <1>4 DEF xMBRTUReceiveFSM
<1>7. /\ ucRTUBuf \in [1..MaxFrame -> Tokens] /\ usRcvBufferPos \in 0..MaxFrame
      /\ eRcvState \in {"INIT", "IDLE", "RCV", "ERROR"}
  BY <1>0 DEF TypeOK
<1>8. /\ ucRTUBuf' \in [1..MaxFrame -> Tokens] /\ usRcvBufferPos' \in 0..MaxFrame
      /\ eRcvState' \in {"INIT", "IDLE", "RCV", "ERROR"}
  <2>1. CASE eRcvState \in {"INIT", "ERROR"} /\ UNCHANGED receiver
    BY <2>1, <1>7 DEF receiver
  <2>2. CASE /\ eRcvState = "IDLE" /\ ucRTUBuf' = [ucRTUBuf EXCEPT ![1] = rxf[1]]
             /\ usRcvBufferPos' = 1 /\ eRcvState' = "RCV"
    BY <2>2, <1>0, <1>4, <1>7
  <2>3. CASE /\ eRcvState = "RCV" /\ usRcvBufferPos < MaxFrame
             /\ ucRTUBuf' = [ucRTUBuf EXCEPT ![usRcvBufferPos + 1] = rxf[1]]
             /\ usRcvBufferPos' = usRcvBufferPos + 1 /\ eRcvState' = eRcvState
    BY <2>3, <1>0, <1>4, <1>7
  <2>4. CASE /\ eRcvState = "RCV" /\ usRcvBufferPos = MaxFrame /\ eRcvState' = "ERROR"
             /\ UNCHANGED <<ucRTUBuf, usRcvBufferPos>>
    BY <2>4, <1>7
  <2> QED BY <1>6, <2>1, <2>2, <2>3, <2>4
<1>9. TypeOK'
  <2>1. rxf' \in Seq(Tokens) /\ Len(rxf') <= RxDepth /\ mtime' \in 0..T35 /\ mtie' \in BOOLEAN
        /\ iir' \in {"none", "rx", "tx"}
    <3>1. rxf' \in Seq(Tokens) /\ Len(rxf') = 0
      BY <1>4, EmptySeq
    <3> QED BY <3>1, <1>0, <1>1, <1>5, Constants
  <2>2. UNCHANGED <<ier, txf, shift, sender, queue, pc, isr, loop, master>>
    BY <1>1
  <2> QED BY <1>0, <1>8, <2>1, <2>2 DEF TypeOK, sender, queue, master
<1>10. Wires'
  BY <1>1, <1>3, <1>4, <1>5 DEF Wires, AtRest
<1>11. Listens'
  <2>0. /\ due' = None /\ ~served' /\ UNCHANGED <<up, line, gap>> /\ gap' # T35
    BY <1>0, <1>1, <1>2, <1>3 DEF Arrived, master
  <2>1. CASE eRcvState = "INIT"
    <3>1. eRcvState' = "INIT" /\ ~up'
      BY <2>0, <2>1, <1>2, <1>6 DEF Arrived, receiver
    <3> QED BY <3>1, <2>0, <1>1, <1>3, <1>4, <1>5 DEF Listens, Counting
  <2>2. CASE eRcvState = "IDLE"
    <3>1. /\ eRcvState' = "RCV" /\ usRcvBufferPos' = 1 /\ ucRTUBuf'[1] = rxf[1]
          /\ up' /\ line' = rxf /\ Len(rxf) = 1
      BY <2>0, <2>2, <1>0, <1>2, <1>6, <1>7 DEF Arrived
    <3>2. Kept(0)'
      BY <3>1 DEF Kept
    <3>3. eRcvState' = "RCV" /\ up' /\ usRcvBufferPos' >= 1 /\ due' = None /\ Kept(0)'
      BY <3>1, <3>2, <2>0
    <3> QED BY <3>3, <2>0, <1>1, <1>3, <1>4, <1>5 DEF Listens, Counting
  <2>3. CASE eRcvState = "RCV" /\ usRcvBufferPos < MaxFrame
    <3>1. /\ eRcvState' = "RCV" /\ usRcvBufferPos' = usRcvBufferPos + 1
          /\ ucRTUBuf' = [ucRTUBuf EXCEPT ![usRcvBufferPos + 1] = rxf[1]] /\ up'
          /\ line' = line /\ usRcvBufferPos >= 1 /\ Kept(1)
          /\ line[usRcvBufferPos + 1] = rxf[1]
      <4>1. /\ usRcvBufferPos' = usRcvBufferPos + 1 /\ eRcvState' = eRcvState
            /\ ucRTUBuf' = [ucRTUBuf EXCEPT ![usRcvBufferPos + 1] = rxf[1]]
        BY <2>3, <1>0, <1>6, <1>7
      <4>2. up /\ usRcvBufferPos >= 1 /\ Kept(1) /\ line[usRcvBufferPos + 1] = rxf[1]
        BY <2>3, <1>2 DEF Arrived
      <4> QED BY <2>0, <2>3, <4>1, <4>2
    <3>2. \A i \in 1..usRcvBufferPos + 1 :
            ucRTUBuf'[i] = IF i = usRcvBufferPos + 1 THEN rxf[1] ELSE ucRTUBuf[i]
      BY <3>1, <2>3, <1>0, <1>7
    <3>3. Kept(0)'
      BY <3>1, <3>2, <1>7 DEF Kept
    <3>4. eRcvState' = "RCV" /\ up' /\ usRcvBufferPos' >= 1 /\ due' = None /\ Kept(0)'
      BY <3>1, <3>3, <2>0, <1>7
    <3> QED BY <3>4, <2>0, <1>1, <1>3, <1>4, <1>5 DEF Listens, Counting
  <2>4. CASE eRcvState = "RCV" /\ usRcvBufferPos = MaxFrame
    <3>1. eRcvState' = "ERROR" /\ up' /\ Len(line') > 3
      BY <2>0, <2>4, <1>0, <1>2, <1>6 DEF Arrived, Kept
    <3> QED BY <3>1, <2>0, <1>1, <1>3, <1>4, <1>5 DEF Listens, Counting
  <2>5. CASE eRcvState = "ERROR"
    <3>1. eRcvState' = "ERROR" /\ up' /\ Len(line') > 3
      BY <2>0, <2>5, <1>2, <1>6 DEF Arrived, receiver
    <3> QED BY <3>1, <2>0, <1>1, <1>3, <1>4, <1>5 DEF Listens, Counting
  <2> QED BY <1>6, <1>7, <2>1, <2>2, <2>3, <2>4, <2>5
<1>12. Speaks'
  BY <1>0, <1>1, <1>2 DEF Speaks, Genuine, Arrived, master
<1>13. Works'
  BY <1>0, <1>1, <1>3 DEF Works, Late, AtRest
<1>14. Sends'
  BY <1>0, <1>1 DEF Sends, Out, Answered, Excepted, Begins, sender, master
<1> QED BY <1>9, <1>10, <1>11, <1>12, <1>13, <1>14 DEF IInv

(* The transmit interrupt works while the line is silent.                   *)
LEMMA TxInSilence ==
  ASSUME IInv, iir = "tx", UNCHANGED <<rxf, timer, receiver, master>>
  PROVE  Silent /\ Silent' /\ rxf = <<>> /\ pc \notin {"start", "enable"}
<1>1. rxf = <<>> /\ pc \notin {"start", "enable"}
  BY DEF IInv, Wires
<1>2. Silent
  BY <1>1, ShortSeq DEF IInv, Listens, Counting, Arrived, TypeOK
<1>3. Silent'
  BY <1>2 DEF Silent, timer, receiver, master
<1> QED BY <1>1, <1>2, <1>3

(* The bytes of the reply in the buffer.                                    *)
LEMMA ReplyInBuffer ==
  ASSUME TypeOK, Speaks, Replying, Answered, Built, pc # "checksum", NEW i \in 1..3
  PROVE  Len(Answer(due)) = 3 /\ ucRTUBuf[i] = Answer(due)[i]
<1>1. ~loop.error
  BY DEF Replying, Answered
<1>2. ucRTUBuf[1] = Me /\ ucRTUBuf[2] = Answer(due)[2] /\ ucRTUBuf[3] = ucRTUBuf[1] \o ucRTUBuf[2]
  BY <1>1 DEF Replying, Built
<1>3. due \in Seq(Tokens) /\ CrcOk(due) /\ due[1] = Me
  BY DEF TypeOK, Speaks, Answered
<1>4. /\ Len(Answer(due)) = 3 /\ Answer(due)[1] = Me
      /\ Answer(due)[3] = Answer(due)[1] \o Answer(due)[2]
  BY <1>3, AnswerIs
<1>5. ucRTUBuf[3] = Answer(due)[3]
  BY <1>2, <1>4
<1>6. i = 1 \/ i = 2 \/ i = 3
  OBVIOUS
<1> QED BY <1>2, <1>4, <1>5, <1>6

(* The sender puts the next byte of the reply on the line, from the handler *)
(* that found room or from the one that waited for it.                      *)
LEMMA NextSent ==
  ASSUME IInv, iir = "tx", eSndState = "XMIT", usSndBufferCount # 0, RoomToSend,
         SendNext, isr' = "no", iir' = "tx",
         UNCHANGED <<rxf, timer, receiver, pc, loop, master>>
  PROVE  IInv'
<1>0. TypeOK /\ Wires /\ Speaks /\ Works /\ Sends
  BY DEF IInv
<1>1. Silent /\ Silent' /\ rxf = <<>> /\ pc \in {"fsm", "put"}
  BY <1>0, TxInSilence DEF Wires
<1>2. /\ Put(ucRTUBuf[pucSndBufferCur])
      /\ pucSndBufferCur' = pucSndBufferCur + 1 /\ usSndBufferCount' = usSndBufferCount - 1
      /\ UNCHANGED <<ier, eSndState, xEventInQueue, eQueuedEvent>>
  BY DEF SendNext, queue
<1>3. Replying /\ Built
  BY <1>0, <1>1 DEF Works, Late
<1>4. /\ pucSndBufferCur \in 1..3 /\ usSndBufferCount \in Nat
      /\ pucSndBufferCur + usSndBufferCount = 4
      /\ usSndBufferCount - 1 \in 0..9
  <2>1. usSndBufferCount \in Nat /\ pucSndBufferCur \in Nat
    BY <1>0, USHORTIsNat DEF TypeOK
  <2> QED BY <2>1, <1>1, <1>3 DEF Built
<1>5. ucRTUBuf[pucSndBufferCur] \in Tokens
  BY <1>0, <1>4, SlotOfFrame DEF TypeOK
<1>6. /\ shift' \in Seq(Tokens) /\ Len(shift') <= 1
      /\ txf' \in Seq(Tokens) /\ Len(txf') <= 1
      /\ Out \in Seq(Tokens) /\ Out' = Append(Out, ucRTUBuf[pucSndBufferCur])
  BY <1>0, <1>2, <1>5, PutIs DEF master
<1>7. TypeOK'
  <2>1. usSndBufferCount' \in USHORT /\ pucSndBufferCur' \in Nat
    BY <1>2, <1>4, WrappedIs
  <2>2. /\ UNCHANGED <<rxf, ier, mtime, mtie, eRcvState, ucRTUBuf, usRcvBufferPos, eSndState>>
        /\ UNCHANGED <<xEventInQueue, eQueuedEvent, pc, loop>>
        /\ UNCHANGED <<sending, gap, await, line, up, due, served, heard, faults>>
        /\ isr' \in {"no", "tx"} /\ iir' \in {"none", "rx", "tx"}
    BY <1>2 DEF timer, receiver, master
  <2> QED BY <1>0, <1>6, <2>1, <2>2 DEF TypeOK
<1>8. Wires'
  <2>1. ier = {"tx"}
    BY <1>0, <1>1 DEF Wires
  <2> QED BY <1>0, <1>1, <1>2, <2>1 DEF Wires
<1>9. Speaks'
  BY <1>0, <1>3, <1>1, <1>2 DEF Speaks, Genuine, Replying, master, timer, AtRest
<1>10. Works'
  <2>1. Replying'
    BY <1>3 DEF Replying, Answer, receiver, master
  <2>2. Built'
    <3>1. pucSndBufferCur' + usSndBufferCount' = 4 /\ pucSndBufferCur' >= 1
      BY <1>2, <1>4
    <3>2. /\ ucRTUBuf[1] = Me /\ ucRTUBuf[3] = ucRTUBuf[1] \o ucRTUBuf[2]
          /\ ucRTUBuf' = ucRTUBuf /\ pc' = pc
      BY <1>1, <1>3 DEF Built, receiver
    <3> QED BY <3>1, <3>2, <1>1 DEF Built
  <2>3. UNCHANGED <<pc, loop, xEventInQueue, eQueuedEvent>>
    BY <1>2
  <2> QED BY <2>1, <2>2, <2>3, <1>0, <1>1 DEF Works, Late
<1>11. Sends'
  <2>1. UNCHANGED <<due, served, pc>> /\ Answer(due)' = Answer(due)
        /\ (Answered' <=> Answered) /\ (Excepted' <=> Excepted)
    BY DEF master, Answered, Excepted
  <2>2. served' /\ (Answered' \/ Excepted')
    BY <2>1, <1>3 DEF Replying, Answered, Excepted
  <2>3. ASSUME Answered
        PROVE  Begins(Out, Answer(due))' /\ Len(Out') = pucSndBufferCur' - 1
    <3>1. /\ Len(Out) = pucSndBufferCur - 1
          /\ \A i \in 1..Len(Out) : Out[i] = Answer(due)[i]
      BY <1>0, <2>3 DEF Sends, Begins
    <3>2. /\ Len(Answer(due)) = 3
          /\ ucRTUBuf[pucSndBufferCur] = Answer(due)[pucSndBufferCur]
      BY <1>0, <1>1, <1>3, <1>4, <2>3, ReplyInBuffer
    <3>3. /\ Len(Out') = Len(Out) + 1
          /\ \A i \in 1..Len(Out) : Out'[i] = Out[i]
          /\ Out'[Len(Out) + 1] = ucRTUBuf[pucSndBufferCur]
      BY <1>5, <1>6, AppendProperties
    <3>4. Len(Out') = pucSndBufferCur /\ pucSndBufferCur' - 1 = pucSndBufferCur
      BY <3>1, <3>3, <1>2, <1>4
    <3>5. ASSUME NEW i \in 1..Len(Out') PROVE Out'[i] = Answer(due)[i]
      <4>1. CASE i = pucSndBufferCur
        BY <4>1, <3>1, <3>2, <3>3, <1>4
      <4>2. CASE i # pucSndBufferCur
        <5>1. i \in 1..Len(Out)
          BY <4>2, <3>1, <3>4, <1>4
        <5> QED BY <5>1, <3>1, <3>3
      <4> QED BY <4>1, <4>2
    <3>6. Len(Out') <= Len(Answer(due))
      BY <3>2, <3>4, <1>4
    <3> QED BY <2>1, <3>4, <3>5, <3>6 DEF Begins
  <2> QED BY <2>1, <2>2, <2>3, <1>1 DEF Sends
<1> QED BY <1>1, <1>7, <1>8, <1>9, <1>10, <1>11 DEF IInv, Listens

LEMMA TxStep ==
  ASSUME IInv, TxInterrupt
  PROVE  IInv'
<1>0. TypeOK /\ Wires /\ Speaks /\ Works /\ Sends
  BY DEF IInv
<1>1. /\ isr = "no" /\ iir = "tx" /\ Identify(Settled("none", ier, rxf, txf))
      /\ UNCHANGED <<rxf, timer, receiver, pc, loop, master>>
  BY DEF TxInterrupt, InterruptTaken
<1>2. Silent /\ Silent' /\ rxf = <<>> /\ rxf' = <<>> /\ pc \notin {"start", "enable"}
  BY <1>1, TxInSilence
<1>3. "tx" \notin {"rx"} /\ "tx" \in {"tx"} /\ {"rx"} # {"tx"}
  OBVIOUS
<1>4. iir' = IF ("tx" \in ier' /\ txf' = <<>>) \/ ("tx" \in ier /\ txf = <<>>)
               THEN "tx" ELSE "none"
  BY <1>1, <1>2 DEF Identify, Settled
<1>5. UNCHANGED <<txf, shift>> => Out' = Out
  BY <1>1 DEF Out, master
<1>6. (Answered' <=> Answered) /\ (Excepted' <=> Excepted) /\ Answer(due)' = Answer(due)
  BY <1>1 DEF master, Answered, Excepted
<1>7. Judged' <=> Judged
  BY <1>1 DEF Judged, receiver, master
<1>8. Chosen' <=> Chosen
  BY <1>1 DEF Chosen, receiver, master
<1>9. Replying' <=> Replying
  BY <1>1 DEF Replying, Answer, receiver, master
<1>10. CASE IdleTransmitter /\ isr' = "no"
  <2>1. /\ eSndState = "IDLE" /\ ier' = {"rx"} /\ ier = {"rx"} /\ isr' = "no"
        /\ UNCHANGED <<txf, shift, sender, queue>>
    BY <1>0, <1>3, <1>10 DEF IdleTransmitter, vMBPortSerialEnable, Wires
  <2>2. iir' = "none"
    BY <1>3, <1>4, <2>1
  <2>3. TypeOK'
    BY <1>0, <1>1, <2>1, <2>2 DEF TypeOK, timer, receiver, sender, queue, master
  <2>4. Wires'
    BY <1>0, <1>1, <1>2, <2>1, <2>2 DEF Wires, sender
  <2>5. Speaks'
    BY <1>0, <1>1, <2>1 DEF Speaks, Genuine, AtRest, master, timer, sender, queue
  <2>6. Works'
    <3>1. Built' <=> Built
      BY <1>1, <2>1 DEF Built, receiver, sender
    <3> QED BY <1>0, <1>1, <1>7, <1>8, <1>9, <2>1, <3>1 DEF Works, receiver, sender, queue
  <2>7. Sends'
    BY <1>0, <1>1, <1>5, <1>6, <2>1 DEF Sends, Begins, sender, master
  <2> QED BY <1>2, <2>3, <2>4, <2>5, <2>6, <2>7 DEF IInv, Listens
<1>11. CASE FrameSent /\ isr' = "no"
  <2>1. /\ eSndState = "XMIT" /\ eSndState' = "IDLE" /\ ier' = {"rx"} /\ isr' = "no"
        /\ xEventInQueue' = TRUE /\ eQueuedEvent' = "FRAME_SENT"
        /\ UNCHANGED <<txf, shift, pucSndBufferCur, usSndBufferCount>>
    BY <1>11 DEF FrameSent, Post, vMBPortSerialEnable
  <2>2. iir' \in {"tx", "none"}
    BY <1>4
  <2>3. pc \in {"fsm", "put"} /\ pc' = pc
    BY <1>0, <1>1, <1>2, <2>1 DEF Wires
  <2>4. TypeOK'
    BY <1>0, <1>1, <2>1, <2>2 DEF TypeOK, Events, timer, receiver, master
  <2>5. Wires'
    BY <1>0, <1>1, <1>2, <2>1, <2>2, <2>3 DEF Wires
  <2>6. Replying /\ sending = <<>>
    BY <1>0, <2>3 DEF Works, Late, Replying
  <2>7. Speaks'
    BY <1>0, <1>1, <2>1, <2>6 DEF Speaks, Genuine, master
  <2>8. Works'
    BY <1>0, <1>1, <1>9, <2>1, <2>3, <2>6 DEF Works, Late
  <2>9. Sends'
    BY <1>0, <1>1, <1>5, <1>6, <2>1, <2>3 DEF Sends, Begins, master
  <2> QED BY <1>2, <2>4, <2>5, <2>7, <2>8, <2>9 DEF IInv, Listens
<1>12. CASE eSndState = "XMIT" /\ usSndBufferCount # 0 /\ RoomToSend /\ SendNext /\ isr' = "no"
  <2>1. iir' = "tx"
    <3>1. txf = <<>> /\ ier = {"tx"}
      BY <1>0, <1>2, <1>12 DEF RoomToSend, Wires
    <3> QED BY <3>1, <1>3, <1>4
  <2> QED BY <1>1, <1>12, <2>1, NextSent
<1>13. CASE /\ eSndState = "XMIT" /\ usSndBufferCount # 0 /\ ~RoomToSend /\ isr' = "tx"
            /\ UNCHANGED <<ier, txf, shift, sender, queue>>
  <2>1. txf # <<>> /\ iir' = "none"
    BY <1>4, <1>13 DEF RoomToSend
  <2>2. TypeOK'
    BY <1>0, <1>1, <1>13, <2>1 DEF TypeOK, timer, receiver, sender, queue, master
  <2>3. Wires'
    BY <1>0, <1>1, <1>2, <1>13, <2>1 DEF Wires, sender
  <2>4. Speaks'
    BY <1>0, <1>1, <1>13 DEF Speaks, Genuine, AtRest, master, timer, sender, queue
  <2>5. Works'
    <3>1. Built' <=> Built
      BY <1>1, <1>13 DEF Built, receiver, sender
    <3> QED BY <1>0, <1>1, <1>7, <1>8, <1>9, <1>13, <3>1 DEF Works, receiver, sender, queue
  <2>6. Sends'
    BY <1>0, <1>1, <1>5, <1>6, <1>13 DEF Sends, Begins, sender, master
  <2> QED BY <1>2, <2>2, <2>3, <2>4, <2>5, <2>6 DEF IInv, Listens
<1> QED BY <1>10, <1>11, <1>12, <1>13 DEF TxInterrupt

LEMMA TxGoesOnStep ==
  ASSUME IInv, TxInterruptGoesOn
  PROVE  IInv'
<1>1. /\ isr = "tx" /\ txf = <<>> /\ RoomToSend /\ SendNext /\ isr' = "no" /\ Identify(iir)
      /\ UNCHANGED <<rxf, timer, receiver, pc, loop, master>> /\ ier' = ier
  BY DEF TxInterruptGoesOn, RoomToSend, SendNext
<1>2. /\ eSndState = "XMIT" /\ usSndBufferCount # 0 /\ pc # "enable"
      /\ ier = {"tx"} /\ iir = "tx" /\ rxf = <<>>
  <2>1. {"rx"} # {"tx"}
    OBVIOUS
  <2> QED BY <1>1, <2>1 DEF IInv, Wires
<1>3. iir' = "tx"
  BY <1>1, <1>2 DEF Identify, Settled
<1> QED BY <1>1, <1>2, <1>3, NextSent

(* The timer runs out: the silence the observer has heard, too.             *)
LEMMA TimerStep ==
  ASSUME IInv, TimerInterrupt
  PROVE  IInv'
<1>0. TypeOK /\ Wires /\ Listens /\ Speaks /\ Works /\ Sends
  BY DEF IInv
<1>1. /\ isr = "no" /\ iir = "none" /\ mtie /\ mtime = T35
      /\ \/ eRcvState = "INIT" /\ Post("READY")
         \/ eRcvState = "RCV" /\ Post("FRAME_RECEIVED")
         \/ eRcvState \in {"ERROR", "IDLE"} /\ UNCHANGED queue
      /\ mtie' = FALSE /\ eRcvState' = "IDLE"
      /\ UNCHANGED <<uart, mtime, ucRTUBuf, usRcvBufferPos, sender, pc, isr, loop, master>>
  BY DEF TimerInterrupt, InterruptTaken, TimerPending
<1>2. Counting
  BY <1>0, <1>1 DEF Listens, Silent, Arrived, Wires, AtRest
<1>3. /\ gap = T35 /\ up /\ line = <<>> /\ rxf = <<>> /\ eRcvState # "IDLE"
      /\ pc = "poll" /\ ~xEventInQueue /\ eSndState = "IDLE" /\ ~served
      /\ eRcvState = "RCV" => Judged
      /\ eRcvState # "RCV" => due = None
  BY <1>1, <1>2 DEF Counting, AtRest
<1>4. /\ UNCHANGED <<ier, iir, rxf, txf, shift, eSndState, pucSndBufferCur, usSndBufferCount>>
      /\ UNCHANGED <<sending, gap, await, line, up, due, served, heard, faults>>
  BY <1>1 DEF uart, sender, master
<1>5. TypeOK'
  <2>1. xEventInQueue' \in BOOLEAN /\ eQueuedEvent' \in Events
    BY <1>0, <1>1 DEF Post, queue, TypeOK, Events
  <2> QED BY <1>0, <1>1, <1>4, <2>1 DEF TypeOK
<1>6. Wires'
  BY <1>0, <1>1, <1>4 DEF Wires
<1>7. Listens'
  BY <1>1, <1>3, <1>4 DEF Listens, Silent
<1>8. Speaks'
  BY <1>0, <1>1, <1>4 DEF Speaks, Genuine
<1>9. Works'
  <2>1. Judged' <=> Judged
    BY <1>1, <1>4 DEF Judged
  <2>2. xEventInQueue' => /\ eQueuedEvent' \in {"READY", "FRAME_RECEIVED"}
                          /\ eQueuedEvent' = "FRAME_RECEIVED" => Judged'
    BY <1>1, <1>3, <2>1 DEF Post, queue
  <2> QED BY <1>0, <1>1, <1>3, <1>4, <2>2 DEF Works, Late
<1>10. Sends'
  BY <1>0, <1>1, <1>4 DEF Sends, Out, Begins, Answered, Excepted
<1> QED BY <1>5, <1>6, <1>7, <1>8, <1>9, <1>10 DEF IInv

-----------------------------------------------------------------------------
(* The master and the line                                                  *)

(* The master begins a frame: it waits for no reply, or the slave is idle.  *)
LEMMA StartStep ==
  ASSUME IInv, StartFrame
  PROVE  IInv'
<1>0. TypeOK /\ Wires /\ Listens /\ Speaks /\ Works /\ Sends
  BY DEF IInv
<1>1. /\ sending = <<>> /\ gap = T35 /\ (await => SlaveIdle)
      /\ UNCHANGED <<uart, timer, receiver, sender, queue, pc, isr, loop,
                     gap, line, up, due, served, heard>>
  BY DEF StartFrame
<1>2. PICK a \in Addrs, p \in Requests :
        \/ sending' = Frame(a, p) /\ await' = (a = Me) /\ UNCHANGED faults
        \/ /\ faults < MaxFaults /\ faults' = faults + 1 /\ await' = FALSE
           /\ sending' \in Damaged(Frame(a, p)) /\ sending' # Frame(a, p)
  BY DEF StartFrame
<1>3. a \in Tokens /\ p \in Tokens
  BY AreTokens
<1>4. /\ sending' \in Seq(Tokens) /\ sending' # <<>>
      /\ CrcOk(sending') => sending'[2] = p /\ (sending'[1] = Me => await')
      /\ faults' \in 0..MaxFaults /\ await' \in BOOLEAN
  <2>1. CASE sending' = Frame(a, p) /\ await' = (a = Me) /\ UNCHANGED faults
    <3>1. LET f == Frame(a, p)
          IN  f \in Seq(Tokens) /\ Len(f) = 3 /\ f[1] = a /\ f[2] = p
      BY <1>3, FrameIs
    <3>2. sending' # <<>>
      <4>1. sending' \in Seq(Tokens) /\ Len(sending') # 0
        BY <2>1, <3>1
      <4> QED BY ONLY <4>1, NotEmpty
    <3> QED BY <2>1, <3>1, <3>2, <1>0 DEF TypeOK
  <2>2. CASE /\ faults < MaxFaults /\ faults' = faults + 1 /\ await' = FALSE
             /\ sending' \in Damaged(Frame(a, p)) /\ sending' # Frame(a, p)
    <3>1. sending' \in Seq(Tokens) /\ sending' # <<>> /\ ~CrcOk(sending')
      BY <2>2, <1>3, DamageIsFound
    <3>2. faults' \in 0..MaxFaults /\ await' \in BOOLEAN
      <4>1. /\ faults \in 0..MaxFaults /\ faults < MaxFaults /\ faults' = faults + 1
            /\ await' = FALSE /\ MaxFaults \in Nat
        BY <2>2, <1>0, Constants DEF TypeOK
      <4>2. \A m \in Nat : \A n \in 0..m : n < m => n + 1 \in 0..m
        OBVIOUS
      <4>3. faults' \in 0..MaxFaults
        BY <4>1, <4>2
      <4> QED BY <4>1, <4>3
    <3> QED BY <3>1, <3>2
  <2> QED BY <1>2, <2>1, <2>2
<1>5. /\ UNCHANGED <<ier, iir, rxf, txf, shift, mtime, mtie, eRcvState, ucRTUBuf>>
      /\ UNCHANGED <<usRcvBufferPos, eSndState, pucSndBufferCur, usSndBufferCount>>
      /\ UNCHANGED <<xEventInQueue, eQueuedEvent, pc, isr, loop>>
      /\ UNCHANGED <<gap, line, up, due, served, heard>>
  BY <1>1 DEF uart, timer, receiver, sender, queue
<1>6. ~Arrived /\ (up => line = <<>>) /\ (mtie => TimerPending)
  BY <1>0, <1>1, Constants DEF Listens, Silent, Counting, Arrived, TimerPending
(* A master that expects a reply finds the slave at rest.                   *)
<1>7. await => /\ AtRest /\ ~mtie /\ shift = <<>> /\ txf = <<>>
  <2>1. await => /\ pc = "poll" /\ ~xEventInQueue /\ ~TimerPending
                 /\ shift = <<>> /\ txf = <<>>
    BY <1>1 DEF SlaveIdle, Pending
  <2>2. pc = "poll" => eSndState = "IDLE"
    BY <1>0 DEF Wires, TypeOK
  <2> QED BY <2>1, <2>2, <1>6 DEF AtRest
<1>8. due # None /\ due[1] = Me => await
  BY <1>0, <1>1 DEF Speaks
<1>9. shift = <<>> /\ txf = <<>>
  <2>1. CASE await
    BY <2>1, <1>7
  <2>2. CASE ~await
    <3>1. Out = <<>>
      BY <1>0, <1>8, <2>2 DEF Sends, Answered, Excepted
    <3> QED BY <3>1, <1>0, AllEmpty DEF Out, TypeOK
  <2> QED BY <2>1, <2>2
<1>10. pc \notin Late
  BY <1>0, <1>7, <1>8 DEF Works, Replying, AtRest, Late
<1>11. TypeOK'
  BY <1>0, <1>4, <1>5 DEF TypeOK
<1>12. Wires'
  BY <1>0, <1>5 DEF Wires
<1>13. Listens'
  <2>1. Listens' <=> Listens
    BY <1>5 DEF Listens, Silent, Counting, Arrived, AtRest, Judged, Kept
  <2> QED BY <1>0, <2>1
<1>14. Speaks'
  <2>1. up => Genuine(sending)'
    BY <1>4 DEF Genuine
  <2>2. up => (line \o sending)' = sending'
    BY <1>4, <1>5, <1>6, NoneLeft
  <2>3. up' => Genuine(line \o sending)'
    BY <2>1, <2>2, <1>5 DEF Genuine
  <2>4. ASSUME due' # None
        PROVE  /\ CrcOk(due') /\ due'[1] \in {Me, Broadcast} /\ due'[2] \in Requests
               /\ due'[1] = Me => AtRest' /\ ~mtie'
    BY <2>4, <1>0, <1>5, <1>7, <1>8 DEF Speaks, AtRest
  <2> QED BY <2>3, <2>4, <1>4, <1>5, <1>9 DEF Speaks
<1>15. Works'
  <2>1. /\ Judged' <=> Judged
        /\ Chosen' <=> Chosen
        /\ Built' <=> Built
    BY <1>5 DEF Judged, Chosen, Built
  <2> QED BY <2>1, <1>0, <1>5, <1>10 DEF Works
<1>16. Sends'
  <2>1. Out' = Out /\ (Answered' <=> Answered) /\ (Excepted' <=> Excepted)
        /\ Answer(due)' = Answer(due)
    BY <1>5 DEF Out, Answered, Excepted
  <2> QED BY <2>1, <1>0, <1>5 DEF Sends, Begins
<1> QED BY <1>11, <1>12, <1>13, <1>14, <1>15, <1>16 DEF IInv

(* A character of time while the slave is sending: the line carries it away. *)
LEMMA TickSending ==
  ASSUME FastCpu, IInv, Tick, ~AtRest
  PROVE  IInv'
<1>0. TypeOK /\ Wires /\ Listens /\ Speaks /\ Works /\ Sends
  BY DEF IInv
<1>1. /\ pc \in {"fsm", "put", "print"} /\ txf # <<>>
  <2>1. pc = "poll" => eSndState = "IDLE"
    BY <1>0 DEF Wires, TypeOK
  <2>2. \/ isr = "tx" /\ txf # <<>>
        \/ pc = "poll" /\ ~xEventInQueue
        \/ pc \in {"put", "print"} /\ txf # <<>>
    BY DEF Tick, CpuWaits, RoomToSend
  <2>3. isr = "tx" => pc \in {"fsm", "put"}
    BY <1>0 DEF Wires
  <2> QED BY <2>1, <2>2, <2>3 DEF AtRest
<1>2. Silent /\ Replying /\ sending = <<>>
  BY <1>0, <1>1 DEF Listens, Counting, Arrived, Works, Late, Replying
<1>3. /\ HearSilence /\ UNCHANGED <<sending, rxf>> /\ shift' = txf /\ txf' = <<>>
      /\ mtime' = IF mtie /\ mtime < T35 THEN mtime + 1 ELSE mtime
      /\ UNCHANGED <<ier, mtie, receiver, sender, queue, pc, isr, loop, await, faults>>
      /\ Identify(iir)
  BY <1>2 DEF Tick
<1>4. /\ gap' = gap /\ heard' = heard \o shift /\ mtime' = mtime
      /\ UNCHANGED <<up, line, due, served>>
  <2>1. gap = T35 /\ ~(gap < T35) /\ ~mtie
    BY <1>2, Constants DEF Silent
  <2> QED BY <1>3, <2>1 DEF HearSilence
<1>5. iir' = IF "tx" \in ier THEN "tx" ELSE iir
  BY <1>2, <1>3 DEF Identify, Settled, Silent
<1>6. Out' = Out /\ heard' \in Seq(Tokens)
  <2>1. heard \in Seq(Tokens) /\ shift \in Seq(Tokens) /\ txf \in Seq(Tokens)
    BY <1>0 DEF TypeOK
  <2>2. heard \o shift \in Seq(Tokens) /\ heard \o shift \o txf \in Seq(Tokens)
    BY <2>1, ConcatProperties
  <2> QED BY <2>2, <1>3, <1>4, NoneLeft DEF Out
<1>7. TypeOK'
  <2>1. txf' \in Seq(Tokens) /\ Len(txf') = 0
    BY <1>3, EmptySeq
  <2> QED BY <2>1, <1>0, <1>3, <1>4, <1>5, <1>6 DEF TypeOK, receiver, sender, queue
<1>8. Wires'
  <2>1. "tx" \in {"tx"} /\ iir # "rx"
    BY <1>0, <1>2 DEF Wires, Silent
  <2> QED BY <2>1, <1>0, <1>1, <1>2, <1>3, <1>5 DEF Wires, Silent, sender
<1>9. Silent'
  BY <1>2, <1>3, <1>4 DEF Silent, receiver
<1>10. Speaks'
  BY <1>0, <1>2, <1>3, <1>4 DEF Speaks, Genuine
<1>11. Works'
  <2>1. /\ Judged' <=> Judged
        /\ Chosen' <=> Chosen
        /\ Replying' <=> Replying
        /\ Built' <=> Built
    BY <1>3, <1>4 DEF Judged, Chosen, Replying, Answer, Built, receiver, sender
  <2> QED BY <2>1, <1>0, <1>3 DEF Works, receiver, sender, queue
<1>12. Sends'
  <2>1. (Answered' <=> Answered) /\ (Excepted' <=> Excepted) /\ Answer(due)' = Answer(due)
    BY <1>4 DEF Answered, Excepted
  <2> QED BY <2>1, <1>0, <1>3, <1>4, <1>6 DEF Sends, Begins, sender
<1> QED BY <1>7, <1>8, <1>9, <1>10, <1>11, <1>12 DEF IInv, Listens

(* What is true while time passes and the slave has nothing to do.          *)
LEMMA Waiting ==
  ASSUME IInv, CpuWaits, AtRest
  PROVE  /\ pc = "poll" /\ ~xEventInQueue /\ eSndState = "IDLE" /\ ~loop.error
         /\ ier = {"rx"} /\ isr = "no" /\ iir = "none" /\ rxf = <<>>
         /\ Silent \/ (Counting /\ gap < T35)
<1>1. /\ pc = "poll" /\ ~xEventInQueue /\ eSndState = "IDLE"
  BY DEF AtRest
<1>2. ~loop.error
  BY <1>1 DEF IInv, Works, Late
<1>3. ier = {"rx"} /\ isr = "no"
  BY <1>1 DEF IInv, Wires, TypeOK
<1>4. iir = "none" /\ ~TimerPending
  BY <1>3 DEF CpuWaits, Pending
<1>5. rxf = <<>>
  BY <1>4 DEF IInv, Wires
<1>6. Silent \/ Counting
  BY <1>5, ShortSeq DEF IInv, Listens, Arrived, TypeOK
<1>7. Counting => gap < T35
  BY <1>4, Constants DEF Counting, TimerPending, IInv, TypeOK
<1> QED BY <1>1, <1>2, <1>3, <1>4, <1>5, <1>6, <1>7

(* The wires and the loop after a character of time in which the slave has  *)
(* nothing to do.                                                           *)
LEMMA TickAtRest ==
  ASSUME FastCpu, IInv, Tick, AtRest
  PROVE  /\ AtRest' /\ Wires' /\ Works'
         /\ iir' = IF rxf' # <<>> THEN "rx" ELSE "none"
         /\ UNCHANGED <<ier, mtie, receiver, sender, queue, pc, isr, loop, await, faults>>
         /\ shift' = txf /\ txf' = <<>>
         /\ mtime' = IF mtie /\ mtime < T35 THEN mtime + 1 ELSE mtime
<1>1. /\ shift' = txf /\ txf' = <<>> /\ Identify(iir) /\ CpuWaits
      /\ mtime' = IF mtie /\ mtime < T35 THEN mtime + 1 ELSE mtime
      /\ UNCHANGED <<ier, mtie, receiver, sender, queue, pc, isr, loop, await, faults>>
  BY DEF Tick
<1>2. /\ pc = "poll" /\ ~xEventInQueue /\ eSndState = "IDLE" /\ ~loop.error
      /\ ier = {"rx"} /\ isr = "no" /\ iir = "none"
  BY <1>1, Waiting
<1>3. "tx" \notin {"rx"} /\ "rx" \in {"rx"}
  OBVIOUS
<1>4. iir' = IF rxf' # <<>> THEN "rx" ELSE "none"
  BY <1>1, <1>2, <1>3 DEF Identify, Settled
<1>5. AtRest'
  BY <1>1, <1>2 DEF AtRest, sender, queue
<1>6. Wires'
  BY <1>1, <1>2, <1>4, <1>5 DEF Wires, AtRest
<1>7. Works'
  BY <1>1, <1>2, <1>5 DEF Works, AtRest, Late
<1> QED BY <1>1, <1>4, <1>5, <1>6, <1>7

(* A byte of the master arrives.                                            *)
LEMMA ByteStep ==
  ASSUME FastCpu, IInv, Tick, AtRest, sending # <<>>
  PROVE  IInv'
<1>0. /\ TypeOK /\ Wires /\ Listens /\ Speaks /\ Works /\ Sends
      /\ T35 \in Nat /\ T35 > 0 /\ RxDepth \in Nat /\ RxDepth > 0
  BY Constants DEF IInv
<1>1. /\ AtRest' /\ Wires' /\ Works' /\ iir' = IF rxf' # <<>> THEN "rx" ELSE "none"
      /\ UNCHANGED <<ier, mtie, receiver, sender, queue, pc, isr, loop, await, faults>>
      /\ shift' = txf /\ txf' = <<>>
      /\ mtime' = IF mtie /\ mtime < T35 THEN mtime + 1 ELSE mtime
  BY TickAtRest
<1>2. /\ rxf = <<>> /\ (Silent \/ (Counting /\ gap < T35))
  BY Waiting DEF Tick
<1> DEFINE b == Head(sending)
<1>3. /\ sending' = Tail(sending) /\ HearByte
      /\ rxf' = IF Len(rxf) < RxDepth THEN Append(rxf, b) ELSE rxf
  BY DEF Tick
<1>4. b \in Tokens /\ Tail(sending) \in Seq(Tokens)
  BY <1>0, HeadTailProperties DEF TypeOK
<1> HIDE DEF b
<1>5. /\ rxf' = <<b>> /\ rxf' \in Seq(Tokens) /\ Len(rxf') = 1 /\ rxf'[1] = b /\ rxf' # <<>>
  <2>1. Len(rxf) = 0 /\ rxf' = Append(rxf, b)
    BY <1>0, <1>2, <1>3, EmptySeq
  <2>2. rxf' = <<b>>
    BY <2>1, <1>2
  <2> QED BY <2>2, <1>4, SingleToken
<1>6. shift = <<>> /\ txf = <<>> /\ shift' = <<>> /\ <<>> \in Seq(Tokens) /\ Len(<<>>) = 0
  BY <1>0, <1>1, EmptySeq DEF Speaks
<1>7. /\ line' = Append(line, b) /\ gap' = 0 /\ up' = up
      /\ line = <<>> => due' = None /\ served' = FALSE /\ heard' = <<>>
      /\ line # <<>> => heard' = heard \o <<>> /\ due' = due /\ served' = served
  BY <1>3, <1>6 DEF HearByte, b
<1>8. /\ line' \in Seq(Tokens) /\ Len(line') = Len(line) + 1 /\ line'[Len(line) + 1] = b
      /\ \A i \in 1..Len(line) : line'[i] = line[i]
      /\ line \in Seq(Tokens) /\ Len(line) \in Nat
  BY <1>0, <1>4, <1>7, AppendProperties, LenProperties DEF TypeOK
<1>9. due' = None /\ ~served'
  <2>1. line # <<>> => due = None /\ ~served
    BY <1>2, <1>0 DEF Silent, Counting
  <2> QED BY <2>1, <1>7
<1>10. Out' = heard' /\ heard' = <<>>
  <2>1. Out = heard /\ heard \in Seq(Tokens)
    BY <1>0, <1>6, NoneLeft DEF Out, TypeOK
  <2>2. line # <<>> => heard = <<>>
    <3>1. line # <<>> => due = None
      BY <1>2, <1>0 DEF Silent, Counting
    <3>2. line # <<>> => ~Answered /\ ~Excepted
      BY <3>1 DEF Answered, Excepted
    <3>3. line # <<>> => Out = <<>>
      BY <3>2, <1>0 DEF Sends
    <3> QED BY <3>3, <2>1
  <2>3. heard' = <<>>
    BY <1>6, <1>7, <2>2, NoneLeft
  <2> QED BY <2>3, <1>1, <1>6, NoneLeft DEF Out
<1>11. TypeOK'
  <2>1. mtime' \in 0..T35
    BY <1>0, <1>1 DEF TypeOK
  <2>2. /\ Len(rxf') <= RxDepth /\ iir' \in {"none", "rx", "tx"} /\ gap' \in 0..T35
        /\ txf' = <<>>
    BY <1>0, <1>1, <1>5, <1>7
  <2>3. sending' \in Seq(Tokens) /\ due' \in Seq(Tokens) /\ heard' \in Seq(Tokens)
        /\ served' \in BOOLEAN /\ up' \in BOOLEAN
    BY <1>0, <1>3, <1>4, <1>6, <1>7, <1>9, <1>10 DEF None, TypeOK
  <2>4. UNCHANGED <<ier, mtie, receiver, sender, queue, pc, isr, loop, await, faults>>
    BY <1>1
  <2> QED BY <1>0, <1>5, <1>6, <1>8, <2>1, <2>2, <2>3, <2>4
          DEF TypeOK, receiver, sender, queue
<1>12. Arrived'
  <2>1. UNCHANGED <<eRcvState, ucRTUBuf, usRcvBufferPos, mtie>>
    BY <1>1 DEF receiver
  <2>2. Len(rxf') = 1 /\ gap' = 0 /\ AtRest' /\ due' = None /\ ~served'
    BY <1>1, <1>5, <1>7, <1>9
  <2>3. CASE Silent
    <3>1. eRcvState' = "IDLE" /\ up' /\ line' = <<b>>
      BY <2>1, <2>3, <1>7 DEF Silent
    <3> QED BY <3>1, <2>2, <1>5 DEF Arrived
  <2>4. CASE Counting /\ gap < T35
    <3>0. gap # T35 /\ mtie'
      BY <2>1, <2>4, <1>0 DEF Counting, TypeOK
    <3>1. CASE eRcvState = "INIT"
      <4>1. eRcvState' = "INIT" /\ ~up'
        BY <2>1, <2>4, <3>0, <3>1, <1>7 DEF Counting
      <4> QED BY <4>1, <2>2, <3>0 DEF Arrived
    <3>2. CASE eRcvState = "RCV"
      <4>1. up /\ usRcvBufferPos >= 1 /\ Kept(0)
        BY <2>4, <3>0, <3>2 DEF Counting
      <4>2. usRcvBufferPos \in Nat
        BY <1>0, Constants DEF TypeOK
      <4>3. Len(line) = usRcvBufferPos /\ \A i \in 1..usRcvBufferPos : line[i] = ucRTUBuf[i]
        BY <4>1, <4>2 DEF Kept
      <4>4. /\ Len(line') = usRcvBufferPos' + 1 /\ line'[usRcvBufferPos' + 1] = rxf'[1]
            /\ \A i \in 1..usRcvBufferPos' : line'[i] = ucRTUBuf'[i]
        BY <4>3, <2>1, <1>5, <1>8
      <4>5. Kept(1)'
        BY <4>4 DEF Kept
      <4>6. eRcvState' = "RCV" /\ up' /\ usRcvBufferPos' >= 1
        BY <4>1, <3>2, <2>1, <1>7
      <4> QED BY <4>4, <4>5, <4>6, <2>2, <3>0 DEF Arrived
    <3>3. CASE eRcvState = "ERROR"
      <4>1. eRcvState' = "ERROR" /\ up' /\ Len(line') > 3
        BY <2>1, <2>4, <3>0, <3>3, <1>7, <1>8 DEF Counting
      <4> QED BY <4>1, <2>2, <3>0 DEF Arrived
    <3> QED BY <2>4, <3>1, <3>2, <3>3 DEF Counting
  <2> QED BY <1>2, <2>3, <2>4
<1>13. Speaks'
  <2>1. line' \o sending' = line \o sending
    BY <1>0, <1>3, <1>7, MovesOn DEF TypeOK, b
  <2>2. up' => Genuine(line \o sending)'
    BY <2>1, <1>0, <1>1, <1>7 DEF Speaks, Genuine
  <2> QED BY <2>2, <1>1, <1>6, <1>9 DEF Speaks
<1>14. Sends'
  BY <1>9, <1>10 DEF Sends, Answered, Excepted
<1> QED BY <1>1, <1>11, <1>12, <1>13, <1>14 DEF IInv, Listens

(* A character of silence: the count goes on, or the observer judges what   *)
(* was on the line.                                                         *)
LEMMA SilenceStep ==
  ASSUME FastCpu, IInv, Tick, AtRest, sending = <<>>
  PROVE  IInv'
<1>0. /\ TypeOK /\ Wires /\ Listens /\ Speaks /\ Works /\ Sends
      /\ T35 \in Nat /\ T35 > 0
  BY Constants DEF IInv
<1>1. /\ AtRest' /\ Wires' /\ Works' /\ iir' = IF rxf' # <<>> THEN "rx" ELSE "none"
      /\ UNCHANGED <<ier, mtie, receiver, sender, queue, pc, isr, loop, await, faults>>
      /\ shift' = txf /\ txf' = <<>>
      /\ mtime' = IF mtie /\ mtime < T35 THEN mtime + 1 ELSE mtime
  BY TickAtRest
<1>2. rxf = <<>> /\ (Silent \/ (Counting /\ gap < T35))
  BY Waiting DEF Tick
<1>3. HearSilence /\ rxf' = <<>> /\ sending' = <<>> /\ iir' = "none"
  BY <1>1, <1>2 DEF Tick
<1>4. UNCHANGED <<eRcvState, ucRTUBuf, usRcvBufferPos, mtie, await>>
  BY <1>1 DEF receiver
<1>5. Out' = Out /\ heard' \in Seq(Tokens)
  <2>1. heard \in Seq(Tokens) /\ shift \in Seq(Tokens) /\ txf \in Seq(Tokens)
    BY <1>0 DEF TypeOK
  <2>2. heard \o shift \in Seq(Tokens) /\ heard \o shift \o txf \in Seq(Tokens)
    BY <2>1, ConcatProperties
  <2> QED BY <2>2, <1>1, <1>3, NoneLeft DEF Out, HearSilence
<1>6. gap \in 0..T35 /\ mtime \in 0..T35 /\ <<>> \in Seq(Tokens) /\ Len(<<>>) = 0
      /\ line \in Seq(Tokens)
  BY <1>0, EmptySeq DEF TypeOK
<1>7. TypeOK'
  <2>1. mtime' \in 0..T35 /\ gap' \in 0..T35
    BY <1>0, <1>1, <1>3, <1>6 DEF HearSilence
  <2>2. line' \in Seq(Tokens) /\ due' \in Seq(Tokens) /\ up' \in BOOLEAN /\ served' \in BOOLEAN
    BY <1>0, <1>3, <1>6 DEF HearSilence, None, TypeOK
  <2>3. rxf' \in Seq(Tokens) /\ Len(rxf') <= RxDepth /\ sending' \in Seq(Tokens)
        /\ txf' \in Seq(Tokens) /\ Len(txf') <= 1 /\ iir' \in {"none", "rx", "tx"}
    BY <1>1, <1>3, <1>6, Constants
  <2> QED BY <1>0, <1>1, <1>5, <2>1, <2>2, <2>3 DEF TypeOK, receiver, sender, queue
(* The end of the silence has been heard before, or is not reached.         *)
<1>8. CASE Silent \/ (Counting /\ gap + 1 < T35)
  <2>1. /\ UNCHANGED <<up, line, due, served>>
        /\ Silent => gap' = gap
        /\ ~Silent => gap' = gap + 1 /\ gap' < T35 /\ gap < T35
    <3>1. CASE Silent
      <4>1. gap = T35 /\ ~(gap < T35)
        BY <3>1, <1>0 DEF Silent
      <4> QED BY <3>1, <4>1, <1>3 DEF HearSilence
    <3>2. CASE ~Silent /\ gap + 1 < T35
      <4>1. gap < T35 /\ gap + 1 # T35
        BY <3>2, <1>0, <1>6
      <4> QED BY <3>2, <4>1, <1>3 DEF HearSilence
    <3> QED BY <1>8, <3>1, <3>2
  <2>2. Listens'
    <3>1. CASE Silent
      <4>1. Silent'
        BY <3>1, <2>1, <1>3, <1>4 DEF Silent
      <4> QED BY <4>1 DEF Listens
    <3>2. CASE ~Silent /\ Counting
      <4>1. /\ mtime' = gap' /\ mtie' /\ ~served' /\ gap' # T35 /\ gap # T35
        BY <3>2, <2>1, <1>0, <1>1, <1>4, <1>6 DEF Counting
      <4>2. Kept(0)' <=> Kept(0)
        BY <1>4, <2>1 DEF Kept
      <4>3. Counting'
        BY <3>2, <4>1, <4>2, <2>1, <1>1, <1>3, <1>4 DEF Counting
      <4> QED BY <4>3 DEF Listens
    <3> QED BY <1>8, <3>1, <3>2
  <2>3. Speaks'
    BY <2>1, <1>0, <1>3, <1>4 DEF Speaks, Genuine
  <2>4. Sends'
    <3>1. (Answered' <=> Answered) /\ (Excepted' <=> Excepted) /\ Answer(due)' = Answer(due)
      BY <2>1 DEF Answered, Excepted
    <3> QED BY <3>1, <2>1, <1>0, <1>1, <1>5 DEF Sends, Begins, sender
  <2> QED BY <2>2, <2>3, <2>4, <1>1, <1>7 DEF IInv
(* The observer judges the frame, and the receiver has it.                  *)
<1>9. CASE Counting /\ gap + 1 = T35
  <2>0. gap < T35 /\ gap # T35
    BY <1>9, <1>0, <1>6
  <2>1. /\ gap' = T35 /\ up' /\ line' = <<>> /\ ~served'
        /\ due' = IF up /\ CrcOk(line) /\ line[1] \in {Me, Broadcast} THEN line ELSE None
    BY <1>9, <2>0, <1>3 DEF HearSilence
  <2>2. mtime' = T35 /\ mtie'
    BY <1>9, <2>0, <1>1, <1>4 DEF Counting
  <2>3. ASSUME eRcvState = "RCV"
        PROVE  Counting'
    <3>1. up /\ usRcvBufferPos >= 1 /\ Kept(0)
      BY <2>0, <2>3, <1>9 DEF Counting
    <3>2. usRcvBufferPos \in Nat
      BY <1>0, Constants DEF TypeOK
    <3>3. Len(line) = usRcvBufferPos /\ \A i \in 1..usRcvBufferPos : line[i] = ucRTUBuf[i]
      BY <3>1, <3>2 DEF Kept
    <3>4. usRcvBufferPos = 3 =>
            /\ line[1] = ucRTUBuf[1] /\ line[2] = ucRTUBuf[2] /\ line[3] = ucRTUBuf[3]
            /\ line # <<>>
      BY <3>3, <1>6
    <3>5. CrcOk(line) <=> usRcvBufferPos = 3 /\ ucRTUBuf[3] = ucRTUBuf[1] \o ucRTUBuf[2]
      BY <3>3, <3>4 DEF CrcOk
    <3>6. Judged'
      BY <3>1, <3>4, <3>5, <2>1, <1>4 DEF Judged, None
    <3>7. eRcvState' = "RCV" /\ usRcvBufferPos' >= 1
      BY <2>3, <3>1, <1>4
    <3> QED BY <3>6, <3>7, <2>1, <2>2, <1>1, <1>3 DEF Counting
  <2>4. ASSUME eRcvState = "ERROR"
        PROVE  Counting'
    <3>1. Len(line) > 3 /\ Len(line) \in Nat
      BY <2>0, <2>4, <1>6, <1>9, LenProperties DEF Counting
    <3>2. Len(line) # 3
      <4>1. \A n \in Nat : n > 3 => n # 3
        OBVIOUS
      <4> QED BY <3>1, <4>1
    <3>3. due' = None /\ eRcvState' = "ERROR"
      BY <3>2, <2>1, <2>4, <1>4 DEF CrcOk
    <3> QED BY <3>3, <2>1, <2>2, <1>1, <1>3 DEF Counting
  <2>5. Counting'
    <3>1. CASE eRcvState = "INIT"
      <4>1. due' = None /\ eRcvState' = "INIT"
        BY <2>0, <2>1, <3>1, <1>4, <1>9 DEF Counting
      <4> QED BY <4>1, <2>1, <2>2, <1>1, <1>3 DEF Counting
    <3> QED BY <1>9, <2>3, <2>4, <3>1 DEF Counting
  <2>6. Speaks'
    <3>1. ~CrcOk(line' \o sending')
      <4>1. line' \o sending' = <<>>
        BY <2>1, <1>3, <1>6, NoneLeft
      <4> QED BY <4>1, <1>6 DEF CrcOk
    <3>2. due' # None => up /\ CrcOk(line) /\ line[1] \in {Me, Broadcast} /\ due' = line
      BY <2>1
    <3>3. line \o sending = line
      BY <1>6, NoneLeft
    <3>4. due' # None => due'[2] \in Requests /\ (due'[1] = Me => await')
      BY <3>2, <3>3, <1>0, <1>4 DEF Speaks, Genuine
    <3> QED BY <3>1, <3>2, <3>4, <1>3 DEF Speaks, Genuine
  <2>7. Sends'
    <3>1. due = None
      BY <2>0, <1>9 DEF Counting
    <3>2. Out' = <<>>
      BY <3>1, <1>0, <1>5 DEF Sends, Answered, Excepted
    <3>3. Answered' => Len(Answer(due)') \in Nat
      <4>1. Answered' => due' \in Seq(Tokens) /\ CrcOk(due') /\ due'[1] = Me
        BY <2>6, <1>7 DEF Answered, Speaks, TypeOK
      <4>2. Answered' => Len(Answer(due')) = 3
        BY <4>1, AnswerIs
      <4> QED BY <4>2
    <3>4. Answered' => Begins(Out, Answer(due))'
      BY <3>2, <3>3, <1>6 DEF Begins
    <3>5. eSndState' = "IDLE"
      BY <1>1 DEF AtRest
    <3> QED BY <3>2, <3>4, <3>5 DEF Sends
  <2> QED BY <2>5, <2>6, <2>7, <1>1, <1>7 DEF IInv, Listens
<1>10. gap + 1 < T35 \/ gap + 1 = T35 \/ ~(gap < T35)
  BY <1>0, <1>6
<1> QED BY <1>2, <1>8, <1>9, <1>10

LEMMA StutterStep ==
  ASSUME IInv, UNCHANGED vars
  PROVE  IInv'
<1>1. /\ UNCHANGED <<ier, iir, rxf, txf, shift, mtime, mtie, eRcvState, ucRTUBuf>>
      /\ UNCHANGED <<usRcvBufferPos, eSndState, pucSndBufferCur, usSndBufferCount>>
      /\ UNCHANGED <<xEventInQueue, eQueuedEvent, pc, isr, loop>>
      /\ UNCHANGED <<sending, gap, await, line, up, due, served, heard, faults>>
  BY DEF vars, uart, timer, receiver, sender, queue, master
<1>2. TypeOK' /\ Wires'
  BY <1>1 DEF IInv, TypeOK, Wires
<1>3. (Judged' <=> Judged) /\ (Kept(0)' <=> Kept(0)) /\ (Kept(1)' <=> Kept(1))
      /\ (AtRest' <=> AtRest) /\ (Chosen' <=> Chosen) /\ (Built' <=> Built)
      /\ (Replying' <=> Replying) /\ (Answered' <=> Answered) /\ (Excepted' <=> Excepted)
      /\ Out' = Out /\ Answer(due)' = Answer(due)
  BY <1>1 DEF Judged, Kept, AtRest, Chosen, Built, Replying, Answered, Excepted, Out, Answer
<1>4. Listens'
  BY <1>1, <1>3 DEF IInv, Listens, Silent, Counting, Arrived
<1>5. Speaks'
  BY <1>1, <1>3 DEF IInv, Speaks, Genuine
<1>6. Works'
  BY <1>1, <1>3 DEF IInv, Works
<1>7. Sends'
  BY <1>1, <1>3 DEF IInv, Sends, Begins
<1> QED BY <1>2, <1>4, <1>5, <1>6, <1>7 DEF IInv

-----------------------------------------------------------------------------
(* The theorems                                                             *)

(* The invariant of the slave, its UART and its timer, the line and the     *)
(* master, from which the properties of the runs follow.                    *)
THEOREM Together ==
  ASSUME FastCpu, Prompt
  PROVE  Spec => []IInv
<1>1. Init => IInv
  BY Initially
<1>2. IInv /\ [Next]_vars => IInv'
  <2> SUFFICES ASSUME IInv, [Next]_vars PROVE IInv'
    OBVIOUS
  <2>1. CASE Interrupt
    BY <2>1, RxStep, TxStep, TxGoesOnStep, TimerStep DEF Interrupt
  <2>2. CASE eMBPoll
    BY <2>2, LoopStep
  <2>3. CASE StartFrame
    BY <2>3, StartStep
  <2>4. CASE Tick
    <3>1. CASE ~AtRest
      BY <2>4, <3>1, TickSending
    <3>2. CASE AtRest
      BY <2>4, <3>2, ByteStep, SilenceStep
    <3> QED BY <3>1, <3>2
  <2>5. CASE UNCHANGED vars
    BY <2>5, StutterStep
  <2> QED BY <2>1, <2>2, <2>3, <2>4, <2>5 DEF Next
<1> QED BY <1>1, <1>2, PTL DEF Spec

(* The types and bounds hold and the receiver is never left deaf: its timer *)
(* runs outside the idle state, and receive interrupts are off only while a *)
(* reply goes out (ModbusInv; mbrtu.c, porttimer.c, portserial.c).          *)
THEOREM NeverLeftDeaf ==
  ASSUME FastCpu, Prompt
  PROVE  Spec => []ModbusInv
<1>1. IInv => ModbusInv
  BY DEF IInv, Wires, Listens, Silent, Counting, Arrived, ModbusInv, NeverDeaf
<1> QED BY <1>1, Together, PTL

(* The bytes of a reply are on the line once, whole and in order, although  *)
(* the loop and the interrupt send them together, and nothing else is       *)
(* (ReplyIntact; eMBRTUSend, xMBRTUTransmitFSM).                            *)
THEOREM RepliesIntact ==
  ASSUME FastCpu, Prompt
  PROVE  Spec => []ReplyIntact
<1>1. ASSUME IInv PROVE ReplyIntact
  <2>1. /\ heard \in Seq(Tokens) /\ shift \in Seq(Tokens) /\ txf \in Seq(Tokens)
        /\ due \in Seq(Tokens) /\ Speaks /\ Sends
    BY <1>1 DEF IInv, TypeOK
  <2>2. /\ Len(heard) \in Nat /\ Len(Out) >= Len(heard) /\ Len(Out) \in Nat
        /\ \A i \in 1..Len(heard) : Out[i] = heard[i]
    <3>1. heard \o shift \in Seq(Tokens) /\ Len(heard \o shift) = Len(heard) + Len(shift)
          /\ \A i \in 1..Len(heard) : (heard \o shift)[i] = heard[i]
      BY <2>1, ConcatProperties, LenProperties
    <3>2. Len(heard) \in Nat /\ Len(shift) \in Nat /\ Len(txf) \in Nat
      BY <2>1, LenProperties
    <3> DEFINE hs == heard \o shift
    <3> HIDE DEF hs
    <3>3. hs \in Seq(Tokens) /\ Len(hs \o txf) = Len(hs) + Len(txf) /\ Len(hs) \in Nat
          /\ \A i \in 1..Len(hs) : (hs \o txf)[i] = hs[i]
      <4>1. hs \in Seq(Tokens)
        BY <3>1 DEF hs
      <4> QED BY <4>1, <2>1, <3>2, ConcatProperties, LenProperties
    <3>4. Out = hs \o txf /\ Len(hs) = Len(heard) + Len(shift)
          /\ \A i \in 1..Len(heard) : hs[i] = heard[i]
      BY <3>1 DEF Out, hs
    <3> QED BY <3>2, <3>3, <3>4
  <2>3. ASSUME Answered PROVE Prefix(heard, Answer(due))
    <3> DEFINE t == Answer(due)
    <3>1. t \in Seq(Tokens)
      BY <2>1, <2>3, AnswerIs DEF Speaks, Answered
    <3>2. Len(Out) <= Len(t) /\ \A i \in 1..Len(Out) : Out[i] = t[i]
      BY <2>1, <2>3 DEF Sends, Begins
    <3> HIDE DEF t
    <3>3. Len(t) \in Nat
      BY <3>1, LenProperties
    <3>4. Len(heard) <= Len(t) /\ \A i \in 1..Len(heard) : heard[i] = t[i]
      BY <2>2, <3>2, <3>3
    <3>5. heard = SubSeq(t, 1, Len(heard))
      <4> DEFINE n == Len(heard)
                 u == SubSeq(t, 1, n)
      <4>1. 1 \in Int /\ n \in Int /\ \A k \in 1..n : t[k] \in Tokens
        BY <2>2, <3>1, <3>3, <3>4, ElementOfSeq
      <4>2. /\ u \in Seq(Tokens) /\ Len(u) = IF 1 <= n THEN n - 1 + 1 ELSE 0
            /\ \A k \in 1..n - 1 + 1 : u[k] = t[1 + k - 1]
        BY <4>1, SubSeqProperties
      <4>3. n \in Nat /\ heard \in Seq(Tokens) /\ n = Len(heard)
        BY <2>1, <2>2
      <4> HIDE DEF n, u
      <4>4. Len(u) = n /\ \A k \in 1..n : u[k] = t[k]
        <5>1. Len(u) = n
          BY <4>2, <4>3
        <5>2. ASSUME NEW k \in 1..n PROVE u[k] = t[k]
          <6>1. k \in 1..n - 1 + 1 /\ 1 + k - 1 = k
            BY <4>3
          <6> QED BY <6>1, <4>2
        <5> QED BY <5>1, <5>2
      <4>5. \A k \in 1..n : heard[k] = t[k]
        BY <3>4, <4>3
      <4>6. heard = u
        BY <4>2, <4>3, <4>4, <4>5, SeqEqual
      <4> QED BY <4>6 DEF n, u
    <3> QED BY <3>4, <3>5 DEF Prefix, t
  <2>4. ~Answered /\ ~Excepted => heard = <<>>
    BY <2>1, AllEmpty DEF Sends, Out
  <2> QED BY <2>3, <2>4 DEF ReplyIntact
<1> QED BY <1>1, Together, PTL

(* A function is executed for a request that came over the line whole, once *)
(* and with what the request says (ServesWhatWasSent; eMBPoll).             *)
THEOREM ServedAsSent ==
  ASSUME FastCpu, Prompt
  PROVE  Spec => ServesWhatWasSent
<1>1. IInv /\ [Next]_vars =>
        [pc = "execute" /\ pc' # "execute" =>
           due # None /\ ~served /\ ucRTUBuf[2] = due[2] /\ loop.address = due[1]]_vars
  BY DEF IInv, Works, Chosen
<1> QED BY <1>1, Together, PTL DEF Spec, ServesWhatWasSent

=============================================================================
