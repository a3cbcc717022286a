------------------------- MODULE SerialMidi_proofs -------------------------
(***************************************************************************)
(* Proofs about SerialMidi: for all sets of messages, the MIDI port keeps  *)
(* its promise to a program that omits the status byte before messages     *)
(* with one data byte only.                                                *)
(***************************************************************************)
EXTENDS SerialMidi, TLAPS

\* The bytes of the item that the receiver has: all but the stop bit of the
\* last may be missing.
Received == IF pos = 9 THEN at + 1 ELSE at

\* The decoder still knows the status byte that need not be repeated.
Remembers ==
  \A s \in Status : running = <<s>> /\ NData(s) = 1 =>
    mp.sb = s /\ mp.ms \in {"statusb", "datab1"}

\* The decoder in the middle of a message with a status byte.
Decoding(m) ==
  /\ Received = 0 => due = <<m>>
  /\ Received = 1 => due = <<m>> /\ mp.sb = m.sb /\ mp.ms = "datab1"
  /\ Received = 2 /\ NData(m.sb) = 1 =>
       due = <<>> /\ mp.sb = m.sb /\ mp.ms = "datab1"
  /\ Received = 2 /\ NData(m.sb) = 2 =>
       due = <<m>> /\ mp.sb = m.sb /\ mp.db1 = m.db1 /\ mp.ms = "datab2"
  /\ Received = 3 => due = <<>>

Nothing == item = <<>> /\ due = <<>> /\ Remembers
InMessage ==
  \E m \in Message :
    item = AllBytes(m) /\ running = <<m.sb>> /\ Decoding(m)
InRunning ==
  \E m \in Message :
    /\ NData(m.sb) = 1 /\ running = <<m.sb>> /\ item = <<m.db1>>
    /\ Remembers
    /\ due = IF Received = 0 THEN <<m>> ELSE <<>>
InSysex ==
  \E v \in Data :
    /\ item = <<SysexStart, v, SysexEnd>> /\ running = <<>> /\ due = <<>>
    /\ Received \in 1 .. 2 => mp.ms = "sysexb"
InRealTime == item = <<TimingClock>> /\ due = <<>> /\ Remembers

\* Where decoder and program are in the item.
Follows == Nothing \/ InMessage \/ InRunning \/ InSysex \/ InRealTime

\* A byte that was cut off is over when the ones have been written.
LineClears ==
  /\ owed > 0 => item = <<>> /\ running = <<>>
  /\ rs.state = "sending" => rs.bit_no < 8
  /\ rs.state = "sending" /\ owed > 0 => owed + rs.bit_no >= 8

Framed == Done => pos = 0

IInv == TypeOK /\ Aligned /\ LineClears /\ Framed /\ Follows

-----------------------------------------------------------------------------
(* Bytes and messages.                                                      *)

\* The bytes of the system items are status bytes of the system kind, and only
\* the first begins an exclusive message (midi.h:44).
LEMMA SystemBytes ==
  /\ SysexStart \in Byte /\ SysexEnd \in Byte /\ TimingClock \in Byte
  /\ ZeroByte \in Byte
  /\ IsSystem(SysexStart) /\ IsSystem(SysexEnd) /\ IsSystem(TimingClock)
  /\ SysexEnd # SysexStart /\ TimingClock # SysexStart
<1>1. SysexStart \in Byte /\ SysexEnd \in Byte /\ TimingClock \in Byte /\ ZeroByte \in Byte
  BY DEF SysexStart, SysexEnd, TimingClock, ZeroByte, Byte, Bit
<1>2. /\ IsSystem(SysexStart) /\ IsSystem(SysexEnd) /\ IsSystem(TimingClock)
  BY DEF SysexStart, SysexEnd, TimingClock, IsSystem, IsStatus
<1>3. SysexEnd[0] # SysexStart[0] /\ TimingClock[3] # SysexStart[3]
  BY DEF SysexStart, SysexEnd, TimingClock
<1>4. SysexEnd # SysexStart /\ TimingClock # SysexStart
  BY <1>3
<1>. QED BY <1>1, <1>2, <1>4

\* What a message that is sent consists of.
LEMMA MessageParts ==
  ASSUME NEW m \in Message
  PROVE  /\ m.sb \in Status /\ m.sb \in Byte /\ IsStatus(m.sb) /\ ~IsSystem(m.sb)
         /\ m.db1 \in Data /\ m.db1 \in Byte /\ ~IsStatus(m.db1)
         /\ NData(m.sb) \in {1, 2}
         /\ NData(m.sb) = 1 => m = Msg(m.sb, m.db1, ZeroByte)
         /\ NData(m.sb) = 2 => /\ m = Msg(m.sb, m.db1, m.db2)
                              /\ m.db2 \in Data /\ m.db2 \in Byte /\ ~IsStatus(m.db2)
         /\ m \in AnyMessage
<1>1. CASE \E sb \in {s \in Status : NData(s) = 1}, db1 \in Data :
             m = Msg(sb, db1, ZeroByte)
  <2>1. PICK sb \in Status, db1 \in Data : NData(sb) = 1 /\ m = Msg(sb, db1, ZeroByte)
    BY <1>1
  <2>2. m.sb = sb /\ m.db1 = db1 /\ m.db2 = ZeroByte
    BY <2>1 DEF Msg
  <2>. QED BY <2>1, <2>2, SerialAssumption, SystemBytes DEF Msg, AnyMessage
<1>2. CASE \E sb \in {s \in Status : NData(s) = 2}, db1 \in Data, db2 \in Data :
             m = Msg(sb, db1, db2)
  <2>1. PICK sb \in Status, db1 \in Data, db2 \in Data :
               NData(sb) = 2 /\ m = Msg(sb, db1, db2)
    BY <1>2
  <2>2. m.sb = sb /\ m.db1 = db1 /\ m.db2 = db2
    BY <2>1 DEF Msg
  <2>. QED BY <2>1, <2>2, SerialAssumption DEF Msg, AnyMessage
<1>. QED BY <1>1, <1>2 DEF Message

\* The bytes of an item that begins are bytes.
LEMMA ItemBytes ==
  /\ \A m \in Message : AllBytes(m) \in Seq(Byte) /\ DataBytes(m) \in Seq(Byte)
  /\ \A v \in Data : <<SysexStart, v, SysexEnd>> \in Seq(Byte)
  /\ <<TimingClock>> \in Seq(Byte)
<1>1. ASSUME NEW m \in Message
      PROVE  AllBytes(m) \in Seq(Byte) /\ DataBytes(m) \in Seq(Byte)
  BY MessageParts DEF AllBytes, DataBytes
<1>2. ASSUME NEW v \in Data PROVE <<SysexStart, v, SysexEnd>> \in Seq(Byte)
  BY SystemBytes, SerialAssumption
<1>. QED BY <1>1, <1>2, SystemBytes

\* The receiver keeps its type, and shifts bytes into bytes.
LEMMA ReceiverType ==
  ASSUME NEW r \in Receiver, NEW b \in Bit, r.state = "sending" => r.bit_no < 8
  PROVE  /\ Rs232Write(r, b) \in Receiver
         /\ Rs232Write(r, b).state = "sending" => Rs232Write(r, b).bit_no < 8
<1>1. r.state \in {"idle", "sending"} /\ r.bit_no \in 0 .. 8 /\ r.buf \in Byte
  BY DEF Receiver
<1>2. Shift(r.buf, b) \in Byte
  BY <1>1 DEF Shift, Byte
<1>3. CASE r.state = "idle" /\ b = 0
  BY <1>3, SystemBytes DEF Rs232Write, Receiver
<1>4. CASE r.state = "idle" /\ b # 0
  BY <1>4 DEF Rs232Write, Receiver
<1>5. CASE r.state = "sending"
  <2>1. Rs232Write(r, b) =
          [state |-> IF r.bit_no + 1 >= 8 THEN "idle" ELSE "sending",
           bit_no |-> r.bit_no + 1, buf |-> Shift(r.buf, b)]
    BY <1>5 DEF Rs232Write
  <2>2. r.bit_no + 1 \in 0 .. 8
    BY <1>1, <1>5
  <2>. QED BY <1>2, <2>1, <2>2 DEF Receiver
<1>. QED BY <1>1, <1>3, <1>4, <1>5

\* The decoder keeps its type, and what it decodes is a message of bytes.
LEMMA DecoderType ==
  ASSUME NEW d \in Decoder, NEW v \in Byte
  PROVE  MidiWrite(d, v) \in Decoder /\ Decoded(d, v) \in Seq(AnyMessage)
<1>1. d.ms \in {"statusb", "datab1", "datab2", "sysexb"} /\ d.sb \in Byte /\ d.db1 \in Byte
  BY DEF Decoder
<1>2. MidiStatus(d, v) \in Decoder
  BY <1>1 DEF MidiStatus, Decoder
<1>3. MidiData(d, v) \in Decoder
  BY <1>1 DEF MidiData, Decoder
<1>4. Msg(d.sb, d.db1, v) \in AnyMessage /\ Msg(d.sb, v, ZeroByte) \in AnyMessage
  BY <1>1, SystemBytes DEF Msg, AnyMessage
<1>5. Decoded(d, v) \in Seq(AnyMessage)
  BY <1>1, <1>4 DEF Decoded
<1>. QED BY <1>2, <1>3, <1>5 DEF MidiWrite

-----------------------------------------------------------------------------
(* The steps of the program but for the bits.                               *)

LEMMA InitInvariant == Init => IInv
<1>. SUFFICES ASSUME Init PROVE IInv
  OBVIOUS
<1>1. rs \in Receiver
  BY SystemBytes DEF Init, Receiver
<1>2. mp \in Decoder
  BY SystemBytes DEF Init, Decoder
<1>3. TypeOK
  BY <1>1, <1>2, SerialAssumption DEF Init, TypeOK
<1>4. Follows
  BY DEF Init, Follows, Nothing, Remembers
<1>. QED
  BY <1>3, <1>4 DEF Init, IInv, Aligned, LineClears, Framed, Done

\* When an item is done its message has been decoded, and the receiver waits.
LEMMA DoneFacts ==
  ASSUME IInv, Done
  PROVE  due = <<>> /\ Remembers /\ pos = 0 /\ (owed = 0 => rs.state = "idle")
<1>1. pos = 0 /\ Received = Len(item)
  BY DEF IInv, Framed, Done, Received
<1>2. owed = 0 => rs.state = "idle"
  BY <1>1 DEF IInv, Aligned
<1>3. CASE Nothing
  BY <1>1, <1>2, <1>3 DEF Nothing
<1>4. CASE InMessage
  <2>1. PICK m \in Message :
               item = AllBytes(m) /\ running = <<m.sb>> /\ Decoding(m)
    BY <1>4 DEF InMessage
  <2>2. \/ NData(m.sb) = 1 /\ Len(item) = 2
        \/ NData(m.sb) = 2 /\ Len(item) = 3
    BY <2>1, MessageParts DEF AllBytes
  <2>. QED BY <1>1, <1>2, <2>1, <2>2 DEF Decoding, Remembers
<1>5. CASE InRunning
  BY <1>1, <1>2, <1>5 DEF InRunning
<1>6. CASE InSysex
  BY <1>1, <1>2, <1>6 DEF InSysex, Remembers
<1>7. CASE InRealTime
  BY <1>1, <1>2, <1>7 DEF InRealTime
<1>. QED BY <1>3, <1>4, <1>5, <1>6, <1>7 DEF IInv, Follows

\* An item that begins leaves the receiver aligned.
LEMMA BeginStep ==
  ASSUME IInv, NEW bytes \in Seq(Byte), Begin(bytes)
  PROVE  /\ Aligned' /\ LineClears' /\ Framed'
         /\ due = <<>> /\ Remembers
         /\ rs' = rs /\ mp' = mp /\ Received' = 0 /\ owed' = 0 /\ item' = bytes
         /\ (due' \in {<<>>} \cup {<<m>> : m \in Message}
              /\ running' \in {<<>>} \cup {<<s>> : s \in Status} => TypeOK')
<1>1. /\ Done /\ owed = 0 /\ item' = bytes /\ at' = 0 /\ pos' = 0 /\ got' = <<>>
      /\ UNCHANGED <<cur_reg, ay_on, rs, mp, owed, epoch>>
  BY DEF Begin, code
<1>2. due = <<>> /\ Remembers /\ rs.state = "idle"
  BY <1>1, DoneFacts
<1>3. Aligned' /\ LineClears' /\ Framed' /\ Received' = 0
  BY <1>1, <1>2 DEF Aligned, LineClears, Framed, Received
<1>4. (due' \in {<<>>} \cup {<<m>> : m \in Message}
        /\ running' \in {<<>>} \cup {<<s>> : s \in Status} => TypeOK')
  BY <1>1 DEF IInv, TypeOK
<1>. QED BY <1>1, <1>2, <1>3, <1>4

LEMMA SendMessageStep == IInv /\ SendMessage => IInv'
<1>. SUFFICES ASSUME IInv, SendMessage PROVE IInv'
  OBVIOUS
<1>1. PICK m \in Message :
             Begin(AllBytes(m)) /\ running' = <<m.sb>> /\ due' = <<m>>
  BY DEF SendMessage
<1>2. AllBytes(m) \in Seq(Byte) /\ m.sb \in Status
  BY ItemBytes, MessageParts
<1>3. /\ Aligned' /\ LineClears' /\ Framed' /\ TypeOK'
      /\ Received' = 0 /\ item' = AllBytes(m)
  BY <1>1, <1>2, BeginStep
<1>4. InMessage'
  BY <1>1, <1>3 DEF InMessage, Decoding
<1>. QED BY <1>3, <1>4 DEF IInv, Follows

LEMMA SendRunningStep ==
  ASSUME RunningCounts \subseteq {1}
  PROVE  IInv /\ SendRunning => IInv'
<1>. SUFFICES ASSUME IInv, SendRunning PROVE IInv'
  OBVIOUS
<1>1. PICK m \in Message :
             /\ running = <<m.sb>> /\ NData(m.sb) \in RunningCounts
             /\ Begin(DataBytes(m)) /\ due' = <<m>> /\ UNCHANGED running
  BY DEF SendRunning
<1>2. NData(m.sb) = 1 /\ DataBytes(m) = <<m.db1>>
  BY <1>1 DEF DataBytes
<1>3. DataBytes(m) \in Seq(Byte) /\ m.sb \in Status
  BY ItemBytes, MessageParts
<1>4. /\ Aligned' /\ LineClears' /\ Framed' /\ TypeOK'
      /\ Received' = 0 /\ item' = <<m.db1>> /\ Remembers /\ mp' = mp
  BY <1>1, <1>2, <1>3, BeginStep
<1>5. InRunning'
  BY <1>1, <1>2, <1>4 DEF InRunning, Remembers
<1>. QED BY <1>4, <1>5 DEF IInv, Follows

LEMMA SendSystemStep == IInv /\ (SendSysex \/ SendRealTime) => IInv'
<1>1. ASSUME IInv, SendSysex PROVE IInv'
  <2>1. PICK v \in Data : /\ Begin(<<SysexStart, v, SysexEnd>>)
                          /\ running' = <<>> /\ UNCHANGED due
    BY <1>1 DEF SendSysex
  <2>2. <<SysexStart, v, SysexEnd>> \in Seq(Byte)
    BY ItemBytes
  <2>3. /\ Aligned' /\ LineClears' /\ Framed' /\ TypeOK' /\ due' = <<>>
        /\ Received' = 0 /\ item' = <<SysexStart, v, SysexEnd>>
    BY <1>1, <2>1, <2>2, BeginStep
  <2>4. InSysex'
    BY <2>1, <2>3 DEF InSysex
  <2>. QED BY <2>3, <2>4 DEF IInv, Follows
<1>2. ASSUME IInv, SendRealTime PROVE IInv'
  <2>1. Begin(<<TimingClock>>) /\ UNCHANGED <<running, due>>
    BY <1>2 DEF SendRealTime
  <2>2. /\ Aligned' /\ LineClears' /\ Framed' /\ due' = <<>> /\ Remembers
        /\ mp' = mp /\ item' = <<TimingClock>>
    BY <1>2, <2>1, ItemBytes, BeginStep
  <2>3. TypeOK'
    <3>1. due' \in {<<>>} \cup {<<m>> : m \in Message}
      BY <2>2
    <3>2. running' \in {<<>>} \cup {<<s>> : s \in Status}
      BY <1>2, <2>1 DEF IInv, TypeOK
    <3>. QED BY <1>2, <2>1, <3>1, <3>2, ItemBytes, BeginStep
  <2>4. InRealTime'
    BY <2>1, <2>2 DEF InRealTime, Remembers
  <2>. QED BY <2>2, <2>3, <2>4 DEF IInv, Follows
<1>. QED BY <1>1, <1>2

LEMMA AsideStep ==
  ASSUME IInv, (\E regn \in RegSelect : Select(regn)) \/ WriteSound
  PROVE  IInv' /\ due' = due /\ got' = <<>> /\ epoch' = epoch
<1>1. /\ cur_reg' \in 0 .. 15 /\ got' = <<>>
      /\ UNCHANGED <<ay_on, rs, mp, item, at, pos, running, owed, due, epoch>>
  <2>1. ASSUME NEW regn \in RegSelect, Select(regn)
        PROVE  /\ cur_reg' \in 0 .. 15 /\ got' = <<>>
               /\ UNCHANGED <<ay_on, rs, mp, item, at, pos, running, owed, due, epoch>>
    BY <2>1, SerialAssumption DEF Select, program
  <2>2. ASSUME WriteSound
        PROVE  /\ cur_reg' \in 0 .. 15 /\ got' = <<>>
               /\ UNCHANGED <<ay_on, rs, mp, item, at, pos, running, owed, due, epoch>>
    BY <2>2 DEF IInv, TypeOK, WriteSound, code, program
  <2>. QED BY <2>1, <2>2
<1>2. TypeOK'
  BY <1>1 DEF IInv, TypeOK
<1>3. Aligned' /\ LineClears' /\ Framed'
  BY <1>1 DEF IInv, Aligned, LineClears, Framed, Done
<1>4. Received' = Received /\ (Remembers => Remembers')
  BY <1>1 DEF Received, Remembers
<1>5. Follows'
  <2>1. Nothing => Nothing'
    BY <1>1, <1>4 DEF Nothing
  <2>2. InMessage => InMessage'
    BY <1>1, <1>4 DEF InMessage, Decoding
  <2>3. InRunning => InRunning'
    BY <1>1, <1>4 DEF InRunning
  <2>4. InSysex => InSysex'
    BY <1>1, <1>4 DEF InSysex
  <2>5. InRealTime => InRealTime'
    BY <1>1, <1>4 DEF InRealTime
  <2>. QED BY <2>1, <2>2, <2>3, <2>4, <2>5 DEF IInv, Follows
<1>. QED BY <1>1, <1>2, <1>3, <1>5 DEF IInv

-----------------------------------------------------------------------------
(* Bits.                                                                    *)

\* What a bit does to receiver and decoder, as far as types are concerned.
LEMMA PortType ==
  ASSUME IInv, NEW b \in Bit, IoPortWrite(b)
  PROVE  /\ rs' = Rs232Write(rs, b) /\ rs' \in Receiver
         /\ rs'.state = "sending" => rs'.bit_no < 8
         /\ mp' \in Decoder /\ got' \in Seq(AnyMessage)
         /\ ~CompletesByte(rs) => mp' = mp /\ got' = <<>>
<1>1. rs' = Rs232Write(rs, b)
  BY DEF IoPortWrite
<1>2. rs' \in Receiver /\ (rs'.state = "sending" => rs'.bit_no < 8)
  BY <1>1, ReceiverType DEF IInv, TypeOK, LineClears
<1>3. rs'.buf \in Byte /\ mp \in Decoder
  BY <1>2 DEF Receiver, IInv, TypeOK
<1>4. mp' \in Decoder /\ got' \in Seq(AnyMessage)
  <2>1. CASE CompletesByte(rs)
    <3>1. mp' = MidiWrite(mp, rs'.buf) /\ got' = Decoded(mp, rs'.buf)
      BY <2>1 DEF IoPortWrite
    <3>. QED BY <1>3, <3>1, DecoderType
  <2>2. CASE ~CompletesByte(rs)
    BY <1>3, <2>2 DEF IoPortWrite
  <2>. QED BY <2>1, <2>2
<1>. QED BY <1>1, <1>2, <1>4 DEF IoPortWrite

\* A receiver that is sending: the bit is shifted in.
LEMMA ReceivesBit ==
  ASSUME IInv, NEW b \in Bit, IoPortWrite(b), rs.state = "sending"
  PROVE  /\ rs'.bit_no = rs.bit_no + 1
         /\ rs'.state = IF rs.bit_no = 7 THEN "idle" ELSE "sending"
         /\ CompletesByte(rs) <=> rs.bit_no = 7
         /\ rs'.buf[7] = b /\ \A i \in 0 .. 6 : rs'.buf[i] = rs.buf[i + 1]
         /\ rs.bit_no \in 0 .. 7
<1>1. rs' = [state |-> IF rs.bit_no + 1 >= 8 THEN "idle" ELSE "sending",
             bit_no |-> rs.bit_no + 1, buf |-> Shift(rs.buf, b)]
  BY DEF IoPortWrite, Rs232Write
<1>2. rs.bit_no \in 0 .. 7
  BY DEF IInv, TypeOK, Receiver, LineClears
<1>3. rs'.buf[7] = b /\ \A i \in 0 .. 6 : rs'.buf[i] = rs.buf[i + 1]
  BY <1>1 DEF Shift
<1>. QED BY <1>1, <1>2, <1>3 DEF CompletesByte

\* Ones between two items, or before the first.
LEMMA WriteIdleStep ==
  ASSUME IInv, WriteIdle
  PROVE  IInv' /\ due' = due /\ got' = <<>> /\ epoch' = epoch
<1>1. /\ Done /\ IoPortWrite(1) /\ owed' = IF owed = 0 THEN 0 ELSE owed - 1
      /\ due' = IF got' = <<>> THEN due ELSE <<>>
      /\ UNCHANGED <<cur_reg, ay_on, epoch, item, at, pos, running>>
  BY DEF WriteIdle, OutBit
<1>2. due = <<>> /\ Remembers /\ pos = 0 /\ (owed = 0 => rs.state = "idle")
  BY <1>1, DoneFacts
<1>3. 1 \in Bit
  BY DEF Bit
<1>4. rs' \in Receiver /\ mp' \in Decoder
  BY <1>1, <1>3, PortType
<1>5. owed \in 0 .. MinIdle /\ owed' \in 0 .. MinIdle
  BY <1>1, SerialAssumption DEF IInv, TypeOK
<1>6. got' = <<>> /\ due' = due
  <2>1. CASE CompletesByte(rs)
    <3>1. rs.state = "sending"
      BY <2>1 DEF CompletesByte
    <3>2. IsStatus(rs'.buf)
      BY <1>1, <1>3, <3>1, ReceivesBit DEF IsStatus
    <3>. QED BY <1>1, <2>1, <3>2 DEF IoPortWrite, Decoded
  <2>2. CASE ~CompletesByte(rs)
    BY <1>1, <1>3, <2>2, PortType
  <2>. QED BY <2>1, <2>2, <1>1
<1>7. TypeOK'
  BY <1>1, <1>4, <1>5, <1>6 DEF IInv, TypeOK
<1>8. CASE rs.state = "idle"
  <2>1. rs' = rs /\ ~CompletesByte(rs)
    BY <1>1, <1>8 DEF IoPortWrite, Rs232Write, CompletesByte
  <2>2. mp' = mp
    BY <1>1, <1>3, <2>1, PortType
  <2>3. Aligned' /\ LineClears' /\ Framed'
    BY <1>1, <1>2, <1>5, <1>8, <2>1 DEF IInv, Aligned, LineClears, Framed, Done
  <2>4. Received' = Received /\ Remembers'
    BY <1>1, <1>2, <2>2 DEF Received, Remembers
  <2>5. Follows'
    <3>1. Nothing => Nothing'
      BY <1>1, <1>6, <2>4 DEF Nothing
    <3>2. InMessage => InMessage'
      BY <1>1, <1>6, <2>2, <2>4 DEF InMessage, Decoding
    <3>3. InRunning => InRunning'
      BY <1>1, <1>6, <2>4 DEF InRunning
    <3>4. InSysex => InSysex'
      BY <1>1, <1>6, <2>2, <2>4 DEF InSysex
    <3>5. InRealTime => InRealTime'
      BY <1>1, <1>6, <2>4 DEF InRealTime
    <3>. QED BY <3>1, <3>2, <3>3, <3>4, <3>5 DEF IInv, Follows
  <2>. QED BY <1>1, <1>6, <1>7, <2>3, <2>5 DEF IInv
<1>9. CASE rs.state = "sending"
  <2>1. owed > 0 /\ item = <<>> /\ running = <<>> /\ owed' = owed - 1
    BY <1>1, <1>2, <1>5, <1>9 DEF IInv, LineClears
  <2>2. /\ rs'.bit_no = rs.bit_no + 1 /\ rs.bit_no \in 0 .. 7
        /\ rs'.state = IF rs.bit_no = 7 THEN "idle" ELSE "sending"
    BY <1>1, <1>3, <1>9, ReceivesBit
  <2>3. owed + rs.bit_no >= 8
    BY <1>9, <2>1 DEF IInv, LineClears
  <2>4. LineClears'
    BY <1>1, <1>5, <2>1, <2>2, <2>3 DEF LineClears
  <2>5. Aligned' /\ Framed'
    BY <1>1, <1>2, <1>5, <2>1, <2>2, <2>3 DEF Aligned, Framed, Done
  <2>6. Nothing'
    BY <1>1, <1>2, <1>6, <2>1 DEF Nothing, Remembers
  <2>. QED BY <1>1, <1>6, <1>7, <2>4, <2>5, <2>6 DEF IInv, Follows
<1>. QED BY <1>8, <1>9 DEF IInv, TypeOK, Receiver

\* What cuts the program off.
LEMMA CutStep ==
  ASSUME IInv,
         Reset \/ SwitchAy \/ \E regn \in RegSelect, b \in Bit : LoadZ80(regn, b)
  PROVE  IInv' /\ due' = <<>> /\ epoch' = epoch + 1 /\ got' \in Seq(AnyMessage)
<1>1. Abandon
  BY DEF Reset, SwitchAy, LoadZ80
<1>2. /\ cur_reg' \in 0 .. 15 /\ ay_on' \in BOOLEAN
      /\ rs' \in Receiver /\ mp' \in Decoder /\ got' \in Seq(AnyMessage)
      /\ rs'.state = "sending" => rs'.bit_no < 8
  <2>1. CASE Reset \/ SwitchAy
    <3>1. rs' = rs /\ mp' = mp /\ cur_reg' = cur_reg /\ got' = <<>>
      BY <2>1 DEF Reset, SwitchAy, code
    <3>2. ay_on' = ay_on \/ ay_on' = ~ay_on
      BY <2>1 DEF Reset, SwitchAy, code
    <3>3. ay_on' \in BOOLEAN
      BY <3>2, Zenon DEF IInv, TypeOK
    <3>. QED BY <3>1, <3>3 DEF IInv, TypeOK, LineClears
  <2>2. ASSUME NEW regn \in RegSelect, NEW b \in Bit, LoadZ80(regn, b)
        PROVE  /\ cur_reg' \in 0 .. 15 /\ ay_on' \in BOOLEAN
               /\ rs' \in Receiver /\ mp' \in Decoder /\ got' \in Seq(AnyMessage)
               /\ rs'.state = "sending" => rs'.bit_no < 8
    <3>1. cur_reg' \in 0 .. 15 /\ ay_on' = ay_on
      BY <2>2, SerialAssumption DEF LoadZ80
    <3>2. IoPortWrite(b)
      BY <2>2 DEF LoadZ80
    <3>. QED BY <3>1, <3>2, PortType DEF IInv, TypeOK
  <2>. QED BY <2>1, <2>2
<1>3. /\ item' = <<>> /\ at' = 0 /\ pos' = 0 /\ running' = <<>> /\ owed' = MinIdle
      /\ due' = <<>> /\ epoch' = epoch + 1 /\ epoch < MaxCuts
  BY <1>1 DEF Abandon, NoItem
<1>4. TypeOK'
  BY <1>2, <1>3, SerialAssumption DEF IInv, TypeOK
<1>5. Aligned' /\ Framed'
  BY <1>3, SerialAssumption DEF Aligned, Framed, Done
<1>6. rs'.bit_no \in 0 .. 8
  BY <1>2 DEF Receiver
<1>7. LineClears'
  BY <1>2, <1>3, <1>6, SerialAssumption DEF LineClears
<1>8. Nothing'
  BY <1>3 DEF Nothing, Remembers
<1>. QED BY <1>2, <1>3, <1>4, <1>5, <1>7, <1>8 DEF IInv, Follows

\* A bit of an item: with the eighth data bit, and only then, the decoder is
\* given a byte, and it is the byte that was sent.
LEMMA FrameStep ==
  ASSUME IInv, WriteBit
  PROVE  /\ Aligned' /\ LineClears' /\ Framed' /\ TypeOK'
         /\ at \in 0 .. Len(item) - 1 /\ item[at + 1] \in Byte
         /\ item' = item /\ running' = running /\ epoch' = epoch
         /\ due' = IF got' = <<>> THEN due ELSE <<>>
         /\ pos # 8 => mp' = mp /\ got' = <<>> /\ Received' = Received
         /\ pos = 8 => /\ mp' = MidiWrite(mp, item[at + 1])
                       /\ got' = Decoded(mp, item[at + 1])
                       /\ Received = at /\ Received' = at + 1
<1> DEFINE byte == item[at + 1]
           b == CASE pos = 0 -> 0 [] pos \in 1 .. 8 -> byte[pos - 1] [] OTHER -> 1
<1>1. /\ ~Done /\ IoPortWrite(b) /\ due' = IF got' = <<>> THEN due ELSE <<>>
      /\ UNCHANGED <<cur_reg, ay_on, epoch, item, running, owed>>
      /\ at' = IF pos = 9 THEN at + 1 ELSE at
      /\ pos' = IF pos = 9 THEN 0 ELSE pos + 1
  BY DEF WriteBit, OutBit
<1>2. at \in 0 .. Len(item) - 1 /\ byte \in Byte /\ pos \in 0 .. 9 /\ Len(item) \in Nat
  BY <1>1 DEF IInv, TypeOK, Done
<1>3. owed = 0
  <2>1. item # <<>>
    BY <1>2
  <2>. QED BY <2>1 DEF IInv, LineClears, TypeOK
<1>4. b \in Bit
  BY <1>2 DEF Byte, Bit
<1>5. pos \notin 1 .. 8 => rs.state = "idle"
  BY <1>1, <1>3 DEF IInv, Aligned
<1>6. pos \in 1 .. 8 => /\ rs.state = "sending" /\ rs.bit_no = pos - 1
                        /\ \A i \in 0 .. pos - 2 : rs.buf[9 - pos + i] = byte[i]
  BY <1>1, <1>3 DEF IInv, Aligned
<1> HIDE DEF b
<1>7. /\ rs' \in Receiver /\ mp' \in Decoder /\ got' \in Seq(AnyMessage)
      /\ rs'.state = "sending" => rs'.bit_no < 8
      /\ ~CompletesByte(rs) => mp' = mp /\ got' = <<>>
  BY <1>1, <1>4, PortType
<1>8. TypeOK'
  <2>1. at' \in 0 .. Len(item') /\ pos' \in 0 .. 9
    BY <1>1, <1>2
  <2>2. due' \in {<<>>} \cup {<<m>> : m \in Message}
    BY <1>1 DEF IInv, TypeOK
  <2>3. /\ cur_reg' \in 0 .. 15 /\ ay_on' \in BOOLEAN /\ item' \in Seq(Byte)
        /\ running' \in {<<>>} \cup {<<s>> : s \in Status}
        /\ owed' \in 0 .. MinIdle /\ epoch' \in 0 .. MaxCuts
    BY <1>1 DEF IInv, TypeOK
  <2>. QED BY <1>7, <2>1, <2>2, <2>3 DEF TypeOK
<1>9. LineClears' /\ Framed'
  BY <1>1, <1>2, <1>3, <1>7 DEF LineClears, Framed, Done
<1>10. CASE pos = 0
  <2>1. b = 0
    BY <1>10 DEF b
  <2>2. rs' = [state |-> "sending", bit_no |-> 0, buf |-> ZeroByte] /\ ~CompletesByte(rs)
    BY <1>1, <1>5, <1>10, <2>1 DEF IoPortWrite, Rs232Write, CompletesByte
  <2>3. Aligned'
    BY <1>1, <1>2, <1>10, <2>2 DEF Aligned, Done
  <2>. QED BY <1>1, <1>2, <1>7, <1>8, <1>9, <1>10, <2>2, <2>3 DEF Received
<1>11. CASE pos \in 1 .. 7
  <2>1. /\ rs'.state = "sending" /\ rs'.bit_no = pos /\ ~CompletesByte(rs)
        /\ rs'.buf[7] = b /\ \A i \in 0 .. 6 : rs'.buf[i] = rs.buf[i + 1]
    BY <1>1, <1>4, <1>6, <1>11, ReceivesBit
  <2>2. b = byte[pos - 1]
    BY <1>11 DEF b
  <2>3. \A i \in 0 .. pos - 1 : rs'.buf[8 - pos + i] = byte[i]
    <3>1. TAKE i \in 0 .. pos - 1
    <3>2. CASE i = pos - 1
      BY <1>11, <2>1, <2>2, <3>2
    <3>3. CASE i \in 0 .. pos - 2
      <4>1. 8 - pos + i \in 0 .. 6 /\ (8 - pos + i) + 1 = 9 - pos + i
        BY <1>11, <3>3
      <4>2. rs'.buf[8 - pos + i] = rs.buf[(8 - pos + i) + 1]
        BY <2>1, <4>1
      <4>. QED BY <1>6, <1>11, <3>3, <4>1, <4>2
    <3>. QED BY <1>11, <3>2, <3>3
  <2>4. Aligned'
    <3>1. pos' = pos + 1 /\ at' = at /\ item' = item
      BY <1>1, <1>11
    <3>2. \A i \in 0 .. pos' - 2 : rs'.buf[9 - pos' + i] = item'[at' + 1][i]
      <4>1. TAKE i \in 0 .. pos' - 2
      <4>2. i \in 0 .. pos - 1 /\ 9 - pos' + i = 8 - pos + i
        BY <1>11, <3>1
      <4>. QED BY <2>3, <3>1, <4>2
    <3>3. rs'.bit_no = pos' - 1
      BY <1>11, <2>1, <3>1
    <3>. QED BY <1>1, <1>11, <2>1, <3>1, <3>2, <3>3 DEF Aligned, Done
  <2>. QED BY <1>1, <1>2, <1>7, <1>8, <1>9, <1>11, <2>1, <2>4 DEF Received
<1>12. CASE pos = 8
  <2>1. /\ rs'.state = "idle" /\ CompletesByte(rs)
        /\ rs'.buf[7] = b /\ \A i \in 0 .. 6 : rs'.buf[i] = rs.buf[i + 1]
    BY <1>1, <1>4, <1>6, <1>12, ReceivesBit
  <2>2. b = byte[7]
    BY <1>12 DEF b
  <2>3. \A i \in 0 .. 6 : rs.buf[i + 1] = byte[i]
    BY <1>6, <1>12
  <2>4. rs'.buf = byte
    <3>1. rs'.buf \in Byte
      BY <1>7 DEF Receiver
    <3>2. \A i \in 0 .. 7 : rs'.buf[i] = byte[i]
      BY <2>1, <2>2, <2>3
    <3>. QED BY <1>2, <3>1, <3>2 DEF Byte
  <2>5. mp' = MidiWrite(mp, byte) /\ got' = Decoded(mp, byte)
    BY <1>1, <2>1, <2>4 DEF IoPortWrite
  <2>6. Aligned'
    BY <1>1, <1>12, <2>1 DEF Aligned
  <2>. QED BY <1>1, <1>2, <1>8, <1>9, <1>12, <2>5, <2>6 DEF Received
<1>13. CASE pos = 9
  <2>1. b = 1
    BY <1>13 DEF b
  <2>2. rs' = rs /\ ~CompletesByte(rs)
    BY <1>1, <1>5, <1>13, <2>1 DEF IoPortWrite, Rs232Write, CompletesByte
  <2>3. Aligned'
    BY <1>1, <1>5, <1>13, <2>2 DEF Aligned
  <2>. QED BY <1>1, <1>2, <1>7, <1>8, <1>9, <1>13, <2>2, <2>3 DEF Received
<1>. QED BY <1>2, <1>10, <1>11, <1>12, <1>13

\* A byte that the decoder is given: the decoder stays where the program is,
\* and a message that becomes complete is the one that is due.
LEMMA DecodeStep ==
  ASSUME IInv, WriteBit, pos = 8
  PROVE  Follows' /\ (got' = <<>> \/ (got' = due /\ due # <<>>))
<1> DEFINE v == item[at + 1]
<1>1. /\ at \in 0 .. Len(item) - 1 /\ v \in Byte
      /\ item' = item /\ running' = running
      /\ due' = IF got' = <<>> THEN due ELSE <<>>
      /\ mp' = MidiWrite(mp, v) /\ got' = Decoded(mp, v)
      /\ Received = at /\ Received' = at + 1
  BY FrameStep
<1>2. mp \in Decoder
  BY DEF IInv, TypeOK
<1>3. IsStatus(v) => mp' = MidiStatus(mp, v) /\ got' = <<>>
  BY <1>1 DEF MidiWrite, Decoded
<1>4. ~IsStatus(v) => mp' = MidiData(mp, v)
  BY <1>1 DEF MidiWrite
<1>5. CASE Nothing
  BY <1>1, <1>5 DEF Nothing
<1>6. CASE InMessage
  <2>1. PICK m \in Message :
               item = AllBytes(m) /\ running = <<m.sb>> /\ Decoding(m)
    BY <1>6 DEF InMessage
  <2>2. NData(m.sb) \in {1, 2} /\ IsStatus(m.sb) /\ ~IsSystem(m.sb) /\ ~IsStatus(m.db1)
    BY MessageParts
  <2>3. CASE at = 0
    <3>1. v = m.sb
      BY <2>1, <2>3 DEF AllBytes
    <3>2. mp' = [mp EXCEPT !.sb = m.sb, !.ms = "datab1"] /\ got' = <<>> /\ due = <<m>>
      BY <1>1, <1>3, <2>1, <2>2, <2>3, <3>1 DEF MidiStatus, Decoding
    <3>3. mp'.sb = m.sb /\ mp'.ms = "datab1"
      BY <1>2, <3>2 DEF Decoder
    <3>4. Decoding(m)'
      BY <1>1, <2>3, <3>2, <3>3 DEF Decoding
    <3>. QED BY <1>1, <2>1, <3>2, <3>4 DEF InMessage, Follows
  <2>4. CASE at = 1 /\ NData(m.sb) = 1
    <3>1. v = m.db1 /\ mp.sb = m.sb /\ mp.ms = "datab1" /\ due = <<m>>
      BY <1>1, <2>1, <2>4 DEF AllBytes, Decoding
    <3>2. mp' = [mp EXCEPT !.ms = "datab1"] /\ got' = <<Msg(m.sb, m.db1, ZeroByte)>>
      BY <1>1, <1>4, <2>2, <2>4, <3>1 DEF MidiData, Decoded
    <3>3. got' = <<m>>
      BY <2>4, <3>2, MessageParts
    <3>4. mp'.sb = m.sb /\ mp'.ms = "datab1"
      BY <1>2, <3>1, <3>2 DEF Decoder
    <3>5. Decoding(m)'
      BY <1>1, <2>4, <3>3, <3>4 DEF Decoding
    <3>. QED BY <1>1, <2>1, <3>1, <3>3, <3>5 DEF InMessage, Follows
  <2>5. CASE at = 1 /\ NData(m.sb) = 2
    <3>1. v = m.db1 /\ mp.sb = m.sb /\ mp.ms = "datab1" /\ due = <<m>>
      BY <1>1, <2>1, <2>5 DEF AllBytes, Decoding
    <3>2. mp' = [mp EXCEPT !.db1 = m.db1, !.ms = "datab2"] /\ got' = <<>>
      BY <1>1, <1>4, <2>2, <2>5, <3>1 DEF MidiData, Decoded
    <3>3. mp'.sb = m.sb /\ mp'.db1 = m.db1 /\ mp'.ms = "datab2"
      BY <1>2, <3>1, <3>2 DEF Decoder
    <3>4. Decoding(m)'
      BY <1>1, <2>5, <3>1, <3>2, <3>3 DEF Decoding
    <3>. QED BY <1>1, <2>1, <3>2, <3>4 DEF InMessage, Follows
  <2>6. CASE at = 2 /\ NData(m.sb) = 2
    <3>1. /\ v = m.db2 /\ ~IsStatus(m.db2) /\ m = Msg(m.sb, m.db1, m.db2)
          /\ mp.sb = m.sb /\ mp.db1 = m.db1 /\ mp.ms = "datab2" /\ due = <<m>>
      BY <1>1, <2>1, <2>6, MessageParts DEF AllBytes, Decoding
    <3>2. got' = <<m>>
      BY <1>1, <3>1 DEF Decoded
    <3>3. Received' = 3 /\ due' = <<>>
      BY <1>1, <2>6, <3>2
    <3>4. Decoding(m)'
      BY <3>3 DEF Decoding
    <3>. QED BY <1>1, <2>1, <3>1, <3>2, <3>4 DEF InMessage, Follows
  <2>. QED BY <1>1, <2>1, <2>2, <2>3, <2>4, <2>5, <2>6 DEF AllBytes
<1>7. CASE InRunning
  <2>1. PICK m \in Message :
               /\ NData(m.sb) = 1 /\ running = <<m.sb>> /\ item = <<m.db1>> /\ Remembers
               /\ due = IF Received = 0 THEN <<m>> ELSE <<>>
    BY <1>7 DEF InRunning
  <2>2. at = 0 /\ v = m.db1 /\ due = <<m>>
    BY <1>1, <2>1
  <2>3. mp.sb = m.sb /\ mp.ms \in {"statusb", "datab1"} /\ ~IsStatus(m.db1)
    BY <2>1, MessageParts DEF Remembers
  <2>4. mp' = [mp EXCEPT !.ms = "datab1"] /\ got' = <<Msg(m.sb, m.db1, ZeroByte)>>
    BY <1>1, <1>4, <2>1, <2>2, <2>3 DEF MidiData, Decoded
  <2>5. got' = <<m>>
    BY <2>1, <2>4, MessageParts
  <2>6. mp'.sb = m.sb /\ mp'.ms = "datab1"
    BY <1>2, <2>3, <2>4 DEF Decoder
  <2>7. Remembers'
    BY <1>1, <2>1, <2>6 DEF Remembers
  <2>. QED BY <1>1, <2>1, <2>2, <2>5, <2>7 DEF InRunning, Follows
<1>8. CASE InSysex
  <2>1. PICK d \in Data :
               /\ item = <<SysexStart, d, SysexEnd>> /\ running = <<>> /\ due = <<>>
               /\ Received \in 1 .. 2 => mp.ms = "sysexb"
    BY <1>8 DEF InSysex
  <2>2. CASE at = 0
    <3>1. mp' = [mp EXCEPT !.ms = "sysexb"] /\ got' = <<>>
      BY <1>3, <2>1, <2>2, SystemBytes DEF MidiStatus, IsSystem
    <3>2. mp'.ms = "sysexb"
      BY <1>2, <3>1 DEF Decoder
    <3>. QED BY <1>1, <2>1, <3>1, <3>2 DEF InSysex, Follows
  <2>3. CASE at = 1
    <3>1. v = d /\ ~IsStatus(d) /\ mp.ms = "sysexb"
      BY <1>1, <2>1, <2>3, SerialAssumption
    <3>2. mp' = mp /\ got' = <<>>
      BY <1>1, <1>4, <3>1 DEF MidiData, Decoded
    <3>. QED BY <1>1, <2>1, <3>1, <3>2 DEF InSysex, Follows
  <2>4. CASE at = 2
    <3>1. got' = <<>>
      BY <1>3, <2>1, <2>4, SystemBytes DEF IsSystem
    <3>2. Received' = 3
      BY <1>1, <2>4
    <3>. QED BY <1>1, <2>1, <3>1, <3>2 DEF InSysex, Follows
  <2>. QED BY <1>1, <2>1, <2>2, <2>3, <2>4
<1>9. CASE InRealTime
  <2>1. at = 0 /\ v = TimingClock /\ due = <<>> /\ Remembers
    BY <1>1, <1>9 DEF InRealTime
  <2>2. mp' = [mp EXCEPT !.ms = "statusb"] /\ got' = <<>>
    BY <1>3, <2>1, SystemBytes DEF MidiStatus, IsSystem
  <2>3. mp'.sb = mp.sb /\ mp'.ms = "statusb"
    BY <1>2, <2>2 DEF Decoder
  <2>4. Remembers'
    BY <1>1, <2>1, <2>3 DEF Remembers
  <2>. QED BY <1>1, <1>9, <2>2, <2>4 DEF InRealTime, Follows
<1>. QED BY <1>5, <1>6, <1>7, <1>8, <1>9 DEF IInv, Follows

\* A bit of an item.
LEMMA WriteBitStep ==
  ASSUME IInv, WriteBit
  PROVE  /\ IInv' /\ epoch' = epoch
         /\ \/ got' = <<>> /\ due' = due
            \/ got' = due /\ due # <<>> /\ due' = <<>>
<1>1. /\ Aligned' /\ LineClears' /\ Framed' /\ TypeOK' /\ epoch' = epoch
      /\ item' = item /\ running' = running
      /\ due' = IF got' = <<>> THEN due ELSE <<>>
      /\ pos # 8 => mp' = mp /\ got' = <<>> /\ Received' = Received
  BY FrameStep
<1>2. CASE pos = 8
  BY <1>1, <1>2, DecodeStep DEF IInv
<1>3. CASE pos # 8
  <2>1. Remembers => Remembers'
    BY <1>1, <1>3 DEF Remembers
  <2>2. Nothing => Nothing'
    BY <1>1, <1>3, <2>1 DEF Nothing
  <2>3. InMessage => InMessage'
    BY <1>1, <1>3 DEF InMessage, Decoding
  <2>4. InRunning => InRunning'
    BY <1>1, <1>3, <2>1 DEF InRunning
  <2>5. InSysex => InSysex'
    BY <1>1, <1>3 DEF InSysex
  <2>6. InRealTime => InRealTime'
    BY <1>1, <1>3, <2>1 DEF InRealTime
  <2>. QED BY <1>1, <1>3, <2>2, <2>3, <2>4, <2>5, <2>6 DEF IInv, Follows
<1>. QED BY <1>2, <1>3

-----------------------------------------------------------------------------
(* The theorems.                                                            *)

\* Every step keeps the inductive invariant.
LEMMA StepInvariant ==
  ASSUME RunningCounts \subseteq {1}
  PROVE  IInv /\ [Next]_vars => IInv'
<1>. SUFFICES ASSUME IInv, [Next]_vars PROVE IInv'
  OBVIOUS
<1>1. CASE SendMessage
  BY <1>1, SendMessageStep
<1>2. CASE SendRunning
  BY <1>2, SendRunningStep
<1>3. CASE SendSysex \/ SendRealTime
  BY <1>3, SendSystemStep
<1>4. CASE WriteBit
  BY <1>4, WriteBitStep
<1>5. CASE WriteIdle
  BY <1>5, WriteIdleStep
<1>6. CASE (\E regn \in RegSelect : Select(regn)) \/ WriteSound
  BY <1>6, AsideStep
<1>7. CASE Reset \/ SwitchAy \/ \E regn \in RegSelect, b \in Bit : LoadZ80(regn, b)
  BY <1>7, CutStep
<1>8. CASE UNCHANGED vars
  BY <1>8 DEF vars, IInv, TypeOK, Aligned, LineClears, Framed, Follows, Nothing,
     InMessage, InRunning, InSysex, InRealTime, Decoding, Remembers, Received, Done
<1>. QED BY <1>1, <1>2, <1>3, <1>4, <1>5, <1>6, <1>7, <1>8 DEF Next

\* The decoder follows the program (midi.c, rs232.c) in every state.
THEOREM Inductive ==
  ASSUME RunningCounts \subseteq {1}
  PROVE  Spec => []IInv
<1>1. Init => IInv
  BY InitInvariant
<1>2. IInv /\ [Next]_vars => IInv'
  BY StepInvariant
<1>. QED BY <1>1, <1>2, PTL DEF Spec

\* Types: the bit counter of rs232.c and the state of midi.c stay in range.
THEOREM TypeCorrect ==
  ASSUME RunningCounts \subseteq {1}
  PROVE  Spec => []TypeOK
<1>1. IInv => TypeOK
  BY DEF IInv
<1>. QED BY <1>1, Inductive, PTL

\* The receiver of rs232.c counts the bits that the program counts.
THEOREM AlignedCorrect ==
  ASSUME RunningCounts \subseteq {1}
  PROVE  Spec => []Aligned
<1>1. IInv => Aligned
  BY DEF IInv
<1>. QED BY <1>1, Inductive, PTL

\* The emulator implements the MIDI link: every message is decoded, unchanged
\* and once, before the next one is sent.
THEOREM DeliversCorrect ==
  ASSUME RunningCounts \subseteq {1}
  PROVE  Spec => Delivers
<1>1. Init => Link!Init
  BY DEF Init, Link!Init
<1>2. IInv /\ [Next]_vars => [Link!Next]_(Link!vars)
  <2>. SUFFICES ASSUME IInv, [Next]_vars PROVE [Link!Next]_(Link!vars)
    OBVIOUS
  <2>1. ASSUME NEW m \in Message, NEW bytes \in Seq(Byte), Begin(bytes), due' = <<m>>
        PROVE  Link!Ask
    <3>1. due = <<>>
      BY <2>1, BeginStep
    <3>2. got' = <<>> /\ epoch' = epoch
      BY <2>1 DEF Begin
    <3>. QED BY <2>1, <3>1, <3>2 DEF Link!Ask
  <2>2. CASE SendMessage
    BY <2>1, <2>2, ItemBytes DEF SendMessage, Link!Next
  <2>3. CASE SendRunning
    BY <2>1, <2>3, ItemBytes DEF SendRunning, Link!Next
  <2>4. CASE SendSysex \/ SendRealTime
    BY <2>4 DEF SendSysex, SendRealTime, Begin, Link!Quiet, Link!Next
  <2>5. CASE WriteBit
    BY <2>5, WriteBitStep DEF Link!Deliver, Link!Quiet, Link!Next
  <2>6. CASE WriteIdle
    BY <2>6, WriteIdleStep DEF Link!Quiet, Link!Next
  <2>7. CASE (\E regn \in RegSelect : Select(regn)) \/ WriteSound
    BY <2>7, AsideStep DEF Link!Quiet, Link!Next
  <2>8. CASE Reset \/ SwitchAy \/ \E regn \in RegSelect, b \in Bit : LoadZ80(regn, b)
    BY <2>8, CutStep DEF Link!Cut, Link!Next
  <2>9. CASE UNCHANGED vars
    BY <2>9 DEF vars, Link!vars
  <2>. QED BY <2>2, <2>3, <2>4, <2>5, <2>6, <2>7, <2>8, <2>9 DEF Next
<1>. QED BY <1>1, <1>2, Inductive, PTL DEF Spec, Delivers, Link!Spec
=============================================================================
