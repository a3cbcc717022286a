---------------------------- MODULE SerialMidi ----------------------------
(***************************************************************************)
(* The MIDI output of the 128K: the I/O port of the AY (ay.c), the serial  *)
(* receiver that reads one of its bits (rs232.c) and the decoder of MIDI   *)
(* messages (midi.c), called one by the other.                             *)
(*                                                                         *)
(* A byte is a function from bit numbers to bits.  The receiver does not   *)
(* know the time: a bit is a write to register 14.  The program of the     *)
(* Z80 is the environment: it sends items - channel messages with or       *)
(* without a status byte, system exclusive and real-time bytes - bit by    *)
(* bit, and may use the other registers of the AY between two bits, as an  *)
(* interrupt routine does that plays music.                                *)
(***************************************************************************)
EXTENDS Integers, Sequences

Bit == 0 .. 1
Byte == [0 .. 7 -> Bit]

CONSTANTS Status,         \* the status bytes of the messages the program sends
          Data,           \* their data bytes
          RegSelect,      \* values it writes to the register select port
          RunningCounts,  \* it omits a repeated status byte before so many data bytes
          MinIdle,        \* ones a program writes before its first item
          MaxCuts         \* bound on the times a program is cut off

\* The high nibble, which is the type of a message.
Type(v) == v[4] + 2 * v[5] + 4 * v[6] + 8 * v[7]
IsStatus(v) == v[7] = 1
IsSystem(v) == IsStatus(v) /\ v[6] = 1 /\ v[5] = 1 /\ v[4] = 1

ASSUME SerialAssumption ==
  /\ Status \subseteq {v \in Byte : IsStatus(v) /\ ~IsSystem(v)}
  /\ Data \subseteq {v \in Byte : ~IsStatus(v)}
  /\ RegSelect \subseteq 0 .. 255
  /\ RunningCounts \subseteq {1, 2}
  /\ MinIdle \in Nat /\ MinIdle >= 8
  /\ MaxCuts \in Nat

IoA == 14                                        \* ay_rn_io_a
ZeroByte == [i \in 0 .. 7 |-> 0]
SysexStart == [i \in 0 .. 7 |-> IF i < 4 THEN 0 ELSE 1]   \* 0xF0
SysexEnd == [i \in 0 .. 7 |-> IF i = 3 THEN 0 ELSE 1]     \* 0xF7
TimingClock == [i \in 0 .. 7 |-> IF i < 3 THEN 0 ELSE 1]  \* 0xF8

\* midi_msg_ndata_bytes()
NData(sb) == CASE Type(sb) \in {8, 9, 10, 11, 14} -> 2
               [] Type(sb) \in {12, 13} -> 1
               [] OTHER -> 0

Msg(sb, db1, db2) == [sb |-> sb, db1 |-> db1, db2 |-> db2]
AnyMessage == [sb : Byte, db1 : Byte, db2 : Byte]
\* The messages that are sent; the second byte of the short ones is 0.
Message ==
  {Msg(sb, db1, ZeroByte) : sb \in {s \in Status : NData(s) = 1}, db1 \in Data}
  \cup {Msg(sb, db1, db2) : sb \in {s \in Status : NData(s) = 2},
                            db1 \in Data, db2 \in Data}

-----------------------------------------------------------------------------
(* The receiver and the decoder.                                            *)

Receiver == [state : {"idle", "sending"}, bit_no : 0 .. 8, buf : Byte]
Decoder ==
  [ms : {"statusb", "datab1", "datab2", "sysexb"}, sb : Byte, db1 : Byte]

Shift_MsbFirst(buf, b) == [i \in 0 .. 7 |-> IF i = 0 THEN b ELSE buf[i - 1]]

Shift(buf, b) == [i \in 0 .. 7 |-> IF i = 7 THEN b ELSE buf[i + 1]]

\* Mutants: the bit counter is not reset, the first bit is the highest.
Rs232Write_KeepsCount(r, b) ==
  IF r.state = "idle"
  THEN IF b = 0 THEN [r EXCEPT !.state = "sending"] ELSE r
  ELSE [state |-> IF r.bit_no + 1 >= 8 THEN "idle" ELSE "sending",
        bit_no |-> r.bit_no + 1, buf |-> Shift(r.buf, b)]

\* rs232_write(): the receiver after a bit.
Rs232Write(r, b) ==
  IF r.state = "idle"
  THEN IF b = 0 THEN [state |-> "sending", bit_no |-> 0, buf |-> ZeroByte] ELSE r
  ELSE [state |-> IF r.bit_no + 1 >= 8 THEN "idle" ELSE "sending",
        bit_no |-> r.bit_no + 1, buf |-> Shift(r.buf, b)]

\* The bit is the last of a byte: sendchar is called with the buffer.
CompletesByte(r) == r.state = "sending" /\ r.bit_no + 1 >= 8

\* Mutant: a system byte is kept as the status byte to be repeated.
MidiStatus_StoresSystem(d, v) ==
  [d EXCEPT !.sb = v,
            !.ms = CASE ~IsSystem(v) -> "datab1" [] v = SysexStart -> "sysexb"
                     [] OTHER -> "statusb"]

\* midi_port_write() of a status byte: the states that await data give up.
MidiStatus(d, v) ==
  IF IsSystem(v)
  THEN [d EXCEPT !.ms = IF v = SysexStart THEN "sysexb" ELSE "statusb"]
  ELSE [d EXCEPT !.sb = v, !.ms = "datab1"]

\* ... of a data byte.  The decoder stays in datab2 behind a message.
MidiData(d, v) ==
  CASE d.ms \in {"datab2", "sysexb"} -> d
    [] d.ms \in {"statusb", "datab1"} /\ NData(d.sb) > 1 ->
         [d EXCEPT !.db1 = v, !.ms = "datab2"]
    [] OTHER -> [d EXCEPT !.ms = "datab1"]

MidiWrite(d, v) == IF IsStatus(v) THEN MidiStatus(d, v) ELSE MidiData(d, v)

\* The message that the byte makes complete.
Decoded(d, v) ==
  CASE IsStatus(v) \/ d.ms = "sysexb" -> <<>>
    [] ~IsStatus(v) /\ d.ms = "datab2" -> <<Msg(d.sb, d.db1, v)>>
    [] OTHER -> IF NData(d.sb) > 1 THEN <<>> ELSE <<Msg(d.sb, v, ZeroByte)>>

-----------------------------------------------------------------------------
(* The state.                                                               *)

VARIABLES cur_reg,      \* the register of the AY that is selected
          ay_on,        \* ay0_enable
          rs,           \* the receiver
          mp,           \* the decoder
          item,         \* the bytes the program is sending
          at,           \* how many of them it has sent
          pos,          \* how many bits of the frame of the next
          running,      \* the status byte that need not be repeated, or <<>>
          owed,         \* ones to write before the first item
          due, got, epoch   \* as in MidiLink

code == <<cur_reg, ay_on, rs, mp>>
program == <<item, at, pos, running, owed>>
vars == <<cur_reg, ay_on, rs, mp, item, at, pos, running, owed, due, got, epoch>>

Init ==
  /\ cur_reg = 0 /\ ay_on = TRUE
  /\ rs = [state |-> "idle", bit_no |-> 0, buf |-> ZeroByte]
  /\ mp = [ms |-> "statusb", sb |-> ZeroByte, db1 |-> ZeroByte]
  /\ item = <<>> /\ at = 0 /\ pos = 0 /\ running = <<>> /\ owed = 0
  /\ due = <<>> /\ got = <<>> /\ epoch = 0

\* A bit arrives at the I/O port: gzx_ay_ioport_write() and all it calls.
IoPortWrite(b) ==
  /\ rs' = Rs232Write(rs, b)
  /\ IF CompletesByte(rs)
     THEN mp' = MidiWrite(mp, rs'.buf) /\ got' = Decoded(mp, rs'.buf)
     ELSE UNCHANGED mp /\ got' = <<>>

\* A bit that the program writes, to ay_reg_write() with register 14 selected.
OutBit(b) ==
  /\ ay_on /\ cur_reg = IoA
  /\ IoPortWrite(b)
  /\ due' = IF got' = <<>> THEN due ELSE <<>>
  /\ UNCHANGED <<cur_reg, ay_on, epoch>>

Done == at = Len(item)

NoItem == item' = <<>> /\ at' = 0 /\ pos' = 0

-----------------------------------------------------------------------------
(* The program.                                                             *)

Begin(bytes) == 
  /\ Done /\ owed = 0 /\ ay_on
  /\ item' = bytes /\ at' = 0 /\ pos' = 0
  /\ got' = <<>>
  /\ UNCHANGED <<code, owed, epoch>>

DataBytes(m) == IF NData(m.sb) = 1 THEN <<m.db1>> ELSE <<m.db1, m.db2>>
AllBytes(m) ==
  IF NData(m.sb) = 1 THEN <<m.sb, m.db1>> ELSE <<m.sb, m.db1, m.db2>>

SendMessage ==
  \E m \in Message :
    /\ Begin(AllBytes(m))
    /\ running' = <<m.sb>>
    /\ due' = <<m>>

\* The status byte is that of the message before.
SendRunning ==
  \E m \in Message :
    /\ running = <<m.sb>> /\ NData(m.sb) \in RunningCounts
    /\ Begin(DataBytes(m))
    /\ due' = <<m>>
    /\ UNCHANGED running

SendSysex ==
  \E v \in Data :
    /\ Begin(<<SysexStart, v, SysexEnd>>)
    /\ running' = <<>>
    /\ UNCHANGED due

SendRealTime ==
  /\ Begin(<<TimingClock>>)
  /\ UNCHANGED <<running, due>>

\* The next bit of the frame: a start bit, eight data bits, a stop bit.
WriteBit ==
  /\ ~Done
  /\ OutBit(CASE pos = 0 -> 0 [] pos \in 1 .. 8 -> item[at + 1][pos - 1] [] OTHER -> 1)
  /\ at' = IF pos = 9 THEN at + 1 ELSE at
  /\ pos' = IF pos = 9 THEN 0 ELSE pos + 1
  /\ UNCHANGED <<item, running, owed>>

\* The line is high between two items.
WriteIdle ==
  /\ Done
  /\ OutBit(1)
  /\ owed' = IF owed = 0 THEN 0 ELSE owed - 1
  /\ UNCHANGED <<item, at, pos, running>>

\* ay_reg_select()
Select(regn) ==
  /\ ay_on
  /\ cur_reg' = regn % 16
  /\ got' = <<>>
  /\ UNCHANGED <<ay_on, rs, mp, program, due, epoch>>

\* ay_reg_write() of another register, or any write while the AY is off.
WriteSound ==
  /\ ~ay_on \/ cur_reg # IoA
  /\ got' = <<>>
  /\ UNCHANGED <<code, program, due, epoch>>

-----------------------------------------------------------------------------
(* What cuts the program off.  It starts anew with an idle line.            *)

Abandon ==
  /\ NoItem
  /\ running' = <<>> /\ owed' = MinIdle
  /\ due' = <<>> /\ epoch < MaxCuts /\ epoch' = epoch + 1

\* zx_reset() resets the AY, but neither the register selected nor the rest;
\* other snapshots touch none of it.
Reset ==
  /\ Abandon
  /\ got' = <<>>
  /\ UNCHANGED code

\* A .z80 snapshot of version 2 writes all registers, the port among them.
LoadZ80(regn, b) ==
  /\ Abandon
  /\ IoPortWrite(b)
  /\ cur_reg' = regn % 16
  /\ UNCHANGED ay_on

\* The hardware menu; writes are ignored while the AY is off.
SwitchAy ==
  /\ Abandon
  /\ ay_on' = ~ay_on
  /\ got' = <<>>
  /\ UNCHANGED <<cur_reg, rs, mp>>

Next ==
  \/ SendMessage \/ SendRunning \/ SendSysex \/ SendRealTime
  \/ WriteBit \/ WriteIdle
  \/ \E regn \in RegSelect : Select(regn)
  \/ WriteSound
  \/ Reset
  \/ \E regn \in RegSelect, b \in Bit : LoadZ80(regn, b)
  \/ SwitchAy

Spec == Init /\ [][Next]_vars

-----------------------------------------------------------------------------
(* Properties.                                                              *)

\* The variables have their types: no bit counter of the receiver runs over
\* (rs232.c:64) and no decoder state is lost (midi.c).
TypeOK ==
  /\ cur_reg \in 0 .. 15 /\ ay_on \in BOOLEAN
  /\ rs \in Receiver /\ mp \in Decoder
  /\ item \in Seq(Byte) /\ at \in 0 .. Len(item) /\ pos \in 0 .. 9
  /\ running \in {<<>>} \cup {<<s>> : s \in Status}
  /\ owed \in 0 .. MinIdle
  /\ due \in {<<>>} \cup {<<m>> : m \in Message}
  /\ got \in Seq(AnyMessage) /\ epoch \in 0 .. MaxCuts

\* The receiver counts the bits that the program counts, whatever was written
\* to other registers meanwhile and however the last program was cut off: it
\* is idle between two frames, and within one it has the bits sent so far.
Aligned ==
  owed = 0 =>
    IF ~Done /\ pos \in 1 .. 8
    THEN /\ rs.state = "sending" /\ rs.bit_no = pos - 1
         /\ \A i \in 0 .. pos - 2 : rs.buf[9 - pos + i] = item[at + 1][i]
    ELSE rs.state = "idle"

Link == INSTANCE MidiLink

\* The emulator keeps the promise of the MIDI port: every message the program
\* sends is decoded, unchanged and once, before the next one, and nothing is
\* decoded that was not sent (rs232.c, midi.c).
Delivers == Link!Spec
=============================================================================
