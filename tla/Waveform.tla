------------------------------ MODULE Waveform ------------------------------
(***************************************************************************)
(* The waveform that a tape stands for, defined from its blocks alone: the  *)
(* reference that the player and the deck are compared with.                *)
(*                                                                          *)
(* A waveform under construction is a record: w is what was heard, event    *)
(* after event, lvl the level now.                                          *)
(***************************************************************************)
EXTENDS TapePlayer

\* A level and how long it lasts, or a signal.
Event == [lvl : Level, len : Nat, sig : Signal]

Wave == [lvl : Level, w : Seq(Event)]

-----------------------------------------------------------------------------
(* One block.                                                               *)

Times(x, n) == [i \in 1 .. n |-> x]

LevelAfter(lvl, n) == IF n % 2 = 0 THEN lvl ELSE 1 - lvl

Hold(wf, lvl, len) ==
  [lvl |-> lvl, w |-> Append(wf.w, [lvl |-> lvl, len |-> len, sig |-> "none"])]

Signalled(wf, s) ==
  [wf EXCEPT !.w = Append(@, [lvl |-> wf.lvl, len |-> 0, sig |-> s])]

\* Pulses, each at the level there is, with an edge behind each.
Edges(lvl, lens) ==
  [i \in 1 .. Len(lens) |->
     [lvl |-> LevelAfter(lvl, i - 1), len |-> lens[i], sig |-> "none"]]

Pulses(wf, lens) ==
  [lvl |-> LevelAfter(wf.lvl, Len(lens)), w |-> wf.w \o Edges(wf.lvl, lens)]

Pilot(wf, len, np, sync1, sync2) ==
  Pulses(Pulses(Pulses(wf, Times(len, np)), <<sync1>>), <<sync2>>)

\* Two pulses for a bit.
BitPulses(bits, one, zero) ==
  [i \in 1 .. 2 * Len(bits) |-> IF bits[(i + 1) \div 2] = 1 THEN one ELSE zero]

\* Bits that are levels.
Samples(wf, bits, dur) ==
  [lvl |-> IF bits = <<>> THEN wf.lvl ELSE bits[Len(bits)],
   w   |-> wf.w \o [i \in 1 .. Len(bits) |->
                      [lvl |-> bits[i], len |-> dur, sig |-> "none"]]]

\* The level has just risen: it is high and the last time that passed was low.
Rising(wf) ==
  /\ wf.lvl = 1
  /\ \A i \in 1 .. Len(wf.w) :
       wf.w[i].len > 0 /\ (\A j \in i + 1 .. Len(wf.w) : wf.w[j].len = 0)
         => wf.w[i].lvl = 0

Silence(wf, ms) ==
  IF ms = 0 THEN wf
  ELSE IF Rising(wf) THEN Hold(Hold(wf, 1, PauseMult), 0, PauseMult * (ms - 1))
       ELSE Hold(wf, 0, PauseMult * ms)

\* The bits of byte k that are played: all but those that the last byte leaves
\* out.
BitsOf(b, k) ==
  SubSeq(b.data[k], 1, IF k < Len(b.data) \/ b.btype = "data" THEN ByteBits ELSE b.lbBits)

\* What is heard before the bytes of a block, and of each byte.
Lead(wf, b) ==
  CASE b.btype = "data" ->
         Pilot(wf, RomPilotLen, IF IsHeader(b.data[1]) THEN RomPilotPulsesH
                                ELSE RomPilotPulsesD, RomSync1Len, RomSync2Len)
    [] b.btype = "turbo" -> Pilot(wf, b.pilotLen, b.pilotPulses, b.sync1, b.sync2)
    [] OTHER -> wf

ByteSound(wf, b, k) ==
  CASE b.btype = "data" -> Pulses(wf, BitPulses(BitsOf(b, k), RomOneLen, RomZeroLen))
    [] b.btype = "drec" -> Samples(wf, BitsOf(b, k), b.smpDur)
    [] OTHER -> Pulses(wf, BitPulses(BitsOf(b, k), b.one, b.zero))

\* The lead and the first k bytes.
Bytes(wf, b) ==
  LET bytes[k \in 0 .. Len(b.data)] ==
        IF k = 0 THEN Lead(wf, b) ELSE ByteSound(bytes[k - 1], b, k)
  IN  bytes

Sound(wf, b) ==
  CASE b.btype \in HasBytes -> Silence(Bytes(wf, b)[Len(b.data)], b.pause)
    [] b.btype = "tone" -> Pulses(wf, Times(b.len, b.np))
    [] b.btype = "pulses" -> Pulses(wf, b.lens)
    [] b.btype = "pause" -> Silence(wf, b.pause)
    [] b.btype \in {"stop", "stop48"} -> Signalled(wf, b.btype)
    [] OTHER -> wf

-----------------------------------------------------------------------------
(* The tape from block b on, with its loops unrolled: a body is heard as    *)
(* often as its start says, and once at least.                              *)

\* The loop start that the loop end n belongs to, 0 if there is none.
StartOf(t, b, n) ==
  LET open == {i \in b .. n - 1 : t[i].btype = "lstart"
                                    /\ \A j \in i .. n - 1 : t[j].btype # "lend"}
  IN  IF open = {} THEN 0 ELSE CHOOSE i \in open : \A j \in open : j <= i

\* The blocks behind block i up to block n.
Along(t, i, wf) ==
  LET along[n \in i .. Len(t)] == IF n = i THEN wf ELSE Sound(along[n - 1], t[n])
  IN  along

\* The blocks between i and n, k times.
Turned(t, i, n, wf) ==
  LET turned[k \in Nat] == IF k = 0 THEN wf ELSE Along(t, i, turned[k - 1])[n - 1]
  IN  turned

Ended(t, b, n, wf) ==
  LET i == StartOf(t, b, n)
  IN  IF i = 0 THEN wf
      ELSE Turned(t, i, n, wf)[IF t[i].rep = 0 THEN 0 ELSE t[i].rep - 1]

\* The blocks up to block n.
Heard(t, b) ==
  LET heard[n \in b - 1 .. Len(t)] ==
        IF n = b - 1 THEN [lvl |-> 0, w |-> <<>>]
        ELSE IF t[n].btype = "lend" THEN Ended(t, b, n, heard[n - 1])
        ELSE Sound(heard[n - 1], t[n])
  IN  heard

Waveform(t, b) == Heard(t, b)[Len(t)].w

\* The time at which event n of w ends.
EndTimes(w) ==
  LET ends[n \in 0 .. Len(w)] == IF n = 0 THEN 0 ELSE ends[n - 1] + w[n].len
  IN  ends

Duration(w) == EndTimes(w)[Len(w)]

\* The level at a time before the end, behind the edges of that very time.
LevelAt(w, time) ==
  LET i == CHOOSE k \in 1 .. Len(w) : EndTimes(w)[k - 1] <= time /\ time < EndTimes(w)[k]
  IN  w[i].lvl

=============================================================================
