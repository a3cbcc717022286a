-------------------------- MODULE TapePlayer_proofs --------------------------
(***************************************************************************)
(* What holds of the tape player, the sampler and the deck for all tapes.   *)
(*                                                                          *)
(* - The fields of the player keep their types, no block is read beyond its *)
(*   data, a signal comes from the block behind which the player stands.    *)
(* - The assertions of the tone generator hold, but on a tape with a tone   *)
(*   block of no pulses: every program begins with tonegen_clear() and is   *)
(*   at most as long as a pilot with two syncs or the bits of a byte, and   *)
(*   its last entry has a pulse.  The player never calls the generator for  *)
(*   a pulse at the end of the program, so that the last entry is still to  *)
(*   be taken when no pulse remains.                                        *)
(* - The loops of tape_player_next() and tape_sampler_getsmp() descend an   *)
(*   order without infinite descent: how far from the end the last loop     *)
(*   start is, the loop counter, the blocks ahead, the steps of the block,  *)
(*   the entries of the program, the pulses of the entry.  The recursive    *)
(*   functions by which the deck runs these loops therefore exist, and what *)
(*   a turn of a loop keeps the loop keeps.                                 *)
(* - The deck: a tape that stands still is not paused, and no Stop block is *)
(*   played over.                                                           *)
(* - The player plays the waveform of the tape.  What the generator still   *)
(*   has to give is the rest of the waveform of the block (Says), up to the *)
(*   byte that is programmed (Sofar); the block is somewhere in the         *)
(*   unrolled loops, with as many rounds behind it as the loop counter says *)
(*   (Place); and what was given is the beginning of the whole (SongInv).   *)
(* - The deck's samples and its position follow the waveform.  The sampler  *)
(*   knows in how many ticks the event ends that is heard, and the times of *)
(*   the events add up (EndTimes); on a steady tape the level it was given  *)
(*   with an event is that of the next (Levelled); without loops the blocks *)
(*   before the one taken last are over (Met).                              *)
(***************************************************************************)
EXTENDS PlayerLoop, TapeDeck, TLAPS, WellFoundedInduction

(***************************************************************************)
(* The least and the greatest number of a set.                              *)
(***************************************************************************)
LEMMA Least ==
  ASSUME NEW T \in SUBSET Nat, T # {}
  PROVE  \E x \in T : \A y \in T : x <= y
<1>1. PICK x \in T : \A y \in T : ~(<<y, x>> \in OpToRel(<, Nat))
  BY NatLessThanWellFounded, WFMin
<1>2. \A y \in T : ~(y < x)
  BY <1>1 DEF OpToRel
<1> QED BY <1>2

LEMMA Greatest ==
  ASSUME NEW n \in Nat, NEW T \in SUBSET (0 .. n), T # {}
  PROVE  \E x \in T : \A y \in T : y <= x
<1> DEFINE U == {n - x : x \in T}
<1>1. U \in SUBSET Nat /\ U # {}
  <2>1. PICK x \in T : TRUE
    OBVIOUS
  <2>2. \A y \in T : n - y \in Nat
    OBVIOUS
  <2> QED BY <2>1, <2>2
<1>2. PICK u \in U : \A v \in U : u <= v
  BY <1>1, Least
<1>3. PICK x \in T : u = n - x
  BY <1>2
<1>4. \A y \in T : n - x <= n - y
  BY <1>2, <1>3
<1> QED BY <1>4

(***************************************************************************)
(* The generator.                                                           *)
(***************************************************************************)
LEMMA FlipType == ASSUME NEW l \in Level PROVE Flip(l) \in Level
BY DEF Level, Flip

(* A generator with a program of n entries of which none is taken.          *)
Programmed(tg, n) == tg \in ToneGenType /\ tg.tidx = 0 /\ Len(tg.prog) = n

LEMMA TgInitType == TgInit(0) \in ToneGenType
<1>1. <<>> \in Seq(Entry)
  OBVIOUS
<1>2. 0 \in Nat /\ 0 \in Level /\ FALSE \in BOOLEAN
  BY DEF Level
<1> DEFINE seq == <<>>
           zero == 0
           no == FALSE
<1>3. TgInit(0) = [prog |-> seq, tidx |-> zero, cur |-> zero, rem |-> zero, clen |-> zero,
                   cdirect |-> no, pprev |-> zero, plast |-> zero]
  BY DEF TgInit
<1>4. seq \in Seq(Entry) /\ zero \in Nat /\ zero \in Level /\ no \in BOOLEAN
  BY <1>1, <1>2
<1> HIDE DEF seq, zero, no
<1> QED BY <1>3, <1>4 DEF ToneGenType

LEMMA ClearProgram ==
  ASSUME NEW tg \in ToneGenType
  PROVE  Programmed(Clear(tg), 0) /\ LastSounds(Clear(tg))
<1>1. <<>> \in Seq(Entry) /\ Len(<<>>) = 0
  OBVIOUS
<1>2. Clear(tg) \in ToneGenType /\ Clear(tg).prog = <<>> /\ Clear(tg).tidx = 0
  BY <1>1 DEF Clear, ToneGenType
<1> QED BY <1>1, <1>2 DEF Programmed, LastSounds

LEMMA AddToneProgram ==
  ASSUME NEW n \in Nat, NEW tg, Programmed(tg, n), NEW len \in Nat, NEW np \in Nat
  PROVE  /\ Programmed(AddTone(tg, len, np), n + 1)
         /\ np > 0 => LastSounds(AddTone(tg, len, np))
<1> DEFINE e == Tone(len, np)
           r == AddTone(tg, len, np)
           last == IF np % 2 = 1 THEN Flip(tg.plast) ELSE tg.plast
<1>1. e \in Entry
  BY DEF Tone, Entry, Level
<1>2. last \in Level
  BY FlipType DEF Programmed, ToneGenType
<1>3. Flip(last) \in Level
  BY <1>2, FlipType
<1>4. tg.prog \in Seq(Entry) /\ Append(tg.prog, e) \in Seq(Entry)
  BY <1>1 DEF Programmed, ToneGenType
<1> HIDE DEF e, last
<1>5. r = [tg EXCEPT !.prog = Append(@, e), !.plast = last,
                     !.pprev = IF len > 0 /\ np > 0 THEN Flip(last) ELSE @]
  BY DEF AddTone, e, last
<1>6. r \in ToneGenType /\ r.tidx = 0 /\ r.prog = Append(tg.prog, e)
  BY <1>2, <1>3, <1>4, <1>5 DEF Programmed, ToneGenType
<1>7. Len(r.prog) = n + 1 /\ r.prog[Len(r.prog)] = e
  BY <1>1, <1>4, <1>6 DEF Programmed
<1> HIDE DEF r
<1>8. Programmed(r, n + 1) /\ (np > 0 => LastSounds(r))
  BY <1>6, <1>7 DEF Programmed, LastSounds, Tone, e
<1> QED BY <1>8 DEF r

LEMMA AddDPulseProgram ==
  ASSUME NEW n \in Nat, NEW tg, Programmed(tg, n), NEW lvl \in Level, NEW len \in Nat
  PROVE  Programmed(AddDPulse(tg, lvl, len), n + 1) /\ LastSounds(AddDPulse(tg, lvl, len))
<1> DEFINE e == DirectPulse(lvl, len)
           r == AddDPulse(tg, lvl, len)
<1>1. e \in Entry
  BY DEF DirectPulse, Entry
<1>2. tg.prog \in Seq(Entry) /\ Append(tg.prog, e) \in Seq(Entry)
  BY <1>1 DEF Programmed, ToneGenType
<1>3. r \in ToneGenType /\ r.tidx = 0 /\ r.prog = Append(tg.prog, e)
  BY <1>2 DEF AddDPulse, Programmed, ToneGenType
<1>4. Len(r.prog) = n + 1 /\ r.prog[Len(r.prog)] = e
  BY <1>1, <1>2, <1>3 DEF Programmed
<1> HIDE DEF r
<1>5. Programmed(r, n + 1) /\ LastSounds(r)
  BY <1>3, <1>4 DEF Programmed, LastSounds, DirectPulse, e
<1> QED BY <1>5 DEF r

(* What is programmed at once.                                              *)
LEMMA PilotProgram ==
  ASSUME NEW tg \in ToneGenType, NEW len \in Nat, NEW np \in Nat, NEW s1 \in Nat, NEW s2 \in Nat
  PROVE  Programmed(PilotAndSync(tg, len, np, s1, s2), 3) /\ LastSounds(PilotAndSync(tg, len, np, s1, s2))
<1> DEFINE a == Clear(tg)
           b == AddTone(a, len, np)
           c == AddTone(b, s1, 1)
           d == AddTone(c, s2, 1)
<1> HIDE DEF a, b, c, d
<1>1. Programmed(a, 0)
  BY ClearProgram DEF a
<1>2. Programmed(b, 1)
  BY <1>1, AddToneProgram DEF b
<1>3. Programmed(c, 2)
  BY <1>2, AddToneProgram DEF c
<1>4. Programmed(d, 3) /\ LastSounds(d)
  BY <1>3, AddToneProgram DEF d
<1> QED BY <1>4 DEF PilotAndSync, a, b, c, d

LEMMA PauseProgram ==
  ASSUME NEW tg, Programmed(tg, 0), NEW ms \in Nat
  PROVE  \E n \in 0 .. 2 : Programmed(ProgramPause(tg, ms), n) /\ LastSounds(ProgramPause(tg, ms))
<1>1. PauseMult \in Nat /\ 0 \in Level /\ 1 \in Level /\ PauseMult * ms \in Nat
  BY PlayerAssumption DEF Level
<1>2. CASE ms = 0
  BY <1>2 DEF Programmed, ToneGenType, ProgramPause, LastSounds
<1>3. CASE ms # 0
  <2>1. ms - 1 \in Nat /\ PauseMult * (ms - 1) \in Nat
    BY <1>1, <1>3
  <2>2. Programmed(AddDPulse(tg, 1, PauseMult), 0 + 1)
    BY <1>1, AddDPulseProgram
  <2>3. Programmed(AddDPulse(tg, 1, PauseMult), 1)
    BY <2>2
  <2> DEFINE q == AddDPulse(tg, 1, PauseMult)
             r == AddDPulse(q, 0, PauseMult * (ms - 1))
             s == AddDPulse(tg, 0, PauseMult * ms)
  <2> HIDE DEF q, r, s
  <2>4. Programmed(r, 1 + 1) /\ LastSounds(r)
    BY <1>1, <2>1, <2>3, AddDPulseProgram DEF q, r
  <2>5. Programmed(s, 0 + 1) /\ LastSounds(s)
    BY <1>1, AddDPulseProgram DEF s
  <2>6. ProgramPause(tg, ms) \in {r, s}
    BY <1>3 DEF ProgramPause, q, r, s
  <2> QED BY <2>4, <2>5, <2>6
<1> QED BY <1>2, <1>3

LEMMA BitsProgram ==
  ASSUME NEW tg, Programmed(tg, 0), NEW byte, NEW nb \in 0 .. ByteBits, NEW one \in Nat, NEW zero \in Nat
  PROVE  /\ Programmed(ProgramBits(tg, byte, nb, one, zero), nb)
         /\ LastSounds(ProgramBits(tg, byte, nb, one, zero))
<1> DEFINE len(i) == IF byte[i] = 1 THEN one ELSE zero
           tones == [i \in 1 .. nb |-> Tone(len(i), 2)]
           pprev == IF \E i \in 1 .. nb : len(i) > 0 THEN Flip(tg.plast) ELSE tg.pprev
           r == ProgramBits(tg, byte, nb, one, zero)
<1>1. nb \in Nat
  BY PlayerAssumption
<1>2. tones \in Seq(Entry) /\ Len(tones) = nb /\ \A i \in 1 .. nb : tones[i].np = 2
  <2>1. \A i \in 1 .. nb : Tone(len(i), 2) \in Entry
    BY DEF Tone, Entry, Level
  <2>2. \A i \in 1 .. nb : Tone(len(i), 2).np = 2
    BY DEF Tone
  <2> HIDE DEF len
  <2> QED BY <1>1, <2>1, <2>2
<1>3. pprev \in Level
  BY FlipType DEF Programmed, ToneGenType
<1>4. tg.prog = <<>> /\ tg.prog \in Seq(Entry)
  BY DEF Programmed, ToneGenType
<1>5. tg.prog \o tones = tones
  BY <1>2, <1>4
<1>6. r = [tg EXCEPT !.prog = tones, !.pprev = pprev]
  BY <1>5 DEF ProgramBits
<1> HIDE DEF r, tones, pprev
<1>7. r \in ToneGenType /\ r.tidx = 0 /\ r.prog = tones
  BY <1>2, <1>3, <1>6 DEF Programmed, ToneGenType
<1>8. Programmed(r, nb)
  BY <1>2, <1>7 DEF Programmed
<1>9. LastSounds(r)
  BY <1>1, <1>2, <1>7 DEF LastSounds
<1> QED BY <1>8, <1>9 DEF r

LEMMA DirectBitsProgram ==
  ASSUME NEW tg, Programmed(tg, 0), NEW byte \in Byte, NEW nb \in 0 .. ByteBits, NEW dur \in Nat
  PROVE  /\ Programmed(ProgramDirectBits(tg, byte, nb, dur), nb)
         /\ LastSounds(ProgramDirectBits(tg, byte, nb, dur))
<1>1. nb \in Nat /\ ByteBits \in Nat
  BY PlayerAssumption
<1>2. tg.prog = <<>> /\ tg.prog \in Seq(Entry)
  BY DEF Programmed, ToneGenType
<1>3. CASE nb = 0
  BY <1>2, <1>3 DEF ProgramDirectBits, Programmed, LastSounds
<1>4. CASE nb # 0
  <2> DEFINE pulses == [i \in 1 .. nb |-> DirectPulse(byte[i], dur)]
             r == ProgramDirectBits(tg, byte, nb, dur)
  <2>1. \A i \in 1 .. nb : byte[i] \in Level
    BY <1>1 DEF Byte, Level
  <2>2. pulses \in Seq(Entry) /\ Len(pulses) = nb /\ \A i \in 1 .. nb : pulses[i].np = 1
    BY <1>1, <2>1 DEF DirectPulse, Entry
  <2>3. tg.prog \o pulses = pulses
    BY <1>2, <2>2
  <2>4. byte[1] \in Level /\ byte[nb] \in Level
    BY <1>1, <1>4, <2>1
  <2>5. r = [tg EXCEPT !.prog = pulses, !.cur = IF tg.tidx = Len(tg.prog) THEN byte[1] ELSE @,
                       !.pprev = IF dur > 0 THEN byte[nb] ELSE @, !.plast = byte[nb]]
    BY <1>4, <2>3 DEF ProgramDirectBits
  <2> HIDE DEF r, pulses
  <2>6. r \in ToneGenType /\ r.tidx = 0 /\ r.prog = pulses
    BY <2>2, <2>4, <2>5 DEF Programmed, ToneGenType
  <2>7. Programmed(r, nb)
    BY <2>2, <2>6 DEF Programmed
  <2>8. LastSounds(r)
    BY <1>1, <2>2, <2>6 DEF LastSounds
  <2> QED BY <2>7, <2>8 DEF r
<1> QED BY <1>3, <1>4

(***************************************************************************)
(* The generator while its program is played.                               *)
(***************************************************************************)
Gen(tg) == tg \in ToneGenType /\ tg.tidx <= Len(tg.prog) /\ Len(tg.prog) <= MaxTones

LEMMA ProgramIsGen ==
  ASSUME NEW tg, NEW n \in Nat, Programmed(tg, n), n <= MaxTones
  PROVE  Gen(tg)
BY DEF Programmed, Gen

LEMMA SoundingType ==
  ASSUME NEW tg, Gen(tg)
  PROVE  /\ Sounding(tg) \in SUBSET (1 .. Len(tg.prog))
         /\ \A i \in 1 .. Len(tg.prog) : tg.prog[i] \in Entry
BY DEF Gen, ToneGenType, Sounding

(* When it is not at its end, it has a pulse to give.                       *)
LEMMA SoundsOn ==
  ASSUME NEW tg, Gen(tg), LastSounds(tg), ~IsEnd(tg)
  PROVE  CanGetNext(tg)
BY DEF Gen, ToneGenType, CanGetNext, IsEnd, Sounding, LastSounds

LEMMA TakeEntryKeeps ==
  ASSUME NEW tg, Gen(tg), CanGetNext(tg)
  PROVE  Gen(TakeEntry(tg)) /\ TakeEntry(tg).prog = tg.prog /\ TakeEntry(tg).rem > 0
<1>1. CASE tg.rem > 0
  BY <1>1 DEF TakeEntry
<1>2. CASE ~(tg.rem > 0)
  <2> DEFINE i == CHOOSE k \in Sounding(tg) : \A j \in Sounding(tg) : k <= j
             e == tg.prog[i]
             cur == IF e.direct THEN e.lvl ELSE tg.cur
             r == TakeEntry(tg)
  <2>1. Sounding(tg) # {} /\ Sounding(tg) \in SUBSET Nat
    BY <1>2, SoundingType DEF CanGetNext
  <2>2. \E k \in Sounding(tg) : \A j \in Sounding(tg) : k <= j
    BY <2>1, Least
  <2>3. i \in Sounding(tg)
    BY <2>2
  <2>4. i \in 1 .. Len(tg.prog) /\ e \in Entry /\ e.np > 0
    BY <2>3, SoundingType DEF Sounding
  <2>5. r = [tg EXCEPT !.tidx = i, !.rem = e.np, !.clen = e.len, !.cdirect = e.direct,
                       !.cur = cur]
    BY <1>2 DEF TakeEntry
  <2> HIDE DEF i, e, r
  <2>6. e.direct \in BOOLEAN /\ e.lvl \in Level /\ e.len \in Nat /\ e.np \in Nat
    BY <2>4 DEF Entry
  <2>7. cur \in Level
    BY <2>6 DEF Gen, ToneGenType
  <2> HIDE DEF cur
  <2>8. r \in ToneGenType
    <3> DEFINE q == [tg EXCEPT !.tidx = i, !.rem = e.np, !.clen = e.len, !.cur = cur]
    <3>1. q \in ToneGenType
      <4>1. i \in Nat
        BY <2>4
      <4> QED BY <4>1, <2>6, <2>7 DEF Gen, ToneGenType
    <3>2. r = [q EXCEPT !.cdirect = e.direct]
      BY <2>5 DEF Gen, ToneGenType
    <3> HIDE DEF q
    <3> QED BY <2>6, <3>1, <3>2, Zenon DEF ToneGenType
  <2>9. r.prog = tg.prog /\ r.tidx = i /\ r.rem = e.np
    BY <2>5 DEF Gen, ToneGenType
  <2>10. Len(tg.prog) \in Nat
    BY DEF Gen, ToneGenType
  <2>11. Gen(r) /\ r.prog = tg.prog /\ r.rem > 0
    BY <2>4, <2>8, <2>9, <2>10 DEF Gen
  <2> QED BY <2>11 DEF r
<1> QED BY <1>1, <1>2

LEMMA GetNextKeeps ==
  ASSUME NEW tg, Gen(tg), CanGetNext(tg)
  PROVE  Gen(GetNext(tg)) /\ GetNext(tg).prog = tg.prog
<1> DEFINE q == TakeEntry(tg)
           r == GetNext(tg)
<1>1. Gen(q) /\ q.prog = tg.prog /\ q.rem > 0
  BY TakeEntryKeeps
<1>2. r = [q EXCEPT !.cur = EndLevel(q), !.rem = @ - 1]
  BY DEF GetNext
<1> HIDE DEF q, r
<1>3. q.rem \in Nat /\ q.tidx \in Nat /\ q.prog \in Seq(Entry) /\ q.cur \in Level
  BY <1>1 DEF Gen, ToneGenType
<1>4. EndLevel(q) \in Level
  <2>1. CASE q.tidx < Len(q.prog) /\ q.prog[q.tidx + 1].direct
    <3>1. q.tidx + 1 \in 1 .. Len(q.prog)
      BY <1>3, <2>1
    <3>2. q.prog[q.tidx + 1] \in Entry
      BY <1>3, <3>1
    <3> QED BY <2>1, <3>2 DEF EndLevel, Entry
  <2>2. CASE ~(q.tidx < Len(q.prog) /\ q.prog[q.tidx + 1].direct)
    BY <1>3, <2>2, FlipType DEF EndLevel
  <2> QED BY <2>1, <2>2
<1>5. q.rem - 1 \in Nat
  BY <1>1, <1>3
<1>6. r \in ToneGenType /\ r.prog = q.prog /\ r.tidx = q.tidx
  BY <1>1, <1>2, <1>4, <1>5 DEF Gen, ToneGenType
<1>7. Gen(r) /\ r.prog = tg.prog
  BY <1>1, <1>6 DEF Gen
<1> QED BY <1>7 DEF r

(***************************************************************************)
(* The player.                                                              *)
(***************************************************************************)
SilentTape(t) == \E b \in 1 .. Len(t) : NoPulses(t[b])

GenOn(t, tg) == Gen(tg) /\ (LastSounds(tg) \/ SilentTape(t))

(* A player on a tape.                                                      *)
CurFits(t, q) == q.cur # NoBlock => Fits(t[q.cur], q.idx)

At(t, q) == q.cur \in 0 .. Len(t) /\ q.nxt \in 0 .. Len(t)
PlayerInv(t, q) == q \in PlayerType /\ At(t, q) /\ GenOn(t, q.tg) /\ CurFits(t, q)

LEMMA Capacity ==
  /\ MaxTones \in Nat /\ ByteBits \in Nat /\ ByteBits <= MaxTones /\ 3 <= MaxTones
  /\ RomPilotLen \in Nat /\ RomPilotPulsesH \in Nat /\ RomPilotPulsesD \in Nat
  /\ RomSync1Len \in Nat /\ RomSync2Len \in Nat /\ RomOneLen \in Nat /\ RomZeroLen \in Nat
BY MaxTonesAssumption, PlayerAssumption, CapacityAssumption

LEMMA NewProgram ==
  ASSUME NEW t, NEW tg, NEW n \in Nat, Programmed(tg, n), n <= MaxTones, LastSounds(tg)
  PROVE  tg \in ToneGenType /\ GenOn(t, tg)
BY ProgramIsGen DEF GenOn, Programmed

(* What the blocks are made of.                                             *)
LEMMA BlockFields ==
  ASSUME NEW b \in Block
  PROVE  /\ b.btype \in {"data", "turbo", "pure", "drec", "tone", "pulses", "pause", "lstart",
                         "stop", "stop48", "lend", "other"}
         /\ b.btype = "data" => b \in DataBlock
         /\ b.btype = "turbo" => b \in TurboBlock
         /\ b.btype = "pure" => b \in PureBlock
         /\ b.btype = "drec" => b \in DirectBlock
         /\ b.btype = "tone" => b \in ToneBlock
         /\ b.btype = "pulses" => b \in PulsesBlock
         /\ b.btype = "pause" => b \in PauseBlock
         /\ b.btype = "lstart" => b \in LoopStartBlock
<1>1. ASSUME b \in DataBlock PROVE b.btype = "data"
  BY <1>1 DEF DataBlock
<1>2. ASSUME b \in TurboBlock PROVE b.btype = "turbo"
  BY <1>2 DEF TurboBlock
<1>3. ASSUME b \in PureBlock PROVE b.btype = "pure"
  BY <1>3 DEF PureBlock
<1>4. ASSUME b \in DirectBlock PROVE b.btype = "drec"
  BY <1>4 DEF DirectBlock
<1>5. ASSUME b \in ToneBlock PROVE b.btype = "tone"
  BY <1>5 DEF ToneBlock
<1>6. ASSUME b \in PulsesBlock PROVE b.btype = "pulses"
  BY <1>6 DEF PulsesBlock
<1>7. ASSUME b \in PauseBlock PROVE b.btype = "pause"
  BY <1>7 DEF PauseBlock
<1>8. ASSUME b \in LoopStartBlock PROVE b.btype = "lstart"
  BY <1>8 DEF LoopStartBlock
<1>9. ASSUME b \in PlainBlock PROVE b.btype \in {"stop", "stop48", "lend", "other"}
  BY <1>9 DEF PlainBlock
<1>10. \/ b \in DataBlock \/ b \in TurboBlock \/ b \in PureBlock \/ b \in DirectBlock
       \/ b \in ToneBlock \/ b \in PulsesBlock \/ b \in PauseBlock \/ b \in LoopStartBlock
       \/ b \in PlainBlock
  BY DEF Block
<1> QED BY <1>1, <1>2, <1>3, <1>4, <1>5, <1>6, <1>7, <1>8, <1>9, <1>10

LEMMA BlocksOfTape ==
  ASSUME NEW t \in Seq(Block)
  PROVE  Len(t) \in Nat /\ \A i \in 1 .. Len(t) : t[i] \in Block
BY PlayerAssumption

(* The end of a block, and the way back of a loop.                          *)
LEMMA EndBlockKeeps ==
  ASSUME NEW t \in Seq(Block), NEW q \in PlayerType, At(t, q), q.cur # NoBlock, GenOn(t, q.tg)
  PROVE  PlayerInv(t, EndBlock(t, q))
<1> DEFINE r == EndBlock(t, q)
           nxt == TapeNext(t, q.cur)
<1>1. nxt \in 0 .. Len(t) /\ nxt \in Nat /\ Len(t) \in Nat
  BY BlocksOfTape DEF TapeNext, At, NoBlock
<1>2. r = [q EXCEPT !.nxt = nxt, !.cur = 0]
  BY DEF EndBlock, NoBlock
<1> HIDE DEF r, nxt
<1>3. r \in PlayerType /\ r.cur = 0 /\ r.nxt = nxt /\ r.tg = q.tg
  BY <1>1, <1>2 DEF PlayerType
<1>4. PlayerInv(t, r)
  BY <1>1, <1>3 DEF PlayerInv, At, CurFits, NoBlock
<1> QED BY <1>4 DEF r

LEMMA LoopBodyType ==
  ASSUME NEW t, NEW b \in Nat \ {0}
  PROVE  LoopBody(t, b) \in 1 .. b
<1> DEFINE starts == {i \in 1 .. b - 1 : t[i].btype = "lstart"}
           last == CHOOSE i \in starts : \A j \in starts : j <= i
<1>1. CASE starts = {}
  BY <1>1 DEF LoopBody
<1>2. CASE starts # {}
  <2>1. starts \in SUBSET (0 .. b - 1) /\ b - 1 \in Nat
    OBVIOUS
  <2>2. \E i \in starts : \A j \in starts : j <= i
    <3> HIDE DEF starts
    <3> QED BY <1>2, <2>1, Greatest
  <2>3. last \in starts
    BY <2>2
  <2>4. LoopBody(t, b) = 1 + last
    BY <1>2 DEF LoopBody
  <2>5. last \in 1 .. b - 1
    BY <2>3
  <2> HIDE DEF last
  <2> QED BY <2>4, <2>5
<1> QED BY <1>1, <1>2

LEMMA LoopEndKeeps ==
  ASSUME NEW t \in Seq(Block), NEW q \in PlayerType, At(t, q), q.cur # NoBlock, GenOn(t, q.tg),
         CurFits(t, q)
  PROVE  PlayerInv(t, LoopEndInit(t, q))
<1> DEFINE r == LoopEndInit(t, q)
<1>1. q.loop \in Nat /\ q.cur \in 1 .. Len(t) /\ Len(t) \in Nat
  BY BlocksOfTape DEF PlayerType, At, NoBlock
<1>2. CASE q.loop > 1
  <2>1. LoopBody(t, q.cur) \in 1 .. q.cur
    BY <1>1, LoopBodyType
  <2>2. r = [q EXCEPT !.loop = @ - 1, !.cur = 0, !.nxt = LoopBody(t, q.cur)]
    BY <1>2 DEF LoopEndInit, NoBlock
  <2>3. q.loop - 1 \in Nat /\ LoopBody(t, q.cur) \in 0 .. Len(t) /\ LoopBody(t, q.cur) \in Nat
    BY <1>1, <1>2, <2>1
  <2> HIDE DEF r
  <2>4. r \in PlayerType /\ r.cur = 0 /\ r.nxt = LoopBody(t, q.cur) /\ r.tg = q.tg
    BY <2>2, <2>3 DEF PlayerType
  <2>5. PlayerInv(t, r)
    BY <1>1, <2>3, <2>4 DEF PlayerInv, At, CurFits, NoBlock
  <2> QED BY <2>5 DEF r
<1>3. CASE ~(q.loop > 1)
  <2>1. r = [q EXCEPT !.loop = 0]
    BY <1>3 DEF LoopEndInit
  <2> HIDE DEF r
  <2>2. r \in PlayerType /\ r.cur = q.cur /\ r.nxt = q.nxt /\ r.tg = q.tg /\ r.idx = q.idx
    BY <2>1 DEF PlayerType
  <2>3. PlayerInv(t, r)
    BY <2>2 DEF PlayerInv, At, CurFits
  <2> QED BY <2>3 DEF r
<1> QED BY <1>2, <1>3

(* Another program or another index.                                        *)
LEMMA Reprogrammed ==
  ASSUME NEW t \in Seq(Block), NEW q \in PlayerType, At(t, q),
         NEW tg \in ToneGenType, GenOn(t, tg), NEW idx \in Nat, NEW done \in BOOLEAN,
         q.cur # NoBlock => Fits(t[q.cur], idx)
  PROVE  PlayerInv(t, [q EXCEPT !.tg = tg, !.idx = idx, !.pauseDone = done])
<1> DEFINE s == [q EXCEPT !.tg = tg, !.idx = idx]
           r == [q EXCEPT !.tg = tg, !.idx = idx, !.pauseDone = done]
<1>1. s \in PlayerType
  BY DEF PlayerType
<1>2. r = [s EXCEPT !.pauseDone = done]
  BY DEF PlayerType
<1>3. r.tg = tg /\ r.idx = idx /\ r.cur = q.cur /\ r.nxt = q.nxt
  BY DEF PlayerType
<1> HIDE DEF s, r
<1>4. r \in PlayerType
  BY <1>1, <1>2, Zenon DEF PlayerType
<1>5. PlayerInv(t, r)
  BY <1>3, <1>4 DEF PlayerInv, At, CurFits
<1> QED BY <1>5 DEF r

LEMMA Begun ==
  ASSUME NEW t \in Seq(Block), NEW q \in PlayerType, At(t, q), q.cur # NoBlock,
         NEW tg \in ToneGenType, GenOn(t, tg), Fits(t[q.cur], 0)
  PROVE  PlayerInv(t, [q EXCEPT !.tg = tg, !.idx = 0, !.pauseDone = FALSE])
<1>1. 0 \in Nat /\ FALSE \in BOOLEAN
  OBVIOUS
<1> QED BY <1>1, Reprogrammed, Zenon

LEMMA NewTones ==
  ASSUME NEW t \in Seq(Block), NEW q \in PlayerType, At(t, q), NEW tg \in ToneGenType, GenOn(t, tg),
         CurFits(t, q)
  PROVE  PlayerInv(t, [q EXCEPT !.tg = tg])
<1>1. q.idx \in Nat /\ q.pauseDone \in BOOLEAN
  BY DEF PlayerType
<1>2. PlayerInv(t, [q EXCEPT !.tg = tg, !.idx = q.idx, !.pauseDone = q.pauseDone])
  BY <1>1, Reprogrammed DEF CurFits
<1>3. [q EXCEPT !.tg = tg, !.idx = q.idx, !.pauseDone = q.pauseDone] = [q EXCEPT !.tg = tg]
  BY DEF PlayerType
<1> QED BY <1>2, <1>3

(* A byte, the pause behind the bytes, or the end of a block.               *)
LEMMA BytesNextKeeps ==
  ASSUME NEW t \in Seq(Block), NEW q, PlayerInv(t, q), q.cur # NoBlock, NEW programmed,
         t[q.cur].btype \in HasBytes, t[q.cur].data \in Seq(Byte), t[q.cur].pause \in Nat,
         q.idx < Len(t[q.cur].data) =>
           \E n \in 0 .. MaxTones : Programmed(programmed, n) /\ LastSounds(programmed)
  PROVE  PlayerInv(t, BytesNext(t, q, t[q.cur], programmed))
<1> DEFINE b == t[q.cur]
<1>1. q \in PlayerType /\ At(t, q) /\ GenOn(t, q.tg) /\ Fits(b, q.idx)
      /\ q.idx \in Nat /\ q.pauseDone \in BOOLEAN /\ q.tg \in ToneGenType /\ Len(b.data) \in Nat
  BY DEF PlayerInv, CurFits, PlayerType
<1>2. CASE ~IsEnd(q.tg)
  BY <1>2 DEF BytesNext
<1>3. CASE IsEnd(q.tg) /\ q.idx < Len(b.data)
  <2>1. PICK n \in 0 .. MaxTones : Programmed(programmed, n) /\ LastSounds(programmed)
    BY <1>3
  <2>2. programmed \in ToneGenType /\ GenOn(t, programmed)
    BY <2>1, NewProgram, Capacity
  <2>3. q.idx + 1 \in Nat /\ Fits(b, q.idx + 1)
    BY <1>1, <1>3 DEF Fits, HasBytes
  <2>4. PlayerInv(t, [q EXCEPT !.tg = programmed, !.idx = q.idx + 1, !.pauseDone = q.pauseDone])
    BY <1>1, <2>2, <2>3, Reprogrammed
  <2>5. [q EXCEPT !.tg = programmed, !.idx = q.idx + 1, !.pauseDone = q.pauseDone]
          = [q EXCEPT !.tg = programmed, !.idx = @ + 1]
    BY <1>1 DEF PlayerType
  <2> QED BY <1>3, <2>4, <2>5 DEF BytesNext
<1>4. CASE IsEnd(q.tg) /\ ~(q.idx < Len(b.data)) /\ ~q.pauseDone
  <2> DEFINE tg == ProgramPause(Clear(q.tg), b.pause)
  <2>1. PICK n \in 0 .. 2 : Programmed(tg, n) /\ LastSounds(tg)
    BY <1>1, ClearProgram, PauseProgram
  <2>2. n \in Nat /\ n <= MaxTones
    BY Capacity
  <2> HIDE DEF tg
  <2>3. tg \in ToneGenType /\ GenOn(t, tg)
    BY <2>1, <2>2, NewProgram
  <2>4. PlayerInv(t, [q EXCEPT !.tg = tg, !.idx = q.idx, !.pauseDone = TRUE])
    BY <1>1, <2>3, Reprogrammed
  <2>5. [q EXCEPT !.tg = tg, !.idx = q.idx, !.pauseDone = TRUE] = [q EXCEPT !.tg = tg, !.pauseDone = TRUE]
    BY <1>1 DEF PlayerType
  <2> QED BY <1>4, <2>4, <2>5 DEF BytesNext, tg
<1>5. CASE IsEnd(q.tg) /\ ~(q.idx < Len(b.data)) /\ q.pauseDone
  BY <1>1, <1>5, EndBlockKeeps DEF BytesNext
<1> QED BY <1>1, <1>2, <1>3, <1>4, <1>5

LEMMA PulsesNextKeeps ==
  ASSUME NEW t \in Seq(Block), NEW q \in PlayerType, At(t, q), GenOn(t, q.tg), q.cur # NoBlock,
         t[q.cur] \in PulsesBlock, q.idx < Len(t[q.cur].lens)
  PROVE  PlayerInv(t, PulsesNext(t, q, t[q.cur]))
<1> DEFINE b == t[q.cur]
           tg == AddTone(Clear(q.tg), b.lens[q.idx + 1], 1)
           r == [q EXCEPT !.tg = AddTone(Clear(@), b.lens[q.idx + 1], 1), !.idx = @ + 1]
<1>1. q.idx \in Nat /\ q.tg \in ToneGenType /\ q.pauseDone \in BOOLEAN
  BY DEF PlayerType
<1>2. b.btype = "pulses" /\ b.lens \in Seq(Nat) /\ Len(b.lens) \in Nat
  BY DEF PulsesBlock
<1>3. Fits(b, q.idx)
  BY <1>2 DEF Fits, HasBytes
<1>4. CASE ~IsEnd(q.tg)
  BY <1>3, <1>4 DEF PulsesNext, PlayerInv, CurFits
<1>5. CASE IsEnd(q.tg)
  <2>1. b.lens[q.idx + 1] \in Nat
    <3>1. q.idx + 1 \in 1 .. Len(b.lens)
      BY <1>1, <1>2
    <3> HIDE DEF b
    <3> QED BY <1>2, <3>1
  <2>2. Programmed(tg, 0 + 1) /\ (1 > 0 => LastSounds(tg))
    BY <1>1, <2>1, ClearProgram, AddToneProgram
  <2> HIDE DEF tg
  <2>3. tg \in ToneGenType /\ GenOn(t, tg)
    <3>1. Programmed(tg, 1) /\ LastSounds(tg) /\ 1 <= MaxTones
      BY <2>2, Capacity
    <3> QED BY <3>1, NewProgram
  <2>4. r = [q EXCEPT !.tg = tg, !.idx = q.idx + 1]
    BY DEF tg
  <2> HIDE DEF r
  <2>5. r \in PlayerType /\ r.tg = tg /\ r.idx = q.idx + 1 /\ r.cur = q.cur /\ r.nxt = q.nxt
    <3>1. q.idx + 1 \in Nat
      BY <1>1
    <3>2. r.tg = tg /\ r.idx = q.idx + 1 /\ r.cur = q.cur /\ r.nxt = q.nxt
      BY <2>4 DEF PlayerType
    <3>3. r \in PlayerType
      BY <2>3, <2>4, <3>1 DEF PlayerType
    <3> QED BY <3>2, <3>3
  <2>6. At(t, r) /\ GenOn(t, r.tg) /\ r.cur # NoBlock
    BY <2>3, <2>5 DEF At
  <2>7. CASE r.idx >= Len(b.lens)
    BY <1>5, <2>5, <2>6, <2>7, EndBlockKeeps DEF PulsesNext, r
  <2>8. CASE ~(r.idx >= Len(b.lens))
    <3>1. r.idx < Len(b.lens)
      BY <1>1, <1>2, <2>5, <2>8
    <3>2. Fits(b, r.idx)
      BY <1>2, <3>1 DEF Fits, HasBytes
    <3>3. PlayerInv(t, r)
      BY <2>5, <2>6, <3>2 DEF PlayerInv, CurFits
    <3>4. PulsesNext(t, q, b) = r
      BY <1>5, <2>8 DEF PulsesNext, r
    <3> QED BY <3>3, <3>4
  <2> QED BY <2>7, <2>8
<1> QED BY <1>4, <1>5

(* The initialisation of a block: a program of its own, or fields that      *)
(* neither the generator nor the index depends on.                          *)
LEMMA TakeBlockKeeps ==
  ASSUME NEW t \in Seq(Block), NEW q0, PlayerInv(t, q0), q0.cur = NoBlock, q0.nxt # NoBlock
  PROVE  PlayerInv(t, TakeBlock(t, q0))
<1> DEFINE q == [q0 EXCEPT !.cur = q0.nxt, !.nxt = NoBlock]
           b == t[q.cur]
<1>1. q0 \in PlayerType /\ q0.nxt \in 1 .. Len(t) /\ Len(t) \in Nat /\ GenOn(t, q0.tg)
  BY BlocksOfTape DEF PlayerInv, At, NoBlock
<1>2. /\ q \in PlayerType /\ q.cur = q0.nxt /\ q.nxt = 0 /\ q.tg = q0.tg
      /\ q.tg \in ToneGenType /\ q.pauseDone \in BOOLEAN /\ q.idx \in Nat
  BY <1>1 DEF PlayerType, NoBlock
<1>3. b \in Block
  BY <1>1, <1>2, BlocksOfTape
<1>4. TakeBlock(t, q0) =
        CASE b.btype = "data"   -> DataInit(q, b)
          [] b.btype = "turbo"  -> TurboInit(q, b)
          [] b.btype = "tone"   -> ToneInit(q, b)
          [] b.btype = "pulses" -> PulsesInit(t, q, b)
          [] b.btype = "pure"   -> PureInit(q)
          [] b.btype = "drec"   -> DirectInit(q)
          [] b.btype = "pause"  -> PauseInit(q, b)
          [] b.btype = "stop"   -> StopInit(q)
          [] b.btype = "lstart" -> LoopStartInit(q, b)
          [] b.btype = "lend"   -> LoopEndInit(t, q)
          [] b.btype = "stop48" -> Stop48Init(q)
          [] b.btype = "other"  -> EndBlock(t, q)
  BY DEF TakeBlock
<1> HIDE DEF q
<1>5. At(t, q) /\ GenOn(t, q.tg) /\ q.cur # NoBlock
  BY <1>1, <1>2 DEF At, NoBlock
<1>6. b \in Block /\ b = t[q.cur]
  BY <1>3
<1> HIDE DEF b
<1>10. CASE b.btype = "data"
  <2>1. b.data \in Seq(Byte) /\ Len(b.data) \in Nat
    BY <1>6, <1>10, BlockFields DEF DataBlock
  <2> DEFINE np == IF IsHeader(b.data[1]) THEN RomPilotPulsesH ELSE RomPilotPulsesD
             tg == PilotAndSync(q.tg, RomPilotLen, np, RomSync1Len, RomSync2Len)
  <2>2. np \in Nat
    BY Capacity
  <2> HIDE DEF np
  <2>3. Programmed(tg, 3) /\ LastSounds(tg)
    BY <1>2, <2>2, PilotProgram, Capacity
  <2> HIDE DEF tg
  <2>4. tg \in ToneGenType /\ GenOn(t, tg)
    BY <2>3, NewProgram, Capacity
  <2>5. Fits(b, 0)
    BY <1>10, <2>1 DEF Fits, HasBytes
  <2>6. PlayerInv(t, [q EXCEPT !.tg = tg, !.idx = 0, !.pauseDone = FALSE])
    BY <1>2, <1>5, <1>6, <2>4, <2>5, Begun
  <2>7. DataInit(q, b) = [q EXCEPT !.tg = tg, !.idx = 0, !.pauseDone = FALSE]
    BY DEF DataInit, tg, np
  <2> QED BY <1>4, <1>10, <2>6, <2>7
<1>11. CASE b.btype = "turbo"
  <2>1. /\ b.data \in Seq(Byte) /\ Len(b.data) \in Nat /\ b.pilotLen \in Nat
        /\ b.pilotPulses \in Nat /\ b.sync1 \in Nat /\ b.sync2 \in Nat
    <3>1. b \in TurboBlock
      BY <1>6, <1>11, BlockFields
    <3> QED BY <3>1 DEF TurboBlock
  <2> DEFINE tg == PilotAndSync(q.tg, b.pilotLen, b.pilotPulses, b.sync1, b.sync2)
  <2>3. Programmed(tg, 3) /\ LastSounds(tg)
    BY <1>2, <2>1, PilotProgram
  <2> HIDE DEF tg
  <2>4. tg \in ToneGenType /\ GenOn(t, tg)
    BY <2>3, NewProgram, Capacity
  <2>5. Fits(b, 0)
    BY <1>11, <2>1 DEF Fits, HasBytes
  <2>6. PlayerInv(t, [q EXCEPT !.tg = tg, !.idx = 0, !.pauseDone = FALSE])
    BY <1>2, <1>5, <1>6, <2>4, <2>5, Begun
  <2>7. TurboInit(q, b) = [q EXCEPT !.tg = tg, !.idx = 0, !.pauseDone = FALSE]
    BY DEF TurboInit, tg
  <2> QED BY <1>4, <1>11, <2>6, <2>7
<1>12. CASE b.btype \in {"pure", "drec"}
  <2>1. b.data \in Seq(Byte) /\ Len(b.data) \in Nat
    BY <1>6, <1>12, BlockFields DEF PureBlock, DirectBlock
  <2> DEFINE tg == Clear(q.tg)
  <2>3. Programmed(tg, 0) /\ LastSounds(tg)
    BY <1>2, ClearProgram
  <2> HIDE DEF tg
  <2>4. tg \in ToneGenType /\ GenOn(t, tg)
    BY <2>3, NewProgram, Capacity
  <2>5. Fits(b, 0)
    BY <1>12, <2>1 DEF Fits, HasBytes
  <2>6. PlayerInv(t, [q EXCEPT !.tg = tg, !.idx = 0, !.pauseDone = FALSE])
    BY <1>2, <1>5, <1>6, <2>4, <2>5, Begun
  <2>7. TakeBlock(t, q0) = [q EXCEPT !.tg = tg, !.idx = 0, !.pauseDone = FALSE]
    BY <1>4, <1>12 DEF PureInit, DirectInit, tg
  <2> QED BY <2>6, <2>7
<1>13. CASE b.btype = "tone"
  <2>1. b.len \in Nat /\ b.np \in Nat
    BY <1>6, <1>13, BlockFields DEF ToneBlock
  <2> DEFINE tg == AddTone(Clear(q.tg), b.len, b.np)
  <2>2. Programmed(tg, 0 + 1) /\ (b.np > 0 => LastSounds(tg))
    BY <1>2, <2>1, ClearProgram, AddToneProgram
  <2>3. LastSounds(tg) \/ SilentTape(t)
    BY <1>1, <1>2, <1>6, <1>13, <2>1, <2>2 DEF SilentTape, NoPulses
  <2> HIDE DEF tg
  <2>4. tg \in ToneGenType /\ GenOn(t, tg)
    <3>1. Programmed(tg, 1) /\ 1 <= MaxTones
      BY <2>2, Capacity
    <3> QED BY <2>3, <3>1, ProgramIsGen DEF GenOn, Programmed
  <2>5. CurFits(t, q)
    BY <1>6, <1>13 DEF CurFits, Fits, HasBytes
  <2>6. PlayerInv(t, [q EXCEPT !.tg = tg])
    BY <1>2, <1>5, <2>4, <2>5, NewTones
  <2>7. ToneInit(q, b) = [q EXCEPT !.tg = tg]
    BY DEF ToneInit, tg
  <2> QED BY <1>4, <1>13, <2>6, <2>7
<1>14. CASE b.btype = "pulses"
  <2> DEFINE r == [q EXCEPT !.idx = 0]
  <2>1. b \in PulsesBlock /\ b.lens # <<>> /\ b.lens \in Seq(Nat) /\ 0 < Len(b.lens)
    BY <1>6, <1>14, BlockFields DEF PulsesBlock
  <2>2. r \in PlayerType /\ r.cur = q.cur /\ r.nxt = q.nxt /\ r.tg = q.tg /\ r.idx = 0
    BY <1>2 DEF PlayerType
  <2> HIDE DEF r
  <2>3. PlayerInv(t, PulsesNext(t, r, b))
    BY <1>5, <1>6, <2>1, <2>2, PulsesNextKeeps DEF At
  <2> QED BY <1>4, <1>14, <2>3 DEF PulsesInit, r
<1>15. CASE b.btype = "pause"
  <2> DEFINE tg == ProgramPause(Clear(q.tg), b.pause)
  <2>1. b.pause \in Nat
    BY <1>6, <1>15, BlockFields DEF PauseBlock
  <2>2. PICK n \in 0 .. 2 : Programmed(tg, n) /\ LastSounds(tg)
    BY <1>2, <2>1, ClearProgram, PauseProgram
  <2> HIDE DEF tg
  <2>3. n \in Nat /\ n <= MaxTones
    BY Capacity
  <2>4. tg \in ToneGenType /\ GenOn(t, tg)
    BY <2>2, <2>3, NewProgram
  <2>5. CurFits(t, q)
    BY <1>6, <1>15 DEF CurFits, Fits, HasBytes
  <2>6. PlayerInv(t, [q EXCEPT !.tg = tg])
    BY <1>2, <1>5, <2>4, <2>5, NewTones
  <2>7. PauseInit(q, b) = [q EXCEPT !.tg = tg]
    BY DEF PauseInit, tg
  <2> QED BY <1>4, <1>15, <2>6, <2>7
<1>16. CASE b.btype \in {"stop", "stop48", "lstart"}
  <2> DEFINE r == TakeBlock(t, q0)
  <2>1. b.btype = "lstart" => b.rep \in Nat
    BY <1>6, BlockFields DEF LoopStartBlock
  <2>2. /\ b.btype = "stop" => r = [q EXCEPT !.sig = "stop"]
        /\ b.btype = "stop48" => r = [q EXCEPT !.sig = "stop48"]
        /\ b.btype = "lstart" => r = [q EXCEPT !.loop = b.rep]
    BY <1>4 DEF StopInit, Stop48Init, LoopStartInit
  <2> HIDE DEF r
  <2>3. r \in PlayerType /\ r.cur = q.cur /\ r.nxt = q.nxt /\ r.tg = q.tg /\ r.idx = q.idx
    BY <1>2, <1>16, <2>1, <2>2 DEF PlayerType, Signal
  <2>4. CurFits(t, q)
    BY <1>6, <1>16 DEF CurFits, Fits, HasBytes
  <2>5. PlayerInv(t, r)
    BY <1>5, <2>3, <2>4 DEF PlayerInv, At, CurFits
  <2> QED BY <2>5 DEF r
<1>17. CASE b.btype = "lend"
  BY <1>2, <1>4, <1>5, <1>6, <1>17, LoopEndKeeps DEF CurFits, Fits, HasBytes
<1>18. CASE b.btype = "other"
  BY <1>2, <1>4, <1>5, <1>18, EndBlockKeeps
<1>19. b.btype \in {"data", "turbo", "pure", "drec", "tone", "pulses", "pause", "lstart",
                    "stop", "stop48", "lend", "other"}
  BY <1>6, BlockFields
<1> QED
  BY <1>10, <1>11, <1>12, <1>13, <1>14, <1>15, <1>16, <1>17, <1>18, <1>19

(* The second half of an iteration of the outer loop.                       *)
LEMMA PlayBlockKeeps ==
  ASSUME NEW t \in Seq(Block), NEW q, PlayerInv(t, q), q.cur # NoBlock
  PROVE  PlayerInv(t, PlayBlock(t, q))
<1> DEFINE b == t[q.cur]
<1>1. /\ q \in PlayerType /\ At(t, q) /\ GenOn(t, q.tg) /\ Fits(b, q.idx)
      /\ q.cur \in 1 .. Len(t) /\ q.tg \in ToneGenType /\ q.idx \in Nat
  BY BlocksOfTape DEF PlayerInv, CurFits, At, NoBlock, PlayerType
<1>2. b \in Block /\ b = t[q.cur]
  BY <1>1, BlocksOfTape
<1>3. PlayBlock(t, q) =
        CASE b.btype = "data"   -> DataNext(t, q, b)
          [] b.btype = "turbo"  -> TurboNext(t, q, b)
          [] b.btype = "pulses" -> PulsesNext(t, q, b)
          [] b.btype = "pure"   -> PureNext(t, q, b)
          [] b.btype = "drec"   -> DirectNext(t, q, b)
          [] b.btype \in {"tone", "pause", "stop", "lstart", "lend", "stop48"} ->
               EndBlock(t, q)
  BY DEF PlayBlock
<1> HIDE DEF b
<1>10. CASE b.btype = "data"
  <2> DEFINE tg == ProgramBits(Clear(q.tg), b.data[q.idx + 1], ByteBits, RomOneLen, RomZeroLen)
  <2>1. b.data \in Seq(Byte) /\ b.pause \in Nat /\ RomOneLen \in Nat /\ RomZeroLen \in Nat
    BY <1>2, <1>10, BlockFields, Capacity DEF DataBlock
  <2>2. ByteBits \in 0 .. ByteBits
    BY <1>2, <1>10, BlockFields, Capacity DEF NumBits, DataBlock
  <2>3. Programmed(tg, ByteBits) /\ LastSounds(tg)
    BY <1>1, <2>1, <2>2, ClearProgram, BitsProgram
  <2>4. ByteBits \in 0 .. MaxTones
    BY <2>2, Capacity
  <2> HIDE DEF tg
  <2>5. PlayerInv(t, BytesNext(t, q, b, tg))
    BY <1>2, <1>10, <2>1, <2>3, <2>4, BytesNextKeeps DEF HasBytes
  <2> QED BY <1>3, <1>10, <2>5 DEF DataNext, tg
<1>11. CASE b.btype = "turbo"
  <2> DEFINE tg == ProgramBits(Clear(q.tg), b.data[q.idx + 1], NumBits(q, b), b.one, b.zero)
  <2>1. b.data \in Seq(Byte) /\ b.pause \in Nat /\ b.one \in Nat /\ b.zero \in Nat
    BY <1>2, <1>11, BlockFields, Capacity DEF TurboBlock
  <2>2. NumBits(q, b) \in 0 .. ByteBits
    BY <1>2, <1>11, BlockFields, Capacity DEF NumBits, TurboBlock
  <2>3. Programmed(tg, NumBits(q, b)) /\ LastSounds(tg)
    BY <1>1, <2>1, <2>2, ClearProgram, BitsProgram
  <2>4. NumBits(q, b) \in 0 .. MaxTones
    BY <2>2, Capacity
  <2> HIDE DEF tg
  <2>5. PlayerInv(t, BytesNext(t, q, b, tg))
    BY <1>2, <1>11, <2>1, <2>3, <2>4, BytesNextKeeps DEF HasBytes
  <2> QED BY <1>3, <1>11, <2>5 DEF TurboNext, tg
<1>12. CASE b.btype = "pure"
  <2> DEFINE tg == ProgramBits(Clear(q.tg), b.data[q.idx + 1], NumBits(q, b), b.one, b.zero)
  <2>1. b.data \in Seq(Byte) /\ b.pause \in Nat /\ b.one \in Nat /\ b.zero \in Nat
    BY <1>2, <1>12, BlockFields, Capacity DEF PureBlock
  <2>2. NumBits(q, b) \in 0 .. ByteBits
    BY <1>2, <1>12, BlockFields, Capacity DEF NumBits, PureBlock
  <2>3. Programmed(tg, NumBits(q, b)) /\ LastSounds(tg)
    BY <1>1, <2>1, <2>2, ClearProgram, BitsProgram
  <2>4. NumBits(q, b) \in 0 .. MaxTones
    BY <2>2, Capacity
  <2> HIDE DEF tg
  <2>5. PlayerInv(t, BytesNext(t, q, b, tg))
    BY <1>2, <1>12, <2>1, <2>3, <2>4, BytesNextKeeps DEF HasBytes
  <2> QED BY <1>3, <1>12, <2>5 DEF PureNext, tg
<1>13. CASE b.btype = "drec"
  <2> DEFINE tg == ProgramDirectBits(Clear(q.tg), b.data[q.idx + 1], NumBits(q, b), b.smpDur)
  <2>1. b.data \in Seq(Byte) /\ Len(b.data) \in Nat /\ b.pause \in Nat /\ b.smpDur \in Nat
    BY <1>2, <1>13, BlockFields DEF DirectBlock
  <2>2. NumBits(q, b) \in 0 .. ByteBits
    BY <1>2, <1>13, BlockFields, Capacity DEF NumBits, DirectBlock
  <2>3. ASSUME q.idx < Len(b.data) PROVE Programmed(tg, NumBits(q, b)) /\ LastSounds(tg)
    BY <1>1, <2>1, <2>2, <2>3, ClearProgram, DirectBitsProgram
  <2>4. NumBits(q, b) \in 0 .. MaxTones
    BY <2>2, Capacity
  <2> HIDE DEF tg
  <2>5. PlayerInv(t, BytesNext(t, q, b, tg))
    <3>1. q.idx < Len(b.data) => \E n \in 0 .. MaxTones : Programmed(tg, n) /\ LastSounds(tg)
      BY <2>3, <2>4
    <3>2. b.btype \in HasBytes
      BY <1>13 DEF HasBytes
    <3> QED BY <1>2, <2>1, <3>1, <3>2, BytesNextKeeps
  <2> QED BY <1>3, <1>13, <2>5 DEF DirectNext, tg
<1>14. CASE b.btype = "pulses"
  BY <1>1, <1>2, <1>3, <1>14, BlockFields, PulsesNextKeeps DEF Fits
<1>15. CASE b.btype \in {"tone", "pause", "stop", "lstart", "lend", "stop48"}
  BY <1>1, <1>3, <1>15, EndBlockKeeps
<1>16. b.btype \in {"data", "turbo", "pure", "drec", "tone", "pulses", "pause", "lstart",
                    "stop", "stop48", "lend"}
  BY <1>1, <1>2, BlockFields DEF Fits
<1> QED BY <1>10, <1>11, <1>12, <1>13, <1>14, <1>15, <1>16

(* The player at the start of a playback, from any block.                   *)
LEMMA InitKeeps ==
  ASSUME NEW t \in Seq(Block), NEW q \in PlayerType, NEW b \in 0 .. Len(t)
  PROVE  PlayerInv(t, PlayerInit(q, b))
<1> DEFINE r == PlayerInit(q, b)
<1>1. Programmed(TgInit(0), 0) /\ LastSounds(TgInit(0))
  BY TgInitType DEF TgInit, Programmed, LastSounds
<1>2. TgInit(0) \in ToneGenType /\ GenOn(t, TgInit(0))
  BY <1>1, NewProgram, Capacity
<1>3. b \in Nat /\ Len(t) \in Nat
  BY BlocksOfTape
<1> DEFINE s == [q EXCEPT !.tg = TgInit(0), !.cur = 0, !.idx = 0, !.nxt = b]
<1>4. s \in PlayerType
  BY <1>2, <1>3 DEF PlayerType
<1>5. r = [s EXCEPT !.pauseDone = FALSE]
  BY DEF PlayerInit, NoBlock, PlayerType
<1>6. r.tg = TgInit(0) /\ r.cur = 0 /\ r.nxt = b
  BY DEF PlayerInit, NoBlock, PlayerType
<1> HIDE DEF r, s
<1>7. r \in PlayerType
  BY <1>4, <1>5, Zenon DEF PlayerType
<1>8. PlayerInv(t, r)
  BY <1>2, <1>3, <1>6, <1>7 DEF PlayerInv, At, CurFits, NoBlock
<1> QED BY <1>8 DEF r

(***************************************************************************)
(* The machine.                                                             *)
(***************************************************************************)
PlayInv ==
  /\ reel \in Tapes /\ reel \in Seq(Block)
  /\ PlayerInv(reel, p)
  /\ pc \in {"outer", "inner", "ready", "abort"}
  /\ start \in 0 .. Len(reel)
  /\ left \in [loop : Nat, sig : Signal] /\ plays \in 1 .. MaxPlays
  /\ pc = "abort" => SilentTape(reel)

LEMMA PlayInitially == LoopInit => PlayInv
<1> SUFFICES ASSUME LoopInit PROVE PlayInv
  OBVIOUS
<1>1. reel \in Tapes /\ reel \in Seq(Block) /\ Len(reel) \in Nat /\ TapeFirst(reel) \in 0 .. Len(reel)
  BY PlayerAssumption DEF LoopInit, TapeFirst, NoBlock
<1>2. PlayerCreate \in PlayerType
  <2> DEFINE tg == TgInit(0)
             zero == 0
             no == FALSE
             none == "none"
  <2>1. tg \in ToneGenType /\ zero \in Nat /\ no \in BOOLEAN /\ none \in Signal
    BY TgInitType DEF Signal
  <2>2. PlayerCreate = [tg |-> tg, cur |-> zero, nxt |-> zero, idx |-> zero,
                        pauseDone |-> no, sig |-> none, loop |-> zero]
    BY DEF PlayerCreate, NoBlock
  <2> HIDE DEF tg, zero, no, none
  <2> QED BY <2>1, <2>2 DEF PlayerType
<1>3. PlayerInv(reel, p)
  BY <1>1, <1>2, InitKeeps DEF LoopInit
<1>4. left \in [loop : Nat, sig : Signal] /\ plays \in 1 .. MaxPlays
  BY PlaysAssumption DEF LoopInit, Signal
<1> QED BY <1>1, <1>3, <1>4 DEF LoopInit, PlayInv

LEMMA PlayStep == PlayInv /\ [LoopNext]_loopVars => PlayInv'
<1> SUFFICES ASSUME PlayInv, [LoopNext]_loopVars PROVE PlayInv'
  OBVIOUS
<1>1. CASE Enter
  BY <1>1 DEF Enter, PlayInv
<1>2. CASE Take
  BY <1>2, TakeBlockKeeps DEF Take, PlayInv
<1>3. CASE PlayOn
  BY <1>3, PlayBlockKeeps DEF PlayOn, PlayInv
<1>4. CASE Exhausted
  BY <1>4 DEF Exhausted, PlayInv
<1>5. CASE Return
  BY <1>5 DEF Return, PlayInv
<1>6. CASE GetPulse
  <2>1. /\ p \in PlayerType /\ At(reel, p) /\ GenOn(reel, p.tg) /\ CurFits(reel, p)
        /\ ~IsEnd(p.tg) /\ reel \in Seq(Block)
    BY <1>6 DEF GetPulse, PlayInv, PlayerInv
  <2>2. CASE CanGetNext(p.tg)
    BY <1>6, <2>1, <2>2, GetNextKeeps, NewTones DEF GenOn, Gen, LastSounds, GetPulse, PlayInv
  <2>3. CASE ~CanGetNext(p.tg)
    BY <1>6, <2>1, <2>3, SoundsOn DEF GenOn, GetPulse, PlayInv
  <2> QED BY <2>2, <2>3
<1>7. CASE GetSignal
  <2> DEFINE r == [p EXCEPT !.sig = "none"]
  <2>1. p \in PlayerType /\ PlayerInv(reel, p)
    BY DEF PlayInv, PlayerInv
  <2>2. /\ r \in PlayerType /\ r.cur = p.cur /\ r.nxt = p.nxt /\ r.tg = p.tg
        /\ r.idx = p.idx
    BY <2>1 DEF PlayerType, Signal
  <2> HIDE DEF r
  <2>3. PlayerInv(reel, r)
    BY <2>1, <2>2 DEF PlayerInv, At, CurFits
  <2>4. p' = r
    BY <1>7 DEF GetSignal, r
  <2> QED BY <1>7, <2>3, <2>4 DEF GetSignal, PlayInv
<1>8. CASE Restart
  <2>1. PICK b \in 0 .. Len(reel) : p' = PlayerInit(p, b) /\ start' = b
    BY <1>8 DEF Restart
  <2>2. p \in PlayerType /\ reel \in Seq(Block)
    BY DEF PlayInv, PlayerInv
  <2>3. PlayerInv(reel, p')
    BY <2>1, <2>2, InitKeeps
  <2>4. left' \in [loop : Nat, sig : Signal]
    BY <1>8, <2>2 DEF PlayerType, Restart
  <2>5. plays' \in 1 .. MaxPlays
    BY <1>8, PlaysAssumption DEF Restart, PlayInv
  <2>6. reel' = reel /\ pc' = "outer"
    BY <1>8 DEF Restart
  <2> QED BY <2>1, <2>2, <2>3, <2>4, <2>5, <2>6 DEF PlayInv
<1>9. CASE UNCHANGED loopVars
  BY <1>9 DEF loopVars, PlayInv
<1> QED
  BY <1>1, <1>2, <1>3, <1>4, <1>5, <1>6, <1>7, <1>8, <1>9 DEF LoopNext, Iterate

(* The player's fields keep their types, and its blocks are on the tape.    *)
THEOREM TypeCorrect == LoopSpec => []LoopTypeOK
<1>1. PlayInv => LoopTypeOK
  BY DEF PlayInv, PlayerInv, At, LoopTypeOK
<1> QED BY PlayInitially, PlayStep, <1>1, PTL DEF LoopSpec

(* No block programs more than the generator holds (tonegen.c:96, 128), and *)
(* the generator has a pulse whenever it is asked for one (tonegen.c:197),  *)
(* on every tape but one with a tone block of no pulses, however often and  *)
(* from whatever block it is played.                                        *)
THEOREM AssertionsCorrect == LoopSpec => []NoAssertionFails
<1>1. PlayInv => NoAssertionFails
  BY DEF PlayInv, PlayerInv, GenOn, Gen, SilentTape, NoAssertionFails
<1> QED BY PlayInitially, PlayStep, <1>1, PTL DEF LoopSpec

(* No block is read beyond its data (the *_next() functions of player.c).   *)
THEOREM IndexCorrect == LoopSpec => []IndexInRange
<1>1. PlayInv => IndexInRange
  BY DEF PlayInv, PlayerInv, CurFits, Fits, HasBytes, IndexInRange
<1> QED BY PlayInitially, PlayStep, <1>1, PTL DEF LoopSpec

(***************************************************************************)
(* Signals: one is raised by the block that becomes current, whose other    *)
(* half of the iteration ends it; then the outer loop stops.                *)
(***************************************************************************)
LEMMA TakeBlockSignal ==
  ASSUME NEW t \in Seq(Block), NEW q0, PlayerInv(t, q0), q0.cur = NoBlock, q0.nxt # NoBlock,
         q0.sig = "none"
  PROVE  LET r == TakeBlock(t, q0)
         IN  r.sig # "none" => r.cur # NoBlock /\ t[r.cur].btype = r.sig
<1> DEFINE q == [q0 EXCEPT !.cur = q0.nxt, !.nxt = NoBlock]
           b == t[q.cur]
           r == TakeBlock(t, q0)
<1>1. q0 \in PlayerType /\ q0.nxt \in Nat /\ q0.nxt \in 1 .. Len(t)
  BY BlocksOfTape DEF PlayerInv, At, NoBlock
<1>2. q \in PlayerType /\ q.cur # NoBlock /\ q.cur = q0.nxt /\ q.sig = "none"
  BY <1>1 DEF PlayerType, NoBlock
<1>3. r = CASE b.btype = "data"   -> DataInit(q, b)
            [] b.btype = "turbo"  -> TurboInit(q, b)
            [] b.btype = "tone"   -> ToneInit(q, b)
            [] b.btype = "pulses" -> PulsesInit(t, q, b)
            [] b.btype = "pure"   -> PureInit(q)
            [] b.btype = "drec"   -> DirectInit(q)
            [] b.btype = "pause"  -> PauseInit(q, b)
            [] b.btype = "stop"   -> StopInit(q)
            [] b.btype = "lstart" -> LoopStartInit(q, b)
            [] b.btype = "lend"   -> LoopEndInit(t, q)
            [] b.btype = "stop48" -> Stop48Init(q)
            [] b.btype = "other"  -> EndBlock(t, q)
  BY DEF TakeBlock
<1> HIDE DEF q
<1>4. b \in Block /\ b = t[q.cur]
  BY <1>1, <1>2, BlocksOfTape
<1> HIDE DEF b, r
<1>5. ASSUME b.btype \in {"data", "turbo", "tone", "pure", "drec", "pause", "lstart", "lend", "other"}
      PROVE  r.sig = "none"
  BY <1>2, <1>3, <1>5
     DEF PlayerType, DataInit, TurboInit, ToneInit, PureInit, DirectInit, PauseInit,
         LoopStartInit, LoopEndInit, EndBlock
<1>6. ASSUME b.btype = "pulses" PROVE r.sig = "none"
  BY <1>2, <1>3, <1>6 DEF PlayerType, PulsesInit, PulsesNext, EndBlock
<1>7. ASSUME b.btype = "stop" PROVE r.sig = "stop" /\ r.cur = q.cur
  BY <1>2, <1>3, <1>7 DEF PlayerType, StopInit
<1>8. ASSUME b.btype = "stop48" PROVE r.sig = "stop48" /\ r.cur = q.cur
  BY <1>2, <1>3, <1>8 DEF PlayerType, Stop48Init
<1>9. b.btype \in {"data", "turbo", "pure", "drec", "tone", "pulses", "pause", "lstart",
                   "stop", "stop48", "lend", "other"}
  BY <1>4, BlockFields
<1>10. r.sig # "none" => r.cur # NoBlock /\ t[r.cur].btype = r.sig
  BY <1>2, <1>4, <1>5, <1>6, <1>7, <1>8, <1>9
<1> QED BY <1>10 DEF r

LEMMA PlayBlockSignal ==
  ASSUME NEW t \in Seq(Block), NEW q, PlayerInv(t, q), q.cur # NoBlock
  PROVE  /\ PlayBlock(t, q).sig = q.sig
         /\ t[q.cur].btype \in {"stop", "stop48"} => PlayBlock(t, q) = EndBlock(t, q)
<1> DEFINE b == t[q.cur]
<1>1. q \in PlayerType /\ q.cur \in 1 .. Len(t) /\ Fits(b, q.idx)
  BY BlocksOfTape DEF PlayerInv, CurFits, At, NoBlock
<1>2. b.btype \in {"data", "turbo", "pure", "drec", "tone", "pulses", "pause", "lstart",
                   "stop", "stop48", "lend"}
  BY <1>1, BlockFields, BlocksOfTape DEF Fits
<1>3. ASSUME NEW x PROVE BytesNext(t, q, b, x).sig = q.sig
  BY <1>1 DEF BytesNext, EndBlock, PlayerType
<1>4. PulsesNext(t, q, b).sig = q.sig
  BY <1>1 DEF PulsesNext, EndBlock, PlayerType
<1>5. EndBlock(t, q).sig = q.sig
  BY <1>1 DEF EndBlock, PlayerType
<1>6. PlayBlock(t, q) =
        CASE b.btype = "data"   -> DataNext(t, q, b)
          [] b.btype = "turbo"  -> TurboNext(t, q, b)
          [] b.btype = "pulses" -> PulsesNext(t, q, b)
          [] b.btype = "pure"   -> PureNext(t, q, b)
          [] b.btype = "drec"   -> DirectNext(t, q, b)
          [] b.btype \in {"tone", "pause", "stop", "lstart", "lend", "stop48"} ->
               EndBlock(t, q)
  BY DEF PlayBlock
<1>7. /\ DataNext(t, q, b).sig = q.sig /\ TurboNext(t, q, b).sig = q.sig
      /\ PureNext(t, q, b).sig = q.sig /\ DirectNext(t, q, b).sig = q.sig
  BY <1>3 DEF DataNext, TurboNext, PureNext, DirectNext
<1> HIDE DEF b
<1>8. PlayBlock(t, q).sig = q.sig
  BY <1>2, <1>4, <1>5, <1>6, <1>7
<1>9. b.btype \in {"stop", "stop48"} => PlayBlock(t, q) = EndBlock(t, q)
  BY <1>6
<1> QED BY <1>8, <1>9 DEF b

Left(t, q) ==
  /\ q.cur = NoBlock
  /\ \E b \in 1 .. Len(t) : t[b].btype = q.sig /\ q.nxt = TapeNext(t, b)

SignalInv ==
  p.sig # "none" =>
    /\ pc = "inner" => p.cur # NoBlock /\ reel[p.cur].btype = p.sig
    /\ pc \in {"outer", "ready"} /\ (plays = 1 \/ out # <<>>) => Left(reel, p)

LEMMA SignalInitially == LoopInit => SignalInv
BY DEF LoopInit, SignalInv, PlayerInit, PlayerCreate

LEMMA SignalStep == PlayInv /\ SignalInv /\ [LoopNext]_loopVars => SignalInv'
<1> SUFFICES ASSUME PlayInv, SignalInv, [LoopNext]_loopVars PROVE SignalInv'
  OBVIOUS
<1>0. reel \in Seq(Block) /\ PlayerInv(reel, p) /\ p \in PlayerType /\ plays \in 1 .. MaxPlays
  BY DEF PlayInv, PlayerInv
<1>1. CASE Enter
  BY <1>1 DEF Enter, Hungry, SignalInv
<1>2. CASE Take
  BY <1>0, <1>2, TakeBlockSignal DEF Take, SignalInv
<1>3. CASE PlayOn
  <2>1. p' = PlayBlock(reel, p) /\ p.cur # NoBlock /\ p'.sig = p.sig /\ pc = "inner"
    BY <1>0, <1>3, PlayBlockSignal DEF PlayOn
  <2>2. ASSUME p.sig # "none" PROVE Left(reel, p')
    <3>1. reel[p.cur].btype = p.sig /\ p.sig \in {"stop", "stop48"}
      BY <1>0, <2>1, <2>2 DEF SignalInv, PlayerType, Signal
    <3>2. p' = EndBlock(reel, p)
      BY <1>0, <2>1, <3>1, PlayBlockSignal
    <3>3. p'.cur = NoBlock /\ p'.nxt = TapeNext(reel, p.cur)
      BY <1>0, <3>2 DEF EndBlock, PlayerType
    <3>4. p.cur \in 1 .. Len(reel)
      BY <1>0, <2>1, BlocksOfTape DEF PlayerInv, At, NoBlock
    <3> QED BY <2>1, <3>1, <3>3, <3>4 DEF Left
  <2> QED BY <1>3, <2>1, <2>2 DEF PlayOn, SignalInv
<1>4. CASE Exhausted
  BY <1>4 DEF Exhausted, SignalInv
<1>5. CASE Return
  BY <1>5 DEF Return, SignalInv
<1>6. CASE GetPulse
  BY <1>0, <1>6 DEF GetPulse, PlayerType, SignalInv
<1>7. CASE GetSignal
  BY <1>0, <1>7 DEF GetSignal, PlayerType, SignalInv
<1>8. CASE Restart
  BY <1>0, <1>8, PlaysAssumption DEF Restart, SignalInv
<1>9. CASE UNCHANGED loopVars
  BY <1>9 DEF loopVars, SignalInv
<1> QED
  BY <1>1, <1>2, <1>3, <1>4, <1>5, <1>6, <1>7, <1>8, <1>9 DEF LoopNext, Iterate

(* A deck that stops at a signal resumes behind the block the signal comes  *)
(* from, never on it (tape_player_stop_init() and tape_player_stop_next()), *)
(* on every tape.                                                           *)
THEOREM SignalsCorrect == LoopSpec => []SignalLeavesBlock
<1>1. SignalInv => SignalLeavesBlock
  BY DEF SignalInv, SignalLeavesBlock, Left
<1> QED BY PlayInitially, PlayStep, SignalInitially, SignalStep, <1>1, PTL DEF LoopSpec

(***************************************************************************)
(* Functions that are defined by recursion along an order without infinite  *)
(* descent exist.                                                           *)
(***************************************************************************)
Ordered(R, S) ==
  /\ \A x, y, z \in S : <<x, y>> \in R /\ <<y, z>> \in R => <<x, z>> \in R
  /\ \A T \in SUBSET S : T # {} => \E x \in T : \A y \in T : <<y, x>> \notin R

\* F[x][g] is the value at x, by recursion into g at members below x.
Descends(S, V, F, R) ==
  /\ V # {} /\ F \in [S -> [[S -> V] -> V]]
  /\ \A x \in S : \A g, h \in [S -> V] :
       (\A y \in S : <<y, x>> \in R => g[y] = h[y]) => F[x][g] = F[x][h]

\* Below x, g is what the recursion asks for.
Solves(S, F, R, g, x) == \A y \in S : <<y, x>> \in R => g[y] = F[y][g]

LEMMA SolutionsAgree ==
  ASSUME NEW S, NEW V, NEW F, NEW R, Ordered(R, S), Descends(S, V, F, R),
         NEW x \in S, NEW z \in S, NEW g \in [S -> V], NEW h \in [S -> V],
         Solves(S, F, R, g, x), Solves(S, F, R, h, z)
  PROVE  \A y \in S : <<y, x>> \in R /\ <<y, z>> \in R => g[y] = h[y]
<1> DEFINE T == {y \in S : <<y, x>> \in R /\ <<y, z>> \in R /\ g[y] # h[y]}
<1> SUFFICES ASSUME T # {} PROVE FALSE
  OBVIOUS
<1>1. PICK y \in T : \A w \in T : <<w, y>> \notin R
  BY DEF Ordered
<1>2. y \in S /\ <<y, x>> \in R /\ <<y, z>> \in R /\ g[y] # h[y]
  OBVIOUS
<1>3. ASSUME NEW w \in S, <<w, y>> \in R PROVE g[w] = h[w]
  BY <1>1, <1>2, <1>3 DEF Ordered
<1>4. F[y][g] = F[y][h]
  BY <1>2, <1>3 DEF Descends
<1> QED BY <1>2, <1>4 DEF Solves

\* h is put together from solutions below each member of a downward closed set.
Joined(S, V, F, R, D, G, h) ==
  /\ D \in SUBSET S
  /\ \A y \in D : \A z \in S : <<z, y>> \in R => z \in D
  /\ \A y \in D : G[y] \in [S -> V] /\ Solves(S, F, R, G[y], y)
  /\ h \in [S -> V]
  /\ \A y \in D : h[y] = F[y][G[y]]

LEMMA SolutionsJoin ==
  ASSUME NEW S, NEW V, NEW F, NEW R, Ordered(R, S), Descends(S, V, F, R),
         NEW D, NEW G, NEW h, Joined(S, V, F, R, D, G, h)
  PROVE  \A y \in D : h[y] = F[y][h]
<1> SUFFICES ASSUME NEW y \in D PROVE h[y] = F[y][h]
  OBVIOUS
<1>0. /\ D \in SUBSET S
      /\ \A x \in D : \A z \in S : <<z, x>> \in R => z \in D
      /\ \A x \in D : G[x] \in [S -> V] /\ Solves(S, F, R, G[x], x)
      /\ h \in [S -> V]
      /\ \A x \in D : h[x] = F[x][G[x]]
  BY DEF Joined
<1>1. ASSUME NEW z \in S, <<z, y>> \in R PROVE G[y][z] = h[z]
  <2>1. z \in D /\ G[y] \in [S -> V] /\ G[z] \in [S -> V]
    BY <1>0, <1>1
  <2>2. G[y][z] = F[z][G[y]]
    BY <1>0, <1>1 DEF Solves
  <2>3. ASSUME NEW w \in S, <<w, z>> \in R PROVE G[y][w] = G[z][w]
    <3>1. <<w, y>> \in R
      BY <1>0, <1>1, <2>1, <2>3 DEF Ordered
    <3> QED BY <1>0, <2>1, <2>3, <3>1, SolutionsAgree
  <2>4. F[z][G[y]] = F[z][G[z]]
    BY <1>0, <2>1, <2>3 DEF Descends
  <2> QED BY <1>0, <2>1, <2>2, <2>4
<1>2. F[y][G[y]] = F[y][h]
  BY <1>0, <1>1 DEF Descends
<1> QED BY <1>0, <1>2

LEMMA SolutionBelow ==
  ASSUME NEW S, NEW V, NEW F, NEW R, Ordered(R, S), Descends(S, V, F, R)
  PROVE  \A x \in S : \E g \in [S -> V] : Solves(S, F, R, g, x)
<1> DEFINE T == {x \in S : ~\E g \in [S -> V] : Solves(S, F, R, g, x)}
<1> SUFFICES ASSUME T # {} PROVE FALSE
  OBVIOUS
<1>1. PICK x \in T : \A y \in T : <<y, x>> \notin R
  BY DEF Ordered
<1>2. x \in S /\ ~\E g \in [S -> V] : Solves(S, F, R, g, x)
  OBVIOUS
<1> DEFINE D == {y \in S : <<y, x>> \in R}
           G == [y \in D |-> CHOOSE g \in [S -> V] : Solves(S, F, R, g, y)]
<1>3. ASSUME NEW y \in D PROVE G[y] \in [S -> V] /\ Solves(S, F, R, G[y], y)
  BY <1>1
<1>4. PICK v \in V : TRUE
  BY DEF Descends
<1> DEFINE h == [y \in S |-> IF y \in D THEN F[y][G[y]] ELSE v]
<1> HIDE DEF G
<1>5. ASSUME NEW y \in D PROVE F[y][G[y]] \in V
  BY <1>3 DEF Descends
<1>6. D \in SUBSET S /\ \A y \in D : \A z \in S : <<z, y>> \in R => z \in D
  BY <1>2 DEF Ordered
<1> HIDE DEF D
<1>7. h \in [S -> V] /\ \A y \in D : h[y] = F[y][G[y]]
  BY <1>4, <1>5, <1>6
<1> HIDE DEF h
<1>8. \A y \in D : h[y] = F[y][h]
  BY <1>3, <1>6, <1>7, SolutionsJoin DEF Joined
<1>9. Solves(S, F, R, h, x)
  BY <1>8 DEF Solves, D
<1> QED BY <1>2, <1>7, <1>9

LEMMA Recursion ==
  ASSUME NEW S, NEW V, NEW F, NEW R, Ordered(R, S), Descends(S, V, F, R)
  PROVE  \E f \in [S -> V] : \A x \in S : f[x] = F[x][f]
<1> DEFINE G == [y \in S |-> CHOOSE g \in [S -> V] : Solves(S, F, R, g, y)]
           f == [y \in S |-> F[y][G[y]]]
<1>1. ASSUME NEW y \in S PROVE G[y] \in [S -> V] /\ Solves(S, F, R, G[y], y)
  BY SolutionBelow
<1> HIDE DEF G
<1>2. f \in [S -> V] /\ \A y \in S : f[y] = F[y][G[y]]
  BY <1>1 DEF Descends
<1> HIDE DEF f
<1>3. S \in SUBSET S /\ \A y \in S : \A z \in S : <<z, y>> \in R => z \in S
  OBVIOUS
<1>4. \A y \in S : f[y] = F[y][f]
  <2>1. \A y \in S : G[y] \in [S -> V] /\ Solves(S, F, R, G[y], y)
    BY <1>1
  <2>2. \A y \in S : f[y] = F[y][G[y]]
    BY <1>2
  <2>3. Joined(S, V, F, R, S, G, f)
    BY <1>2, <1>3, <2>1, <2>2 DEF Joined
  <2> QED BY <2>3, SolutionsJoin
<1> QED BY <1>2, <1>4

(***************************************************************************)
(* Places of a loop of the player, compared field by field.                 *)
(***************************************************************************)
RankType == [starts : Nat, loop : Nat, ahead : Nat, steps : Nat, entries : Nat, pulses : Nat]

\* Fewer loop starts or blocks are to come, or less of the block.
Onward(u, v) ==
  \/ u.starts < v.starts
  \/ /\ u.starts = v.starts
     /\ \/ u.loop < v.loop
        \/ u.loop = v.loop /\ (u.ahead < v.ahead \/ (u.ahead = v.ahead /\ u.steps < v.steps))

SameBlock(u, v) ==
  u.starts = v.starts /\ u.loop = v.loop /\ u.ahead = v.ahead /\ u.steps = v.steps

Below(u, v) ==
  \/ Onward(u, v)
  \/ SameBlock(u, v) /\ (u.entries < v.entries \/ (u.entries = v.entries /\ u.pulses < v.pulses))

LEMMA OnwardTransitive ==
  ASSUME NEW u \in RankType, NEW v \in RankType, NEW w \in RankType, Onward(u, v),
         Onward(v, w) \/ SameBlock(v, w)
  PROVE  Onward(u, w)
BY DEF RankType, Onward, SameBlock

LEMMA BelowTransitive ==
  ASSUME NEW u \in RankType, NEW v \in RankType, NEW w \in RankType, Below(u, v), Below(v, w)
  PROVE  Below(u, w)
BY DEF RankType, Onward, SameBlock, Below

\* The members of T with the least number.
LEMMA Narrow ==
  ASSUME NEW T, T # {}, NEW nu, \A x \in T : nu[x] \in Nat
  PROVE  \E U \in SUBSET T :
           /\ U # {}
           /\ \A x \in U, y \in T : nu[x] <= nu[y] /\ (nu[y] <= nu[x] => y \in U)
<1> DEFINE N == {nu[x] : x \in T}
<1>1. N \in SUBSET Nat /\ N # {}
  OBVIOUS
<1>2. PICK m \in N : \A n \in N : m <= n
  BY <1>1, Least
<1> DEFINE U == {x \in T : nu[x] = m}
<1>3. U \in SUBSET T /\ U # {}
  BY <1>2
<1>4. \A x \in U, y \in T : nu[x] <= nu[y] /\ (nu[y] <= nu[x] => y \in U)
  BY <1>1, <1>2
<1> QED BY <1>3, <1>4

LEMMA BelowOrdered ==
  ASSUME NEW S, NEW rank \in [S -> RankType]
  PROVE  Ordered({z \in S \X S : Below(rank[z[1]], rank[z[2]])}, S)
<1> DEFINE R == {z \in S \X S : Below(rank[z[1]], rank[z[2]])}
<1>1. \A x, y \in S : <<x, y>> \in R <=> Below(rank[x], rank[y])
  OBVIOUS
<1> HIDE DEF R
<1>2. ASSUME NEW x \in S, NEW y \in S, NEW z \in S, <<x, y>> \in R, <<y, z>> \in R
      PROVE  <<x, z>> \in R
  BY <1>1, <1>2, BelowTransitive
<1>3. ASSUME NEW T \in SUBSET S, T # {}
      PROVE  \E x \in T : \A y \in T : <<y, x>> \notin R
  <2> DEFINE n1 == [x \in S |-> rank[x].starts]
             n2 == [x \in S |-> rank[x].loop]
             n3 == [x \in S |-> rank[x].ahead]
             n4 == [x \in S |-> rank[x].steps]
             n5 == [x \in S |-> rank[x].entries]
             n6 == [x \in S |-> rank[x].pulses]
  <2>1. \A x \in S : /\ n1[x] = rank[x].starts /\ n2[x] = rank[x].loop /\ n3[x] = rank[x].ahead
                     /\ n4[x] = rank[x].steps /\ n5[x] = rank[x].entries /\ n6[x] = rank[x].pulses
    OBVIOUS
  <2>2. \A x \in S : /\ n1[x] \in Nat /\ n2[x] \in Nat /\ n3[x] \in Nat
                     /\ n4[x] \in Nat /\ n5[x] \in Nat /\ n6[x] \in Nat
    BY DEF RankType
  <2> HIDE DEF n1, n2, n3, n4, n5, n6
  <2>3. PICK A \in SUBSET T : /\ A # {}
                              /\ \A x \in A, y \in T : n1[x] <= n1[y] /\ (n1[y] <= n1[x] => y \in A)
    BY <1>3, <2>2, Narrow
  <2>4. PICK B \in SUBSET A : /\ B # {}
                              /\ \A x \in B, y \in A : n2[x] <= n2[y] /\ (n2[y] <= n2[x] => y \in B)
    <3>1. A # {} /\ \A x \in A : n2[x] \in Nat
      BY <2>2, <2>3
    <3> QED BY <3>1, Narrow
  <2>5. PICK C \in SUBSET B : /\ C # {}
                              /\ \A x \in C, y \in B : n3[x] <= n3[y] /\ (n3[y] <= n3[x] => y \in C)
    <3>1. B # {} /\ \A x \in B : n3[x] \in Nat
      BY <2>2, <2>4
    <3> QED BY <3>1, Narrow
  <2>6. PICK D \in SUBSET C : /\ D # {}
                              /\ \A x \in D, y \in C : n4[x] <= n4[y] /\ (n4[y] <= n4[x] => y \in D)
    <3>1. C # {} /\ \A x \in C : n4[x] \in Nat
      BY <2>2, <2>5
    <3> QED BY <3>1, Narrow
  <2>7. PICK E \in SUBSET D : /\ E # {}
                              /\ \A x \in E, y \in D : n5[x] <= n5[y] /\ (n5[y] <= n5[x] => y \in E)
    <3>1. D # {} /\ \A x \in D : n5[x] \in Nat
      BY <2>2, <2>6
    <3> QED BY <3>1, Narrow
  <2>8. PICK H \in SUBSET E : /\ H # {}
                              /\ \A x \in H, y \in E : n6[x] <= n6[y] /\ (n6[y] <= n6[x] => y \in H)
    <3>1. E # {} /\ \A x \in E : n6[x] \in Nat
      BY <2>2, <2>7
    <3> QED BY <3>1, Narrow
  <2>9. PICK x \in H : TRUE
    BY <2>8
  <2>10. x \in A /\ x \in B /\ x \in C /\ x \in D /\ x \in E /\ x \in S
    BY <2>9
  <2>11. ASSUME NEW y \in T PROVE <<y, x>> \notin R
    <3>1. y \in S
      OBVIOUS
    <3>2. n1[x] <= n1[y] /\ (n1[y] <= n1[x] => y \in A)
      BY <2>3, <2>10
    <3>3. y \in A => n2[x] <= n2[y] /\ (n2[y] <= n2[x] => y \in B)
      BY <2>4, <2>10
    <3>4. y \in B => n3[x] <= n3[y] /\ (n3[y] <= n3[x] => y \in C)
      BY <2>5, <2>10
    <3>5. y \in C => n4[x] <= n4[y] /\ (n4[y] <= n4[x] => y \in D)
      BY <2>6, <2>10
    <3>6. y \in D => n5[x] <= n5[y] /\ (n5[y] <= n5[x] => y \in E)
      BY <2>7, <2>10
    <3>7. y \in E => n6[x] <= n6[y]
      BY <2>8, <2>9
    <3>8. SUFFICES ASSUME Below(rank[y], rank[x]) PROVE FALSE
      BY <1>1, <2>10, <3>1
    <3>9. Below([starts |-> n1[y], loop |-> n2[y], ahead |-> n3[y], steps |-> n4[y], entries |-> n5[y], pulses |-> n6[y]],
                [starts |-> n1[x], loop |-> n2[x], ahead |-> n3[x], steps |-> n4[x], entries |-> n5[x], pulses |-> n6[x]])
      BY <2>1, <2>10, <3>1, <3>8 DEF Below, Onward, SameBlock
    <3> QED BY <2>2, <2>10, <3>1, <3>2, <3>3, <3>4, <3>5, <3>6, <3>7, <3>9
              DEF Below, Onward, SameBlock
  <2> QED BY <2>10, <2>11
<1>4. Ordered(R, S)
  BY <1>2, <1>3 DEF Ordered
<1> QED BY <1>4 DEF R

(***************************************************************************)
(* What the two halves of an iteration of tape_player_next() do to the      *)
(* place on the tape.                                                       *)
(***************************************************************************)
LEMMA PlayableIs ==
  ASSUME NEW t, NEW q
  PROVE  q \in Playable(t) <=> PlayerInv(t, q)
<1>1. q \in PlayerType => q.tg \in ToneGenType
  BY DEF PlayerType
<1> QED BY <1>1 DEF Playable, PlayerInv, At, GenOn, Gen, CurFits, SilentTape

LEMMA NotAtEnd ==
  ASSUME NEW tg, NEW n \in Nat, Programmed(tg, n), n > 0
  PROVE  ~IsEnd(tg)
BY DEF Programmed, IsEnd

LEMMA PauseSounds ==
  ASSUME NEW tg, Programmed(tg, 0), NEW ms \in Nat, ms > 0
  PROVE  ~IsEnd(ProgramPause(tg, ms))
<1>1. PauseMult \in Nat /\ 0 \in Level /\ 1 \in Level /\ ms - 1 \in Nat
  BY PlayerAssumption DEF Level
<1>2. PauseMult * ms \in Nat /\ PauseMult * (ms - 1) \in Nat
  BY <1>1
<1> DEFINE q == AddDPulse(tg, 1, PauseMult)
           r == AddDPulse(q, 0, PauseMult * (ms - 1))
           s == AddDPulse(tg, 0, PauseMult * ms)
<1>3. Programmed(q, 0 + 1)
  BY <1>1, AddDPulseProgram
<1>4. Programmed(q, 1)
  BY <1>3
<1> HIDE DEF q
<1>5. Programmed(r, 1 + 1)
  BY <1>1, <1>2, <1>4, AddDPulseProgram
<1>6. Programmed(s, 0 + 1)
  BY <1>1, <1>2, AddDPulseProgram
<1>7. ProgramPause(tg, ms) \in {r, s}
  BY DEF ProgramPause, q
<1> HIDE DEF r, s
<1>8. ~IsEnd(r)
  BY <1>5, NotAtEnd
<1>9. ~IsEnd(s)
  BY <1>6, NotAtEnd
<1> QED BY <1>7, <1>8, <1>9

(* The block being played has a pulse to give or will program one.          *)
Sounds(t, q) ==
  \/ ~IsEnd(q.tg)
  \/ LET b == t[q.cur]
     IN  /\ b.btype \in {"pure", "drec"}
         /\ \/ q.idx + 1 < Len(b.data)
            \/ q.idx < Len(b.data) /\ b.lbBits > 0
            \/ ~q.pauseDone /\ b.pause > 0

Signals == {"stop", "stop48"}

(* The first half: the next block becomes the current one, is passed, or    *)
(* sends the player back to the body of a loop.                             *)
Enters(t, q, r) ==
  /\ r.cur = q.nxt /\ r.nxt = NoBlock
  /\ r.loop = q.loop \/ r.loop = 0 \/ t[q.nxt].btype = "lstart"
  /\ r.sig = IF t[q.nxt].btype \in Signals THEN t[q.nxt].btype ELSE q.sig
  /\ PassedOver(t[q.nxt]) \/ Sounds(t, r)

Skips(t, q, r) ==
  /\ r.cur = NoBlock /\ r.nxt = TapeNext(t, q.nxt)
  /\ r.loop = q.loop /\ r.sig = q.sig
  /\ PassedOver(t[q.nxt]) /\ t[q.nxt].btype \notin Signals

Jumps(t, q, r) ==
  /\ r.cur = NoBlock /\ r.nxt = LoopBody(t, q.nxt)
  /\ r.loop = q.loop - 1 /\ q.loop > 1 /\ r.sig = q.sig

LEMMA TakeBlockMoves ==
  ASSUME NEW t \in Seq(Block), NEW q0, PlayerInv(t, q0), q0.cur = NoBlock, q0.nxt # NoBlock
  PROVE  LET r == TakeBlock(t, q0)
         IN  Enters(t, q0, r) \/ Skips(t, q0, r) \/ Jumps(t, q0, r)
<1> DEFINE q == [q0 EXCEPT !.cur = q0.nxt, !.nxt = NoBlock]
           b == t[q.cur]
           r == TakeBlock(t, q0)
<1>1. q0 \in PlayerType /\ q0.nxt \in Nat /\ q0.nxt \in 1 .. Len(t)
  BY BlocksOfTape DEF PlayerInv, At, NoBlock
<1>2. /\ q \in PlayerType /\ q.cur # NoBlock /\ q.cur = q0.nxt /\ q.nxt = NoBlock
      /\ q.sig = q0.sig /\ q.loop = q0.loop /\ q.tg = q0.tg /\ q.tg \in ToneGenType
      /\ q.idx \in Nat /\ q.loop \in Nat
  BY <1>1 DEF PlayerType, NoBlock
<1>3. r = CASE b.btype = "data"   -> DataInit(q, b)
            [] b.btype = "turbo"  -> TurboInit(q, b)
            [] b.btype = "tone"   -> ToneInit(q, b)
            [] b.btype = "pulses" -> PulsesInit(t, q, b)
            [] b.btype = "pure"   -> PureInit(q)
            [] b.btype = "drec"   -> DirectInit(q)
            [] b.btype = "pause"  -> PauseInit(q, b)
            [] b.btype = "stop"   -> StopInit(q)
            [] b.btype = "lstart" -> LoopStartInit(q, b)
            [] b.btype = "lend"   -> LoopEndInit(t, q)
            [] b.btype = "stop48" -> Stop48Init(q)
            [] b.btype = "other"  -> EndBlock(t, q)
  BY DEF TakeBlock
<1> HIDE DEF q
<1>4. b \in Block /\ b = t[q0.nxt]
  BY <1>1, <1>2, BlocksOfTape
<1> HIDE DEF b, r
<1>5. ASSUME r.cur = q.cur, r.nxt = q.nxt, r.loop = q.loop, r.sig = q.sig, b.btype \notin Signals,
             PassedOver(b) \/ Sounds(t, r)
      PROVE  Enters(t, q0, r)
  BY <1>2, <1>4, <1>5 DEF Enters
<1>6. Programmed(Clear(q.tg), 0)
  BY <1>2, ClearProgram
<1>10. CASE b.btype = "data"
  <2> DEFINE np == IF IsHeader(b.data[1]) THEN RomPilotPulsesH ELSE RomPilotPulsesD
             tg == PilotAndSync(q.tg, RomPilotLen, np, RomSync1Len, RomSync2Len)
  <2>1. np \in Nat
    BY Capacity
  <2> HIDE DEF np
  <2>2. Programmed(tg, 3)
    BY <1>2, <2>1, PilotProgram, Capacity
  <2> HIDE DEF tg
  <2>3. ~IsEnd(tg)
    BY <2>2, NotAtEnd
  <2>4. r = [q EXCEPT !.tg = tg, !.idx = 0, !.pauseDone = FALSE]
    BY <1>3, <1>10 DEF DataInit, tg, np
  <2>5. r.cur = q.cur /\ r.nxt = q.nxt /\ r.loop = q.loop /\ r.sig = q.sig /\ r.tg = tg
    BY <1>2, <2>4 DEF PlayerType
  <2>6. Sounds(t, r)
    BY <2>3, <2>5 DEF Sounds
  <2>7. Enters(t, q0, r)
    BY <1>5, <1>10, <2>5, <2>6 DEF Signals
  <2> QED BY <2>7 DEF r
<1>11. CASE b.btype = "turbo"
  <2> DEFINE tg == PilotAndSync(q.tg, b.pilotLen, b.pilotPulses, b.sync1, b.sync2)
  <2>1. b.pilotLen \in Nat /\ b.pilotPulses \in Nat /\ b.sync1 \in Nat /\ b.sync2 \in Nat
    BY <1>4, <1>11, BlockFields DEF TurboBlock
  <2>2. Programmed(tg, 3)
    BY <1>2, <2>1, PilotProgram
  <2> HIDE DEF tg
  <2>3. ~IsEnd(tg)
    BY <2>2, NotAtEnd
  <2>4. r = [q EXCEPT !.tg = tg, !.idx = 0, !.pauseDone = FALSE]
    BY <1>3, <1>11 DEF TurboInit, tg
  <2>5. r.cur = q.cur /\ r.nxt = q.nxt /\ r.loop = q.loop /\ r.sig = q.sig /\ r.tg = tg
    BY <1>2, <2>4 DEF PlayerType
  <2>6. Sounds(t, r)
    BY <2>3, <2>5 DEF Sounds
  <2>7. Enters(t, q0, r)
    BY <1>5, <1>11, <2>5, <2>6 DEF Signals
  <2> QED BY <2>7 DEF r
<1>12. CASE b.btype \in {"pure", "drec"}
  <2>1. b.data \in Seq(Byte) /\ Len(b.data) \in Nat /\ b.pause \in Nat /\ b.lbBits \in Nat
    BY <1>4, <1>12, BlockFields, Capacity DEF PureBlock, DirectBlock
  <2>2. r = [q EXCEPT !.tg = Clear(@), !.idx = 0, !.pauseDone = FALSE]
    BY <1>3, <1>12 DEF PureInit, DirectInit
  <2>3. /\ r.cur = q.cur /\ r.nxt = q.nxt /\ r.loop = q.loop /\ r.sig = q.sig
        /\ r.idx = 0 /\ ~r.pauseDone
    BY <1>2, <2>2 DEF PlayerType
  <2>4. PassedOver(b) \/ Sounds(t, r)
    <3>1. SUFFICES ASSUME ~PassedOver(b) PROVE Sounds(t, r)
      OBVIOUS
    <3>2. b.pause > 0 \/ (b.data # <<>> /\ ~(Len(b.data) = 1 /\ b.lbBits = 0))
      BY <1>12, <2>1, <3>1 DEF PassedOver
    <3>3. t[r.cur] = b
      BY <1>2, <1>4, <2>3
    <3>4. b.data # <<>> => Len(b.data) > 0
      BY <2>1
    <3> DEFINE n == Len(b.data)
               l == b.lbBits
    <3>5. /\ n \in Nat /\ l \in Nat
          /\ b.pause > 0 \/ (n > 0 /\ ~(n = 1 /\ l = 0))
      BY <2>1, <3>2, <3>4
    <3> HIDE DEF n, l
    <3>6. b.pause > 0 \/ 0 + 1 < n \/ (0 < n /\ l > 0)
      BY <3>5
    <3> QED BY <1>12, <2>3, <3>3, <3>6 DEF Sounds, n, l
  <2>5. Enters(t, q0, r)
    BY <1>5, <1>12, <2>3, <2>4 DEF Signals
  <2> QED BY <2>5 DEF r
<1>13. CASE b.btype = "tone"
  <2> DEFINE tg == AddTone(Clear(q.tg), b.len, b.np)
  <2>1. b.len \in Nat /\ b.np \in Nat
    BY <1>4, <1>13, BlockFields DEF ToneBlock
  <2>2. Programmed(tg, 0 + 1)
    BY <1>6, <2>1, AddToneProgram
  <2> HIDE DEF tg
  <2>3. ~IsEnd(tg)
    BY <2>2, NotAtEnd
  <2>4. r = [q EXCEPT !.tg = tg]
    BY <1>3, <1>13 DEF ToneInit, tg
  <2>5. r.cur = q.cur /\ r.nxt = q.nxt /\ r.loop = q.loop /\ r.sig = q.sig /\ r.tg = tg
    BY <1>2, <2>4 DEF PlayerType
  <2>6. Sounds(t, r)
    BY <2>3, <2>5 DEF Sounds
  <2>7. Enters(t, q0, r)
    BY <1>5, <1>13, <2>5, <2>6 DEF Signals
  <2> QED BY <2>7 DEF r
<1>14. CASE b.btype = "pulses"
  <2> DEFINE s == [q EXCEPT !.idx = 0]
             tg == AddTone(Clear(q.tg), b.lens[1], 1)
             u == [s EXCEPT !.tg = tg, !.idx = 1]
  <2>1. b.lens \in Seq(Nat) /\ b.lens # <<>> /\ Len(b.lens) \in Nat /\ Len(b.lens) > 0
    BY <1>4, <1>14, BlockFields DEF PulsesBlock
  <2>2. /\ s \in PlayerType /\ s.cur = q.cur /\ s.nxt = q.nxt /\ s.loop = q.loop /\ s.sig = q.sig
        /\ s.idx = 0 /\ s.tg = q.tg
    BY <1>2 DEF PlayerType
  <2>3. r = PulsesNext(t, s, b)
    BY <1>3, <1>14 DEF PulsesInit
  <2> HIDE DEF s
  <2>4. CASE ~IsEnd(q.tg)
    BY <1>5, <1>14, <2>2, <2>3, <2>4 DEF PulsesNext, Sounds, Signals, r
  <2>5. CASE IsEnd(q.tg)
    <3>1. b.lens[1] \in Nat
      BY <2>1
    <3>2. Programmed(tg, 0 + 1)
      BY <1>6, <3>1, AddToneProgram
    <3>3. r = IF 1 >= Len(b.lens) THEN EndBlock(t, u) ELSE u
      BY <2>2, <2>3, <2>5 DEF PlayerType, PulsesNext
    <3> HIDE DEF tg
    <3>4. ~IsEnd(tg)
      BY <3>2, NotAtEnd
    <3>5. /\ u.cur = q.cur /\ u.nxt = q.nxt /\ u.loop = q.loop /\ u.sig = q.sig /\ u.tg = tg
          /\ u = [s EXCEPT !.tg = tg, !.idx = 1]
      BY <2>2 DEF PlayerType
    <3>6. CASE 1 >= Len(b.lens)
      <4> DEFINE n == Len(b.lens)
      <4>0. n \in Nat /\ n > 0 /\ 1 >= n
        BY <2>1, <3>6
      <4> HIDE DEF n
      <4>5. n = 1
        BY <4>0
      <4>1. Len(b.lens) = 1
        BY <4>5 DEF n
      <4>2. r.cur = NoBlock /\ r.nxt = TapeNext(t, q.cur) /\ r.loop = q.loop /\ r.sig = q.sig
        BY <2>2, <3>3, <3>5, <3>6 DEF EndBlock, PlayerType
      <4>3. PassedOver(b)
        BY <1>14, <4>1 DEF PassedOver
      <4>4. Skips(t, q0, r)
        BY <1>2, <1>4, <1>14, <4>2, <4>3 DEF Skips, Signals
      <4> QED BY <4>4 DEF r
    <3>7. CASE ~(1 >= Len(b.lens))
      <4>1. r = u
        BY <3>3, <3>7
      <4> HIDE DEF u
      <4>2. Sounds(t, r)
        BY <3>4, <3>5, <4>1 DEF Sounds
      <4>3. Enters(t, q0, r)
        BY <1>5, <1>14, <3>5, <4>1, <4>2 DEF Signals
      <4> QED BY <4>3 DEF r
    <3> QED BY <3>6, <3>7
  <2> QED BY <2>4, <2>5
<1>15. CASE b.btype = "pause"
  <2> DEFINE tg == ProgramPause(Clear(q.tg), b.pause)
  <2>1. b.pause \in Nat
    BY <1>4, <1>15, BlockFields DEF PauseBlock
  <2>2. b.pause > 0 => ~IsEnd(tg)
    BY <1>6, <2>1, PauseSounds
  <2>3. r = [q EXCEPT !.tg = tg]
    BY <1>3, <1>15 DEF PauseInit
  <2> HIDE DEF tg
  <2>4. r.cur = q.cur /\ r.nxt = q.nxt /\ r.loop = q.loop /\ r.sig = q.sig /\ r.tg = tg
    BY <1>2, <2>3 DEF PlayerType
  <2>5. PassedOver(b) \/ Sounds(t, r)
    BY <1>15, <2>1, <2>2, <2>4 DEF Sounds, PassedOver
  <2>6. Enters(t, q0, r)
    BY <1>5, <1>15, <2>4, <2>5 DEF Signals
  <2> QED BY <2>6 DEF r
<1>16. CASE b.btype \in Signals
  <2>1. r = [q EXCEPT !.sig = b.btype]
    BY <1>3, <1>16 DEF StopInit, Stop48Init, Signals
  <2>2. r.cur = q.cur /\ r.nxt = q.nxt /\ r.loop = q.loop /\ r.sig = b.btype
    BY <1>2, <2>1 DEF PlayerType
  <2>3. PassedOver(b)
    BY <1>16 DEF PassedOver, Silent, Signals
  <2>4. Enters(t, q0, r)
    BY <1>2, <1>4, <1>16, <2>2, <2>3 DEF Enters
  <2> QED BY <2>4 DEF r
<1>17. CASE b.btype = "lstart"
  BY <1>2, <1>3, <1>4, <1>17 DEF LoopStartInit, PlayerType, PassedOver, Silent, Enters, Signals, r
<1>18. CASE b.btype = "lend"
  <2>1. r = LoopEndInit(t, q)
    BY <1>3, <1>18
  <2>2. CASE q.loop > 1
    BY <1>2, <2>1, <2>2 DEF LoopEndInit, PlayerType, Jumps, r
  <2>3. CASE ~(q.loop > 1)
    BY <1>2, <1>4, <1>18, <2>1, <2>3 DEF LoopEndInit, PlayerType, PassedOver, Silent, Enters,
         Signals, r
  <2> QED BY <2>2, <2>3
<1>19. CASE b.btype = "other"
  BY <1>2, <1>3, <1>4, <1>19 DEF EndBlock, PlayerType, PassedOver, Silent, Skips, Signals, r
<1>20. b.btype \in {"data", "turbo", "pure", "drec", "tone", "pulses", "pause", "lstart",
                    "stop", "stop48", "lend", "other"}
  BY <1>4, BlockFields
<1> QED
  BY <1>10, <1>11, <1>12, <1>13, <1>14, <1>15, <1>16, <1>17, <1>18, <1>19, <1>20 DEF Signals

(* The second half: the block waits for its pulses to be played, ends, or   *)
(* goes on with another program.                                            *)
StepsLeft(t, q) ==
  LET b == t[q.cur]
  IN  IF q.cur = NoBlock THEN 0
      ELSE IF b.btype \in HasBytes THEN 1 + Len(b.data) - q.idx + (IF q.pauseDone THEN 0 ELSE 1)
      ELSE IF b.btype = "pulses" THEN 1 + Len(b.lens) - q.idx
      ELSE 1

Stays(q, r) == r = q /\ ~IsEnd(q.tg)

Ends(t, q, r) ==
  r.cur = NoBlock /\ r.nxt = TapeNext(t, q.cur) /\ r.loop = q.loop /\ r.sig = q.sig

GoesOn(t, q, r) ==
  /\ r.cur = q.cur /\ r.nxt = q.nxt /\ r.loop = q.loop /\ r.sig = q.sig
  /\ StepsLeft(t, r) < StepsLeft(t, q)

\* What is to sound is not left before it is programmed.
KeepsSound(t, q, r) == Sounds(t, q) => ~IsEnd(r.tg) \/ (r.cur = q.cur /\ Sounds(t, r))

Moves(t, q, r) == (Stays(q, r) \/ Ends(t, q, r) \/ GoesOn(t, q, r)) /\ KeepsSound(t, q, r)

LEMMA EndBlockMoves ==
  ASSUME NEW t, NEW q \in PlayerType
  PROVE  Ends(t, q, EndBlock(t, q)) /\ EndBlock(t, q).tg = q.tg
BY DEF Ends, EndBlock, PlayerType

(* `programmed' has a pulse whenever there is a bit to play.                *)
LEMMA BytesNextMoves ==
  ASSUME NEW t \in Seq(Block), NEW q, PlayerInv(t, q), q.cur # NoBlock, NEW programmed,
         t[q.cur].btype \in HasBytes, t[q.cur].data \in Seq(Byte), t[q.cur].pause \in Nat,
         q.idx < Len(t[q.cur].data)
           => /\ programmed \in ToneGenType
              /\ \/ ~IsEnd(programmed)
                 \/ q.idx + 1 = Len(t[q.cur].data) /\ ~(t[q.cur].lbBits > 0)
  PROVE  Moves(t, q, BytesNext(t, q, t[q.cur], programmed))
<1> DEFINE b == t[q.cur]
           n == Len(b.data)
           r == BytesNext(t, q, b, programmed)
<1>1. q \in PlayerType /\ q.idx \in Nat /\ q.tg \in ToneGenType /\ n \in Nat /\ q.idx <= n
  BY DEF PlayerInv, CurFits, Fits, PlayerType
<1>2. StepsLeft(t, q) = 1 + n - q.idx + (IF q.pauseDone THEN 0 ELSE 1)
  BY DEF StepsLeft
<1>3. ASSUME NEW s, s.cur = q.cur
      PROVE  StepsLeft(t, s) = 1 + n - s.idx + (IF s.pauseDone THEN 0 ELSE 1)
  BY <1>3 DEF StepsLeft
<1> HIDE DEF r
<1>4. CASE ~IsEnd(q.tg)
  BY <1>4 DEF BytesNext, r, Moves, Stays, KeepsSound
<1>5. CASE IsEnd(q.tg) /\ q.idx < n
  <2>1. r = [q EXCEPT !.tg = programmed, !.idx = @ + 1]
    BY <1>5 DEF BytesNext, r
  <2>2. /\ r.cur = q.cur /\ r.nxt = q.nxt /\ r.loop = q.loop /\ r.sig = q.sig /\ r.tg = programmed
        /\ r.idx = q.idx + 1 /\ r.pauseDone = q.pauseDone
    BY <1>1, <2>1 DEF PlayerType
  <2>3. StepsLeft(t, r) < StepsLeft(t, q)
    <3>1. StepsLeft(t, r) = 1 + n - (q.idx + 1) + (IF q.pauseDone THEN 0 ELSE 1)
      BY <1>3, <2>2
    <3> HIDE DEF n
    <3> QED BY <1>1, <1>2, <3>1
  <2>4. KeepsSound(t, q, r)
    <3>1. SUFFICES ASSUME Sounds(t, q) PROVE ~IsEnd(r.tg) \/ (r.cur = q.cur /\ Sounds(t, r))
      BY DEF KeepsSound
    <3>2. CASE ~IsEnd(programmed)
      BY <2>2, <3>2
    <3>3. CASE q.idx + 1 = n /\ ~(b.lbBits > 0)
      BY <1>1, <1>5, <2>2, <3>1, <3>3 DEF Sounds
    <3> QED BY <1>5, <3>2, <3>3
  <2>5. Moves(t, q, r)
    BY <2>2, <2>3, <2>4 DEF Moves, GoesOn
  <2> QED BY <2>5 DEF r
<1>6. CASE IsEnd(q.tg) /\ ~(q.idx < n) /\ ~q.pauseDone
  <2> DEFINE tg == ProgramPause(Clear(q.tg), b.pause)
  <2>1. r = [q EXCEPT !.tg = tg, !.pauseDone = TRUE]
    BY <1>6 DEF BytesNext, r
  <2>2. b.pause > 0 => ~IsEnd(tg)
    BY <1>1, ClearProgram, PauseSounds
  <2> HIDE DEF tg
  <2>3. /\ r.cur = q.cur /\ r.nxt = q.nxt /\ r.loop = q.loop /\ r.sig = q.sig /\ r.tg = tg
        /\ r.idx = q.idx /\ r.pauseDone = TRUE
    BY <1>1, <2>1 DEF PlayerType
  <2>4. StepsLeft(t, r) < StepsLeft(t, q)
    <3>1. StepsLeft(t, r) = 1 + n - q.idx + 0
      BY <1>3, <2>3
    <3>2. StepsLeft(t, q) = 1 + n - q.idx + 1
      BY <1>2, <1>6
    <3> HIDE DEF n
    <3> QED BY <1>1, <3>1, <3>2
  <2>5. KeepsSound(t, q, r)
    BY <1>1, <1>6, <2>2, <2>3 DEF KeepsSound, Sounds
  <2>6. Moves(t, q, r)
    BY <2>3, <2>4, <2>5 DEF Moves, GoesOn
  <2> QED BY <2>6 DEF r
<1>7. CASE IsEnd(q.tg) /\ ~(q.idx < n) /\ q.pauseDone
  BY <1>1, <1>7, EndBlockMoves DEF BytesNext, r, KeepsSound, Sounds, Moves
<1> QED BY <1>4, <1>5, <1>6, <1>7

LEMMA PulsesNextMoves ==
  ASSUME NEW t \in Seq(Block), NEW q, PlayerInv(t, q), q.cur # NoBlock, t[q.cur] \in PulsesBlock
  PROVE  Moves(t, q, PulsesNext(t, q, t[q.cur]))
<1> DEFINE b == t[q.cur]
           n == Len(b.lens)
           tg == AddTone(Clear(q.tg), b.lens[q.idx + 1], 1)
           s == [q EXCEPT !.tg = AddTone(Clear(@), b.lens[q.idx + 1], 1), !.idx = @ + 1]
           r == PulsesNext(t, q, b)
<1>1. b.btype = "pulses" /\ b.lens \in Seq(Nat) /\ n \in Nat
  BY DEF PulsesBlock
<1>2. q \in PlayerType /\ q.idx \in Nat /\ q.tg \in ToneGenType /\ q.idx < n
  BY <1>1 DEF PlayerInv, CurFits, Fits, PlayerType
<1>3. /\ s.cur = q.cur /\ s.nxt = q.nxt /\ s.loop = q.loop /\ s.sig = q.sig
      /\ s.idx = q.idx + 1 /\ s.tg = tg
  BY <1>2 DEF PlayerType
<1>4. ~IsEnd(tg)
  <2>1. b.lens[q.idx + 1] \in Nat
    <3>1. q.idx + 1 \in 1 .. n
      BY <1>1, <1>2
    <3> HIDE DEF b
    <3> QED BY <1>1, <3>1
  <2>2. Programmed(tg, 0 + 1)
    BY <1>2, <2>1, ClearProgram, AddToneProgram
  <2> HIDE DEF tg
  <2> QED BY <2>2, NotAtEnd
<1> HIDE DEF r, tg
<1>5. CASE ~IsEnd(q.tg)
  BY <1>5 DEF PulsesNext, r, Moves, Stays, KeepsSound
<1>6. CASE IsEnd(q.tg) /\ s.idx >= n
  BY <1>2, <1>3, <1>4, <1>6 DEF PulsesNext, r, EndBlock, PlayerType, Moves, Ends, KeepsSound
<1>7. CASE IsEnd(q.tg) /\ ~(s.idx >= n)
  <2>1. r = s
    BY <1>7 DEF PulsesNext, r
  <2> HIDE DEF s
  <2>2. /\ StepsLeft(t, q) = 1 + n - q.idx
        /\ StepsLeft(t, r) = 1 + n - (q.idx + 1)
    BY <1>1, <1>3, <2>1 DEF StepsLeft, HasBytes
  <2>3. StepsLeft(t, r) < StepsLeft(t, q)
    <3> HIDE DEF n
    <3> QED BY <1>1, <1>2, <2>2
  <2>4. Moves(t, q, r)
    BY <1>3, <1>4, <2>1, <2>3 DEF Moves, GoesOn, KeepsSound
  <2> QED BY <2>4 DEF r
<1> QED BY <1>5, <1>6, <1>7

LEMMA PlayBlockMoves ==
  ASSUME NEW t \in Seq(Block), NEW q, PlayerInv(t, q), q.cur # NoBlock
  PROVE  Moves(t, q, PlayBlock(t, q))
<1> DEFINE b == t[q.cur]
           nb == NumBits(q, b)
<1>1. /\ q \in PlayerType /\ Fits(b, q.idx)
      /\ q.cur \in 1 .. Len(t) /\ q.tg \in ToneGenType /\ q.idx \in Nat
  BY BlocksOfTape DEF PlayerInv, CurFits, At, NoBlock, PlayerType
<1>2. b \in Block /\ b = t[q.cur] /\ Programmed(Clear(q.tg), 0)
  BY <1>1, BlocksOfTape, ClearProgram
<1>3. PlayBlock(t, q) =
        CASE b.btype = "data"   -> DataNext(t, q, b)
          [] b.btype = "turbo"  -> TurboNext(t, q, b)
          [] b.btype = "pulses" -> PulsesNext(t, q, b)
          [] b.btype = "pure"   -> PureNext(t, q, b)
          [] b.btype = "drec"   -> DirectNext(t, q, b)
          [] b.btype \in {"tone", "pause", "stop", "lstart", "lend", "stop48"} ->
               EndBlock(t, q)
  BY DEF PlayBlock
<1> HIDE DEF b
<1>4. ASSUME NEW tg, b.btype \in HasBytes, b.data \in Seq(Byte), b.pause \in Nat,
             q.idx < Len(b.data)
               => \E n \in Nat :
                    /\ Programmed(tg, n)
                    /\ n > 0 \/ (q.idx + 1 = Len(b.data) /\ ~(b.lbBits > 0))
      PROVE  Moves(t, q, BytesNext(t, q, b, tg))
  <2>1. q.idx < Len(b.data)
          => tg \in ToneGenType
             /\ (~IsEnd(tg) \/ (q.idx + 1 = Len(b.data) /\ ~(b.lbBits > 0)))
    <3>1. SUFFICES ASSUME q.idx < Len(b.data)
                   PROVE  tg \in ToneGenType
                          /\ (~IsEnd(tg) \/ (q.idx + 1 = Len(b.data) /\ ~(b.lbBits > 0)))
      OBVIOUS
    <3>2. PICK n \in Nat : /\ Programmed(tg, n)
                           /\ n > 0 \/ (q.idx + 1 = Len(b.data) /\ ~(b.lbBits > 0))
      BY <1>4, <3>1
    <3>3. tg \in ToneGenType
      BY <3>2 DEF Programmed
    <3>4. n > 0 => ~IsEnd(tg)
      BY <3>2, NotAtEnd
    <3> QED BY <3>2, <3>3, <3>4
  <2> QED BY <1>2, <1>4, <2>1, BytesNextMoves
<1>5. ASSUME b.data \in Seq(Byte), b.lbBits \in 0 .. ByteBits, q.idx < Len(b.data)
      PROVE  nb \in 0 .. ByteBits /\ nb \in Nat
             /\ (nb > 0 \/ (q.idx + 1 = Len(b.data) /\ ~(b.lbBits > 0)))
  <2>1. ByteBits \in Nat \ {0} /\ Len(b.data) \in Nat
    BY <1>5, PlayerAssumption
  <2>2. nb = IF q.idx < Len(b.data) - 1 THEN ByteBits ELSE b.lbBits
    BY DEF NumBits
  <2> HIDE DEF nb
  <2>3. nb \in 0 .. ByteBits /\ nb \in Nat
    BY <1>5, <2>1, <2>2
  <2>4. nb > 0 \/ (q.idx + 1 = Len(b.data) /\ ~(b.lbBits > 0))
    BY <1>1, <1>5, <2>1, <2>2
  <2> QED BY <2>3, <2>4
<1> HIDE DEF nb
<1>10. CASE b.btype = "data"
  <2> DEFINE tg == ProgramBits(Clear(q.tg), b.data[q.idx + 1], ByteBits, RomOneLen, RomZeroLen)
  <2>1. b.data \in Seq(Byte) /\ b.pause \in Nat /\ RomOneLen \in Nat /\ RomZeroLen \in Nat
    BY <1>2, <1>10, BlockFields, Capacity DEF DataBlock
  <2>2. ByteBits \in 0 .. ByteBits /\ ByteBits \in Nat /\ ByteBits > 0
    BY PlayerAssumption
  <2>3. Programmed(tg, ByteBits)
    BY <1>2, <2>1, <2>2, BitsProgram
  <2> HIDE DEF tg
  <2>4. b.btype \in HasBytes
    BY <1>10 DEF HasBytes
  <2>5. Moves(t, q, BytesNext(t, q, b, tg))
    BY <1>4, <2>1, <2>2, <2>3, <2>4
  <2> QED BY <1>3, <1>10, <2>5 DEF DataNext, tg
<1>11. CASE b.btype \in {"turbo", "pure"}
  <2> DEFINE tg == ProgramBits(Clear(q.tg), b.data[q.idx + 1], NumBits(q, b), b.one, b.zero)
  <2>1. b.data \in Seq(Byte) /\ b.pause \in Nat /\ b.one \in Nat /\ b.zero \in Nat
        /\ b.lbBits \in 0 .. ByteBits
    BY <1>2, <1>11, BlockFields DEF TurboBlock, PureBlock
  <2>2. ASSUME nb \in 0 .. ByteBits PROVE Programmed(tg, nb)
    BY <1>2, <2>1, <2>2, BitsProgram DEF nb
  <2> HIDE DEF tg
  <2>3. b.btype \in HasBytes
    BY <1>11 DEF HasBytes
  <2>4. q.idx < Len(b.data)
          => \E n \in Nat : Programmed(tg, n)
                            /\ (n > 0 \/ (q.idx + 1 = Len(b.data) /\ ~(b.lbBits > 0)))
    BY <1>5, <2>1, <2>2
  <2>5. Moves(t, q, BytesNext(t, q, b, tg))
    BY <1>4, <2>1, <2>3, <2>4
  <2> QED BY <1>3, <1>11, <2>5 DEF TurboNext, PureNext, tg
<1>13. CASE b.btype = "drec"
  <2> DEFINE tg == ProgramDirectBits(Clear(q.tg), b.data[q.idx + 1], NumBits(q, b), b.smpDur)
  <2>1. b.data \in Seq(Byte) /\ Len(b.data) \in Nat /\ b.pause \in Nat /\ b.smpDur \in Nat
        /\ b.lbBits \in 0 .. ByteBits
    BY <1>2, <1>13, BlockFields DEF DirectBlock
  <2>2. ASSUME q.idx < Len(b.data), nb \in 0 .. ByteBits PROVE Programmed(tg, nb)
    BY <1>1, <1>2, <2>1, <2>2, DirectBitsProgram DEF nb
  <2> HIDE DEF tg
  <2>3. b.btype \in HasBytes
    BY <1>13 DEF HasBytes
  <2>4. q.idx < Len(b.data)
          => \E n \in Nat : Programmed(tg, n)
                            /\ (n > 0 \/ (q.idx + 1 = Len(b.data) /\ ~(b.lbBits > 0)))
    BY <1>5, <2>1, <2>2
  <2>5. Moves(t, q, BytesNext(t, q, b, tg))
    BY <1>4, <2>1, <2>3, <2>4
  <2> QED BY <1>3, <1>13, <2>5 DEF DirectNext, tg
<1>14. CASE b.btype = "pulses"
  BY <1>2, <1>3, <1>14, BlockFields, PulsesNextMoves
<1>15. CASE b.btype \in {"tone", "pause", "stop", "lstart", "lend", "stop48"}
  BY <1>1, <1>2, <1>3, <1>15, EndBlockMoves DEF KeepsSound, Sounds, Moves
<1>16. b.btype \in {"data", "turbo", "pure", "drec", "tone", "pulses", "pause", "lstart",
                    "stop", "stop48", "lend"}
  BY <1>1, <1>2, BlockFields DEF Fits
<1> QED BY <1>10, <1>11, <1>13, <1>14, <1>15, <1>16

(***************************************************************************)
(* Where a loop goes back to.                                               *)
(***************************************************************************)
IsBody(t, b, m) ==
  /\ m \in 1 .. b
  /\ m = 1 \/ t[m - 1].btype = "lstart"
  /\ \A i \in m .. b - 1 : t[i].btype # "lstart"

LEMMA OneBody ==
  ASSUME NEW t, NEW b \in Nat, NEW m, NEW n, IsBody(t, b, m), IsBody(t, b, n)
  PROVE  m = n
BY DEF IsBody

LEMMA LoopBodyIs ==
  ASSUME NEW t, NEW b \in Nat \ {0}
  PROVE  IsBody(t, b, LoopBody(t, b))
<1> DEFINE starts == {i \in 1 .. b - 1 : t[i].btype = "lstart"}
<1>1. CASE starts = {}
  BY <1>1 DEF LoopBody, IsBody
<1>2. CASE starts # {}
  <2>1. b - 1 \in Nat /\ starts \in SUBSET (0 .. b - 1)
    OBVIOUS
  <2>2. \E i \in starts : \A j \in starts : j <= i
    BY <1>2, <2>1, Greatest
  <2> DEFINE i == CHOOSE i \in starts : \A j \in starts : j <= i
  <2>3. i \in starts /\ \A j \in starts : j <= i
    BY <2>2
  <2>4. LoopBody(t, b) = 1 + i
    BY <1>2 DEF LoopBody
  <2> HIDE DEF i
  <2>5. i \in 1 .. b - 1 /\ t[i].btype = "lstart" /\ (1 + i) - 1 = i /\ 1 + i \in 1 .. b
    BY <2>3
  <2>6. ASSUME NEW k \in 1 + i .. b - 1 PROVE t[k].btype # "lstart"
    BY <2>3, <2>5
  <2>7. IsBody(t, b, 1 + i)
    BY <2>5, <2>6 DEF IsBody
  <2> QED BY <2>4, <2>7
<1> QED BY <1>1, <1>2

LEMMA LoopBodyMoves ==
  ASSUME NEW t, NEW b \in Nat \ {0}
  PROVE  /\ LoopBody(t, b) \in 1 .. b
         /\ LoopBody(t, b + 1) = IF t[b].btype = "lstart" THEN b + 1 ELSE LoopBody(t, b)
         /\ LoopBody(t, LoopBody(t, b)) = LoopBody(t, b)
<1> DEFINE m == LoopBody(t, b)
<1>1. IsBody(t, b, m)
  BY LoopBodyIs
<1>2. IsBody(t, b + 1, LoopBody(t, b + 1))
  BY LoopBodyIs
<1> HIDE DEF m
<1>3. m \in 1 .. b /\ m \in Nat \ {0}
  BY <1>1 DEF IsBody
<1>4. IsBody(t, m, m)
  BY <1>1, <1>3 DEF IsBody
<1>5. LoopBody(t, m) = m
  BY <1>3, <1>4, LoopBodyIs, OneBody
<1>6. CASE t[b].btype = "lstart"
  BY <1>2, <1>3, <1>5, <1>6, OneBody DEF IsBody, m
<1>7. CASE t[b].btype # "lstart"
  <2>1. IsBody(t, b + 1, m)
    BY <1>1, <1>3, <1>7 DEF IsBody
  <2>2. LoopBody(t, b + 1) = m
    BY <1>2, <2>1, OneBody
  <2> QED BY <1>3, <1>5, <1>7, <2>2 DEF m
<1> QED BY <1>6, <1>7

(***************************************************************************)
(* The loops of tape_player_next() and tape_sampler_getsmp() end: a loop    *)
(* start is not passed twice but by a loop's way back, which counts down.   *)
(***************************************************************************)
Passed(t, q) ==
  IF q.cur # NoBlock THEN q.cur - 1 ELSE IF q.nxt # NoBlock THEN q.nxt - 1 ELSE Len(t)

Taken(t, q) == IF q.cur # NoBlock THEN q.cur ELSE Passed(t, q)

Rank(t, q) ==
  [starts |-> Len(t) + 1 - LoopBody(t, Taken(t, q) + 1), loop |-> q.loop,
   ahead |-> Len(t) - Taken(t, q), steps |-> StepsLeft(t, q),
   entries |-> Len(q.tg.prog) - q.tg.tidx, pulses |-> q.tg.rem]

LEMMA PlacesType ==
  ASSUME NEW t \in Seq(Block), NEW q, PlayerInv(t, q)
  PROVE  /\ Len(t) \in Nat /\ q.cur \in 0 .. Len(t) /\ q.nxt \in 0 .. Len(t)
         /\ Passed(t, q) \in 0 .. Len(t) /\ Taken(t, q) \in 0 .. Len(t)
BY BlocksOfTape DEF PlayerInv, At, Passed, Taken, NoBlock

LEMMA StepsLeftType ==
  ASSUME NEW t \in Seq(Block), NEW q, PlayerInv(t, q)
  PROVE  StepsLeft(t, q) \in Nat /\ (q.cur # NoBlock => StepsLeft(t, q) > 0)
<1> DEFINE b == t[q.cur]
<1>1. CASE q.cur = NoBlock
  BY <1>1 DEF StepsLeft
<1>2. CASE q.cur # NoBlock
  <2>1. q.cur \in 1 .. Len(t) /\ q.idx \in Nat /\ Fits(b, q.idx)
    BY <1>2, PlacesType DEF NoBlock, PlayerInv, CurFits, PlayerType
  <2>2. b \in Block
    BY <2>1, BlocksOfTape
  <2>3. CASE b.btype \in HasBytes
    <3>1. b.data \in Seq(Byte)
      <4> HIDE DEF b
      <4> QED BY <2>2, <2>3, BlockFields DEF HasBytes, DataBlock, TurboBlock, PureBlock, DirectBlock
    <3>2. Len(b.data) \in Nat /\ q.idx <= Len(b.data)
      BY <2>1, <2>3, <3>1 DEF Fits
    <3>3. StepsLeft(t, q) = 1 + Len(b.data) - q.idx + (IF q.pauseDone THEN 0 ELSE 1)
      BY <1>2, <2>3 DEF StepsLeft
    <3> DEFINE n == Len(b.data)
               e == IF q.pauseDone THEN 0 ELSE 1
    <3>4. n \in Nat /\ q.idx <= n /\ e \in Nat /\ StepsLeft(t, q) = 1 + n - q.idx + e
      BY <3>2, <3>3
    <3> HIDE DEF n, e
    <3> QED BY <2>1, <3>4
  <2>4. CASE b.btype = "pulses"
    <3>1. b.lens \in Seq(Nat)
      <4> HIDE DEF b
      <4> QED BY <2>2, <2>4, BlockFields DEF PulsesBlock
    <3>2. Len(b.lens) \in Nat /\ q.idx < Len(b.lens)
      BY <2>1, <2>4, <3>1 DEF Fits
    <3>3. StepsLeft(t, q) = 1 + Len(b.lens) - q.idx
      BY <1>2, <2>4 DEF StepsLeft, HasBytes
    <3> DEFINE n == Len(b.lens)
    <3> HIDE DEF n
    <3> QED BY <2>1, <3>2, <3>3 DEF n
  <2>5. CASE b.btype \notin HasBytes /\ b.btype # "pulses"
    BY <1>2, <2>5 DEF StepsLeft
  <2> QED BY <2>3, <2>4, <2>5
<1> QED BY <1>1, <1>2

LEMMA RankIs ==
  ASSUME NEW t \in Seq(Block), NEW q, PlayerInv(t, q)
  PROVE  Rank(t, q) \in RankType
<1>1. Len(t) \in Nat /\ Taken(t, q) \in 0 .. Len(t) /\ StepsLeft(t, q) \in Nat
  BY PlacesType, StepsLeftType
<1>2. Taken(t, q) + 1 \in Nat \ {0}
  BY <1>1
<1>3. LoopBody(t, Taken(t, q) + 1) \in 1 .. Taken(t, q) + 1
  BY <1>2, LoopBodyMoves
<1>4. q.loop \in Nat /\ q.tg.rem \in Nat /\ q.tg.tidx \in Nat /\ Len(q.tg.prog) \in Nat
      /\ q.tg.tidx <= Len(q.tg.prog)
  BY DEF PlayerInv, PlayerType, GenOn, Gen, ToneGenType
<1>5. Len(t) + 1 - LoopBody(t, Taken(t, q) + 1) \in Nat /\ Len(t) - Taken(t, q) \in Nat
  BY <1>1, <1>3
<1>6. Len(q.tg.prog) - q.tg.tidx \in Nat
  BY <1>4
<1> QED BY <1>1, <1>4, <1>5, <1>6 DEF Rank, RankType

LEMMA TakeOnward ==
  ASSUME NEW t \in Seq(Block), NEW q, PlayerInv(t, q), q.cur = NoBlock, q.nxt # NoBlock
  PROVE  Onward(Rank(t, TakeBlock(t, q)), Rank(t, q))
<1> DEFINE r == TakeBlock(t, q)
           b == q.nxt
           n == Len(t)
<1>1. n \in Nat /\ b \in 1 .. n /\ b \in Nat \ {0} /\ q.loop \in Nat
  BY PlacesType DEF NoBlock, PlayerInv, PlayerType
<1>2. Taken(t, q) = b - 1 /\ (b - 1) + 1 = b
  BY <1>1 DEF Taken, Passed, NoBlock
<1>3. Enters(t, q, r) \/ Skips(t, q, r) \/ Jumps(t, q, r)
  BY TakeBlockMoves
<1> HIDE DEF r
<1>4. /\ Rank(t, q).starts = n + 1 - LoopBody(t, b)
      /\ Rank(t, q).loop = q.loop /\ Rank(t, q).ahead = n - (b - 1)
      /\ Rank(t, q).steps = StepsLeft(t, q)
  BY <1>2 DEF Rank
<1>5. /\ Rank(t, r).starts = n + 1 - LoopBody(t, Taken(t, r) + 1)
      /\ Rank(t, r).loop = r.loop /\ Rank(t, r).ahead = n - Taken(t, r)
      /\ Rank(t, r).steps = StepsLeft(t, r)
  BY DEF Rank
<1>6. /\ LoopBody(t, b) \in 1 .. b
      /\ LoopBody(t, b + 1) = IF t[b].btype = "lstart" THEN b + 1 ELSE LoopBody(t, b)
      /\ LoopBody(t, LoopBody(t, b)) = LoopBody(t, b)
  BY <1>1, LoopBodyMoves
<1>7. CASE (Enters(t, q, r) \/ Skips(t, q, r))
  <2>1. Taken(t, r) = b
    BY <1>1, <1>7 DEF Enters, Taken, NoBlock, Skips, Passed, TapeNext
  <2>2. r.loop = q.loop \/ r.loop = 0 \/ t[b].btype = "lstart"
    BY <1>7 DEF Enters, Skips
  <2> DEFINE m == LoopBody(t, b)
  <2>3. m \in 1 .. b
    BY <1>6
  <2>4. /\ Rank(t, r).starts = n + 1 - (IF t[b].btype = "lstart" THEN b + 1 ELSE m)
        /\ Rank(t, r).ahead = n - b
    BY <1>5, <1>6, <2>1
  <2>5. Rank(t, q).starts = n + 1 - m
    BY <1>4
  <2> HIDE DEF m, b, n
  <2>6. CASE t[b].btype = "lstart"
    BY <1>1, <2>3, <2>4, <2>5, <2>6 DEF Onward, r
  <2>7. CASE t[b].btype # "lstart"
    <3>1. Onward(Rank(t, r), Rank(t, q))
      BY <1>1, <1>4, <1>5, <2>2, <2>3, <2>4, <2>5, <2>7 DEF Onward
    <3> QED BY <3>1 DEF r
  <2> QED BY <2>6, <2>7
<1>8. CASE Jumps(t, q, r)
  <2> DEFINE m == LoopBody(t, b)
  <2>1. r.cur = NoBlock /\ r.nxt = m /\ r.loop = q.loop - 1 /\ q.loop > 1
    BY <1>8 DEF Jumps
  <2>2. m \in 1 .. b /\ LoopBody(t, m) = m
    BY <1>6
  <2>3. Rank(t, q).starts = n + 1 - m
    BY <1>4
  <2> HIDE DEF m, b
  <2>4. Taken(t, r) = m - 1 /\ (m - 1) + 1 = m
    BY <1>1, <2>1, <2>2 DEF Taken, Passed, NoBlock
  <2>5. Rank(t, r).starts = n + 1 - m
    BY <1>5, <2>2, <2>4
  <2> QED BY <1>1, <1>4, <1>5, <2>1, <2>3, <2>5 DEF Onward, r
<1> QED BY <1>3, <1>7, <1>8

LEMMA PlayOnward ==
  ASSUME NEW t \in Seq(Block), NEW q, PlayerInv(t, q), q.cur # NoBlock,
         ~Stays(q, PlayBlock(t, q))
  PROVE  Onward(Rank(t, PlayBlock(t, q)), Rank(t, q))
<1> DEFINE r == PlayBlock(t, q)
           n == Len(t)
<1>1. n \in Nat /\ q.cur \in 1 .. n /\ StepsLeft(t, q) > 0
  BY PlacesType, StepsLeftType DEF NoBlock
<1>2. Ends(t, q, r) \/ GoesOn(t, q, r)
  BY PlayBlockMoves DEF Moves
<1> HIDE DEF r
<1>3. Taken(t, r) = Taken(t, q)
  BY <1>1, <1>2 DEF Ends, Taken, Passed, TapeNext, NoBlock, GoesOn
<1>4. StepsLeft(t, r) < StepsLeft(t, q) /\ r.loop = q.loop
  BY <1>1, <1>2 DEF Ends, StepsLeft, GoesOn
<1>5. /\ Rank(t, r).starts = Rank(t, q).starts /\ Rank(t, r).loop = Rank(t, q).loop
      /\ Rank(t, r).ahead = Rank(t, q).ahead /\ Rank(t, r).steps < Rank(t, q).steps
  BY <1>3, <1>4 DEF Rank
<1> QED BY <1>5 DEF Onward, r

LEMMA GetNextBelow ==
  ASSUME NEW t \in Seq(Block), NEW q, PlayerInv(t, q), CanGetNext(q.tg)
  PROVE  LET r == [q EXCEPT !.tg = GetNext(q.tg)]
         IN  SameBlock(Rank(t, r), Rank(t, q)) /\ Below(Rank(t, r), Rank(t, q))
<1> DEFINE tg == q.tg
           r == [q EXCEPT !.tg = GetNext(q.tg)]
<1>1. q \in PlayerType /\ tg \in ToneGenType /\ tg.rem \in Nat /\ tg.tidx \in Nat /\ Len(tg.prog) \in Nat
      /\ tg.tidx <= Len(tg.prog)
  BY DEF PlayerInv, PlayerType, GenOn, Gen, ToneGenType
<1>2. /\ r.cur = q.cur /\ r.nxt = q.nxt /\ r.loop = q.loop /\ r.idx = q.idx
      /\ r.pauseDone = q.pauseDone /\ r.tg = GetNext(tg)
  BY <1>1 DEF PlayerType
<1>3. GetNext(tg).prog = tg.prog
      /\ \/ GetNext(tg).tidx = tg.tidx /\ GetNext(tg).rem = tg.rem - 1 /\ tg.rem > 0
         \/ GetNext(tg).tidx > tg.tidx /\ GetNext(tg).tidx <= Len(tg.prog) /\ GetNext(tg).tidx \in Nat
  <2> DEFINE u == TakeEntry(tg)
  <2>1. GetNext(tg) = [u EXCEPT !.cur = EndLevel(u), !.rem = @ - 1]
    BY DEF GetNext
  <2>2. CASE tg.rem > 0
    BY <1>1, <2>1, <2>2 DEF TakeEntry, ToneGenType
  <2>3. CASE ~(tg.rem > 0)
    <3>1. Sounding(tg) # {} /\ Sounding(tg) \in SUBSET Nat
      BY <1>1, <2>3 DEF CanGetNext, Sounding
    <3>2. \E k \in Sounding(tg) : \A j \in Sounding(tg) : k <= j
      BY <3>1, Least
    <3> DEFINE i == CHOOSE k \in Sounding(tg) : \A j \in Sounding(tg) : k <= j
    <3>3. i \in Sounding(tg)
      BY <3>2
    <3>4. u = [tg EXCEPT !.tidx    = i,
                         !.rem     = tg.prog[i].np,
                         !.clen    = tg.prog[i].len,
                         !.cdirect = tg.prog[i].direct,
                         !.cur     = IF tg.prog[i].direct THEN tg.prog[i].lvl ELSE @]
      BY <2>3 DEF TakeEntry
    <3> HIDE DEF i
    <3>5. i \in Nat /\ i > tg.tidx /\ i <= Len(tg.prog)
      BY <1>1, <3>3 DEF Sounding
    <3>6. u \in [DOMAIN tg -> UNION {{u[f]} : f \in DOMAIN tg}] /\ u.tidx = i /\ u.prog = tg.prog
      BY <1>1, <3>4 DEF ToneGenType
    <3>7. GetNext(tg).tidx = i /\ GetNext(tg).prog = tg.prog
      <4> DEFINE e1 == tg.prog[i].np
                 e2 == tg.prog[i].len
                 e3 == tg.prog[i].direct
                 e4 == IF tg.prog[i].direct THEN tg.prog[i].lvl ELSE tg.cur
                 e5 == EndLevel(u)
      <4>1. GetNext(tg) = [[tg EXCEPT !.tidx = i, !.rem = e1, !.clen = e2, !.cdirect = e3,
                                      !.cur = e4] EXCEPT !.cur = e5, !.rem = @ - 1]
        BY <2>1, <3>4
      <4> HIDE DEF e1, e2, e3, e4, e5
      <4> QED BY <1>1, <4>1 DEF ToneGenType
    <3> QED BY <3>5, <3>7
  <2> QED BY <2>2, <2>3
<1> HIDE DEF r
<1>4. Taken(t, r) = Taken(t, q) /\ StepsLeft(t, r) = StepsLeft(t, q)
  BY <1>2 DEF Taken, Passed, StepsLeft
<1>5. SameBlock(Rank(t, r), Rank(t, q))
  BY <1>2, <1>4 DEF SameBlock, Rank
<1>6. Rank(t, r).entries < Rank(t, q).entries
      \/ (Rank(t, r).entries = Rank(t, q).entries /\ Rank(t, r).pulses < Rank(t, q).pulses)
  BY <1>1, <1>2, <1>3 DEF Rank
<1> QED BY <1>5, <1>6 DEF Below, r

(* The recursive function of PlayerNext.                                    *)
FeedStep(t, u, q) ==
  IF q.cur # NoBlock
  THEN LET r == PlayBlock(t, q) IN IF Hungry(r) THEN u[r] ELSE r
  ELSE IF q.nxt # NoBlock THEN u[TakeBlock(t, q)] ELSE q

Feeds(t, u) == u = [q \in Playable(t) |-> FeedStep(t, u, q)]

Feed(t) == CHOOSE u : Feeds(t, u)

LEMMA PlayerNextIsFeed ==
  ASSUME NEW t, NEW q
  PROVE  PlayerNext(t, q) = IF Hungry(q) THEN Feed(t)[q] ELSE q
BY DEF PlayerNext, Feed, Feeds, FeedStep

\* The places of the players on t are ordered.
Descent(t) ==
  {z \in Playable(t) \X Playable(t) : Below(Rank(t, z[1]), Rank(t, z[2]))}

LEMMA DescentOrdered ==
  ASSUME NEW t \in Seq(Block)
  PROVE  Ordered(Descent(t), Playable(t))
<1> DEFINE rank == [q \in Playable(t) |-> Rank(t, q)]
<1>1. ASSUME NEW q \in Playable(t) PROVE Rank(t, q) \in RankType
  BY PlayableIs, RankIs
<1>2. rank \in [Playable(t) -> RankType]
  BY <1>1
<1>3. Descent(t) = {z \in Playable(t) \X Playable(t) : Below(rank[z[1]], rank[z[2]])}
  BY DEF Descent
<1> HIDE DEF rank
<1> QED BY <1>2, <1>3, BelowOrdered

LEMMA StepsDescend ==
  ASSUME NEW t \in Seq(Block), NEW q \in Playable(t)
  PROVE  /\ q.cur # NoBlock => PlayBlock(t, q) \in Playable(t)
         /\ q.cur # NoBlock /\ ~Stays(q, PlayBlock(t, q)) => <<PlayBlock(t, q), q>> \in Descent(t)
         /\ q.cur # NoBlock /\ Hungry(PlayBlock(t, q)) => <<PlayBlock(t, q), q>> \in Descent(t)
         /\ q.cur = NoBlock /\ q.nxt # NoBlock
              => TakeBlock(t, q) \in Playable(t) /\ <<TakeBlock(t, q), q>> \in Descent(t)
BY PlayableIs, PlayBlockKeeps, PlayOnward, TakeBlockKeeps, TakeOnward DEF Below, Descent, Stays,
     Hungry

LEMMA FeedExists ==
  ASSUME NEW t \in Seq(Block)
  PROVE  Feeds(t, Feed(t))
<1> DEFINE S == Playable(t)
           F == [q \in S |-> [u \in [S -> S] |-> FeedStep(t, u, q)]]
<1>1. CASE S = {}
  <2> DEFINE u == [q \in S |-> q]
  <2>1. u = [q \in S |-> FeedStep(t, u, q)]
    BY <1>1
  <2>2. Feeds(t, u)
    BY <2>1 DEF Feeds
  <2> QED BY <2>2 DEF Feed
<1>2. CASE S # {}
  <2>1. Ordered(Descent(t), S)
    BY DescentOrdered
  <2>2. ASSUME NEW q \in S, NEW u \in [S -> S] PROVE FeedStep(t, u, q) \in S
    <3>1. /\ q.cur # NoBlock => PlayBlock(t, q) \in S
          /\ q.cur = NoBlock /\ q.nxt # NoBlock => TakeBlock(t, q) \in S
      BY StepsDescend
    <3> HIDE DEF S
    <3> QED BY <2>2, <3>1 DEF FeedStep
  <2>3. ASSUME NEW q \in S, NEW g \in [S -> S], NEW h \in [S -> S],
               \A y \in S : <<y, q>> \in Descent(t) => g[y] = h[y]
        PROVE  FeedStep(t, g, q) = FeedStep(t, h, q)
    <3>1. /\ q.cur # NoBlock => PlayBlock(t, q) \in S
          /\ q.cur # NoBlock /\ Hungry(PlayBlock(t, q)) => <<PlayBlock(t, q), q>> \in Descent(t)
          /\ q.cur = NoBlock /\ q.nxt # NoBlock
               => TakeBlock(t, q) \in S /\ <<TakeBlock(t, q), q>> \in Descent(t)
      BY StepsDescend
    <3> HIDE DEF S
    <3> QED BY <2>3, <3>1 DEF FeedStep
  <2>4. F \in [S -> [[S -> S] -> S]] /\ \A q \in S : \A g \in [S -> S] : F[q][g] = FeedStep(t, g, q)
    BY <2>2
  <2> HIDE DEF F
  <2>5. Descends(S, S, F, Descent(t))
    <3>1. \A q \in S : \A g, h \in [S -> S] :
            (\A y \in S : <<y, q>> \in Descent(t) => g[y] = h[y]) => F[q][g] = F[q][h]
      <4>1. SUFFICES ASSUME NEW q \in S, NEW g \in [S -> S], NEW h \in [S -> S],
                            \A y \in S : <<y, q>> \in Descent(t) => g[y] = h[y]
                     PROVE  F[q][g] = F[q][h]
        OBVIOUS
      <4>2. FeedStep(t, g, q) = FeedStep(t, h, q)
        BY <2>3, <4>1
      <4> HIDE DEF S
      <4> QED BY <2>4, <4>2
    <3> HIDE DEF S
    <3> QED BY <1>2, <2>4, <3>1 DEF Descends
  <2> HIDE DEF S
  <2>6. PICK u \in [S -> S] : \A q \in S : u[q] = F[q][u]
    BY <2>1, <2>5, Recursion
  <2>7. u = [q \in S |-> FeedStep(t, u, q)]
    BY <2>4, <2>6
  <2>8. Feeds(t, u)
    BY <2>7 DEF Feeds, S
  <2> QED BY <2>8 DEF Feed
<1> QED BY <1>1, <1>2

(* What the loops of tape_player_next() keep, and what they leave with.     *)
LoopsKeep(t, A, B) ==
  /\ A \in SUBSET Playable(t)
  /\ \A q \in A :
       /\ q.cur # NoBlock => PlayBlock(t, q) \in (IF Hungry(PlayBlock(t, q)) THEN A ELSE B)
       /\ q.cur = NoBlock /\ q.nxt # NoBlock => TakeBlock(t, q) \in A
       /\ q.cur = NoBlock /\ q.nxt = NoBlock => q \in B

LEMMA PlayerNextRule ==
  ASSUME NEW t \in Seq(Block), NEW A, NEW B, LoopsKeep(t, A, B), NEW q \in A, Hungry(q)
  PROVE  PlayerNext(t, q) \in B
<1> DEFINE u == Feed(t)
           T == {x \in A : u[x] \notin B}
<1>1. Feeds(t, u)
  BY FeedExists
<1> HIDE DEF u
<1>2. \A x \in Playable(t) : u[x] = FeedStep(t, u, x)
  BY <1>1 DEF Feeds
<1>3. A \in SUBSET Playable(t)
  BY DEF LoopsKeep
<1>4. ASSUME T # {} PROVE FALSE
  <2>1. T \in SUBSET Playable(t) /\ Ordered(Descent(t), Playable(t))
    BY <1>3, DescentOrdered
  <2>2. PICK x \in T : \A y \in T : <<y, x>> \notin Descent(t)
    <3> HIDE DEF T
    <3> QED BY <1>4, <2>1 DEF Ordered
  <2>3. x \in A /\ x \in Playable(t) /\ u[x] \notin B
    BY <2>1, <2>2
  <2>4. \A y \in A : <<y, x>> \in Descent(t) => u[y] \in B
    BY <2>2
  <2> HIDE DEF T
  <2>5. u[x] = FeedStep(t, u, x)
    BY <1>2, <2>3
  <2>6. /\ x.cur # NoBlock /\ Hungry(PlayBlock(t, x)) => <<PlayBlock(t, x), x>> \in Descent(t)
        /\ x.cur = NoBlock /\ x.nxt # NoBlock => <<TakeBlock(t, x), x>> \in Descent(t)
    BY <2>3, StepsDescend
  <2>7. CASE x.cur # NoBlock
    BY <2>3, <2>4, <2>5, <2>6, <2>7 DEF FeedStep, LoopsKeep
  <2>8. CASE x.cur = NoBlock /\ x.nxt # NoBlock
    BY <2>3, <2>4, <2>5, <2>6, <2>8 DEF FeedStep, LoopsKeep
  <2>9. CASE x.cur = NoBlock /\ x.nxt = NoBlock
    BY <2>3, <2>5, <2>9 DEF FeedStep, LoopsKeep
  <2> QED BY <2>7, <2>8, <2>9
<1>5. u[q] \in B
  BY <1>4
<1> QED BY <1>5, PlayerNextIsFeed DEF u

\* Where tape_player_next() returns: it has come on, or found the tape at its end.
Fed(t, q, r) ==
  /\ PlayerInv(t, r)
  /\ ~Hungry(r) \/ (r.cur = NoBlock /\ r.nxt = NoBlock)
  /\ Hungry(r) \/ Onward(Rank(t, r), Rank(t, q))

LEMMA PlayerNextFeeds ==
  ASSUME NEW t \in Seq(Block), NEW q, PlayerInv(t, q), Hungry(q)
  PROVE  Fed(t, q, PlayerNext(t, q))
<1> DEFINE A == {x \in Playable(t) : x = q \/ Onward(Rank(t, x), Rank(t, q))}
           B == {r \in Playable(t) : Fed(t, q, r)}
<1>1. ASSUME NEW x \in Playable(t) PROVE PlayerInv(t, x) /\ Rank(t, x) \in RankType
  BY PlayableIs, RankIs
<1>2. q \in Playable(t)
  BY PlayableIs
<1>3. ASSUME NEW x \in A, NEW y \in Playable(t), Onward(Rank(t, y), Rank(t, x))
      PROVE  Onward(Rank(t, y), Rank(t, q))
  BY <1>1, <1>2, <1>3, OnwardTransitive
<1>4. LoopsKeep(t, A, B)
  <2>1. ASSUME NEW x \in A, x.cur # NoBlock
        PROVE  PlayBlock(t, x) \in (IF Hungry(PlayBlock(t, x)) THEN A ELSE B)
    <3> DEFINE r == PlayBlock(t, x)
    <3>1. x \in Playable(t) /\ PlayerInv(t, x) /\ (x = q \/ Onward(Rank(t, x), Rank(t, q)))
      BY <1>1
    <3>2. r \in Playable(t) /\ PlayerInv(t, r)
      BY <2>1, <3>1, StepsDescend, <1>1
    <3>3. Onward(Rank(t, r), Rank(t, q))
      <4>1. CASE Stays(x, r)
        BY <3>1, <4>1 DEF Stays, Hungry
      <4>2. CASE ~Stays(x, r)
        <5>1. Onward(Rank(t, r), Rank(t, x))
          BY <2>1, <3>1, <4>2, PlayOnward
        <5> HIDE DEF r, A
        <5> QED BY <1>3, <3>2, <5>1
      <4> QED BY <4>1, <4>2
    <3> HIDE DEF r
    <3>4. r \in (IF Hungry(r) THEN A ELSE B)
      BY <3>2, <3>3 DEF Fed
    <3> QED BY <3>4 DEF r
  <2>2. ASSUME NEW x \in A, x.cur = NoBlock, x.nxt # NoBlock PROVE TakeBlock(t, x) \in A
    <3>1. x \in Playable(t) /\ PlayerInv(t, x)
      BY <1>1
    <3>2. TakeBlock(t, x) \in Playable(t)
      BY <2>2, <3>1, StepsDescend
    <3>3. Onward(Rank(t, TakeBlock(t, x)), Rank(t, x))
      BY <2>2, <3>1, TakeOnward
    <3>4. Onward(Rank(t, TakeBlock(t, x)), Rank(t, q))
      <4> HIDE DEF A
      <4> QED BY <1>3, <3>2, <3>3
    <3> QED BY <3>2, <3>4
  <2>3. ASSUME NEW x \in A, x.cur = NoBlock, x.nxt = NoBlock PROVE x \in B
    BY <1>1, <2>3 DEF Fed
  <2>4. A \in SUBSET Playable(t)
    OBVIOUS
  <2> HIDE DEF A, B
  <2> QED BY <2>1, <2>2, <2>3, <2>4 DEF LoopsKeep
<1>5. q \in A
  BY <1>2
<1>6. PlayerNext(t, q) \in B
  <2> HIDE DEF A, B
  <2> QED BY <1>4, <1>5, PlayerNextRule
<1> QED BY <1>6

(* tape_player_next() returns: no tape, whatever its loops, hangs the       *)
(* emulator, and when it returns there is a pulse or a signal to give or    *)
(* the tape is at its end.                                                  *)
LEMMA PlayerNextReturns ==
  ASSUME NEW t \in Seq(Block), NEW q, PlayerInv(t, q)
  PROVE  LET r == PlayerNext(t, q)
         IN  PlayerInv(t, r) /\ (Hungry(r) => r.cur = NoBlock /\ r.nxt = NoBlock)
BY PlayerNextFeeds, PlayerNextIsFeed DEF Fed

(***************************************************************************)
(* The sampler.                                                             *)
(***************************************************************************)
Told == Signal \cup {"abort"}

(* tape_player_get_next() after tape_player_next().                         *)
Gives(t, q, e) ==
  /\ e.delay \in Nat /\ e.lvl \in Level /\ e.sig \in Told
  /\ e.sig # "abort" =>
       /\ PlayerInv(t, e.p) /\ e.sig = q.sig /\ e.p.sig = "none"
       /\ e.p.cur = q.cur /\ e.p.nxt = q.nxt
  /\ e.sig = "abort" => SilentTape(t) /\ e.p = q
  /\ e.sig = "none" => Below(Rank(t, e.p), Rank(t, q))

LEMMA PlayerGives ==
  ASSUME NEW t \in Seq(Block), NEW q, PlayerInv(t, q), ~Hungry(q)
  PROVE  Gives(t, q, PlayerGetNext(q))
<1> DEFINE e == PlayerGetNext(q)
           tg == GetNext(q.tg)
           lvl == q.tg.cur
<1>1. q \in PlayerType /\ q.sig \in Signal /\ At(t, q) /\ GenOn(t, q.tg) /\ CurFits(t, q) /\ Gen(q.tg)
  BY DEF PlayerInv, PlayerType, GenOn
<1>2. lvl \in Level
  BY <1>1 DEF Gen, ToneGenType
<1> HIDE DEF e, lvl
<1>3. CASE q.sig # "none"
  <2> DEFINE p1 == [q EXCEPT !.sig = "none"]
             sig == q.sig
  <2>1. e = [p |-> p1, delay |-> 0, lvl |-> lvl, sig |-> sig]
    BY <1>3 DEF PlayerGetNext, e, lvl
  <2>2. p1 \in PlayerType /\ p1.cur = q.cur /\ p1.nxt = q.nxt /\ p1.tg = q.tg /\ p1.idx = q.idx
        /\ p1.sig = "none"
    BY <1>1 DEF PlayerType, Signal
  <2> HIDE DEF p1, sig
  <2>3. PlayerInv(t, p1)
    BY <1>1, <2>2 DEF PlayerInv, At, CurFits
  <2>4. e.p = p1 /\ e.delay = 0 /\ e.lvl = lvl /\ e.sig = sig /\ sig = q.sig
    BY <2>1 DEF sig
  <2>5. e.sig \in Told /\ e.sig # "abort" /\ e.sig # "none"
    BY <1>1, <1>3, <2>4 DEF Told, Signal
  <2>6. Gives(t, q, e)
    BY <1>2, <2>2, <2>3, <2>4, <2>5 DEF Gives
  <2> QED BY <2>6 DEF e
<1>4. CASE q.sig = "none" /\ ~CanGetNext(q.tg)
  BY <1>1, <1>2, <1>4, SoundsOn DEF PlayerGetNext, e, lvl, Hungry, GenOn, Gives, Told
<1>5. CASE q.sig = "none" /\ CanGetNext(q.tg)
  <2> DEFINE p1 == [q EXCEPT !.tg = tg]
  <2>1. e = [p |-> p1, delay |-> tg.clen, lvl |-> tg.cur, sig |-> "none"]
    BY <1>5 DEF PlayerGetNext, e
  <2>2. Gen(tg) /\ tg.prog = q.tg.prog
    BY <1>1, <1>5, GetNextKeeps
  <2>3. Below(Rank(t, p1), Rank(t, q))
    BY <1>5, GetNextBelow
  <2> HIDE DEF tg
  <2>4. tg \in ToneGenType /\ GenOn(t, tg)
    BY <1>1, <2>2 DEF GenOn, Gen, LastSounds
  <2>5. p1 \in PlayerType /\ p1.cur = q.cur /\ p1.nxt = q.nxt /\ p1.tg = tg /\ p1.idx = q.idx
        /\ p1.sig = q.sig
    BY <1>1, <2>4 DEF PlayerType
  <2> HIDE DEF p1
  <2>6. PlayerInv(t, p1)
    BY <1>1, <2>4, <2>5 DEF PlayerInv, At, CurFits
  <2>7. e.p = p1 /\ e.delay = tg.clen /\ e.lvl = tg.cur /\ e.sig = "none"
    BY <2>1
  <2>8. tg.clen \in Nat /\ tg.cur \in Level
    BY <2>4 DEF ToneGenType
  <2>9. Gives(t, q, e)
    BY <1>5, <2>3, <2>5, <2>6, <2>7, <2>8 DEF Gives, Told, Signal
  <2> QED BY <2>9 DEF e
<1> QED BY <1>3, <1>4, <1>5

(* The recursive function of CatchUp: a place is a player, the sampler, and *)
(* the ticks that are left.                                                 *)
Places(t) == Playable(t) \X SamplerType \X Nat

Outcomes(t) == [p : Playable(t), s : SamplerType, sig : Told]

Fetched(t, x) == PlayerGetNext(PlayerNext(t, x[1]))

Onto(t, x) ==
  <<Fetched(t, x).p,
    [lvl |-> x[2].next, delay |-> Fetched(t, x).delay, next |-> Fetched(t, x).lvl],
    x[3] - x[2].delay>>

GoesRound(t, x) ==
  /\ ~(x[2].delay > x[3]) /\ ~Hungry(PlayerNext(t, x[1]))
  /\ Fetched(t, x).sig = "none"

Outcome(t, x) ==
  IF x[2].delay > x[3]
  THEN [p |-> x[1], s |-> [x[2] EXCEPT !.delay = @ - x[3]], sig |-> "none"]
  ELSE IF Hungry(PlayerNext(t, x[1]))
  THEN [p |-> PlayerNext(t, x[1]), s |-> x[2], sig |-> "none"]
  ELSE LET y == Onto(t, x)
       IN  [p |-> Fetched(t, x).p, sig |-> Fetched(t, x).sig,
            s |-> IF y[2].delay > y[3] THEN [y[2] EXCEPT !.delay = @ - y[3]] ELSE y[2]]

RunStep(t, u, x) == IF GoesRound(t, x) THEN u[Onto(t, x)] ELSE Outcome(t, x)

Runs(t, u) == u = [x \in Places(t) |-> RunStep(t, u, x)]

Run(t) == CHOOSE u : Runs(t, u)

\* The body of `run' in CatchUp.
RunBody(t, u, x) ==
  LET smp  == x[2]
      td   == x[3]
      q    == PlayerNext(t, x[1])
      e    == PlayerGetNext(q)
      n    == [lvl |-> smp.next, delay |-> e.delay, next |-> e.lvl]
      togo == td - smp.delay
  IN  IF smp.delay > td
      THEN [p |-> x[1], s |-> [smp EXCEPT !.delay = @ - td], sig |-> "none"]
      ELSE IF Hungry(q) THEN [p |-> q, s |-> smp, sig |-> "none"]
      ELSE IF e.sig = "none" THEN u[<<e.p, n, togo>>]
      ELSE [p |-> e.p, sig |-> e.sig,
            s |-> IF n.delay > togo THEN [n EXCEPT !.delay = @ - togo] ELSE n]

LEMMA RunBodyIsStep ==
  ASSUME NEW t, NEW u, NEW x
  PROVE  RunBody(t, u, x) = RunStep(t, u, x)
<1> DEFINE q == PlayerNext(t, x[1])
           e == PlayerGetNext(q)
           n == [lvl |-> x[2].next, delay |-> e.delay, next |-> e.lvl]
           togo == x[3] - x[2].delay
<1>1. Fetched(t, x) = e
  BY DEF Fetched
<1>2. Onto(t, x) = <<e.p, n, togo>>
  BY <1>1 DEF Onto
<1>3. Onto(t, x)[2] = n /\ Onto(t, x)[3] = togo
  BY <1>2
<1>4. CASE x[2].delay > x[3]
  BY <1>4 DEF RunBody, RunStep, GoesRound, Outcome
<1>5. CASE ~(x[2].delay > x[3]) /\ Hungry(q)
  BY <1>5 DEF RunBody, RunStep, GoesRound, Outcome
<1>6. CASE ~(x[2].delay > x[3]) /\ ~Hungry(q) /\ e.sig = "none"
  BY <1>1, <1>2, <1>6 DEF RunBody, GoesRound, RunStep
<1>7. CASE ~(x[2].delay > x[3]) /\ ~Hungry(q) /\ e.sig # "none"
  <2> DEFINE s == IF n.delay > togo THEN [n EXCEPT !.delay = @ - togo] ELSE n
  <2>1. RunBody(t, u, x) = [p |-> e.p, sig |-> e.sig, s |-> s]
    BY <1>7 DEF RunBody
  <2>2. ~GoesRound(t, x)
    BY <1>1, <1>7 DEF GoesRound
  <2>3. Outcome(t, x) = [p |-> e.p, sig |-> e.sig, s |-> s]
    <3> DEFINE z == Onto(t, x)
               s1 == IF z[2].delay > z[3] THEN [z[2] EXCEPT !.delay = @ - z[3]] ELSE z[2]
    <3>1. Outcome(t, x) = [p |-> Fetched(t, x).p, sig |-> Fetched(t, x).sig, s |-> s1]
      BY <1>7 DEF Outcome
    <3> HIDE DEF n, togo, e
    <3>2. s1 = s
      BY <1>3
    <3> QED BY <1>1, <3>1, <3>2
  <2> QED BY <2>1, <2>2, <2>3 DEF RunStep
<1> QED BY <1>4, <1>5, <1>6, <1>7

LEMMA CatchUpIsRun ==
  ASSUME NEW t, NEW q, NEW smp, NEW td
  PROVE  CatchUp(t, q, smp, td) = Run(t)[<<q, smp, td>>]
<1> DEFINE Bodies(u) == u = [x \in Places(t) |-> RunBody(t, u, x)]
<1>1. CatchUp(t, q, smp, td) = (CHOOSE u : Bodies(u))[<<q, smp, td>>]
  BY DEF CatchUp, Places, RunBody
<1>2. ASSUME NEW u PROVE [x \in Places(t) |-> RunBody(t, u, x)] = [x \in Places(t) |-> RunStep(t, u, x)]
  BY RunBodyIsStep
<1>3. \A u : Bodies(u) <=> Runs(t, u)
  BY <1>2 DEF Runs
<1> HIDE DEF Bodies
<1>4. (CHOOSE u : Bodies(u)) = (CHOOSE u : Runs(t, u))
  BY <1>3
<1> QED BY <1>1, <1>4 DEF Run

RunDescent(t) == {z \in Places(t) \X Places(t) : Below(Rank(t, z[1][1]), Rank(t, z[2][1]))}

LEMMA RunOrdered ==
  ASSUME NEW t \in Seq(Block)
  PROVE  Ordered(RunDescent(t), Places(t))
<1> DEFINE rank == [x \in Places(t) |-> Rank(t, x[1])]
<1>1. ASSUME NEW x \in Places(t) PROVE Rank(t, x[1]) \in RankType
  BY PlayableIs, RankIs DEF Places
<1>2. rank \in [Places(t) -> RankType]
  BY <1>1
<1>3. RunDescent(t) = {z \in Places(t) \X Places(t) : Below(rank[z[1]], rank[z[2]])}
  BY DEF RunDescent
<1> HIDE DEF rank
<1> QED BY <1>2, <1>3, BelowOrdered

\* What the sampler fetches when it is due.
LEMMA PlaceFetches ==
  ASSUME NEW t \in Seq(Block), NEW x \in Places(t)
  PROVE  /\ PlayerNext(t, x[1]) \in Playable(t)
         /\ ~Hungry(PlayerNext(t, x[1])) => Gives(t, PlayerNext(t, x[1]), Fetched(t, x))
BY PlayableIs, PlayerNextReturns, PlayerGives DEF Places, Fetched

LEMMA RoundDescends ==
  ASSUME NEW t \in Seq(Block), NEW x \in Places(t), GoesRound(t, x)
  PROVE  Onto(t, x) \in Places(t) /\ <<Onto(t, x), x>> \in RunDescent(t)
<1> DEFINE q == PlayerNext(t, x[1])
           e == Fetched(t, x)
           y == Onto(t, x)
<1>1. x[1] \in Playable(t) /\ x[2] \in SamplerType /\ x[3] \in Nat
  BY DEF Places
<1>2. /\ ~(x[2].delay > x[3]) /\ ~Hungry(q) /\ e.sig = "none"
      /\ x[2].delay \in Nat /\ x[2].next \in Level
  BY <1>1 DEF GoesRound, SamplerType
<1>3. Gives(t, q, e)
  BY <1>2, PlaceFetches
<1>4. q \in Playable(t) /\ PlayerInv(t, q) /\ PlayerInv(t, x[1])
  BY <1>1, PlaceFetches, PlayableIs
<1>5. PlayerInv(t, e.p) /\ e.p \in Playable(t) /\ e.delay \in Nat /\ e.lvl \in Level
  BY <1>2, <1>3, PlayableIs DEF Gives
<1>6. x[3] - x[2].delay \in Nat
  BY <1>1, <1>2
<1>7. y \in Places(t) /\ y[1] = e.p
  <2> DEFINE smp == [lvl |-> x[2].next, delay |-> e.delay, next |-> e.lvl]
             td == x[3] - x[2].delay
  <2>1. smp \in SamplerType
    BY <1>2, <1>5 DEF SamplerType
  <2>2. y = <<e.p, smp, td>>
    BY DEF Onto
  <2> HIDE DEF smp, td, e, y
  <2> QED BY <1>5, <1>6, <2>1, <2>2 DEF Places, td
<1>8. Below(Rank(t, e.p), Rank(t, q))
  BY <1>2, <1>3 DEF Gives
<1>9. Below(Rank(t, e.p), Rank(t, x[1]))
  <2>1. CASE Hungry(x[1])
    <3>1. Onward(Rank(t, q), Rank(t, x[1]))
      BY <1>2, <1>4, <2>1, PlayerNextFeeds DEF Fed
    <3>2. Below(Rank(t, q), Rank(t, x[1]))
      BY <3>1 DEF Below
    <3>3. Rank(t, e.p) \in RankType /\ Rank(t, q) \in RankType /\ Rank(t, x[1]) \in RankType
      BY <1>4, <1>5, RankIs
    <3> HIDE DEF e, q
    <3> QED BY <1>8, <3>2, <3>3, BelowTransitive
  <2>2. CASE ~Hungry(x[1])
    BY <1>8, <2>2, PlayerNextIsFeed
  <2> QED BY <2>1, <2>2
<1> QED BY <1>7, <1>9 DEF RunDescent

LEMMA OutcomeType ==
  ASSUME NEW t \in Seq(Block), NEW x \in Places(t), ~GoesRound(t, x)
  PROVE  Outcome(t, x) \in Outcomes(t)
<1> DEFINE q == PlayerNext(t, x[1])
           e == Fetched(t, x)
           y == Onto(t, x)
<1>1. x[1] \in Playable(t) /\ x[2] \in SamplerType /\ x[3] \in Nat /\ "none" \in Told
  BY DEF Places, Told, Signal
<1>2. x[2].delay \in Nat /\ x[2].next \in Level
  BY <1>1 DEF SamplerType
<1>3. q \in Playable(t)
  BY PlaceFetches
<1>4. CASE x[2].delay > x[3]
  <2> DEFINE smp == [x[2] EXCEPT !.delay = @ - x[3]]
  <2>1. x[2].delay - x[3] \in Nat
    BY <1>1, <1>2, <1>4
  <2>2. smp \in SamplerType
    BY <1>1, <2>1 DEF SamplerType
  <2>3. Outcome(t, x) = [p |-> x[1], s |-> smp, sig |-> "none"]
    BY <1>4 DEF Outcome
  <2> HIDE DEF smp
  <2> QED BY <1>1, <2>2, <2>3 DEF Outcomes
<1>5. CASE ~(x[2].delay > x[3]) /\ Hungry(q)
  BY <1>1, <1>3, <1>5 DEF Outcome, Outcomes
<1>6. CASE ~(x[2].delay > x[3]) /\ ~Hungry(q)
  <2>1. Gives(t, q, e)
    BY <1>6, PlaceFetches
  <2>2. e.delay \in Nat /\ e.lvl \in Level /\ e.sig \in Told
    BY <2>1 DEF Gives
  <2>3. e.p \in Playable(t)
    BY <1>3, <2>1, PlayableIs DEF Gives
  <2> DEFINE smp == [lvl |-> x[2].next, delay |-> e.delay, next |-> e.lvl]
             td == x[3] - x[2].delay
             s == IF y[2].delay > y[3] THEN [y[2] EXCEPT !.delay = @ - y[3]] ELSE y[2]
  <2>4. smp \in SamplerType /\ td \in Nat
    BY <1>1, <1>2, <1>6, <2>2 DEF SamplerType
  <2>5. y[2] = smp /\ y[3] = td
    BY DEF Onto
  <2>6. Outcome(t, x) = [p |-> e.p, sig |-> e.sig, s |-> s]
    BY <1>6 DEF Outcome
  <2> HIDE DEF smp, td, y
  <2>7. s \in SamplerType
    BY <2>4, <2>5 DEF SamplerType
  <2> HIDE DEF s, e
  <2> QED BY <2>2, <2>3, <2>6, <2>7 DEF Outcomes
<1> QED BY <1>4, <1>5, <1>6

LEMMA RunExists ==
  ASSUME NEW t \in Seq(Block)
  PROVE  Runs(t, Run(t))
<1> DEFINE S == Places(t)
           V == Outcomes(t)
           F == [x \in S |-> [u \in [S -> V] |-> RunStep(t, u, x)]]
<1>1. CASE S = {}
  <2> DEFINE u == [x \in S |-> x]
  <2>1. u = [x \in S |-> RunStep(t, u, x)]
    BY <1>1
  <2>2. Runs(t, u)
    BY <2>1 DEF Runs
  <2> QED BY <2>2 DEF Run
<1>2. CASE S # {}
  <2>1. Ordered(RunDescent(t), S)
    BY RunOrdered
  <2>2. V # {}
    <3>1. PICK x \in S : TRUE
      BY <1>2
    <3>2. x[1] \in Playable(t) /\ x[2] \in SamplerType
      BY <3>1 DEF Places
    <3>3. [p |-> x[1], s |-> x[2], sig |-> "abort"] \in V
      BY <3>2 DEF Outcomes, Told
    <3> QED BY <3>3
  <2>3. ASSUME NEW x \in S, NEW u \in [S -> V] PROVE RunStep(t, u, x) \in V
    <3>1. CASE GoesRound(t, x)
      <4>1. Onto(t, x) \in S
        BY <3>1, RoundDescends
      <4> HIDE DEF S, V
      <4> QED BY <2>3, <3>1, <4>1 DEF RunStep
    <3>2. CASE ~GoesRound(t, x)
      BY <3>2, OutcomeType DEF RunStep
    <3> QED BY <3>1, <3>2
  <2>4. F \in [S -> [[S -> V] -> V]] /\ \A x \in S : \A g \in [S -> V] : F[x][g] = RunStep(t, g, x)
    BY <2>3
  <2> HIDE DEF F
  <2>5. Descends(S, V, F, RunDescent(t))
    <3>1. \A x \in S : \A g, h \in [S -> V] :
            (\A y \in S : <<y, x>> \in RunDescent(t) => g[y] = h[y]) => F[x][g] = F[x][h]
      <4>1. SUFFICES ASSUME NEW x \in S, NEW g \in [S -> V], NEW h \in [S -> V],
                            \A y \in S : <<y, x>> \in RunDescent(t) => g[y] = h[y]
                     PROVE  F[x][g] = F[x][h]
        OBVIOUS
      <4>2. GoesRound(t, x) => Onto(t, x) \in S /\ <<Onto(t, x), x>> \in RunDescent(t)
        BY RoundDescends
      <4> HIDE DEF S, V
      <4>3. RunStep(t, g, x) = RunStep(t, h, x)
        BY <4>1, <4>2 DEF RunStep
      <4> QED BY <2>4, <4>3
    <3> HIDE DEF S, V
    <3> QED BY <2>2, <2>4, <3>1 DEF Descends
  <2> HIDE DEF S, V
  <2>6. PICK u \in [S -> V] : \A x \in S : u[x] = F[x][u]
    BY <2>1, <2>5, Recursion
  <2>7. u = [x \in S |-> RunStep(t, u, x)]
    BY <2>4, <2>6
  <2>8. Runs(t, u)
    BY <2>7 DEF Runs, S
  <2> QED BY <2>8 DEF Run
<1> QED BY <1>1, <1>2

(* What the loop of tape_sampler_getsmp() keeps, and what it leaves with.   *)
RoundsKeep(t, A, B) ==
  /\ A \in SUBSET Places(t)
  /\ \A x \in A : IF GoesRound(t, x) THEN Onto(t, x) \in A ELSE Outcome(t, x) \in B

LEMMA CatchUpRule ==
  ASSUME NEW t \in Seq(Block), NEW A, NEW B, RoundsKeep(t, A, B),
         NEW q, NEW smp, NEW td, <<q, smp, td>> \in A
  PROVE  CatchUp(t, q, smp, td) \in B
<1> DEFINE u == Run(t)
           T == {x \in A : u[x] \notin B}
<1>1. Runs(t, u)
  BY RunExists
<1> HIDE DEF u
<1>2. \A x \in Places(t) : u[x] = RunStep(t, u, x)
  BY <1>1 DEF Runs
<1>3. A \in SUBSET Places(t)
  BY DEF RoundsKeep
<1>4. ASSUME T # {} PROVE FALSE
  <2>1. T \in SUBSET Places(t) /\ Ordered(RunDescent(t), Places(t))
    BY <1>3, RunOrdered
  <2>2. PICK x \in T : \A y \in T : <<y, x>> \notin RunDescent(t)
    <3> HIDE DEF T
    <3> QED BY <1>4, <2>1 DEF Ordered
  <2>3. x \in A /\ x \in Places(t) /\ u[x] \notin B
    BY <2>1, <2>2
  <2>4. \A y \in A : <<y, x>> \in RunDescent(t) => u[y] \in B
    BY <2>2
  <2> HIDE DEF T
  <2>5. u[x] = RunStep(t, u, x)
    BY <1>2, <2>3
  <2>6. CASE GoesRound(t, x)
    BY <2>3, <2>4, <2>5, <2>6, RoundDescends DEF RunStep, RoundsKeep
  <2>7. CASE ~GoesRound(t, x)
    BY <2>3, <2>5, <2>7 DEF RunStep, RoundsKeep
  <2> QED BY <2>6, <2>7
<1>5. u[<<q, smp, td>>] \in B
  BY <1>4
<1> QED BY <1>5, CatchUpIsRun DEF u

(***************************************************************************)
(* Stop blocks.                                                             *)
(***************************************************************************)
\* Of the blocks from b to n, the player need play a pulse of none; ... of the
\* blocks before a Stop block among them.
Overs(t, b, n) == \A j \in b .. n : PassedOver(t[j])

Quiet(t, b, n) == \A i \in b .. n : t[i].btype = "stop" => Overs(t, b, i)

\* Behind a Stop block its signal is pending.
Heeded(t, b, q) ==
  \A i \in b .. Passed(t, q) :
    t[i].btype = "stop" => (i = Passed(t, q) /\ q.sig = "stop") \/ Overs(t, b, i)

NoStop(t, q) == q.cur # NoBlock => t[q.cur].btype # "stop"

\* In the loops, a signal is pending while its block is the current one.
OnSignal(t, q) ==
  /\ q.sig # "none" => q.cur # NoBlock /\ t[q.cur].btype = q.sig
  /\ q.cur # NoBlock /\ t[q.cur].btype = "stop" => q.sig = "stop"

Heeds(t, b, q) == OnSignal(t, q) /\ Quiet(t, b, Passed(t, q))

\* The playback that began at b has not come to a pulse.
Calm(t, b, q) ==
  /\ Overs(t, b, Passed(t, q))
  /\ q.cur # NoBlock => PassedOver(t[q.cur]) \/ Sounds(t, q)

LEMMA TakePlaces ==
  ASSUME NEW t \in Seq(Block), NEW q, PlayerInv(t, q), q.cur = NoBlock, q.nxt # NoBlock,
         NEW r, Enters(t, q, r) \/ Skips(t, q, r) \/ Jumps(t, q, r)
  PROVE  /\ q.nxt \in 1 .. Len(t) /\ Passed(t, q) = q.nxt - 1 /\ Passed(t, r) \in Nat
         /\ Enters(t, q, r) => r.cur = q.nxt /\ r.cur # NoBlock /\ Passed(t, r) = q.nxt - 1
         /\ Skips(t, q, r) => r.cur = NoBlock /\ Passed(t, r) = q.nxt
         /\ Jumps(t, q, r) => r.cur = NoBlock /\ Passed(t, r) <= q.nxt - 1
<1> DEFINE b == q.nxt
<1>1. Len(t) \in Nat /\ b \in 1 .. Len(t) /\ b \in Nat \ {0}
  BY PlacesType DEF NoBlock
<1>2. Passed(t, q) = b - 1
  BY <1>1 DEF Passed
<1>3. ASSUME Enters(t, q, r) PROVE r.cur = b /\ r.cur # NoBlock /\ Passed(t, r) = b - 1
  BY <1>1, <1>3 DEF Enters, Passed, NoBlock
<1>4. ASSUME Skips(t, q, r) PROVE r.cur = NoBlock /\ Passed(t, r) = b
  BY <1>1, <1>4 DEF Skips, Passed, TapeNext, NoBlock
<1>5. ASSUME Jumps(t, q, r) PROVE r.cur = NoBlock /\ Passed(t, r) <= b - 1 /\ Passed(t, r) \in Nat
  <2>1. LoopBody(t, b) \in 1 .. b
    BY <1>1, LoopBodyMoves
  <2>2. r.cur = NoBlock /\ r.nxt = LoopBody(t, b)
    BY <1>5 DEF Jumps
  <2> DEFINE m == LoopBody(t, b)
  <2> HIDE DEF m
  <2>3. Passed(t, r) = m - 1
    BY <2>1, <2>2 DEF Passed, NoBlock, m
  <2> QED BY <1>1, <2>1, <2>2, <2>3 DEF m
<1>6. Passed(t, r) \in Nat
  BY <1>1, <1>3, <1>4, <1>5
<1> QED BY <1>1, <1>2, <1>3, <1>4, <1>5, <1>6

LEMMA PlayPlaces ==
  ASSUME NEW t \in Seq(Block), NEW q, PlayerInv(t, q), q.cur # NoBlock,
         NEW r, Stays(q, r) \/ Ends(t, q, r) \/ GoesOn(t, q, r)
  PROVE  /\ q.cur \in 1 .. Len(t) /\ Passed(t, q) = q.cur - 1 /\ r.sig = q.sig
         /\ Ends(t, q, r) => r.cur = NoBlock /\ Passed(t, r) = q.cur
         /\ ~Ends(t, q, r) => r.cur = q.cur /\ Passed(t, r) = q.cur - 1
BY PlacesType DEF NoBlock, Passed, Ends, TapeNext, GoesOn, Stays

LEMMA SignalEnds ==
  ASSUME NEW t \in Seq(Block), NEW q, PlayerInv(t, q), q.cur # NoBlock, t[q.cur].btype \in Signals
  PROVE  Ends(t, q, PlayBlock(t, q))
BY EndBlockMoves DEF PlayBlock, Signals, PlayerInv

LEMMA TakeHeeds ==
  ASSUME NEW t \in Seq(Block), NEW q, PlayerInv(t, q), q.cur = NoBlock, q.nxt # NoBlock,
         NEW b0 \in Nat, Heeds(t, b0, q)
  PROVE  /\ Heeds(t, b0, TakeBlock(t, q))
         /\ Calm(t, b0, q) => Calm(t, b0, TakeBlock(t, q))
<1> DEFINE r == TakeBlock(t, q)
           b == q.nxt
<1>1. Enters(t, q, r) \/ Skips(t, q, r) \/ Jumps(t, q, r)
  BY TakeBlockMoves
<1> HIDE DEF r
<1>2. q.sig = "none" /\ Quiet(t, b0, Passed(t, q))
  BY DEF Heeds, OnSignal
<1>3. b \in Nat \ {0} /\ Passed(t, q) = b - 1 /\ Passed(t, r) \in Nat
  BY <1>1, TakePlaces
<1>4. CASE Enters(t, q, r)
  BY <1>1, <1>2, <1>3, <1>4, TakePlaces DEF Enters, OnSignal, Signals, Calm, Heeds, r
<1>5. CASE Skips(t, q, r)
  <2>1. r.cur = NoBlock /\ Passed(t, r) = b /\ r.sig = "none"
    BY <1>1, <1>2, <1>5, TakePlaces DEF Skips
  <2>2. PassedOver(t[b]) /\ t[b].btype # "stop"
    BY <1>5 DEF Skips, Signals
  <2> HIDE DEF b
  <2>3. Quiet(t, b0, b)
    <3>1. SUFFICES ASSUME NEW i \in b0 .. b, t[i].btype = "stop" PROVE Overs(t, b0, i)
      BY DEF Quiet
    <3>2. i \in b0 .. b - 1
      BY <1>3, <2>2, <3>1
    <3> QED BY <1>2, <1>3, <3>1, <3>2 DEF Quiet
  <2>4. ASSUME Calm(t, b0, q) PROVE Calm(t, b0, r)
    BY <1>3, <2>1, <2>2, <2>4 DEF Calm, Overs
  <2> QED BY <2>1, <2>3, <2>4 DEF Heeds, OnSignal, r
<1>6. CASE Jumps(t, q, r)
  <2>1. r.cur = NoBlock /\ Passed(t, r) <= b - 1 /\ r.sig = "none"
    BY <1>1, <1>2, <1>6, TakePlaces DEF Jumps
  <2> HIDE DEF b
  <2>2. ASSUME NEW i \in b0 .. Passed(t, r) PROVE i \in b0 .. b - 1
    BY <1>3, <2>1
  <2>3. Quiet(t, b0, Passed(t, r))
    BY <1>2, <1>3, <2>2 DEF Quiet
  <2>4. Calm(t, b0, q) => Calm(t, b0, r)
    BY <1>3, <2>1, <2>2 DEF Calm, Overs
  <2> QED BY <2>1, <2>3, <2>4 DEF Heeds, OnSignal, r
<1> QED BY <1>1, <1>4, <1>5, <1>6

LEMMA PlayHeeds ==
  ASSUME NEW t \in Seq(Block), NEW q, PlayerInv(t, q), q.cur # NoBlock,
         NEW b0 \in Nat, Heeds(t, b0, q)
  PROVE  IF Hungry(PlayBlock(t, q)) THEN Heeds(t, b0, PlayBlock(t, q))
         ELSE NoStop(t, PlayBlock(t, q)) /\ Heeded(t, b0, PlayBlock(t, q))
<1> DEFINE r == PlayBlock(t, q)
           b == q.cur
<1>1. Stays(q, r) \/ Ends(t, q, r) \/ GoesOn(t, q, r)
  BY PlayBlockMoves DEF Moves
<1>2. t[b].btype \in Signals => Ends(t, q, r)
  BY SignalEnds
<1> HIDE DEF r
<1>3. b \in Nat \ {0} /\ Passed(t, q) = b - 1 /\ r.sig = q.sig
  BY <1>1, PlayPlaces
<1>4. Quiet(t, b0, b - 1) /\ (t[b].btype = "stop" => q.sig = "stop")
  BY <1>3 DEF Heeds, OnSignal
<1>5. CASE Ends(t, q, r)
  <2>1. r.cur = NoBlock /\ Passed(t, r) = b
    BY <1>1, <1>5, PlayPlaces
  <2> HIDE DEF b
  <2>2. ASSUME Hungry(r) PROVE Heeds(t, b0, r)
    BY <1>3, <1>4, <2>1, <2>2 DEF Hungry, Quiet, Heeds, OnSignal
  <2>3. Heeded(t, b0, r)
    <3>1. SUFFICES ASSUME NEW i \in b0 .. b, t[i].btype = "stop"
                   PROVE  (i = b /\ r.sig = "stop") \/ Overs(t, b0, i)
      BY <2>1 DEF Heeded
    <3>2. CASE i = b
      BY <1>3, <1>4, <3>1, <3>2
    <3>3. CASE i # b
      BY <1>3, <1>4, <3>1, <3>3 DEF Quiet
    <3> QED BY <3>2, <3>3
  <2> QED BY <2>1, <2>2, <2>3 DEF NoStop, r
<1>6. CASE ~Ends(t, q, r)
  BY <1>1, <1>2, <1>3, <1>4, <1>6, PlayPlaces DEF Signals, Heeds, OnSignal, NoStop, Heeded, Quiet, r
<1> QED BY <1>5, <1>6

LEMMA PlayCalms ==
  ASSUME NEW t \in Seq(Block), NEW q, PlayerInv(t, q), q.cur # NoBlock,
         NEW b0 \in Nat, OnSignal(t, q), Calm(t, b0, q)
  PROVE  IF Hungry(PlayBlock(t, q)) THEN Calm(t, b0, PlayBlock(t, q))
         ELSE PlayBlock(t, q).sig = "none" \/ Overs(t, b0, Passed(t, PlayBlock(t, q)))
<1> DEFINE r == PlayBlock(t, q)
           b == q.cur
<1>1. /\ Stays(q, r) \/ Ends(t, q, r) \/ GoesOn(t, q, r)
      /\ KeepsSound(t, q, r)
  BY PlayBlockMoves DEF Moves
<1> HIDE DEF r
<1>2. b \in Nat \ {0} /\ Passed(t, q) = b - 1 /\ r.sig = q.sig
  BY <1>1, PlayPlaces
<1>3. Overs(t, b0, b - 1) /\ (PassedOver(t[b]) \/ Sounds(t, q))
  BY <1>2 DEF Calm
<1>4. q.sig # "none" => PassedOver(t[b])
  BY DEF PlayerInv, PlayerType, OnSignal, PassedOver, Silent, Signal
<1>5. ASSUME PassedOver(t[b]) PROVE Overs(t, b0, b)
  <2> HIDE DEF b
  <2>1. ASSUME NEW j \in b0 .. b PROVE PassedOver(t[j])
    BY <1>2, <1>3, <1>5 DEF Overs
  <2> QED BY <2>1 DEF Overs
<1>6. CASE Ends(t, q, r)
  <2>1. r.cur = NoBlock /\ Passed(t, r) = b
    BY <1>1, <1>6, PlayPlaces
  <2>2. CASE PassedOver(t[b])
    BY <1>5, <2>1, <2>2 DEF Calm, r
  <2>3. CASE ~PassedOver(t[b])
    BY <1>1, <1>2, <1>3, <1>4, <2>1, <2>3 DEF KeepsSound, Hungry, r
  <2> QED BY <2>2, <2>3
<1>7. CASE ~Ends(t, q, r)
  BY <1>1, <1>3, <1>7, PlayPlaces DEF KeepsSound, Sounds, Calm, r
<1> QED BY <1>6, <1>7

(* Between two calls.                                                       *)
Rests(t, b, q) == PlayerInv(t, q) /\ NoStop(t, q) /\ Heeded(t, b, q)

LEMMA RestsKept ==
  ASSUME NEW t \in Seq(Block), NEW b0 \in Nat, NEW q, Rests(t, b0, q)
  PROVE  Rests(t, b0, PlayerNext(t, q))
<1> DEFINE A == {x \in Playable(t) : Heeds(t, b0, x)}
           B == {r \in Playable(t) : Rests(t, b0, r)}
<1>1. CASE ~Hungry(q)
  BY <1>1, PlayerNextIsFeed
<1>2. CASE Hungry(q)
  <2>1. LoopsKeep(t, A, B)
    <3>1. ASSUME NEW x \in A, x.cur # NoBlock
          PROVE  PlayBlock(t, x) \in (IF Hungry(PlayBlock(t, x)) THEN A ELSE B)
      BY <3>1, PlayableIs, StepsDescend, PlayHeeds DEF Rests
    <3>2. ASSUME NEW x \in A, x.cur = NoBlock, x.nxt # NoBlock PROVE TakeBlock(t, x) \in A
      BY <3>2, PlayableIs, StepsDescend, TakeHeeds
    <3>3. ASSUME NEW x \in A, x.cur = NoBlock, x.nxt = NoBlock PROVE x \in B
      BY <3>3, PlayableIs DEF Heeds, Quiet, Rests, NoStop, Heeded
    <3>4. A \in SUBSET Playable(t)
      OBVIOUS
    <3> HIDE DEF A, B
    <3> QED BY <3>1, <3>2, <3>3, <3>4 DEF LoopsKeep
  <2>2. q \in A
    BY <1>2, PlayableIs DEF Rests, NoStop, Heeded, Hungry, Heeds, OnSignal, Quiet
  <2>3. PlayerNext(t, q) \in B
    <3> HIDE DEF A, B
    <3> QED BY <1>2, <2>1, <2>2, PlayerNextRule
  <2> QED BY <2>3
<1> QED BY <1>1, <1>2

(* A playback that begins at b comes to a Stop block before any pulse only  *)
(* over blocks that have none to play.                                      *)
LEMMA BeginningIsCalm ==
  ASSUME NEW t \in Seq(Block), NEW b0 \in 1 .. Len(t), NEW q, PlayerInv(t, q),
         q.cur = NoBlock, q.nxt = b0, Hungry(q)
  PROVE  LET r == PlayerNext(t, q)
         IN  Rests(t, b0, r) /\ (r.sig = "none" \/ Overs(t, b0, Passed(t, r)))
<1> DEFINE A == {x \in Playable(t) : Heeds(t, b0, x) /\ Calm(t, b0, x)}
           B == {r \in Playable(t) :
                   Rests(t, b0, r) /\ (r.sig = "none" \/ Overs(t, b0, Passed(t, r)))}
<1>1. LoopsKeep(t, A, B)
  <2>0. ASSUME NEW x \in A PROVE x \in Playable(t) /\ PlayerInv(t, x) /\ Heeds(t, b0, x) /\ Calm(t, b0, x)
    BY PlayableIs
  <2>1. ASSUME NEW x \in A, x.cur # NoBlock
        PROVE  PlayBlock(t, x) \in (IF Hungry(PlayBlock(t, x)) THEN A ELSE B)
    <3>1. x \in Playable(t) /\ PlayerInv(t, x) /\ Heeds(t, b0, x) /\ Calm(t, b0, x)
          /\ OnSignal(t, x)
      BY <2>0 DEF Heeds
    <3>2. PlayBlock(t, x) \in Playable(t) /\ PlayerInv(t, PlayBlock(t, x))
      BY <2>1, <3>1, StepsDescend, PlayableIs
    <3>3. IF Hungry(PlayBlock(t, x)) THEN Heeds(t, b0, PlayBlock(t, x))
          ELSE NoStop(t, PlayBlock(t, x)) /\ Heeded(t, b0, PlayBlock(t, x))
      BY <2>1, <3>1, PlayHeeds
    <3>4. IF Hungry(PlayBlock(t, x)) THEN Calm(t, b0, PlayBlock(t, x))
          ELSE PlayBlock(t, x).sig = "none" \/ Overs(t, b0, Passed(t, PlayBlock(t, x)))
      BY <2>1, <3>1, PlayCalms
    <3> QED BY <3>2, <3>3, <3>4 DEF Rests
  <2>2. ASSUME NEW x \in A, x.cur = NoBlock, x.nxt # NoBlock PROVE TakeBlock(t, x) \in A
    <3>1. x \in Playable(t) /\ PlayerInv(t, x) /\ Heeds(t, b0, x) /\ Calm(t, b0, x) /\ b0 \in Nat
      BY <2>0, BlocksOfTape
    <3>2. TakeBlock(t, x) \in Playable(t)
      BY <2>2, <3>1, StepsDescend
    <3>3. Heeds(t, b0, TakeBlock(t, x)) /\ Calm(t, b0, TakeBlock(t, x))
      BY <2>2, <3>1, TakeHeeds
    <3> QED BY <3>2, <3>3
  <2>3. ASSUME NEW x \in A, x.cur = NoBlock, x.nxt = NoBlock PROVE x \in B
    BY <2>0, <2>3 DEF Heeds, Quiet, Rests, NoStop, Heeded, Calm
  <2>4. A \in SUBSET Playable(t)
    OBVIOUS
  <2> HIDE DEF A, B
  <2> QED BY <2>1, <2>2, <2>3, <2>4 DEF LoopsKeep
<1>2. q \in A
  <2>1. Passed(t, q) = b0 - 1 /\ b0 \in Nat
    BY BlocksOfTape DEF Passed, NoBlock
  <2>2. Overs(t, b0, b0 - 1) /\ Quiet(t, b0, b0 - 1)
    BY <2>1 DEF Overs, Quiet
  <2> QED BY <2>1, <2>2, PlayableIs DEF Heeds, OnSignal, Calm, Hungry
<1>3. PlayerNext(t, q) \in B
  <2> HIDE DEF A, B
  <2> QED BY <1>1, <1>2, PlayerNextRule
<1> QED BY <1>3

LEMMA GivingRests ==
  ASSUME NEW t \in Seq(Block), NEW b0 \in Nat, NEW q, Rests(t, b0, q), ~Hungry(q),
         NEW e, Gives(t, q, e)
  PROVE  e.sig \in {"stop", "abort"} \/ Rests(t, b0, e.p)
<1>1. SUFFICES ASSUME e.sig \notin {"stop", "abort"} PROVE Rests(t, b0, e.p)
  OBVIOUS
<1>2. PlayerInv(t, e.p) /\ e.sig = q.sig /\ e.p.cur = q.cur /\ e.p.nxt = q.nxt
  BY <1>1 DEF Gives
<1>3. Passed(t, e.p) = Passed(t, q) /\ q.sig # "stop"
  BY <1>1, <1>2 DEF Passed
<1> QED BY <1>2, <1>3 DEF Rests, NoStop, Heeded

(* A sample is taken.                                                       *)
LEMMA CatchUpRests ==
  ASSUME NEW t \in Seq(Block), NEW b0 \in Nat, NEW q, Rests(t, b0, q),
         NEW smp \in SamplerType, NEW td \in Nat
  PROVE  LET r == CatchUp(t, q, smp, td)
         IN  r.sig \in {"stop", "abort"} \/ Rests(t, b0, r.p)
<1> DEFINE A == {x \in Places(t) : Rests(t, b0, x[1])}
           B == {r \in Outcomes(t) : r.sig \in {"stop", "abort"} \/ Rests(t, b0, r.p)}
<1>1. ASSUME NEW x \in A PROVE IF GoesRound(t, x) THEN Onto(t, x) \in A ELSE Outcome(t, x) \in B
  <2> DEFINE q1 == PlayerNext(t, x[1])
             e == Fetched(t, x)
  <2>1. x \in Places(t) /\ Rests(t, b0, x[1])
    OBVIOUS
  <2>2. Rests(t, b0, q1)
    BY <2>1, RestsKept
  <2>3. ASSUME ~Hungry(q1) PROVE e.sig \in {"stop", "abort"} \/ Rests(t, b0, e.p)
    BY <2>1, <2>2, <2>3, PlaceFetches, GivingRests
  <2>4. CASE GoesRound(t, x)
    BY <2>1, <2>3, <2>4, RoundDescends DEF Onto, GoesRound
  <2>5. CASE ~GoesRound(t, x)
    <3>1. Outcome(t, x) \in Outcomes(t)
      BY <2>1, <2>5, OutcomeType
    <3>2. Outcome(t, x).sig \in {"stop", "abort"} \/ Rests(t, b0, Outcome(t, x).p)
      <4> HIDE DEF A, B
      <4>1. CASE x[2].delay > x[3]
        BY <2>1, <4>1 DEF Outcome
      <4>2. CASE ~(x[2].delay > x[3]) /\ Hungry(q1)
        BY <2>2, <4>2 DEF Outcome
      <4>3. CASE ~(x[2].delay > x[3]) /\ ~Hungry(q1)
        BY <2>3, <4>3 DEF Outcome
      <4> QED BY <4>1, <4>2, <4>3
    <3> QED BY <2>5, <3>1, <3>2
  <2> QED BY <2>4, <2>5
<1>2. A \in SUBSET Places(t)
  OBVIOUS
<1>3. <<q, smp, td>> \in A
  BY PlayableIs DEF Places, Rests
<1>4. CatchUp(t, q, smp, td) \in B
  <2> HIDE DEF A, B
  <2> QED BY <1>1, <1>2, <1>3, CatchUpRule DEF RoundsKeep
<1> QED BY <1>4

LEMMA CatchUpType ==
  ASSUME NEW t \in Seq(Block), NEW q, PlayerInv(t, q),
         NEW smp \in SamplerType, NEW td \in Nat
  PROVE  CatchUp(t, q, smp, td) \in Outcomes(t)
BY RoundDescends, OutcomeType, PlayableIs, CatchUpRule DEF RoundsKeep, Places

(***************************************************************************)
(* The deck.                                                                *)
(***************************************************************************)
DeckTypes ==
  /\ loaded \in BOOLEAN /\ playing \in BOOLEAN /\ paused \in BOOLEAN
  /\ mode48k \in BOOLEAN /\ crashed \in BOOLEAN
  /\ curSmp \in Level /\ player \in PlayerType /\ sampler \in SamplerType
  /\ tape \in Seq(Block) /\ curBlock \in Nat
  /\ loaded => curBlock \in 0 .. Len(tape)
  /\ playing => PlayerInv(tape, player)

\* The blocks that Play began with are the rest of the tape.
DeckHeeds ==
  playing /\ from # <<>> =>
    \E b \in 1 .. Len(tape) : from = SubSeq(tape, b, Len(tape)) /\ Rests(tape, b, player)

DeckInv == DeckTypes /\ PausedIsPlaying /\ DeckHeeds

LEMMA CreateType == PlayerCreate \in PlayerType
<1> DEFINE tg == TgInit(0)
           zero == 0
           no == FALSE
           sig == "none"
<1>1. PlayerCreate = [tg |-> tg, cur |-> zero, nxt |-> zero, idx |-> zero, pauseDone |-> no,
                      sig |-> sig, loop |-> zero]
  BY DEF PlayerCreate, NoBlock
<1>2. tg \in ToneGenType /\ zero \in Nat /\ no \in BOOLEAN /\ sig \in Signal
  BY TgInitType DEF Signal
<1> HIDE DEF tg, zero, no, sig
<1> QED BY <1>1, <1>2 DEF PlayerType

LEMMA DeckInitially == Init => DeckInv
<1> SUFFICES ASSUME Init PROVE DeckInv
  OBVIOUS
<1>1. tape = <<>> /\ curBlock = 0 /\ ~playing /\ ~paused
  BY DEF Init, NoBlock
<1>2. player \in PlayerType
  BY CreateType DEF Init
<1>3. sampler \in SamplerType /\ curSmp \in Level
  BY DEF Init, SamplerType, Level
<1>4. tape \in Seq(Block) /\ Len(tape) = 0
  BY <1>1
<1>5. loaded \in BOOLEAN /\ playing \in BOOLEAN /\ paused \in BOOLEAN
  BY Zenon DEF Init
<1>6. mode48k \in BOOLEAN /\ crashed \in BOOLEAN
  BY Zenon DEF Init
<1>7. DeckTypes
  BY <1>1, <1>2, <1>3, <1>4, <1>5, <1>6 DEF DeckTypes
<1> QED BY <1>1, <1>7 DEF DeckInv, PausedIsPlaying, DeckHeeds

(* A playback is started.                                                   *)
LEMMA SamplerInitKeeps ==
  ASSUME NEW t \in Seq(Block), NEW q0 \in PlayerType, NEW smp \in SamplerType,
         NEW b \in 0 .. Len(t), SamplerInit(t, q0, smp, b).sig # "abort"
  PROVE  LET i == SamplerInit(t, q0, smp, b)
         IN  PlayerInv(t, i.p) /\ i.s \in SamplerType /\ (b # NoBlock => Rests(t, b, i.p))
<1> DEFINE q1 == PlayerInit(q0, b)
           q  == PlayerNext(t, q1)
           e  == PlayerGetNext(q)
           i  == SamplerInit(t, q0, smp, b)
           lvl == q1.tg.cur
<1>1. PlayerInv(t, q1)
  BY InitKeeps
<1>2. PlayerInv(t, q)
  BY <1>1, PlayerNextReturns
<1>3. /\ q1.cur = NoBlock /\ q1.nxt = b /\ IsEnd(q1.tg)
      /\ lvl \in Level
  BY DEF PlayerInit, PlayerType, TgInit, IsEnd, Level
<1>4. i = IF Hungry(q)
          THEN [p |-> q, s |-> [smp EXCEPT !.lvl = lvl], sig |-> "none"]
          ELSE [p |-> e.p, s |-> [lvl |-> lvl, delay |-> e.delay, next |-> e.lvl], sig |-> e.sig]
  BY DEF SamplerInit
<1> HIDE DEF i, e, lvl
<1>5. ~Hungry(q) => Gives(t, q, e)
  BY <1>2, PlayerGives DEF e
<1>6. CASE Hungry(q)
  <2>1. i.p = q /\ i.s = [smp EXCEPT !.lvl = lvl]
    BY <1>4, <1>6
  <2>2. i.s \in SamplerType
    BY <1>3, <2>1 DEF SamplerType
  <2>3. ASSUME b # NoBlock PROVE Rests(t, b, q)
    <3>1. b \in 1 .. Len(t)
      BY <2>3, BlocksOfTape DEF NoBlock
    <3>2. Hungry(q1)
      BY <1>6, PlayerNextIsFeed
    <3> QED BY <1>1, <1>3, <3>1, <3>2, BeginningIsCalm
  <2> QED BY <1>2, <2>1, <2>2, <2>3 DEF i
<1>7. CASE ~Hungry(q)
  <2>1. i.p = e.p /\ i.s = [lvl |-> lvl, delay |-> e.delay, next |-> e.lvl] /\ i.sig = e.sig
    BY <1>4, <1>7
  <2>2. e.sig # "abort"
    BY <2>1 DEF i
  <2>3. /\ PlayerInv(t, e.p) /\ e.sig = q.sig /\ e.p.cur = q.cur /\ e.p.nxt = q.nxt
        /\ e.delay \in Nat /\ e.lvl \in Level
    BY <1>5, <1>7, <2>2 DEF Gives
  <2>4. i.s \in SamplerType
    BY <1>3, <2>1, <2>3 DEF SamplerType
  <2>5. Passed(t, e.p) = Passed(t, q)
    BY <2>3 DEF Passed
  <2>6. ASSUME b # NoBlock PROVE Rests(t, b, e.p)
    <3>1. b \in 1 .. Len(t) /\ b \in Nat
      BY <2>6, BlocksOfTape DEF NoBlock
    <3>2. CASE Hungry(q1)
      <4>1. Rests(t, b, q) /\ (q.sig = "none" \/ Overs(t, b, Passed(t, q)))
        BY <1>1, <1>3, <3>1, <3>2, BeginningIsCalm
      <4>2. CASE q.sig = "none"
        <5>1. e.sig \notin {"stop", "abort"}
          BY <2>3, <4>2
        <5> QED BY <1>5, <1>7, <3>1, <4>1, <5>1, GivingRests
      <4>3. CASE Overs(t, b, Passed(t, q))
        <5>1. Heeded(t, b, e.p)
          <6>1. SUFFICES ASSUME NEW k \in b .. Passed(t, q) PROVE Overs(t, b, k)
            BY <2>5 DEF Heeded
          <6>2. Passed(t, q) \in Nat
            BY <1>2, PlacesType
          <6> HIDE DEF q
          <6>3. ASSUME NEW j \in b .. k PROVE j \in b .. Passed(t, q)
            BY <3>1, <6>1, <6>2
          <6> QED BY <4>3, <6>3 DEF Overs
        <5>2. NoStop(t, e.p)
          BY <2>3, <4>1 DEF Rests, NoStop
        <5> QED BY <2>3, <5>1, <5>2 DEF Rests
      <4> QED BY <4>1, <4>2, <4>3
    <3>3. CASE ~Hungry(q1)
      BY <1>3, <2>3, <2>6, <3>1, <3>3, PlayerNextIsFeed DEF Passed, Heeded, Rests, NoStop
    <3> QED BY <3>2, <3>3
  <2> QED BY <2>1, <2>3, <2>4, <2>6 DEF i
<1> QED BY <1>6, <1>7

(* A block is put before another one, and the player's place moves with its *)
(* block.                                                                   *)
LEMMA RecordKeeps ==
  ASSUME NEW t \in Seq(Block), NEW at \in 1 .. Len(t) + 1, NEW b \in Block
  PROVE  LET u == SubSeq(t, 1, at - 1) \o <<b>> \o SubSeq(t, at, Len(t))
         IN  /\ u \in Seq(Block) /\ Len(u) = Len(t) + 1
             /\ \A i \in 1 .. Len(t) : u[IF i >= at THEN i + 1 ELSE i] = t[i]
<1> DEFINE u1 == SubSeq(t, 1, at - 1)
           u2 == u1 \o <<b>>
           u3 == SubSeq(t, at, Len(t))
           u == u2 \o u3
           n == Len(t)
<1>1. n \in Nat /\ at \in Nat \ {0} /\ at - 1 <= n /\ at - 1 \in Nat
  BY BlocksOfTape
<1>2. u1 \in Seq(Block) /\ Len(u1) = at - 1 /\ \A i \in 1 .. at - 1 : u1[i] = t[i]
  BY <1>1
<1>3. u3 \in Seq(Block) /\ Len(u3) = n - at + 1 /\ \A i \in 1 .. n - at + 1 : u3[i] = t[at + i - 1]
  BY <1>1
<1> HIDE DEF u1, u3
<1>4. /\ u2 \in Seq(Block) /\ Len(u2) = at
      /\ \A i \in 1 .. at - 1 : u2[i] = u1[i]
  BY <1>1, <1>2
<1> HIDE DEF u2
<1>5. /\ u \in Seq(Block) /\ Len(u) = n + 1
      /\ \A i \in 1 .. at : u[i] = u2[i]
      /\ \A i \in at + 1 .. n + 1 : u[i] = u3[i - at]
  BY <1>1, <1>3, <1>4
<1> HIDE DEF u, n
<1>6. ASSUME NEW i \in 1 .. n PROVE u[IF i >= at THEN i + 1 ELSE i] = t[i]
  <2>1. CASE i >= at
    BY <1>1, <1>3, <1>5, <2>1
  <2>2. CASE ~(i >= at)
    BY <1>1, <1>2, <1>4, <1>5, <2>2
  <2> QED BY <2>1, <2>2
<1>7. /\ u \in Seq(Block) /\ Len(u) = n + 1
      /\ \A i \in 1 .. n : u[IF i >= at THEN i + 1 ELSE i] = t[i]
  BY <1>5, <1>6
<1> QED BY <1>7 DEF u, u2, u1, u3, n

LEMMA PlayerMoves ==
  ASSUME NEW t \in Seq(Block), NEW at \in 1 .. Len(t) + 1, NEW u \in Seq(Block), Len(u) = Len(t) + 1,
         \A i \in 1 .. Len(t) : u[IF i >= at THEN i + 1 ELSE i] = t[i],
         NEW q, PlayerInv(t, q),
         NEW cur, cur = IF q.cur >= at THEN q.cur + 1 ELSE q.cur,
         NEW nxt, nxt = IF q.nxt >= at THEN q.nxt + 1 ELSE q.nxt
  PROVE  PlayerInv(u, [q EXCEPT !.cur = cur, !.nxt = nxt])
<1> DEFINE r == [q EXCEPT !.cur = cur, !.nxt = nxt]
           n == Len(t)
<1>1. /\ n \in Nat /\ at \in Nat \ {0} /\ q.cur \in 0 .. n /\ q.nxt \in 0 .. n
      /\ q \in PlayerType /\ GenOn(t, q.tg) /\ CurFits(t, q)
  BY BlocksOfTape DEF PlayerInv, At
<1> HIDE DEF n
<1>2. cur \in 0 .. n + 1 /\ nxt \in 0 .. n + 1 /\ cur \in Nat /\ nxt \in Nat /\ (cur # 0 => q.cur \in 1 .. n)
  <2>1. n \in Nat /\ at \in Nat \ {0} /\ q.cur \in 0 .. n /\ q.nxt \in 0 .. n
    BY <1>1
  <2>2. cur \in 0 .. n + 1 /\ (cur # 0 => q.cur \in 1 .. n)
    BY <2>1
  <2>3. nxt \in 0 .. n + 1
    BY <2>1
  <2> QED BY <2>1, <2>2, <2>3
<1>3. r \in PlayerType /\ r.cur = cur /\ r.nxt = nxt /\ r.tg = q.tg /\ r.idx = q.idx
  BY <1>1, <1>2 DEF PlayerType
<1> HIDE DEF r
<1>4. At(u, r)
  BY <1>2, <1>3 DEF At, n
<1>5. CurFits(u, r)
  <2>1. SUFFICES ASSUME cur # 0 PROVE Fits(u[cur], q.idx)
    BY <1>3 DEF CurFits, NoBlock
  <2>2. q.cur \in 1 .. n /\ q.cur # NoBlock
    BY <1>2, <2>1 DEF NoBlock
  <2>3. u[cur] = t[q.cur]
    BY <2>2 DEF n
  <2> QED BY <1>1, <2>2, <2>3 DEF CurFits
<1>6. SilentTape(t) => SilentTape(u)
  <2>1. SUFFICES ASSUME NEW i \in 1 .. n, NoPulses(t[i]) PROVE SilentTape(u)
    BY DEF SilentTape, n
  <2> DEFINE k == IF i >= at THEN i + 1 ELSE i
  <2>2. k \in 1 .. n + 1
    BY <1>1
  <2>3. u[k] = t[i]
    BY DEF n
  <2> HIDE DEF k
  <2> QED BY <2>1, <2>2, <2>3 DEF SilentTape, n
<1>7. GenOn(u, r.tg)
  BY <1>1, <1>3, <1>6 DEF GenOn
<1>8. PlayerInv(u, r)
  BY <1>3, <1>4, <1>5, <1>7 DEF PlayerInv
<1> QED BY <1>8 DEF r

\* The tape stops at b; it may be another one.
LEMMA StoppedKeeps ==
  ASSUME DeckInv, NEW b \in Nat, StoppedAt(b), tape' \in Seq(Block), loaded' \in BOOLEAN,
         loaded' => b \in 0 .. Len(tape'),
         UNCHANGED <<mode48k, curSmp, player, sampler, crashed, from, elapsed>>
  PROVE  DeckInv'
BY DEF StoppedAt, DeckInv, DeckTypes, PausedIsPlaying, DeckHeeds

LEMMA CurBlockType ==
  ASSUME DeckInv
  PROVE  CurBlock \in Nat /\ (loaded => CurBlock \in 0 .. Len(tape))
BY PlacesType DEF DeckInv, DeckTypes, CurBlock, PlayerCurBlock

LEMMA DeckSame ==
  ASSUME DeckInv,
         UNCHANGED <<loaded, tape, curBlock, playing, curSmp, player, sampler, from>>,
         paused' \in BOOLEAN, paused' => playing, mode48k' \in BOOLEAN, crashed' \in BOOLEAN
  PROVE  DeckInv'
BY DEF DeckInv, DeckTypes, PausedIsPlaying, DeckHeeds

LEMMA PlayDeck == DeckInv /\ Play => DeckInv'
<1> SUFFICES ASSUME DeckInv, Play PROVE DeckInv'
  OBVIOUS
<1> DEFINE i == SamplerInit(tape, player, sampler, curBlock)
           q == PlayerNext(tape, i.p)
           on == playing \/ ~(Hungry(q) /\ i.s.delay < DeltaT)
<1>1. /\ DeckTypes /\ PausedIsPlaying /\ ~paused
      /\ tape \in Seq(Block) /\ player \in PlayerType /\ sampler \in SamplerType
      /\ paused \in BOOLEAN /\ mode48k \in BOOLEAN
  BY DEF DeckInv, DeckTypes, Play
<1>2. CASE Crash
  BY <1>1, <1>2, DeckSame DEF Crash, deckVars
<1>3. CASE /\ (loaded \/ curBlock = NoBlock) /\ i.sig # "abort"
           /\ player' = q
           /\ sampler' = i.s
           /\ playing' = on
           /\ from' = IF curBlock = NoBlock THEN <<>> ELSE SubSeq(tape, curBlock, Len(tape))
           /\ elapsed' = 0
           /\ UNCHANGED <<loaded, tape, curBlock, paused, mode48k, curSmp, crashed>>
  <2>1. curBlock \in 0 .. Len(tape) /\ Len(tape) \in Nat
    BY <1>1, <1>3 DEF DeckTypes, NoBlock
  <2>2. /\ PlayerInv(tape, i.p) /\ i.s \in SamplerType
        /\ curBlock # NoBlock => Rests(tape, curBlock, i.p)
    BY <1>1, <1>3, <2>1, SamplerInitKeeps
  <2> HIDE DEF i
  <2>3. PlayerInv(tape, q) /\ q \in PlayerType
    BY <1>1, <2>2, PlayerNextReturns DEF PlayerInv
  <2>4. curBlock # NoBlock => curBlock \in 1 .. Len(tape) /\ Rests(tape, curBlock, q)
    BY <1>1, <2>1, <2>2, RestsKept DEF NoBlock
  <2>5. on \in BOOLEAN
    OBVIOUS
  <2> HIDE DEF q, on
  <2>6. playing' \in BOOLEAN
    BY <1>3, <2>5
  <2>7. DeckTypes'
    BY <1>1, <1>3, <2>2, <2>3, <2>6 DEF DeckTypes
  <2>8. DeckHeeds'
    BY <1>3, <2>4 DEF DeckHeeds
  <2>9. PausedIsPlaying'
    BY <1>1, <1>3 DEF PausedIsPlaying
  <2> QED BY <2>7, <2>8, <2>9 DEF DeckInv
<1> QED BY <1>2, <1>3 DEF Play

LEMMA GetSmpDeck == DeckInv /\ GetSmp => DeckInv'
<1> SUFFICES ASSUME DeckInv, GetSmp PROVE DeckInv'
  OBVIOUS
<1> DEFINE r == CatchUp(tape, player, sampler, DeltaT)
           on == ~StopsPlayback(r.sig)
<1>1. /\ DeckTypes /\ PausedIsPlaying /\ ~paused /\ playing
      /\ tape \in Seq(Block) /\ PlayerInv(tape, player) /\ sampler \in SamplerType
      /\ paused \in BOOLEAN /\ mode48k \in BOOLEAN
  BY DEF DeckInv, DeckTypes, GetSmp
<1>2. DeltaT \in Nat
  BY DeckAssumption
<1>3. CASE r.sig = "abort"
  BY <1>1, <1>3, DeckSame DEF GetSmp, Crash, deckVars
<1>4. CASE r.sig # "abort"
  <2>1. /\ player' = r.p /\ sampler' = r.s /\ curSmp' = r.s.lvl /\ playing' = on
        /\ UNCHANGED <<loaded, tape, curBlock, paused, mode48k, crashed, from>>
    BY <1>4 DEF GetSmp
  <2>2. r \in Outcomes(tape)
    BY <1>1, <1>2, CatchUpType
  <2>3. ASSUME NEW b \in 1 .. Len(tape), Rests(tape, b, player)
        PROVE  r.sig = "stop" \/ Rests(tape, b, r.p)
    BY <1>1, <1>2, <1>4, <2>3, CatchUpRests
  <2>4. on \in BOOLEAN
    BY DEF StopsPlayback
  <2>5. r.sig = "stop" => ~on
    BY DEF StopsPlayback
  <2> HIDE DEF r, on
  <2>6. r.p \in Playable(tape) /\ r.s \in SamplerType
    BY <2>2 DEF Outcomes
  <2>7. PlayerInv(tape, r.p) /\ r.p \in PlayerType /\ r.s.lvl \in Level
    BY <1>1, <2>6, PlayableIs DEF PlayerInv, SamplerType
  <2>8. DeckTypes'
    BY <1>1, <2>1, <2>4, <2>6, <2>7 DEF DeckTypes
  <2>9. DeckHeeds'
    <3>1. SUFFICES ASSUME playing', from # <<>>
                   PROVE  \E b \in 1 .. Len(tape) : from = SubSeq(tape, b, Len(tape))
                                                    /\ Rests(tape, b, r.p)
      BY <2>1 DEF DeckHeeds
    <3>2. PICK b \in 1 .. Len(tape) : from = SubSeq(tape, b, Len(tape)) /\ Rests(tape, b, player)
      BY <1>1, <3>1 DEF DeckInv, DeckHeeds
    <3>3. r.sig # "stop"
      BY <2>1, <2>5, <3>1
    <3> QED BY <2>3, <3>2, <3>3
  <2>10. PausedIsPlaying'
    BY <1>1, <2>1 DEF PausedIsPlaying
  <2> QED BY <2>8, <2>9, <2>10 DEF DeckInv
<1> QED BY <1>3, <1>4

LEMMA RecordDeck == DeckInv /\ Record => DeckInv'
<1> SUFFICES ASSUME DeckInv, Record PROVE DeckInv'
  OBVIOUS
<1> DEFINE at == IF CurBlock = NoBlock THEN Len(tape) + 1 ELSE CurBlock
           moved(k) == IF k >= at THEN k + 1 ELSE k
<1>1. /\ DeckTypes /\ PausedIsPlaying /\ tape \in Seq(Block) /\ Len(tape) \in Nat
      /\ paused \in BOOLEAN /\ mode48k \in BOOLEAN /\ player \in PlayerType
  BY DEF DeckInv, DeckTypes
<1>2. CASE ~loaded
  BY <1>1, <1>2, DeckSame DEF Record, Crash, deckVars, PausedIsPlaying
<1>3. CASE loaded
  <2>1. PICK b \in Recordings : tape' = SubSeq(tape, 1, at - 1) \o <<b>> \o SubSeq(tape, at, Len(tape))
    BY <1>3 DEF Record
  <2>2. /\ curBlock' = moved(curBlock)
        /\ player' = IF playing
                     THEN [player EXCEPT !.cur = moved(player.cur), !.nxt = moved(player.nxt)]
                     ELSE player
        /\ from' = IF playing THEN <<>> ELSE from
        /\ UNCHANGED <<loaded, playing, paused, mode48k, curSmp, sampler, crashed, elapsed>>
    BY <1>3 DEF Record
  <2>3. at \in 1 .. Len(tape) + 1 /\ curBlock \in 0 .. Len(tape)
    BY <1>1, <1>3, CurBlockType DEF DeckTypes, NoBlock
  <2>4. b \in Block
    BY DeckAssumption DEF Block
  <2> HIDE DEF at
  <2>5. /\ tape' \in Seq(Block) /\ Len(tape') = Len(tape) + 1
        /\ \A i \in 1 .. Len(tape) : tape'[moved(i)] = tape[i]
    BY <1>1, <2>1, <2>3, <2>4, RecordKeeps
  <2>6. playing => PlayerInv(tape', player')
    <3>1. SUFFICES ASSUME playing PROVE PlayerInv(tape', player')
      OBVIOUS
    <3>2. PlayerInv(tape, player)
      BY <1>1, <3>1 DEF DeckTypes
    <3> DEFINE cur == moved(player.cur)
               nxt == moved(player.nxt)
    <3>3. /\ cur = IF player.cur >= at THEN player.cur + 1 ELSE player.cur
          /\ nxt = IF player.nxt >= at THEN player.nxt + 1 ELSE player.nxt
      OBVIOUS
    <3>4. player' = [player EXCEPT !.cur = cur, !.nxt = nxt]
      BY <2>2, <3>1
    <3> HIDE DEF cur, nxt
    <3>5. PlayerInv(tape', [player EXCEPT !.cur = cur, !.nxt = nxt])
      BY <1>1, <2>3, <2>5, <3>2, <3>3, PlayerMoves
    <3> QED BY <3>4, <3>5
  <2>7. player' \in PlayerType
    BY <1>1, <2>2, <2>6 DEF PlayerInv
  <2>8. moved(curBlock) \in Nat /\ moved(curBlock) \in 0 .. Len(tape) + 1
    BY <1>1, <2>3
  <2>9. DeckTypes'
    BY <1>1, <2>2, <2>5, <2>6, <2>7, <2>8 DEF DeckTypes
  <2>10. DeckHeeds'
    BY <2>2 DEF DeckHeeds
  <2>11. PausedIsPlaying'
    BY <1>1, <2>2 DEF PausedIsPlaying
  <2> QED BY <2>9, <2>10, <2>11 DEF DeckInv
<1> QED BY <1>2, <1>3

LEMMA DeckStep == DeckInv /\ [Next]_vars => DeckInv'
<1> SUFFICES ASSUME DeckInv, [Next]_vars PROVE DeckInv'
  OBVIOUS
<1>1. /\ loaded \in BOOLEAN /\ paused \in BOOLEAN /\ mode48k \in BOOLEAN /\ crashed \in BOOLEAN
      /\ tape \in Seq(Block) /\ Len(tape) \in Nat /\ (paused => playing)
  BY DEF DeckInv, DeckTypes, PausedIsPlaying
<1>2. <<>> \in Seq(Block) /\ Len(<<>>) = 0
  OBVIOUS
<1>3. ASSUME Crash PROVE DeckInv'
  BY <1>1, <1>3, DeckSame DEF Crash, deckVars
<1>4. CASE New
  BY <1>2, <1>4, StoppedKeeps DEF New, NoBlock
<1>5. CASE Open
  <2>1. PICK t \in Tapes : tape' = t /\ StoppedAt(TapeFirst(t))
    BY <1>5 DEF Open
  <2>2. t \in Seq(Block) /\ Len(t) \in Nat
    BY PlayerAssumption
  <2>3. TapeFirst(t) \in 0 .. Len(t) /\ TapeFirst(t) \in Nat
    BY <2>2 DEF TapeFirst, NoBlock
  <2>4. loaded' \in BOOLEAN
    BY <1>5 DEF Open
  <2> QED BY <1>5, <2>1, <2>2, <2>3, <2>4, StoppedKeeps DEF Open
<1>6. CASE OpenFails
  BY <1>2, <1>6, CurBlockType, StoppedKeeps DEF OpenFails
<1>7. CASE SaveNothing
  BY <1>3, <1>7 DEF SaveNothing
<1>8. CASE Unpause
  BY <1>1, <1>8, DeckSame DEF Unpause
<1>9. CASE Play
  BY <1>9, PlayDeck
<1>10. CASE Pause
  BY <1>1, <1>10, DeckSame DEF Pause
<1>11. CASE Stop
  BY <1>1, <1>11, CurBlockType, StoppedKeeps DEF Stop
<1>12. CASE Rewind
  <2>1. CASE ~loaded
    BY <1>3, <1>12, <2>1 DEF Rewind
  <2>2. CASE loaded
    BY <1>1, <1>12, <2>2, StoppedKeeps DEF Rewind, TapeFirst, NoBlock
  <2> QED BY <2>1, <2>2
<1>13. CASE NextBlock
  BY <1>1, <1>3, <1>13, CurBlockType, StoppedKeeps DEF NextBlock, TapeNext, NoBlock
<1>14. CASE Record
  BY <1>14, RecordDeck
<1>15. CASE Set48k
  BY <1>1, <1>15, DeckSame DEF Set48k
<1>16. CASE GetSmp
  BY <1>16, GetSmpDeck
<1>17. CASE UNCHANGED vars
  BY <1>1, <1>17, DeckSame DEF vars, deckVars
<1> QED
  BY <1>4, <1>5, <1>6, <1>7, <1>8, <1>9, <1>10, <1>11, <1>12, <1>13, <1>14, <1>15, <1>16, <1>17
     DEF Next

LEMMA DeckInvariant == Spec => []DeckInv
<1>1. Init => DeckInv
  BY DeckInitially
<1>2. DeckInv /\ [Next]_vars => DeckInv'
  BY DeckStep
<1> QED BY <1>1, <1>2, PTL DEF Spec

(* The deck's fields keep their types, and its position and the player's    *)
(* are blocks of the tape that is in the deck, whichever tape the buttons,  *)
(* the menus, quick load or SAVE left there.                                *)
THEOREM DeckTypeCorrect == Spec => []TypeOK
<1>1. DeckInv => TypeOK
  BY DEF DeckInv, DeckTypes, TypeOK, PlayerInv, At
<1> QED BY <1>1, DeckInvariant, PTL

(* A tape that stands still is not paused, so that the Play button always   *)
(* starts a tape that is stopped.                                           *)
THEOREM PausedCorrect == Spec => []PausedIsPlaying
<1>1. DeckInv => PausedIsPlaying
  BY DEF DeckInv
<1> QED BY <1>1, DeckInvariant, PTL

(* A Stop block is never played over, for all tapes, with their loops, and  *)
(* in whatever order the buttons are pressed.                               *)
THEOREM StopsCorrect == Spec => []StopsHeeded
<1>1. DeckInv => StopsHeeded
  <2> SUFFICES ASSUME DeckInv, playing, from # <<>>, NEW i \in 1 .. Behind, from[i].btype = "stop"
               PROVE  (i = Behind /\ player.sig = "stop") \/ \A j \in 1 .. i : PassedOver(from[j])
    BY DEF StopsHeeded
  <2> DEFINE n == Len(tape)
  <2>1. PICK b \in 1 .. n : from = SubSeq(tape, b, n) /\ Rests(tape, b, player)
    BY DEF DeckInv, DeckHeeds
  <2>2. tape \in Seq(Block) /\ n \in Nat /\ PlayerInv(tape, player)
    BY DEF DeckInv, DeckTypes
  <2>3. /\ Len(from) = n - b + 1
        /\ \A k \in 1 .. n - b + 1 : from[k] = tape[b + k - 1]
    BY <2>1, <2>2
  <2>4. /\ player.cur \in 0 .. n /\ player.nxt \in 0 .. n /\ Passed(tape, player) \in 0 .. n
    BY <2>2, PlacesType
  <2> HIDE DEF n
  <2>5. Behind = Passed(tape, player) - (b - 1)
    BY <2>1, <2>2, <2>3, <2>4 DEF CurBlock, PlayerCurBlock, NoBlock, Passed, n, Behind, Position
  <2> DEFINE m == Passed(tape, player)
             k == b + i - 1
  <2>6. m \in 0 .. n /\ b \in 1 .. n /\ i \in 1 .. m - (b - 1)
    BY <2>1, <2>4, <2>5
  <2> HIDE DEF m
  <2>7. k \in b .. m /\ i \in 1 .. n - b + 1
    BY <2>2, <2>6
  <2>8. tape[k].btype = "stop"
    BY <2>3, <2>7
  <2>9. (k = m /\ player.sig = "stop") \/ Overs(tape, b, k)
    <3> HIDE DEF k
    <3> QED BY <2>1, <2>7, <2>8 DEF Rests, Heeded, m
  <2>10. CASE k = m /\ player.sig = "stop"
    BY <2>2, <2>5, <2>6, <2>10 DEF m
  <2>11. CASE Overs(tape, b, k)
    <3>1. ASSUME NEW j \in 1 .. i PROVE PassedOver(from[j])
      <4>1. j \in 1 .. n - b + 1 /\ b + j - 1 \in b .. k
        BY <2>2, <2>6, <2>7
      <4>2. from[j] = tape[b + j - 1]
        BY <2>3, <4>1
      <4> HIDE DEF k
      <4> QED BY <2>11, <4>1, <4>2 DEF Overs
    <3> QED BY <3>1
  <2> QED BY <2>9, <2>10, <2>11
<1> QED BY <1>1, DeckInvariant, PTL

(* Each step of the loops of tape_player_next() after which they go on      *)
(* leads down an order in which no infinite descent exists: no tape,        *)
(* whatever its loops, hangs the emulator.                                  *)
THEOREM LoopsDescend ==
  LoopSpec => [](Ordered(Descent(reel), Playable(reel)))
              /\ [][Take \/ (PlayOn /\ Hungry(p')) => <<p', p>> \in Descent(reel)]_loopVars
<1>1. PlayInv => Ordered(Descent(reel), Playable(reel))
  BY DescentOrdered DEF PlayInv
<1>2. ASSUME PlayInv, Take \/ (PlayOn /\ Hungry(p')) PROVE <<p', p>> \in Descent(reel)
  BY <1>2, PlayableIs, StepsDescend DEF PlayInv, Take, PlayOn
<1>3. PlayInv => [Take \/ (PlayOn /\ Hungry(p')) => <<p', p>> \in Descent(reel)]_loopVars
  BY <1>2
<1>4. LoopSpec => []PlayInv
  BY PlayInitially, PlayStep, PTL DEF LoopSpec
<1> QED BY <1>1, <1>3, <1>4, PTL

(***************************************************************************)
(* Waveforms, event by event.                                               *)
(***************************************************************************)
EventOf(lvl, len) == [lvl |-> lvl, len |-> len, sig |-> "none"]

\* v is wf with the events of e behind it, and the level lvl then.
Continued(wf, v, e, lvl) ==
  /\ v \in Wave /\ v.lvl = lvl
  /\ Len(v.w) = Len(wf.w) + Len(e)
  /\ \A i \in 1 .. Len(wf.w) : v.w[i] = wf.w[i]
  /\ \A i \in 1 .. Len(e) : v.w[Len(wf.w) + i] = e[i]

LEMMA WaveFields ==
  ASSUME NEW wf \in Wave
  PROVE  /\ wf.lvl \in Level /\ wf.w \in Seq(Event) /\ Len(wf.w) \in Nat
         /\ \A i \in 1 .. Len(wf.w) : wf.w[i] \in Event
BY DEF Wave

LEMMA EventFields ==
  ASSUME NEW e \in Event
  PROVE  e.lvl \in Level /\ e.len \in Nat /\ e.sig \in Signal
BY DEF Event

LEMMA EventIs ==
  ASSUME NEW lvl \in Level, NEW len \in Nat
  PROVE  /\ EventOf(lvl, len) \in Event
         /\ EventOf(lvl, len).lvl = lvl /\ EventOf(lvl, len).len = len
         /\ EventOf(lvl, len).sig = "none"
BY DEF EventOf, Event, Signal

\* Behind a waveform come more events.
LEMMA Continues ==
  ASSUME NEW wf \in Wave, NEW e \in Seq(Event), NEW lvl \in Level
  PROVE  Continued(wf, [lvl |-> lvl, w |-> wf.w \o e], e, lvl)
<1> DEFINE u == wf.w
           x == u \o e
           v == [lvl |-> lvl, w |-> x]
<1>1. u \in Seq(Event)
  BY WaveFields
<1> HIDE DEF u
<1>2. /\ x \in Seq(Event) /\ Len(x) = Len(u) + Len(e)
      /\ \A i \in 1 .. Len(u) : x[i] = u[i]
      /\ \A i \in 1 .. Len(e) : x[Len(u) + i] = e[i]
  BY <1>1
<1> HIDE DEF x
<1>3. v \in Wave /\ v.lvl = lvl /\ v.w = x
  BY <1>2 DEF Wave
<1> HIDE DEF v
<1>4. Continued(wf, v, e, lvl)
  BY <1>2, <1>3 DEF Continued, u
<1> QED BY <1>4 DEF v, x, u

LEMMA SameWave ==
  ASSUME NEW u \in Wave, NEW v \in Wave, u.lvl = v.lvl, Len(u.w) = Len(v.w),
         \A i \in 1 .. Len(u.w) : u.w[i] = v.w[i]
  PROVE  u = v
BY WaveFields DEF Wave

LEMMA LevelAfterIs ==
  ASSUME NEW lvl \in Level, NEW n \in Nat
  PROVE  /\ LevelAfter(lvl, n) \in Level /\ LevelAfter(lvl, 0) = lvl
         /\ LevelAfter(lvl, n + 1) = 1 - LevelAfter(lvl, n)
         /\ LevelAfter(lvl, 1) = 1 - lvl
BY DEF LevelAfter, Level

LEMMA EdgesIs ==
  ASSUME NEW lvl \in Level, NEW lens \in Seq(Nat)
  PROVE  /\ Edges(lvl, lens) \in Seq(Event) /\ Len(Edges(lvl, lens)) = Len(lens)
         /\ \A i \in 1 .. Len(lens) :
              Edges(lvl, lens)[i] = EventOf(LevelAfter(lvl, i - 1), lens[i])
<1> DEFINE e == [i \in 1 .. Len(lens) |-> EventOf(LevelAfter(lvl, i - 1), lens[i])]
<1>1. Edges(lvl, lens) = e
  BY DEF Edges, EventOf
<1>2. ASSUME NEW i \in 1 .. Len(lens) PROVE EventOf(LevelAfter(lvl, i - 1), lens[i]) \in Event
  <2>1. i - 1 \in Nat /\ lens[i] \in Nat
    OBVIOUS
  <2>2. LevelAfter(lvl, i - 1) \in Level
    BY <2>1, LevelAfterIs
  <2> QED BY <2>1, <2>2, EventIs
<1>3. e \in Seq(Event) /\ Len(e) = Len(lens)
      /\ \A i \in 1 .. Len(lens) : e[i] = EventOf(LevelAfter(lvl, i - 1), lens[i])
  BY <1>2
<1> QED BY <1>1, <1>3

LEMMA PulsesIs ==
  ASSUME NEW wf \in Wave, NEW lens \in Seq(Nat)
  PROVE  /\ Continued(wf, Pulses(wf, lens), Edges(wf.lvl, lens), LevelAfter(wf.lvl, Len(lens)))
         /\ Edges(wf.lvl, lens) \in Seq(Event) /\ Len(Edges(wf.lvl, lens)) = Len(lens)
         /\ \A i \in 1 .. Len(lens) :
              Edges(wf.lvl, lens)[i] = EventOf(LevelAfter(wf.lvl, i - 1), lens[i])
<1>1. wf.lvl \in Level /\ Len(lens) \in Nat
  BY WaveFields
<1>2. LevelAfter(wf.lvl, Len(lens)) \in Level
  BY <1>1, LevelAfterIs
<1>3. /\ Edges(wf.lvl, lens) \in Seq(Event) /\ Len(Edges(wf.lvl, lens)) = Len(lens)
      /\ \A i \in 1 .. Len(lens) :
           Edges(wf.lvl, lens)[i] = EventOf(LevelAfter(wf.lvl, i - 1), lens[i])
  BY <1>1, EdgesIs
<1>4. Continued(wf, Pulses(wf, lens), Edges(wf.lvl, lens), LevelAfter(wf.lvl, Len(lens)))
  BY <1>2, <1>3, Continues DEF Pulses
<1> QED BY <1>3, <1>4

LEMMA HoldIs ==
  ASSUME NEW wf \in Wave, NEW lvl \in Level, NEW len \in Nat
  PROVE  /\ Continued(wf, Hold(wf, lvl, len), <<EventOf(lvl, len)>>, lvl)
         /\ EventOf(lvl, len) \in Event
<1>1. EventOf(lvl, len) \in Event
  BY EventIs
<1> DEFINE e == EventOf(lvl, len)
<1> HIDE DEF e
<1>2. e \in Event /\ <<e>> \in Seq(Event)
  BY <1>1 DEF e
<1>3. wf.w \in Seq(Event)
  BY WaveFields
<1>4. Append(wf.w, e) = wf.w \o <<e>>
  BY <1>2, <1>3
<1>5. Hold(wf, lvl, len) = [lvl |-> lvl, w |-> wf.w \o <<e>>]
  BY <1>4 DEF Hold, e, EventOf
<1>6. Continued(wf, Hold(wf, lvl, len), <<e>>, lvl)
  BY <1>2, <1>5, Continues
<1> QED BY <1>1, <1>6 DEF e

LEMMA SamplesIs ==
  ASSUME NEW wf \in Wave, NEW bits \in Seq(Level), NEW dur \in Nat
  PROVE  \E e \in Seq(Event) :
           /\ Continued(wf, Samples(wf, bits, dur), e,
                        IF bits = <<>> THEN wf.lvl ELSE bits[Len(bits)])
           /\ Len(e) = Len(bits)
           /\ \A i \in 1 .. Len(bits) : e[i] = EventOf(bits[i], dur)
<1> DEFINE e == [i \in 1 .. Len(bits) |-> EventOf(bits[i], dur)]
           lvl == IF bits = <<>> THEN wf.lvl ELSE bits[Len(bits)]
<1>1. \A i \in 1 .. Len(bits) : EventOf(bits[i], dur) \in Event
  BY EventIs
<1>2. e \in Seq(Event) /\ Len(e) = Len(bits)
      /\ \A i \in 1 .. Len(bits) : e[i] = EventOf(bits[i], dur)
  BY <1>1
<1>3. lvl \in Level
  BY WaveFields
<1>4. Samples(wf, bits, dur) = [lvl |-> lvl, w |-> wf.w \o e]
  BY DEF Samples, EventOf
<1> HIDE DEF e, lvl
<1>5. Continued(wf, Samples(wf, bits, dur), e, lvl)
  BY <1>2, <1>3, <1>4, Continues
<1> QED BY <1>2, <1>5 DEF lvl

LEMMA SignalledIs ==
  ASSUME NEW wf \in Wave, NEW s \in Signal
  PROVE  /\ Signalled(wf, s) \in Wave /\ Signalled(wf, s).lvl = wf.lvl
         /\ Len(Signalled(wf, s).w) = Len(wf.w) + 1
         /\ \A i \in 1 .. Len(wf.w) : Signalled(wf, s).w[i] = wf.w[i]
         /\ Signalled(wf, s).w[Len(wf.w) + 1] = [lvl |-> wf.lvl, len |-> 0, sig |-> s]
<1> DEFINE e == [lvl |-> wf.lvl, len |-> 0, sig |-> s]
           u == wf.w
           x == Append(u, e)
<1>1. wf.lvl \in Level /\ u \in Seq(Event)
  BY WaveFields
<1>2. e \in Event
  BY <1>1 DEF Event
<1> HIDE DEF e, u
<1>3. /\ x \in Seq(Event) /\ Len(x) = Len(u) + 1
      /\ \A i \in 1 .. Len(u) : x[i] = u[i]
      /\ x[Len(u) + 1] = e
  BY <1>1, <1>2
<1> HIDE DEF x
<1>4. Signalled(wf, s) = [wf EXCEPT !.w = x]
  BY DEF Signalled, x, u, e
<1>5. Signalled(wf, s) \in Wave /\ Signalled(wf, s).lvl = wf.lvl /\ Signalled(wf, s).w = x
  BY <1>3, <1>4 DEF Wave
<1> QED BY <1>3, <1>5 DEF u, e

(***************************************************************************)
(* The level of the last time that passed.                                  *)
(***************************************************************************)
Low(wf) ==
  \A i \in 1 .. Len(wf.w) :
    wf.w[i].len > 0 /\ (\A j \in i + 1 .. Len(wf.w) : wf.w[j].len = 0) => wf.w[i].lvl = 0

LastTimed(e, n) ==
  n \in 1 .. Len(e) /\ e[n].len > 0 /\ \A j \in n + 1 .. Len(e) : e[j].len = 0

LEMMA RisingIs == ASSUME NEW wf PROVE Rising(wf) <=> wf.lvl = 1 /\ Low(wf)
BY DEF Rising, Low

LEMMA ContinuedIs ==
  ASSUME NEW wf \in Wave, NEW e \in Seq(Event), NEW lvl, NEW v, Continued(wf, v, e, lvl)
  PROVE  /\ v \in Wave /\ v.lvl = lvl /\ Len(wf.w) \in Nat /\ Len(e) \in Nat /\ Len(v.w) \in Nat
         /\ Len(v.w) = Len(wf.w) + Len(e)
         /\ \A i \in 1 .. Len(wf.w) : v.w[i] = wf.w[i]
         /\ \A i \in 1 .. Len(e) : v.w[Len(wf.w) + i] = e[i]
         /\ \A i \in Len(wf.w) + 1 .. Len(v.w) :
              i - Len(wf.w) \in 1 .. Len(e) /\ v.w[i] = e[i - Len(wf.w)]
<1>1. Len(wf.w) \in Nat /\ Len(e) \in Nat
  BY WaveFields
<1>2. ASSUME NEW i \in Len(wf.w) + 1 .. Len(v.w)
      PROVE  i - Len(wf.w) \in 1 .. Len(e) /\ v.w[i] = e[i - Len(wf.w)]
  <2>1. i - Len(wf.w) \in 1 .. Len(e) /\ i = Len(wf.w) + (i - Len(wf.w))
    BY <1>1 DEF Continued
  <2> QED BY <2>1 DEF Continued
<1> QED BY <1>1, <1>2 DEF Continued

LEMMA LowBehind ==
  ASSUME NEW wf \in Wave, NEW e \in Seq(Event), NEW lvl, NEW v, Continued(wf, v, e, lvl)
  PROVE  /\ (\A i \in 1 .. Len(e) : e[i].len = 0) => (Low(v) <=> Low(wf))
         /\ \A n : LastTimed(e, n) => (Low(v) <=> e[n].lvl = 0)
<1> DEFINE a == Len(wf.w)
           b == Len(v.w)
           u == wf.w
           x == v.w
<1>1. /\ a \in Nat /\ b \in Nat /\ b = a + Len(e) /\ Len(e) \in Nat
      /\ \A i \in 1 .. a : x[i] = u[i]
      /\ \A i \in a + 1 .. b : i - a \in 1 .. Len(e) /\ x[i] = e[i - a]
      /\ \A i \in 1 .. Len(e) : x[a + i] = e[i]
  BY ContinuedIs
<1>2. /\ Low(wf) <=> \A i \in 1 .. a : u[i].len > 0 /\ (\A j \in i + 1 .. a : u[j].len = 0) => u[i].lvl = 0
      /\ Low(v) <=> \A i \in 1 .. b : x[i].len > 0 /\ (\A j \in i + 1 .. b : x[j].len = 0) => x[i].lvl = 0
  BY DEF Low
<1> HIDE DEF a, b, u, x
<1>3. ASSUME \A i \in 1 .. Len(e) : e[i].len = 0 PROVE Low(v) <=> Low(wf)
  <2>1. \A i \in a + 1 .. b : x[i].len = 0
    BY <1>1, <1>3
  <2>2. ASSUME Low(wf), NEW i \in 1 .. b, x[i].len > 0, \A j \in i + 1 .. b : x[j].len = 0
        PROVE  x[i].lvl = 0
    <3>1. i \in 1 .. a /\ x[i] = u[i]
      BY <1>1, <2>1, <2>2
    <3>2. \A j \in i + 1 .. a : j \in i + 1 .. b /\ x[j] = u[j]
      BY <1>1, <3>1
    <3>3. \A j \in i + 1 .. a : u[j].len = 0
      BY <2>2, <3>2
    <3> QED BY <1>2, <2>2, <3>1, <3>3
  <2>3. ASSUME Low(v), NEW i \in 1 .. a, u[i].len > 0, \A j \in i + 1 .. a : u[j].len = 0
        PROVE  u[i].lvl = 0
    <3>1. i \in 1 .. b /\ x[i] = u[i]
      BY <1>1
    <3>2. ASSUME NEW j \in i + 1 .. b PROVE x[j].len = 0
      BY <1>1, <2>1, <2>3
    <3> QED BY <1>2, <2>3, <3>1, <3>2
  <2> QED BY <1>2, <2>2, <2>3
<1>4. ASSUME NEW n, LastTimed(e, n) PROVE Low(v) <=> e[n].lvl = 0
  <2>1. /\ n \in 1 .. Len(e) /\ e[n].len > 0
        /\ \A j \in n + 1 .. Len(e) : e[j].len = 0
    BY <1>4 DEF LastTimed
  <2>2. a + n \in 1 .. b /\ x[a + n] = e[n]
    BY <1>1, <2>1
  <2>3. ASSUME NEW j \in a + n + 1 .. b PROVE x[j].len = 0
    <3>1. x[j] = e[j - a] /\ j - a \in n + 1 .. Len(e)
      BY <1>1, <2>1
    <3> QED BY <2>1, <3>1
  <2>4. Low(v) => e[n].lvl = 0
    BY <1>2, <2>1, <2>2, <2>3
  <2>5. ASSUME e[n].lvl = 0, NEW i \in 1 .. b, x[i].len > 0, \A j \in i + 1 .. b : x[j].len = 0
        PROVE  x[i].lvl = 0
    <3>1. ~(i < a + n)
      BY <1>1, <2>1, <2>2, <2>5
    <3>2. ~(i > a + n)
      BY <1>1, <2>1, <2>3, <2>5
    <3>3. i = a + n
      BY <1>1, <2>1, <3>1, <3>2
    <3> QED BY <2>2, <2>5, <3>3
  <2> QED BY <1>2, <2>4, <2>5
<1> QED BY <1>3, <1>4

(***************************************************************************)
(* What the generator is about to give: k events of wf were given, and the  *)
(* others come from the pulses that remain and from the program.            *)
(***************************************************************************)
Coming(wf, k) == IF k < Len(wf.w) THEN wf.w[k + 1].lvl ELSE wf.lvl

\* at[i] is how many events there are when the first i entries are played.
Entries(tg, k, wf, at) ==
  /\ at \in [0 .. Len(tg.prog) -> Nat]
  /\ at[tg.tidx] = k + tg.rem /\ at[Len(tg.prog)] = Len(wf.w)
  /\ \A i \in tg.tidx + 1 .. Len(tg.prog) :
       /\ at[i] = at[i - 1] + tg.prog[i].np
       /\ \A j \in 1 .. tg.prog[i].np : wf.w[at[i - 1] + j].len = tg.prog[i].len

Tonal(tg, k, wf) ==
  /\ \A i \in 1 .. Len(tg.prog) : ~tg.prog[i].direct
  /\ tg.rem > 0 => ~tg.cdirect
  /\ \E at : Entries(tg, k, wf, at)
  /\ \A j \in k + 1 .. k + tg.rem : wf.w[j].len = tg.clen
  /\ \A j \in k + 1 .. Len(wf.w) : Coming(wf, j) = 1 - wf.w[j].lvl

Straight(tg, k, wf) ==
  /\ tg.rem = 0 /\ k + Len(tg.prog) = Len(wf.w) + tg.tidx
  /\ \A i \in tg.tidx + 1 .. Len(tg.prog) :
       /\ tg.prog[i].direct /\ tg.prog[i].np = 1
       /\ wf.w[k + i - tg.tidx].lvl = tg.prog[i].lvl
       /\ wf.w[k + i - tg.tidx].len = tg.prog[i].len
  /\ k < Len(wf.w) => wf.lvl = wf.w[Len(wf.w)].lvl

\* The levels that the next program starts from.
Tuned(tg, k, wf) ==
  /\ tg \in ToneGenType /\ wf \in Wave /\ k \in 0 .. Len(wf.w)
  /\ tg.tidx <= Len(tg.prog)
  /\ tg.cur = Coming(wf, k) /\ tg.plast = wf.lvl
  /\ tg.pprev = 0 <=> Low(wf)
  /\ \A j \in k + 1 .. Len(wf.w) : wf.w[j].sig = "none"

Says(tg, k, wf) == Tuned(tg, k, wf) /\ (Tonal(tg, k, wf) \/ Straight(tg, k, wf))

\* A generator that said it all, and whose program is empty.
Blank(tg, wf) ==
  Says(tg, Len(wf.w), wf) /\ tg.prog = <<>> /\ tg.tidx = 0 /\ tg.rem = 0

LEMMA SaysEnd ==
  ASSUME NEW tg, NEW k, NEW wf, Says(tg, k, wf), IsEnd(tg)
  PROVE  k = Len(wf.w) /\ Blank(Clear(tg), wf)
<1>1. /\ tg \in ToneGenType /\ wf \in Wave /\ k \in 0 .. Len(wf.w) /\ tg.cur = Coming(wf, k)
      /\ tg.plast = wf.lvl /\ (tg.pprev = 0 <=> Low(wf))
  BY DEF Says, Tuned
<1>2. /\ tg.prog \in Seq(Entry) /\ Len(tg.prog) \in Nat /\ tg.tidx \in Nat /\ Len(wf.w) \in Nat
      /\ wf.lvl \in Level
  BY <1>1, WaveFields DEF ToneGenType
<1>3. tg.rem = 0 /\ tg.tidx = Len(tg.prog)
  BY DEF IsEnd
<1>4. k = Len(wf.w)
  <2>1. CASE Tonal(tg, k, wf)
    <3>1. PICK at : Entries(tg, k, wf, at)
      BY <2>1 DEF Tonal
    <3> QED BY <1>1, <1>2, <1>3, <3>1 DEF Entries
  <2>2. CASE Straight(tg, k, wf)
    <3>1. k + Len(tg.prog) = Len(wf.w) + Len(tg.prog)
      BY <1>3, <2>2 DEF Straight
    <3> DEFINE n == Len(tg.prog)
               m == Len(wf.w)
    <3>4. k \in Nat
      BY <1>1, <1>2
    <3>2. n \in Nat /\ m \in Nat /\ k + n = m + n
      BY <1>2, <3>1, Zenon
    <3> HIDE DEF n, m
    <3>3. k = m
      BY <3>2, <3>4
    <3> QED BY <3>3 DEF m
  <2> QED BY <2>1, <2>2 DEF Says
<1> DEFINE c == Clear(tg)
<1>5. <<>> \in Seq(Entry) /\ Len(<<>>) = 0
  OBVIOUS
<1>6. /\ c \in ToneGenType /\ c.prog = <<>> /\ c.tidx = 0 /\ c.rem = 0 /\ c.cur = tg.cur
      /\ c.plast = tg.plast /\ c.pprev = tg.pprev
  BY <1>1, <1>3, <1>5 DEF Clear, ToneGenType
<1> HIDE DEF c
<1>7. Tuned(c, k, wf)
  BY <1>1, <1>2, <1>4, <1>5, <1>6 DEF Tuned
<1>8. Straight(c, k, wf)
  BY <1>1, <1>2, <1>4, <1>5, <1>6 DEF Straight
<1> QED BY <1>4, <1>6, <1>7, <1>8 DEF Blank, Says, c

LEMMA BlankBoth ==
  ASSUME NEW tg, NEW wf, Blank(tg, wf)
  PROVE  /\ Tuned(tg, Len(wf.w), wf) /\ Straight(tg, Len(wf.w), wf) /\ Tonal(tg, Len(wf.w), wf)
         /\ tg.prog = <<>> /\ tg.tidx = 0 /\ tg.rem = 0 /\ IsEnd(tg)
<1>1. /\ Tuned(tg, Len(wf.w), wf) /\ tg.prog = <<>> /\ tg.tidx = 0 /\ tg.rem = 0
      /\ wf \in Wave /\ Len(wf.w) \in Nat /\ Len(tg.prog) = 0
  BY WaveFields DEF Blank, Says, Tuned
<1>2. Straight(tg, Len(wf.w), wf)
  BY <1>1 DEF Straight
<1> DEFINE at == [i \in 0 .. 0 |-> Len(wf.w)]
<1>3. Entries(tg, Len(wf.w), wf, at)
  BY <1>1 DEF Entries
<1>4. Tonal(tg, Len(wf.w), wf)
  BY <1>1, <1>3 DEF Tonal
<1> QED BY <1>1, <1>2, <1>4 DEF IsEnd

LEMMA Standstill ==
  ASSUME NEW a \in Nat, NEW b \in Nat, NEW at, \A j \in a + 1 .. b : at[j] = at[j - 1]
  PROVE  \A j \in a .. b : at[j] = at[a]
<1> DEFINE T == {j \in a .. b : at[j] # at[a]}
<1> SUFFICES ASSUME T # {} PROVE FALSE
  OBVIOUS
<1>1. T \in SUBSET Nat
  OBVIOUS
<1>2. PICK x \in T : \A y \in T : x <= y
  BY <1>1, Least
<1>3. x \in a + 1 .. b /\ x - 1 \in a .. b /\ x - 1 \notin T
  BY <1>2
<1> QED BY <1>3

LEMMA SayingFields ==
  ASSUME NEW tg, NEW k, NEW wf, Tuned(tg, k, wf)
  PROVE  /\ wf \in Wave /\ wf.lvl \in Level /\ Len(wf.w) \in Nat /\ k \in Nat /\ k <= Len(wf.w)
         /\ tg.prog \in Seq(Entry) /\ Len(tg.prog) \in Nat /\ tg.tidx \in Nat
         /\ tg.tidx <= Len(tg.prog) /\ tg.rem \in Nat
         /\ \A i \in 1 .. Len(tg.prog) : tg.prog[i] \in Entry /\ tg.prog[i].np \in Nat
         /\ \A i \in 1 .. Len(wf.w) : wf.w[i] \in Event
<1>1. /\ tg \in ToneGenType /\ wf \in Wave /\ k \in 0 .. Len(wf.w) /\ tg.tidx <= Len(tg.prog)
  BY DEF Tuned
<1>2. /\ wf.lvl \in Level /\ Len(wf.w) \in Nat /\ \A i \in 1 .. Len(wf.w) : wf.w[i] \in Event
  BY <1>1, WaveFields
<1>3. k \in Nat /\ k <= Len(wf.w)
  BY <1>1, <1>2
<1>4. tg.prog \in Seq(Entry) /\ tg.tidx \in Nat /\ tg.rem \in Nat
  BY <1>1 DEF ToneGenType
<1>5. /\ Len(tg.prog) \in Nat
      /\ \A i \in 1 .. Len(tg.prog) : tg.prog[i] \in Entry
  BY <1>4
<1>6. \A i \in 1 .. Len(tg.prog) : tg.prog[i].np \in Nat
  BY <1>5 DEF Entry
<1> QED BY <1>1, <1>2, <1>3, <1>4, <1>5, <1>6

\* The first entry that has a pulse.
IsNextEntry(tg, i) ==
  /\ i \in tg.tidx + 1 .. Len(tg.prog) /\ tg.prog[i].np > 0
  /\ \A j \in tg.tidx + 1 .. i - 1 : tg.prog[j].np = 0

LEMMA TakesEntry ==
  ASSUME NEW tg, Gen(tg), CanGetNext(tg), tg.rem = 0
  PROVE  \E i : /\ IsNextEntry(tg, i)
                /\ TakeEntry(tg) = [tg EXCEPT !.tidx = i, !.rem = tg.prog[i].np,
                                              !.clen = tg.prog[i].len, !.cdirect = tg.prog[i].direct,
                                              !.cur = IF tg.prog[i].direct THEN tg.prog[i].lvl ELSE @]
<1>1. /\ Sounding(tg) \in SUBSET (1 .. Len(tg.prog)) /\ Sounding(tg) # {}
      /\ \A i \in 1 .. Len(tg.prog) : tg.prog[i] \in Entry
  BY SoundingType DEF CanGetNext
<1>2. tg.tidx \in Nat /\ tg.prog \in Seq(Entry) /\ Len(tg.prog) \in Nat
  BY DEF Gen, ToneGenType
<1> DEFINE S == Sounding(tg)
           i == CHOOSE k \in S : \A j \in S : k <= j
<1>3. S \in SUBSET Nat /\ S # {}
  BY <1>1, <1>2
<1>4. i \in S /\ \A j \in S : i <= j
  <2>1. \E x \in S : \A y \in S : x <= y
    BY <1>3, Least
  <2> HIDE DEF S
  <2> QED BY <2>1
<1>5. TakeEntry(tg) = [tg EXCEPT !.tidx = i, !.rem = tg.prog[i].np,
                                 !.clen = tg.prog[i].len, !.cdirect = tg.prog[i].direct,
                                 !.cur = IF tg.prog[i].direct THEN tg.prog[i].lvl ELSE @]
  BY DEF TakeEntry
<1> HIDE DEF i
<1>6. i \in tg.tidx + 1 .. Len(tg.prog) /\ tg.prog[i].np > 0
  BY <1>4 DEF Sounding
<1>7. ASSUME NEW j \in tg.tidx + 1 .. i - 1 PROVE tg.prog[j].np = 0
  <2>1. j \in tg.tidx + 1 .. Len(tg.prog) /\ j \in 1 .. Len(tg.prog) /\ j \notin S
    BY <1>2, <1>4, <1>6
  <2>2. tg.prog[j].np \in Nat
    BY <1>1, <2>1 DEF Entry
  <2> QED BY <2>1, <2>2 DEF Sounding
<1>8. IsNextEntry(tg, i)
  BY <1>6, <1>7 DEF IsNextEntry
<1> QED BY <1>5, <1>8

\* With tones in the program: the entry is taken, the same is to come.
LEMMA TakeTonal ==
  ASSUME NEW tg, NEW k, NEW wf, Tuned(tg, k, wf), Tonal(tg, k, wf), Gen(tg), CanGetNext(tg)
  PROVE  LET r == TakeEntry(tg)
         IN  Tuned(r, k, wf) /\ Tonal(r, k, wf) /\ r.rem > 0 /\ r.cur = tg.cur
<1> DEFINE r == TakeEntry(tg)
<1> SUFFICES Tuned(r, k, wf) /\ Tonal(r, k, wf) /\ r.rem > 0 /\ r.cur = tg.cur
  OBVIOUS
<1>1. CASE tg.rem > 0
  BY <1>1 DEF TakeEntry
<1>2. CASE tg.rem = 0
  <2>0. /\ wf \in Wave /\ wf.lvl \in Level /\ Len(wf.w) \in Nat /\ k \in Nat /\ k <= Len(wf.w)
        /\ tg.prog \in Seq(Entry) /\ Len(tg.prog) \in Nat /\ tg.tidx \in Nat
        /\ tg.tidx <= Len(tg.prog) /\ tg.rem \in Nat
        /\ \A i \in 1 .. Len(tg.prog) : tg.prog[i] \in Entry /\ tg.prog[i].np \in Nat
    BY SayingFields
  <2>1. PICK i : /\ IsNextEntry(tg, i)
                 /\ r = [tg EXCEPT !.tidx = i, !.rem = tg.prog[i].np,
                                   !.clen = tg.prog[i].len, !.cdirect = tg.prog[i].direct,
                                   !.cur = IF tg.prog[i].direct THEN tg.prog[i].lvl ELSE @]
    BY <1>2, TakesEntry
  <2>2. /\ i \in tg.tidx + 1 .. Len(tg.prog) /\ tg.prog[i].np > 0
        /\ \A j \in tg.tidx + 1 .. i - 1 : tg.prog[j].np = 0
        /\ i \in 1 .. Len(tg.prog) /\ tg.prog[i] \in Entry /\ ~tg.prog[i].direct
    BY <2>0, <2>1 DEF IsNextEntry, Tonal
  <2>3. /\ r \in ToneGenType /\ r.prog = tg.prog /\ r.tidx = i /\ r.rem = tg.prog[i].np
        /\ r.clen = tg.prog[i].len /\ ~r.cdirect /\ r.cur = tg.cur
        /\ r.plast = tg.plast /\ r.pprev = tg.pprev
    <3>1. tg \in ToneGenType /\ i \in Nat
      BY <2>0, <2>2 DEF Tuned
    <3> QED BY <2>1, <2>2, <3>1 DEF ToneGenType, Entry
  <2> HIDE DEF r
  <2>4. Tuned(r, k, wf)
    BY <2>0, <2>2, <2>3 DEF Tuned
  <2>5. PICK at : Entries(tg, k, wf, at)
    BY DEF Tonal
  <2>6. /\ at \in [0 .. Len(tg.prog) -> Nat]
        /\ at[tg.tidx] = k /\ at[Len(tg.prog)] = Len(wf.w)
        /\ \A j \in tg.tidx + 1 .. Len(tg.prog) :
             /\ at[j] = at[j - 1] + tg.prog[j].np
             /\ \A m \in 1 .. tg.prog[j].np : wf.w[at[j - 1] + m].len = tg.prog[j].len
    BY <1>2, <2>0, <2>5 DEF Entries
  <2>7. at[i - 1] = k
    <3>1. ASSUME NEW j \in tg.tidx + 1 .. i - 1 PROVE at[j] = at[j - 1]
      <4>1. j \in tg.tidx + 1 .. Len(tg.prog) /\ tg.prog[j].np = 0 /\ j - 1 \in 0 .. Len(tg.prog)
        BY <2>0, <2>2
      <4>2. at[j] = at[j - 1] + 0 /\ at[j - 1] \in Nat
        BY <2>6, <4>1
      <4> QED BY <4>2
    <3>2. i - 1 \in Nat /\ i - 1 \in tg.tidx .. i - 1
      BY <2>0, <2>2
    <3>3. \A j \in tg.tidx .. i - 1 : at[j] = at[tg.tidx]
      <4> DEFINE a == tg.tidx
                 c == i - 1
      <4>1. a \in Nat /\ c \in Nat /\ \A j \in a + 1 .. c : at[j] = at[j - 1]
        BY <2>0, <3>1, <3>2
      <4> HIDE DEF a, c
      <4>2. \A j \in a .. c : at[j] = at[a]
        BY <4>1, Standstill
      <4> QED BY <4>2 DEF a, c
    <3> QED BY <2>6, <3>2, <3>3
  <2>8. at[i] = k + r.rem /\ \A m \in 1 .. r.rem : wf.w[k + m].len = r.clen
    BY <2>2, <2>3, <2>6, <2>7
  <2>9. Entries(r, k, wf, at)
    <3>1. \A j \in r.tidx + 1 .. Len(r.prog) : j \in tg.tidx + 1 .. Len(tg.prog)
      BY <2>0, <2>2, <2>3
    <3> QED BY <2>3, <2>6, <2>8, <3>1 DEF Entries
  <2>10. ASSUME NEW j \in k + 1 .. k + r.rem PROVE wf.w[j].len = r.clen
    <3>1. j - k \in 1 .. r.rem /\ k + (j - k) = j
      BY <2>0, <2>2, <2>3
    <3> QED BY <2>8, <3>1
  <2>11. Tonal(r, k, wf)
    BY <2>3, <2>9, <2>10 DEF Tonal
  <2> QED BY <2>2, <2>3, <2>4, <2>11
<1>3. tg.rem \in Nat
  BY SayingFields
<1> QED BY <1>1, <1>2, <1>3

LEMMA EntriesGrow ==
  ASSUME NEW tg, NEW k, NEW wf, Tuned(tg, k, wf), NEW at, Entries(tg, k, wf, at)
  PROVE  \A i \in tg.tidx .. Len(tg.prog) : at[i] \in Nat /\ at[i] <= Len(wf.w)
<1>1. /\ Len(tg.prog) \in Nat /\ tg.tidx \in Nat /\ tg.tidx <= Len(tg.prog)
      /\ \A i \in 1 .. Len(tg.prog) : tg.prog[i].np \in Nat
  BY SayingFields
<1>2. /\ at \in [0 .. Len(tg.prog) -> Nat] /\ at[Len(tg.prog)] = Len(wf.w)
      /\ \A i \in tg.tidx + 1 .. Len(tg.prog) : at[i] = at[i - 1] + tg.prog[i].np
  BY DEF Entries
<1> DEFINE n == Len(tg.prog)
           T == {i \in tg.tidx .. n : ~(at[i] <= at[n])}
<1>3. T = {}
  <2> SUFFICES ASSUME T # {} PROVE FALSE
    OBVIOUS
  <2>1. n \in Nat /\ T \in SUBSET (0 .. n)
    BY <1>1
  <2>2. PICK x \in T : \A y \in T : y <= x
    BY <2>1, Greatest
  <2>3. x \in tg.tidx .. n /\ ~(at[x] <= at[n])
    BY <2>2
  <2>4. n \in 0 .. n /\ x \in 0 .. n /\ x \in Nat
    BY <1>1, <2>3
  <2>5. at[n] \in Nat /\ at[x] \in Nat
    BY <1>2, <2>4
  <2>6. x # n
    BY <2>3, <2>5
  <2>7. x + 1 \in tg.tidx + 1 .. n /\ x + 1 \in tg.tidx .. n /\ x + 1 \in 1 .. n /\ (x + 1) - 1 = x
        /\ x + 1 \in 0 .. n
    BY <1>1, <2>3, <2>6
  <2>8. x + 1 \notin T
    <3>1. ~(x + 1 <= x)
      BY <2>4
    <3> HIDE DEF T
    <3> QED BY <2>2, <3>1
  <2>9. at[x + 1] <= at[n]
    BY <2>7, <2>8
  <2>10. at[x + 1] = at[x] + tg.prog[x + 1].np /\ tg.prog[x + 1].np \in Nat /\ at[x + 1] \in Nat
    BY <1>1, <1>2, <2>7
  <2> QED BY <2>3, <2>5, <2>9, <2>10
<1>4. ASSUME NEW i \in tg.tidx .. n PROVE at[i] \in Nat /\ at[i] <= at[n]
  BY <1>1, <1>2, <1>3
<1> QED BY <1>2, <1>4

LEMMA GiveTonal ==
  ASSUME NEW tg, NEW k, NEW wf, Tuned(tg, k, wf), Tonal(tg, k, wf), tg.rem > 0
  PROVE  LET r == [tg EXCEPT !.cur = EndLevel(tg), !.rem = @ - 1]
         IN  /\ k < Len(wf.w) /\ wf.w[k + 1] = EventOf(tg.cur, tg.clen)
             /\ Tuned(r, k + 1, wf) /\ Tonal(r, k + 1, wf)
<1> DEFINE r == [tg EXCEPT !.cur = EndLevel(tg), !.rem = @ - 1]
<1> SUFFICES /\ k < Len(wf.w) /\ wf.w[k + 1] = EventOf(tg.cur, tg.clen)
             /\ Tuned(r, k + 1, wf) /\ Tonal(r, k + 1, wf)
  OBVIOUS
<1>1. /\ wf \in Wave /\ wf.lvl \in Level /\ Len(wf.w) \in Nat /\ k \in Nat /\ k <= Len(wf.w)
      /\ tg.prog \in Seq(Entry) /\ Len(tg.prog) \in Nat /\ tg.tidx \in Nat
      /\ tg.tidx <= Len(tg.prog) /\ tg.rem \in Nat
      /\ \A i \in 1 .. Len(tg.prog) : tg.prog[i] \in Entry /\ tg.prog[i].np \in Nat
      /\ \A i \in 1 .. Len(wf.w) : wf.w[i] \in Event
  BY SayingFields
<1>2. /\ tg \in ToneGenType /\ tg.cur = Coming(wf, k) /\ tg.plast = wf.lvl
      /\ (tg.pprev = 0 <=> Low(wf)) /\ tg.cur \in Level
      /\ \A j \in k + 1 .. Len(wf.w) : wf.w[j].sig = "none"
  BY DEF Tuned, ToneGenType
<1>3. /\ \A i \in 1 .. Len(tg.prog) : ~tg.prog[i].direct
      /\ ~tg.cdirect
      /\ \A j \in k + 1 .. k + tg.rem : wf.w[j].len = tg.clen
      /\ \A j \in k + 1 .. Len(wf.w) : Coming(wf, j) = 1 - wf.w[j].lvl
  BY DEF Tonal
<1>4. PICK at : Entries(tg, k, wf, at)
  BY DEF Tonal
<1>5. /\ at \in [0 .. Len(tg.prog) -> Nat]
      /\ at[tg.tidx] = k + tg.rem /\ at[Len(tg.prog)] = Len(wf.w)
      /\ \A i \in tg.tidx + 1 .. Len(tg.prog) :
           /\ at[i] = at[i - 1] + tg.prog[i].np
           /\ \A j \in 1 .. tg.prog[i].np : wf.w[at[i - 1] + j].len = tg.prog[i].len
  BY <1>4 DEF Entries
<1>6. k + tg.rem <= Len(wf.w)
  <2>1. tg.tidx \in tg.tidx .. Len(tg.prog)
    BY <1>1
  <2> QED BY <1>4, <1>5, <2>1, EntriesGrow
<1>7. k < Len(wf.w) /\ k + 1 \in 1 .. Len(wf.w) /\ k + 1 \in k + 1 .. Len(wf.w)
      /\ k + 1 \in k + 1 .. k + tg.rem /\ k + 1 \in Nat /\ k + 1 <= Len(wf.w)
  BY <1>1, <1>6
<1>8. wf.w[k + 1] = EventOf(tg.cur, tg.clen)
  BY <1>1, <1>2, <1>3, <1>7 DEF Coming, Event, EventOf
<1>9. EndLevel(tg) = Coming(wf, k + 1)
  <2>1. EndLevel(tg) = 1 - tg.cur
    BY <1>1, <1>3 DEF EndLevel, Flip
  <2>2. wf.w[k + 1].lvl = tg.cur
    BY <1>2, <1>7 DEF Coming
  <2>3. Coming(wf, k + 1) = 1 - wf.w[k + 1].lvl
    BY <1>3, <1>7
  <2> QED BY <2>1, <2>2, <2>3
<1>10. EndLevel(tg) \in Level /\ tg.rem - 1 \in Nat
  BY <1>1, <1>9 DEF Coming, Event
<1>11. /\ r \in ToneGenType /\ r.prog = tg.prog /\ r.tidx = tg.tidx /\ r.rem = tg.rem - 1
       /\ r.clen = tg.clen /\ r.cdirect = tg.cdirect /\ r.cur = EndLevel(tg)
       /\ r.plast = tg.plast /\ r.pprev = tg.pprev
  BY <1>2, <1>10 DEF ToneGenType
<1> HIDE DEF r
<1>12. Tuned(r, k + 1, wf)
  BY <1>1, <1>2, <1>7, <1>9, <1>11 DEF Tuned
<1>13. Entries(r, k + 1, wf, at)
  <2>1. k \in Nat /\ tg.rem \in Nat /\ r.rem = tg.rem - 1
    BY <1>1, <1>11
  <2>2. (k + 1) + r.rem = k + tg.rem
    BY <2>1
  <2>3. r.prog = tg.prog /\ r.tidx = tg.tidx
    BY <1>11
  <2> QED BY <1>5, <2>2, <2>3 DEF Entries
<1>14. Tonal(r, k + 1, wf)
  BY <1>1, <1>3, <1>11, <1>13 DEF Tonal
<1> QED BY <1>7, <1>8, <1>12, <1>14

LEMMA GiveStraight ==
  ASSUME NEW tg, NEW k, NEW wf, Tuned(tg, k, wf), Straight(tg, k, wf), Gen(tg), CanGetNext(tg)
  PROVE  LET r == GetNext(tg)
         IN  /\ k < Len(wf.w) /\ wf.w[k + 1] = EventOf(tg.cur, r.clen)
             /\ Tuned(r, k + 1, wf) /\ Straight(r, k + 1, wf)
<1> DEFINE r == GetNext(tg)
<1> SUFFICES /\ k < Len(wf.w) /\ wf.w[k + 1] = EventOf(tg.cur, r.clen)
             /\ Tuned(r, k + 1, wf) /\ Straight(r, k + 1, wf)
  OBVIOUS
<1>1. /\ wf \in Wave /\ wf.lvl \in Level /\ Len(wf.w) \in Nat /\ k \in Nat /\ k <= Len(wf.w)
      /\ tg.prog \in Seq(Entry) /\ Len(tg.prog) \in Nat /\ tg.tidx \in Nat
      /\ tg.tidx <= Len(tg.prog) /\ tg.rem \in Nat
      /\ \A i \in 1 .. Len(tg.prog) : tg.prog[i] \in Entry /\ tg.prog[i].np \in Nat
      /\ \A i \in 1 .. Len(wf.w) : wf.w[i] \in Event
  BY SayingFields
<1>2. /\ tg \in ToneGenType /\ tg.cur = Coming(wf, k) /\ tg.plast = wf.lvl
      /\ (tg.pprev = 0 <=> Low(wf)) /\ tg.cur \in Level
      /\ \A j \in k + 1 .. Len(wf.w) : wf.w[j].sig = "none"
  BY DEF Tuned, ToneGenType
<1>3. /\ tg.rem = 0 /\ k + Len(tg.prog) = Len(wf.w) + tg.tidx
      /\ \A i \in tg.tidx + 1 .. Len(tg.prog) :
           /\ tg.prog[i].direct /\ tg.prog[i].np = 1
           /\ wf.w[k + i - tg.tidx].lvl = tg.prog[i].lvl
           /\ wf.w[k + i - tg.tidx].len = tg.prog[i].len
      /\ k < Len(wf.w) => wf.lvl = wf.w[Len(wf.w)].lvl
  BY DEF Straight
<1>4. PICK i : /\ IsNextEntry(tg, i)
               /\ TakeEntry(tg) = [tg EXCEPT !.tidx = i, !.rem = tg.prog[i].np,
                                   !.clen = tg.prog[i].len, !.cdirect = tg.prog[i].direct,
                                   !.cur = IF tg.prog[i].direct THEN tg.prog[i].lvl ELSE @]
  BY <1>3, TakesEntry
<1>5. i = tg.tidx + 1 /\ i \in tg.tidx + 1 .. Len(tg.prog) /\ i \in 1 .. Len(tg.prog)
  <2>1. i \in tg.tidx + 1 .. Len(tg.prog) /\ \A j \in tg.tidx + 1 .. i - 1 : tg.prog[j].np = 0
    BY <1>4 DEF IsNextEntry
  <2>4. tg.tidx + 1 \in tg.tidx + 1 .. Len(tg.prog)
    BY <1>1, <2>1
  <2>2. tg.prog[tg.tidx + 1].np = 1
    BY <1>3, <2>4
  <2>3. ~(tg.tidx + 1 < i)
    <3> SUFFICES ASSUME tg.tidx + 1 < i PROVE FALSE
      OBVIOUS
    <3>1. tg.tidx + 1 \in tg.tidx + 1 .. i - 1
      BY <1>1, <2>1
    <3> QED BY <2>1, <2>2, <3>1
  <2> QED BY <1>1, <2>1, <2>3
<1> DEFINE e == tg.prog[i]
<1>6. /\ e \in Entry /\ e.direct /\ e.np = 1 /\ e.lvl \in Level /\ e.len \in Nat
      /\ wf.w[k + 1].lvl = e.lvl /\ wf.w[k + 1].len = e.len
  <2>1. k + i - tg.tidx = k + 1
    BY <1>1, <1>5
  <2>2. tg.prog[i].direct /\ tg.prog[i].np = 1 /\ wf.w[k + i - tg.tidx].lvl = tg.prog[i].lvl
        /\ wf.w[k + i - tg.tidx].len = tg.prog[i].len
    BY <1>3, <1>5
  <2> QED BY <1>1, <1>5, <2>1, <2>2 DEF Entry
<1> HIDE DEF e
<1>7. k < Len(wf.w) /\ k + 1 \in 1 .. Len(wf.w) /\ k + 1 \in k + 1 .. Len(wf.w) /\ k + 1 \in Nat
  BY <1>1, <1>3, <1>5
<1> DEFINE t == TakeEntry(tg)
<1>8. /\ t \in ToneGenType /\ t.tidx = i /\ t.rem = 1 /\ t.clen = e.len /\ t.cdirect /\ t.cur = e.lvl
      /\ t.prog = tg.prog /\ t.plast = tg.plast /\ t.pprev = tg.pprev
  <2>1. i \in Nat /\ 1 \in Nat
    BY <1>1, <1>5
  <2>2. t = [tg EXCEPT !.tidx = i, !.rem = 1, !.clen = e.len, !.cdirect = TRUE, !.cur = e.lvl]
    BY <1>4, <1>6 DEF Entry, e
  <2> HIDE DEF t
  <2> QED BY <1>2, <1>6, <2>1, <2>2 DEF ToneGenType
<1> HIDE DEF t
<1>9. EndLevel(t) = Coming(wf, k + 1)
  <2>1. CASE i < Len(tg.prog)
    <3>1. i + 1 \in tg.tidx + 1 .. Len(tg.prog) /\ k + (i + 1) - tg.tidx = (k + 1) + 1
      BY <1>1, <1>5, <2>1
    <3>2. tg.prog[i + 1].direct /\ wf.w[(k + 1) + 1].lvl = tg.prog[i + 1].lvl
      BY <1>3, <3>1
    <3>3. k + 1 < Len(wf.w)
      BY <1>1, <1>3, <1>5, <2>1
    <3> QED BY <1>8, <2>1, <3>2, <3>3 DEF EndLevel, Coming
  <2>2. CASE ~(i < Len(tg.prog))
    <3>1. k + 1 = Len(wf.w)
      BY <1>1, <1>3, <1>5, <2>2
    <3>2. Coming(wf, k + 1) = e.lvl
      BY <1>3, <1>6, <1>7, <3>1 DEF Coming
    <3>3. EndLevel(t) = e.lvl
      BY <1>8, <2>2 DEF EndLevel
    <3> QED BY <3>2, <3>3
  <2> QED BY <2>1, <2>2
<1>10. Coming(wf, k + 1) \in Level
  BY <1>1 DEF Coming, Event
<1>11. /\ r \in ToneGenType /\ r.tidx = i /\ r.rem = 0 /\ r.clen = e.len
       /\ r.cur = Coming(wf, k + 1) /\ r.prog = tg.prog /\ r.plast = tg.plast /\ r.pprev = tg.pprev
  <2>1. r = [t EXCEPT !.cur = EndLevel(t), !.rem = @ - 1]
    BY DEF GetNext, t
  <2> DEFINE lvl == Coming(wf, k + 1)
             rem == t.rem - 1
  <2>2. lvl \in Level /\ rem = 0 /\ rem \in Nat /\ r = [t EXCEPT !.cur = lvl, !.rem = rem]
    BY <1>8, <1>9, <1>10, <2>1
  <2> HIDE DEF lvl, rem, r
  <2>3. r \in ToneGenType /\ r.cur = lvl
    BY <1>8, <2>2 DEF ToneGenType
  <2>4. /\ r.tidx = t.tidx /\ r.rem = rem /\ r.clen = t.clen
        /\ r.prog = t.prog /\ r.plast = t.plast /\ r.pprev = t.pprev
    BY <1>8, <2>2 DEF ToneGenType
  <2> QED BY <1>8, <2>2, <2>3, <2>4 DEF lvl
<1> HIDE DEF r
<1>12. wf.w[k + 1] = EventOf(tg.cur, r.clen)
  BY <1>1, <1>2, <1>6, <1>7, <1>11 DEF Coming, Event, EventOf
<1>13. Tuned(r, k + 1, wf)
  BY <1>1, <1>2, <1>5, <1>7, <1>11 DEF Tuned
<1>14. Straight(r, k + 1, wf)
  <2>1. ASSUME NEW j \in r.tidx + 1 .. Len(r.prog)
        PROVE  /\ r.prog[j].direct /\ r.prog[j].np = 1
               /\ wf.w[(k + 1) + j - r.tidx].lvl = r.prog[j].lvl
               /\ wf.w[(k + 1) + j - r.tidx].len = r.prog[j].len
    <3>2. r.tidx = tg.tidx + 1 /\ r.prog = tg.prog
      BY <1>5, <1>11
    <3>3. tg.tidx \in Nat /\ Len(tg.prog) \in Nat /\ k \in Nat
      BY <1>1
    <3>4. j \in tg.tidx + 1 .. Len(tg.prog) /\ j \in Nat
      BY <3>2, <3>3
    <3> DEFINE x == tg.tidx
    <3>5. x \in Nat /\ r.tidx = x + 1
      BY <3>2, <3>3
    <3> HIDE DEF x
    <3>6. (k + 1) + j - (x + 1) = k + j - x
      BY <3>3, <3>4, <3>5
    <3>1. j \in tg.tidx + 1 .. Len(tg.prog) /\ (k + 1) + j - r.tidx = k + j - tg.tidx
      BY <3>4, <3>5, <3>6 DEF x
    <3> QED BY <1>3, <1>11, <3>1
  <2>2. (k + 1) + Len(r.prog) = Len(wf.w) + r.tidx
    <3>1. r.tidx = tg.tidx + 1 /\ r.prog = tg.prog
      BY <1>5, <1>11
    <3>2. k + Len(tg.prog) = Len(wf.w) + tg.tidx
      BY <1>3
    <3> DEFINE n == Len(tg.prog)
               m == Len(wf.w)
               x == tg.tidx
    <3>3. n \in Nat /\ m \in Nat /\ x \in Nat /\ k + n = m + x /\ k \in Nat
      BY <1>1, <3>2
    <3> HIDE DEF n, m, x
    <3>4. (k + 1) + n = m + (x + 1)
      BY <3>3
    <3> QED BY <3>1, <3>4 DEF n, m, x
  <2>3. k + 1 < Len(wf.w) => wf.lvl = wf.w[Len(wf.w)].lvl
    BY <1>3, <1>7
  <2> QED BY <1>11, <2>1, <2>2, <2>3 DEF Straight
<1> QED BY <1>7, <1>12, <1>13, <1>14

\* tonegen_get_next() gives the next event.
LEMMA SaysNext ==
  ASSUME NEW tg, NEW k, NEW wf, Says(tg, k, wf), Gen(tg), CanGetNext(tg)
  PROVE  /\ k < Len(wf.w) /\ wf.w[k + 1] = EventOf(tg.cur, GetNext(tg).clen)
         /\ Says(GetNext(tg), k + 1, wf)
<1>1. CASE Tonal(tg, k, wf)
  <2> DEFINE t == TakeEntry(tg)
  <2>1. Tuned(t, k, wf) /\ Tonal(t, k, wf) /\ t.rem > 0 /\ t.cur = tg.cur
    BY <1>1, TakeTonal DEF Says
  <2> HIDE DEF t
  <2>2. /\ k < Len(wf.w) /\ wf.w[k + 1] = EventOf(t.cur, t.clen)
        /\ Tuned([t EXCEPT !.cur = EndLevel(t), !.rem = @ - 1], k + 1, wf)
        /\ Tonal([t EXCEPT !.cur = EndLevel(t), !.rem = @ - 1], k + 1, wf)
    BY <2>1, GiveTonal
  <2>3. GetNext(tg) = [t EXCEPT !.cur = EndLevel(t), !.rem = @ - 1]
    BY DEF GetNext, t
  <2>4. GetNext(tg).clen = t.clen
    BY <2>1, <2>3 DEF Tuned, ToneGenType
  <2> QED BY <2>1, <2>2, <2>3, <2>4 DEF Says
<1>2. CASE Straight(tg, k, wf)
  BY <1>2, GiveStraight DEF Says
<1> QED BY <1>1, <1>2 DEF Says

(***************************************************************************)
(* Programming: what is to come is longer by what the tape calls for.       *)
(***************************************************************************)
\* Pulses: the levels of a waveform that goes on with edges.
LEMMA PulsesComing ==
  ASSUME NEW wf \in Wave, NEW lens \in Seq(Nat)
  PROVE  LET v == Pulses(wf, lens)
         IN  /\ \A j \in 0 .. Len(wf.w) : Coming(v, j) = Coming(wf, j)
             /\ \A j \in Len(wf.w) + 1 .. Len(v.w) :
                  /\ Coming(v, j) = 1 - v.w[j].lvl /\ v.w[j].sig = "none"
                  /\ v.w[j].len = lens[j - Len(wf.w)]
<1> DEFINE v == Pulses(wf, lens)
           e == Edges(wf.lvl, lens)
           m == Len(wf.w)
           n == Len(lens)
           l(i) == LevelAfter(wf.lvl, i)
<1>1. wf.lvl \in Level /\ m \in Nat /\ n \in Nat
  BY WaveFields
<1>2. /\ Continued(wf, v, e, l(n)) /\ e \in Seq(Event) /\ Len(e) = n
      /\ \A i \in 1 .. n : e[i] = EventOf(l(i - 1), lens[i])
  BY PulsesIs
<1>5. ASSUME NEW i \in Nat PROVE l(i) \in Level /\ l(i + 1) = 1 - l(i) /\ l(0) = wf.lvl
  BY <1>1, LevelAfterIs
<1> HIDE DEF v, e, l, n
<1>3. /\ v \in Wave /\ v.lvl = l(n) /\ Len(v.w) = m + n
      /\ \A i \in 1 .. m : v.w[i] = wf.w[i]
      /\ \A i \in 1 .. n : v.w[m + i] = e[i]
  BY <1>2 DEF Continued
<1>10. /\ \A j : Coming(wf, j) = IF j < m THEN wf.w[j + 1].lvl ELSE wf.lvl
       /\ \A j : Coming(v, j) = IF j < m + n THEN v.w[j + 1].lvl ELSE v.lvl
  BY <1>3 DEF Coming
<1> HIDE DEF m
<1>4. \A i \in 1 .. n : v.w[m + i] = EventOf(l(i - 1), lens[i])
  BY <1>2, <1>3
<1>6. ASSUME NEW i \in 1 .. n
      PROVE  v.w[m + i].lvl = l(i - 1) /\ v.w[m + i].len = lens[i] /\ v.w[m + i].sig = "none"
  <2>1. i - 1 \in Nat /\ lens[i] \in Nat
    BY <1>1 DEF n
  <2>2. l(i - 1) \in Level
    BY <1>5, <2>1
  <2>3. v.w[m + i] = EventOf(l(i - 1), lens[i])
    BY <1>4
  <2> QED BY <2>1, <2>2, <2>3, EventIs
<1>7. ASSUME NEW i \in 0 .. n PROVE Coming(v, m + i) = l(i)
  <2>1. CASE i < n
    <3>1. i + 1 \in 1 .. n /\ (i + 1) - 1 = i /\ m + (i + 1) = (m + i) + 1 /\ m + i < m + n
      BY <1>1, <2>1
    <3>2. v.w[(m + i) + 1].lvl = l(i)
      BY <1>6, <3>1
    <3> QED BY <1>10, <3>1, <3>2
  <2>2. CASE ~(i < n)
    BY <1>1, <1>3, <1>10, <2>2
  <2> QED BY <2>1, <2>2
<1>8. ASSUME NEW j \in 0 .. m PROVE Coming(v, j) = Coming(wf, j)
  <2>1. CASE j < m
    <3>1. j + 1 \in 1 .. m /\ j < m + n
      BY <1>1, <2>1
    <3> QED BY <1>3, <1>10, <2>1, <3>1
  <2>2. CASE ~(j < m)
    <3>1. j = m /\ m + 0 = m /\ 0 \in 0 .. n
      BY <1>1, <2>2
    <3>2. Coming(v, m + 0) = l(0)
      BY <1>7, <3>1
    <3>3. Coming(wf, j) = wf.lvl
      BY <1>10, <2>2
    <3> QED BY <1>5, <3>1, <3>2, <3>3
  <2> QED BY <2>1, <2>2
<1>9. ASSUME NEW j \in m + 1 .. Len(v.w)
      PROVE  Coming(v, j) = 1 - v.w[j].lvl /\ v.w[j].sig = "none" /\ v.w[j].len = lens[j - m]
  <2>1. /\ j - m \in 1 .. n /\ j - m \in 0 .. n /\ m + (j - m) = j
        /\ (j - m) - 1 \in Nat /\ ((j - m) - 1) + 1 = j - m
    BY <1>1, <1>3
  <2>2. Coming(v, j) = l(j - m)
    BY <1>7, <2>1
  <2>3. v.w[j].lvl = l((j - m) - 1) /\ v.w[j].sig = "none" /\ v.w[j].len = lens[j - m]
    BY <1>6, <2>1
  <2>4. l(((j - m) - 1) + 1) = 1 - l((j - m) - 1)
    BY <1>5, <2>1
  <2> QED BY <2>1, <2>2, <2>3, <2>4
<1> QED BY <1>8, <1>9 DEF v, m

LEMMA TimesIs ==
  ASSUME NEW x \in Nat, NEW n \in Nat
  PROVE  /\ Times(x, n) \in Seq(Nat) /\ Len(Times(x, n)) = n
         /\ \A i \in 1 .. n : Times(x, n)[i] = x
BY DEF Times

\* A tone: as many pulses, of the same length.
LEMMA TonesLow ==
  ASSUME NEW wf \in Wave, NEW x \in Nat, NEW n \in Nat
  PROVE  LET v == Pulses(wf, Times(x, n))
         IN  Low(v) <=> IF x > 0 /\ n > 0 THEN LevelAfter(wf.lvl, n) = 1 ELSE Low(wf)
<1> DEFINE lens == Times(x, n)
           v == Pulses(wf, lens)
           e == Edges(wf.lvl, lens)
           l(i) == LevelAfter(wf.lvl, i)
<1>0. wf.lvl \in Level
  BY WaveFields
<1>1. lens \in Seq(Nat) /\ Len(lens) = n /\ \A i \in 1 .. n : lens[i] = x
  BY TimesIs
<1> HIDE DEF lens
<1>2. /\ Continued(wf, v, e, l(n)) /\ e \in Seq(Event) /\ Len(e) = n
      /\ \A i \in 1 .. n : e[i] = EventOf(l(i - 1), lens[i])
  BY <1>1, PulsesIs
<1>3. ASSUME NEW i \in Nat PROVE l(i) \in Level /\ l(i + 1) = 1 - l(i)
  BY <1>0, LevelAfterIs
<1> HIDE DEF v, e, l
<1>4. ASSUME NEW i \in 1 .. n PROVE e[i].lvl = l(i - 1) /\ e[i].len = x
  <2>1. i - 1 \in Nat
    OBVIOUS
  <2>2. l(i - 1) \in Level /\ e[i] = EventOf(l(i - 1), x)
    BY <1>1, <1>2, <1>3, <2>1
  <2> QED BY <2>2, EventIs
<1>5. CASE x > 0 /\ n > 0
  <2>1. n \in 1 .. n /\ n - 1 \in Nat /\ (n - 1) + 1 = n /\ \A j \in n + 1 .. n : FALSE
    BY <1>5
  <2>2. LastTimed(e, n)
    BY <1>2, <1>4, <1>5, <2>1 DEF LastTimed
  <2>3. Low(v) <=> e[n].lvl = 0
    BY <1>2, <2>2, LowBehind
  <2>4. e[n].lvl = l(n - 1) /\ l(n - 1) \in Level /\ l(n) = 1 - l(n - 1)
    BY <1>3, <1>4, <2>1
  <2>5. Low(v) <=> l(n) = 1
    BY <2>3, <2>4 DEF Level
  <2> QED BY <1>5, <2>5 DEF v, lens, l
<1>6. CASE ~(x > 0 /\ n > 0)
  BY <1>2, <1>4, <1>6, LowBehind DEF v, lens
<1> QED BY <1>5, <1>6

LEMMA SaysTone ==
  ASSUME NEW tg, NEW k, NEW wf, Tuned(tg, k, wf), Tonal(tg, k, wf), NEW len \in Nat, NEW np \in Nat
  PROVE  LET r == AddTone(tg, len, np)
             v == Pulses(wf, Times(len, np))
         IN  Tuned(r, k, v) /\ Tonal(r, k, v)
<1> DEFINE r == AddTone(tg, len, np)
           lens == Times(len, np)
           v == Pulses(wf, lens)
           m == Len(wf.w)
           n == Len(tg.prog)
           last == LevelAfter(wf.lvl, np)
<1>1. /\ wf \in Wave /\ wf.lvl \in Level /\ m \in Nat /\ k \in Nat /\ k <= m
      /\ tg.prog \in Seq(Entry) /\ n \in Nat /\ tg.tidx \in Nat
      /\ tg.tidx <= n /\ tg.rem \in Nat
      /\ \A i \in 1 .. n : tg.prog[i] \in Entry /\ tg.prog[i].np \in Nat
      /\ \A i \in 1 .. m : wf.w[i] \in Event
  BY SayingFields
<1>2. /\ tg \in ToneGenType /\ tg.cur = Coming(wf, k) /\ tg.plast = wf.lvl
      /\ (tg.pprev = 0 <=> Low(wf)) /\ tg.cur \in Level /\ tg.pprev \in Level
      /\ \A j \in k + 1 .. m : wf.w[j].sig = "none"
  BY DEF Tuned, ToneGenType
<1>3. /\ \A i \in 1 .. n : ~tg.prog[i].direct
      /\ tg.rem > 0 => ~tg.cdirect
      /\ \A j \in k + 1 .. k + tg.rem : wf.w[j].len = tg.clen
      /\ \A j \in k + 1 .. m : Coming(wf, j) = 1 - wf.w[j].lvl
  BY DEF Tonal
<1>4. PICK at : Entries(tg, k, wf, at)
  BY DEF Tonal
<1>5. /\ at \in [0 .. n -> Nat] /\ at[tg.tidx] = k + tg.rem /\ at[n] = m
      /\ \A i \in tg.tidx + 1 .. n :
           /\ at[i] = at[i - 1] + tg.prog[i].np
           /\ \A j \in 1 .. tg.prog[i].np : wf.w[at[i - 1] + j].len = tg.prog[i].len
  BY <1>4 DEF Entries
<1>6. \A i \in tg.tidx .. n : at[i] \in Nat /\ at[i] <= m
  BY <1>4, EntriesGrow
<1>7. lens \in Seq(Nat) /\ Len(lens) = np /\ \A i \in 1 .. np : lens[i] = len
  BY TimesIs
<1>8. last \in Level
  BY <1>1, LevelAfterIs
<1>9. Low(v) <=> IF len > 0 /\ np > 0 THEN last = 1 ELSE Low(wf)
  BY <1>1, TonesLow
<1> DEFINE e == Tone(len, np)
<1>10. e \in Entry /\ ~e.direct /\ e.np = np /\ e.len = len
  BY DEF Tone, Entry, Level
<1> HIDE DEF e, lens
<1>11. /\ v \in Wave /\ v.lvl = last /\ Len(v.w) = m + np
       /\ \A i \in 1 .. m : v.w[i] = wf.w[i]
  <2>1. Continued(wf, v, Edges(wf.lvl, lens), LevelAfter(wf.lvl, Len(lens)))
        /\ Len(Edges(wf.lvl, lens)) = Len(lens)
    BY <1>1, <1>7, PulsesIs
  <2> QED BY <1>7, <2>1 DEF Continued
<1>12. /\ \A j \in 0 .. m : Coming(v, j) = Coming(wf, j)
       /\ \A j \in m + 1 .. Len(v.w) :
            /\ Coming(v, j) = 1 - v.w[j].lvl /\ v.w[j].sig = "none"
            /\ v.w[j].len = lens[j - m]
  BY <1>1, <1>7, PulsesComing
<1> HIDE DEF v
<1>13. ASSUME NEW j \in m + 1 .. m + np PROVE v.w[j].len = len
  <2>1. j - m \in 1 .. np /\ j \in m + 1 .. Len(v.w)
    BY <1>1, <1>11
  <2> QED BY <1>7, <1>12, <2>1
<1>14. /\ r \in ToneGenType /\ r.prog = Append(tg.prog, e) /\ r.tidx = tg.tidx /\ r.rem = tg.rem
       /\ r.clen = tg.clen /\ r.cdirect = tg.cdirect /\ r.cur = tg.cur /\ r.plast = last
       /\ r.pprev = IF len > 0 /\ np > 0 THEN 1 - last ELSE tg.pprev
  <2> DEFINE prog == Append(tg.prog, e)
             pp == IF len > 0 /\ np > 0 THEN 1 - last ELSE tg.pprev
  <2>1. prog \in Seq(Entry) /\ pp \in Level
    BY <1>1, <1>2, <1>8, <1>10 DEF Level
  <2>2. last = IF np % 2 = 1 THEN Flip(tg.plast) ELSE tg.plast
    BY <1>2 DEF LevelAfter, Flip
  <2>3. r = [tg EXCEPT !.prog = prog, !.plast = last, !.pprev = pp]
    BY <2>2 DEF AddTone, e, Flip
  <2> HIDE DEF prog, pp, r, last
  <2>4. r \in ToneGenType
    BY <1>2, <1>8, <2>1, <2>3 DEF ToneGenType
  <2>5. /\ r.prog = prog /\ r.tidx = tg.tidx /\ r.rem = tg.rem
        /\ r.clen = tg.clen /\ r.cdirect = tg.cdirect /\ r.cur = tg.cur /\ r.plast = last
        /\ r.pprev = pp
    BY <1>2, <2>3 DEF ToneGenType
  <2> QED BY <2>4, <2>5 DEF prog, pp
<1> HIDE DEF r, last
<1>15. /\ Len(r.prog) = n + 1 /\ r.prog[n + 1] = e
       /\ \A i \in 1 .. n : r.prog[i] = tg.prog[i]
  BY <1>1, <1>10, <1>14
<1>16. Tuned(r, k, v)
  <2>1. r.pprev = 0 <=> Low(v)
    BY <1>2, <1>8, <1>9, <1>14 DEF Level
  <2>2. r.cur = Coming(v, k)
    BY <1>1, <1>2, <1>12, <1>14
  <2>3. ASSUME NEW j \in k + 1 .. Len(v.w) PROVE v.w[j].sig = "none"
    <3>1. CASE j <= m
      BY <1>1, <1>2, <1>11, <3>1
    <3>2. CASE ~(j <= m)
      BY <1>1, <1>12, <3>2
    <3> QED BY <3>1, <3>2
  <2>4. k \in 0 .. Len(v.w) /\ r.tidx <= Len(r.prog)
    BY <1>1, <1>11, <1>14, <1>15
  <2> QED BY <1>11, <1>14, <2>1, <2>2, <2>3, <2>4 DEF Tuned
<1> DEFINE bt == [i \in 0 .. n + 1 |-> IF i = n + 1 THEN m + np ELSE at[i]]
<1>17. /\ bt \in [0 .. n + 1 -> Nat] /\ bt[n + 1] = m + np
       /\ \A i \in 0 .. n : bt[i] = at[i]
  <2>1. \A i \in 0 .. n + 1 : i # n + 1 => i \in 0 .. n
    BY <1>1
  <2>2. m + np \in Nat
    BY <1>1
  <2>3. n + 1 \in 0 .. n + 1 /\ \A i \in 0 .. n : i # n + 1 /\ i \in 0 .. n + 1
    BY <1>1
  <2> HIDE DEF m, n
  <2> QED BY <1>5, <2>1, <2>2, <2>3
<1> HIDE DEF bt
<1>18. Entries(r, k, v, bt)
  <2>1. bt[r.tidx] = k + r.rem
    BY <1>1, <1>5, <1>14, <1>17
  <2>2. bt[Len(r.prog)] = Len(v.w)
    BY <1>11, <1>15, <1>17
  <2>3. ASSUME NEW i \in tg.tidx + 1 .. n + 1
        PROVE  /\ bt[i] = bt[i - 1] + r.prog[i].np
               /\ \A j \in 1 .. r.prog[i].np : v.w[bt[i - 1] + j].len = r.prog[i].len
    <3>1. CASE i = n + 1
      <4>1. i - 1 = n /\ n \in 0 .. n
        BY <1>1, <3>1
      <4>2. bt[i - 1] = m /\ bt[i] = m + np /\ r.prog[i].np = np /\ r.prog[i].len = len
        BY <1>5, <1>10, <1>15, <1>17, <3>1, <4>1
      <4>3. \A j \in 1 .. np : m + j \in m + 1 .. m + np
        BY <1>1
      <4> QED BY <1>13, <4>2, <4>3
    <3>2. CASE i # n + 1
      <4>1. /\ i \in tg.tidx + 1 .. n /\ i - 1 \in tg.tidx .. n /\ i \in tg.tidx .. n
            /\ i \in 0 .. n /\ i - 1 \in 0 .. n /\ i \in 1 .. n
        <5> DEFINE x == tg.tidx
        <5>1. x \in Nat /\ n \in Nat /\ i \in x + 1 .. n + 1
          BY <1>1
        <5> HIDE DEF x, n
        <5>2. /\ i \in x + 1 .. n /\ i - 1 \in x .. n /\ i \in x .. n
              /\ i \in 0 .. n /\ i - 1 \in 0 .. n /\ i \in 1 .. n
          BY <3>2, <5>1
        <5> QED BY <5>2 DEF x
      <4>2. bt[i] = at[i] /\ bt[i - 1] = at[i - 1] /\ r.prog[i] = tg.prog[i]
        BY <1>15, <1>17, <4>1
      <4>3. /\ at[i] = at[i - 1] + tg.prog[i].np
            /\ \A j \in 1 .. tg.prog[i].np : wf.w[at[i - 1] + j].len = tg.prog[i].len
        BY <1>5, <4>1
      <4>4. at[i] <= m /\ at[i] \in Nat /\ at[i - 1] \in Nat /\ tg.prog[i].np \in Nat
        BY <1>1, <1>6, <4>1
      <4>5. \A j \in 1 .. tg.prog[i].np : at[i - 1] + j \in 1 .. m
        <5> DEFINE x == at[i - 1]
                   q == tg.prog[i].np
        <5>1. x \in Nat /\ q \in Nat /\ x + q <= m /\ m \in Nat
          BY <1>1, <4>3, <4>4
        <5> HIDE DEF x, q, m
        <5>2. \A j \in 1 .. q : x + j \in 1 .. m
          BY <5>1
        <5> QED BY <5>2 DEF x, q
      <4>6. \A j \in 1 .. tg.prog[i].np : v.w[at[i - 1] + j].len = tg.prog[i].len
        BY <1>11, <4>3, <4>5
      <4> QED BY <4>2, <4>3, <4>6
    <3> QED BY <3>1, <3>2
  <2>4. bt \in [0 .. Len(r.prog) -> Nat]
    BY <1>15, <1>17
  <2> QED BY <1>14, <1>15, <2>1, <2>2, <2>3, <2>4 DEF Entries
<1>19. Tonal(r, k, v)
  <2>1. ASSUME NEW i \in 1 .. Len(r.prog) PROVE ~r.prog[i].direct
    <3>1. CASE i = n + 1
      BY <1>10, <1>15, <3>1
    <3>2. CASE i # n + 1
      <4>1. i \in 1 .. n
        BY <1>1, <1>15, <3>2
      <4> QED BY <1>3, <1>15, <4>1
    <3> QED BY <3>1, <3>2
  <2>2. ASSUME NEW j \in k + 1 .. k + r.rem PROVE v.w[j].len = r.clen
    <3>1. tg.tidx \in tg.tidx .. n
      BY <1>1
    <3>2. k + tg.rem <= m
      BY <1>5, <1>6, <3>1
    <3>3. j \in k + 1 .. k + tg.rem /\ j \in 1 .. m
      BY <1>1, <1>14, <3>2
    <3> QED BY <1>3, <1>11, <1>14, <3>3
  <2>3. ASSUME NEW j \in k + 1 .. Len(v.w) PROVE Coming(v, j) = 1 - v.w[j].lvl
    <3>1. CASE j <= m
      BY <1>1, <1>3, <1>11, <1>12, <3>1
    <3>2. CASE ~(j <= m)
      BY <1>1, <1>12, <3>2
    <3> QED BY <3>1, <3>2
  <2> QED BY <1>3, <1>14, <1>18, <2>1, <2>2, <2>3 DEF Tonal
<1> QED BY <1>16, <1>19 DEF r, v, lens

LEMMA SaysDPulse ==
  ASSUME NEW tg, NEW k, NEW wf, Tuned(tg, k, wf), Straight(tg, k, wf), NEW lvl \in Level, NEW len \in Nat
  PROVE  LET r == AddDPulse(tg, lvl, len)
             v == Hold(wf, lvl, len)
         IN  Tuned(r, k, v) /\ Straight(r, k, v)
<1> DEFINE r == AddDPulse(tg, lvl, len)
           v == Hold(wf, lvl, len)
           m == Len(wf.w)
           n == Len(tg.prog)
           x == tg.tidx
           e == DirectPulse(lvl, len)
           f == EventOf(lvl, len)
<1>1. /\ wf \in Wave /\ wf.lvl \in Level /\ m \in Nat /\ k \in Nat /\ k <= m
      /\ tg.prog \in Seq(Entry) /\ n \in Nat /\ x \in Nat
      /\ x <= n /\ tg.rem \in Nat
      /\ \A i \in 1 .. n : tg.prog[i] \in Entry /\ tg.prog[i].np \in Nat
      /\ \A i \in 1 .. m : wf.w[i] \in Event
  BY SayingFields
<1>2. /\ tg \in ToneGenType /\ tg.cur = Coming(wf, k) /\ tg.plast = wf.lvl
      /\ (tg.pprev = 0 <=> Low(wf)) /\ tg.cur \in Level /\ tg.pprev \in Level
      /\ \A j \in k + 1 .. m : wf.w[j].sig = "none"
  BY DEF Tuned, ToneGenType
<1>3. /\ tg.rem = 0 /\ k + n = m + x
      /\ \A i \in x + 1 .. n :
           /\ tg.prog[i].direct /\ tg.prog[i].np = 1
           /\ wf.w[k + i - x].lvl = tg.prog[i].lvl
           /\ wf.w[k + i - x].len = tg.prog[i].len
  BY DEF Straight
<1>4. f \in Event /\ f.lvl = lvl /\ f.len = len /\ f.sig = "none"
  BY EventIs
<1>5. e \in Entry /\ e.direct /\ e.np = 1 /\ e.len = len /\ e.lvl = lvl
  BY DEF DirectPulse, Entry
<1> HIDE DEF e, f
<1>6. Continued(wf, v, <<f>>, lvl) /\ <<f>> \in Seq(Event) /\ Len(<<f>>) = 1 /\ <<f>>[1] = f
  BY <1>1, <1>4, HoldIs DEF f
<1>7. /\ v \in Wave /\ v.lvl = lvl /\ Len(v.w) = m + 1 /\ v.w[m + 1] = f
      /\ \A i \in 1 .. m : v.w[i] = wf.w[i]
  BY <1>6 DEF Continued
<1>8. Low(v) <=> IF len > 0 THEN lvl = 0 ELSE Low(wf)
  <2>1. CASE len > 0
    <3>1. LastTimed(<<f>>, 1)
      BY <1>4, <1>6, <2>1 DEF LastTimed
    <3>2. Low(v) <=> <<f>>[1].lvl = 0
      BY <1>1, <1>6, <3>1, LowBehind
    <3> QED BY <1>4, <1>6, <2>1, <3>2
  <2>2. CASE ~(len > 0)
    <3>1. \A i \in 1 .. Len(<<f>>) : <<f>>[i].len = 0
      BY <1>4, <1>6, <2>2
    <3>2. Low(v) <=> Low(wf)
      BY <1>1, <1>6, <3>1, LowBehind
    <3> QED BY <2>2, <3>2
  <2> QED BY <2>1, <2>2
<1> HIDE DEF v
<1>9. /\ r \in ToneGenType /\ r.prog = Append(tg.prog, e) /\ r.tidx = x /\ r.rem = tg.rem
      /\ r.cur = (IF x = n THEN lvl ELSE tg.cur) /\ r.plast = lvl
      /\ r.pprev = IF len > 0 THEN lvl ELSE tg.pprev
  <2> DEFINE prog == Append(tg.prog, e)
             pp == IF len > 0 THEN lvl ELSE tg.pprev
             cc == IF x = n THEN lvl ELSE tg.cur
  <2>1. prog \in Seq(Entry) /\ pp \in Level /\ cc \in Level
    BY <1>1, <1>2, <1>5
  <2>2. r = [tg EXCEPT !.prog = prog, !.cur = cc, !.pprev = pp, !.plast = lvl]
    BY DEF AddDPulse, e
  <2> HIDE DEF prog, pp, cc, r
  <2>3. r \in ToneGenType
    BY <1>2, <2>1, <2>2 DEF ToneGenType
  <2>4. /\ r.prog = prog /\ r.tidx = x /\ r.rem = tg.rem /\ r.cur = cc /\ r.plast = lvl /\ r.pprev = pp
    BY <1>2, <2>2 DEF ToneGenType
  <2> QED BY <2>3, <2>4 DEF prog, pp, cc
<1> HIDE DEF r
<1>10. /\ Len(r.prog) = n + 1 /\ r.prog[n + 1] = e
       /\ \A i \in 1 .. n : r.prog[i] = tg.prog[i]
  BY <1>1, <1>5, <1>9
<1>11. \A j : Coming(wf, j) = (IF j < m THEN wf.w[j + 1].lvl ELSE wf.lvl)
              /\ Coming(v, j) = IF j < m + 1 THEN v.w[j + 1].lvl ELSE v.lvl
  BY <1>7 DEF Coming
<1>12. r.cur = Coming(v, k)
  <2>1. CASE k < m
    <3>1. x # n /\ k + 1 \in 1 .. m /\ k < m + 1
      <4> HIDE DEF m, n, x
      <4> QED BY <1>1, <1>3, <2>1
    <3> QED BY <1>2, <1>7, <1>9, <1>11, <2>1, <3>1
  <2>2. CASE ~(k < m)
    <3>1. x = n /\ k = m /\ k < m + 1
      <4> HIDE DEF m, n, x
      <4> QED BY <1>1, <1>3, <2>2
    <3> QED BY <1>4, <1>7, <1>9, <1>11, <3>1
  <2> QED BY <2>1, <2>2
<1> HIDE DEF m, n, x
<1>13. Tuned(r, k, v)
  <2>1. r.pprev = 0 <=> Low(v)
    BY <1>2, <1>8, <1>9
  <2>2. ASSUME NEW j \in k + 1 .. Len(v.w) PROVE v.w[j].sig = "none"
    BY <1>1, <1>2, <1>4, <1>7
  <2>3. k \in 0 .. Len(v.w) /\ r.tidx <= Len(r.prog)
    BY <1>1, <1>7, <1>9, <1>10
  <2> QED BY <1>7, <1>9, <1>12, <2>1, <2>2, <2>3 DEF Tuned
<1>14. Straight(r, k, v)
  <2>1. ASSUME NEW i \in x + 1 .. n + 1
        PROVE  /\ r.prog[i].direct /\ r.prog[i].np = 1
               /\ v.w[k + i - x].lvl = r.prog[i].lvl
               /\ v.w[k + i - x].len = r.prog[i].len
    <3>1. CASE i = n + 1
      <4>1. k + i - x = m + 1
        BY <1>1, <1>3, <3>1
      <4> QED BY <1>4, <1>5, <1>7, <1>10, <3>1, <4>1
    <3>2. CASE i # n + 1
      <4>1. i \in x + 1 .. n /\ i \in 1 .. n
        BY <1>1, <3>2
      <4>2. k + i - x \in 1 .. m
        BY <1>1, <1>3, <4>1
      <4> QED BY <1>3, <1>7, <1>10, <4>1, <4>2
    <3> QED BY <3>1, <3>2
  <2>2. k + (n + 1) = (m + 1) + x
    <3>1. k \in Nat /\ n \in Nat /\ m \in Nat /\ x \in Nat
      BY <1>1
    <3>2. k + n = m + x
      BY <1>3
    <3> QED BY <3>1, <3>2
  <2> QED BY <1>3, <1>4, <1>7, <1>9, <1>10, <2>1, <2>2 DEF Straight
<1> QED BY <1>13, <1>14 DEF r, v

\* tape_player_program_pause().
LEMMA SaysPause ==
  ASSUME NEW tg, NEW wf, Blank(tg, wf), NEW ms \in Nat
  PROVE  Says(ProgramPause(tg, ms), Len(wf.w), Silence(wf, ms))
<1> DEFINE k == Len(wf.w)
<1>1. PauseMult \in Nat /\ 0 \in Level /\ 1 \in Level /\ PauseMult * ms \in Nat
  BY PlayerAssumption DEF Level
<1>2. Tuned(tg, k, wf) /\ Straight(tg, k, wf)
  BY BlankBoth
<1> HIDE DEF k
<1>3. CASE ms = 0
  BY <1>2, <1>3 DEF ProgramPause, Silence, Says, k
<1>4. CASE ms # 0
  <2>1. ms - 1 \in Nat /\ PauseMult * (ms - 1) \in Nat
    BY <1>1, <1>4
  <2>2. Rising(wf) <=> tg.pprev = 0 /\ tg.plast = 1
    BY <1>2, RisingIs DEF Tuned
  <2> DEFINE a == AddDPulse(tg, 1, PauseMult)
             b == Hold(wf, 1, PauseMult)
  <2>3. Tuned(a, k, b) /\ Straight(a, k, b)
    BY <1>1, <1>2, SaysDPulse
  <2> HIDE DEF a, b
  <2>4. CASE Rising(wf)
    <3> DEFINE c == AddDPulse(a, 0, PauseMult * (ms - 1))
               d == Hold(b, 0, PauseMult * (ms - 1))
    <3>1. Tuned(c, k, d) /\ Straight(c, k, d)
      BY <1>1, <2>1, <2>3, SaysDPulse
    <3>2. ProgramPause(tg, ms) = c /\ Silence(wf, ms) = d
      BY <1>4, <2>2, <2>4 DEF ProgramPause, Silence, a, b
    <3> QED BY <3>1, <3>2 DEF Says, k
  <2>5. CASE ~Rising(wf)
    <3> DEFINE c == AddDPulse(tg, 0, PauseMult * ms)
               d == Hold(wf, 0, PauseMult * ms)
    <3>1. Tuned(c, k, d) /\ Straight(c, k, d)
      BY <1>1, <1>2, SaysDPulse
    <3>2. ProgramPause(tg, ms) = c /\ Silence(wf, ms) = d
      BY <1>4, <2>2, <2>5 DEF ProgramPause, Silence
    <3> QED BY <3>1, <3>2 DEF Says, k
  <2> QED BY <2>4, <2>5
<1> QED BY <1>3, <1>4

\* A pilot and two syncs, one tone.
LEMMA SaysPilot ==
  ASSUME NEW tg, NEW wf, Blank(Clear(tg), wf), NEW len \in Nat, NEW np \in Nat, NEW s1 \in Nat, NEW s2 \in Nat
  PROVE  Says(PilotAndSync(tg, len, np, s1, s2), Len(wf.w), Pilot(wf, len, np, s1, s2))
<1> DEFINE k == Len(wf.w)
           a == Clear(tg)
           b == AddTone(a, len, np)
           c == AddTone(b, s1, 1)
           d == AddTone(c, s2, 1)
           vb == Pulses(wf, Times(len, np))
           vc == Pulses(vb, Times(s1, 1))
           vd == Pulses(vc, Times(s2, 1))
<1>1. Tuned(a, k, wf) /\ Tonal(a, k, wf)
  BY BlankBoth
<1> HIDE DEF a, k
<1>2. Tuned(b, k, vb) /\ Tonal(b, k, vb)
  BY <1>1, SaysTone
<1> HIDE DEF b, vb
<1>3. Tuned(c, k, vc) /\ Tonal(c, k, vc)
  BY <1>2, SaysTone
<1> HIDE DEF c, vc
<1>4. Tuned(d, k, vd) /\ Tonal(d, k, vd)
  BY <1>3, SaysTone
<1>5. \A x : Times(x, 1) = <<x>>
  BY DEF Times
<1>6. Pilot(wf, len, np, s1, s2) = vd
  BY <1>5 DEF Pilot, vd, vc, vb
<1>7. PilotAndSync(tg, len, np, s1, s2) = d
  BY DEF PilotAndSync, d, c, b, a
<1> HIDE DEF d, vd
<1> QED BY <1>4, <1>6, <1>7 DEF Says, k

LEMMA SaysOneTone ==
  ASSUME NEW tg, NEW wf, Blank(tg, wf), NEW len \in Nat, NEW np \in Nat
  PROVE  Says(AddTone(tg, len, np), Len(wf.w), Pulses(wf, Times(len, np)))
BY BlankBoth, SaysTone DEF Says

\* The bits of a byte, two pulses each.
PairsOf(lens, bits, one, zero) ==
  /\ lens \in Seq(Nat) /\ Len(lens) = 2 * Len(bits)
  /\ \A i \in 1 .. Len(bits) :
       /\ lens[2 * i - 1] = (IF bits[i] = 1 THEN one ELSE zero)
       /\ lens[2 * i] = (IF bits[i] = 1 THEN one ELSE zero)

LEMMA BitPulsesIs ==
  ASSUME NEW bits \in Seq({0, 1}), NEW one \in Nat, NEW zero \in Nat
  PROVE  PairsOf(BitPulses(bits, one, zero), bits, one, zero)
<1> DEFINE n == Len(bits)
           g(i) == IF bits[i] = 1 THEN one ELSE zero
           s == [i \in 1 .. 2 * n |-> g((i + 1) \div 2)]
<1>1. n \in Nat /\ 2 * n \in Nat
  OBVIOUS
<1>2. BitPulses(bits, one, zero) = s
  BY DEF BitPulses
<1> HIDE DEF n
<1>3. \A i : g(i) \in Nat
  OBVIOUS
<1>4. ASSUME NEW i \in 1 .. n
      PROVE  /\ 2 * i - 1 \in 1 .. 2 * n /\ 2 * i \in 1 .. 2 * n
             /\ ((2 * i - 1) + 1) \div 2 = i /\ (2 * i + 1) \div 2 = i
  BY <1>1
<1> HIDE DEF g
<1>5. s \in Seq(Nat) /\ Len(s) = 2 * n
  BY <1>1, <1>3
<1>6. ASSUME NEW i \in 1 .. n PROVE s[2 * i - 1] = g(i) /\ s[2 * i] = g(i)
  BY <1>4
<1> HIDE DEF s
<1> QED BY <1>2, <1>5, <1>6 DEF n, g, PairsOf

LEMMA BitsLow ==
  ASSUME NEW wf \in Wave, NEW bits \in Seq({0, 1}), NEW one \in Nat, NEW zero \in Nat
  PROVE  LET v == Pulses(wf, BitPulses(bits, one, zero))
         IN  /\ v.lvl = wf.lvl
             /\ Low(v) <=> IF \E i \in 1 .. Len(bits) : (IF bits[i] = 1 THEN one ELSE zero) > 0
                           THEN wf.lvl = 1 ELSE Low(wf)
<1> DEFINE lens == BitPulses(bits, one, zero)
           n == Len(bits)
           g(i) == IF bits[i] = 1 THEN one ELSE zero
           v == Pulses(wf, lens)
           e == Edges(wf.lvl, lens)
           l(i) == LevelAfter(wf.lvl, i)
<1>1. /\ lens \in Seq(Nat) /\ Len(lens) = 2 * n
      /\ \A i \in 1 .. n : lens[2 * i - 1] = g(i) /\ lens[2 * i] = g(i)
  <2>1. PairsOf(lens, bits, one, zero)
    BY BitPulsesIs
  <2> HIDE DEF lens
  <2> QED BY <2>1 DEF PairsOf
<1>2. n \in Nat /\ wf.lvl \in Level
  BY WaveFields
<1> HIDE DEF lens
<1>3. /\ Continued(wf, v, e, l(Len(lens))) /\ e \in Seq(Event) /\ Len(e) = Len(lens)
      /\ \A i \in 1 .. Len(lens) : e[i] = EventOf(l(i - 1), lens[i])
  BY <1>1, PulsesIs
<1>4. ASSUME NEW i \in Nat PROVE l(2 * i) = wf.lvl /\ l(2 * i + 1) = 1 - wf.lvl /\ l(i) \in Level
  BY <1>2 DEF LevelAfter, Level
<1>5. \A i \in 1 .. n : g(i) \in Nat
  OBVIOUS
<1> HIDE DEF v, e, l, n, g
<1>6. v.lvl = wf.lvl
  BY <1>1, <1>2, <1>3, <1>4 DEF Continued
<1>7. ASSUME NEW j \in 1 .. 2 * n PROVE e[j].len = lens[j] /\ e[j].lvl = l(j - 1)
  <2>1. j - 1 \in Nat /\ lens[j] \in Nat /\ j \in 1 .. Len(lens)
    BY <1>1, <1>2
  <2>2. l(j - 1) \in Level /\ e[j] = EventOf(l(j - 1), lens[j])
    BY <1>3, <1>4, <2>1
  <2> QED BY <2>1, <2>2, EventIs
<1>8. ASSUME NEW j \in 1 .. 2 * n
      PROVE  \E i \in 1 .. n : (j = 2 * i - 1 \/ j = 2 * i) /\ lens[j] = g(i)
  <2>1. (j + 1) \div 2 \in 1 .. n
        /\ (j = 2 * ((j + 1) \div 2) - 1 \/ j = 2 * ((j + 1) \div 2))
    BY <1>2
  <2> DEFINE i == (j + 1) \div 2
  <2>2. i \in 1 .. n /\ (j = 2 * i - 1 \/ j = 2 * i)
    BY <2>1
  <2> HIDE DEF i
  <2>3. lens[j] = g(i)
    BY <1>1, <2>2
  <2> QED BY <2>2, <2>3
<1>9. CASE \E i \in 1 .. n : g(i) > 0
  <2> DEFINE T == {i \in 1 .. n : g(i) > 0}
  <2>1. T \in SUBSET (0 .. n) /\ T # {}
    BY <1>2, <1>9
  <2>2. PICK i \in T : \A y \in T : y <= i
    BY <1>2, <2>1, Greatest
  <2>3. i \in 1 .. n /\ g(i) > 0 /\ \A y \in 1 .. n : g(y) > 0 => y <= i
    BY <2>2
  <2>4. 2 * i \in 1 .. 2 * n /\ i - 1 \in Nat /\ 2 * (i - 1) + 1 = 2 * i - 1
    BY <1>2, <2>3
  <2>5. e[2 * i].len = g(i) /\ e[2 * i].lvl = 1 - wf.lvl
    BY <1>1, <1>4, <1>7, <2>3, <2>4
  <2>6. ASSUME NEW j \in 2 * i + 1 .. 2 * n PROVE e[j].len = 0
    <3>1. j \in 1 .. 2 * n
      BY <2>3
    <3>2. PICK y \in 1 .. n : (j = 2 * y - 1 \/ j = 2 * y) /\ lens[j] = g(y)
      BY <1>8, <3>1
    <3>3. ~(y <= i)
      BY <2>3, <3>2
    <3>4. g(y) \in Nat /\ ~(g(y) > 0)
      BY <1>5, <2>3, <3>3
    <3>5. e[j].len = g(y)
      BY <1>7, <3>1, <3>2
    <3> QED BY <3>4, <3>5
  <2>7. LastTimed(e, 2 * i)
    BY <1>1, <1>3, <2>3, <2>4, <2>5, <2>6 DEF LastTimed
  <2>8. Low(v) <=> e[2 * i].lvl = 0
    BY <1>3, <2>7, LowBehind
  <2>9. Low(v) <=> wf.lvl = 1
    BY <1>2, <2>5, <2>8 DEF Level
  <2> QED BY <1>6, <1>9, <2>9 DEF v, lens, n, g
<1>10. CASE ~\E i \in 1 .. n : g(i) > 0
  <2>1. ASSUME NEW j \in 1 .. Len(e) PROVE e[j].len = 0
    <3>1. j \in 1 .. 2 * n
      BY <1>1, <1>3
    <3>2. PICK y \in 1 .. n : lens[j] = g(y)
      BY <1>8, <3>1
    <3> QED BY <1>5, <1>7, <1>10, <3>1, <3>2
  <2>2. Low(v) <=> Low(wf)
    BY <1>3, <2>1, LowBehind
  <2> QED BY <1>6, <1>10, <2>2 DEF v, lens, n, g
<1> QED BY <1>9, <1>10

\* tape_player_program_bits().
LEMMA SaysBits ==
  ASSUME NEW tg, NEW wf, Blank(tg, wf), NEW byte \in Byte, NEW nb \in 0 .. ByteBits,
         NEW one \in Nat, NEW zero \in Nat
  PROVE  Says(ProgramBits(tg, byte, nb, one, zero), Len(wf.w),
              Pulses(wf, BitPulses(SubSeq(byte, 1, nb), one, zero)))
<1> DEFINE r == ProgramBits(tg, byte, nb, one, zero)
           bits == SubSeq(byte, 1, nb)
           lens == BitPulses(bits, one, zero)
           v == Pulses(wf, lens)
           k == Len(wf.w)
           g(i) == IF byte[i] = 1 THEN one ELSE zero
           prog == [i \in 1 .. nb |-> Tone(g(i), 2)]
           pp == IF \E i \in 1 .. nb : g(i) > 0 THEN Flip(tg.plast) ELSE tg.pprev
<1>0. nb \in Nat /\ ByteBits \in Nat /\ byte \in Seq({0, 1}) /\ Len(byte) = ByteBits
  BY PlayerAssumption DEF Byte
<1>1. /\ Tuned(tg, k, wf) /\ tg.prog = <<>> /\ tg.tidx = 0 /\ tg.rem = 0
      /\ wf \in Wave /\ k \in Nat /\ wf.lvl \in Level
  BY BlankBoth, SayingFields
<1>2. /\ tg \in ToneGenType /\ tg.cur = Coming(wf, k) /\ tg.plast = wf.lvl
      /\ (tg.pprev = 0 <=> Low(wf)) /\ tg.pprev \in Level
  BY <1>1 DEF Tuned, ToneGenType
<1>3. bits \in Seq({0, 1}) /\ Len(bits) = nb /\ \A i \in 1 .. nb : bits[i] = byte[i]
  BY <1>0
<1> HIDE DEF bits
<1>4. /\ lens \in Seq(Nat) /\ Len(lens) = 2 * nb
      /\ \A i \in 1 .. nb : lens[2 * i - 1] = g(i) /\ lens[2 * i] = g(i)
  <2>1. PairsOf(lens, bits, one, zero)
    BY <1>3, BitPulsesIs
  <2> HIDE DEF lens
  <2> QED BY <1>3, <2>1 DEF PairsOf
<1>5. /\ v.lvl = wf.lvl
      /\ Low(v) <=> IF \E i \in 1 .. nb : g(i) > 0 THEN wf.lvl = 1 ELSE Low(wf)
  <2>1. /\ v.lvl = wf.lvl
        /\ Low(v) <=> IF \E i \in 1 .. Len(bits) : (IF bits[i] = 1 THEN one ELSE zero) > 0
                      THEN wf.lvl = 1 ELSE Low(wf)
    BY <1>1, <1>3, BitsLow
  <2>2. (\E i \in 1 .. Len(bits) : (IF bits[i] = 1 THEN one ELSE zero) > 0)
          <=> \E i \in 1 .. nb : g(i) > 0
    BY <1>3
  <2> HIDE DEF v, g
  <2> QED BY <2>1, <2>2
<1> HIDE DEF lens
<1>6. /\ v \in Wave /\ Len(v.w) = k + 2 * nb /\ Len(v.w) \in Nat
  <2>1. Continued(wf, v, Edges(wf.lvl, lens), LevelAfter(wf.lvl, Len(lens)))
        /\ Len(Edges(wf.lvl, lens)) = Len(lens)
    BY <1>1, <1>4, PulsesIs
  <2> HIDE DEF v
  <2>2. v \in Wave /\ Len(v.w) = k + Len(Edges(wf.lvl, lens))
    BY <2>1 DEF Continued
  <2>3. Len(v.w) = k + 2 * nb
    BY <1>4, <2>1, <2>2
  <2>4. k + 2 * nb \in Nat
    <3>1. k \in Nat /\ nb \in Nat
      BY <1>0, <1>1
    <3> HIDE DEF k
    <3> QED BY <3>1
  <2> QED BY <2>2, <2>3, <2>4
<1>7. /\ \A j \in 0 .. k : Coming(v, j) = Coming(wf, j)
      /\ \A j \in k + 1 .. Len(v.w) :
           /\ Coming(v, j) = 1 - v.w[j].lvl /\ v.w[j].sig = "none"
           /\ v.w[j].len = lens[j - k]
  BY <1>1, <1>4, PulsesComing
<1> HIDE DEF v
<1>8. ASSUME NEW i \in 1 .. nb
      PROVE  /\ g(i) \in Nat /\ Tone(g(i), 2) \in Entry /\ Tone(g(i), 2).np = 2
             /\ Tone(g(i), 2).len = g(i) /\ ~Tone(g(i), 2).direct
  BY DEF Tone, Entry, Level
<1>9. pp \in Level /\ (pp = 0 <=> Low(v))
  <2>1. Flip(tg.plast) \in Level /\ (Flip(tg.plast) = 0 <=> wf.lvl = 1)
    BY <1>1, <1>2 DEF Flip, Level
  <2> HIDE DEF g
  <2>2. CASE \E i \in 1 .. nb : g(i) > 0
    BY <1>5, <2>1, <2>2
  <2>3. CASE ~\E i \in 1 .. nb : g(i) > 0
    BY <1>2, <1>5, <2>3
  <2> QED BY <2>2, <2>3
<1> HIDE DEF g
<1>10. /\ prog \in Seq(Entry) /\ Len(prog) = nb
       /\ \A i \in 1 .. nb : prog[i].np = 2 /\ prog[i].len = g(i) /\ ~prog[i].direct
  BY <1>0, <1>8
<1>11. r = [tg EXCEPT !.prog = prog, !.pprev = pp]
  BY <1>1, <1>10 DEF ProgramBits, g
<1> HIDE DEF prog, pp, r
<1>12. /\ r \in ToneGenType /\ r.prog = prog /\ r.tidx = 0 /\ r.rem = 0 /\ r.cur = tg.cur
       /\ r.plast = wf.lvl /\ r.pprev = pp
  BY <1>1, <1>2, <1>9, <1>10, <1>11 DEF ToneGenType
<1> HIDE DEF k
<1>13. Tuned(r, k, v)
  <2>1. k \in 0 .. Len(v.w) /\ r.tidx <= Len(r.prog) /\ k \in 0 .. k
    BY <1>0, <1>1, <1>6, <1>10, <1>12
  <2>2. r.cur = Coming(v, k)
    BY <1>2, <1>7, <1>12, <2>1
  <2>3. \A j \in k + 1 .. Len(v.w) : v.w[j].sig = "none"
    BY <1>7
  <2> QED BY <1>5, <1>6, <1>9, <1>12, <2>1, <2>2, <2>3 DEF Tuned
<1> DEFINE at == [i \in 0 .. nb |-> k + 2 * i]
<1>14. Entries(r, k, v, at)
  <2>1. /\ at \in [0 .. nb -> Nat] /\ at[0] = k /\ at[nb] = k + 2 * nb
        /\ \A i \in 1 .. nb : at[i] = at[i - 1] + 2 /\ at[i - 1] = k + 2 * (i - 1)
    BY <1>0, <1>1
  <2> HIDE DEF at
  <2>2. ASSUME NEW i \in 1 .. nb, NEW j \in 1 .. 2 PROVE v.w[at[i - 1] + j].len = g(i)
    <3>1. CASE j = 1
      <4>1. at[i - 1] + j = k + (2 * i - 1) /\ k + (2 * i - 1) \in k + 1 .. Len(v.w)
            /\ (k + (2 * i - 1)) - k = 2 * i - 1
        <5>1. /\ k \in Nat /\ nb \in Nat /\ i \in 1 .. nb /\ j = 1
              /\ at[i - 1] = k + 2 * (i - 1)
          BY <1>0, <1>1, <2>1, <3>1
        <5> DEFINE y == at[i - 1]
                   z == Len(v.w)
        <5>2. y = k + 2 * (i - 1) /\ z = k + 2 * nb
          BY <1>6, <5>1
        <5> HIDE DEF y, z
        <5>3. y + j = k + (2 * i - 1) /\ k + (2 * i - 1) \in k + 1 .. z /\ (k + (2 * i - 1)) - k = 2 * i - 1
          BY <5>1, <5>2
        <5> QED BY <5>3 DEF y, z
      <4> QED BY <1>4, <1>7, <4>1
    <3>2. CASE j = 2
      <4>1. at[i - 1] + j = k + 2 * i /\ k + 2 * i \in k + 1 .. Len(v.w)
            /\ (k + 2 * i) - k = 2 * i
        <5>1. /\ k \in Nat /\ nb \in Nat /\ i \in 1 .. nb /\ j = 2
              /\ at[i - 1] = k + 2 * (i - 1)
          BY <1>0, <1>1, <2>1, <3>2
        <5> DEFINE y == at[i - 1]
                   z == Len(v.w)
        <5>2. y = k + 2 * (i - 1) /\ z = k + 2 * nb
          BY <1>6, <5>1
        <5> HIDE DEF y, z
        <5>3. y + j = k + (2 * i) /\ k + (2 * i) \in k + 1 .. z /\ (k + (2 * i)) - k = 2 * i
          BY <5>1, <5>2
        <5> QED BY <5>3 DEF y, z
      <4> QED BY <1>4, <1>7, <4>1
    <3> QED BY <3>1, <3>2
  <2>3. ASSUME NEW i \in r.tidx + 1 .. Len(r.prog)
        PROVE  /\ at[i] = at[i - 1] + r.prog[i].np
               /\ \A j \in 1 .. r.prog[i].np : v.w[at[i - 1] + j].len = r.prog[i].len
    <3>1. i \in 1 .. nb
      BY <1>10, <1>12
    <3> QED BY <1>10, <1>12, <2>1, <2>2, <3>1
  <2>4. at[r.tidx] = k + r.rem
    BY <1>1, <1>12, <2>1
  <2> QED BY <1>6, <1>10, <1>12, <2>1, <2>3, <2>4 DEF Entries
<1>15. Tonal(r, k, v)
  BY <1>1, <1>7, <1>10, <1>12, <1>14 DEF Tonal
<1> QED BY <1>13, <1>15 DEF Says, r, k, v, lens, bits

\* tape_player_program_direct_bits().
LEMMA SaysDirectBits ==
  ASSUME NEW tg, NEW wf, Blank(tg, wf), NEW byte \in Byte, NEW nb \in 0 .. ByteBits, NEW dur \in Nat
  PROVE  Says(ProgramDirectBits(tg, byte, nb, dur), Len(wf.w), Samples(wf, SubSeq(byte, 1, nb), dur))
<1> DEFINE r == ProgramDirectBits(tg, byte, nb, dur)
           bits == SubSeq(byte, 1, nb)
           v == Samples(wf, bits, dur)
           k == Len(wf.w)
           prog == [i \in 1 .. nb |-> DirectPulse(byte[i], dur)]
<1>0. nb \in Nat /\ ByteBits \in Nat /\ byte \in Seq({0, 1}) /\ Len(byte) = ByteBits
  BY PlayerAssumption DEF Byte
<1>1. /\ Tuned(tg, k, wf) /\ Straight(tg, k, wf) /\ tg.prog = <<>> /\ tg.tidx = 0 /\ tg.rem = 0
      /\ wf \in Wave /\ k \in Nat /\ wf.lvl \in Level
  BY BlankBoth, SayingFields
<1>2. /\ tg \in ToneGenType /\ tg.cur = Coming(wf, k) /\ tg.plast = wf.lvl
      /\ (tg.pprev = 0 <=> Low(wf)) /\ tg.pprev \in Level
  BY <1>1 DEF Tuned, ToneGenType
<1>3. bits \in Seq(Level) /\ Len(bits) = nb /\ \A i \in 1 .. nb : bits[i] = byte[i] /\ byte[i] \in Level
  BY <1>0 DEF Level
<1> HIDE DEF bits
<1>4. PICK e \in Seq(Event) :
        /\ Continued(wf, v, e, IF bits = <<>> THEN wf.lvl ELSE bits[Len(bits)])
        /\ Len(e) = Len(bits)
        /\ \A i \in 1 .. Len(bits) : e[i] = EventOf(bits[i], dur)
  BY <1>1, <1>3, SamplesIs
<1>5. /\ v \in Wave /\ Len(v.w) = k + nb /\ v.lvl = (IF nb = 0 THEN wf.lvl ELSE byte[nb])
      /\ \A i \in 1 .. k : v.w[i] = wf.w[i]
      /\ \A i \in 1 .. nb : v.w[k + i] = e[i]
  <2>1. bits = <<>> <=> nb = 0
    BY <1>3
  <2>2. nb # 0 => nb \in 1 .. nb
    BY <1>0
  <2> HIDE DEF v
  <2> QED BY <1>3, <1>4, <2>1, <2>2 DEF Continued
<1>6. ASSUME NEW i \in 1 .. nb
      PROVE  e[i].lvl = byte[i] /\ e[i].len = dur /\ e[i].sig = "none"
  BY <1>3, <1>4, EventIs
<1> HIDE DEF k
<1>7. CASE nb = 0
  <2>1. r = tg
    BY <1>7 DEF ProgramDirectBits
  <2>2. wf \in Wave /\ v \in Wave /\ v.lvl = wf.lvl /\ Len(v.w) = Len(wf.w)
        /\ \A i \in 1 .. Len(v.w) : v.w[i] = wf.w[i]
    <3>1. k + nb = k
      BY <1>1, <1>7
    <3> HIDE DEF v
    <3> QED BY <1>1, <1>5, <1>7, <3>1 DEF k
  <2> HIDE DEF v, r
  <2>3. v = wf
    BY <2>2, SameWave
  <2> QED BY <1>1, <2>1, <2>3 DEF Says, v, r, bits, k
<1>8. CASE nb # 0
  <2>1. \A i \in 1 .. nb : /\ DirectPulse(byte[i], dur) \in Entry /\ DirectPulse(byte[i], dur).np = 1
                           /\ DirectPulse(byte[i], dur).lvl = byte[i]
                           /\ DirectPulse(byte[i], dur).len = dur /\ DirectPulse(byte[i], dur).direct
    BY <1>3 DEF DirectPulse, Entry
  <2>2. /\ prog \in Seq(Entry) /\ Len(prog) = nb
        /\ \A i \in 1 .. nb : /\ prog[i].np = 1 /\ prog[i].len = dur
                              /\ prog[i].lvl = byte[i] /\ prog[i].direct
    BY <1>0, <2>1
  <2>3. 1 \in 1 .. nb /\ nb \in 1 .. nb /\ byte[1] \in Level /\ byte[nb] \in Level
    BY <1>0, <1>3, <1>8
  <2> DEFINE pp == IF dur > 0 THEN byte[nb] ELSE tg.pprev
             b1 == byte[1]
             b2 == byte[nb]
  <2>4. r = [tg EXCEPT !.prog = prog, !.cur = b1, !.pprev = pp, !.plast = b2]
    BY <1>1, <1>8, <2>2 DEF ProgramDirectBits
  <2>5. pp \in Level /\ b1 \in Level /\ b2 \in Level
    BY <1>2, <2>3
  <2> HIDE DEF prog, r
  <2>6. /\ r \in ToneGenType /\ r.prog = prog /\ r.tidx = 0 /\ r.rem = 0 /\ r.cur = b1
        /\ r.plast = b2 /\ r.pprev = pp
    <3> HIDE DEF pp, b1, b2
    <3> QED BY <1>1, <1>2, <2>2, <2>4, <2>5 DEF ToneGenType
  <2>7. pp = 0 <=> Low(v)
    <3>1. CASE dur > 0
      <4>1. LastTimed(e, nb)
        BY <1>0, <1>3, <1>4, <1>6, <2>3, <3>1 DEF LastTimed
      <4>2. Low(v) <=> e[nb].lvl = 0
        <5> HIDE DEF v
        <5> QED BY <1>1, <1>4, <4>1, LowBehind
      <4> QED BY <1>6, <2>3, <3>1, <4>2
    <3>2. CASE ~(dur > 0)
      <4>1. \A i \in 1 .. Len(e) : e[i].len = 0
        BY <1>3, <1>4, <1>6, <3>2
      <4>2. Low(v) <=> Low(wf)
        <5> HIDE DEF v
        <5> QED BY <1>1, <1>4, <4>1, LowBehind
      <4> QED BY <1>2, <3>2, <4>2
    <3> QED BY <3>1, <3>2
  <2> HIDE DEF v, pp
  <2>8. Coming(v, k) = b1
    BY <1>0, <1>1, <1>5, <1>6, <1>8, <2>3 DEF Coming
  <2>9. ASSUME NEW j \in k + 1 .. Len(v.w) PROVE v.w[j].sig = "none"
    <3>1. j - k \in 1 .. nb /\ k + (j - k) = j
      BY <1>0, <1>1, <1>5
    <3> QED BY <1>5, <1>6, <3>1
  <2>10. Tuned(r, k, v)
    <3>1. k \in 0 .. Len(v.w) /\ r.tidx <= Len(r.prog)
      BY <1>0, <1>1, <1>5, <2>2, <2>6
    <3> QED BY <1>5, <1>8, <2>6, <2>7, <2>8, <2>9, <3>1 DEF Tuned
  <2>11. Straight(r, k, v)
    <3>1. ASSUME NEW i \in 1 .. nb
          PROVE  v.w[k + i - 0].lvl = prog[i].lvl /\ v.w[k + i - 0].len = prog[i].len
      <4>1. k + i - 0 = k + i
        BY <1>1
      <4> QED BY <1>5, <1>6, <2>2, <4>1
    <3>2. k + nb = (k + nb) + 0
      BY <1>0, <1>1
    <3>3. v.lvl = v.w[k + nb].lvl
      BY <1>5, <1>6, <1>8, <2>3
    <3> QED BY <1>5, <2>2, <2>6, <3>1, <3>2, <3>3 DEF Straight
  <2> QED BY <2>10, <2>11 DEF Says, r, k, v, bits
<1> QED BY <1>7, <1>8

(***************************************************************************)
(* Functions that count on from a first number.                             *)
(***************************************************************************)
From(S, a) == S \in SUBSET Nat /\ a \in S /\ \A x \in S : x # a => x - 1 \in S /\ a < x

LEMMA Upward ==
  ASSUME NEW S, NEW a, From(S, a), NEW T, a \in T, \A x \in S : x # a /\ x - 1 \in T => x \in T
  PROVE  S \subseteq T
<1> DEFINE U == {x \in S : x \notin T}
<1> SUFFICES ASSUME U # {} PROVE FALSE
  OBVIOUS
<1>1. U \in SUBSET Nat
  BY DEF From
<1>2. PICK x \in U : \A y \in U : x <= y
  BY <1>1, Least
<1>3. x \in S /\ x \notin T /\ x # a /\ x - 1 \in S /\ x \in Nat
  BY <1>2 DEF From
<1>4. x - 1 \notin U
  <2>1. ~(x <= x - 1)
    BY <1>3
  <2> HIDE DEF U
  <2> QED BY <1>2, <2>1
<1> QED BY <1>3, <1>4

CountsOn(S, a, V, v, G, f) ==
  f \in [S -> V] /\ f[a] = v /\ \A x \in S : x # a => f[x] = G[x][f[x - 1]]

LEMMA Counting ==
  ASSUME NEW S, NEW a, From(S, a), NEW V, NEW v \in V, NEW G \in [S -> [V -> V]]
  PROVE  \E f : CountsOn(S, a, V, v, G, f)
<1> DEFINE R == {z \in S \X S : z[1] < z[2]}
           F == [x \in S |-> [g \in [S -> V] |-> IF x = a THEN v ELSE G[x][g[x - 1]]]]
<1>1. \A x, y \in S : <<x, y>> \in R <=> x < y
  OBVIOUS
<1>2. \A x \in S : x \in Nat /\ (x # a => x - 1 \in S /\ x - 1 < x)
  BY DEF From
<1> HIDE DEF R
<1>3. Ordered(R, S)
  <2>1. \A x, y, z \in S : <<x, y>> \in R /\ <<y, z>> \in R => <<x, z>> \in R
    <3> SUFFICES ASSUME NEW x \in S, NEW y \in S, NEW z \in S, <<x, y>> \in R, <<y, z>> \in R
                 PROVE  <<x, z>> \in R
      OBVIOUS
    <3>1. x \in Nat /\ y \in Nat /\ z \in Nat
      BY <1>2
    <3>2. x < y /\ y < z
      BY <1>1
    <3>3. x < z
      BY <3>1, <3>2
    <3> QED BY <1>1, <3>3
  <2>2. ASSUME NEW T \in SUBSET S, T # {} PROVE \E x \in T : \A y \in T : <<y, x>> \notin R
    <3>1. T \in SUBSET Nat
      BY <1>2
    <3>2. PICK x \in T : \A y \in T : x <= y
      BY <2>2, <3>1, Least
    <3>3. \A y \in T : ~(y < x)
      BY <3>1, <3>2
    <3> QED BY <1>1, <3>2, <3>3
  <2> QED BY <2>1, <2>2 DEF Ordered
<1>4. Descends(S, V, F, R)
  <2>1. ASSUME NEW x \in S, NEW g \in [S -> V]
        PROVE  (IF x = a THEN v ELSE G[x][g[x - 1]]) \in V
    BY <1>2
  <2>2. F \in [S -> [[S -> V] -> V]]
    BY <2>1
  <2>3. ASSUME NEW x \in S, NEW g \in [S -> V], NEW h \in [S -> V],
               \A y \in S : <<y, x>> \in R => g[y] = h[y]
        PROVE  F[x][g] = F[x][h]
    BY <1>1, <1>2, <2>3
  <2> HIDE DEF F
  <2> QED BY <2>2, <2>3 DEF Descends
<1>5. PICK f \in [S -> V] : \A x \in S : f[x] = F[x][f]
  <2> HIDE DEF F
  <2> QED BY <1>3, <1>4, Recursion
<1>6. \A x \in S : f[x] = IF x = a THEN v ELSE G[x][f[x - 1]]
  BY <1>5
<1>7. a \in S
  BY DEF From
<1> HIDE DEF F
<1> QED BY <1>6, <1>7 DEF CountsOn

(***************************************************************************)
(* The sound of a block.                                                    *)
(***************************************************************************)
\* v begins as u.
Grown(u, v) ==
  /\ u \in Wave /\ v \in Wave /\ Len(u.w) <= Len(v.w)
  /\ \A i \in 1 .. Len(u.w) : v.w[i] = u.w[i]

LEMMA GrownSame == ASSUME NEW u \in Wave PROVE Grown(u, u)
BY WaveFields DEF Grown

LEMMA GrownOn ==
  ASSUME NEW u, NEW v, NEW w, Grown(u, v), Grown(v, w)
  PROVE  Grown(u, w)
BY WaveFields DEF Grown

LEMMA ContinuedGrown ==
  ASSUME NEW wf \in Wave, NEW e \in Seq(Event), NEW lvl, NEW v, Continued(wf, v, e, lvl)
  PROVE  Grown(wf, v)
BY WaveFields DEF Continued, Grown

LEMMA PulsesGrow ==
  ASSUME NEW wf \in Wave, NEW lens \in Seq(Nat)
  PROVE  Grown(wf, Pulses(wf, lens))
<1> DEFINE e == Edges(wf.lvl, lens)
           l == LevelAfter(wf.lvl, Len(lens))
           v == Pulses(wf, lens)
<1>1. Continued(wf, v, e, l) /\ e \in Seq(Event)
  BY PulsesIs
<1> HIDE DEF v, e, l
<1>2. Grown(wf, v)
  BY <1>1, ContinuedGrown
<1> QED BY <1>2 DEF v

LEMMA HoldGrow ==
  ASSUME NEW wf \in Wave, NEW lvl \in Level, NEW len \in Nat
  PROVE  Grown(wf, Hold(wf, lvl, len))
<1>1. Continued(wf, Hold(wf, lvl, len), <<EventOf(lvl, len)>>, lvl) /\ <<EventOf(lvl, len)>> \in Seq(Event)
  BY HoldIs
<1> QED BY <1>1, ContinuedGrown

LEMMA SamplesGrow ==
  ASSUME NEW wf \in Wave, NEW bits \in Seq(Level), NEW dur \in Nat
  PROVE  Grown(wf, Samples(wf, bits, dur))
<1> DEFINE v == Samples(wf, bits, dur)
           l == IF bits = <<>> THEN wf.lvl ELSE bits[Len(bits)]
<1>1. PICK e \in Seq(Event) : Continued(wf, v, e, l)
  BY SamplesIs
<1> HIDE DEF v, l
<1>2. Grown(wf, v)
  BY <1>1, ContinuedGrown
<1> QED BY <1>2 DEF v

LEMMA SignalledGrow ==
  ASSUME NEW wf \in Wave, NEW s \in Signal
  PROVE  Grown(wf, Signalled(wf, s))
<1>1. Len(wf.w) \in Nat
  BY WaveFields
<1>2. Len(wf.w) <= Len(wf.w) + 1
  BY <1>1
<1> QED BY <1>2, SignalledIs DEF Grown

LEMMA PilotGrow ==
  ASSUME NEW wf \in Wave, NEW len \in Nat, NEW np \in Nat, NEW s1 \in Nat, NEW s2 \in Nat
  PROVE  Grown(wf, Pilot(wf, len, np, s1, s2))
<1> DEFINE a == Pulses(wf, Times(len, np))
           b == Pulses(a, <<s1>>)
           c == Pulses(b, <<s2>>)
<1>1. Times(len, np) \in Seq(Nat) /\ <<s1>> \in Seq(Nat) /\ <<s2>> \in Seq(Nat)
  BY TimesIs
<1>2. Grown(wf, a)
  BY <1>1, PulsesGrow
<1>3. Grown(a, b)
  <2>1. a \in Wave
    BY <1>2 DEF Grown
  <2> HIDE DEF a
  <2> QED BY <1>1, <2>1, PulsesGrow
<1>4. Grown(b, c)
  <2>1. b \in Wave
    BY <1>3 DEF Grown
  <2> HIDE DEF b
  <2> QED BY <1>1, <2>1, PulsesGrow
<1>5. Pilot(wf, len, np, s1, s2) = c
  BY DEF Pilot
<1> HIDE DEF a, b, c
<1>6. Grown(wf, c)
  BY <1>2, <1>3, <1>4, GrownOn
<1> QED BY <1>5, <1>6

LEMMA SilenceGrow ==
  ASSUME NEW wf \in Wave, NEW ms \in Nat
  PROVE  Grown(wf, Silence(wf, ms))
<1>1. PauseMult \in Nat /\ 0 \in Level /\ 1 \in Level /\ PauseMult * ms \in Nat
  BY PlayerAssumption DEF Level
<1>2. CASE ms = 0
  BY <1>2, GrownSame DEF Silence
<1>3. CASE ms # 0
  <2>1. ms - 1 \in Nat /\ PauseMult * (ms - 1) \in Nat
    BY <1>1, <1>3
  <2> DEFINE a == Hold(wf, 1, PauseMult)
             b == Hold(a, 0, PauseMult * (ms - 1))
             c == Hold(wf, 0, PauseMult * ms)
  <2>2. Grown(wf, a) /\ Grown(wf, c)
    BY <1>1, HoldGrow
  <2>3. Grown(a, b)
    <3>1. a \in Wave
      BY <2>2 DEF Grown
    <3> HIDE DEF a
    <3> QED BY <1>1, <2>1, <3>1, HoldGrow
  <2>4. Silence(wf, ms) = IF Rising(wf) THEN b ELSE c
    BY <1>3 DEF Silence
  <2> HIDE DEF a, b, c
  <2>5. Grown(wf, b)
    BY <2>2, <2>3, GrownOn
  <2> QED BY <2>2, <2>4, <2>5
<1> QED BY <1>2, <1>3

\* What the bytes of a block are made of.
BytesFields(b) ==
  /\ b.data \in Seq(Byte) /\ Len(b.data) \in Nat /\ b.pause \in Nat
  /\ \A k \in 1 .. Len(b.data) : b.data[k] \in Byte

LEMMA BytesBlocks ==
  ASSUME NEW b \in Block, b.btype \in HasBytes
  PROVE  /\ BytesFields(b)
         /\ b.btype # "data" => b.lbBits \in 0 .. ByteBits
         /\ b.btype = "data" => Len(b.data) > 0
         /\ b.btype \in {"turbo", "pure"} => b.one \in Nat /\ b.zero \in Nat
         /\ b.btype = "turbo" => /\ b.pilotLen \in Nat /\ b.pilotPulses \in Nat
                                 /\ b.sync1 \in Nat /\ b.sync2 \in Nat
         /\ b.btype = "drec" => b.smpDur \in Nat
BY BlockFields DEF HasBytes, BytesFields, DataBlock, TurboBlock, PureBlock, DirectBlock

LEMMA LeadGrow ==
  ASSUME NEW wf \in Wave, NEW b \in Block, b.btype \in HasBytes
  PROVE  Grown(wf, Lead(wf, b))
<1>1. b.btype \in {"data", "turbo", "pure", "drec"}
  BY DEF HasBytes
<1>2. CASE b.btype = "data"
  <2> DEFINE np == IF IsHeader(b.data[1]) THEN RomPilotPulsesH ELSE RomPilotPulsesD
  <2>1. np \in Nat /\ RomPilotLen \in Nat /\ RomSync1Len \in Nat /\ RomSync2Len \in Nat
    BY Capacity
  <2>2. Lead(wf, b) = Pilot(wf, RomPilotLen, np, RomSync1Len, RomSync2Len)
    BY <1>2 DEF Lead
  <2> HIDE DEF np
  <2> QED BY <2>1, <2>2, PilotGrow
<1>3. CASE b.btype = "turbo"
  BY <1>3, BytesBlocks, PilotGrow DEF Lead
<1>4. CASE b.btype \in {"pure", "drec"}
  BY <1>4, GrownSame DEF Lead
<1> QED BY <1>1, <1>2, <1>3, <1>4

\* How many bits of byte k are played.
Played(b, k) == IF k < Len(b.data) \/ b.btype = "data" THEN ByteBits ELSE b.lbBits

LEMMA BitsOfIs ==
  ASSUME NEW b \in Block, b.btype \in HasBytes, NEW k \in 1 .. Len(b.data)
  PROVE  /\ b.data[k] \in Byte /\ Played(b, k) \in 0 .. ByteBits
         /\ BitsOf(b, k) = SubSeq(b.data[k], 1, Played(b, k)) /\ BitsOf(b, k) \in Seq({0, 1})
<1>1. /\ BytesFields(b)
      /\ b.btype # "data" => b.lbBits \in 0 .. ByteBits
  BY BytesBlocks
<1> DEFINE nb == Played(b, k)
           byte == b.data[k]
<1>2. ByteBits \in Nat /\ byte \in Byte
  BY <1>1, Capacity DEF BytesFields
<1>3. nb \in 0 .. ByteBits
  BY <1>1, <1>2 DEF Played
<1>4. BitsOf(b, k) = SubSeq(byte, 1, nb)
  BY DEF BitsOf, Played
<1> HIDE DEF nb, byte
<1>5. byte \in Seq({0, 1}) /\ Len(byte) = ByteBits
  BY <1>2 DEF Byte
<1>6. SubSeq(byte, 1, nb) \in Seq({0, 1})
  BY <1>2, <1>3, <1>5
<1> QED BY <1>2, <1>3, <1>4, <1>6 DEF nb, byte

LEMMA ByteSoundGrow ==
  ASSUME NEW wf \in Wave, NEW b \in Block, b.btype \in HasBytes, NEW k \in 1 .. Len(b.data)
  PROVE  Grown(wf, ByteSound(wf, b, k))
<1>1. b.btype \in {"data", "turbo", "pure", "drec"}
  BY DEF HasBytes
<1> DEFINE bits == BitsOf(b, k)
<1>2. bits \in Seq({0, 1}) /\ bits \in Seq(Level)
  BY BitsOfIs DEF Level
<1> HIDE DEF bits
<1>3. ASSUME NEW one \in Nat, NEW zero \in Nat
      PROVE  Grown(wf, Pulses(wf, BitPulses(bits, one, zero)))
  BY <1>2, BitPulsesIs, PulsesGrow DEF PairsOf
<1>4. CASE b.btype = "data"
  BY <1>3, <1>4, Capacity DEF ByteSound, bits
<1>5. CASE b.btype = "drec"
  BY <1>2, <1>5, BytesBlocks, SamplesGrow DEF ByteSound, bits
<1>6. CASE b.btype \in {"turbo", "pure"}
  BY <1>3, <1>6, BytesBlocks DEF ByteSound, bits
<1> QED BY <1>1, <1>4, <1>5, <1>6

LEMMA BytesIs ==
  ASSUME NEW wf \in Wave, NEW b \in Block, b.btype \in HasBytes
  PROVE  LET n == Len(b.data)
             s == Bytes(wf, b)
         IN  /\ s[0] = Lead(wf, b)
             /\ \A k \in 1 .. n : s[k] = ByteSound(s[k - 1], b, k)
             /\ \A k \in 0 .. n : s[k] \in Wave
             /\ \A k \in 0 .. n : Grown(s[k], s[n])
<1> DEFINE n == Len(b.data)
           S == 0 .. n
           Rule(u) == u = [k \in S |-> IF k = 0 THEN Lead(wf, b) ELSE ByteSound(u[k - 1], b, k)]
           s == CHOOSE u : Rule(u)
           G == [k \in S |-> [x \in Wave |-> IF k = 0 THEN x ELSE ByteSound(x, b, k)]]
<1>1. Bytes(wf, b) = s
  BY DEF Bytes
<1>2. n \in Nat
  BY BytesBlocks DEF BytesFields
<1>3. Lead(wf, b) \in Wave
  BY LeadGrow DEF Grown
<1>4. ASSUME NEW k \in 1 .. n, NEW x \in Wave PROVE Grown(x, ByteSound(x, b, k)) /\ ByteSound(x, b, k) \in Wave
  BY ByteSoundGrow DEF Grown
<1> HIDE DEF n
<1>5. From(S, 0)
  BY <1>2 DEF From
<1>6. \A k \in S : k # 0 => k \in 1 .. n /\ k - 1 \in S
  BY <1>2
<1>7. 0 \in S /\ n \in S /\ \A k \in 1 .. n : k \in S /\ k - 1 \in S /\ k # 0
  BY <1>2
<1> HIDE DEF S
<1>8. G \in [S -> [Wave -> Wave]]
  BY <1>4, <1>6
<1>9. \A k \in S : k # 0 => \A x \in Wave : G[k][x] = ByteSound(x, b, k)
  OBVIOUS
<1> HIDE DEF G
<1>10. PICK f \in [S -> Wave] : f[0] = Lead(wf, b) /\ \A k \in S : k # 0 => f[k] = G[k][f[k - 1]]
  <2> DEFINE v == Lead(wf, b)
  <2>1. v \in Wave
    BY <1>3
  <2> HIDE DEF v
  <2>2. PICK f : CountsOn(S, 0, Wave, v, G, f)
    BY <1>5, <1>8, <2>1, Counting
  <2> QED BY <2>2 DEF v, CountsOn
<1>11. Rule(f)
  BY <1>6, <1>9, <1>10
<1>12. Rule(s)
  <2> HIDE DEF Rule
  <2> QED BY <1>11
<1> HIDE DEF s
<1>13. \A k \in S : s[k] = IF k = 0 THEN Lead(wf, b) ELSE ByteSound(s[k - 1], b, k)
  <2> DEFINE r == [k \in S |-> IF k = 0 THEN Lead(wf, b) ELSE ByteSound(s[k - 1], b, k)]
  <2>1. \A k \in S : r[k] = IF k = 0 THEN Lead(wf, b) ELSE ByteSound(s[k - 1], b, k)
    OBVIOUS
  <2>2. s = r
    BY <1>12
  <2> HIDE DEF r, Rule
  <2> QED BY <2>1, <2>2
<1> HIDE DEF Rule
<1>14. s[0] = Lead(wf, b) /\ \A k \in 1 .. n : s[k] = ByteSound(s[k - 1], b, k)
  BY <1>7, <1>13
<1>15. \A k \in S : s[k] \in Wave
  <2> DEFINE T == {k \in S : s[k] \in Wave}
  <2>1. 0 \in T
    BY <1>3, <1>7, <1>14
  <2>2. \A x \in S : x # 0 /\ x - 1 \in T => x \in T
    BY <1>4, <1>6, <1>14
  <2>3. S \subseteq T
    <3> HIDE DEF T
    <3> QED BY <1>5, <2>1, <2>2, Upward
  <2> QED BY <2>3
<1>16. ASSUME NEW j \in S PROVE Grown(s[j], s[n])
  <2> DEFINE T == {k \in S : k < j \/ Grown(s[j], s[k])}
  <2>1. 0 \in T
    BY <1>2, <1>7, <1>15, GrownSame DEF S
  <2>2. ASSUME NEW x \in S, x # 0, x - 1 \in T PROVE x \in T
    <3>1. x \in 1 .. n /\ x - 1 \in S /\ x \in Nat /\ j \in Nat
      BY <1>2, <1>6, <2>2 DEF S
    <3>2. CASE x < j
      BY <3>2
    <3>3. CASE x = j
      BY <1>15, <3>3, GrownSame
    <3>4. CASE j < x
      <4>1. ~(x - 1 < j)
        BY <3>1, <3>4
      <4>2. Grown(s[j], s[x - 1])
        BY <2>2, <4>1
      <4>3. Grown(s[x - 1], s[x])
        BY <1>4, <1>14, <1>15, <3>1
      <4>4. Grown(s[j], s[x])
        BY <4>2, <4>3, GrownOn
      <4> QED BY <4>4
    <3> QED BY <3>1, <3>2, <3>3, <3>4
  <2>3. S \subseteq T
    <3> HIDE DEF T
    <3> QED BY <1>5, <2>1, <2>2, Upward
  <2>4. ~(n < j)
    BY <1>2 DEF S
  <2> QED BY <1>7, <2>3, <2>4
<1> QED BY <1>1, <1>14, <1>15, <1>16 DEF n, S

LEMMA SoundGrow ==
  ASSUME NEW wf \in Wave, NEW b \in Block
  PROVE  Grown(wf, Sound(wf, b))
<1>1. b.btype \in {"data", "turbo", "pure", "drec", "tone", "pulses", "pause", "lstart",
                   "stop", "stop48", "lend", "other"}
  BY BlockFields
<1>2. CASE b.btype \in HasBytes
  <2> DEFINE n == Len(b.data)
             s == Bytes(wf, b)
  <2>1. /\ s[0] = Lead(wf, b) /\ \A k \in 0 .. n : s[k] \in Wave
        /\ \A k \in 0 .. n : Grown(s[k], s[n])
    BY <1>2, BytesIs
  <2>2. n \in Nat /\ b.pause \in Nat
    BY <1>2, BytesBlocks DEF BytesFields
  <2>3. Sound(wf, b) = Silence(s[n], b.pause)
    BY <1>2 DEF Sound, HasBytes
  <2> HIDE DEF s, n
  <2>4. 0 \in 0 .. n /\ n \in 0 .. n
    BY <2>2
  <2>5. Grown(wf, s[0])
    BY <1>2, <2>1, LeadGrow
  <2>6. Grown(s[0], s[n]) /\ s[n] \in Wave
    BY <2>1, <2>4
  <2>7. Grown(s[n], Sound(wf, b))
    BY <2>2, <2>3, <2>6, SilenceGrow
  <2>8. Grown(wf, s[n])
    BY <2>5, <2>6, GrownOn
  <2> QED BY <2>7, <2>8, GrownOn
<1>3. CASE b.btype = "tone"
  BY <1>3, BlockFields, TimesIs, PulsesGrow DEF ToneBlock, Sound, HasBytes
<1>4. CASE b.btype = "pulses"
  BY <1>4, BlockFields, PulsesGrow DEF PulsesBlock, Sound, HasBytes
<1>5. CASE b.btype = "pause"
  BY <1>5, BlockFields, SilenceGrow DEF PauseBlock, Sound, HasBytes
<1>6. CASE b.btype \in {"stop", "stop48"}
  BY <1>6, SignalledGrow DEF Signal, Sound, HasBytes
<1>7. CASE b.btype \in {"lstart", "lend", "other"}
  BY <1>7, GrownSame DEF Sound, HasBytes
<1> QED BY <1>1, <1>2, <1>3, <1>4, <1>5, <1>6, <1>7 DEF HasBytes

(***************************************************************************)
(* Waveforms that grow one after another.                                   *)
(***************************************************************************)
GrowAlong(S, s) ==
  /\ \A j \in S : s[j] \in Wave
  /\ \A j \in S : \A k \in S : j <= k => Grown(s[j], s[k])

LEMMA Chain ==
  ASSUME NEW S, NEW a, From(S, a), NEW s, s[a] \in Wave,
         \A x \in S : x # a /\ s[x - 1] \in Wave => Grown(s[x - 1], s[x])
  PROVE  GrowAlong(S, s)
<1>1. S \in SUBSET Nat /\ a \in S /\ \A x \in S : x # a => x - 1 \in S /\ a < x
  BY DEF From
<1>2. \A j \in S : s[j] \in Wave
  <2> DEFINE T == {k \in S : s[k] \in Wave}
  <2>1. a \in T
    BY <1>1
  <2>2. ASSUME NEW x \in S, x # a, x - 1 \in T PROVE x \in T
    BY <2>2 DEF Grown
  <2>3. S \subseteq T
    <3> HIDE DEF T
    <3> QED BY <2>1, <2>2, Upward
  <2> QED BY <2>3
<1>3. ASSUME NEW j \in S, NEW k \in S, j <= k PROVE Grown(s[j], s[k])
  <2> DEFINE T == {m \in S : m < j \/ Grown(s[j], s[m])}
  <2>1. a \in T
    BY <1>1, <1>2, GrownSame
  <2>2. ASSUME NEW x \in S, x # a, x - 1 \in T PROVE x \in T
    BY <1>1, <1>2, <2>2, GrownSame, GrownOn
  <2>3. S \subseteq T
    <3> HIDE DEF T
    <3> QED BY <2>1, <2>2, Upward
  <2>4. ~(k < j)
    BY <1>1, <1>3
  <2> QED BY <2>3, <2>4
<1> QED BY <1>2, <1>3 DEF GrowAlong

(***************************************************************************)
(* The tape with its loops.                                                 *)
(***************************************************************************)
LEMMA AlongIs ==
  ASSUME NEW t \in Seq(Block), NEW i \in 1 .. Len(t), NEW wf \in Wave
  PROVE  LET s == Along(t, i, wf)
         IN  /\ s[i] = wf
             /\ \A n \in i + 1 .. Len(t) : s[n] = Sound(s[n - 1], t[n])
             /\ GrowAlong(i .. Len(t), s)
<1> DEFINE S == i .. Len(t)
           Rule(u) == u = [n \in S |-> IF n = i THEN wf ELSE Sound(u[n - 1], t[n])]
           s == CHOOSE u : Rule(u)
           G == [n \in S |-> [x \in Wave |-> Sound(x, t[n])]]
<1>1. Along(t, i, wf) = s
  BY DEF Along
<1>2. Len(t) \in Nat /\ i \in Nat /\ i <= Len(t) /\ i >= 1 /\ \A n \in S : t[n] \in Block
  BY BlocksOfTape
<1>3. ASSUME NEW n \in S, NEW x \in Wave PROVE Grown(x, Sound(x, t[n])) /\ Sound(x, t[n]) \in Wave
  BY <1>2, SoundGrow DEF Grown
<1>4. From(S, i) /\ i \in S /\ \A n \in S : n # i => n - 1 \in S
  BY <1>2 DEF From
<1>5. \A n \in i + 1 .. Len(t) : n \in S /\ n # i
  BY <1>2
<1> HIDE DEF S
<1>6. G \in [S -> [Wave -> Wave]]
  BY <1>3
<1>7. \A n \in S : \A x \in Wave : G[n][x] = Sound(x, t[n])
  OBVIOUS
<1> HIDE DEF G
<1>8. PICK f \in [S -> Wave] : f[i] = wf /\ \A n \in S : n # i => f[n] = G[n][f[n - 1]]
  <2>1. PICK f : CountsOn(S, i, Wave, wf, G, f)
    BY <1>4, <1>6, Counting
  <2> QED BY <2>1 DEF CountsOn
<1>9. Rule(f)
  BY <1>4, <1>7, <1>8
<1>10. Rule(s)
  <2> HIDE DEF Rule
  <2> QED BY <1>9
<1> HIDE DEF s
<1>11. \A n \in S : s[n] = IF n = i THEN wf ELSE Sound(s[n - 1], t[n])
  <2> DEFINE r == [n \in S |-> IF n = i THEN wf ELSE Sound(s[n - 1], t[n])]
  <2>1. \A n \in S : r[n] = IF n = i THEN wf ELSE Sound(s[n - 1], t[n])
    OBVIOUS
  <2>2. s = r
    BY <1>10
  <2> HIDE DEF r, Rule
  <2> QED BY <2>1, <2>2
<1> HIDE DEF Rule
<1>12. s[i] = wf /\ \A n \in i + 1 .. Len(t) : s[n] = Sound(s[n - 1], t[n])
  BY <1>4, <1>5, <1>11
<1>13. GrowAlong(S, s)
  BY <1>3, <1>4, <1>11, <1>12, Chain
<1> QED BY <1>1, <1>12, <1>13 DEF S

LEMMA TurnedIs ==
  ASSUME NEW t \in Seq(Block), NEW i \in 1 .. Len(t), NEW n \in i + 1 .. Len(t), NEW wf \in Wave
  PROVE  LET s == Turned(t, i, n, wf)
         IN  /\ s[0] = wf
             /\ \A k \in Nat \ {0} : s[k] = Along(t, i, s[k - 1])[n - 1]
             /\ GrowAlong(Nat, s)
<1> DEFINE Rule(u) == u = [k \in Nat |-> IF k = 0 THEN wf ELSE Along(t, i, u[k - 1])[n - 1]]
           s == CHOOSE u : Rule(u)
           G == [k \in Nat |-> [x \in Wave |-> Along(t, i, x)[n - 1]]]
<1>1. Turned(t, i, n, wf) = s
  BY DEF Turned
<1>2. i \in i .. Len(t) /\ n - 1 \in i .. Len(t) /\ i <= n - 1
  BY BlocksOfTape
<1>3. ASSUME NEW x \in Wave PROVE Grown(x, Along(t, i, x)[n - 1]) /\ Along(t, i, x)[n - 1] \in Wave
  <2> DEFINE a == Along(t, i, x)
  <2>1. a[i] = x /\ GrowAlong(i .. Len(t), a)
    BY AlongIs
  <2> HIDE DEF a
  <2>2. Grown(a[i], a[n - 1]) /\ a[n - 1] \in Wave
    BY <1>2, <2>1 DEF GrowAlong
  <2> QED BY <2>1, <2>2 DEF a
<1>4. From(Nat, 0)
  BY DEF From
<1>6. G \in [Nat -> [Wave -> Wave]]
  BY <1>3
<1>7. \A k \in Nat : \A x \in Wave : G[k][x] = Along(t, i, x)[n - 1]
  OBVIOUS
<1> HIDE DEF G
<1>8. PICK f \in [Nat -> Wave] : f[0] = wf /\ \A k \in Nat : k # 0 => f[k] = G[k][f[k - 1]]
  <2>1. PICK f : CountsOn(Nat, 0, Wave, wf, G, f)
    BY <1>4, <1>6, Counting
  <2> QED BY <2>1 DEF CountsOn
<1>9. Rule(f)
  <2>1. \A k \in Nat : f[k] = IF k = 0 THEN wf ELSE Along(t, i, f[k - 1])[n - 1]
    BY <1>7, <1>8
  <2>2. f = [k \in Nat |-> f[k]]
    BY <1>8
  <2> QED BY <2>1, <2>2
<1>10. Rule(s)
  <2> HIDE DEF Rule
  <2> QED BY <1>9
<1> HIDE DEF s
<1>11. \A k \in Nat : s[k] = IF k = 0 THEN wf ELSE Along(t, i, s[k - 1])[n - 1]
  <2> DEFINE r == [k \in Nat |-> IF k = 0 THEN wf ELSE Along(t, i, s[k - 1])[n - 1]]
  <2>1. \A k \in Nat : r[k] = IF k = 0 THEN wf ELSE Along(t, i, s[k - 1])[n - 1]
    OBVIOUS
  <2>2. s = r
    BY <1>10
  <2> HIDE DEF r, Rule
  <2> QED BY <2>1, <2>2
<1> HIDE DEF Rule
<1>12. s[0] = wf /\ \A k \in Nat \ {0} : s[k] = Along(t, i, s[k - 1])[n - 1]
  BY <1>11
<1>13. GrowAlong(Nat, s)
  BY <1>3, <1>4, <1>11, <1>12, Chain
<1> QED BY <1>1, <1>12, <1>13

(***************************************************************************)
(* The loop start that a loop end belongs to.                               *)
(***************************************************************************)
Opens(t, b, n, i) ==
  /\ i \in b .. n - 1 /\ t[i].btype = "lstart"
  /\ \A j \in i .. n - 1 : t[j].btype # "lend"

IsStart(t, b, n, i) ==
  Opens(t, b, n, i) /\ \A j \in i + 1 .. n - 1 : t[j].btype # "lstart"

NoStart(t, b, n) == \A i \in b .. n - 1 : ~Opens(t, b, n, i)

LEMMA StartIs ==
  ASSUME NEW t, NEW b \in Nat \ {0}, NEW n \in Nat \ {0}
  PROVE  \/ IsStart(t, b, n, StartOf(t, b, n)) /\ StartOf(t, b, n) # 0
         \/ NoStart(t, b, n) /\ StartOf(t, b, n) = 0
<1> DEFINE open == {i \in b .. n - 1 : t[i].btype = "lstart"
                                         /\ \A j \in i .. n - 1 : t[j].btype # "lend"}
<1>1. \A i : i \in open <=> Opens(t, b, n, i)
  BY DEF Opens
<1>2. StartOf(t, b, n) = IF open = {} THEN 0 ELSE CHOOSE i \in open : \A j \in open : j <= i
  BY DEF StartOf
<1>3. open \in SUBSET (0 .. n - 1) /\ n - 1 \in Nat
  OBVIOUS
<1> HIDE DEF open
<1>4. CASE open = {}
  BY <1>1, <1>2, <1>4 DEF NoStart
<1>5. CASE open # {}
  <2>1. \E i \in open : \A j \in open : j <= i
    BY <1>3, <1>5, Greatest
  <2> DEFINE i == CHOOSE i \in open : \A j \in open : j <= i
  <2>2. i \in open /\ \A j \in open : j <= i
    BY <2>1
  <2>3. StartOf(t, b, n) = i
    BY <1>2, <1>5
  <2> HIDE DEF i
  <2>4. Opens(t, b, n, i)
    BY <1>1, <2>2
  <2>5. i \in Nat /\ i # 0 /\ i \in b .. n - 1 /\ \A j \in i .. n - 1 : t[j].btype # "lend"
    BY <2>4 DEF Opens
  <2>6. ASSUME NEW j \in i + 1 .. n - 1 PROVE t[j].btype # "lstart"
    BY <1>1, <2>2, <2>5 DEF Opens
  <2>7. IsStart(t, b, n, i)
    BY <2>4, <2>6 DEF IsStart
  <2> QED BY <2>3, <2>5, <2>7
<1> QED BY <1>4, <1>5

LEMMA OneStart ==
  ASSUME NEW t, NEW b \in Nat \ {0}, NEW n \in Nat \ {0}, NEW i, IsStart(t, b, n, i)
  PROVE  StartOf(t, b, n) = i
<1> DEFINE s == StartOf(t, b, n)
<1>1. IsStart(t, b, n, s) \/ NoStart(t, b, n)
  BY StartIs
<1> HIDE DEF s
<1>2. ~NoStart(t, b, n)
  BY DEF IsStart, NoStart, Opens
<1>3. s \in b .. n - 1 /\ t[s].btype = "lstart" /\ \A j \in s + 1 .. n - 1 : t[j].btype # "lstart"
  BY <1>1, <1>2 DEF IsStart, Opens
<1>4. i \in b .. n - 1 /\ t[i].btype = "lstart" /\ \A j \in i + 1 .. n - 1 : t[j].btype # "lstart"
  BY DEF IsStart, Opens
<1>5. CASE s < i
  BY <1>3, <1>4, <1>5
<1>6. CASE i < s
  BY <1>3, <1>4, <1>6
<1>7. s = i
  BY <1>3, <1>4, <1>5, <1>6
<1> QED BY <1>7 DEF s

LEMMA NoneStarts ==
  ASSUME NEW t, NEW b \in Nat \ {0}, NEW n \in Nat \ {0}, NoStart(t, b, n)
  PROVE  StartOf(t, b, n) = 0
BY StartIs DEF IsStart, NoStart, Opens

\* Past block m.
LEMMA StartMoves ==
  ASSUME NEW t, NEW b \in Nat \ {0}, NEW m \in Nat, b <= m
  PROVE  /\ t[m].btype = "lstart" => StartOf(t, b, m + 1) = m
         /\ t[m].btype = "lend" => StartOf(t, b, m + 1) = 0
         /\ t[m].btype \notin {"lstart", "lend"} => StartOf(t, b, m + 1) = StartOf(t, b, m)
<1>1. m \in b .. (m + 1) - 1 /\ m + 1 \in Nat \ {0} /\ m \in Nat \ {0} /\ (m + 1) - 1 = m
  OBVIOUS
<1>2. \A i \in b .. m - 1 : i \in b .. m /\ m \in i .. m
  OBVIOUS
<1>3. CASE t[m].btype = "lstart"
  BY <1>1, <1>3, OneStart DEF Opens, IsStart
<1>4. CASE t[m].btype = "lend"
  BY <1>1, <1>4, NoneStarts DEF Opens, NoStart
<1>5. CASE t[m].btype \notin {"lstart", "lend"}
  <2> DEFINE s == StartOf(t, b, m)
  <2>1. IsStart(t, b, m, s) \/ (NoStart(t, b, m) /\ s = 0)
    BY <1>1, StartIs
  <2> HIDE DEF s
  <2>2. CASE IsStart(t, b, m, s)
    <3>1. /\ s \in b .. m - 1 /\ t[s].btype = "lstart"
          /\ \A j \in s .. m - 1 : t[j].btype # "lend"
          /\ \A j \in s + 1 .. m - 1 : t[j].btype # "lstart"
      BY <2>2 DEF IsStart, Opens
    <3>2. s \in b .. m
      BY <3>1
    <3>3. \A j \in s .. m : t[j].btype # "lend"
      BY <1>5, <3>1
    <3>4. \A j \in s + 1 .. m : t[j].btype # "lstart"
      BY <1>5, <3>1
    <3>5. IsStart(t, b, m + 1, s)
      BY <1>1, <3>1, <3>2, <3>3, <3>4 DEF IsStart, Opens
    <3>6. StartOf(t, b, m + 1) = s
      BY <1>1, <3>5, OneStart
    <3> QED BY <1>5, <3>6 DEF s
  <2>3. CASE NoStart(t, b, m) /\ s = 0
    <3>1. ASSUME NEW i \in b .. m, Opens(t, b, m + 1, i) PROVE FALSE
      BY <1>1, <1>5, <2>3, <3>1 DEF Opens, NoStart
    <3>2. NoStart(t, b, m + 1)
      BY <1>1, <3>1 DEF NoStart
    <3>3. StartOf(t, b, m + 1) = 0
      BY <1>1, <3>2, NoneStarts
    <3> QED BY <1>5, <2>3, <3>3 DEF s
  <2> QED BY <2>1, <2>2, <2>3
<1> QED BY <1>3, <1>4, <1>5

LEMMA StartFirst ==
  ASSUME NEW t, NEW b \in Nat \ {0}
  PROVE  StartOf(t, b, b) = 0
BY NoneStarts DEF NoStart

\* The player goes back behind that start.
LEMMA StartBody ==
  ASSUME NEW t, NEW b \in Nat \ {0}, NEW n \in Nat \ {0}, NEW i, IsStart(t, b, n, i)
  PROVE  LoopBody(t, n) = i + 1
BY LoopBodyIs, OneBody DEF IsStart, Opens, IsBody

LEMMA StartFields ==
  ASSUME NEW t \in Seq(Block), NEW b \in 1 .. Len(t), NEW n \in b .. Len(t), NEW i, IsStart(t, b, n, i)
  PROVE  i \in 1 .. Len(t) /\ i \in b .. n - 1 /\ n \in i + 1 .. Len(t) /\ t[i].rep \in Nat
BY BlocksOfTape, BlockFields DEF IsStart, Opens, LoopStartBlock

LEMMA EndedGrow ==
  ASSUME NEW t \in Seq(Block), NEW b \in 1 .. Len(t), NEW n \in b .. Len(t), NEW wf \in Wave
  PROVE  Grown(wf, Ended(t, b, n, wf))
<1> DEFINE i == StartOf(t, b, n)
           d == IF t[i].rep = 0 THEN 0 ELSE t[i].rep - 1
           s == Turned(t, i, n, wf)
<1>1. Ended(t, b, n, wf) = IF i = 0 THEN wf ELSE s[d]
  BY DEF Ended
<1>2. (IsStart(t, b, n, i) /\ i # 0) \/ i = 0
  BY BlocksOfTape, StartIs
<1> HIDE DEF i
<1>3. CASE i = 0
  BY <1>1, <1>3, GrownSame
<1>4. CASE IsStart(t, b, n, i) /\ i # 0
  <2>1. i \in 1 .. Len(t) /\ n \in i + 1 .. Len(t) /\ t[i].rep \in Nat
    BY <1>4, StartFields
  <2>2. d \in Nat /\ 0 <= d
    BY <2>1
  <2>3. s[0] = wf /\ GrowAlong(Nat, s)
    BY <2>1, TurnedIs
  <2> HIDE DEF s, d
  <2>4. Grown(s[0], s[d])
    BY <2>2, <2>3 DEF GrowAlong
  <2> QED BY <1>1, <1>4, <2>3, <2>4
<1> QED BY <1>2, <1>3, <1>4

\* The waveform behind block n.
Onwards(t, b, n, wf) ==
  IF t[n].btype = "lend" THEN Ended(t, b, n, wf) ELSE Sound(wf, t[n])

LEMMA OnwardsGrow ==
  ASSUME NEW t \in Seq(Block), NEW b \in 1 .. Len(t), NEW n \in b .. Len(t), NEW wf \in Wave
  PROVE  Grown(wf, Onwards(t, b, n, wf)) /\ Onwards(t, b, n, wf) \in Wave
<1>1. t[n] \in Block
  BY BlocksOfTape
<1>2. Grown(wf, Onwards(t, b, n, wf))
  BY <1>1, EndedGrow, SoundGrow DEF Onwards
<1> QED BY <1>2 DEF Grown

Nothing == [lvl |-> 0, w |-> <<>>]

LEMMA HeardIs ==
  ASSUME NEW t \in Seq(Block), NEW b \in 1 .. Len(t)
  PROVE  LET s == Heard(t, b)
         IN  /\ s[b - 1] = Nothing
             /\ \A n \in b .. Len(t) : s[n] = Onwards(t, b, n, s[n - 1])
             /\ GrowAlong(b - 1 .. Len(t), s)
<1> DEFINE S == b - 1 .. Len(t)
           Rule(u) == u = [n \in S |-> IF n = b - 1 THEN Nothing
                                       ELSE IF t[n].btype = "lend" THEN Ended(t, b, n, u[n - 1])
                                       ELSE Sound(u[n - 1], t[n])]
           s == CHOOSE u : Rule(u)
           G == [n \in S |-> [x \in Wave |-> IF n = b - 1 THEN x ELSE Onwards(t, b, n, x)]]
           a == b - 1
<1>1. Heard(t, b) = s
  BY DEF Heard, Nothing
<1>2. Nothing \in Wave
  BY DEF Nothing, Wave, Level
<1>3. a \in Nat /\ Len(t) \in Nat /\ a + 1 = b /\ a < b /\ a <= Len(t)
  BY BlocksOfTape
<1>4. From(S, a) /\ a \in S
  BY <1>3 DEF From
<1>5. /\ \A n \in S : n # a => n - 1 \in S /\ n \in b .. Len(t)
      /\ \A n \in b .. Len(t) : n \in S /\ n # a
  BY <1>3
<1>6. ASSUME NEW n \in b .. Len(t), NEW x \in Wave
      PROVE  Grown(x, Onwards(t, b, n, x)) /\ Onwards(t, b, n, x) \in Wave
  BY OnwardsGrow
<1> HIDE DEF S
<1>7. G \in [S -> [Wave -> Wave]]
  BY <1>5, <1>6
<1>8. \A n \in S : n # a => \A x \in Wave : G[n][x] = Onwards(t, b, n, x)
  OBVIOUS
<1> HIDE DEF G
<1>9. PICK f \in [S -> Wave] : f[a] = Nothing /\ \A n \in S : n # a => f[n] = G[n][f[n - 1]]
  <2> HIDE DEF a
  <2>1. PICK f : CountsOn(S, a, Wave, Nothing, G, f)
    BY <1>2, <1>4, <1>7, Counting
  <2> QED BY <2>1 DEF CountsOn
<1>10. ASSUME NEW u
       PROVE  Rule(u) <=> u = [n \in S |-> IF n = a THEN Nothing ELSE Onwards(t, b, n, u[n - 1])]
  BY DEF Onwards
<1> HIDE DEF Rule
<1>11. Rule(f)
  <2> HIDE DEF a
  <2>1. \A n \in S : f[n] = IF n = a THEN Nothing ELSE Onwards(t, b, n, f[n - 1])
    BY <1>5, <1>8, <1>9
  <2>2. f = [n \in S |-> f[n]]
    BY <1>9
  <2>3. f = [n \in S |-> IF n = a THEN Nothing ELSE Onwards(t, b, n, f[n - 1])]
    BY <2>1, <2>2
  <2> QED BY <1>10, <2>3
<1>12. Rule(s)
  BY <1>11
<1> HIDE DEF s, a
<1>13. \A n \in S : s[n] = IF n = a THEN Nothing ELSE Onwards(t, b, n, s[n - 1])
  <2> DEFINE r == [n \in S |-> IF n = a THEN Nothing ELSE Onwards(t, b, n, s[n - 1])]
  <2>1. \A n \in S : r[n] = IF n = a THEN Nothing ELSE Onwards(t, b, n, s[n - 1])
    OBVIOUS
  <2>2. s = r
    BY <1>10, <1>12
  <2> HIDE DEF r
  <2> QED BY <2>1, <2>2
<1>14. s[a] = Nothing /\ \A n \in b .. Len(t) : s[n] = Onwards(t, b, n, s[n - 1])
  BY <1>4, <1>5, <1>13
<1>15. GrowAlong(S, s)
  BY <1>2, <1>4, <1>5, <1>6, <1>14, Chain
<1> QED BY <1>1, <1>14, <1>15 DEF S, a

(***************************************************************************)
(* What was heard when the player is behind block m: the blocks up to it,   *)
(* on the way there or in a later turn of a loop around it.                 *)
(***************************************************************************)
OnTheWay(t, b, m, loop, wf) ==
  /\ wf = Heard(t, b)[m]
  /\ IF StartOf(t, b, m + 1) = 0 THEN loop <= 1 ELSE loop = t[StartOf(t, b, m + 1)].rep

\* d turns of the loop from i to n are over.
InLoop(t, b, m, loop, wf, i, n, d) ==
  /\ n \in b .. Len(t) /\ t[n].btype = "lend" /\ IsStart(t, b, n, i)
  /\ d \in Nat \ {0} /\ d < t[i].rep /\ loop = t[i].rep - d
  /\ m \in i .. n - 1
  /\ wf = Along(t, i, Turned(t, i, n, Heard(t, b)[n - 1])[d - 1])[m]

Place(t, b, m, loop, wf) ==
  /\ m \in b - 1 .. Len(t)
  /\ OnTheWay(t, b, m, loop, wf) \/ \E i, n, d : InLoop(t, b, m, loop, wf, i, n, d)

\* The waveforms around a loop.
LoopWaves(t, b, n, i, s) ==
  /\ s[0] = Heard(t, b)[n - 1] /\ GrowAlong(Nat, s)
  /\ \A d \in Nat : Along(t, i, s[d])[n - 1] = s[d + 1] /\ Along(t, i, s[d])[i] = s[d]
  /\ t[n].btype = "lend" => Heard(t, b)[n] = s[IF t[i].rep = 0 THEN 0 ELSE t[i].rep - 1]

LEMMA LoopIs ==
  ASSUME NEW t \in Seq(Block), NEW b \in 1 .. Len(t), NEW n \in b .. Len(t), NEW i, IsStart(t, b, n, i)
  PROVE  LoopWaves(t, b, n, i, Turned(t, i, n, Heard(t, b)[n - 1]))
<1> DEFINE h == Heard(t, b)[n - 1]
           s == Turned(t, i, n, h)
           k == IF t[i].rep = 0 THEN 0 ELSE t[i].rep - 1
<1>1. n \in b .. Len(t) /\ n - 1 \in b - 1 .. Len(t) /\ b \in Nat \ {0} /\ n \in Nat \ {0}
  BY BlocksOfTape
<1>2. h \in Wave /\ Heard(t, b)[n] = Onwards(t, b, n, h)
  <2> DEFINE H == Heard(t, b)
  <2>1. GrowAlong(b - 1 .. Len(t), H) /\ \A x \in b .. Len(t) : H[x] = Onwards(t, b, x, H[x - 1])
    BY HeardIs
  <2> HIDE DEF H
  <2>2. H[n - 1] \in Wave /\ H[n] = Onwards(t, b, n, H[n - 1])
    BY <1>1, <2>1 DEF GrowAlong
  <2> QED BY <2>2 DEF H
<1>3. i \in 1 .. Len(t) /\ n \in i + 1 .. Len(t) /\ t[i].rep \in Nat /\ i \in b .. n - 1
  BY StartFields
<1> HIDE DEF h
<1>4. /\ s[0] = h /\ GrowAlong(Nat, s)
      /\ \A d \in Nat \ {0} : s[d] = Along(t, i, s[d - 1])[n - 1]
  BY <1>2, <1>3, TurnedIs
<1>5. t[n].btype = "lend" => Heard(t, b)[n] = s[k]
  BY <1>1, <1>2, <1>3, OneStart DEF Onwards, Ended
<1> HIDE DEF s, k
<1>6. ASSUME NEW d \in Nat
      PROVE  Along(t, i, s[d])[n - 1] = s[d + 1] /\ Along(t, i, s[d])[i] = s[d]
  <2>1. d + 1 \in Nat \ {0} /\ (d + 1) - 1 = d
    OBVIOUS
  <2>2. s[d] \in Wave
    BY <1>4 DEF GrowAlong
  <2>3. Along(t, i, s[d])[i] = s[d]
    BY <1>3, <2>2, AlongIs
  <2> QED BY <1>4, <2>1, <2>3
<1>7. LoopWaves(t, b, n, i, s)
  BY <1>4, <1>5, <1>6 DEF LoopWaves, h, k
<1> QED BY <1>7 DEF h, s

LEMMA InLoopIs ==
  ASSUME NEW t \in Seq(Block), NEW b \in 1 .. Len(t), NEW m, NEW loop, NEW wf, NEW i, NEW n, NEW d,
         InLoop(t, b, m, loop, wf, i, n, d)
  PROVE  /\ i \in 1 .. Len(t) /\ i \in b .. n - 1 /\ n \in i + 1 .. Len(t) /\ t[i].rep \in Nat
         /\ d - 1 \in Nat /\ wf \in Wave
         /\ Turned(t, i, n, Heard(t, b)[n - 1])[d - 1] \in Wave
         /\ Grown(wf, Turned(t, i, n, Heard(t, b)[n - 1])[d])
         /\ m = n - 1 => wf = Turned(t, i, n, Heard(t, b)[n - 1])[d]
<1> DEFINE h == Heard(t, b)[n - 1]
           s == Turned(t, i, n, h)
           a == Along(t, i, s[d - 1])
<1>1. /\ n \in b .. Len(t) /\ IsStart(t, b, n, i) /\ d \in Nat \ {0} /\ m \in i .. n - 1
      /\ wf = a[m]
  BY DEF InLoop
<1>2. i \in 1 .. Len(t) /\ n \in i + 1 .. Len(t) /\ t[i].rep \in Nat /\ i \in b .. n - 1
  BY <1>1, StartFields
<1>3. LoopWaves(t, b, n, i, s)
  BY <1>1, LoopIs
<1>4. d - 1 \in Nat /\ (d - 1) + 1 = d
  BY <1>1
<1> HIDE DEF s
<1>5. s[d - 1] \in Wave
  BY <1>3, <1>4 DEF GrowAlong, LoopWaves
<1>6. GrowAlong(i .. Len(t), a)
  BY <1>2, <1>5, AlongIs
<1>7. a[n - 1] = s[d]
  BY <1>3, <1>4 DEF LoopWaves
<1>8. m \in i .. Len(t) /\ n - 1 \in i .. Len(t) /\ m <= n - 1
  BY <1>1, <1>2, BlocksOfTape
<1> HIDE DEF a
<1>9. a[m] \in Wave /\ Grown(a[m], a[n - 1])
  BY <1>6, <1>8 DEF GrowAlong
<1> QED BY <1>1, <1>2, <1>4, <1>5, <1>7, <1>9 DEF s

LEMMA PlaceGrow ==
  ASSUME NEW t \in Seq(Block), NEW b \in 1 .. Len(t), NEW m, NEW loop, NEW wf, Place(t, b, m, loop, wf)
  PROVE  /\ wf \in Wave /\ Grown(wf, Heard(t, b)[Len(t)])
         /\ m = Len(t) => wf = Heard(t, b)[Len(t)]
<1> DEFINE H == Heard(t, b)
           z == Len(t)
<1>1. z \in Nat /\ b \in Nat /\ m \in b - 1 .. z
  BY BlocksOfTape DEF Place
<1>2. GrowAlong(b - 1 .. z, H)
  BY HeardIs
<1>3. z \in b - 1 .. z
  BY <1>1
<1>4. CASE OnTheWay(t, b, m, loop, wf)
  <2>1. wf = H[m]
    BY <1>4 DEF OnTheWay
  <2> HIDE DEF H, z
  <2>2. H[m] \in Wave /\ Grown(H[m], H[z])
    BY <1>1, <1>2, <1>3 DEF GrowAlong
  <2> QED BY <2>1, <2>2 DEF H, z
<1>5. ASSUME NEW i, NEW n, NEW d, InLoop(t, b, m, loop, wf, i, n, d)
      PROVE  wf \in Wave /\ Grown(wf, Heard(t, b)[Len(t)]) /\ m # Len(t)
  <2> DEFINE h == Heard(t, b)[n - 1]
             s == Turned(t, i, n, h)
             k == IF t[i].rep = 0 THEN 0 ELSE t[i].rep - 1
  <2>1. /\ n \in b .. Len(t) /\ IsStart(t, b, n, i) /\ d \in Nat \ {0} /\ m \in i .. n - 1
        /\ t[n].btype = "lend" /\ d < t[i].rep
    BY <1>5 DEF InLoop
  <2>2. t[i].rep \in Nat /\ wf \in Wave /\ Grown(wf, s[d]) /\ i \in b .. n - 1
    BY <1>5, InLoopIs
  <2>3. GrowAlong(Nat, s) /\ Heard(t, b)[n] = s[k]
    <3>1. LoopWaves(t, b, n, i, s)
      BY <2>1, LoopIs
    <3> HIDE DEF s
    <3> QED BY <2>1, <3>1 DEF LoopWaves
  <2>4. d <= k /\ k \in Nat
    BY <2>1, <2>2
  <2> HIDE DEF s, k
  <2>5. Grown(s[d], H[n])
    BY <2>1, <2>3, <2>4 DEF GrowAlong
  <2> HIDE DEF H, z
  <2>6. n \in b - 1 .. z /\ n <= z /\ m # z
    BY <1>1, <2>1, <2>2 DEF z
  <2>7. Grown(H[n], H[z])
    BY <1>2, <1>3, <2>6 DEF GrowAlong
  <2>8. Grown(s[d], H[z])
    BY <2>5, <2>7, GrownOn
  <2>9. Grown(wf, H[z])
    BY <2>2, <2>8, GrownOn DEF s
  <2> QED BY <2>2, <2>6, <2>9 DEF H, z
<1> QED BY <1>4, <1>5 DEF Place

LEMMA PlaceFirst ==
  ASSUME NEW t \in Seq(Block), NEW b \in 1 .. Len(t), NEW loop \in Nat, loop <= 1
  PROVE  Place(t, b, b - 1, loop, Nothing)
BY BlocksOfTape, StartFirst, HeardIs DEF Place, OnTheWay

LEMMA PlacePass ==
  ASSUME NEW t \in Seq(Block), NEW b \in 1 .. Len(t), NEW m, NEW loop, NEW wf, Place(t, b, m, loop, wf),
         m < Len(t), t[m + 1].btype # "lend", NEW l,
         l = IF t[m + 1].btype = "lstart" THEN t[m + 1].rep ELSE loop
  PROVE  Place(t, b, m + 1, l, Sound(wf, t[m + 1]))
<1> DEFINE n == m + 1
<1>1. /\ Len(t) \in Nat /\ b \in Nat \ {0} /\ m \in b - 1 .. Len(t)
      /\ n \in b .. Len(t) /\ n \in b - 1 .. Len(t) /\ n \in Nat /\ b <= n /\ n - 1 = m /\ n # 0
  BY BlocksOfTape DEF Place
<1>2. CASE OnTheWay(t, b, m, loop, wf)
  <2>1. /\ wf = Heard(t, b)[m]
        /\ IF StartOf(t, b, n) = 0 THEN loop <= 1 ELSE loop = t[StartOf(t, b, n)].rep
    BY <1>2 DEF OnTheWay
  <2> HIDE DEF n
  <2>2. Heard(t, b)[n] = Onwards(t, b, n, Heard(t, b)[m])
    BY <1>1, HeardIs
  <2>3. Heard(t, b)[n] = Sound(wf, t[n])
    BY <2>1, <2>2 DEF Onwards, n
  <2>4. /\ t[n].btype = "lstart" => StartOf(t, b, n + 1) = n
        /\ t[n].btype \notin {"lstart", "lend"} => StartOf(t, b, n + 1) = StartOf(t, b, n)
    BY <1>1, StartMoves
  <2>5. IF StartOf(t, b, n + 1) = 0 THEN l <= 1 ELSE l = t[StartOf(t, b, n + 1)].rep
    BY <1>1, <2>1, <2>4 DEF n
  <2>6. Place(t, b, n, l, Sound(wf, t[n]))
    BY <1>1, <2>3, <2>5 DEF Place, OnTheWay
  <2> QED BY <2>6 DEF n
<1>3. ASSUME NEW i, NEW e, NEW d, InLoop(t, b, m, loop, wf, i, e, d)
      PROVE  Place(t, b, m + 1, l, Sound(wf, t[m + 1]))
  <2> DEFINE v == Turned(t, i, e, Heard(t, b)[e - 1])[d - 1]
             a == Along(t, i, v)
  <2>1. /\ i \in 1 .. Len(t) /\ i \in b .. e - 1 /\ e \in i + 1 .. Len(t)
        /\ v \in Wave
    BY <1>3, InLoopIs
  <2>2. /\ e \in b .. Len(t) /\ t[e].btype = "lend" /\ IsStart(t, b, e, i)
        /\ d \in Nat \ {0} /\ d < t[i].rep /\ loop = t[i].rep - d
        /\ m \in i .. e - 1 /\ wf = a[m]
    BY <1>3 DEF InLoop
  <2>3. \A x \in i + 1 .. Len(t) : a[x] = Sound(a[x - 1], t[x])
    <3> HIDE DEF v
    <3> QED BY <2>1, AlongIs
  <2>4. n # e
    BY <2>2
  <2>5. n \in i + 1 .. Len(t) /\ n \in i .. e - 1 /\ n \in i + 1 .. e - 1
    <3> HIDE DEF n
    <3>1. e \in Nat /\ i \in Nat /\ m \in Nat /\ m <= e - 1 /\ i <= m
      BY <1>1, <2>1, <2>2
    <3>2. n = m + 1
      BY DEF n
    <3> QED BY <1>1, <2>4, <3>1, <3>2
  <2>6. t[n].btype # "lstart"
    BY <2>2, <2>5 DEF IsStart
  <2>7. l = loop
    BY <2>6
  <2> HIDE DEF n
  <2>8. a[n] = Sound(wf, t[n])
    BY <1>1, <2>2, <2>3, <2>5
  <2>9. InLoop(t, b, n, l, Sound(wf, t[n]), i, e, d)
    BY <2>2, <2>5, <2>7, <2>8 DEF InLoop
  <2>10. Place(t, b, n, l, Sound(wf, t[n]))
    BY <1>1, <2>9 DEF Place
  <2> QED BY <2>10 DEF n
<1> QED BY <1>2, <1>3 DEF Place

\* The loop end behind block m.
LEMMA PlaceEnds ==
  ASSUME NEW t \in Seq(Block), NEW b \in 1 .. Len(t), NEW m, NEW loop \in Nat, NEW wf,
         Place(t, b, m, loop, wf), m < Len(t), t[m + 1].btype = "lend"
  PROVE  /\ loop > 1 => Place(t, b, LoopBody(t, m + 1) - 1, loop - 1, wf)
         /\ ~(loop > 1) => Place(t, b, m + 1, 0, wf)
<1> DEFINE n == m + 1
           h == Heard(t, b)[m]
           s(i) == Turned(t, i, n, h)
           k(i) == IF t[i].rep = 0 THEN 0 ELSE t[i].rep - 1
<1>1. /\ Len(t) \in Nat /\ b \in Nat \ {0} /\ m \in b - 1 .. Len(t)
      /\ n \in b .. Len(t) /\ n \in b - 1 .. Len(t) /\ n \in Nat \ {0} /\ b <= n /\ n - 1 = m
  BY BlocksOfTape DEF Place
<1>2. t[n].btype = "lend"
  OBVIOUS
<1> HIDE DEF n
<1>3. ASSUME NEW i, IsStart(t, b, n, i)
      PROVE  /\ i \in b .. m /\ i \in 1 .. Len(t) /\ t[i].rep \in Nat /\ LoopBody(t, n) - 1 = i
             /\ s(i)[0] = h /\ Heard(t, b)[n] = s(i)[k(i)]
             /\ \A d \in Nat : Along(t, i, s(i)[d])[m] = s(i)[d + 1] /\ Along(t, i, s(i)[d])[i] = s(i)[d]
  <2>1. i \in b .. n - 1 /\ i \in 1 .. Len(t) /\ t[i].rep \in Nat
    BY <1>1, <1>3, StartFields
  <2>2. LoopBody(t, n) = i + 1
    BY <1>1, <1>3, StartBody
  <2>3. LoopWaves(t, b, n, i, s(i))
    BY <1>1, <1>3, LoopIs
  <2>4. LoopBody(t, n) - 1 = i
    BY <2>1, <2>2
  <2> HIDE DEF s
  <2> QED BY <1>1, <1>2, <2>1, <2>3, <2>4 DEF LoopWaves
<1>4. ASSUME NEW i, NEW d \in Nat, IsStart(t, b, n, i), loop = t[i].rep - d, loop > 1, wf = s(i)[d]
      PROVE  Place(t, b, LoopBody(t, n) - 1, loop - 1, wf)
  <2>1. /\ i \in b .. m /\ t[i].rep \in Nat /\ LoopBody(t, n) - 1 = i
        /\ Along(t, i, s(i)[d])[i] = s(i)[d]
    BY <1>3, <1>4
  <2>2. /\ d + 1 \in Nat \ {0} /\ d + 1 < t[i].rep /\ loop - 1 = t[i].rep - (d + 1) /\ (d + 1) - 1 = d
    <3> DEFINE r == t[i].rep
    <3>1. r \in Nat /\ loop = r - d
      BY <1>4, <2>1
    <3> HIDE DEF r
    <3>2. d + 1 < r /\ loop - 1 = r - (d + 1)
      BY <1>4, <3>1
    <3> QED BY <3>2 DEF r
  <2>3. i \in i .. n - 1 /\ i \in b - 1 .. Len(t)
    BY <1>1, <2>1
  <2> HIDE DEF h
  <2>4. InLoop(t, b, i, loop - 1, wf, i, n, d + 1)
    BY <1>1, <1>2, <1>4, <2>1, <2>2, <2>3 DEF InLoop, h
  <2> QED BY <2>1, <2>3, <2>4 DEF Place
<1>5. ASSUME wf = Heard(t, b)[n]
      PROVE  Place(t, b, n, 0, wf)
  BY <1>1, <1>2, <1>5, StartMoves DEF Place, OnTheWay
<1>6. ASSUME NEW i, NEW d \in Nat, IsStart(t, b, n, i), d = 0 \/ d < t[i].rep, loop = t[i].rep - d, ~(loop > 1), wf = s(i)[d]
      PROVE  Place(t, b, n, 0, wf)
  <2>1. t[i].rep \in Nat /\ Heard(t, b)[n] = s(i)[k(i)]
    BY <1>3, <1>6
  <2>2. k(i) = d
    BY <1>6, <2>1
  <2> QED BY <1>5, <1>6, <2>1, <2>2
<1>7. CASE OnTheWay(t, b, m, loop, wf)
  <2> DEFINE i == StartOf(t, b, n)
  <2>1. wf = h /\ IF i = 0 THEN loop <= 1 ELSE loop = t[i].rep
    BY <1>7 DEF OnTheWay, n
  <2>2. (IsStart(t, b, n, i) /\ i # 0) \/ i = 0
    BY <1>1, StartIs
  <2>3. i = 0 => Heard(t, b)[n] = wf
    BY <1>1, <1>2, <2>1, HeardIs DEF Onwards, Ended
  <2> HIDE DEF i
  <2>4. CASE i = 0
    BY <1>5, <2>1, <2>3, <2>4 DEF n
  <2>5. CASE IsStart(t, b, n, i) /\ i # 0
    <3>1. wf = s(i)[0] /\ t[i].rep \in Nat
      BY <1>3, <2>1, <2>5
    <3>2. loop = t[i].rep - 0 /\ 0 \in Nat
      BY <2>1, <2>5, <3>1
    <3> HIDE DEF s
    <3>3. loop > 1 => Place(t, b, LoopBody(t, n) - 1, loop - 1, wf)
      BY <1>4, <2>5, <3>1, <3>2
    <3>4. ~(loop > 1) => Place(t, b, n, 0, wf)
      BY <1>6, <2>5, <3>1, <3>2
    <3> QED BY <3>3, <3>4 DEF n
  <2> QED BY <2>2, <2>4, <2>5
<1>8. ASSUME NEW i, NEW e, NEW d, InLoop(t, b, m, loop, wf, i, e, d)
      PROVE  /\ loop > 1 => Place(t, b, LoopBody(t, m + 1) - 1, loop - 1, wf)
             /\ ~(loop > 1) => Place(t, b, m + 1, 0, wf)
  <2>1. /\ e \in b .. Len(t) /\ t[e].btype = "lend" /\ IsStart(t, b, e, i)
        /\ d \in Nat \ {0} /\ d < t[i].rep /\ loop = t[i].rep - d /\ m \in i .. e - 1
    BY <1>8 DEF InLoop
  <2>2. i \in b .. e - 1 /\ m = e - 1 => wf = Turned(t, i, e, Heard(t, b)[e - 1])[d]
    BY <1>8, InLoopIs
  <2>3. e = n
    <3>1. i \in Nat /\ e \in Nat /\ m \in Nat
      BY <1>1, <1>8, <2>1, InLoopIs
    <3>2. \A x \in i .. e - 1 : t[x].btype # "lend"
      BY <2>1 DEF IsStart, Opens
    <3>3. n \notin i .. e - 1
      BY <1>2, <3>2
    <3>4. n = m + 1
      BY DEF n
    <3> QED BY <1>1, <2>1, <3>1, <3>3, <3>4
  <2>4. wf = s(i)[d] /\ IsStart(t, b, n, i)
    BY <1>1, <1>8, <2>1, <2>2, <2>3, InLoopIs
  <2> HIDE DEF s
  <2>5. loop > 1 => Place(t, b, LoopBody(t, n) - 1, loop - 1, wf)
    BY <1>4, <2>1, <2>4
  <2>6. ~(loop > 1) => Place(t, b, n, 0, wf)
    BY <1>6, <2>1, <2>4
  <2> QED BY <2>5, <2>6 DEF n
<1> QED BY <1>7, <1>8 DEF Place

(***************************************************************************)
(* A block that is programmed piece by piece.                               *)
(***************************************************************************)
LEMMA SameSeq ==
  ASSUME NEW S, NEW s, NEW r, s \in Seq(S), r \in Seq(S), Len(s) = Len(r), \A i \in 1 .. Len(s) : s[i] = r[i]
  PROVE  s = r
OBVIOUS

LEMMA PulsesNone == ASSUME NEW wf \in Wave PROVE Pulses(wf, <<>>) = wf
<1> DEFINE v == Pulses(wf, <<>>)
           e == Edges(wf.lvl, <<>>)
           l == LevelAfter(wf.lvl, 0)
<1>1. <<>> \in Seq(Nat) /\ Len(<<>>) = 0
  OBVIOUS
<1>2. Continued(wf, v, e, l) /\ e \in Seq(Event) /\ Len(e) = 0
  BY <1>1, PulsesIs
<1>3. l = wf.lvl
  BY DEF LevelAfter
<1> HIDE DEF v, e, l
<1>4. /\ v \in Wave /\ v.lvl = wf.lvl /\ Len(v.w) = Len(wf.w) + 0
      /\ \A i \in 1 .. Len(wf.w) : v.w[i] = wf.w[i]
  BY <1>2, <1>3 DEF Continued
<1>5. Len(v.w) = Len(wf.w)
  BY <1>4, WaveFields
<1>6. v = wf
  BY <1>4, <1>5, SameWave
<1> QED BY <1>6 DEF v

LEMMA PulsesJoin ==
  ASSUME NEW wf \in Wave, NEW a \in Seq(Nat), NEW x \in Nat
  PROVE  Pulses(Pulses(wf, a), <<x>>) = Pulses(wf, Append(a, x))
<1> DEFINE c == Append(a, x)
           n == Len(a)
           u == Pulses(wf, a)
           v == Pulses(u, <<x>>)
           z == Pulses(wf, c)
           e == Edges(wf.lvl, a)
           f == Edges(u.lvl, <<x>>)
           g == Edges(wf.lvl, c)
           l == wf.lvl
<1>1. c \in Seq(Nat) /\ n \in Nat /\ Len(c) = n + 1 /\ c[n + 1] = x /\ \A i \in 1 .. n : c[i] = a[i]
  OBVIOUS
<1>2. <<x>> \in Seq(Nat) /\ Len(<<x>>) = 1 /\ <<x>>[1] = x
  OBVIOUS
<1>3. /\ Continued(wf, u, e, LevelAfter(l, n)) /\ e \in Seq(Event) /\ Len(e) = n
      /\ \A i \in 1 .. n : e[i] = EventOf(LevelAfter(l, i - 1), a[i])
  BY PulsesIs
<1>4. u \in Wave /\ u.lvl = LevelAfter(l, n)
  BY <1>3 DEF Continued
<1>5. /\ Continued(u, v, f, LevelAfter(u.lvl, 1)) /\ f \in Seq(Event) /\ Len(f) = 1
      /\ f[1] = EventOf(LevelAfter(u.lvl, 0), x)
  <2> HIDE DEF u
  <2>1. /\ Continued(u, v, f, LevelAfter(u.lvl, Len(<<x>>))) /\ f \in Seq(Event) /\ Len(f) = Len(<<x>>)
        /\ \A i \in 1 .. Len(<<x>>) : f[i] = EventOf(LevelAfter(u.lvl, i - 1), <<x>>[i])
    BY <1>2, <1>4, PulsesIs
  <2> HIDE DEF v, f
  <2>2. 1 \in 1 .. 1 /\ 1 - 1 = 0
    OBVIOUS
  <2> QED BY <1>2, <2>1, <2>2
<1> HIDE DEF c
<1>6. /\ Continued(wf, z, g, LevelAfter(l, n + 1)) /\ g \in Seq(Event) /\ Len(g) = n + 1
      /\ \A i \in 1 .. n + 1 : g[i] = EventOf(LevelAfter(l, i - 1), c[i])
  BY <1>1, PulsesIs
<1>7. LevelAfter(LevelAfter(l, n), 1) = LevelAfter(l, n + 1) /\ LevelAfter(LevelAfter(l, n), 0) = LevelAfter(l, n)
  <2>1. l \in {0, 1}
    BY WaveFields DEF Level
  <2> HIDE DEF l, n
  <2>2. n % 2 = 0 <=> (n + 1) % 2 # 0
    <3>1. n \in Nat
      BY <1>1
    <3> QED BY <3>1
  <2>3. 1 % 2 # 0 /\ 0 % 2 = 0
    OBVIOUS
  <2> QED BY <2>1, <2>2, <2>3 DEF LevelAfter
<1> DEFINE m == Len(wf.w)
<1> HIDE DEF u, v, z, e, f, g, l, n
<1>8. /\ u \in Wave /\ Len(u.w) = m + n /\ m \in Nat
      /\ \A i \in 1 .. m : u.w[i] = wf.w[i]
      /\ \A i \in m + 1 .. Len(u.w) : i - m \in 1 .. n /\ u.w[i] = e[i - m]
  <2> DEFINE y == LevelAfter(l, n)
  <2>1. Continued(wf, u, e, y) /\ e \in Seq(Event) /\ Len(e) = n
    BY <1>3
  <2> HIDE DEF y
  <2>2. u \in Wave /\ Len(u.w) = m + Len(e) /\ m \in Nat /\ \A i \in 1 .. m : u.w[i] = wf.w[i]
    BY <2>1, WaveFields DEF Continued
  <2>3. \A i \in m + 1 .. Len(u.w) : i - m \in 1 .. Len(e) /\ u.w[i] = e[i - m]
    BY <2>1, ContinuedIs
  <2> HIDE DEF m
  <2> QED BY <2>1, <2>2, <2>3
<1>9. /\ v \in Wave /\ v.lvl = LevelAfter(l, n + 1) /\ Len(v.w) = Len(u.w) + 1
      /\ \A i \in 1 .. Len(u.w) : v.w[i] = u.w[i]
      /\ v.w[Len(u.w) + 1] = EventOf(LevelAfter(l, n), x)
  BY <1>4, <1>5, <1>7 DEF Continued
<1>10. /\ z \in Wave /\ z.lvl = LevelAfter(l, n + 1) /\ Len(z.w) = m + (n + 1)
       /\ \A i \in 1 .. m : z.w[i] = wf.w[i]
       /\ \A i \in m + 1 .. Len(z.w) : i - m \in 1 .. n + 1 /\ z.w[i] = g[i - m]
  <2> DEFINE y == LevelAfter(l, n + 1)
  <2>1. Continued(wf, z, g, y) /\ g \in Seq(Event) /\ Len(g) = n + 1
    BY <1>6
  <2> HIDE DEF y
  <2>2. z \in Wave /\ z.lvl = y /\ Len(z.w) = m + Len(g) /\ \A i \in 1 .. m : z.w[i] = wf.w[i]
    BY <2>1 DEF Continued
  <2>3. \A i \in m + 1 .. Len(z.w) : i - m \in 1 .. Len(g) /\ z.w[i] = g[i - m]
    BY <2>1, ContinuedIs
  <2> HIDE DEF m
  <2> QED BY <2>1, <2>2, <2>3 DEF y
<1> HIDE DEF m
<1>11. ASSUME NEW i \in 1 .. m + (n + 1) PROVE v.w[i] = z.w[i]
  <2>1. CASE i \in 1 .. m
    BY <1>1, <1>8, <1>9, <1>10, <2>1
  <2>2. CASE i \in m + 1 .. m + n
    <3>1. i \in m + 1 .. Len(u.w) /\ i \in 1 .. Len(u.w) /\ i \in m + 1 .. Len(z.w)
      BY <1>1, <1>8, <1>10, <2>2
    <3>2. v.w[i] = e[i - m] /\ i - m \in 1 .. n
      BY <1>8, <1>9, <3>1
    <3>3. z.w[i] = g[i - m] /\ i - m \in 1 .. n + 1
      BY <1>10, <3>1
    <3>4. g[i - m] = EventOf(LevelAfter(l, (i - m) - 1), a[i - m])
      BY <1>1, <1>6, <3>2, <3>3
    <3> QED BY <1>3, <3>2, <3>3, <3>4
  <2>3. CASE i = m + n + 1
    <3>0. m \in Nat /\ n \in Nat /\ Len(u.w) = m + n /\ Len(z.w) = m + (n + 1)
      BY <1>1, <1>8, <1>10
    <3>1. i = Len(u.w) + 1 /\ i \in m + 1 .. Len(z.w) /\ i - m = n + 1 /\ (n + 1) - 1 = n
      BY <2>3, <3>0
    <3>2. z.w[i] = EventOf(LevelAfter(l, n), x)
      BY <1>1, <1>6, <1>10, <3>1
    <3> QED BY <1>9, <3>1, <3>2
  <2> QED BY <1>1, <1>8, <2>1, <2>2, <2>3
<1>12. Len(v.w) = m + (n + 1) /\ Len(z.w) = m + (n + 1)
  BY <1>1, <1>8, <1>9, <1>10
<1>13. v = z
  <2>1. v \in Wave /\ z \in Wave /\ v.lvl = z.lvl /\ Len(v.w) = Len(z.w)
    BY <1>9, <1>10, <1>12
  <2>2. \A i \in 1 .. Len(v.w) : v.w[i] = z.w[i]
    BY <1>11, <1>12
  <2> QED BY <2>1, <2>2, SameWave
<1> QED BY <1>13 DEF v, z, u, c

LEMMA SaysPulse ==
  ASSUME NEW tg, NEW wf \in Wave, NEW lens \in Seq(Nat), NEW n \in Nat, n < Len(lens),
         Blank(Clear(tg), Pulses(wf, SubSeq(lens, 1, n)))
  PROVE  Says(AddTone(Clear(tg), lens[n + 1], 1), Len(Pulses(wf, SubSeq(lens, 1, n)).w),
              Pulses(wf, SubSeq(lens, 1, n + 1)))
<1> DEFINE x == lens[n + 1]
           a == SubSeq(lens, 1, n)
           c == Clear(tg)
<1>1. x \in Nat /\ a \in Seq(Nat) /\ SubSeq(lens, 1, n + 1) = Append(a, x)
  <2>1. n + 1 \in 1 .. Len(lens) /\ \A i \in 1 .. n + 1 : i \in 1 .. Len(lens)
    OBVIOUS
  <2>2. x \in Nat /\ a \in Seq(Nat) /\ Len(a) = n
    BY <2>1
  <2> DEFINE s == SubSeq(lens, 1, n + 1)
             r == Append(a, x)
  <2>3. s \in Seq(Nat) /\ Len(s) = n + 1 /\ \A i \in 1 .. n + 1 : s[i] = lens[i]
    BY <2>1
  <2>4. \A i \in 1 .. n : a[i] = lens[i]
    BY <2>1
  <2>5. r \in Seq(Nat) /\ Len(r) = n + 1 /\ \A i \in 1 .. n + 1 : r[i] = lens[i]
    <3> HIDE DEF a
    <3>1. r \in Seq(Nat) /\ Len(r) = n + 1 /\ r[n + 1] = x /\ \A i \in 1 .. n : r[i] = a[i]
      BY <2>2
    <3> HIDE DEF r
    <3>2. \A i \in 1 .. n + 1 : i = n + 1 \/ i \in 1 .. n
      OBVIOUS
    <3> QED BY <2>4, <3>1, <3>2
  <2> HIDE DEF s, r
  <2>6. s = r
    BY <2>3, <2>5, SameSeq
  <2> QED BY <2>2, <2>6 DEF s, r
<1> HIDE DEF x, a, c
<1>2. Says(AddTone(c, x, 1), Len(Pulses(wf, a).w), Pulses(Pulses(wf, a), Times(x, 1)))
  BY <1>1, SaysOneTone DEF c, a
<1>3. Times(x, 1) = <<x>>
  BY DEF Times
<1>4. Pulses(Pulses(wf, a), <<x>>) = Pulses(wf, Append(a, x))
  BY <1>1, PulsesJoin
<1>5. Says(AddTone(c, x, 1), Len(Pulses(wf, a).w), Pulses(wf, SubSeq(lens, 1, n + 1)))
  BY <1>1, <1>2, <1>3, <1>4
<1> QED BY <1>5 DEF x, a, c

Piecemeal == HasBytes \cup {"pulses"}

\* What the programs so far are.
Sofar(wf, b, idx, done) ==
  IF b.btype = "pulses" THEN Pulses(wf, SubSeq(b.lens, 1, idx))
  ELSE IF done THEN Sound(wf, b) ELSE Bytes(wf, b)[idx]

LEMMA SofarGrow ==
  ASSUME NEW wf \in Wave, NEW b \in Block, b.btype \in Piecemeal, NEW idx \in Nat, NEW done \in BOOLEAN,
         b.btype = "pulses" => idx <= Len(b.lens), b.btype \in HasBytes => idx <= Len(b.data)
  PROVE  Grown(Sofar(wf, b, idx, done), Sound(wf, b))
<1> DEFINE v == Sound(wf, b)
<1>1. Grown(v, v)
  <2>1. Grown(wf, v)
    BY SoundGrow
  <2>2. v \in Wave
    BY <2>1 DEF Grown
  <2> HIDE DEF v
  <2> QED BY <2>2, GrownSame
<1>2. CASE b.btype = "pulses"
  <2> DEFINE u == Pulses(wf, SubSeq(b.lens, 1, idx))
             n == Len(b.lens)
             P(k) == Pulses(wf, SubSeq(b.lens, 1, k))
             S == 0 .. n
             s == [k \in S |-> P(k)]
  <2>1. b.lens \in Seq(Nat)
    BY <1>2, BlockFields DEF PulsesBlock
  <2>2. v = Pulses(wf, b.lens) /\ Sofar(wf, b, idx, done) = u
    BY <1>2 DEF Sound, HasBytes, Sofar
  <2>3. n \in Nat /\ From(S, 0) /\ idx \in S /\ n \in S /\ \A x \in S : x # 0 => x - 1 \in S /\ x \in 1 .. n
    BY <1>2, <2>1 DEF From
  <2>4. \A k \in S : SubSeq(b.lens, 1, k) \in Seq(Nat)
    BY <2>1
  <2>5. ASSUME NEW x \in S, x # 0 PROVE Grown(P(x - 1), P(x))
    <3> DEFINE a == SubSeq(b.lens, 1, x - 1)
               y == b.lens[x]
    <3>1. x - 1 \in Nat /\ x - 1 < n /\ x \in 1 .. n /\ (x - 1) + 1 = x /\ x - 1 \in S
      BY <2>3, <2>5
    <3>2. y \in Nat /\ a \in Seq(Nat)
      BY <2>1, <2>4, <3>1
    <3>3. SubSeq(b.lens, 1, x) = Append(a, y)
      BY <2>1, <3>1
    <3> HIDE DEF a, y
    <3>4. Grown(wf, Pulses(wf, a))
      BY <3>2, PulsesGrow
    <3>5. Pulses(wf, a) \in Wave /\ <<y>> \in Seq(Nat)
      BY <3>2, <3>4 DEF Grown
    <3>6. Grown(Pulses(wf, a), Pulses(Pulses(wf, a), <<y>>))
      BY <3>5, PulsesGrow
    <3>7. Grown(Pulses(wf, a), Pulses(wf, Append(a, y)))
      BY <3>2, <3>6, PulsesJoin
    <3> QED BY <3>3, <3>7 DEF a
  <2>6. P(0) \in Wave
    BY <2>3, <2>4, PulsesGrow DEF From, Grown
  <2>7. \A k \in S : s[k] = P(k)
    OBVIOUS
  <2>8. P(n) = v
    <3>1. SubSeq(b.lens, 1, n) = b.lens
      BY <2>1
    <3> QED BY <2>2, <3>1
  <2> HIDE DEF P, S, s, v, n
  <2>9. GrowAlong(S, s)
    <3>1. 0 \in S
      BY <2>3 DEF From
    <3>2. s[0] \in Wave
      BY <2>6, <2>7, <3>1
    <3>3. \A x \in S : x # 0 /\ s[x - 1] \in Wave => Grown(s[x - 1], s[x])
      BY <2>3, <2>5, <2>7
    <3> QED BY <2>3, <3>2, <3>3, Chain
  <2>10. idx <= n
    BY <1>2 DEF n
  <2>11. Grown(s[idx], s[n])
    BY <2>3, <2>9, <2>10 DEF GrowAlong
  <2>12. Grown(P(idx), v)
    BY <2>3, <2>7, <2>8, <2>11
  <2> QED BY <2>2, <2>12 DEF P, v
<1>3. CASE b.btype \in HasBytes
  <2> DEFINE n == Len(b.data)
             s == Bytes(wf, b)
  <2>1. /\ \A k \in 0 .. n : s[k] \in Wave
        /\ \A k \in 0 .. n : Grown(s[k], s[n])
    BY <1>3, BytesIs
  <2>2. n \in Nat /\ b.pause \in Nat
    BY <1>3, BytesBlocks DEF BytesFields
  <2>3. v = Silence(s[n], b.pause)
    BY <1>3 DEF Sound, HasBytes
  <2>4. Sofar(wf, b, idx, done) = IF done THEN v ELSE s[idx]
    BY <1>3 DEF Sofar, HasBytes
  <2>5. idx \in 0 .. n /\ n \in 0 .. n
    BY <1>3, <2>2
  <2> HIDE DEF s, v, n
  <2>6. Grown(s[idx], s[n]) /\ s[n] \in Wave
    BY <2>1, <2>5
  <2>7. Grown(s[n], v)
    BY <2>2, <2>3, <2>6, SilenceGrow
  <2>8. Grown(s[idx], v)
    BY <2>6, <2>7, GrownOn
  <2> QED BY <1>1, <2>4, <2>8 DEF v
<1> QED BY <1>2, <1>3 DEF Piecemeal

(***************************************************************************)
(* The player: what it still says is the waveform wf from event k + 1 on.   *)
(***************************************************************************)
Voice(q, k, wf) ==
  IF q.sig = "none" THEN Says(q.tg, k, wf)
  ELSE IsEnd(q.tg) /\ \E u : Says(q.tg, k, u) /\ wf = Signalled(u, q.sig)

\* While block b is played; wf is the waveform before it.
BlockVoice(b, q, k, wf) ==
  IF b.btype \in Piecemeal
  THEN /\ q.sig = "none" /\ Says(q.tg, k, Sofar(wf, b, q.idx, q.pauseDone))
       /\ b.btype \in HasBytes /\ q.pauseDone => q.idx = Len(b.data)
  ELSE Voice(q, k, Sound(wf, b))

SinglePulse(b) == b.btype = "pulses" /\ Len(b.lens) = 1

Takes(t, q, r, k, wf) ==
  LET b == t[q.nxt]
  IN  /\ r.loop = IF b.btype = "lstart" THEN b.rep ELSE q.loop
      /\ \/ r.cur = q.nxt /\ BlockVoice(b, r, k, wf)
         \/ /\ r.cur = NoBlock /\ r.nxt = TapeNext(t, q.nxt) /\ r.sig = "none"
            /\ Says(r.tg, k, Sound(wf, b)) /\ (IsEnd(r.tg) \/ SinglePulse(b))

LEMMA TakeSays ==
  ASSUME NEW t \in Seq(Block), NEW q0, PlayerInv(t, q0), q0.cur = NoBlock, q0.nxt # NoBlock,
         q0.sig = "none", IsEnd(q0.tg), NEW k, NEW wf, Says(q0.tg, k, wf), t[q0.nxt].btype # "lend"
  PROVE  Takes(t, q0, TakeBlock(t, q0), k, wf)
<1> DEFINE q == [q0 EXCEPT !.cur = q0.nxt, !.nxt = NoBlock]
           b == t[q.cur]
           r == TakeBlock(t, q0)
<1>1. q0 \in PlayerType /\ q0.nxt \in Nat /\ q0.nxt \in 1 .. Len(t)
  BY BlocksOfTape DEF PlayerInv, At, NoBlock
<1>2. /\ q \in PlayerType /\ q.cur # NoBlock /\ q.cur = q0.nxt /\ q.nxt = NoBlock
      /\ q.sig = "none" /\ q.loop = q0.loop /\ q.tg = q0.tg /\ q.tg \in ToneGenType
      /\ q.idx \in Nat /\ q.loop \in Nat /\ IsEnd(q.tg)
  BY <1>1 DEF PlayerType, NoBlock
<1>3. r = CASE b.btype = "data"   -> DataInit(q, b)
            [] b.btype = "turbo"  -> TurboInit(q, b)
            [] b.btype = "tone"   -> ToneInit(q, b)
            [] b.btype = "pulses" -> PulsesInit(t, q, b)
            [] b.btype = "pure"   -> PureInit(q)
            [] b.btype = "drec"   -> DirectInit(q)
            [] b.btype = "pause"  -> PauseInit(q, b)
            [] b.btype = "stop"   -> StopInit(q)
            [] b.btype = "lstart" -> LoopStartInit(q, b)
            [] b.btype = "lend"   -> LoopEndInit(t, q)
            [] b.btype = "stop48" -> Stop48Init(q)
            [] b.btype = "other"  -> EndBlock(t, q)
  BY DEF TakeBlock
<1> HIDE DEF q
<1>4. b \in Block /\ b = t[q0.nxt] /\ b.btype # "lend"
  BY <1>1, <1>2, BlocksOfTape
<1> HIDE DEF b, r
<1>5. k = Len(wf.w) /\ Blank(Clear(q.tg), wf) /\ wf \in Wave /\ Says(q.tg, k, wf)
  BY <1>2, SaysEnd DEF Says, Tuned
<1>6. ASSUME r.cur = q.cur, r.loop = IF b.btype = "lstart" THEN b.rep ELSE q.loop, BlockVoice(b, r, k, wf)
      PROVE  Takes(t, q0, r, k, wf)
  BY <1>2, <1>4, <1>6 DEF Takes
<1>7. ASSUME r.cur = NoBlock, r.nxt = TapeNext(t, q.cur), r.sig = "none", r.loop = q.loop,
             b.btype # "lstart", Says(r.tg, k, Sound(wf, b)), IsEnd(r.tg) \/ SinglePulse(b)
      PROVE  Takes(t, q0, r, k, wf)
  BY <1>2, <1>4, <1>7 DEF Takes
<1>8. ASSUME r.cur = q.cur, r.loop = q.loop, r.sig = "none", b.btype \in HasBytes,
             r.idx = 0, ~r.pauseDone, Says(r.tg, k, Lead(wf, b))
      PROVE  Takes(t, q0, r, k, wf)
  BY <1>4, <1>5, <1>6, <1>8, BytesIs DEF Sofar, HasBytes, BlockVoice, Piecemeal
<1>9. ASSUME r.cur = q.cur, r.loop = IF b.btype = "lstart" THEN b.rep ELSE q.loop,
             b.btype \notin Piecemeal, Voice(r, k, Sound(wf, b))
      PROVE  Takes(t, q0, r, k, wf)
  BY <1>6, <1>9 DEF BlockVoice
<1>10. CASE b.btype = "data"
  <2> DEFINE np == IF IsHeader(b.data[1]) THEN RomPilotPulsesH ELSE RomPilotPulsesD
             tg == PilotAndSync(q.tg, RomPilotLen, np, RomSync1Len, RomSync2Len)
  <2>1. np \in Nat
    BY Capacity
  <2>2. Lead(wf, b) = Pilot(wf, RomPilotLen, np, RomSync1Len, RomSync2Len)
    BY <1>10 DEF Lead
  <2>3. r = [q EXCEPT !.tg = tg, !.idx = 0, !.pauseDone = FALSE]
    BY <1>3, <1>10 DEF DataInit
  <2> HIDE DEF np
  <2>4. Says(tg, k, Lead(wf, b))
    BY <1>5, <2>1, <2>2, SaysPilot, Capacity
  <2> HIDE DEF tg
  <2>5. r.cur = q.cur /\ r.loop = q.loop /\ r.sig = "none" /\ r.tg = tg /\ r.idx = 0 /\ ~r.pauseDone
    BY <1>2, <2>3 DEF PlayerType
  <2>6. Takes(t, q0, r, k, wf)
    BY <1>8, <1>10, <2>4, <2>5 DEF HasBytes
  <2> QED BY <2>6 DEF r
<1>11. CASE b.btype = "turbo"
  <2> DEFINE tg == PilotAndSync(q.tg, b.pilotLen, b.pilotPulses, b.sync1, b.sync2)
  <2>1. b.pilotLen \in Nat /\ b.pilotPulses \in Nat /\ b.sync1 \in Nat /\ b.sync2 \in Nat
    BY <1>4, <1>11, BlockFields DEF TurboBlock
  <2>2. Lead(wf, b) = Pilot(wf, b.pilotLen, b.pilotPulses, b.sync1, b.sync2)
    BY <1>11 DEF Lead
  <2>3. r = [q EXCEPT !.tg = tg, !.idx = 0, !.pauseDone = FALSE]
    BY <1>3, <1>11 DEF TurboInit
  <2>4. Says(tg, k, Lead(wf, b))
    BY <1>5, <2>1, <2>2, SaysPilot
  <2> HIDE DEF tg
  <2>5. r.cur = q.cur /\ r.loop = q.loop /\ r.sig = "none" /\ r.tg = tg /\ r.idx = 0 /\ ~r.pauseDone
    BY <1>2, <2>3 DEF PlayerType
  <2>6. Takes(t, q0, r, k, wf)
    BY <1>8, <1>11, <2>4, <2>5 DEF HasBytes
  <2> QED BY <2>6 DEF r
<1>12. CASE b.btype \in {"pure", "drec"}
  <2> DEFINE tg == Clear(q.tg)
  <2>1. Lead(wf, b) = wf
    BY <1>12 DEF Lead
  <2>2. r = [q EXCEPT !.tg = tg, !.idx = 0, !.pauseDone = FALSE]
    BY <1>3, <1>12 DEF PureInit, DirectInit
  <2>3. Says(tg, k, Lead(wf, b))
    BY <1>5, <2>1 DEF Blank
  <2> HIDE DEF tg
  <2>4. r.cur = q.cur /\ r.loop = q.loop /\ r.sig = "none" /\ r.tg = tg /\ r.idx = 0 /\ ~r.pauseDone
    BY <1>2, <2>2 DEF PlayerType
  <2>5. Takes(t, q0, r, k, wf)
    BY <1>8, <1>12, <2>3, <2>4 DEF HasBytes
  <2> QED BY <2>5 DEF r
<1>13. CASE b.btype = "tone"
  <2> DEFINE tg == AddTone(Clear(q.tg), b.len, b.np)
  <2>1. b.len \in Nat /\ b.np \in Nat
    BY <1>4, <1>13, BlockFields DEF ToneBlock
  <2>2. Sound(wf, b) = Pulses(wf, Times(b.len, b.np))
    BY <1>13 DEF Sound, HasBytes
  <2>3. Says(tg, k, Sound(wf, b))
    BY <1>5, <2>1, <2>2, SaysOneTone
  <2>4. r = [q EXCEPT !.tg = tg]
    BY <1>3, <1>13 DEF ToneInit
  <2> HIDE DEF tg
  <2>5. r.cur = q.cur /\ r.loop = q.loop /\ r.sig = "none" /\ r.tg = tg
    BY <1>2, <2>4 DEF PlayerType
  <2>6. Takes(t, q0, r, k, wf)
    BY <1>9, <1>13, <2>3, <2>5 DEF Piecemeal, HasBytes, Voice
  <2> QED BY <2>6 DEF r
<1>14. CASE b.btype = "pulses"
  <2> DEFINE s == [q EXCEPT !.idx = 0]
             tg == AddTone(Clear(q.tg), b.lens[1], 1)
             u == [s EXCEPT !.tg = tg, !.idx = 1]
             v == Pulses(wf, SubSeq(b.lens, 1, 1))
  <2>1. b.lens \in Seq(Nat) /\ b.lens # <<>> /\ Len(b.lens) \in Nat /\ Len(b.lens) > 0
    BY <1>4, <1>14, BlockFields DEF PulsesBlock
  <2>2. /\ s \in PlayerType /\ s.cur = q.cur /\ s.nxt = q.nxt /\ s.loop = q.loop /\ s.sig = "none"
        /\ s.idx = 0 /\ s.tg = q.tg
    BY <1>2 DEF PlayerType
  <2>3. r = PulsesNext(t, s, b)
    BY <1>3, <1>14 DEF PulsesInit
  <2> HIDE DEF s
  <2>4. r = IF 1 >= Len(b.lens) THEN EndBlock(t, u) ELSE u
    BY <1>2, <2>2, <2>3 DEF PlayerType, PulsesNext
  <2>5. Says(tg, k, v)
    <3> DEFINE w == Pulses(wf, SubSeq(b.lens, 1, 0))
    <3>1. SubSeq(b.lens, 1, 0) = <<>>
      OBVIOUS
    <3>2. w = wf
      BY <1>5, <3>1, PulsesNone
    <3>3. Blank(Clear(q.tg), w) /\ Len(w.w) = k
      BY <1>5, <3>2
    <3>4. 0 \in Nat /\ 0 < Len(b.lens) /\ 0 + 1 = 1
      BY <2>1
    <3>5. Says(AddTone(Clear(q.tg), b.lens[0 + 1], 1), Len(w.w), Pulses(wf, SubSeq(b.lens, 1, 0 + 1)))
      BY <1>5, <2>1, <3>3, <3>4, SaysPulse
    <3> QED BY <3>3, <3>4, <3>5
  <2> HIDE DEF tg
  <2>6. /\ u.cur = q.cur /\ u.nxt = q.nxt /\ u.loop = q.loop /\ u.sig = "none" /\ u.tg = tg /\ u.idx = 1
        /\ u = [s EXCEPT !.tg = tg, !.idx = 1] /\ u.pauseDone \in BOOLEAN
    BY <2>2 DEF PlayerType
  <2>7. CASE 1 >= Len(b.lens)
    <3> DEFINE n == Len(b.lens)
    <3>1. n \in Nat /\ n > 0 /\ 1 >= n
      BY <2>1, <2>7
    <3> HIDE DEF n
    <3>2. n = 1
      BY <3>1
    <3>3. Len(b.lens) = 1
      BY <3>2 DEF n
    <3>4. /\ r.cur = NoBlock /\ r.nxt = TapeNext(t, q.cur) /\ r.loop = q.loop /\ r.sig = "none"
          /\ r.tg = tg
      BY <2>2, <2>4, <2>6, <2>7 DEF EndBlock, PlayerType
    <3>5. SubSeq(b.lens, 1, 1) = b.lens
      BY <2>1, <3>3
    <3>6. Sound(wf, b) = v
      BY <1>14, <3>5 DEF Sound, HasBytes
    <3>7. Takes(t, q0, r, k, wf)
      BY <1>7, <1>14, <2>5, <3>3, <3>4, <3>6 DEF SinglePulse
    <3> QED BY <3>7 DEF r
  <2>8. CASE ~(1 >= Len(b.lens))
    <3>1. r = u
      BY <2>4, <2>8
    <3> HIDE DEF u
    <3>2. Sofar(wf, b, r.idx, r.pauseDone) = v
      BY <1>14, <2>6, <3>1 DEF Sofar
    <3>3. BlockVoice(b, r, k, wf)
      BY <1>14, <2>5, <2>6, <3>1, <3>2 DEF BlockVoice, Piecemeal, HasBytes
    <3>4. Takes(t, q0, r, k, wf)
      BY <1>6, <1>14, <2>6, <3>1, <3>3
    <3> QED BY <3>4 DEF r
  <2> QED BY <2>7, <2>8
<1>15. CASE b.btype = "pause"
  <2> DEFINE tg == ProgramPause(Clear(q.tg), b.pause)
  <2>1. b.pause \in Nat
    BY <1>4, <1>15, BlockFields DEF PauseBlock
  <2>2. Sound(wf, b) = Silence(wf, b.pause)
    BY <1>15 DEF Sound, HasBytes
  <2>3. Says(tg, k, Sound(wf, b))
    BY <1>5, <2>1, <2>2, SaysPause
  <2>4. r = [q EXCEPT !.tg = tg]
    BY <1>3, <1>15 DEF PauseInit
  <2> HIDE DEF tg
  <2>5. r.cur = q.cur /\ r.loop = q.loop /\ r.sig = "none" /\ r.tg = tg
    BY <1>2, <2>4 DEF PlayerType
  <2>6. Takes(t, q0, r, k, wf)
    BY <1>9, <1>15, <2>3, <2>5 DEF Piecemeal, HasBytes, Voice
  <2> QED BY <2>6 DEF r
<1>16. CASE b.btype \in Signals
  <2>1. r = [q EXCEPT !.sig = b.btype]
    BY <1>3, <1>16 DEF StopInit, Stop48Init, Signals
  <2>2. r.cur = q.cur /\ r.tg = q.tg /\ r.loop = q.loop /\ r.sig = b.btype /\ b.btype # "none"
    BY <1>2, <1>16, <2>1 DEF PlayerType, Signals
  <2>3. Sound(wf, b) = Signalled(wf, b.btype)
    BY <1>16 DEF Sound, HasBytes, Signals
  <2>4. Voice(r, k, Sound(wf, b))
    BY <1>2, <1>5, <2>2, <2>3 DEF Voice
  <2>5. Takes(t, q0, r, k, wf)
    BY <1>9, <1>16, <2>2, <2>4 DEF Piecemeal, HasBytes, Signals
  <2> QED BY <2>5 DEF r
<1>17. CASE b.btype = "lstart"
  BY <1>2, <1>3, <1>5, <1>9, <1>17 DEF LoopStartInit, PlayerType, Sound, HasBytes, Voice,
       Piecemeal, r
<1>18. CASE b.btype = "other"
  BY <1>2, <1>3, <1>5, <1>7, <1>18 DEF EndBlock, PlayerType, Sound, HasBytes, r
<1>19. b.btype \in {"data", "turbo", "pure", "drec", "tone", "pulses", "pause", "lstart",
                    "stop", "stop48", "other"}
  BY <1>4, BlockFields
<1> QED
  BY <1>10, <1>11, <1>12, <1>13, <1>14, <1>15, <1>16, <1>17, <1>18, <1>19 DEF Signals

LEMMA TakeEnds ==
  ASSUME NEW t \in Seq(Block), NEW q0, PlayerInv(t, q0), q0.cur = NoBlock, q0.nxt # NoBlock,
         t[q0.nxt].btype = "lend"
  PROVE  LET r == TakeBlock(t, q0)
         IN  /\ r.tg = q0.tg /\ r.sig = q0.sig
             /\ IF q0.loop > 1
                THEN r.cur = NoBlock /\ r.nxt = LoopBody(t, q0.nxt) /\ r.loop = q0.loop - 1
                ELSE r.cur = q0.nxt /\ r.loop = 0
<1> DEFINE q == [q0 EXCEPT !.cur = q0.nxt, !.nxt = NoBlock]
           r == TakeBlock(t, q0)
<1>1. q0 \in PlayerType /\ q0.nxt \in Nat
  BY BlocksOfTape DEF PlayerInv, At, NoBlock
<1>2. /\ q \in PlayerType /\ q.cur = q0.nxt /\ q.nxt = NoBlock
      /\ q.sig = q0.sig /\ q.loop = q0.loop /\ q.tg = q0.tg
  BY <1>1 DEF PlayerType, NoBlock
<1>3. r = LoopEndInit(t, q)
  BY <1>1 DEF TakeBlock, PlayerType
<1> HIDE DEF q, r
<1>4. CASE q.loop > 1
  BY <1>2, <1>3, <1>4 DEF LoopEndInit, PlayerType, r
<1>5. CASE ~(q.loop > 1)
  BY <1>2, <1>3, <1>5 DEF LoopEndInit, PlayerType, r
<1> QED BY <1>4, <1>5

Plays(t, q, r, k, wf) ==
  LET b == t[q.cur]
  IN  /\ r.loop = q.loop
      /\ \/ r.cur = q.cur /\ BlockVoice(b, r, k, wf)
         \/ r.cur = NoBlock /\ r.nxt = TapeNext(t, q.cur) /\ Voice(r, k, Sound(wf, b))

LEMMA BytesNextSays ==
  ASSUME NEW t \in Seq(Block), NEW q, PlayerInv(t, q), q.cur # NoBlock, NEW programmed,
         t[q.cur] \in Block, t[q.cur].btype \in HasBytes, NEW k, NEW wf \in Wave,
         BlockVoice(t[q.cur], q, k, wf),
         IsEnd(q.tg) /\ q.idx < Len(t[q.cur].data)
           => Says(programmed, k, ByteSound(Bytes(wf, t[q.cur])[q.idx], t[q.cur], q.idx + 1))
  PROVE  Plays(t, q, BytesNext(t, q, t[q.cur], programmed), k, wf)
<1> DEFINE b == t[q.cur]
           n == Len(b.data)
           r == BytesNext(t, q, b, programmed)
           s == Bytes(wf, b)
<1>1. /\ q \in PlayerType /\ q.idx \in Nat /\ q.tg \in ToneGenType /\ q.pauseDone \in BOOLEAN
      /\ q.idx <= n
  BY DEF PlayerInv, CurFits, Fits, PlayerType
<1>2. b \in Block /\ b.btype \in HasBytes /\ n \in Nat /\ b.pause \in Nat
  BY BytesBlocks DEF BytesFields
<1>3. q.sig = "none" /\ Says(q.tg, k, Sofar(wf, b, q.idx, q.pauseDone)) /\ (q.pauseDone => q.idx = n)
  BY <1>2 DEF BlockVoice, Piecemeal
<1>4. /\ s[0] = Lead(wf, b) /\ \A j \in 1 .. n : s[j] = ByteSound(s[j - 1], b, j)
      /\ \A j \in 0 .. n : s[j] \in Wave
  BY <1>2, BytesIs
<1>5. \A j, d : Sofar(wf, b, j, d) = IF d THEN Sound(wf, b) ELSE s[j]
  BY <1>2 DEF Sofar, HasBytes
<1>6. Sound(wf, b) = Silence(s[n], b.pause)
  BY <1>2 DEF Sound, HasBytes
<1>7. IsEnd(q.tg) /\ q.idx < n => Says(programmed, k, ByteSound(s[q.idx], b, q.idx + 1))
  OBVIOUS
<1> HIDE DEF s, r
<1>8. r = IF ~IsEnd(q.tg) THEN q
          ELSE IF q.idx < n THEN [q EXCEPT !.tg = programmed, !.idx = @ + 1]
          ELSE IF ~q.pauseDone THEN [q EXCEPT !.tg = ProgramPause(Clear(@), b.pause), !.pauseDone = TRUE]
          ELSE EndBlock(t, q)
  BY DEF BytesNext, r
<1>9. b = t[q.cur]
  OBVIOUS
<1>10. n = Len(b.data)
  OBVIOUS
<1> HIDE DEF b, n
<1>11. ASSUME r.cur = q.cur, r.loop = q.loop, r.sig = "none", Says(r.tg, k, Sofar(wf, b, r.idx, r.pauseDone)),
              r.pauseDone => r.idx = n
       PROVE  Plays(t, q, r, k, wf)
  BY <1>2, <1>9, <1>10, <1>11 DEF BlockVoice, Piecemeal, Plays
<1>12. CASE ~IsEnd(q.tg)
  BY <1>3, <1>8, <1>11, <1>12 DEF r, b
<1>13. CASE IsEnd(q.tg) /\ q.idx < n
  <2>1. r = [q EXCEPT !.tg = programmed, !.idx = @ + 1]
    BY <1>8, <1>13
  <2>2. /\ r.cur = q.cur /\ r.loop = q.loop /\ r.sig = q.sig /\ r.tg = programmed
        /\ r.idx = q.idx + 1 /\ r.pauseDone = q.pauseDone
    BY <1>1, <2>1 DEF PlayerType
  <2>3. ~q.pauseDone
    BY <1>1, <1>2, <1>3, <1>13
  <2>4. q.idx + 1 \in 1 .. n /\ (q.idx + 1) - 1 = q.idx
    BY <1>1, <1>2, <1>13
  <2>5. s[q.idx + 1] = ByteSound(s[q.idx], b, q.idx + 1)
    BY <1>4, <2>4
  <2>6. Says(programmed, k, s[q.idx + 1])
    BY <1>7, <1>13, <2>5
  <2>7. Sofar(wf, b, r.idx, r.pauseDone) = s[q.idx + 1]
    BY <1>5, <2>2, <2>3
  <2>8. Plays(t, q, r, k, wf)
    BY <1>3, <1>11, <2>2, <2>3, <2>6, <2>7
  <2> QED BY <2>8 DEF r, b
<1>14. CASE IsEnd(q.tg) /\ ~(q.idx < n) /\ ~q.pauseDone
  <2> DEFINE tg == ProgramPause(Clear(q.tg), b.pause)
  <2>1. r = [q EXCEPT !.tg = tg, !.pauseDone = TRUE]
    BY <1>8, <1>14
  <2>2. q.idx = n /\ n \in 0 .. n
    BY <1>1, <1>2, <1>14
  <2>3. Says(q.tg, k, s[n]) /\ s[n] \in Wave
    BY <1>3, <1>4, <1>5, <1>14, <2>2
  <2>4. k = Len(s[n].w) /\ Blank(Clear(q.tg), s[n])
    BY <1>14, <2>3, SaysEnd
  <2>5. Says(tg, k, Sound(wf, b))
    BY <1>2, <1>6, <2>4, SaysPause
  <2> HIDE DEF tg
  <2>6. /\ r.cur = q.cur /\ r.loop = q.loop /\ r.sig = q.sig /\ r.tg = tg
        /\ r.idx = q.idx /\ r.pauseDone = TRUE
    BY <1>1, <2>1 DEF PlayerType
  <2>7. Sofar(wf, b, r.idx, r.pauseDone) = Sound(wf, b)
    BY <1>5, <2>6
  <2>8. Plays(t, q, r, k, wf)
    BY <1>3, <1>11, <2>2, <2>5, <2>6, <2>7
  <2> QED BY <2>8 DEF r, b
<1>15. CASE IsEnd(q.tg) /\ ~(q.idx < n) /\ q.pauseDone
  BY <1>1, <1>3, <1>5, <1>8, <1>9, <1>15 DEF EndBlock, PlayerType, Plays, Voice, r, b
<1> QED BY <1>12, <1>13, <1>14, <1>15

LEMMA PulsesNextSays ==
  ASSUME NEW t \in Seq(Block), NEW q, PlayerInv(t, q), q.cur # NoBlock, t[q.cur] \in PulsesBlock,
         NEW k, NEW wf \in Wave, BlockVoice(t[q.cur], q, k, wf)
  PROVE  Plays(t, q, PulsesNext(t, q, t[q.cur]), k, wf)
<1> DEFINE b == t[q.cur]
           n == Len(b.lens)
           tg == AddTone(Clear(q.tg), b.lens[q.idx + 1], 1)
           s == [q EXCEPT !.tg = AddTone(Clear(@), b.lens[q.idx + 1], 1), !.idx = @ + 1]
           r == PulsesNext(t, q, b)
           v(j) == Pulses(wf, SubSeq(b.lens, 1, j))
<1>1. b.btype = "pulses" /\ b.lens \in Seq(Nat) /\ n \in Nat
  BY DEF PulsesBlock
<1>2. q \in PlayerType /\ q.idx \in Nat /\ q.tg \in ToneGenType /\ q.idx < n
  BY <1>1 DEF PlayerInv, CurFits, Fits, PlayerType
<1>3. /\ s.cur = q.cur /\ s.nxt = q.nxt /\ s.loop = q.loop /\ s.sig = q.sig
      /\ s.idx = q.idx + 1 /\ s.tg = tg
  BY <1>2 DEF PlayerType
<1>4. \A j, d : Sofar(wf, b, j, d) = v(j)
  BY <1>1 DEF Sofar
<1>5. q.sig = "none" /\ Says(q.tg, k, v(q.idx))
  BY <1>1, <1>4 DEF BlockVoice, Piecemeal
<1>6. Sound(wf, b) = v(n)
  <2>1. SubSeq(b.lens, 1, n) = b.lens
    BY <1>1
  <2> QED BY <1>1, <2>1 DEF Sound, HasBytes
<1>7. IsEnd(q.tg) => Says(tg, k, v(q.idx + 1))
  <2>1. SUFFICES ASSUME IsEnd(q.tg) PROVE Says(tg, k, v(q.idx + 1))
    OBVIOUS
  <2> DEFINE w == v(q.idx)
  <2>2. k = Len(w.w) /\ Blank(Clear(q.tg), w)
    <3> HIDE DEF w
    <3>1. Says(q.tg, k, w)
      BY <1>5 DEF w
    <3>2. w \in Wave
      BY <3>1 DEF Says, Tuned
    <3> QED BY <2>1, <3>1, <3>2, SaysEnd
  <2> QED BY <1>1, <1>2, <2>2, SaysPulse
<1> HIDE DEF v, tg
<1>8. r = IF ~IsEnd(q.tg) THEN q ELSE IF s.idx >= n THEN EndBlock(t, s) ELSE s
  BY DEF PulsesNext
<1>9. s \in PlayerType => EndBlock(t, s).tg = s.tg
  BY DEF EndBlock, PlayerType
<1> HIDE DEF r
<1>10. ASSUME NEW x, r = x, x.cur = q.cur, x.loop = q.loop, x.sig = "none", Says(x.tg, k, v(x.idx))
       PROVE  Plays(t, q, r, k, wf)
  BY <1>1, <1>4, <1>10 DEF BlockVoice, Piecemeal, HasBytes, Plays
<1>11. CASE ~IsEnd(q.tg)
  BY <1>5, <1>8, <1>10, <1>11 DEF r
<1>12. CASE IsEnd(q.tg) /\ s.idx >= n
  <2>1. r = EndBlock(t, s)
    BY <1>8, <1>12
  <2>2. /\ r.cur = NoBlock /\ r.nxt = TapeNext(t, q.cur) /\ r.loop = q.loop /\ r.sig = "none"
        /\ r.tg = tg
    BY <1>2, <1>3, <1>5, <2>1 DEF EndBlock, PlayerType
  <2>3. q.idx + 1 = n
    <3> HIDE DEF n, s
    <3> QED BY <1>1, <1>2, <1>3, <1>12
  <2>4. Says(r.tg, k, Sound(wf, b))
    BY <1>6, <1>7, <1>12, <2>2, <2>3
  <2>5. Plays(t, q, r, k, wf)
    BY <2>2, <2>4 DEF Plays, Voice
  <2> QED BY <2>5 DEF r
<1>13. CASE IsEnd(q.tg) /\ ~(s.idx >= n)
  <2>1. r = s
    BY <1>8, <1>13
  <2> HIDE DEF s
  <2>2. Says(s.tg, k, v(s.idx))
    BY <1>3, <1>7, <1>13
  <2>3. Plays(t, q, r, k, wf)
    BY <1>3, <1>5, <1>10, <2>1, <2>2
  <2> QED BY <2>3 DEF r
<1> QED BY <1>11, <1>12, <1>13

LEMMA PlaySays ==
  ASSUME NEW t \in Seq(Block), NEW q, PlayerInv(t, q), q.cur # NoBlock, NEW k, NEW wf \in Wave,
         BlockVoice(t[q.cur], q, k, wf)
  PROVE  Plays(t, q, PlayBlock(t, q), k, wf)
<1> DEFINE b == t[q.cur]
           nb == NumBits(q, b)
           c == Clear(q.tg)
           byte == b.data[q.idx + 1]
           u == Bytes(wf, b)[q.idx]
<1>1. /\ q \in PlayerType /\ Fits(b, q.idx)
      /\ q.cur \in 1 .. Len(t) /\ q.tg \in ToneGenType /\ q.idx \in Nat
  BY BlocksOfTape DEF PlayerInv, CurFits, At, NoBlock, PlayerType
<1>2. b \in Block /\ b = t[q.cur] /\ BlockVoice(b, q, k, wf)
  BY <1>1, BlocksOfTape
<1>3. PlayBlock(t, q) =
        CASE b.btype = "data"   -> DataNext(t, q, b)
          [] b.btype = "turbo"  -> TurboNext(t, q, b)
          [] b.btype = "pulses" -> PulsesNext(t, q, b)
          [] b.btype = "pure"   -> PureNext(t, q, b)
          [] b.btype = "drec"   -> DirectNext(t, q, b)
          [] b.btype \in {"tone", "pause", "stop", "lstart", "lend", "stop48"} ->
               EndBlock(t, q)
  BY DEF PlayBlock
<1> HIDE DEF b
<1>4. ASSUME b.btype \in HasBytes, IsEnd(q.tg), q.idx < Len(b.data)
      PROVE  /\ k = Len(u.w) /\ Blank(c, u) /\ u \in Wave /\ q.idx + 1 \in 1 .. Len(b.data)
             /\ byte \in Byte /\ Played(b, q.idx + 1) \in 0 .. ByteBits
             /\ BitsOf(b, q.idx + 1) = SubSeq(byte, 1, Played(b, q.idx + 1))
             /\ b.btype # "data" => nb = Played(b, q.idx + 1)
             /\ b.btype = "data" => ByteBits = Played(b, q.idx + 1)
  <2>1. Len(b.data) \in Nat
    BY <1>2, <1>4, BytesBlocks DEF BytesFields
  <2>2. q.idx + 1 \in 1 .. Len(b.data)
    BY <1>1, <1>4, <2>1
  <2>3. /\ byte \in Byte /\ Played(b, q.idx + 1) \in 0 .. ByteBits
        /\ BitsOf(b, q.idx + 1) = SubSeq(byte, 1, Played(b, q.idx + 1))
    BY <1>2, <1>4, <2>2, BitsOfIs
  <2>4. Says(q.tg, k, u)
    BY <1>1, <1>2, <1>4, <2>1 DEF BlockVoice, Piecemeal, Sofar, HasBytes
  <2> HIDE DEF u
  <2>5. u \in Wave
    BY <2>4 DEF Says, Tuned
  <2>6. k = Len(u.w) /\ Blank(c, u)
    BY <1>4, <2>4, <2>5, SaysEnd
  <2>7. b.btype # "data" => nb = Played(b, q.idx + 1)
    BY <1>1, <2>1 DEF NumBits, Played
  <2> QED BY <2>2, <2>3, <2>5, <2>6, <2>7 DEF Played, u
<1>5. ASSUME NEW tg, b.btype \in HasBytes,
             IsEnd(q.tg) /\ q.idx < Len(b.data) => Says(tg, k, ByteSound(u, b, q.idx + 1))
      PROVE  Plays(t, q, BytesNext(t, q, b, tg), k, wf)
  BY <1>2, <1>5, BytesNextSays
<1> HIDE DEF u, nb, byte, c
<1>10. CASE b.btype = "data"
  <2> DEFINE tg == ProgramBits(c, byte, ByteBits, RomOneLen, RomZeroLen)
             bits == BitsOf(b, q.idx + 1)
  <2>1. b.btype \in HasBytes
    BY <1>10 DEF HasBytes
  <2>2. ASSUME IsEnd(q.tg), q.idx < Len(b.data) PROVE Says(tg, k, ByteSound(u, b, q.idx + 1))
    <3>1. /\ k = Len(u.w) /\ Blank(c, u) /\ byte \in Byte /\ ByteBits \in 0 .. ByteBits
          /\ bits = SubSeq(byte, 1, ByteBits)
      BY <1>4, <1>10, <2>1, <2>2
    <3>2. Says(tg, Len(u.w), Pulses(u, BitPulses(SubSeq(byte, 1, ByteBits), RomOneLen, RomZeroLen)))
      BY <3>1, SaysBits, Capacity
    <3>3. ByteSound(u, b, q.idx + 1) = Pulses(u, BitPulses(bits, RomOneLen, RomZeroLen))
      BY <1>10 DEF ByteSound
    <3> QED BY <3>1, <3>2, <3>3
  <2>3. Plays(t, q, BytesNext(t, q, b, tg), k, wf)
    BY <1>5, <2>1, <2>2
  <2> QED BY <1>3, <1>10, <2>3 DEF DataNext, c, byte
<1>11. CASE b.btype \in {"turbo", "pure"}
  <2> DEFINE tg == ProgramBits(c, byte, nb, b.one, b.zero)
             bits == BitsOf(b, q.idx + 1)
  <2>1. b.btype \in HasBytes /\ b.one \in Nat /\ b.zero \in Nat
    BY <1>2, <1>11, BytesBlocks DEF HasBytes
  <2>2. ASSUME IsEnd(q.tg), q.idx < Len(b.data) PROVE Says(tg, k, ByteSound(u, b, q.idx + 1))
    BY <1>4, <1>11, <2>1, <2>2, SaysBits DEF ByteSound
  <2>3. Plays(t, q, BytesNext(t, q, b, tg), k, wf)
    BY <1>5, <2>1, <2>2
  <2> QED BY <1>3, <1>11, <2>3 DEF TurboNext, PureNext, c, byte, nb
<1>12. CASE b.btype = "drec"
  <2> DEFINE tg == ProgramDirectBits(c, byte, nb, b.smpDur)
             bits == BitsOf(b, q.idx + 1)
  <2>1. b.btype \in HasBytes /\ b.smpDur \in Nat
    BY <1>2, <1>12, BytesBlocks DEF HasBytes
  <2>2. ASSUME IsEnd(q.tg), q.idx < Len(b.data) PROVE Says(tg, k, ByteSound(u, b, q.idx + 1))
    BY <1>4, <1>12, <2>1, <2>2, SaysDirectBits DEF ByteSound
  <2>3. Plays(t, q, BytesNext(t, q, b, tg), k, wf)
    BY <1>5, <2>1, <2>2
  <2> QED BY <1>3, <1>12, <2>3 DEF DirectNext, c, byte, nb
<1>14. CASE b.btype = "pulses"
  BY <1>2, <1>3, <1>14, BlockFields, PulsesNextSays
<1>15. CASE b.btype \in {"tone", "pause", "stop", "lstart", "lend", "stop48"}
  <2> DEFINE r == EndBlock(t, q)
  <2>1. PlayBlock(t, q) = r
    BY <1>3, <1>15
  <2>2. /\ r.cur = NoBlock /\ r.nxt = TapeNext(t, q.cur) /\ r.loop = q.loop /\ r.sig = q.sig
        /\ r.tg = q.tg
    BY <1>1 DEF EndBlock, PlayerType
  <2>3. Voice(q, k, Sound(wf, b))
    BY <1>2, <1>15 DEF BlockVoice, Piecemeal, HasBytes
  <2> HIDE DEF r
  <2>4. Voice(r, k, Sound(wf, b))
    BY <2>2, <2>3 DEF Voice
  <2> QED BY <1>2, <2>1, <2>2, <2>4 DEF Plays
<1>16. b.btype \in {"data", "turbo", "pure", "drec", "tone", "pulses", "pause", "lstart",
                    "stop", "stop48", "lend"}
  BY <1>1, <1>2, BlockFields DEF Fits
<1> QED BY <1>10, <1>11, <1>12, <1>14, <1>15, <1>16

\* The caller is given the signal.
LEMMA SaysSignal ==
  ASSUME NEW tg, NEW k, NEW wf, Says(tg, k, wf), IsEnd(tg), NEW s \in Signal
  PROVE  LET v == Signalled(wf, s)
         IN  /\ Says(tg, k + 1, v) /\ Len(v.w) = k + 1
             /\ v.w[k + 1] = [lvl |-> tg.cur, len |-> 0, sig |-> s]
<1> DEFINE v == Signalled(wf, s)
           e == [lvl |-> wf.lvl, len |-> 0, sig |-> s]
<1>1. /\ tg \in ToneGenType /\ wf \in Wave /\ tg.tidx <= Len(tg.prog)
      /\ tg.cur = Coming(wf, k) /\ tg.plast = wf.lvl /\ (tg.pprev = 0 <=> Low(wf))
  BY DEF Says, Tuned
<1>2. k = Len(wf.w) /\ k \in Nat /\ tg.rem = 0 /\ tg.tidx = Len(tg.prog) /\ tg.tidx \in Nat
  BY <1>1, SaysEnd, WaveFields DEF IsEnd, ToneGenType
<1>3. tg.cur = wf.lvl
  BY <1>1, <1>2 DEF Coming
<1>4. /\ v \in Wave /\ v.lvl = wf.lvl /\ Len(v.w) = k + 1
      /\ \A i \in 1 .. Len(wf.w) : v.w[i] = wf.w[i]
      /\ v.w[k + 1] = e
  BY <1>1, <1>2, SignalledIs
<1>5. e \in Event /\ e.len = 0
  BY <1>1, WaveFields DEF Event
<1> HIDE DEF v
<1>6. Low(v) <=> Low(wf)
  <2> DEFINE x == <<e>>
  <2>1. x \in Seq(Event) /\ Len(x) = 1 /\ x[1] = e
    BY <1>5
  <2> HIDE DEF x, e
  <2>2. Continued(wf, v, x, v.lvl)
    BY <1>2, <1>4, <2>1 DEF Continued
  <2>3. \A i \in 1 .. Len(x) : x[i].len = 0
    BY <1>5, <2>1
  <2> DEFINE l == v.lvl
  <2> HIDE DEF l
  <2>4. Continued(wf, v, x, l)
    BY <2>2 DEF l
  <2> QED BY <1>1, <2>1, <2>3, <2>4, LowBehind
<1> HIDE DEF e
<1>7. Coming(v, k + 1) = v.lvl
  BY <1>2, <1>4 DEF Coming
<1>8. Tuned(tg, k + 1, v)
  BY <1>1, <1>2, <1>3, <1>4, <1>6, <1>7 DEF Tuned
<1>9. Straight(tg, k + 1, v)
  BY <1>2, <1>4 DEF Straight
<1> QED BY <1>3, <1>4, <1>8, <1>9 DEF Says, v, e

(***************************************************************************)
(* The player somewhere on the tape: k events were given, the rest comes.   *)
(***************************************************************************)
Songs(t, b, q, loop, k) ==
  IF q.cur = NoBlock
  THEN \E wf : Place(t, b, Passed(t, q), loop, wf) /\ Voice(q, k, wf)
  ELSE \E wf \in Wave : /\ Place(t, b, q.cur, loop, Sound(wf, t[q.cur]))
                        /\ BlockVoice(t[q.cur], q, k, wf)

\* No loop begins or ends from block b to block n.
NoLoops(t, b, n) == \A i \in b .. n : t[i].btype \notin {"lstart", "lend"}

\* The loop counter of the tape's place is l: the player's, unless that is
\* still the one that a playback before has left.
CountsLoop(t, b, q, l) == l \in Nat /\ (l = q.loop \/ NoLoops(t, b, Taken(t, q)))

\* The next block is taken when all that was programmed has been played.
Ready(q) == q.cur = NoBlock /\ q.nxt # NoBlock => IsEnd(q.tg) /\ q.sig = "none"

LEMMA SongsTake ==
  ASSUME NEW t \in Seq(Block), NEW b0 \in 1 .. Len(t), NEW q, PlayerInv(t, q), q.cur = NoBlock,
         q.nxt # NoBlock, NEW k, NEW l, CountsLoop(t, b0, q, l), Songs(t, b0, q, l, k), Ready(q),
         SinglePulse(t[q.nxt]) => q.nxt = Len(t), t[q.nxt].btype = "lend" => l = q.loop
  PROVE  LET r == TakeBlock(t, q)
         IN  /\ \E j : CountsLoop(t, b0, r, j) /\ Songs(t, b0, r, j, k) /\ (l = q.loop => j = r.loop)
             /\ Ready(r)
<1> DEFINE r == TakeBlock(t, q)
           n == q.nxt
           m == n - 1
           b == t[n]
<1>1. q \in PlayerType /\ n \in 1 .. Len(t) /\ Len(t) \in Nat /\ q.loop \in Nat /\ l \in Nat
  BY BlocksOfTape DEF PlayerInv, At, NoBlock, PlayerType, CountsLoop
<1>2. IsEnd(q.tg) /\ q.sig = "none"
  BY DEF Ready
<1>3. m + 1 = n /\ m < Len(t) /\ Passed(t, q) = m /\ b \in Block /\ n \in Nat \ {0}
  BY <1>1, BlocksOfTape DEF Passed
<1>4. PICK wf : Place(t, b0, m, l, wf) /\ Says(q.tg, k, wf)
  BY <1>2, <1>3 DEF Songs, Voice
<1>5. wf \in Wave
  BY <1>4, PlaceGrow
<1>6. PlayerInv(t, r)
  BY TakeBlockKeeps
<1>7. b = t[n]
  OBVIOUS
<1>8. b.btype # "lend" => Takes(t, q, r, k, wf)
  BY <1>2, <1>4, TakeSays
<1>9. b.btype = "lend" => /\ r.tg = q.tg /\ r.sig = q.sig
                          /\ IF q.loop > 1 THEN r.cur = NoBlock /\ r.nxt = LoopBody(t, n) /\ r.loop = q.loop - 1
                             ELSE r.cur = n /\ r.loop = 0
  BY TakeEnds
<1>10. n # NoBlock /\ n = q.nxt
  OBVIOUS
<1>0. (SinglePulse(b) => n = Len(t)) /\ (b.btype = "lend" => l = q.loop)
  OBVIOUS
<1>13. ASSUME b.btype \notin {"lstart", "lend"}, l # q.loop, Taken(t, r) = n PROVE NoLoops(t, b0, Taken(t, r))
  <2>1. NoLoops(t, b0, m)
    BY <1>3, <1>13 DEF CountsLoop, Taken
  <2>2. b0 \in Nat
    OBVIOUS
  <2>3. ASSUME NEW i \in b0 .. n PROVE i = n \/ i \in b0 .. m
    BY <1>3, <2>2
  <2> HIDE DEF n
  <2> QED BY <1>7, <1>13, <2>1, <2>3 DEF NoLoops
<1> HIDE DEF r, n, b, m
<1>11. CASE b.btype # "lend"
  <2> DEFINE j == IF b.btype = "lstart" THEN b.rep ELSE l
             w == Sound(wf, b)
  <2>1. Place(t, b0, n, j, w)
    <3>1. t[m + 1].btype # "lend" /\ j = IF t[m + 1].btype = "lstart" THEN t[m + 1].rep ELSE l
      BY <1>3, <1>7, <1>11
    <3> HIDE DEF j
    <3>2. Place(t, b0, m + 1, j, Sound(wf, t[m + 1]))
      BY <1>3, <1>4, <3>1, PlacePass
    <3> QED BY <1>3, <1>7, <3>2
  <2>2. /\ j \in Nat /\ (l = q.loop => j = r.loop) /\ (j # r.loop => l # q.loop)
        /\ j # r.loop => b.btype # "lstart"
    <3>1. r.loop = IF b.btype = "lstart" THEN b.rep ELSE q.loop
      BY <1>7, <1>8, <1>10, <1>11 DEF Takes
    <3>2. b.btype = "lstart" => b.rep \in Nat
      BY <1>3, BlockFields DEF LoopStartBlock
    <3> QED BY <1>1, <3>1, <3>2
  <2>6. ASSUME Taken(t, r) = n PROVE CountsLoop(t, b0, r, j)
    BY <1>11, <1>13, <2>2, <2>6 DEF CountsLoop
  <2> HIDE DEF j
  <2>3. CASE r.cur = n /\ BlockVoice(b, r, k, wf)
    <3>1. Songs(t, b0, r, j, k)
      BY <1>5, <1>7, <1>10, <2>1, <2>3 DEF Songs
    <3>2. Ready(r)
      BY <1>10, <2>3 DEF Ready
    <3>3. Taken(t, r) = n
      BY <1>10, <2>3 DEF Taken
    <3> QED BY <2>2, <2>6, <3>1, <3>2, <3>3 DEF r
  <2>4. CASE /\ r.cur = NoBlock /\ r.nxt = TapeNext(t, n) /\ r.sig = "none"
             /\ Says(r.tg, k, w) /\ (IsEnd(r.tg) \/ SinglePulse(b))
    <3>1. Passed(t, r) = n
      BY <1>1, <2>4 DEF Passed, TapeNext, NoBlock
    <3>2. Songs(t, b0, r, j, k)
      BY <2>1, <2>4, <3>1 DEF Songs, Voice
    <3>3. r.nxt # NoBlock => ~SinglePulse(b)
      BY <1>0, <1>1, <1>7, <2>4 DEF TapeNext
    <3>4. Ready(r)
      BY <2>4, <3>3 DEF Ready
    <3>5. Taken(t, r) = n
      BY <2>4, <3>1 DEF Taken
    <3> QED BY <2>2, <2>6, <3>2, <3>4, <3>5 DEF r
  <2>5. \/ r.cur = n /\ BlockVoice(b, r, k, wf)
        \/ /\ r.cur = NoBlock /\ r.nxt = TapeNext(t, n) /\ r.sig = "none"
           /\ Says(r.tg, k, w) /\ (IsEnd(r.tg) \/ SinglePulse(b))
    BY <1>7, <1>8, <1>10, <1>11 DEF Takes
  <2> QED BY <2>3, <2>4, <2>5
<1>12. CASE b.btype = "lend"
  <2>1. Voice(r, k, wf) /\ IsEnd(r.tg) /\ r.sig = "none"
    BY <1>2, <1>4, <1>9, <1>12 DEF Voice
  <2>2. t[m + 1].btype = "lend"
    BY <1>3, <1>7, <1>12
  <2>3. /\ q.loop > 1 => Place(t, b0, LoopBody(t, n) - 1, q.loop - 1, wf)
        /\ ~(q.loop > 1) => Place(t, b0, n, 0, wf)
    <3>0. l = q.loop
      BY <1>0, <1>12
    <3>1. /\ q.loop > 1 => Place(t, b0, LoopBody(t, m + 1) - 1, q.loop - 1, wf)
          /\ ~(q.loop > 1) => Place(t, b0, m + 1, 0, wf)
      BY <1>1, <1>3, <1>4, <2>2, <3>0, PlaceEnds
    <3> QED BY <1>3, <3>1
  <2>4. Ready(r)
    BY <2>1 DEF Ready
  <2>7. CountsLoop(t, b0, r, r.loop)
    BY <1>6 DEF CountsLoop, PlayerInv, PlayerType
  <2>5. CASE q.loop > 1
    <3>1. r.cur = NoBlock /\ r.nxt = LoopBody(t, n) /\ r.loop = q.loop - 1
      BY <1>9, <1>12, <2>5
    <3>2. LoopBody(t, n) \in 1 .. n
      BY <1>3, LoopBodyMoves
    <3>3. r.nxt # NoBlock
      BY <1>3, <3>1, <3>2 DEF NoBlock
    <3>4. Passed(t, r) = LoopBody(t, n) - 1
      BY <3>1, <3>3 DEF Passed
    <3>5. Songs(t, b0, r, r.loop, k)
      BY <2>1, <2>3, <2>5, <3>1, <3>4 DEF Songs
    <3> QED BY <2>4, <2>7, <3>5 DEF r
  <2>6. CASE ~(q.loop > 1)
    <3>1. r.cur = n /\ r.loop = 0
      BY <1>9, <1>12, <2>6
    <3>2. Sound(wf, b) = wf
      BY <1>12 DEF Sound, HasBytes
    <3>3. BlockVoice(b, r, k, wf)
      BY <1>12, <2>1, <3>2 DEF BlockVoice, Piecemeal, HasBytes
    <3>4. Songs(t, b0, r, r.loop, k)
      BY <1>5, <1>7, <1>10, <2>3, <2>6, <3>1, <3>2, <3>3 DEF Songs
    <3> QED BY <2>4, <2>7, <3>4 DEF r
  <2> QED BY <2>5, <2>6
<1> QED BY <1>11, <1>12

LEMMA SongsPlay ==
  ASSUME NEW t \in Seq(Block), NEW b0 \in 1 .. Len(t), NEW q, PlayerInv(t, q), q.cur # NoBlock,
         NEW k, NEW l, Songs(t, b0, q, l, k)
  PROVE  /\ PlayBlock(t, q).loop = q.loop /\ Songs(t, b0, PlayBlock(t, q), l, k)
         /\ Taken(t, PlayBlock(t, q)) = Taken(t, q)
<1> DEFINE r == PlayBlock(t, q)
           b == t[q.cur]
<1>1. q.cur \in 1 .. Len(t) /\ Len(t) \in Nat
  BY BlocksOfTape DEF PlayerInv, At, NoBlock
<1>2. PICK wf \in Wave : Place(t, b0, q.cur, l, Sound(wf, b)) /\ BlockVoice(b, q, k, wf)
  BY DEF Songs
<1>3. Plays(t, q, r, k, wf)
  BY <1>2, PlaySays
<1>6. r.loop = q.loop
  BY <1>3 DEF Plays
<1> HIDE DEF r
<1>4. CASE r.cur = q.cur /\ BlockVoice(b, r, k, wf)
  BY <1>2, <1>4, <1>6 DEF Songs, Taken, r
<1>5. CASE r.cur = NoBlock /\ r.nxt = TapeNext(t, q.cur) /\ Voice(r, k, Sound(wf, b))
  BY <1>1, <1>2, <1>5, <1>6 DEF Passed, TapeNext, NoBlock, Taken, Songs, r
<1> QED BY <1>3, <1>4, <1>5 DEF Plays

\* What the generator says is a part of what is heard of the tape.
LEMMA SongsSay ==
  ASSUME NEW t \in Seq(Block), NEW b0 \in 1 .. Len(t), NEW q, PlayerInv(t, q), NEW k, NEW l,
         Songs(t, b0, q, l, k), q.sig = "none"
  PROVE  \E v : /\ Says(q.tg, k, v) /\ Grown(v, Heard(t, b0)[Len(t)])
                /\ \A j : \A tg : Says(tg, j, v) => Songs(t, b0, [q EXCEPT !.tg = tg], l, j)
<1> DEFINE W == Heard(t, b0)[Len(t)]
           R(tg) == [q EXCEPT !.tg = tg]
<1>1. q \in PlayerType /\ q.idx \in Nat /\ q.pauseDone \in BOOLEAN
  BY DEF PlayerInv, PlayerType
<1>2. \A tg : /\ R(tg).cur = q.cur /\ R(tg).nxt = q.nxt /\ R(tg).loop = q.loop /\ R(tg).sig = q.sig
              /\ R(tg).idx = q.idx /\ R(tg).pauseDone = q.pauseDone /\ R(tg).tg = tg
  BY <1>1 DEF PlayerType
<1>3. \A tg : [q EXCEPT !.tg = tg] = R(tg)
  OBVIOUS
<1> HIDE DEF R, W
<1>4. CASE q.cur = NoBlock
  <2>1. PICK wf : Place(t, b0, Passed(t, q), l, wf) /\ Voice(q, k, wf)
    BY <1>4 DEF Songs
  <2>2. Says(q.tg, k, wf)
    BY <2>1 DEF Voice
  <2>3. Grown(wf, W)
    BY <2>1, PlaceGrow DEF W
  <2>4. ASSUME NEW j, NEW tg, Says(tg, j, wf) PROVE Songs(t, b0, R(tg), l, j)
    BY <1>2, <1>4, <2>1, <2>4 DEF Passed, Voice, Songs
  <2>5. \A j : \A tg : Says(tg, j, wf) => Songs(t, b0, R(tg), l, j)
    BY <2>4
  <2>6. \A j : \A tg : Says(tg, j, wf) => Songs(t, b0, [q EXCEPT !.tg = tg], l, j)
    BY <1>3, <2>5, Zenon
  <2> QED BY <2>2, <2>3, <2>6 DEF W
<1>5. CASE q.cur # NoBlock
  <2> DEFINE b == t[q.cur]
  <2>1. q.cur \in 1 .. Len(t) /\ b \in Block /\ Fits(b, q.idx)
    BY <1>5, BlocksOfTape DEF PlayerInv, At, NoBlock, CurFits
  <2>2. PICK wf \in Wave : Place(t, b0, q.cur, l, Sound(wf, b)) /\ BlockVoice(b, q, k, wf)
    BY <1>5 DEF Songs
  <2>3. b = t[q.cur]
    OBVIOUS
  <2>4. Grown(Sound(wf, b), W)
    BY <2>2, PlaceGrow DEF W
  <2> HIDE DEF b
  <2> DEFINE v == IF b.btype \in Piecemeal THEN Sofar(wf, b, q.idx, q.pauseDone) ELSE Sound(wf, b)
  <2>5. Says(q.tg, k, v)
    BY <2>2 DEF BlockVoice, Voice
  <2>6. Grown(v, W)
    <3>1. CASE b.btype \in Piecemeal
      <4>1. b.btype = "pulses" => q.idx <= Len(b.lens)
        BY <1>1, <2>1, BlockFields DEF PulsesBlock, Fits
      <4>2. b.btype \in HasBytes => q.idx <= Len(b.data)
        BY <2>1 DEF Fits
      <4>3. Grown(Sofar(wf, b, q.idx, q.pauseDone), Sound(wf, b))
        BY <1>1, <2>1, <3>1, <4>1, <4>2, SofarGrow
      <4> QED BY <2>4, <3>1, <4>3, GrownOn
    <3>2. CASE b.btype \notin Piecemeal
      BY <2>4, <3>2
    <3> QED BY <3>1, <3>2
  <2>7. ASSUME NEW j, NEW tg, Says(tg, j, v) PROVE Songs(t, b0, R(tg), l, j)
    BY <1>2, <1>5, <2>2, <2>3, <2>7 DEF BlockVoice, Voice, Songs
  <2> HIDE DEF v
  <2>8. \A j : \A tg : Says(tg, j, v) => Songs(t, b0, R(tg), l, j)
    BY <2>7
  <2>9. \A j : \A tg : Says(tg, j, v) => Songs(t, b0, [q EXCEPT !.tg = tg], l, j)
    BY <1>3, <2>8, Zenon
  <2> QED BY <2>5, <2>6, <2>9 DEF W
<1> QED BY <1>4, <1>5

LEMMA SongsSignal ==
  ASSUME NEW t \in Seq(Block), NEW b0 \in 1 .. Len(t), NEW q, PlayerInv(t, q), NEW k, NEW l,
         Songs(t, b0, q, l, k), q.sig # "none"
  PROVE  \E u : /\ Says(q.tg, k, u) /\ IsEnd(q.tg) /\ Grown(Signalled(u, q.sig), Heard(t, b0)[Len(t)])
                /\ Songs(t, b0, [q EXCEPT !.sig = "none"], l, k + 1)
<1> DEFINE W == Heard(t, b0)[Len(t)]
           r == [q EXCEPT !.sig = "none"]
<1>1. q \in PlayerType /\ q.sig \in Signal
  BY DEF PlayerInv, PlayerType
<1>2. r.cur = q.cur /\ r.nxt = q.nxt /\ r.loop = q.loop /\ r.sig = "none" /\ r.tg = q.tg
  BY <1>1 DEF PlayerType
<1> HIDE DEF r, W
<1>3. ASSUME NEW wf, Voice(q, k, wf)
      PROVE  /\ \E u : Says(q.tg, k, u) /\ IsEnd(q.tg) /\ wf = Signalled(u, q.sig)
             /\ Voice(r, k + 1, wf)
  <2>1. PICK u : Says(q.tg, k, u) /\ IsEnd(q.tg) /\ wf = Signalled(u, q.sig)
    BY <1>3 DEF Voice
  <2>2. Says(q.tg, k + 1, wf)
    BY <1>1, <2>1, SaysSignal
  <2> QED BY <1>2, <2>1, <2>2 DEF Voice
<1>4. CASE q.cur = NoBlock
  <2>1. PICK wf : Place(t, b0, Passed(t, q), l, wf) /\ Voice(q, k, wf)
    BY <1>4 DEF Songs
  <2>2. Grown(wf, W)
    BY <2>1, PlaceGrow DEF W
  <2>3. Passed(t, r) = Passed(t, q)
    BY <1>2 DEF Passed
  <2>4. Songs(t, b0, r, l, k + 1)
    BY <1>2, <1>3, <1>4, <2>1, <2>3 DEF Songs
  <2> QED BY <1>3, <2>1, <2>2, <2>4 DEF W, r
<1>5. CASE q.cur # NoBlock
  <2> DEFINE b == t[q.cur]
  <2>1. PICK wf \in Wave : Place(t, b0, q.cur, l, Sound(wf, b)) /\ BlockVoice(b, q, k, wf)
    BY <1>5 DEF Songs
  <2>2. Grown(Sound(wf, b), W)
    BY <2>1, PlaceGrow DEF W
  <2>3. b.btype \notin Piecemeal /\ Voice(q, k, Sound(wf, b))
    BY <2>1 DEF BlockVoice
  <2>4. Voice(r, k + 1, Sound(wf, b))
    BY <1>3, <2>3
  <2>5. BlockVoice(b, r, k + 1, wf)
    BY <2>3, <2>4 DEF BlockVoice
  <2>6. Songs(t, b0, r, l, k + 1)
    BY <1>2, <1>5, <2>1, <2>5 DEF Songs
  <2> QED BY <1>3, <2>2, <2>3, <2>6 DEF W, r
<1> QED BY <1>4, <1>5

LEMMA SongsBegin ==
  ASSUME NEW t \in Seq(Block), NEW b \in 1 .. Len(t), NEW q \in PlayerType, q.sig = "none",
         NEW l \in Nat, l <= 1
  PROVE  Songs(t, b, PlayerInit(q, b), l, 0)
<1> DEFINE r == PlayerInit(q, b)
           tg == TgInit(0)
<1>1. r.cur = NoBlock /\ r.nxt = b /\ r.sig = "none" /\ r.tg = tg
  BY DEF PlayerInit, PlayerType
<1>2. b \in Nat /\ b # NoBlock
  BY BlocksOfTape DEF NoBlock
<1> HIDE DEF r
<1>3. Passed(t, r) = b - 1
  BY <1>1, <1>2 DEF Passed
<1>4. Place(t, b, b - 1, l, Nothing)
  BY PlaceFirst
<1>5. Says(tg, 0, Nothing)
  <2>1. Nothing \in Wave
    BY <1>4, PlaceGrow
  <2>2. Nothing.lvl = 0 /\ Nothing.w = <<>> /\ Len(Nothing.w) = 0
    BY DEF Nothing
  <2>3. /\ tg.prog = <<>> /\ Len(tg.prog) = 0 /\ tg.tidx = 0 /\ tg.cur = 0 /\ tg.rem = 0
        /\ tg.pprev = 0 /\ tg.plast = 0
    BY DEF TgInit
  <2>4. tg \in ToneGenType
    BY TgInitType
  <2> HIDE DEF tg
  <2>5. Low(Nothing) /\ Coming(Nothing, 0) = 0
    BY <2>2 DEF Low, Coming
  <2>6. Tuned(tg, 0, Nothing)
    BY <2>1, <2>2, <2>3, <2>4, <2>5 DEF Tuned
  <2>7. Straight(tg, 0, Nothing)
    BY <2>2, <2>3 DEF Straight
  <2> QED BY <2>6, <2>7 DEF Says
<1>6. Songs(t, b, r, l, 0)
  BY <1>1, <1>3, <1>4, <1>5 DEF Songs, Voice
<1> QED BY <1>6 DEF r

(***************************************************************************)
(* What the caller was given, and what is still to come.                    *)
(***************************************************************************)
Plain == start # NoBlock /\ Fresh /\ NoneDropped(reel)

All == Heard(reel, start)[Len(reel)]

Given(o, W) ==
  /\ o \in Seq(Event) /\ W \in Wave /\ Len(o) <= Len(W.w)
  /\ \A i \in 1 .. Len(o) : o[i] = W.w[i]

SongInv ==
  Plain => /\ Given(out, All)
           /\ Songs(reel, start, p, p.loop, Len(out))
           /\ pc = "inner" => Ready(p)
           /\ pc = "ready" /\ Hungry(p) => p.cur = NoBlock /\ p.nxt = NoBlock

LEMMA GivenMore ==
  ASSUME NEW o, NEW W, Given(o, W), NEW v, Grown(v, W), NEW n, n = Len(o) + 1, n <= Len(v.w)
  PROVE  Given(Append(o, v.w[n]), W) /\ Len(Append(o, v.w[n])) = n
<1> DEFINE e == v.w[n]
           x == Append(o, e)
           w == W.w
           u == v.w
<1>1. /\ o \in Seq(Event) /\ W \in Wave /\ \A i \in 1 .. Len(o) : o[i] = w[i]
      /\ v \in Wave /\ Len(u) <= Len(w) /\ \A i \in 1 .. Len(u) : w[i] = u[i]
  BY DEF Given, Grown
<1>2. u \in Seq(Event) /\ w \in Seq(Event) /\ Len(u) \in Nat /\ Len(w) \in Nat /\ Len(o) \in Nat
  BY <1>1, WaveFields
<1> HIDE DEF u, w
<1>3. n \in 1 .. Len(u) /\ n <= Len(w) /\ n \in Nat
  BY <1>1, <1>2 DEF u
<1>4. u[n] \in Event /\ w[n] = u[n]
  BY <1>1, <1>2, <1>3
<1>5. e \in Event /\ e = w[n]
  BY <1>4 DEF u
<1> HIDE DEF e
<1>6. x \in Seq(Event) /\ Len(x) = n /\ x[n] = e /\ \A i \in 1 .. Len(o) : x[i] = o[i]
  BY <1>1, <1>5
<1> HIDE DEF x
<1>7. ASSUME NEW i \in 1 .. n PROVE x[i] = w[i]
  <2>1. i \in 1 .. Len(o) \/ i = n
    BY <1>2
  <2> QED BY <1>1, <1>5, <1>6, <2>1
<1>8. Given(x, W)
  BY <1>1, <1>3, <1>6, <1>7 DEF Given, w
<1> QED BY <1>6, <1>8 DEF x, e

LEMMA WaveBegins ==
  ASSUME NEW t \in Seq(Block), NEW b \in 1 .. Len(t), NEW q \in PlayerType, q.loop <= 1, q.sig = "none"
  PROVE  Given(<<>>, Heard(t, b)[Len(t)]) /\ Songs(t, b, PlayerInit(q, b), q.loop, Len(<<>>))
<1> DEFINE W == Heard(t, b)[Len(t)]
<1>1. W \in Wave
  <2> DEFINE H == Heard(t, b)
  <2>1. GrowAlong(b - 1 .. Len(t), H)
    BY HeardIs
  <2>2. Len(t) \in b - 1 .. Len(t)
    BY BlocksOfTape
  <2> HIDE DEF H
  <2>3. H[Len(t)] \in Wave
    BY <2>1, <2>2 DEF GrowAlong
  <2> QED BY <2>3 DEF H
<1> HIDE DEF W
<1>2. <<>> \in Seq(Event) /\ Len(<<>>) = 0 /\ Len(W.w) \in Nat
  BY <1>1, WaveFields
<1>3. Given(<<>>, W)
  BY <1>1, <1>2 DEF Given
<1>4. Songs(t, b, PlayerInit(q, b), q.loop, Len(<<>>))
  BY <1>2, SongsBegin DEF PlayerType
<1> QED BY <1>3, <1>4 DEF W

LEMMA SongInitially == LoopInit => SongInv
<1> SUFFICES ASSUME LoopInit, Plain PROVE SongInv
  BY DEF SongInv
<1>1. PlayInv /\ pc = "outer" /\ out = <<>> /\ p = PlayerInit(PlayerCreate, start)
  BY PlayInitially DEF LoopInit
<1>2. reel \in Seq(Block) /\ start \in 0 .. Len(reel)
  BY <1>1 DEF PlayInv
<1>3. start \in 1 .. Len(reel)
  BY <1>2, BlocksOfTape DEF Plain, NoBlock
<1>4. PlayerCreate \in PlayerType /\ PlayerCreate.loop <= 1 /\ PlayerCreate.sig = "none"
  BY CreateType DEF PlayerCreate
<1>6. p.loop = PlayerCreate.loop
  BY <1>1, <1>4 DEF PlayerInit, PlayerType
<1>5. Given(out, All) /\ Songs(reel, start, p, p.loop, Len(out))
  BY <1>1, <1>2, <1>3, <1>4, <1>6, WaveBegins DEF All
<1> QED BY <1>1, <1>5 DEF SongInv

LEMMA SongStep == PlayInv /\ SongInv /\ [LoopNext]_loopVars => SongInv'
<1> SUFFICES ASSUME PlayInv, SongInv, [LoopNext]_loopVars, Plain' PROVE SongInv'
  BY DEF SongInv
<1>0. /\ reel \in Seq(Block) /\ PlayerInv(reel, p) /\ p \in PlayerType /\ Len(reel) \in Nat
      /\ start \in 0 .. Len(reel)
  BY BlocksOfTape DEF PlayInv, PlayerInv
<1>a. ASSUME UNCHANGED <<reel, start, left>>
      PROVE  /\ Plain /\ All' = All /\ start \in 1 .. Len(reel) /\ reel' = reel /\ start' = start
             /\ NoneDropped(reel) /\ Given(out, All) /\ Songs(reel, start, p, p.loop, Len(out))
             /\ pc = "inner" => Ready(p)
             /\ pc = "ready" /\ Hungry(p) => p.cur = NoBlock /\ p.nxt = NoBlock
  BY <1>a, <1>0 DEF Plain, Fresh, NoneDropped, NoBlock, All, SongInv
<1>1. CASE Enter
  BY <1>a, <1>1 DEF Enter, Hungry, Ready, SongInv
<1>2. CASE Take
  <2>1. /\ pc = "inner" /\ p.cur = NoBlock /\ p.nxt # NoBlock /\ p' = TakeBlock(reel, p)
        /\ UNCHANGED <<reel, start, left, pc, out>>
    BY <1>2 DEF Take
  <2>2. /\ Given(out, All) /\ All' = All /\ Songs(reel, start, p, p.loop, Len(out)) /\ Ready(p)
        /\ start \in 1 .. Len(reel) /\ NoneDropped(reel)
    BY <1>a, <2>1
  <2>3. SinglePulse(reel[p.nxt]) => p.nxt = Len(reel)
    <3>1. p.nxt \in 1 .. Len(reel) /\ Len(reel) \in Nat
      BY <1>0, <2>1, BlocksOfTape DEF PlayInv, PlayerInv, At, NoBlock
    <3>2. p.nxt # Len(reel) => p.nxt \in 1 .. Len(reel) - 1
      BY <3>1
    <3>3. ~(1 > 1)
      OBVIOUS
    <3> QED BY <2>2, <3>2, <3>3 DEF NoneDropped, SinglePulse
  <2> DEFINE r == TakeBlock(reel, p)
  <2>5. CountsLoop(reel, start, p, p.loop)
    BY <1>0 DEF CountsLoop, PlayerType
  <2>4. Songs(reel, start, r, r.loop, Len(out)) /\ Ready(r)
    BY <1>0, <2>1, <2>2, <2>3, <2>5, SongsTake
  <2> HIDE DEF r
  <2> QED BY <2>1, <2>2, <2>4 DEF SongInv, r
<1>3. CASE PlayOn
  <2>1. /\ p.cur # NoBlock /\ p' = PlayBlock(reel, p) /\ pc' = "outer"
        /\ UNCHANGED <<reel, start, left, out>>
    BY <1>3 DEF PlayOn
  <2>2. /\ Given(out, All) /\ All' = All /\ Songs(reel, start, p, p.loop, Len(out))
        /\ start \in 1 .. Len(reel)
    BY <1>a, <2>1
  <2> DEFINE r == PlayBlock(reel, p)
  <2>3. Songs(reel, start, r, r.loop, Len(out))
    BY <1>0, <2>1, <2>2, SongsPlay
  <2> HIDE DEF r
  <2> QED BY <2>1, <2>2, <2>3 DEF SongInv, r
<1>4. CASE Exhausted
  BY <1>a, <1>4 DEF Exhausted, SongInv
<1>5. CASE Return
  BY <1>a, <1>5 DEF Return, SongInv
<1>6. CASE GetPulse
  <2>1. p.sig = "none" /\ ~IsEnd(p.tg) /\ UNCHANGED <<reel, start, left>>
    BY <1>6 DEF GetPulse
  <2>2. Given(out, All) /\ All' = All /\ Songs(reel, start, p, p.loop, Len(out)) /\ start \in 1 .. Len(reel)
    BY <1>a, <2>1
  <2>3. CASE CanGetNext(p.tg)
    <3> DEFINE tg == GetNext(p.tg)
               r == [p EXCEPT !.tg = tg]
               e == [lvl |-> p.tg.cur, len |-> tg.clen, sig |-> "none"]
               k == Len(out)
    <3>1. p' = r /\ out' = Append(out, e) /\ pc' = "outer"
      BY <1>6, <2>3 DEF GetPulse
    <3>2. PICK v : /\ Says(p.tg, k, v) /\ Grown(v, All)
                   /\ \A j : \A x : Says(x, j, v) => Songs(reel, start, [p EXCEPT !.tg = x], p.loop, j)
      BY <1>0, <2>1, <2>2, SongsSay DEF All
    <3>3. Gen(p.tg)
      BY <1>0 DEF PlayerInv, GenOn
    <3>4. k < Len(v.w) /\ v.w[k + 1] = e /\ Says(tg, k + 1, v)
      BY <2>3, <3>2, <3>3, SaysNext DEF EventOf
    <3> HIDE DEF tg, e
    <3>5. Songs(reel, start, r, p.loop, k + 1) /\ r.loop = p.loop
      BY <1>0, <3>2, <3>4 DEF PlayerType
    <3>6. Given(out', All) /\ Len(out') = k + 1
      <4>1. k \in Nat /\ Len(v.w) \in Nat
        BY <2>2, <3>2, WaveFields DEF Given, Grown
      <4> DEFINE n == k + 1
      <4>2. n = Len(out) + 1 /\ n <= Len(v.w)
        BY <3>4, <4>1
      <4> HIDE DEF n
      <4>3. Given(Append(out, v.w[n]), All) /\ Len(Append(out, v.w[n])) = n
        BY <2>2, <3>2, <4>2, GivenMore
      <4> QED BY <3>1, <3>4, <4>3 DEF n
    <3> HIDE DEF r, k
    <3>7. Songs(reel, start, p, p.loop, Len(out))'
      BY <2>1, <3>1, <3>5, <3>6
    <3> QED BY <2>2, <3>1, <3>6, <3>7 DEF SongInv
  <2>4. CASE ~CanGetNext(p.tg)
    BY <1>6, <2>1, <2>2, <2>4 DEF GetPulse, SongInv
  <2> QED BY <2>3, <2>4
<1>7. CASE GetSignal
  <2> DEFINE r == [p EXCEPT !.sig = "none"]
             e == [lvl |-> p.tg.cur, len |-> 0, sig |-> p.sig]
             k == Len(out)
  <2>1. /\ p.sig # "none" /\ UNCHANGED <<reel, start, left>> /\ p' = r /\ out' = Append(out, e)
        /\ pc' = "outer"
    BY <1>7 DEF GetSignal
  <2>2. Given(out, All) /\ All' = All /\ Songs(reel, start, p, p.loop, Len(out)) /\ start \in 1 .. Len(reel)
    BY <1>a, <2>1
  <2>3. PICK u : /\ Says(p.tg, k, u) /\ IsEnd(p.tg) /\ Grown(Signalled(u, p.sig), All)
                 /\ Songs(reel, start, r, p.loop, k + 1)
    BY <1>0, <2>1, <2>2, SongsSignal DEF All
  <2>8. r.loop = p.loop
    BY <1>0 DEF PlayerType
  <2> DEFINE v == Signalled(u, p.sig)
  <2>4. Len(v.w) = k + 1 /\ v.w[k + 1] = e
    BY <1>0, <2>3, SaysSignal DEF PlayerType
  <2>5. Grown(v, All)
    BY <2>3
  <2> HIDE DEF v, e
  <2>6. Given(out', All) /\ Len(out') = k + 1
    <3>1. k \in Nat
      BY <2>2 DEF Given
    <3> DEFINE n == k + 1
    <3>2. n = Len(out) + 1 /\ n <= Len(v.w)
      BY <2>4, <3>1
    <3> HIDE DEF n
    <3>3. Given(Append(out, v.w[n]), All) /\ Len(Append(out, v.w[n])) = n
      BY <2>2, <2>5, <3>2, GivenMore
    <3> QED BY <2>1, <2>4, <3>3 DEF n
  <2> HIDE DEF r, k
  <2>7. Songs(reel, start, p, p.loop, Len(out))'
    BY <2>1, <2>3, <2>6, <2>8
  <2> QED BY <2>1, <2>2, <2>6, <2>7 DEF SongInv
<1>8. CASE Restart
  <2>1. /\ \E b \in 0 .. Len(reel) : p' = PlayerInit(p, b) /\ start' = b
        /\ left' = [loop |-> p.loop, sig |-> p.sig] /\ out' = <<>> /\ pc' = "outer" /\ reel' = reel
    BY <1>8 DEF Restart
  <2>2. p' = PlayerInit(p, start') /\ start' \in 0 .. Len(reel)
    BY <2>1
  <2>3. p.loop <= 1 /\ p.sig = "none" /\ start' # NoBlock
    BY <2>1 DEF Plain, Fresh
  <2> DEFINE b == start'
  <2>4. b \in 1 .. Len(reel)
    BY <1>0, <2>2, <2>3 DEF NoBlock
  <2> HIDE DEF b
  <2>5. Given(<<>>, Heard(reel, b)[Len(reel)]) /\ Songs(reel, b, PlayerInit(p, b), p.loop, Len(<<>>))
    BY <1>0, <2>3, <2>4, WaveBegins
  <2>7. PlayerInit(p, b).loop = p.loop
    BY <1>0 DEF PlayerInit, PlayerType
  <2>6. Given(out, All)' /\ Songs(reel, start, p, p.loop, Len(out))'
    BY <2>1, <2>2, <2>5, <2>7 DEF All, b
  <2> QED BY <2>1, <2>6 DEF SongInv
<1>9. CASE UNCHANGED loopVars
  BY <1>a, <1>9 DEF loopVars, SongInv
<1> QED
  BY <1>1, <1>2, <1>3, <1>4, <1>5, <1>6, <1>7, <1>8, <1>9 DEF LoopNext, Iterate

(* On every tape, from every block where a playback may begin: the caller   *)
(* of tape_player_get_next() is given the waveform that the blocks stand    *)
(* for, each bit with its two pulses, loops unrolled, a pause high for a    *)
(* millisecond exactly after a rising edge, and when tape_player_is_end()   *)
(* says that the tape is over nothing is missing.                           *)
THEOREM WaveformCorrect == LoopSpec => []PlaysWaveform
<1>1. PlayInv /\ SongInv => PlaysWaveform
  <2> DEFINE w == Waveform(reel, start)
  <2>1. SUFFICES ASSUME PlayInv, SongInv, Plain, pc = "ready"
                 PROVE  Len(out) <= Len(w) /\ out = SubSeq(w, 1, Len(out)) /\ (AtEnd => out = w)
    BY DEF PlaysWaveform, Plain
  <2>2. /\ reel \in Seq(Block) /\ PlayerInv(reel, p) /\ Len(reel) \in Nat
        /\ start \in 1 .. Len(reel)
    BY <2>1, BlocksOfTape DEF PlayInv, Plain, NoBlock
  <2>3. /\ Given(out, All) /\ Songs(reel, start, p, p.loop, Len(out))
        /\ Hungry(p) => p.cur = NoBlock /\ p.nxt = NoBlock
    BY <2>1 DEF SongInv
  <2>4. w = All.w
    BY DEF Waveform, All
  <2>5. out \in Seq(Event) /\ Len(out) <= Len(w) /\ \A i \in 1 .. Len(out) : out[i] = w[i]
    BY <2>3, <2>4 DEF Given
  <2>6. w \in Seq(Event) /\ Len(w) \in Nat
    BY <2>3, <2>4, WaveFields DEF Given
  <2> HIDE DEF w
  <2>7. out = SubSeq(w, 1, Len(out))
    <3> DEFINE s == SubSeq(w, 1, Len(out))
    <3>1. Len(out) \in Nat /\ \A i \in 1 .. Len(out) : i \in 1 .. Len(w)
      BY <2>5, <2>6
    <3>2. s \in Seq(Event) /\ Len(s) = Len(out) /\ \A i \in 1 .. Len(out) : s[i] = w[i]
      BY <2>5, <2>6, <3>1
    <3> HIDE DEF s
    <3>3. out = s
      BY <2>5, <3>2, SameSeq
    <3> QED BY <3>3 DEF s
  <2>8. ASSUME AtEnd PROVE out = w
    <3>1. Hungry(p) /\ IsEnd(p.tg) /\ p.sig = "none"
      BY <2>8 DEF AtEnd, Hungry
    <3>2. p.cur = NoBlock /\ p.nxt = NoBlock
      BY <2>3, <3>1
    <3>3. PICK wf : Place(reel, start, Passed(reel, p), p.loop, wf) /\ Voice(p, Len(out), wf)
      BY <2>3, <3>2 DEF Songs
    <3>4. Passed(reel, p) = Len(reel)
      BY <3>2 DEF Passed
    <3>5. wf = All
      BY <2>2, <3>3, <3>4, PlaceGrow DEF All
    <3>6. Says(p.tg, Len(out), wf)
      BY <3>1, <3>3 DEF Voice
    <3>7. Len(out) = Len(w)
      BY <2>4, <3>1, <3>5, <3>6, SaysEnd
    <3> QED BY <2>5, <2>6, <3>7, SameSeq
  <2> QED BY <2>5, <2>7, <2>8
<1> QED BY PlayInitially, PlayStep, SongInitially, SongStep, <1>1, PTL DEF LoopSpec

(***************************************************************************)
(* The times of a waveform.                                                 *)
(***************************************************************************)
LEMMA TimesExist ==
  ASSUME NEW w \in Seq(Event)
  PROVE  LET s == EndTimes(w)
         IN  s[0] = 0 /\ \A n \in 1 .. Len(w) : s[n] = s[n - 1] + w[n].len
<1> DEFINE S == 0 .. Len(w)
           Rule(u) == u = [n \in S |-> IF n = 0 THEN 0 ELSE u[n - 1] + w[n].len]
           s == CHOOSE u : Rule(u)
           G == [n \in S |-> [x \in Nat |-> IF n = 0 THEN x ELSE x + w[n].len]]
<1>1. EndTimes(w) = s
  BY DEF EndTimes
<1>2. Len(w) \in Nat /\ \A n \in 1 .. Len(w) : w[n].len \in Nat
  BY EventFields
<1>3. From(S, 0) /\ 0 \in S /\ \A n \in S : n # 0 => n - 1 \in S /\ n \in 1 .. Len(w)
  BY <1>2 DEF From
<1>4. \A n \in 1 .. Len(w) : n \in S /\ n # 0
  BY <1>2
<1> HIDE DEF S
<1>5. G \in [S -> [Nat -> Nat]]
  BY <1>2, <1>3
<1>6. \A n \in S : n # 0 => \A x \in Nat : G[n][x] = x + w[n].len
  OBVIOUS
<1> HIDE DEF G
<1>7. PICK f \in [S -> Nat] : f[0] = 0 /\ \A n \in S : n # 0 => f[n] = G[n][f[n - 1]]
  <2>1. PICK f : CountsOn(S, 0, Nat, 0, G, f)
    BY <1>3, <1>5, Counting
  <2> QED BY <2>1 DEF CountsOn
<1>8. Rule(f)
  BY <1>3, <1>6, <1>7
<1>9. Rule(s)
  <2> HIDE DEF Rule
  <2> QED BY <1>8
<1> HIDE DEF s
<1>10. \A n \in S : s[n] = IF n = 0 THEN 0 ELSE s[n - 1] + w[n].len
  <2> DEFINE r == [n \in S |-> IF n = 0 THEN 0 ELSE s[n - 1] + w[n].len]
  <2>1. \A n \in S : r[n] = IF n = 0 THEN 0 ELSE s[n - 1] + w[n].len
    OBVIOUS
  <2>2. s = r
    BY <1>9
  <2> HIDE DEF r, Rule
  <2> QED BY <2>1, <2>2
<1> QED BY <1>1, <1>3, <1>4, <1>10

\* Events end one after the other.
LEMMA EndTimesAre ==
  ASSUME NEW w \in Seq(Event)
  PROVE  LET s == EndTimes(w)
         IN  /\ s[0] = 0 /\ \A n \in 1 .. Len(w) : s[n] = s[n - 1] + w[n].len
             /\ \A n \in 0 .. Len(w) : s[n] \in Nat
             /\ \A m \in 0 .. Len(w) : \A n \in m .. Len(w) : s[m] <= s[n]
<1> DEFINE s == EndTimes(w)
           S == 0 .. Len(w)
<1>1. s[0] = 0 /\ \A n \in 1 .. Len(w) : s[n] = s[n - 1] + w[n].len
  BY TimesExist
<1>2. Len(w) \in Nat /\ \A n \in 1 .. Len(w) : w[n].len \in Nat
  BY EventFields
<1> HIDE DEF s
<1>3. From(S, 0)
  BY <1>2 DEF From
<1>4. \A n \in S : s[n] \in Nat
  <2> DEFINE T == {n \in S : s[n] \in Nat}
  <2>1. 0 \in T
    BY <1>1, <1>2
  <2>2. ASSUME NEW n \in S, n # 0, n - 1 \in T PROVE n \in T
    BY <1>1, <1>2, <2>2
  <2>3. S \subseteq T
    <3> HIDE DEF S, T
    <3> QED BY <1>3, <2>1, <2>2, Upward
  <2> QED BY <2>3
<1>5. ASSUME NEW m \in S, NEW n \in m .. Len(w) PROVE s[m] <= s[n]
  <2> DEFINE T == {k \in S : k < m \/ s[m] <= s[k]}
  <2>1. 0 \in T
    BY <1>2, <1>4
  <2>2. ASSUME NEW k \in S, k # 0, k - 1 \in T PROVE k \in T
    <3>1. k \in 1 .. Len(w) /\ k \in Nat /\ m \in Nat
      BY <1>2, <2>2
    <3>2. s[k] = s[k - 1] + w[k].len /\ s[k - 1] \in Nat /\ w[k].len \in Nat /\ s[k] \in Nat /\ s[m] \in Nat
      BY <1>1, <1>2, <1>4, <2>2, <3>1
    <3>3. CASE k < m \/ k = m
      BY <3>2, <3>3
    <3>4. CASE m < k
      BY <2>2, <3>1, <3>2, <3>4
    <3> QED BY <3>1, <3>3, <3>4
  <2>3. S \subseteq T
    <3> HIDE DEF S, T
    <3> QED BY <1>3, <2>1, <2>2, Upward
  <2>4. n \in S /\ ~(n < m)
    BY <1>2
  <2> QED BY <2>3, <2>4
<1> QED BY <1>1, <1>4, <1>5 DEF s

\* What comes behind a waveform leaves its times.
LEMMA TimesStay ==
  ASSUME NEW v, NEW W, Grown(v, W)
  PROVE  /\ \A n \in 0 .. Len(v.w) : n \in 0 .. Len(W.w) /\ EndTimes(v.w)[n] = EndTimes(W.w)[n]
         /\ Duration(v.w) = EndTimes(W.w)[Len(v.w)]
<1> DEFINE S == 0 .. Len(v.w)
           s == EndTimes(v.w)
           r == EndTimes(W.w)
           T == {n \in S : s[n] = r[n]}
<1>1. /\ v.w \in Seq(Event) /\ W.w \in Seq(Event) /\ Len(v.w) \in Nat /\ Len(W.w) \in Nat
      /\ Len(v.w) <= Len(W.w) /\ \A n \in 1 .. Len(v.w) : W.w[n] = v.w[n]
  BY WaveFields DEF Grown
<1>2. /\ s[0] = 0 /\ \A n \in 1 .. Len(v.w) : s[n] = s[n - 1] + v.w[n].len
      /\ r[0] = 0 /\ \A n \in 1 .. Len(W.w) : r[n] = r[n - 1] + W.w[n].len
  BY <1>1, TimesExist
<1> HIDE DEF s, r
<1>3. From(S, 0)
  BY <1>1 DEF From
<1>4. 0 \in T
  BY <1>1, <1>2
<1>5. ASSUME NEW n \in S, n # 0, n - 1 \in T PROVE n \in T
  <2>1. n \in 1 .. Len(v.w) /\ n \in 1 .. Len(W.w)
    BY <1>1, <1>5
  <2> QED BY <1>1, <1>2, <1>5, <2>1
<1>6. S \subseteq T
  <2> HIDE DEF S, T
  <2> QED BY <1>3, <1>4, <1>5, Upward
<1>7. \A n \in S : n \in 0 .. Len(W.w)
  BY <1>1
<1>8. Len(v.w) \in S
  BY <1>1
<1> QED BY <1>6, <1>7, <1>8 DEF s, r, Duration

\* The level within event k.
LEMMA LevelWithin ==
  ASSUME NEW w \in Seq(Event), NEW k \in 1 .. Len(w), NEW time \in Nat,
         EndTimes(w)[k - 1] <= time, time < EndTimes(w)[k]
  PROVE  LevelAt(w, time) = w[k].lvl
<1> DEFINE s == EndTimes(w)
           In(n) == s[n - 1] <= time /\ time < s[n]
           i == CHOOSE n \in 1 .. Len(w) : In(n)
<1>1. LevelAt(w, time) = w[i].lvl
  BY DEF LevelAt
<1>2. /\ Len(w) \in Nat /\ \A n \in 0 .. Len(w) : s[n] \in Nat
      /\ \A m \in 0 .. Len(w) : \A n \in m .. Len(w) : s[m] <= s[n]
  BY EndTimesAre
<1>3. In(k)
  OBVIOUS
<1> HIDE DEF s
<1>4. i \in 1 .. Len(w) /\ In(i)
  <2> HIDE DEF In
  <2> QED BY <1>3
<1> HIDE DEF i
<1>5. ASSUME i < k PROVE FALSE
  <2>1. i \in 0 .. Len(w) /\ k - 1 \in i .. Len(w) /\ k - 1 \in 0 .. Len(w)
    BY <1>2, <1>4, <1>5
  <2>2. s[i] <= s[k - 1] /\ s[i] \in Nat /\ s[k - 1] \in Nat
    BY <1>2, <2>1
  <2> QED BY <1>3, <1>4, <2>2
<1>6. ASSUME k < i PROVE FALSE
  BY <1>2, <1>3, <1>4, <1>6
<1>7. i = k
  BY <1>2, <1>4, <1>5, <1>6
<1> QED BY <1>1, <1>7

(***************************************************************************)
(* Steady blocks: their programs leave the level that there is, and a high  *)
(* level has come from a low one.                                           *)
(***************************************************************************)
Rose(tg) == tg.plast = 1 => tg.pprev = 0

Holds(c, tg) == tg.cur = c /\ Rose(tg)

LEMMA ClearHolds ==
  ASSUME NEW tg \in ToneGenType, Rose(tg)
  PROVE  /\ Programmed(Clear(tg), 0) /\ Holds(tg.cur, Clear(tg)) /\ Clear(tg).plast = tg.plast
BY ClearProgram DEF Holds, Rose, Clear, ToneGenType

LEMMA ToneHolds ==
  ASSUME NEW tg \in ToneGenType, NEW c, Holds(c, tg), NEW len \in Nat, 0 < len, NEW np \in Nat
  PROVE  Holds(c, AddTone(tg, len, np))
<1> DEFINE e == Append(tg.prog, Tone(len, np))
           last == IF np % 2 = 1 THEN Flip(tg.plast) ELSE tg.plast
           prev == IF len > 0 /\ np > 0 THEN Flip(last) ELSE tg.pprev
           r == AddTone(tg, len, np)
<1>1. r = [tg EXCEPT !.prog = e, !.plast = last, !.pprev = prev]
  BY DEF AddTone
<1>2. tg.plast \in Level
  BY DEF ToneGenType
<1>3. last \in Level
  BY <1>2, FlipType
<1>4. np > 0 => prev = 1 - last
  BY DEF Flip
<1>5. ~(np > 0) => prev = tg.pprev /\ last = tg.plast
  <2>1. SUFFICES ASSUME ~(np > 0) PROVE prev = tg.pprev /\ last = tg.plast
    OBVIOUS
  <2>2. np = 0
    BY <2>1
  <2> QED BY <2>2
<1> HIDE DEF e, last, prev, r
<1>6. r.cur = tg.cur /\ r.plast = last /\ r.pprev = prev
  BY <1>1 DEF ToneGenType
<1>7. Rose(r)
  BY <1>3, <1>4, <1>5, <1>6 DEF Rose, Holds
<1> QED BY <1>6, <1>7 DEF Holds, r

LEMMA PilotHolds ==
  ASSUME NEW tg \in ToneGenType, Rose(tg), NEW len \in Nat, 0 < len, NEW np \in Nat,
         NEW s1 \in Nat, 0 < s1, NEW s2 \in Nat, 0 < s2
  PROVE  Holds(tg.cur, PilotAndSync(tg, len, np, s1, s2))
<1> DEFINE a == Clear(tg)
           b == AddTone(a, len, np)
           c == AddTone(b, s1, 1)
           d == AddTone(c, s2, 1)
<1> HIDE DEF a, b, c, d
<1>1. Programmed(a, 0) /\ Holds(tg.cur, a)
  BY ClearHolds DEF a
<1>2. Programmed(b, 0 + 1) /\ Holds(tg.cur, b)
  <2>1. a \in ToneGenType
    BY <1>1 DEF Programmed
  <2> QED BY <1>1, <2>1, AddToneProgram, ToneHolds DEF b
<1>3. Programmed(c, 1 + 1) /\ Holds(tg.cur, c)
  <2>1. Programmed(b, 1) /\ b \in ToneGenType
    BY <1>2 DEF Programmed
  <2> QED BY <1>2, <2>1, AddToneProgram, ToneHolds DEF c
<1>4. Holds(tg.cur, d)
  BY <1>3, ToneHolds DEF Programmed, d
<1> QED BY <1>4 DEF PilotAndSync, a, b, c, d

LEMMA OneToneHolds ==
  ASSUME NEW tg \in ToneGenType, Rose(tg), NEW len \in Nat, 0 < len, NEW np \in Nat
  PROVE  Holds(tg.cur, AddTone(Clear(tg), len, np))
<1> DEFINE a == Clear(tg)
<1>1. a \in ToneGenType /\ Holds(tg.cur, a)
  BY ClearHolds DEF Programmed
<1> HIDE DEF a
<1>2. Holds(tg.cur, AddTone(a, len, np))
  BY <1>1, ToneHolds
<1> QED BY <1>2 DEF a

LEMMA BitsHold ==
  ASSUME NEW tg \in ToneGenType, Rose(tg), NEW byte, NEW nb, NEW one, NEW zero
  PROVE  Holds(tg.cur, ProgramBits(Clear(tg), byte, nb, one, zero))
<1> DEFINE a == Clear(tg)
           len(i) == IF byte[i] = 1 THEN one ELSE zero
           e == a.prog \o [i \in 1 .. nb |-> Tone(len(i), 2)]
           prev == IF \E i \in 1 .. nb : len(i) > 0 THEN Flip(a.plast) ELSE a.pprev
           r == ProgramBits(a, byte, nb, one, zero)
<1>1. a \in ToneGenType /\ Holds(tg.cur, a)
  BY ClearHolds DEF Programmed
<1> HIDE DEF a
<1>2. r = [a EXCEPT !.prog = e, !.pprev = prev]
  BY DEF ProgramBits
<1>3. prev \in {1 - a.plast, a.pprev}
  BY DEF Flip
<1> HIDE DEF e, prev, r
<1>4. r.cur = a.cur /\ r.plast = a.plast /\ r.pprev = prev
  BY <1>1, <1>2 DEF ToneGenType
<1>5. Holds(tg.cur, r)
  BY <1>1, <1>3, <1>4 DEF Holds, Rose
<1> QED BY <1>5 DEF a, r

LEMMA PauseHolds ==
  ASSUME NEW tg \in ToneGenType, Rose(tg), tg.cur = tg.plast, NEW ms
  PROVE  Holds(tg.cur, ProgramPause(Clear(tg), ms))
<1> DEFINE a == Clear(tg)
           b == AddDPulse(a, 1, PauseMult)
           d == AddDPulse(b, 0, PauseMult * (ms - 1))
           f == AddDPulse(a, 0, PauseMult * ms)
           r == ProgramPause(a, ms)
<1>1. /\ Programmed(a, 0) /\ Holds(tg.cur, a) /\ a.plast = tg.plast /\ a.cur = a.plast
      /\ a \in ToneGenType /\ a.tidx = Len(a.prog)
  BY ClearHolds DEF Programmed, Holds
<1> HIDE DEF a
<1>2. a.plast \in Level /\ 0 \in Level /\ 1 \in Level
  BY <1>1 DEF ToneGenType, Level
<1>3. r = IF ms = 0 THEN a ELSE IF a.pprev = 0 /\ a.plast = 1 THEN d ELSE f
  BY DEF ProgramPause
<1>4. f.cur = 0 /\ f.plast = 0
  BY <1>1 DEF AddDPulse, ToneGenType
<1>5. d.plast = 0 /\ d.cur = 1
  <2>1. /\ b.cur = 1 /\ b.tidx = a.tidx /\ b.prog = Append(a.prog, DirectPulse(1, PauseMult))
        /\ DOMAIN b = DOMAIN a
    BY <1>1 DEF AddDPulse, ToneGenType
  <2>2. b.tidx # Len(b.prog)
    BY <1>1, <1>2, <2>1, PlayerAssumption DEF ToneGenType, DirectPulse, Entry
  <2>3. "plast" \in DOMAIN b /\ "cur" \in DOMAIN b
    BY <1>1, <2>1 DEF ToneGenType
  <2> HIDE DEF b
  <2> QED BY <2>1, <2>2, <2>3 DEF AddDPulse
<1> HIDE DEF b, d, f, r
<1>6. Holds(tg.cur, r)
  BY <1>1, <1>2, <1>3, <1>4, <1>5 DEF Holds, Rose, Level
<1> QED BY <1>6 DEF a, r

LEMMA SteadyLengths ==
  ASSUME NEW b \in Block, Steady(b)
  PROVE  /\ b.btype # "drec"
         /\ b.btype = "data" => 0 < RomPilotLen /\ 0 < RomSync1Len /\ 0 < RomSync2Len
         /\ b.btype = "turbo" => /\ b.pilotLen \in Nat /\ 0 < b.pilotLen /\ b.pilotPulses \in Nat
                                 /\ b.sync1 \in Nat /\ 0 < b.sync1 /\ b.sync2 \in Nat /\ 0 < b.sync2
         /\ b.btype = "tone" => b.len \in Nat /\ 0 < b.len /\ b.np \in Nat
         /\ b.btype = "pulses" => \A i \in 1 .. Len(b.lens) : b.lens[i] \in Nat /\ 0 < b.lens[i]
<1>1. b.btype # "drec" /\ 0 \notin Lengths(b)
  BY DEF Steady
<1>2. ASSUME b.btype = "data" PROVE 0 < RomPilotLen /\ 0 < RomSync1Len /\ 0 < RomSync2Len
  BY <1>1, <1>2, Capacity DEF Lengths
<1>3. ASSUME b.btype = "turbo"
      PROVE  /\ b.pilotLen \in Nat /\ 0 < b.pilotLen /\ b.pilotPulses \in Nat
             /\ b.sync1 \in Nat /\ 0 < b.sync1 /\ b.sync2 \in Nat /\ 0 < b.sync2
  BY <1>1, <1>3, BlockFields DEF TurboBlock, Lengths
<1>4. ASSUME b.btype = "tone" PROVE b.len \in Nat /\ 0 < b.len /\ b.np \in Nat
  BY <1>1, <1>4, BlockFields DEF ToneBlock, Lengths
<1>5. ASSUME b.btype = "pulses", NEW i \in 1 .. Len(b.lens) PROVE b.lens[i] \in Nat /\ 0 < b.lens[i]
  BY <1>1, <1>5, BlockFields DEF PulsesBlock, Lengths
<1> QED BY <1>1, <1>2, <1>3, <1>4, <1>5

LEMMA PulsesNextHolds ==
  ASSUME NEW t, NEW b \in PulsesBlock, NEW q \in PlayerType, q.idx < Len(b.lens), q.tg \in ToneGenType,
         Rose(q.tg), \A i \in 1 .. Len(b.lens) : b.lens[i] \in Nat /\ 0 < b.lens[i]
  PROVE  Holds(q.tg.cur, PulsesNext(t, q, b).tg)
<1> DEFINE n == q.idx + 1
           tg == AddTone(Clear(q.tg), b.lens[n], 1)
           s == [q EXCEPT !.tg = tg, !.idx = n]
           r == PulsesNext(t, q, b)
<1>1. q.idx \in Nat /\ Len(b.lens) \in Nat
  BY DEF PlayerType, PulsesBlock
<1>2. n \in 1 .. Len(b.lens)
  BY <1>1
<1>3. r = IF ~IsEnd(q.tg) THEN q ELSE IF s.idx >= Len(b.lens) THEN EndBlock(t, s) ELSE s
  BY DEF PulsesNext
<1>4. Holds(q.tg.cur, tg)
  BY <1>2, OneToneHolds
<1> HIDE DEF n, tg
<1>5. s.tg = tg /\ DOMAIN s = DOMAIN q /\ "tg" \in DOMAIN q
  BY DEF PlayerType
<1> HIDE DEF s
<1>6. EndBlock(t, s).tg = s.tg
  BY <1>5 DEF EndBlock
<1>7. Holds(q.tg.cur, q.tg)
  BY DEF Holds
<1> QED BY <1>3, <1>4, <1>5, <1>6, <1>7

(* A block is taken, and one is played.                                     *)
LEMMA TakeHolds ==
  ASSUME NEW t \in Seq(Block), NEW q0, PlayerInv(t, q0), q0.cur = NoBlock, q0.nxt # NoBlock,
         Steady(t[q0.nxt]), Rose(q0.tg), q0.tg.cur = q0.tg.plast
  PROVE  Holds(q0.tg.cur, TakeBlock(t, q0).tg)
<1> DEFINE q == [q0 EXCEPT !.cur = q0.nxt, !.nxt = NoBlock]
           b == t[q.cur]
           r == TakeBlock(t, q0)
           c == q0.tg.cur
<1>1. q0 \in PlayerType /\ q0.nxt \in Nat /\ q0.nxt \in 1 .. Len(t)
  BY BlocksOfTape DEF PlayerInv, At, NoBlock
<1>2. /\ q \in PlayerType /\ q.cur = q0.nxt /\ q.tg = q0.tg /\ q.tg \in ToneGenType
      /\ Rose(q.tg) /\ q.tg.cur = c /\ q.tg.plast = c
  BY <1>1 DEF PlayerType, NoBlock
<1>3. r = CASE b.btype = "data"   -> DataInit(q, b)
            [] b.btype = "turbo"  -> TurboInit(q, b)
            [] b.btype = "tone"   -> ToneInit(q, b)
            [] b.btype = "pulses" -> PulsesInit(t, q, b)
            [] b.btype = "pure"   -> PureInit(q)
            [] b.btype = "drec"   -> DirectInit(q)
            [] b.btype = "pause"  -> PauseInit(q, b)
            [] b.btype = "stop"   -> StopInit(q)
            [] b.btype = "lstart" -> LoopStartInit(q, b)
            [] b.btype = "lend"   -> LoopEndInit(t, q)
            [] b.btype = "stop48" -> Stop48Init(q)
            [] b.btype = "other"  -> EndBlock(t, q)
  BY DEF TakeBlock
<1> HIDE DEF q
<1>4. b \in Block /\ Steady(b)
  BY <1>1, <1>2, BlocksOfTape
<1> HIDE DEF b, r, c
<1>5. b.btype # "drec"
  BY <1>4, SteadyLengths
<1>6. Holds(c, q.tg)
  BY <1>2 DEF Holds
<1>10. ASSUME b.btype = "data" PROVE Holds(c, r.tg)
  <2> DEFINE np == IF IsHeader(b.data[1]) THEN RomPilotPulsesH ELSE RomPilotPulsesD
             tg == PilotAndSync(q.tg, RomPilotLen, np, RomSync1Len, RomSync2Len)
  <2>1. np \in Nat
    BY Capacity
  <2> HIDE DEF np
  <2>2. Holds(c, tg)
    BY <1>2, <1>4, <1>10, <2>1, PilotHolds, Capacity, SteadyLengths
  <2> HIDE DEF tg
  <2>3. r = [q EXCEPT !.tg = tg, !.idx = 0, !.pauseDone = FALSE]
    BY <1>3, <1>10 DEF DataInit, tg, np
  <2> QED BY <1>2, <2>2, <2>3 DEF PlayerType
<1>11. ASSUME b.btype = "turbo" PROVE Holds(c, r.tg)
  <2> DEFINE tg == PilotAndSync(q.tg, b.pilotLen, b.pilotPulses, b.sync1, b.sync2)
  <2>2. Holds(c, tg)
    BY <1>2, <1>4, <1>11, PilotHolds, SteadyLengths
  <2> HIDE DEF tg
  <2>3. r = [q EXCEPT !.tg = tg, !.idx = 0, !.pauseDone = FALSE]
    BY <1>3, <1>11 DEF TurboInit, tg
  <2> QED BY <1>2, <2>2, <2>3 DEF PlayerType
<1>12. ASSUME b.btype = "tone" PROVE Holds(c, r.tg)
  <2> DEFINE tg == AddTone(Clear(q.tg), b.len, b.np)
  <2>2. Holds(c, tg)
    BY <1>2, <1>4, <1>12, OneToneHolds, SteadyLengths
  <2> HIDE DEF tg
  <2>3. r = [q EXCEPT !.tg = tg]
    BY <1>3, <1>12 DEF ToneInit, tg
  <2> QED BY <1>2, <2>2, <2>3 DEF PlayerType
<1>13. ASSUME b.btype = "pulses" PROVE Holds(c, r.tg)
  <2> DEFINE s == [q EXCEPT !.idx = 0]
  <2>1. s \in PlayerType /\ s.tg = q.tg /\ s.idx = 0
    BY <1>2 DEF PlayerType
  <2>2. r = PulsesNext(t, s, b)
    BY <1>3, <1>13 DEF PulsesInit
  <2> HIDE DEF s
  <2>3. b \in PulsesBlock
    BY <1>4, <1>13, BlockFields
  <2>4. s.idx < Len(b.lens)
    BY <2>1, <2>3 DEF PulsesBlock
  <2> QED BY <1>2, <1>4, <1>13, <2>1, <2>2, <2>3, <2>4, PulsesNextHolds, SteadyLengths
<1>14. ASSUME b.btype = "pure" PROVE Holds(c, r.tg)
  <2> DEFINE tg == Clear(q.tg)
  <2>2. Holds(c, tg)
    BY <1>2, ClearHolds
  <2> HIDE DEF tg
  <2>3. r = [q EXCEPT !.tg = tg, !.idx = 0, !.pauseDone = FALSE]
    BY <1>3, <1>14 DEF PureInit, tg
  <2> QED BY <1>2, <2>2, <2>3 DEF PlayerType
<1>15. ASSUME b.btype = "pause" PROVE Holds(c, r.tg)
  <2> DEFINE tg == ProgramPause(Clear(q.tg), b.pause)
  <2>2. Holds(c, tg)
    BY <1>2, PauseHolds
  <2> HIDE DEF tg
  <2>3. r = [q EXCEPT !.tg = tg]
    BY <1>3, <1>15 DEF PauseInit, tg
  <2> QED BY <1>2, <2>2, <2>3 DEF PlayerType
<1>16. ASSUME b.btype \in {"stop", "lstart", "lend", "stop48", "other"} PROVE Holds(c, r.tg)
  BY <1>2, <1>3, <1>6, <1>16 DEF StopInit, LoopStartInit, LoopEndInit, Stop48Init, EndBlock,
       PlayerType
<1>17. b.btype \in {"data", "turbo", "pure", "drec", "tone", "pulses", "pause", "lstart",
                    "stop", "stop48", "lend", "other"}
  BY <1>4, BlockFields
<1>18. Holds(c, r.tg)
  BY <1>5, <1>10, <1>11, <1>12, <1>13, <1>14, <1>15, <1>16, <1>17
<1> QED BY <1>18 DEF c, r

LEMMA PlayHolds ==
  ASSUME NEW t \in Seq(Block), NEW q, PlayerInv(t, q), q.cur # NoBlock, Steady(t[q.cur]),
         Rose(q.tg), IsEnd(q.tg) => q.tg.cur = q.tg.plast
  PROVE  Holds(q.tg.cur, PlayBlock(t, q).tg)
<1> DEFINE b == t[q.cur]
           c == q.tg.cur
<1>1. q \in PlayerType /\ q.cur \in 1 .. Len(t) /\ Fits(b, q.idx) /\ q.tg \in ToneGenType
  BY BlocksOfTape DEF PlayerInv, CurFits, At, NoBlock, PlayerType
<1>2. /\ b \in Block /\ Steady(b)
      /\ b.btype \in {"data", "turbo", "pure", "drec", "tone", "pulses", "pause", "lstart",
                      "stop", "stop48", "lend"}
  BY <1>1, BlockFields, BlocksOfTape DEF Fits
<1>3. PlayBlock(t, q) =
        CASE b.btype = "data"   -> DataNext(t, q, b)
          [] b.btype = "turbo"  -> TurboNext(t, q, b)
          [] b.btype = "pulses" -> PulsesNext(t, q, b)
          [] b.btype = "pure"   -> PureNext(t, q, b)
          [] b.btype = "drec"   -> DirectNext(t, q, b)
          [] b.btype \in {"tone", "pause", "stop", "lstart", "lend", "stop48"} ->
               EndBlock(t, q)
  BY DEF PlayBlock
<1> HIDE DEF b
<1>4. b.btype # "drec"
  BY <1>2, SteadyLengths
<1>5. Holds(c, q.tg) /\ EndBlock(t, q).tg = q.tg
  BY <1>1 DEF Holds, EndBlock, PlayerType
<1>6. ASSUME NEW tg, Holds(c, tg) PROVE Holds(c, BytesNext(t, q, b, tg).tg)
  <2> DEFINE f == ProgramPause(Clear(q.tg), b.pause)
             r == BytesNext(t, q, b, tg)
  <2>1. IsEnd(q.tg) => Holds(c, f)
    BY <1>1, PauseHolds
  <2>2. r = IF ~IsEnd(q.tg) THEN q
            ELSE IF q.idx < Len(b.data) THEN [q EXCEPT !.tg = tg, !.idx = @ + 1]
            ELSE IF ~q.pauseDone THEN [q EXCEPT !.tg = f, !.pauseDone = TRUE]
            ELSE EndBlock(t, q)
    BY DEF BytesNext
  <2> HIDE DEF f, r, c
  <2>3. /\ [q EXCEPT !.tg = tg, !.idx = @ + 1].tg = tg
        /\ [q EXCEPT !.tg = f, !.pauseDone = TRUE].tg = f
    BY <1>1 DEF PlayerType
  <2>4. Holds(c, r.tg)
    BY <1>5, <1>6, <2>1, <2>2, <2>3
  <2> QED BY <2>4 DEF r
<1>7. ASSUME NEW byte, NEW nb, NEW one, NEW zero
      PROVE  Holds(c, BytesNext(t, q, b, ProgramBits(Clear(q.tg), byte, nb, one, zero)).tg)
  BY <1>1, <1>6, BitsHold
<1>8. b.btype = "data" => Holds(c, PlayBlock(t, q).tg)
  BY <1>3, <1>7 DEF DataNext
<1>9. b.btype = "turbo" => Holds(c, PlayBlock(t, q).tg)
  BY <1>3, <1>7 DEF TurboNext
<1>10. b.btype = "pure" => Holds(c, PlayBlock(t, q).tg)
  BY <1>3, <1>7 DEF PureNext
<1>11. ASSUME b.btype = "pulses" PROVE Holds(c, PlayBlock(t, q).tg)
  <2>1. b \in PulsesBlock
    BY <1>2, <1>11, BlockFields
  <2>2. q.idx < Len(b.lens)
    BY <1>1, <1>11 DEF Fits, b
  <2>3. PlayBlock(t, q) = PulsesNext(t, q, b)
    BY <1>3, <1>11
  <2> QED BY <1>1, <1>2, <1>11, <2>1, <2>2, <2>3, PulsesNextHolds, SteadyLengths
<1>12. b.btype \in {"tone", "pause", "stop", "lstart", "lend", "stop48"} => Holds(c, PlayBlock(t, q).tg)
  BY <1>3, <1>5
<1> QED BY <1>2, <1>4, <1>8, <1>9, <1>10, <1>11, <1>12

(***************************************************************************)
(* Between two events: tape_player_next().                                  *)
(***************************************************************************)
Orderly(t, b) ==
  \A n \in b .. Len(t) :
    /\ t[n].btype # "stop48"
    /\ t[n].btype = "lend" => \E i \in b .. n : t[i].btype = "lstart"
    /\ SinglePulse(t[n]) => n = Len(t)

AllSteady(t, b) == \A n \in b .. Len(t) : Steady(t[n])

Unlooped(t, b) == NoLoops(t, b, Len(t))

AllHeard(t, b) == Heard(t, b)[Len(t)]

\* The player has given k events of the tape from block b on.
Sings(t, b, q, k) ==
  /\ PlayerInv(t, q) /\ q.sig # "stop48" /\ (q.cur # NoBlock => b <= q.cur)
  /\ \E l : CountsLoop(t, b, q, l) /\ Songs(t, b, q, l, k)

\* The blocks before the one that is taken are heard within k events.
Met(t, b, q, k) ==
  Unlooped(t, b) => \A m \in b - 1 .. Taken(t, q) - 1 : Len(Heard(t, b)[m].w) <= k

\* On a steady tape the level is c until the next pulse is taken.
Levelled(t, b, q, c) == AllSteady(t, b) => Holds(c, q.tg)

Fetching(t, b, q, k, c) == Sings(t, b, q, k) /\ Levelled(t, b, q, c) /\ Met(t, b, q, k)

LEMMA AllHeardIs ==
  ASSUME NEW t \in Seq(Block), NEW b \in 1 .. Len(t)
  PROVE  /\ AllHeard(t, b) \in Wave /\ AllHeard(t, b).w \in Seq(Event)
         /\ GrowAlong(b - 1 .. Len(t), Heard(t, b))
         /\ \A m \in b - 1 .. Len(t) : Grown(Heard(t, b)[m], AllHeard(t, b))
<1> DEFINE H == Heard(t, b)
           z == Len(t)
<1>1. GrowAlong(b - 1 .. z, H)
  BY HeardIs
<1>2. z \in b - 1 .. z /\ \A m \in b - 1 .. z : m <= z
  BY BlocksOfTape
<1> HIDE DEF H, z
<1>3. H[z] \in Wave /\ \A m \in b - 1 .. z : Grown(H[m], H[z])
  BY <1>1, <1>2 DEF GrowAlong
<1>4. H[z].w \in Seq(Event)
  BY <1>3, WaveFields
<1> QED BY <1>1, <1>3, <1>4 DEF H, z, AllHeard

LEMMA PlaceUnlooped ==
  ASSUME NEW t \in Seq(Block), NEW b \in 1 .. Len(t), NEW m, NEW l, NEW wf, Place(t, b, m, l, wf),
         Unlooped(t, b)
  PROVE  wf = Heard(t, b)[m]
BY DEF Place, OnTheWay, InLoop, Unlooped, NoLoops

\* Behind the last pulse that was programmed the level is the program's last.
LEMMA SongsSettle ==
  ASSUME NEW t \in Seq(Block), NEW b \in 1 .. Len(t), NEW q, PlayerInv(t, q), NEW k, NEW l,
         Songs(t, b, q, l, k)
  PROVE  k \in 0 .. Len(AllHeard(t, b).w) /\ (IsEnd(q.tg) => q.tg.cur = q.tg.plast)
<1> DEFINE W == AllHeard(t, b)
<1>1. W \in Wave /\ Len(W.w) \in Nat
  BY AllHeardIs, WaveFields
<1>2. ASSUME NEW v, Says(q.tg, k, v)
      PROVE  /\ k \in 0 .. Len(v.w) /\ Len(v.w) \in Nat
             /\ IsEnd(q.tg) => q.tg.cur = q.tg.plast
  <2>1. /\ v \in Wave /\ k \in 0 .. Len(v.w) /\ q.tg.cur = Coming(v, k) /\ q.tg.plast = v.lvl
    BY <1>2 DEF Says, Tuned
  <2>2. Len(v.w) \in Nat
    BY <2>1, WaveFields
  <2>3. ASSUME IsEnd(q.tg) PROVE q.tg.cur = q.tg.plast
    <3>1. k = Len(v.w)
      BY <1>2, <2>3, SaysEnd
    <3>2. ~(k < Len(v.w))
      BY <2>2, <3>1
    <3> QED BY <2>1, <3>2 DEF Coming
  <2> QED BY <2>1, <2>2, <2>3
<1>3. CASE q.sig = "none"
  <2>1. PICK v : Says(q.tg, k, v) /\ Grown(v, W)
    BY <1>3, SongsSay DEF AllHeard
  <2>2. Len(v.w) <= Len(W.w)
    BY <2>1 DEF Grown
  <2> HIDE DEF W
  <2>3. k \in 0 .. Len(W.w)
    BY <1>1, <1>2, <2>1, <2>2
  <2> QED BY <1>2, <2>1, <2>3 DEF W
<1>4. CASE q.sig # "none"
  <2>1. PICK u : Says(q.tg, k, u) /\ IsEnd(q.tg) /\ Grown(Signalled(u, q.sig), W)
    BY <1>4, SongsSignal DEF AllHeard
  <2>2. q.sig \in Signal
    BY DEF PlayerInv, PlayerType
  <2> HIDE DEF W
  <2>3. Len(Signalled(u, q.sig).w) = k + 1
    <3> DEFINE v == Signalled(u, q.sig)
    <3>1. Len(v.w) = k + 1 /\ v.w[k + 1] = [lvl |-> q.tg.cur, len |-> 0, sig |-> q.sig]
      BY <2>1, <2>2, SaysSignal
    <3> QED BY <3>1
  <2>4. k + 1 <= Len(W.w)
    BY <2>1, <2>3 DEF Grown
  <2>5. k \in 0 .. Len(W.w)
    BY <1>1, <1>2, <2>1, <2>4
  <2> QED BY <1>2, <2>1, <2>5 DEF W
<1> QED BY <1>3, <1>4

LEMMA TakeFetches ==
  ASSUME NEW t \in Seq(Block), NEW b \in 1 .. Len(t), Orderly(t, b), NEW q, NEW k, NEW c,
         Fetching(t, b, q, k, c), q.cur = NoBlock, q.nxt # NoBlock, Ready(q)
  PROVE  Fetching(t, b, TakeBlock(t, q), k, c) /\ Ready(TakeBlock(t, q))
<1> DEFINE r == TakeBlock(t, q)
           n == q.nxt
           m == n - 1
<1>1. /\ PlayerInv(t, q) /\ n \in 1 .. Len(t) /\ Len(t) \in Nat /\ b \in Nat \ {0}
      /\ IsEnd(q.tg) /\ q.sig = "none"
  BY BlocksOfTape DEF Fetching, Sings, PlayerInv, At, NoBlock, Ready
<1>2. PICK l : CountsLoop(t, b, q, l) /\ Songs(t, b, q, l, k)
  BY DEF Fetching, Sings
<1>3. m + 1 = n /\ Passed(t, q) = m /\ Taken(t, q) = m
  BY <1>1 DEF Passed, Taken
<1>4. PICK wf : Place(t, b, m, l, wf) /\ Says(q.tg, k, wf)
  BY <1>1, <1>2, <1>3 DEF Songs, Voice
<1>5. m \in b - 1 .. Len(t) /\ n \in b .. Len(t)
  BY <1>1, <1>4 DEF Place
<1>6. t[n].btype # "stop48" /\ (SinglePulse(t[n]) => n = Len(t))
  BY <1>5 DEF Orderly
<1>7. t[n].btype = "lend" => l = q.loop
  <2>1. SUFFICES ASSUME t[n].btype = "lend", NoLoops(t, b, m) PROVE FALSE
    BY <1>2, <1>3 DEF CountsLoop
  <2>2. PICK i \in b .. n : t[i].btype = "lstart"
    BY <1>5, <2>1 DEF Orderly
  <2>3. i # n
    BY <2>1, <2>2
  <2>4. i \in b .. m
    BY <1>1, <1>5, <2>2, <2>3
  <2> QED BY <2>1, <2>2, <2>4 DEF NoLoops
<1>8. (\E j : CountsLoop(t, b, r, j) /\ Songs(t, b, r, j, k)) /\ Ready(r)
  BY <1>1, <1>2, <1>6, <1>7, SongsTake
<1>9. PlayerInv(t, r)
  BY <1>1, TakeBlockKeeps
<1>10. r.cur # NoBlock => r.cur = n
  BY <1>1, TakeBlockMoves DEF Enters, Skips, Jumps
<1>11. r.sig # "stop48"
  BY <1>1, <1>6, <1>10, TakeBlockSignal
<1>12. Levelled(t, b, r, c)
  <2>1. SUFFICES ASSUME AllSteady(t, b) PROVE Holds(c, r.tg)
    BY DEF Levelled
  <2>2. Steady(t[n]) /\ q.tg.cur = c /\ Rose(q.tg)
    BY <1>5, <2>1 DEF AllSteady, Fetching, Levelled, Holds
  <2>3. q.tg.cur = q.tg.plast
    BY <1>1, <1>2, SongsSettle
  <2> QED BY <1>1, <2>2, <2>3, TakeHolds
<1>13. Met(t, b, r, k)
  <2>1. SUFFICES ASSUME Unlooped(t, b), NEW x \in b - 1 .. Taken(t, r) - 1
                 PROVE  Len(Heard(t, b)[x].w) <= k
    BY DEF Met
  <2>2. t[n].btype # "lend"
    BY <1>5, <2>1 DEF Unlooped, NoLoops
  <2>3. Takes(t, q, r, k, wf)
    BY <1>1, <1>4, <2>2, TakeSays
  <2>4. Taken(t, r) = n
    <3> HIDE DEF r, n
    <3>1. r.cur = n \/ (r.cur = NoBlock /\ r.nxt = TapeNext(t, n))
      BY <2>3 DEF Takes, n
    <3> QED BY <1>1, <3>1 DEF Taken, Passed, TapeNext, NoBlock
  <2>5. wf = Heard(t, b)[m] /\ k = Len(wf.w)
    BY <1>1, <1>4, <2>1, PlaceUnlooped, SaysEnd
  <2>6. x \in b - 1 .. Len(t) /\ x <= m
    <3> HIDE DEF r, n
    <3> QED BY <1>1, <1>3, <1>5, <2>1, <2>4
  <2>7. Grown(Heard(t, b)[x], Heard(t, b)[m])
    BY <1>5, <2>6, AllHeardIs DEF GrowAlong
  <2> QED BY <2>5, <2>7 DEF Grown
<1>14. b <= n
  BY <1>1, <1>5
<1> QED BY <1>8, <1>9, <1>10, <1>11, <1>12, <1>13, <1>14 DEF Fetching, Sings

LEMMA PlayFetches ==
  ASSUME NEW t \in Seq(Block), NEW b \in 1 .. Len(t), NEW q, NEW k, NEW c,
         Fetching(t, b, q, k, c), q.cur # NoBlock
  PROVE  Fetching(t, b, PlayBlock(t, q), k, c)
<1> DEFINE r == PlayBlock(t, q)
<1>1. PlayerInv(t, q) /\ q.cur \in 1 .. Len(t) /\ q.sig # "stop48" /\ b <= q.cur
  BY BlocksOfTape DEF Fetching, Sings, PlayerInv, At, NoBlock
<1>2. PICK l : CountsLoop(t, b, q, l) /\ Songs(t, b, q, l, k)
  BY DEF Fetching, Sings
<1>3. r.loop = q.loop /\ Songs(t, b, r, l, k) /\ Taken(t, r) = Taken(t, q)
  BY <1>1, <1>2, SongsPlay
<1>4. PlayerInv(t, r) /\ r.sig = q.sig
  BY <1>1, PlayBlockKeeps, PlayBlockSignal
<1>5. r.cur # NoBlock => r.cur = q.cur
  BY <1>1, PlayBlockMoves DEF Moves, Stays, Ends, GoesOn
<1>6. CountsLoop(t, b, r, l)
  BY <1>2, <1>3 DEF CountsLoop
<1>7. Levelled(t, b, r, c)
  <2>1. SUFFICES ASSUME AllSteady(t, b) PROVE Holds(c, r.tg)
    BY DEF Levelled
  <2>2. q.cur \in b .. Len(t)
    BY <1>1
  <2>3. Steady(t[q.cur]) /\ q.tg.cur = c /\ Rose(q.tg)
    BY <2>1, <2>2 DEF AllSteady, Fetching, Levelled, Holds
  <2>4. IsEnd(q.tg) => q.tg.cur = q.tg.plast
    BY <1>1, <1>2, SongsSettle
  <2> QED BY <1>1, <2>3, <2>4, PlayHolds
<1>8. Met(t, b, r, k)
  BY <1>3 DEF Fetching, Met
<1> QED BY <1>1, <1>3, <1>4, <1>5, <1>6, <1>7, <1>8 DEF Fetching, Sings

LEMMA NextFetches ==
  ASSUME NEW t \in Seq(Block), NEW b \in 1 .. Len(t), Orderly(t, b), NEW q, NEW k, NEW c,
         Fetching(t, b, q, k, c)
  PROVE  LET r == PlayerNext(t, q)
         IN  /\ Fetching(t, b, r, k, c)
             /\ Hungry(r) => r.cur = NoBlock /\ r.nxt = NoBlock /\ k = Len(AllHeard(t, b).w)
<1> DEFINE r == PlayerNext(t, q)
           A == {x \in Playable(t) : Fetching(t, b, x, k, c) /\ Ready(x)}
           B == {x \in Playable(t) : Fetching(t, b, x, k, c)}
<1>1. PlayerInv(t, q)
  BY DEF Fetching, Sings
<1>2. Fetching(t, b, r, k, c)
  <2>1. CASE ~Hungry(q)
    BY <2>1, PlayerNextIsFeed
  <2>2. CASE Hungry(q)
    <3>1. LoopsKeep(t, A, B)
      <4>0. ASSUME NEW x \in A PROVE x \in Playable(t) /\ PlayerInv(t, x) /\ Fetching(t, b, x, k, c) /\ Ready(x)
        BY PlayableIs
      <4>1. ASSUME NEW x \in A, x.cur # NoBlock
            PROVE  PlayBlock(t, x) \in (IF Hungry(PlayBlock(t, x)) THEN A ELSE B)
        BY <4>0, <4>1, StepsDescend, PlayFetches DEF Hungry, Ready
      <4>2. ASSUME NEW x \in A, x.cur = NoBlock, x.nxt # NoBlock PROVE TakeBlock(t, x) \in A
        BY <4>0, <4>2, StepsDescend, TakeFetches
      <4>3. ASSUME NEW x \in A, x.cur = NoBlock, x.nxt = NoBlock PROVE x \in B
        BY <4>0
      <4>4. A \in SUBSET Playable(t)
        OBVIOUS
      <4> HIDE DEF A, B
      <4> QED BY <4>1, <4>2, <4>3, <4>4 DEF LoopsKeep
    <3>2. q \in A
      BY <1>1, <2>2, PlayableIs DEF Hungry, Ready
    <3>3. r \in B
      <4> HIDE DEF A, B
      <4> QED BY <2>2, <3>1, <3>2, PlayerNextRule
    <3> QED BY <3>3
  <2> QED BY <2>1, <2>2
<1>3. ASSUME Hungry(r) PROVE r.cur = NoBlock /\ r.nxt = NoBlock /\ k = Len(AllHeard(t, b).w)
  <2>1. r.cur = NoBlock /\ r.nxt = NoBlock
    BY <1>1, <1>3, PlayerNextReturns
  <2>2. PICK l : Songs(t, b, r, l, k)
    BY <1>2 DEF Fetching, Sings
  <2>3. IsEnd(r.tg) /\ r.sig = "none" /\ Passed(t, r) = Len(t)
    BY <1>3, <2>1 DEF Hungry, Passed
  <2> HIDE DEF r
  <2>4. PICK wf : Place(t, b, Len(t), l, wf) /\ Says(r.tg, k, wf)
    BY <2>1, <2>2, <2>3 DEF Songs, Voice
  <2>5. wf = AllHeard(t, b)
    BY <2>4, PlaceGrow DEF AllHeard
  <2> QED BY <2>1, <2>3, <2>4, <2>5, SaysEnd
<1> QED BY <1>2, <1>3

(* The next event is given.                                                 *)
GivesEvent(t, b, q, k, c, e) ==
  LET w == AllHeard(t, b).w
  IN  /\ Sings(t, b, e.p, k + 1) /\ Met(t, b, e.p, k) /\ k + 1 \in 1 .. Len(w)
      /\ e.delay = w[k + 1].len
      /\ AllSteady(t, b) => w[k + 1].lvl = c /\ Holds(e.lvl, e.p.tg)
      /\ e.sig = q.sig

LEMMA EventGiven ==
  ASSUME NEW t \in Seq(Block), NEW b \in 1 .. Len(t), NEW q, NEW k, NEW c,
         Fetching(t, b, q, k, c), ~Hungry(q), PlayerGetNext(q).sig # "abort"
  PROVE  GivesEvent(t, b, q, k, c, PlayerGetNext(q))
<1> DEFINE e == PlayerGetNext(q)
           W == AllHeard(t, b)
<1>1. PlayerInv(t, q) /\ q \in PlayerType /\ q.tg \in ToneGenType /\ q.sig # "stop48"
      /\ (q.cur # NoBlock => b <= q.cur)
  BY DEF Fetching, Sings, PlayerInv, PlayerType
<1>2. PICK l : CountsLoop(t, b, q, l) /\ Songs(t, b, q, l, k)
  BY DEF Fetching, Sings
<1>3. /\ PlayerInv(t, e.p) /\ e.sig = q.sig /\ e.p.sig = "none"
      /\ e.p.cur = q.cur /\ e.p.nxt = q.nxt
  BY <1>1, PlayerGives DEF Gives
<1>4. W \in Wave /\ Len(W.w) \in Nat /\ k \in 0 .. Len(W.w)
  BY <1>1, <1>2, AllHeardIs, WaveFields, SongsSettle
<1>5. Taken(t, e.p) = Taken(t, q)
  BY <1>3 DEF Taken, Passed
<1>6. Met(t, b, e.p, k)
  BY <1>5 DEF Fetching, Met
<1>7. AllSteady(t, b) => q.tg.cur = c /\ Rose(q.tg)
  BY DEF Fetching, Levelled, Holds
<1>8. ASSUME e.p.loop = q.loop, Songs(t, b, e.p, l, k + 1) PROVE Sings(t, b, e.p, k + 1)
  BY <1>1, <1>2, <1>3, <1>5, <1>8 DEF CountsLoop, Sings
<1>9. CASE q.sig = "none"
  <2> DEFINE tg == GetNext(q.tg)
             r == [q EXCEPT !.tg = tg]
  <2>1. /\ CanGetNext(q.tg) /\ e.p = r /\ e.delay = tg.clen /\ e.lvl = tg.cur
    BY <1>9 DEF PlayerGetNext
  <2>2. PICK v : /\ Says(q.tg, k, v) /\ Grown(v, W)
                 /\ \A j : \A x : Says(x, j, v) => Songs(t, b, [q EXCEPT !.tg = x], l, j)
    BY <1>1, <1>2, <1>9, SongsSay DEF AllHeard
  <2>3. Gen(q.tg)
    BY <1>1 DEF PlayerInv, GenOn
  <2>4. k < Len(v.w) /\ v.w[k + 1] = EventOf(q.tg.cur, tg.clen) /\ Says(tg, k + 1, v)
    BY <2>1, <2>2, <2>3, SaysNext
  <2>5. Rose(q.tg) => Rose(tg)
    <3> DEFINE s == TakeEntry(q.tg)
    <3>1. /\ DOMAIN s = DOMAIN q.tg /\ s.pprev = q.tg.pprev /\ s.plast = q.tg.plast
          /\ "cur" \in DOMAIN q.tg /\ "rem" \in DOMAIN q.tg /\ "pprev" \in DOMAIN q.tg /\ "plast" \in DOMAIN q.tg
      BY <1>1 DEF TakeEntry, ToneGenType
    <3>2. tg = [s EXCEPT !.cur = EndLevel(s), !.rem = @ - 1]
      BY DEF GetNext
    <3> HIDE DEF s, tg
    <3>3. tg.pprev = s.pprev /\ tg.plast = s.plast
      BY <3>1, <3>2
    <3> QED BY <3>1, <3>3 DEF Rose
  <2> HIDE DEF tg
  <2>6. Songs(t, b, r, l, k + 1) /\ r.loop = q.loop /\ r.tg = tg
    BY <1>1, <2>2, <2>4 DEF PlayerType
  <2>7. k + 1 \in 1 .. Len(W.w) /\ W.w[k + 1] = EventOf(q.tg.cur, tg.clen)
    <3>1. Len(v.w) <= Len(W.w) /\ v \in Wave /\ \A i \in 1 .. Len(v.w) : W.w[i] = v.w[i]
      BY <2>2 DEF Grown
    <3>2. Len(v.w) \in Nat
      BY <3>1, WaveFields
    <3> HIDE DEF W, e, r
    <3>3. k + 1 \in 1 .. Len(v.w) /\ k + 1 \in 1 .. Len(W.w)
      BY <1>4, <2>4, <3>1, <3>2
    <3> QED BY <2>4, <3>1, <3>3
  <2> HIDE DEF r, e, W
  <2>8. Sings(t, b, e.p, k + 1)
    BY <1>8, <2>1, <2>6
  <2> QED BY <1>3, <1>6, <1>7, <2>1, <2>5, <2>6, <2>7, <2>8 DEF GivesEvent, EventOf, Holds, e, W
<1>10. CASE q.sig # "none"
  <2> DEFINE r == [q EXCEPT !.sig = "none"]
             v(u) == Signalled(u, q.sig)
  <2>1. e.p = r /\ e.delay = 0 /\ e.lvl = q.tg.cur
    BY <1>10 DEF PlayerGetNext
  <2>2. PICK u : /\ Says(q.tg, k, u) /\ IsEnd(q.tg) /\ Grown(Signalled(u, q.sig), W)
                 /\ Songs(t, b, r, l, k + 1)
    BY <1>1, <1>2, <1>10, SongsSignal DEF AllHeard
  <2>3. r.loop = q.loop /\ r.tg = q.tg /\ q.sig \in Signal
    BY <1>1 DEF PlayerType
  <2>4. Len(v(u).w) = k + 1 /\ v(u).w[k + 1] = [lvl |-> q.tg.cur, len |-> 0, sig |-> q.sig]
    BY <2>2, <2>3, SaysSignal
  <2>5. k + 1 \in 1 .. Len(W.w) /\ W.w[k + 1] = [lvl |-> q.tg.cur, len |-> 0, sig |-> q.sig]
    <3>1. Len(v(u).w) <= Len(W.w) /\ \A i \in 1 .. Len(v(u).w) : W.w[i] = v(u).w[i]
      BY <2>2 DEF Grown
    <3> HIDE DEF W, e, r, v
    <3>2. k + 1 \in 1 .. Len(v(u).w) /\ k + 1 \in 1 .. Len(W.w)
      BY <1>4, <2>4, <3>1
    <3> QED BY <2>4, <3>1, <3>2
  <2> HIDE DEF r, e, W
  <2>6. Sings(t, b, e.p, k + 1)
    BY <1>8, <2>1, <2>2, <2>3
  <2> QED BY <1>3, <1>6, <1>7, <2>1, <2>3, <2>5, <2>6 DEF GivesEvent, Holds, e, W
<1> QED BY <1>9, <1>10

(***************************************************************************)
(* The sampler at time `now': event k is heard, and lasts for the delay.    *)
(***************************************************************************)
EndOf(t, b) == EndTimes(AllHeard(t, b).w)

Hears(t, b, q, k, smp, now) ==
  LET w == AllHeard(t, b).w
  IN  /\ Sings(t, b, q, k) /\ EndOf(t, b)[k] = now + smp.delay
      /\ 0 < smp.delay => /\ k # 0 /\ smp.delay <= w[k].len
                          /\ AllSteady(t, b) => smp.lvl = w[k].lvl
      /\ Levelled(t, b, q, smp.next)
      /\ \E j \in 0 .. k : Met(t, b, q, j) /\ (EndOf(t, b)[j] <= now \/ j <= 1)

\* All is heard.
Over(t, b, q, now) ==
  /\ PlayerInv(t, q) /\ Hungry(q) /\ q.cur = NoBlock /\ q.nxt = NoBlock
  /\ Duration(AllHeard(t, b).w) <= now

Listens(t, b, q, smp, now) == Over(t, b, q, now) \/ \E k : Hears(t, b, q, k, smp, now)

\* With a pulse that goes on behind the sample.
Sampled(t, b, q, smp, now) ==
  Over(t, b, q, now) \/ \E k : Hears(t, b, q, k, smp, now) /\ 0 < smp.delay

LEMMA MetMore ==
  ASSUME NEW t \in Seq(Block), NEW b \in 1 .. Len(t), NEW q, PlayerInv(t, q), NEW j \in Nat, NEW k \in Nat, j <= k, Met(t, b, q, j)
  PROVE  Met(t, b, q, k)
<1>1. SUFFICES ASSUME Unlooped(t, b), NEW m \in b - 1 .. Taken(t, q) - 1 PROVE Len(Heard(t, b)[m].w) <= k
  BY DEF Met
<1>2. Len(Heard(t, b)[m].w) <= j
  BY <1>1 DEF Met
<1>3. m \in b - 1 .. Len(t)
  BY <1>1, PlacesType, BlocksOfTape
<1>4. Len(Heard(t, b)[m].w) \in Nat
  BY <1>3, AllHeardIs, WaveFields DEF GrowAlong
<1> QED BY <1>2, <1>4

\* The times of the tape.
LEMMA EndOfIs ==
  ASSUME NEW t \in Seq(Block), NEW b \in 1 .. Len(t)
  PROVE  LET w == AllHeard(t, b).w
             s == EndOf(t, b)
         IN  /\ Len(w) \in Nat /\ w \in Seq(Event) /\ \A n \in 1 .. Len(w) : w[n].len \in Nat
             /\ s[0] = 0 /\ \A n \in 1 .. Len(w) : s[n] = s[n - 1] + w[n].len
             /\ \A n \in 0 .. Len(w) : s[n] \in Nat
             /\ \A m \in 0 .. Len(w) : \A n \in m .. Len(w) : s[m] <= s[n]
<1> DEFINE w == AllHeard(t, b).w
<1>1. w \in Seq(Event)
  BY AllHeardIs
<1> HIDE DEF w
<1>2. \A n \in 1 .. Len(w) : w[n].len \in Nat
  BY <1>1, EventFields
<1>3. Len(w) \in Nat
  BY <1>1
<1> QED BY <1>1, <1>2, <1>3, EndTimesAre DEF EndOf, w

\* The sampler comes to the end of an event.
LEMMA HearsFetch ==
  ASSUME NEW t \in Seq(Block), NEW b \in 1 .. Len(t), Orderly(t, b), NEW q, NEW k, NEW smp \in SamplerType,
         NEW now \in Nat, Hears(t, b, q, k, smp, now)
  PROVE  LET c == smp.next
             r == PlayerNext(t, q)
         IN  /\ Fetching(t, b, r, k, c)
             /\ Hungry(r) => Over(t, b, r, now + smp.delay)
<1> DEFINE c == smp.next
           r == PlayerNext(t, q)
           s == EndOf(t, b)
           w == AllHeard(t, b).w
<1>1. /\ Sings(t, b, q, k) /\ s[k] = now + smp.delay /\ Levelled(t, b, q, c) /\ PlayerInv(t, q)
  BY DEF Hears, Sings
<1>2. k \in 0 .. Len(w)
  BY <1>1, SongsSettle DEF Sings
<1>3. Met(t, b, q, k)
  <2>1. PICK j \in 0 .. k : Met(t, b, q, j)
    BY DEF Hears
  <2>2. j \in Nat /\ k \in Nat /\ j <= k
    BY <1>2, <2>1
  <2> QED BY <1>1, <2>1, <2>2, MetMore
<1>4. Fetching(t, b, q, k, c)
  BY <1>1, <1>3 DEF Fetching
<1>5. Fetching(t, b, r, k, c) /\ (Hungry(r) => r.cur = NoBlock /\ r.nxt = NoBlock /\ k = Len(w))
  BY <1>4, NextFetches
<1>6. ASSUME Hungry(r) PROVE Over(t, b, r, now + smp.delay)
  <2>1. Duration(w) = s[k]
    BY <1>5, <1>6 DEF Duration, EndOf
  <2>2. s[k] \in Nat
    BY <1>2, EndOfIs
  <2> HIDE DEF r, s, w
  <2>3. Duration(w) <= now + smp.delay
    BY <1>1, <2>1, <2>2
  <2> QED BY <1>5, <1>6, <2>3 DEF Over, Fetching, Sings, w
<1> QED BY <1>5, <1>6

LEMMA OverStays ==
  ASSUME NEW t \in Seq(Block), NEW b \in 1 .. Len(t), NEW q, NEW now \in Nat, Over(t, b, q, now)
  PROVE  PlayerNext(t, q) = q /\ \A later \in Nat : now <= later => Over(t, b, q, later)
<1> DEFINE A == {q}
           d == Duration(AllHeard(t, b).w)
<1>1. PlayerInv(t, q) /\ Hungry(q) /\ q.cur = NoBlock /\ q.nxt = NoBlock /\ d <= now
  BY DEF Over
<1>2. A \in SUBSET Playable(t)
  BY <1>1, PlayableIs
<1>3. LoopsKeep(t, A, A)
  BY <1>1, <1>2 DEF LoopsKeep
<1>4. PlayerNext(t, q) \in A
  <2>1. q \in A
    OBVIOUS
  <2> HIDE DEF A
  <2> QED BY <1>1, <1>3, <2>1, PlayerNextRule
<1>5. d \in Nat
  BY EndOfIs DEF Duration, EndOf
<1> HIDE DEF d
<1>6. ASSUME NEW later \in Nat, now <= later PROVE d <= later
  BY <1>1, <1>5, <1>6
<1> QED BY <1>1, <1>4, <1>6 DEF Over, d

\* Less of the event is left.
LEMMA HearsLater ==
  ASSUME NEW t \in Seq(Block), NEW b \in 1 .. Len(t), NEW q, NEW k, NEW smp \in SamplerType,
         NEW now \in Nat, Hears(t, b, q, k, smp, now), NEW td \in Nat, smp.delay > td
  PROVE  LET u == [smp EXCEPT !.delay = @ - td]
         IN  Hears(t, b, q, k, u, now + td) /\ 0 < u.delay
<1> DEFINE u == [smp EXCEPT !.delay = @ - td]
           w == AllHeard(t, b).w
           s == EndOf(t, b)
           d == smp.delay - td
<1>1. u.delay = d /\ u.lvl = smp.lvl /\ u.next = smp.next /\ smp.delay \in Nat
  BY DEF SamplerType
<1>2. d \in Nat /\ 0 < d /\ 0 < smp.delay /\ d <= smp.delay
  BY <1>1
<1>3. /\ Sings(t, b, q, k) /\ s[k] = now + smp.delay
      /\ k # 0 /\ smp.delay <= w[k].len /\ (AllSteady(t, b) => smp.lvl = w[k].lvl)
      /\ Levelled(t, b, q, smp.next)
      /\ \E j \in 0 .. k : Met(t, b, q, j) /\ (s[j] <= now \/ j <= 1)
  BY <1>2 DEF Hears
<1>4. k \in 0 .. Len(w)
  BY <1>3, SongsSettle DEF Sings
<1>5. Len(w) \in Nat /\ (\A n \in 0 .. Len(w) : s[n] \in Nat) /\ w[k].len \in Nat
  BY <1>3, <1>4, EndOfIs
<1> HIDE DEF u, w, s
<1>6. PICK j \in 0 .. k : Met(t, b, q, j) /\ (s[j] <= now \/ j <= 1)
  BY <1>3
<1>7. s[j] \in Nat
  BY <1>4, <1>5, <1>6
<1>8. s[j] <= now + td \/ j <= 1
  BY <1>6, <1>7
<1>9. s[k] = (now + td) + d /\ d <= w[k].len
  <2>1. s[k] = now + smp.delay /\ smp.delay <= w[k].len /\ w[k].len \in Nat /\ smp.delay \in Nat
    BY <1>1, <1>3, <1>5
  <2> QED BY <1>2, <2>1
<1>10. Hears(t, b, q, k, u, now + td)
  <2>1. \E x \in 0 .. k : Met(t, b, q, x) /\ (s[x] <= now + td \/ x <= 1)
    BY <1>6, <1>8
  <2> HIDE DEF d
  <2> QED BY <1>1, <1>3, <1>9, <2>1 DEF Hears, w, s
<1> QED BY <1>1, <1>2, <1>10 DEF u

\* The next event begins.
LEMMA HearsGiven ==
  ASSUME NEW t \in Seq(Block), NEW b \in 1 .. Len(t), NEW q, NEW k \in Nat, NEW c, NEW now \in Nat,
         EndOf(t, b)[k] = now, NEW e, GivesEvent(t, b, q, k, c, e)
  PROVE  Hears(t, b, e.p, k + 1, [lvl |-> c, delay |-> e.delay, next |-> e.lvl], now)
<1> DEFINE w == AllHeard(t, b).w
           s == EndOf(t, b)
           u == [lvl |-> c, delay |-> e.delay, next |-> e.lvl]
<1>1. /\ Sings(t, b, e.p, k + 1) /\ Met(t, b, e.p, k) /\ k + 1 \in 1 .. Len(w)
      /\ e.delay = w[k + 1].len
      /\ AllSteady(t, b) => w[k + 1].lvl = c /\ Holds(e.lvl, e.p.tg)
  BY DEF GivesEvent
<1>2. u.lvl = c /\ u.delay = e.delay /\ u.next = e.lvl
  OBVIOUS
<1>3. w[k + 1].len \in Nat /\ s[k + 1] = s[(k + 1) - 1] + w[k + 1].len
  BY <1>1, EndOfIs
<1> HIDE DEF w, s, u
<1>4. (k + 1) - 1 = k /\ k + 1 # 0 /\ k \in 0 .. k + 1
  OBVIOUS
<1>5. s[k + 1] = now + e.delay /\ e.delay <= w[k + 1].len
  BY <1>1, <1>3, <1>4 DEF s
<1>6. s[k] <= now
  BY DEF s
<1>7. Levelled(t, b, e.p, e.lvl)
  BY <1>1 DEF Levelled
<1>8. Hears(t, b, e.p, k + 1, u, now)
  BY <1>1, <1>2, <1>4, <1>5, <1>6, <1>7 DEF Hears, w, s
<1> QED BY <1>8 DEF u

(* A sample is taken.                                                       *)
LEMMA CatchUpHears ==
  ASSUME NEW t \in Seq(Block), NEW b \in 1 .. Len(t), Orderly(t, b), NEW q, PlayerInv(t, q),
         NEW smp \in SamplerType, NEW now \in Nat, Listens(t, b, q, smp, now), NEW td \in Nat
  PROVE  LET r == CatchUp(t, q, smp, td)
         IN  r.sig \in {"stop", "abort"} \/ Sampled(t, b, r.p, r.s, now + td)
<1> DEFINE T == now + td
           A == {x \in Places(t) : \E n \in Nat : n + x[3] = T /\ Listens(t, b, x[1], x[2], n)}
           B == {r \in Outcomes(t) : r.sig \in {"stop", "abort"} \/ Sampled(t, b, r.p, r.s, T)}
<1>0. T \in Nat
  OBVIOUS
<1>1. ASSUME NEW x \in A PROVE IF GoesRound(t, x) THEN Onto(t, x) \in A ELSE Outcome(t, x) \in B
  <2> DEFINE h == x[1]
             u == x[2]
             m == x[3]
             r == PlayerNext(t, h)
             e == Fetched(t, x)
  <2>1. x \in Places(t) /\ h \in Playable(t) /\ u \in SamplerType /\ m \in Nat /\ u.delay \in Nat
    BY DEF Places, SamplerType
  <2>2. PICK n \in Nat : n + m = T /\ Listens(t, b, h, u, n)
    OBVIOUS
  <2>3. GoesRound(t, x) => Onto(t, x) \in Places(t)
    BY <2>1, RoundDescends
  <2>4. ~GoesRound(t, x) => Outcome(t, x) \in Outcomes(t)
    BY <2>1, OutcomeType
  <2> SUFFICES IF GoesRound(t, x)
               THEN \E z \in Nat : z + Onto(t, x)[3] = T /\ Listens(t, b, Onto(t, x)[1], Onto(t, x)[2], z)
               ELSE \/ Outcome(t, x).sig \in {"stop", "abort"}
                    \/ Sampled(t, b, Outcome(t, x).p, Outcome(t, x).s, T)
    BY <2>3, <2>4
  <2> HIDE DEF A, B, T
  <2>5. CASE u.delay > m
    <3> DEFINE v == [u EXCEPT !.delay = @ - m]
    <3>1. ~GoesRound(t, x) /\ Outcome(t, x).p = h /\ Outcome(t, x).s = v
      BY <2>5 DEF GoesRound, Outcome
    <3>2. CASE Over(t, b, h, n)
      BY <1>0, <2>1, <2>2, <3>1, <3>2, OverStays DEF Sampled
    <3>3. CASE ~Over(t, b, h, n)
      <4>1. PICK k : Hears(t, b, h, k, u, n)
        BY <2>2, <3>3 DEF Listens
      <4>2. Hears(t, b, h, k, v, n + m) /\ 0 < v.delay
        BY <2>1, <2>5, <4>1, HearsLater
      <4> HIDE DEF v
      <4> QED BY <2>2, <3>1, <4>2 DEF Sampled
    <3> QED BY <3>2, <3>3
  <2>6. CASE ~(u.delay > m) /\ Hungry(r)
    <3>1. ~GoesRound(t, x) /\ Outcome(t, x).p = r
      BY <2>6 DEF GoesRound, Outcome
    <3>2. CASE Over(t, b, h, n)
      BY <1>0, <2>1, <2>2, <3>1, <3>2, OverStays DEF Sampled
    <3>3. CASE ~Over(t, b, h, n)
      <4>1. PICK k : Hears(t, b, h, k, u, n)
        BY <2>2, <3>3 DEF Listens
      <4>2. Over(t, b, r, n + u.delay)
        BY <2>1, <2>6, <4>1, HearsFetch
      <4>3. n + u.delay \in Nat /\ n + u.delay <= T
        BY <2>1, <2>2, <2>6
      <4>4. Over(t, b, r, T)
        BY <1>0, <4>2, <4>3, OverStays
      <4> QED BY <3>1, <4>4 DEF Sampled
    <3> QED BY <3>2, <3>3
  <2>7. CASE ~(u.delay > m) /\ ~Hungry(r)
    <3>1. ~Over(t, b, h, n)
      BY <2>7, OverStays DEF Over
    <3>2. PICK k : Hears(t, b, h, k, u, n)
      BY <2>2, <3>1 DEF Listens
    <3>3. Fetching(t, b, r, k, u.next)
      BY <2>1, <3>2, HearsFetch
    <3>4. k \in 0 .. Len(AllHeard(t, b).w)
      BY <3>3, SongsSettle DEF Fetching, Sings
    <3>5. k \in Nat
      BY <3>4
    <3>6. EndOf(t, b)[k] = n + u.delay
      BY <3>2 DEF Hears
    <3>7. e = PlayerGetNext(r)
      BY DEF Fetched
    <3>8. CASE e.sig = "abort"
      BY <2>7, <3>8 DEF GoesRound, Outcome
    <3>9. CASE e.sig # "abort"
      <4>1. GivesEvent(t, b, r, k, u.next, e)
        BY <2>7, <3>3, <3>7, <3>9, EventGiven
      <4> DEFINE v == [lvl |-> u.next, delay |-> e.delay, next |-> e.lvl]
                 z == n + u.delay
      <4>2. z \in Nat /\ z + (m - u.delay) = T
        <5>1. n \in Nat /\ m \in Nat /\ u.delay \in Nat /\ n + m = T
          BY <2>1, <2>2
        <5> QED BY <5>1
      <4>3. Hears(t, b, e.p, k + 1, v, z)
        BY <3>5, <3>6, <4>1, <4>2, HearsGiven
      <4>4. CASE e.sig = "none"
        <5>1. GoesRound(t, x)
          BY <2>7, <4>4 DEF GoesRound
        <5>2. Onto(t, x)[1] = e.p /\ Onto(t, x)[2] = v /\ Onto(t, x)[3] = m - u.delay
          BY DEF Onto
        <5> HIDE DEF v, z, e
        <5> QED BY <4>2, <4>3, <5>1, <5>2 DEF Listens
      <4>5. CASE e.sig # "none"
        <5>1. ~GoesRound(t, x) /\ Outcome(t, x).sig = e.sig
          BY <2>7, <4>5 DEF GoesRound, Outcome
        <5>2. e.sig = r.sig /\ r.sig # "stop48" /\ PlayerInv(t, r)
          BY <3>3, <4>1 DEF GivesEvent, Fetching, Sings
        <5>3. r.sig \in Signal
          BY <5>2 DEF PlayerInv, PlayerType
        <5>4. e.sig = "stop"
          BY <4>5, <5>2, <5>3 DEF Signal
        <5> QED BY <5>1, <5>4
      <4> QED BY <4>4, <4>5
    <3> QED BY <3>8, <3>9
  <2> QED BY <2>5, <2>6, <2>7
<1>2. A \in SUBSET Places(t)
  OBVIOUS
<1>3. <<q, smp, td>> \in A
  BY PlayableIs DEF Places
<1>4. CatchUp(t, q, smp, td) \in B
  <2> HIDE DEF A, B
  <2> QED BY <1>1, <1>2, <1>3, CatchUpRule DEF RoundsKeep
<1> QED BY <1>4

(* A playback begins.                                                       *)
LEMMA BeginsHearing ==
  ASSUME NEW t \in Seq(Block), NEW b \in 1 .. Len(t), NEW q \in PlayerType, q.sig = "none",
         NEW smp \in SamplerType, smp.delay = 0, smp.next = 0
  PROVE  Hears(t, b, PlayerInit(q, b), 0, smp, 0)
<1> DEFINE r == PlayerInit(q, b)
           tg == TgInit(0)
<1>1. b \in 0 .. Len(t) /\ b \in Nat \ {0} /\ b # NoBlock
  BY BlocksOfTape DEF NoBlock
<1>2. r.cur = NoBlock /\ r.nxt = b /\ r.sig = "none" /\ r.tg = tg
  BY DEF PlayerInit, PlayerType
<1>3. PlayerInv(t, r) /\ Songs(t, b, r, 0, 0)
  BY <1>1, InitKeeps, SongsBegin
<1>4. Holds(0, tg)
  BY DEF Holds, Rose, TgInit
<1> HIDE DEF r, tg
<1>5. Taken(t, r) = b - 1
  BY <1>1, <1>2 DEF Taken, Passed
<1>6. CountsLoop(t, b, r, 0)
  BY <1>1, <1>5 DEF CountsLoop, NoLoops
<1>7. Sings(t, b, r, 0)
  BY <1>2, <1>3, <1>6 DEF Sings
<1>8. Met(t, b, r, 0)
  BY <1>1, <1>5 DEF Met
<1>9. Levelled(t, b, r, smp.next)
  BY <1>2, <1>4 DEF Levelled
<1>10. EndOf(t, b)[0] = 0
  BY EndOfIs
<1>11. EndOf(t, b)[0] = 0 + smp.delay /\ ~(0 < smp.delay)
  BY <1>10
<1>12. \E j \in 0 .. 0 : Met(t, b, r, j) /\ (EndOf(t, b)[j] <= 0 \/ j <= 1)
  BY <1>8
<1>13. Hears(t, b, r, 0, smp, 0)
  BY <1>7, <1>9, <1>11, <1>12 DEF Hears
<1> QED BY <1>13 DEF r

\* The player goes on to its next pulse while the first is heard.
LEMMA HearsOn ==
  ASSUME NEW t \in Seq(Block), NEW b \in 1 .. Len(t), Orderly(t, b), NEW q, NEW k \in 0 .. 1,
         NEW smp \in SamplerType, Hears(t, b, q, k, smp, 0)
  PROVE  Hears(t, b, PlayerNext(t, q), k, smp, 0)
<1> DEFINE r == PlayerNext(t, q)
<1>1. 0 \in Nat
  OBVIOUS
<1>2. Fetching(t, b, r, k, smp.next)
  BY <1>1, HearsFetch
<1> HIDE DEF r
<1>3. \E j \in 0 .. k : Met(t, b, r, j) /\ (EndOf(t, b)[j] <= 0 \/ j <= 1)
  BY <1>2 DEF Fetching
<1>4. Hears(t, b, r, k, smp, 0)
  BY <1>2, <1>3 DEF Hears, Fetching
<1> QED BY <1>4 DEF r

LEMMA SamplerInitHears ==
  ASSUME NEW t \in Seq(Block), NEW b \in 1 .. Len(t), Orderly(t, b), NEW q0 \in PlayerType,
         NEW smp \in SamplerType, SamplerInit(t, q0, smp, b).sig # "abort"
  PROVE  LET i == SamplerInit(t, q0, smp, b)
         IN  Listens(t, b, PlayerNext(t, i.p), i.s, 0)
<1> DEFINE q1 == PlayerInit(q0, b)
           q  == PlayerNext(t, q1)
           e  == PlayerGetNext(q)
           i  == SamplerInit(t, q0, smp, b)
           still == [lvl |-> 0, delay |-> 0, next |-> 0]
<1>1. still \in SamplerType /\ still.delay = 0 /\ still.next = 0 /\ 0 \in Nat
  BY DEF SamplerType, Level
<1>2. q1.tg.cur = 0 /\ q1.sig = q0.sig
  BY DEF PlayerInit, PlayerType, TgInit
<1>3. b \in 0 .. Len(t) /\ b # NoBlock
  BY BlocksOfTape DEF NoBlock
<1>4. PlayerInv(t, i.p) /\ i.s \in SamplerType
  BY <1>3, SamplerInitKeeps
<1>5. i = IF Hungry(q)
          THEN [p |-> q, s |-> [smp EXCEPT !.lvl = q1.tg.cur], sig |-> "none"]
          ELSE [p |-> e.p, s |-> [lvl |-> q1.tg.cur, delay |-> e.delay, next |-> e.lvl],
                sig |-> e.sig]
  BY DEF SamplerInit
<1> HIDE DEF i, still
<1>6. CASE q0.sig # "none"
  <2> DEFINE q2 == [q0 EXCEPT !.sig = "none"]
             h == PlayerInit(q2, b)
  <2>1. q = q1 /\ ~Hungry(q)
    BY <1>2, <1>6, PlayerNextIsFeed DEF Hungry
  <2>2. e = [p |-> [q1 EXCEPT !.sig = "none"], delay |-> 0, lvl |-> 0, sig |-> q0.sig]
    BY <1>2, <1>6, <2>1 DEF PlayerGetNext
  <2>3. [q1 EXCEPT !.sig = "none"] = h
    BY DEF PlayerInit, PlayerType
  <2>4. q2 \in PlayerType /\ q2.sig = "none"
    BY DEF PlayerType, Signal
  <2> HIDE DEF h, q2
  <2>5. i.p = h /\ i.s = still
    <3> HIDE DEF q, q1, e
    <3> QED BY <1>2, <1>5, <2>1, <2>2, <2>3 DEF still
  <2>6. Hears(t, b, h, 0, still, 0)
    BY <1>1, <2>4, BeginsHearing DEF h
  <2>7. Hears(t, b, PlayerNext(t, h), 0, still, 0)
    BY <1>1, <2>6, HearsOn
  <2> QED BY <2>5, <2>7 DEF Listens, i
<1>7. CASE q0.sig = "none"
  <2>1. Hears(t, b, q1, 0, still, 0)
    BY <1>1, <1>7, BeginsHearing
  <2>2. Fetching(t, b, q, 0, 0) /\ (Hungry(q) => Over(t, b, q, 0))
    BY <1>1, <2>1, HearsFetch
  <2>3. CASE Hungry(q)
    BY <1>1, <1>5, <2>2, <2>3, OverStays DEF Listens, i
  <2>4. CASE ~Hungry(q)
    <3>1. i.p = e.p /\ i.s = [lvl |-> 0, delay |-> e.delay, next |-> e.lvl] /\ i.sig = e.sig
      BY <1>2, <1>5, <2>4
    <3>2. e.sig # "abort"
      BY <3>1 DEF i
    <3>3. GivesEvent(t, b, q, 0, 0, e)
      BY <2>2, <2>4, <3>2, EventGiven
    <3>4. EndOf(t, b)[0] = 0
      BY EndOfIs
    <3> HIDE DEF q, e
    <3>5. Hears(t, b, e.p, 0 + 1, i.s, 0)
      BY <1>1, <3>1, <3>3, <3>4, HearsGiven
    <3>6. 0 + 1 \in 0 .. 1
      OBVIOUS
    <3>7. Hears(t, b, PlayerNext(t, e.p), 0 + 1, i.s, 0)
      BY <1>4, <3>5, <3>6, HearsOn
    <3> QED BY <3>1, <3>7 DEF Listens, i
  <2> QED BY <2>3, <2>4
<1> QED BY <1>6, <1>7

(* Without loops the player has given no more than the blocks it has taken. *)
LEMMA VoiceWithin ==
  ASSUME NEW q \in PlayerType, NEW k, NEW wf, Voice(q, k, wf)
  PROVE  k <= Len(wf.w)
<1>1. q.sig \in Signal
  BY DEF PlayerType
<1>2. CASE q.sig = "none"
  BY <1>2, WaveFields DEF Voice, Says, Tuned
<1>3. CASE q.sig # "none"
  <2>1. PICK u : Says(q.tg, k, u) /\ IsEnd(q.tg) /\ wf = Signalled(u, q.sig)
    BY <1>3 DEF Voice
  <2>2. u \in Wave /\ k \in 0 .. Len(u.w)
    BY <2>1 DEF Says, Tuned
  <2>3. k \in Nat
    BY <2>2, WaveFields
  <2>4. Len(wf.w) = k + 1
    <3> DEFINE v == Signalled(u, q.sig)
    <3>1. Len(v.w) = k + 1 /\ v.w[k + 1] = [lvl |-> q.tg.cur, len |-> 0, sig |-> q.sig]
      BY <1>1, <2>1, SaysSignal
    <3> QED BY <2>1, <3>1
  <2> QED BY <2>3, <2>4
<1> QED BY <1>2, <1>3

LEMMA SongsWithin ==
  ASSUME NEW t \in Seq(Block), NEW b \in 1 .. Len(t), Unlooped(t, b), NEW q, PlayerInv(t, q),
         NEW k \in Nat, NEW l, Songs(t, b, q, l, k)
  PROVE  Taken(t, q) \in b - 1 .. Len(t) /\ k <= Len(Heard(t, b)[Taken(t, q)].w)
<1> DEFINE H == Heard(t, b)
<1>1. q \in PlayerType /\ q.idx \in Nat /\ q.pauseDone \in BOOLEAN
  BY DEF PlayerInv, PlayerType
<1>2. CASE q.cur = NoBlock
  <2>1. PICK wf : Place(t, b, Passed(t, q), l, wf) /\ Voice(q, k, wf)
    BY <1>2 DEF Songs
  <2>2. wf = H[Passed(t, q)] /\ Passed(t, q) \in b - 1 .. Len(t)
    BY <2>1, PlaceUnlooped DEF Place
  <2> HIDE DEF H
  <2>3. k <= Len(wf.w)
    BY <1>1, <2>1, VoiceWithin
  <2> QED BY <1>2, <2>2, <2>3 DEF Taken, H
<1>3. CASE q.cur # NoBlock
  <2> DEFINE c == t[q.cur]
  <2>1. q.cur \in 1 .. Len(t) /\ c \in Block /\ Fits(c, q.idx)
    BY <1>3, BlocksOfTape DEF PlayerInv, At, NoBlock, CurFits
  <2>2. PICK wf \in Wave : Place(t, b, q.cur, l, Sound(wf, c)) /\ BlockVoice(c, q, k, wf)
    BY <1>3 DEF Songs
  <2>3. Sound(wf, c) = H[q.cur] /\ q.cur \in b - 1 .. Len(t)
    BY <2>2, PlaceUnlooped DEF Place
  <2> HIDE DEF c, H
  <2> DEFINE v == Sound(wf, c)
  <2>4. k <= Len(v.w)
    <3>1. CASE c.btype \in Piecemeal
      <4> DEFINE u == Sofar(wf, c, q.idx, q.pauseDone)
      <4>1. c.btype = "pulses" => q.idx <= Len(c.lens)
        BY <1>1, <2>1, BlockFields DEF PulsesBlock, Fits
      <4>2. c.btype \in HasBytes => q.idx <= Len(c.data)
        BY <2>1 DEF Fits
      <4>3. Grown(u, v)
        BY <1>1, <2>1, <3>1, <4>1, <4>2, SofarGrow
      <4>4. Says(q.tg, k, u)
        BY <2>2, <3>1 DEF BlockVoice
      <4> HIDE DEF u, v
      <4>5. u \in Wave /\ v \in Wave /\ k \in 0 .. Len(u.w) /\ Len(u.w) <= Len(v.w)
        BY <4>3, <4>4 DEF Says, Tuned, Grown
      <4>6. Len(u.w) \in Nat /\ Len(v.w) \in Nat
        BY <4>5, WaveFields
      <4> QED BY <4>5, <4>6
    <3>2. CASE c.btype \notin Piecemeal
      <4>1. Voice(q, k, v)
        BY <2>2, <3>2 DEF BlockVoice
      <4> HIDE DEF v
      <4> QED BY <1>1, <4>1, VoiceWithin
    <3> QED BY <3>1, <3>2
  <2> QED BY <1>3, <2>3, <2>4 DEF Taken, H
<1> QED BY <1>2, <1>3

\* When the blocks up to n are over.
LEMMA HeardEnds ==
  ASSUME NEW t \in Seq(Block), NEW b \in 1 .. Len(t), NEW n \in b - 1 .. Len(t)
  PROVE  LET m == Len(Heard(t, b)[n].w)
         IN  /\ m \in 0 .. Len(AllHeard(t, b).w)
             /\ Duration(Heard(t, b)[n].w) = EndOf(t, b)[m]
<1> DEFINE v == Heard(t, b)[n]
           W == AllHeard(t, b)
<1>1. Grown(v, W)
  BY AllHeardIs
<1> HIDE DEF v, W
<1>2. Duration(v.w) = EndTimes(W.w)[Len(v.w)]
  BY <1>1, TimesStay
<1>3. v \in Wave /\ W \in Wave /\ Len(v.w) <= Len(W.w)
  BY <1>1 DEF Grown
<1>4. Len(v.w) \in Nat /\ Len(W.w) \in Nat
  BY <1>3, WaveFields
<1>5. Len(v.w) \in 0 .. Len(W.w)
  BY <1>3, <1>4
<1> QED BY <1>2, <1>5 DEF EndOf, v, W

(* What is heard is what the level is.                                      *)
LEMMA HearsLevel ==
  ASSUME NEW t \in Seq(Block), NEW b \in 1 .. Len(t), AllSteady(t, b), NEW q, NEW smp \in SamplerType,
         NEW now \in Nat, Sampled(t, b, q, smp, now), now < Duration(AllHeard(t, b).w)
  PROVE  smp.lvl = LevelAt(AllHeard(t, b).w, now)
<1> DEFINE w == AllHeard(t, b).w
           s == EndOf(t, b)
<1>1. /\ Len(w) \in Nat /\ w \in Seq(Event) /\ \A n \in 1 .. Len(w) : w[n].len \in Nat
      /\ \A n \in 1 .. Len(w) : s[n] = s[n - 1] + w[n].len
      /\ \A n \in 0 .. Len(w) : s[n] \in Nat
  BY EndOfIs
<1>2. Duration(w) \in Nat
  <2>1. Duration(w) = s[Len(w)]
    BY DEF Duration, EndOf
  <2> HIDE DEF w, s
  <2> QED BY <1>1, <2>1
<1>3. ~Over(t, b, q, now)
  <2> HIDE DEF w
  <2>1. ~(Duration(w) <= now)
    BY <1>2 DEF w
  <2> QED BY <2>1 DEF Over, w
<1>4. PICK k : Hears(t, b, q, k, smp, now) /\ 0 < smp.delay
  BY <1>3 DEF Sampled
<1>5. /\ Sings(t, b, q, k) /\ s[k] = now + smp.delay /\ k # 0 /\ smp.delay <= w[k].len
      /\ smp.lvl = w[k].lvl
  BY <1>4 DEF Hears
<1>6. k \in 0 .. Len(w)
  BY <1>5, SongsSettle DEF Sings
<1>7. smp.delay \in Nat
  BY DEF SamplerType
<1> HIDE DEF s
<1>8. s[k - 1] <= now /\ now < s[k] /\ k \in 1 .. Len(w)
  <2> HIDE DEF w
  <2>1. k \in 1 .. Len(w) /\ k - 1 \in 0 .. Len(w)
    BY <1>1, <1>5, <1>6
  <2>2. s[k] = s[k - 1] + w[k].len /\ s[k - 1] \in Nat /\ w[k].len \in Nat
    BY <1>1, <2>1
  <2>3. s[k] = now + smp.delay /\ smp.delay <= w[k].len /\ 0 < smp.delay
    BY <1>4, <1>5
  <2>4. s[k - 1] <= now /\ now < s[k]
    BY <1>7, <2>2, <2>3
  <2> QED BY <2>1, <2>4
<1> HIDE DEF w
<1>9. LevelAt(w, now) = w[k].lvl
  BY <1>1, <1>8, LevelWithin DEF s, EndOf, w
<1> QED BY <1>5, <1>9 DEF w

(* The place on the tape is the block that is heard.                        *)
LEMMA HearsPlace ==
  ASSUME NEW t \in Seq(Block), NEW b \in 1 .. Len(t), Unlooped(t, b), NEW q, NEW smp \in SamplerType,
         NEW now \in Nat, Listens(t, b, q, smp, now), PlayerCurBlock(q) # NoBlock
  PROVE  LET c     == PlayerCurBlock(q)
             w     == AllHeard(t, b).w
             first == IF w = <<>> THEN 0 ELSE EndTimes(w)[1]
             ends(n) == Duration(Heard(t, b)[n].w)
         IN  /\ b < c => ends(c - 2) <= now \/ ends(c - 2) <= first
             /\ now <= ends(c)
<1> DEFINE c == PlayerCurBlock(q)
           w == AllHeard(t, b).w
           s == EndOf(t, b)
           first == IF w = <<>> THEN 0 ELSE EndTimes(w)[1]
           H == Heard(t, b)
           z == Len(t)
<1>1. ~Over(t, b, q, now)
  BY DEF Over, PlayerCurBlock
<1>2. PICK k : Hears(t, b, q, k, smp, now)
  BY <1>1 DEF Listens
<1>3. PlayerInv(t, q) /\ (q.cur # NoBlock => b <= q.cur) /\ s[k] = now + smp.delay
  BY <1>2 DEF Hears, Sings
<1>4. PICK l : Songs(t, b, q, l, k)
  BY <1>2 DEF Hears, Sings
<1>5. PICK j \in 0 .. k : Met(t, b, q, j) /\ (s[j] <= now \/ j <= 1)
  BY <1>2 DEF Hears
<1>6. /\ Len(w) \in Nat /\ w \in Seq(Event) /\ s[0] = 0 /\ \A n \in 0 .. Len(w) : s[n] \in Nat
      /\ \A m \in 0 .. Len(w) : \A n \in m .. Len(w) : s[m] <= s[n]
  BY EndOfIs
<1>7. k \in 0 .. Len(w)
  BY <1>3, <1>4, SongsSettle
<1>8. k \in Nat /\ k <= Len(w) /\ j \in Nat /\ j <= k /\ smp.delay \in Nat
  <2> HIDE DEF w
  <2> QED BY <1>5, <1>6, <1>7 DEF SamplerType
<1>9. Taken(t, q) \in b - 1 .. z /\ k <= Len(H[Taken(t, q)].w)
  BY <1>3, <1>4, <1>8, SongsWithin
<1>10. \A n \in b - 1 .. z : LET m == Len(H[n].w) IN m \in 0 .. Len(w) /\ Duration(H[n].w) = s[m]
  BY HeardEnds
<1>11. GrowAlong(b - 1 .. z, H)
  BY AllHeardIs
<1>12. /\ c \in 1 .. z /\ z \in Nat /\ b \in Nat \ {0}
       /\ (Taken(t, q) = c \/ Taken(t, q) = c - 1) /\ c - 1 <= Taken(t, q)
  BY <1>3, PlacesType DEF PlayerCurBlock, Taken, Passed, NoBlock
<1> HIDE DEF c, w, s, H, z
<1>13. now <= Duration(H[c].w)
  <2> DEFINE x == Taken(t, q)
             m == Len(H[c].w)
             n == Len(H[x].w)
  <2>1. x \in b - 1 .. z /\ c \in b - 1 .. z /\ x <= c
    BY <1>9, <1>12
  <2>2. n <= m
    BY <1>11, <2>1 DEF GrowAlong, Grown
  <2>3. n \in 0 .. Len(w) /\ m \in 0 .. Len(w) /\ Duration(H[c].w) = s[m]
    BY <1>10, <2>1
  <2>4. k <= n
    BY <1>9
  <2> HIDE DEF x, m, n
  <2>5. m \in k .. Len(w)
    BY <1>6, <1>8, <2>2, <2>3, <2>4
  <2>6. s[k] <= s[m] /\ s[k] \in Nat /\ s[m] \in Nat
    BY <1>6, <1>7, <2>3, <2>5
  <2>7. s[k] = now + smp.delay /\ smp.delay \in Nat
    BY <1>3, <1>8
  <2>8. now <= s[m]
    BY <2>6, <2>7
  <2> QED BY <2>3, <2>8 DEF m
<1>14. ASSUME b < c PROVE Duration(H[c - 2].w) <= now \/ Duration(H[c - 2].w) <= first
  <2> DEFINE x == c - 2
             m == Len(H[x].w)
  <2>1. x \in b - 1 .. Taken(t, q) - 1 /\ x \in b - 1 .. z
    BY <1>9, <1>12, <1>14
  <2>2. m <= j
    BY <1>5, <2>1 DEF Met, H
  <2>3. m \in 0 .. Len(w) /\ Duration(H[x].w) = s[m]
    BY <1>10, <2>1
  <2> HIDE DEF x, m, first
  <2>4. CASE s[j] <= now
    BY <1>6, <1>8, <2>2, <2>3, <2>4 DEF x
  <2>5. CASE j <= 1
    BY <1>6, <1>8, <2>2, <2>3, <2>5 DEF first, x, s, EndOf, w
  <2> QED BY <1>5, <2>4, <2>5
<1> QED BY <1>13, <1>14 DEF c, w, H, first

(***************************************************************************)
(* The deck: what it plays is heard in time.                                *)
(***************************************************************************)
Listening(b) ==
  IF elapsed = 0 THEN Listens(tape, b, player, sampler, 0)
  ELSE curSmp = sampler.lvl /\ Sampled(tape, b, player, sampler, elapsed * DeltaT)

DeckListens ==
  /\ elapsed \in Nat
  /\ playing /\ from # <<>> /\ elapsed < MaxElapsed =>
       \E b \in 1 .. Len(tape) :
         from = SubSeq(tape, b, Len(tape)) /\ (Orderly(tape, b) => Listening(b))

HearInv == DeckInv /\ DeckListens

LEMMA ListensNow ==
  ASSUME NEW b, Listening(b)
  PROVE  Listens(tape, b, player, sampler, elapsed * DeltaT)
BY DeckAssumption DEF Listening, Sampled, Listens

LEMMA HearInitially == Init => HearInv
<1> SUFFICES ASSUME Init PROVE HearInv
  OBVIOUS
<1>1. ~playing /\ elapsed \in Nat
  BY DEF Init
<1> QED BY <1>1, DeckInitially DEF HearInv, DeckListens

LEMMA SilentDeck ==
  ASSUME DeckListens, playing' = FALSE, elapsed' = elapsed PROVE DeckListens'
BY DEF DeckListens

LEMMA SameDeck ==
  ASSUME DeckListens, UNCHANGED <<tape, playing, curSmp, player, sampler, from, elapsed>>
  PROVE  DeckListens'
BY DEF DeckListens, Listening

LEMMA PlayListens == HearInv /\ Play => DeckListens'
<1> SUFFICES ASSUME HearInv, Play PROVE DeckListens'
  OBVIOUS
<1> DEFINE i == SamplerInit(tape, player, sampler, curBlock)
           q == PlayerNext(tape, i.p)
<1>1. /\ DeckTypes /\ DeckListens /\ tape \in Seq(Block)
      /\ player \in PlayerType /\ sampler \in SamplerType
  BY DEF HearInv, DeckInv, DeckTypes
<1>2. CASE Crash
  BY <1>1, <1>2, SameDeck DEF Crash, deckVars
<1>3. CASE /\ (loaded \/ curBlock = NoBlock) /\ i.sig # "abort"
           /\ player' = q
           /\ sampler' = i.s
           /\ from' = IF curBlock = NoBlock THEN <<>> ELSE SubSeq(tape, curBlock, Len(tape))
           /\ elapsed' = 0
           /\ UNCHANGED <<tape, curBlock>>
  <2>1. ASSUME from' # <<>> PROVE curBlock \in 1 .. Len(tape) /\ from' = SubSeq(tape, curBlock, Len(tape))
    BY <1>1, <1>3, <2>1, BlocksOfTape DEF DeckTypes, NoBlock
  <2>2. ASSUME from' # <<>>, Orderly(tape, curBlock) PROVE Listens(tape, curBlock, q, i.s, 0)
    BY <1>1, <1>3, <2>1, <2>2, SamplerInitHears
  <2> HIDE DEF i, q
  <2>3. ASSUME NEW b, b = curBlock, from' # <<>>, Orderly(tape', b) PROVE Listening(b)'
    BY <1>3, <2>2, <2>3 DEF Listening
  <2>4. elapsed' \in Nat
    BY <1>3
  <2>5. ASSUME from' # <<>>
        PROVE  \E b \in 1 .. Len(tape') :
                 from' = SubSeq(tape', b, Len(tape')) /\ (Orderly(tape', b) => Listening(b)')
    <3>1. PICK b \in 1 .. Len(tape) : b = curBlock
      BY <2>1, <2>5
    <3>2. Orderly(tape', b) => Listening(b)'
      BY <2>3, <2>5, <3>1
    <3> QED BY <1>3, <2>1, <2>5, <3>1, <3>2
  <2> QED BY <2>4, <2>5 DEF DeckListens
<1> QED BY <1>2, <1>3 DEF Play

LEMMA GetSmpListens == HearInv /\ GetSmp => DeckListens'
<1> SUFFICES ASSUME HearInv, GetSmp PROVE DeckListens'
  OBVIOUS
<1> DEFINE r == CatchUp(tape, player, sampler, DeltaT)
           on == ~StopsPlayback(r.sig)
<1>1. /\ DeckListens /\ playing /\ tape \in Seq(Block) /\ PlayerInv(tape, player)
      /\ sampler \in SamplerType
  BY DEF HearInv, DeckInv, DeckTypes, GetSmp
<1>2. DeltaT \in Nat /\ elapsed \in Nat
  BY <1>1, DeckAssumption DEF DeckListens
<1>3. CASE r.sig = "abort"
  BY <1>1, <1>3, SameDeck DEF GetSmp, Crash, deckVars
<1>4. CASE r.sig # "abort"
  <2>1. /\ player' = r.p /\ sampler' = r.s /\ curSmp' = r.s.lvl /\ playing' = on
        /\ elapsed' = IF elapsed < MaxElapsed THEN elapsed + 1 ELSE elapsed
        /\ tape' = tape /\ from' = from
    BY <1>4 DEF GetSmp
  <2>2. r.sig = "stop" => ~on
    BY DEF StopsPlayback
  <2>3. elapsed' \in Nat
    BY <1>2, <2>1
  <2>4. ASSUME playing', from' # <<>>, elapsed' < MaxElapsed
        PROVE  \E b \in 1 .. Len(tape') :
                 from' = SubSeq(tape', b, Len(tape')) /\ (Orderly(tape', b) => Listening(b)')
    <3>1. elapsed < MaxElapsed /\ elapsed' = elapsed + 1
      BY <2>1, <2>4
    <3>2. PICK b \in 1 .. Len(tape) :
            from = SubSeq(tape, b, Len(tape)) /\ (Orderly(tape, b) => Listening(b))
      BY <1>1, <2>1, <2>4, <3>1 DEF DeckListens
    <3>3. r.sig # "stop"
      BY <2>1, <2>2, <2>4
    <3>4. ASSUME Orderly(tape, b) PROVE Listening(b)'
      <4> DEFINE now == elapsed * DeltaT
      <4>1. now \in Nat
        BY <1>2
      <4>2. Listens(tape, b, player, sampler, now)
        BY <3>2, <3>4, ListensNow
      <4>3. Sampled(tape, b, r.p, r.s, now + DeltaT)
        <5> HIDE DEF now
        <5> QED BY <1>1, <1>2, <1>4, <3>3, <3>4, <4>1, <4>2, CatchUpHears
      <4>4. now + DeltaT = elapsed' * DeltaT /\ elapsed' # 0
        BY <1>2, <3>1
      <4>5. curSmp' = sampler'.lvl
        BY <2>1
      <4> HIDE DEF now, r, on
      <4>6. Sampled(tape, b, r.p, r.s, elapsed' * DeltaT)
        BY <4>3, <4>4
      <4> QED BY <2>1, <4>4, <4>5, <4>6 DEF Listening
    <3> QED BY <2>1, <3>2, <3>4
  <2> QED BY <2>3, <2>4 DEF DeckListens
<1> QED BY <1>3, <1>4

LEMMA HearStep == HearInv /\ [Next]_vars => HearInv'
<1> SUFFICES ASSUME HearInv, [Next]_vars PROVE DeckListens'
  BY DeckStep DEF HearInv
<1>1. DeckListens
  BY DEF HearInv
<1>2. ASSUME Crash PROVE DeckListens'
  BY <1>1, <1>2, SameDeck DEF Crash, deckVars
<1>3. ASSUME NEW b, StoppedAt(b), elapsed' = elapsed PROVE DeckListens'
  BY <1>1, <1>3, SilentDeck DEF StoppedAt
<1>4. CASE New
  BY <1>3, <1>4 DEF New
<1>5. CASE Open
  BY <1>3, <1>5 DEF Open
<1>6. CASE OpenFails
  BY <1>3, <1>6 DEF OpenFails
<1>7. CASE SaveNothing
  BY <1>2, <1>7 DEF SaveNothing
<1>8. CASE Unpause
  BY <1>1, <1>8, SameDeck DEF Unpause
<1>9. CASE Play
  BY <1>9, PlayListens
<1>10. CASE Pause
  BY <1>1, <1>10, SameDeck DEF Pause
<1>11. CASE Stop
  BY <1>3, <1>11 DEF Stop
<1>12. CASE Rewind
  BY <1>2, <1>3, <1>12 DEF Rewind
<1>13. CASE NextBlock
  BY <1>2, <1>3, <1>13 DEF NextBlock
<1>14. CASE Record
  BY <1>1, <1>2, <1>14 DEF Record, DeckListens
<1>15. CASE Set48k
  BY <1>1, <1>15, SameDeck DEF Set48k
<1>16. CASE GetSmp
  BY <1>16, GetSmpListens
<1>17. CASE UNCHANGED vars
  BY <1>1, <1>17, SameDeck DEF vars, deckVars
<1> QED
  BY <1>4, <1>5, <1>6, <1>7, <1>8, <1>9, <1>10, <1>11, <1>12, <1>13, <1>14, <1>15, <1>16, <1>17
     DEF Next

LEMMA HearInvariant == Spec => []HearInv
<1>1. Init => HearInv
  BY HearInitially
<1>2. HearInv /\ [Next]_vars => HearInv'
  BY HearStep
<1> QED BY <1>1, <1>2, PTL DEF Spec

\* The waveform that a playback is measured by.
LEMMA PlaysFrom ==
  ASSUME HearInv, playing, from # <<>>, elapsed < MaxElapsed, Undisturbed
  PROVE  /\ Start \in 1 .. Len(tape) /\ tape \in Seq(Block) /\ sampler \in SamplerType
         /\ Len(tape) - Len(from) = Start - 1 /\ elapsed * DeltaT \in Nat
         /\ Listening(Start)
<1>1. tape \in Seq(Block) /\ sampler \in SamplerType /\ Len(tape) \in Nat
  BY DEF HearInv, DeckInv, DeckTypes
<1>2. PICK b \in 1 .. Len(tape) :
        from = SubSeq(tape, b, Len(tape)) /\ (Orderly(tape, b) => Listening(b))
  BY DEF HearInv, DeckListens
<1>3. Len(from) = Len(tape) - b + 1
  BY <1>1, <1>2
<1>4. Start = b /\ Len(tape) - Len(from) = b - 1
  BY <1>1, <1>3 DEF Start
<1>5. Orderly(tape, b)
  BY <1>4 DEF Undisturbed, Orderly, SinglePulse
<1>6. elapsed * DeltaT \in Nat
  BY DeckAssumption DEF HearInv, DeckListens
<1> QED BY <1>1, <1>2, <1>4, <1>5, <1>6

(* What the emulator samples is the level of the tape at that time, for all *)
(* tapes with their loops, whatever the sampling rate, wherever Play is     *)
(* pressed, and with whatever pauses and buttons before and in between.     *)
THEOREM SamplesCorrect == Spec => []SampleIsWaveform
<1>1. HearInv => SampleIsWaveform
  <2> DEFINE w == Waveform(tape, Start)
             time == elapsed * DeltaT
  <2> SUFFICES ASSUME HearInv, playing, from # <<>>, 0 < elapsed, elapsed < MaxElapsed,
                      Undisturbed, \A n \in Start .. Len(tape) : Steady(tape[n]),
                      time < Duration(w)
               PROVE  curSmp = LevelAt(w, time)
    BY DEF SampleIsWaveform
  <2>1. /\ Start \in 1 .. Len(tape) /\ tape \in Seq(Block) /\ sampler \in SamplerType
        /\ time \in Nat /\ Listening(Start)
    BY PlaysFrom
  <2>2. elapsed # 0
    OBVIOUS
  <2>3. curSmp = sampler.lvl /\ Sampled(tape, Start, player, sampler, time)
    BY <2>1, <2>2 DEF Listening
  <2>4. w = AllHeard(tape, Start).w
    BY DEF Waveform, AllHeard
  <2>5. AllSteady(tape, Start)
    BY DEF AllSteady
  <2> HIDE DEF time, w
  <2>6. sampler.lvl = LevelAt(AllHeard(tape, Start).w, time)
    BY <2>1, <2>3, <2>4, <2>5, HearsLevel
  <2> QED BY <2>3, <2>4, <2>6
<1> QED BY <1>1, HearInvariant, PTL

(* The deck's position is the block that is heard, or the one behind it     *)
(* while the first pulse of a playback is heard.                            *)
THEOREM PositionCorrect == Spec => []PositionIsHeard
<1>1. HearInv => PositionIsHeard
  <2> DEFINE w == Waveform(tape, Start)
             time == elapsed * DeltaT
             first == IF w = <<>> THEN 0 ELSE EndTimes(w)[1]
             heard(n) == Duration(Heard(tape, Start)[n].w)
  <2> SUFFICES ASSUME HearInv, playing, from # <<>>, elapsed < MaxElapsed, Undisturbed, ~HasLoop,
                      CurBlock # NoBlock
               PROVE  /\ Start < CurBlock => heard(CurBlock - 2) <= time \/ heard(CurBlock - 2) <= first
                      /\ time <= heard(CurBlock)
    BY DEF PositionIsHeard
  <2>1. /\ Start \in 1 .. Len(tape) /\ tape \in Seq(Block) /\ sampler \in SamplerType
        /\ time \in Nat /\ Listening(Start)
    BY PlaysFrom
  <2>2. Listens(tape, Start, player, sampler, time)
    BY <2>1, ListensNow
  <2>3. Unlooped(tape, Start)
    BY DEF HasLoop, Unlooped, NoLoops
  <2>4. CurBlock = PlayerCurBlock(player)
    BY DEF CurBlock
  <2>5. w = AllHeard(tape, Start).w
    BY DEF Waveform, AllHeard
  <2> HIDE DEF time, w
  <2>6. PlayerCurBlock(player) # NoBlock
    BY <2>4
  <2>7. /\ Start < CurBlock => heard(CurBlock - 2) <= time \/ heard(CurBlock - 2) <= first
        /\ time <= heard(CurBlock)
    BY <2>1, <2>2, <2>3, <2>4, <2>5, <2>6, HearsPlace
  <2> QED BY <2>7
<1> QED BY <1>1, HearInvariant, PTL

=============================================================================
