----------------------------- MODULE TapePlayer -----------------------------
(***************************************************************************)
(* The tape player (tape/player.c): turns a tape - a sequence of blocks -   *)
(* into the pulses of the tone generator and the signals Stop and           *)
(* Stop-in-48K-mode.                                                        *)
(*                                                                          *)
(* The player is a record `p' and every *_init and *_next function of the   *)
(* code is an operator on it.  Module PlayerLoop runs tape_player_next()    *)
(* one loop iteration at a time, module TapeDeck iterates it within one     *)
(* step.                                                                    *)
(*                                                                          *)
(* A block is a position of the tape, NoBlock is the null pointer.  A byte  *)
(* is the sequence of its bits, first played first; ByteBits is 8 in the    *)
(* code.                                                                    *)
(***************************************************************************)
EXTENDS ToneGen, FiniteSets

CONSTANTS
  Tapes,              \* the tapes that may be played
  ByteBits,           \* bits of a byte
  RomPilotLen, RomPilotPulsesH, RomPilotPulsesD, RomSync1Len, RomSync2Len,
  RomOneLen, RomZeroLen,                            \* tape/defs.h
  PauseMult           \* TAPE_PAUSE_MULT, ticks of a millisecond

NoBlock == 0

Byte == [1 .. ByteBits -> {0, 1}]

DataBlock == [btype : {"data"}, data : Seq(Byte) \ {<<>>}, pause : Nat]
TurboBlock ==
  [btype : {"turbo"}, pilotLen : Nat, pilotPulses : Nat, sync1 : Nat, sync2 : Nat,
   one : Nat, zero : Nat, data : Seq(Byte), lbBits : 0 .. ByteBits, pause : Nat]
PureBlock ==
  [btype : {"pure"}, one : Nat, zero : Nat, data : Seq(Byte), lbBits : 0 .. ByteBits,
   pause : Nat]
DirectBlock ==
  [btype : {"drec"}, smpDur : Nat, data : Seq(Byte), lbBits : 0 .. ByteBits,
   pause : Nat]
ToneBlock == [btype : {"tone"}, len : Nat, np : Nat]
PulsesBlock == [btype : {"pulses"}, lens : Seq(Nat) \ {<<>>}]
PauseBlock == [btype : {"pause"}, pause : Nat]
LoopStartBlock == [btype : {"lstart"}, rep : Nat]
\* Stops, loop ends and the blocks that the player skips (texts, groups...).
PlainBlock == [btype : {"stop", "stop48", "lend", "other"}]

Block ==
  DataBlock \cup TurboBlock \cup PureBlock \cup DirectBlock \cup ToneBlock
    \cup PulsesBlock \cup PauseBlock \cup LoopStartBlock \cup PlainBlock

ASSUME PlayerAssumption ==
  /\ Tapes \subseteq Seq(Block)
  /\ ByteBits \in Nat \ {0}
  /\ {RomPilotLen, RomPilotPulsesH, RomPilotPulsesD, RomSync1Len, RomSync2Len,
      RomOneLen, RomZeroLen, PauseMult} \subseteq Nat

Signal == {"none", "stop", "stop48"}

\* What is programmed at once: a pilot and two syncs, or the bits of a byte.
ASSUME CapacityAssumption == ByteBits <= MaxTones /\ 3 <= MaxTones

PlayerType ==
  [tg : ToneGenType, cur : Nat, nxt : Nat, idx : Nat, pauseDone : BOOLEAN,
   sig : Signal, loop : Nat]

-----------------------------------------------------------------------------
(* The tape, and what the player does with it.                              *)

TapeFirst(t) == IF t = <<>> THEN NoBlock ELSE 1

TapeNext_NoEnd(t, b) == b + 1

TapeNext(t, b) == IF b < Len(t) THEN b + 1 ELSE NoBlock

\* calloc() in tape_player_create().
PlayerCreate ==
  [tg |-> TgInit(0), cur |-> NoBlock, nxt |-> NoBlock, idx |-> 0,
   pauseDone |-> FALSE, sig |-> "none", loop |-> 0]

\* The pending signal and the loop counter are kept.
PlayerInit(p, b) ==
  [p EXCEPT !.tg = TgInit(0), !.cur = NoBlock, !.idx = 0, !.pauseDone = FALSE,
            !.nxt = b]

PlayerCurBlock(p) == IF p.cur # NoBlock THEN p.cur ELSE p.nxt

EndBlock(t, p) == [p EXCEPT !.nxt = TapeNext(t, p.cur), !.cur = NoBlock]

\* Two pulses for each of the first nb bits.
ProgramBits(tg, byte, nb, oneLen, zeroLen) ==
  LET len(i) == IF byte[i] = 1 THEN oneLen ELSE zeroLen
  IN  [tg EXCEPT !.prog  = @ \o [i \in 1 .. nb |-> Tone(len(i), 2)],
                 !.pprev = IF \E i \in 1 .. nb : len(i) > 0 THEN Flip(tg.plast)
                           ELSE @]

\* One direct pulse for each of the first nb bits.
ProgramDirectBits(tg, byte, nb, dur) ==
  IF nb = 0 THEN tg
  ELSE [tg EXCEPT
          !.prog  = @ \o [i \in 1 .. nb |-> DirectPulse(byte[i], dur)],
          !.cur   = IF tg.tidx = Len(tg.prog) THEN byte[1] ELSE @,
          !.pprev = IF dur > 0 THEN byte[nb] ELSE @,
          !.plast = byte[nb]]

ProgramPause_AlwaysLow(tg, ms) ==
  IF ms = 0 THEN tg ELSE AddDPulse(tg, 0, PauseMult * ms)

\* Always low, but after a rising edge the level is kept for a millisecond.
ProgramPause(tg, ms) ==
  IF ms = 0 THEN tg
  ELSE IF tg.pprev = 0 /\ tg.plast = 1
       THEN AddDPulse(AddDPulse(tg, 1, PauseMult), 0, PauseMult * (ms - 1))
       ELSE AddDPulse(tg, 0, PauseMult * ms)

-----------------------------------------------------------------------------
(* The *_init functions: p.cur has just become the block b.                 *)

PilotAndSync(tg, len, np, sync1, sync2) ==
  AddTone(AddTone(AddTone(Clear(tg), len, np), sync1, 1), sync2, 1)

IsHeader(byte) == \A i \in 1 .. ByteBits : byte[i] = 0

DataInit(p, b) ==
  [p EXCEPT
     !.tg = PilotAndSync(@, RomPilotLen,
                         IF IsHeader(b.data[1]) THEN RomPilotPulsesH
                         ELSE RomPilotPulsesD,
                         RomSync1Len, RomSync2Len),
     !.idx = 0, !.pauseDone = FALSE]

TurboInit(p, b) ==
  [p EXCEPT !.tg = PilotAndSync(@, b.pilotLen, b.pilotPulses, b.sync1, b.sync2),
            !.idx = 0, !.pauseDone = FALSE]

PureInit(p) == [p EXCEPT !.tg = Clear(@), !.idx = 0, !.pauseDone = FALSE]

DirectInit(p) == [p EXCEPT !.tg = Clear(@), !.idx = 0, !.pauseDone = FALSE]

ToneInit(p, b) == [p EXCEPT !.tg = AddTone(Clear(@), b.len, b.np)]

PauseInit(p, b) == [p EXCEPT !.tg = ProgramPause(Clear(@), b.pause)]

StopInit(p) == [p EXCEPT !.sig = "stop"]

Stop48Init(p) == [p EXCEPT !.sig = "stop48"]

LoopStartInit(p, b) == [p EXCEPT !.loop = b.rep]

\* First block after the last loop start before b; the first of the tape if
\* there is none.
LoopBody(t, b) ==
  LET starts == {i \in 1 .. b - 1 : t[i].btype = "lstart"}
  IN  IF starts = {} THEN 1
      ELSE 1 + CHOOSE i \in starts : \A j \in starts : j <= i

LoopEndInit_NoDecrement(t, p) ==
  IF p.loop > 1
  THEN [p EXCEPT !.cur = NoBlock, !.nxt = LoopBody(t, p.cur)]
  ELSE [p EXCEPT !.loop = 0]

LoopEndInit(t, p) ==
  IF p.loop > 1
  THEN [p EXCEPT !.loop = @ - 1, !.cur = NoBlock, !.nxt = LoopBody(t, p.cur)]
  ELSE [p EXCEPT !.loop = 0]

-----------------------------------------------------------------------------
(* The *_next functions.                                                    *)

\* Bits to play of byte p.idx of a block whose last byte may be incomplete.
NumBits(p, b) == IF p.idx < Len(b.data) - 1 THEN ByteBits ELSE b.lbBits

BytesNext_Eager(t, p, b, programmed) ==
  IF p.idx < Len(b.data)
  THEN [p EXCEPT !.tg = programmed, !.idx = @ + 1]
  ELSE IF ~p.pauseDone
       THEN [p EXCEPT !.tg = ProgramPause(Clear(@), b.pause), !.pauseDone = TRUE]
       ELSE EndBlock(t, p)

\* A byte, then the pause, then the end of the block; `programmed' is the
\* generator with the next byte.
BytesNext(t, p, b, programmed) ==
  IF ~IsEnd(p.tg) THEN p
  ELSE IF p.idx < Len(b.data)
       THEN [p EXCEPT !.tg = programmed, !.idx = @ + 1]
       ELSE IF ~p.pauseDone
            THEN [p EXCEPT !.tg = ProgramPause(Clear(@), b.pause),
                           !.pauseDone = TRUE]
            ELSE EndBlock(t, p)

DataNext(t, p, b) ==
  BytesNext(t, p, b, ProgramBits(Clear(p.tg), b.data[p.idx + 1], ByteBits,
                                 RomOneLen, RomZeroLen))

TurboNext(t, p, b) ==
  BytesNext(t, p, b, ProgramBits(Clear(p.tg), b.data[p.idx + 1], NumBits(p, b),
                                 b.one, b.zero))

PureNext(t, p, b) ==
  BytesNext(t, p, b, ProgramBits(Clear(p.tg), b.data[p.idx + 1], NumBits(p, b),
                                 b.one, b.zero))

DirectNext(t, p, b) ==
  BytesNext(t, p, b, ProgramDirectBits(Clear(p.tg), b.data[p.idx + 1],
                                       NumBits(p, b), b.smpDur))

PulsesNext_OneMore(t, p, b) ==
  IF ~IsEnd(p.tg) THEN p
  ELSE LET q == [p EXCEPT !.tg  = AddTone(Clear(@), b.lens[p.idx + 1], 1),
                          !.idx = @ + 1]
       IN  IF q.idx > Len(b.lens) THEN EndBlock(t, q) ELSE q

\* The block ends as soon as its last pulse is programmed.
PulsesNext(t, p, b) ==
  IF ~IsEnd(p.tg) THEN p
  ELSE LET q == [p EXCEPT !.tg  = AddTone(Clear(@), b.lens[p.idx + 1], 1),
                          !.idx = @ + 1]
       IN  IF q.idx >= Len(b.lens) THEN EndBlock(t, q) ELSE q

PulsesInit(t, p, b) == PulsesNext(t, [p EXCEPT !.idx = 0], b)

-----------------------------------------------------------------------------
(* tape_player_next()                                                       *)

\* One iteration of the inner loop: make the next block current and
\* initialise it.
TakeBlock(t, p0) ==
  LET p == [p0 EXCEPT !.cur = p0.nxt, !.nxt = NoBlock]
      b == t[p.cur]
  IN  CASE b.btype = "data"   -> DataInit(p, b)
        [] b.btype = "turbo"  -> TurboInit(p, b)
        [] b.btype = "tone"   -> ToneInit(p, b)
        [] b.btype = "pulses" -> PulsesInit(t, p, b)
        [] b.btype = "pure"   -> PureInit(p)
        [] b.btype = "drec"   -> DirectInit(p)
        [] b.btype = "pause"  -> PauseInit(p, b)
        [] b.btype = "stop"   -> StopInit(p)
        [] b.btype = "lstart" -> LoopStartInit(p, b)
        [] b.btype = "lend"   -> LoopEndInit(t, p)
        [] b.btype = "stop48" -> Stop48Init(p)
        [] b.btype = "other"  -> EndBlock(t, p)

\* The second half of an iteration of the outer loop.
PlayBlock(t, p) ==
  LET b == t[p.cur]
  IN  CASE b.btype = "data"   -> DataNext(t, p, b)
        [] b.btype = "turbo"  -> TurboNext(t, p, b)
        [] b.btype = "pulses" -> PulsesNext(t, p, b)
        [] b.btype = "pure"   -> PureNext(t, p, b)
        [] b.btype = "drec"   -> DirectNext(t, p, b)
        [] b.btype \in {"tone", "pause", "stop", "lstart", "lend", "stop48"} ->
             EndBlock(t, p)

Hungry_PlaysOn(p) == IsEnd(p.tg)

\* The outer loop goes on.
Hungry(p) == IsEnd(p.tg) /\ p.sig = "none"

-----------------------------------------------------------------------------
(* The player between two of these functions.                               *)

HasBytes == {"data", "turbo", "pure", "drec"}

\* The block that is being played is one that the player plays, and the index
\* is within it.
Fits(b, idx) ==
  /\ b.btype # "other"
  /\ b.btype \in HasBytes => idx <= Len(b.data)
  /\ b.btype = "pulses" => idx < Len(b.lens)

LastSounds(tg) == tg.prog # <<>> => tg.prog[Len(tg.prog)].np > 0

\* A tone of no pulses: the generator has nothing to give for it.
NoPulses(b) == b.btype = "tone" /\ b.np = 0

\* The players there are on a tape t: what the loops of tape_player_next() and
\* tape_sampler_getsmp() are defined for.
Playable(t) ==
  {q \in PlayerType :
     /\ q.cur \in 0 .. Len(t) /\ q.nxt \in 0 .. Len(t)
     /\ q.cur # NoBlock => Fits(t[q.cur], q.idx)
     /\ q.tg.tidx <= Len(q.tg.prog) /\ Len(q.tg.prog) <= MaxTones
     /\ LastSounds(q.tg) \/ \E b \in 1 .. Len(t) : NoPulses(t[b])}

=============================================================================
