------------------------------ MODULE TapeDeck ------------------------------
(***************************************************************************)
(* The tape deck (tape/deck.c) with its sampler (tape/sampler.c) on top of  *)
(* the tape player: keys, menus and the snapshot code load tapes and press  *)
(* its buttons, the emulator's main loop takes a sample every DeltaT ticks. *)
(* Each function of the deck runs to its end in one step: the program has a *)
(* single thread.                                                           *)
(***************************************************************************)
EXTENDS Waveform

CONSTANTS
  DeltaT,             \* ZX_TAPE_TICKS_SMP, ticks between two samples
  Recordings,         \* blocks that a program may save on tape
  MaxBlocks,          \* bound: length of a tape that is recorded on
  MaxElapsed,         \* bound of the history: samples counted
  OpenMayFail         \* whether opening a tape file may fail

ASSUME DeckAssumption ==
  /\ DeltaT \in Nat \ {0}
  /\ Recordings \subseteq DataBlock
  /\ OpenMayFail \in BOOLEAN

VARIABLES
  loaded,             \* deck->tape is not NULL, nor is then deck->fname
  tape,               \* the blocks of the tape
  curBlock, playing, paused, mode48k, curSmp,    \* tape_deck_t
  player, sampler,
  crashed,            \* a pointer that is NULL was followed, or an assertion failed
  from, elapsed       \* history: the blocks Play began with, samples since then

deckVars == <<loaded, tape, curBlock, playing, paused, mode48k, curSmp>>
vars == <<deckVars, player, sampler, crashed, from, elapsed>>

SamplerType == [lvl : Level, delay : Nat, next : Level]

-----------------------------------------------------------------------------
(* The player's functions, run to their end.                                *)

\* tape_player_next(): the outer loop runs while the player is hungry, the inner
\* one until there is a current block or the tape is at its end.
PlayerNext(t, q0) ==
  LET feed[q \in Playable(t)] ==
        LET again(r) == IF Hungry(r) THEN feed[r] ELSE r
        IN  IF q.cur # NoBlock THEN again(PlayBlock(t, q))
            ELSE IF q.nxt # NoBlock THEN feed[TakeBlock(t, q)] ELSE q
  IN  IF Hungry(q0) THEN feed[q0] ELSE q0

\* tape_player_get_next() on a player that tape_player_next() has been called
\* for: the player, the delay, the level and the signal.  "abort" stands for the
\* assertion of tonegen_get_next().
PlayerGetNext(q) ==
  IF q.sig # "none"
  THEN [p |-> [q EXCEPT !.sig = "none"], delay |-> 0, lvl |-> q.tg.cur,
        sig |-> q.sig]
  ELSE IF ~CanGetNext(q.tg)
  THEN [p |-> q, delay |-> 0, lvl |-> q.tg.cur, sig |-> "abort"]
  ELSE LET tg == GetNext(q.tg)
       IN  [p |-> [q EXCEPT !.tg = tg], delay |-> tg.clen, lvl |-> tg.cur,
            sig |-> "none"]

\* tape_sampler_init(): the first event is fetched; its callers see nothing of
\* the signal.  At the end of the tape the delay and the next level stay what
\* they were.
SamplerInit(t, q0, smp, b) ==
  LET q1 == PlayerInit(q0, b)
      q  == PlayerNext(t, q1)
      e  == PlayerGetNext(q)
  IN  IF Hungry(q)
      THEN [p |-> q, s |-> [smp EXCEPT !.lvl = q1.tg.cur], sig |-> "none"]
      ELSE [p |-> e.p, s |-> [lvl |-> q1.tg.cur, delay |-> e.delay, next |-> e.lvl],
            sig |-> e.sig]

\* The loop of tape_sampler_getsmp(), with td ticks left of the sample.
CatchUp_OneEvent(t, q0, smp, td) ==
  LET q == PlayerNext(t, q0)
      e == PlayerGetNext(q)
  IN  IF smp.delay > td
      THEN [p |-> q0, s |-> [smp EXCEPT !.delay = @ - td], sig |-> "none"]
      ELSE IF Hungry(q) THEN [p |-> q, s |-> smp, sig |-> "none"]
      ELSE [p |-> e.p, sig |-> e.sig,
            s |-> [lvl |-> smp.next, delay |-> e.delay, next |-> e.lvl]]

CatchUp(t, q0, smp0, td0) ==
  LET run[x \in Playable(t) \X SamplerType \X Nat] ==
        LET smp  == x[2]
            td   == x[3]
            left == td - smp.delay
            given(e) ==
              LET n == [lvl |-> smp.next, delay |-> e.delay, next |-> e.lvl]
              IN  IF e.sig = "none" THEN run[<<e.p, n, left>>]
                  ELSE [p |-> e.p, sig |-> e.sig,
                        s |-> IF n.delay > left THEN [n EXCEPT !.delay = @ - left]
                              ELSE n]
            fed(q) ==
              IF Hungry(q) THEN [p |-> q, s |-> smp, sig |-> "none"]
              ELSE given(PlayerGetNext(q))
        IN  IF smp.delay > td
            THEN [p |-> x[1], s |-> [smp EXCEPT !.delay = @ - td], sig |-> "none"]
            ELSE fed(PlayerNext(t, x[1]))
  IN  run[<<q0, smp0, td0>>]

-----------------------------------------------------------------------------
(* The deck.  Saving a tape and giving it a file name leaves all of this as *)
(* it is, and the name has one of the three known extensions: it was opened *)
(* or saved under it, or is "newtape.tzx".                                  *)

CurBlock_Own == curBlock

\* tape_deck_cur_block()
CurBlock == IF playing THEN PlayerCurBlock(player) ELSE curBlock

Init ==
  /\ loaded = TRUE /\ tape = <<>> /\ curBlock = NoBlock
  /\ playing = FALSE /\ paused = FALSE /\ mode48k = TRUE /\ curSmp = 0
  /\ player = PlayerCreate
  /\ sampler = [lvl |-> 0, delay |-> 0, next |-> 0]
  /\ crashed = FALSE
  /\ from = <<>> /\ elapsed = 0

StoppedAt_KeepsPause(b) ==
  /\ playing' = FALSE
  /\ paused' = paused
  /\ curBlock' = b

\* tape_deck_stop(), as it is called by others: the position moves to b.
StoppedAt(b) ==
  /\ playing' = FALSE
  /\ paused' = IF playing THEN FALSE ELSE paused
  /\ curBlock' = b

Crash == crashed' = TRUE /\ UNCHANGED <<deckVars, player, sampler, from, elapsed>>

New_KeepsPosition ==
  /\ ~crashed
  /\ StoppedAt(CurBlock)
  /\ loaded' = TRUE /\ tape' = <<>>
  /\ UNCHANGED <<mode48k, curSmp, player, sampler, crashed, from,
                 elapsed>>

New ==
  /\ ~crashed
  /\ StoppedAt(NoBlock)
  /\ loaded' = TRUE /\ tape' = <<>>
  /\ UNCHANGED <<mode48k, curSmp, player, sampler, crashed, from,
                 elapsed>>

Open ==
  /\ ~crashed
  /\ \E t \in Tapes :
       /\ tape' = t
       /\ StoppedAt(TapeFirst(t))
  /\ loaded' = TRUE
  /\ UNCHANGED <<mode48k, curSmp, player, sampler, crashed, from,
                 elapsed>>

\* The file has an unknown extension, cannot be read, or memory runs out - also
\* in tape_deck_new(): the old tape is gone, the position is what it was.
OpenFails ==
  /\ ~crashed
  /\ OpenMayFail
  /\ StoppedAt(CurBlock)
  /\ loaded' = FALSE /\ tape' = <<>>
  /\ UNCHANGED <<mode48k, curSmp, player, sampler, crashed, from,
                 elapsed>>

\* tape_deck_save() and tape_deck_save_as() of a deck without a tape; saving
\* otherwise leaves the deck as it is.
SaveNothing == ~crashed /\ ~loaded /\ Crash

Unpause ==
  /\ ~crashed
  /\ paused
  /\ paused' = FALSE
  /\ UNCHANGED <<loaded, tape, curBlock, playing, mode48k, curSmp, player,
                 sampler, crashed, from, elapsed>>

Play ==
  /\ ~crashed
  /\ ~paused
  /\ LET i == SamplerInit(tape, player, sampler, curBlock)
         q == PlayerNext(tape, i.p)
     IN  IF (loaded \/ curBlock = NoBlock) /\ i.sig # "abort"
         THEN /\ player' = q
              /\ sampler' = i.s
              /\ playing' = (playing \/ ~(Hungry(q) /\ i.s.delay < DeltaT))
              /\ from' = IF curBlock = NoBlock THEN <<>>
                           ELSE SubSeq(tape, curBlock, Len(tape))
              /\ elapsed' = 0
              /\ UNCHANGED <<loaded, tape, curBlock, paused, mode48k, curSmp,
                             crashed>>
         ELSE Crash

Pause ==
  /\ ~crashed
  /\ playing
  /\ paused' = TRUE
  /\ UNCHANGED <<loaded, tape, curBlock, playing, mode48k, curSmp, player,
                 sampler, crashed, from, elapsed>>

Stop ==
  /\ ~crashed
  /\ playing
  /\ StoppedAt(CurBlock)
  /\ UNCHANGED <<loaded, tape, mode48k, curSmp, player, sampler, crashed, from,
                 elapsed>>

Rewind ==
  /\ ~crashed
  /\ IF loaded
     THEN /\ StoppedAt(TapeFirst(tape))
          /\ UNCHANGED <<loaded, tape, mode48k, curSmp, player, sampler, crashed, from,
                         elapsed>>
     ELSE Crash

\* tape_deck_next(), called by quick load on a block of the tape only.
NextBlock ==
  /\ ~crashed
  /\ CurBlock # NoBlock
  /\ IF loaded
     THEN /\ StoppedAt(TapeNext(tape, CurBlock))
          /\ UNCHANGED <<loaded, tape, mode48k, curSmp, player, sampler, crashed, from,
                         elapsed>>
     ELSE Crash

\* tape_quick_sabytes() puts a block before the current one, or at the end.
Record ==
  /\ ~crashed
  /\ Len(tape) < MaxBlocks
  /\ IF ~loaded THEN Crash
     ELSE LET at == IF CurBlock = NoBlock THEN Len(tape) + 1 ELSE CurBlock
              moved(b) == IF b >= at THEN b + 1 ELSE b
          IN  /\ \E b \in Recordings :
                   tape' = SubSeq(tape, 1, at - 1) \o <<b>>
                             \o SubSeq(tape, at, Len(tape))
              /\ curBlock' = moved(curBlock)
              /\ player' = IF playing
                           THEN [player EXCEPT !.cur = moved(@), !.nxt = moved(@)]
                           ELSE player
              /\ from' = IF playing THEN <<>> ELSE from
              /\ UNCHANGED <<loaded, playing, paused, mode48k, curSmp, sampler,
                             crashed, elapsed>>

Set48k ==
  /\ ~crashed
  /\ mode48k' = ~mode48k
  /\ UNCHANGED <<loaded, tape, curBlock, playing, paused, curSmp, player, sampler,
                 crashed, from, elapsed>>

StopsPlayback_48kOnly(sig) == sig = "stop48" /\ mode48k

\* tape_deck_process_sig()
StopsPlayback(sig) == sig = "stop" \/ (sig = "stop48" /\ mode48k)

\* tape_deck_getsmp() of a deck that plays; otherwise it changes nothing.
GetSmp ==
  /\ ~crashed
  /\ playing /\ ~paused
  /\ LET r == CatchUp(tape, player, sampler, DeltaT)
     IN  IF r.sig = "abort" THEN Crash
         ELSE /\ player' = r.p
              /\ sampler' = r.s
              /\ curSmp' = r.s.lvl
              /\ playing' = ~StopsPlayback(r.sig)
              /\ elapsed' = IF elapsed < MaxElapsed THEN elapsed + 1 ELSE elapsed
              /\ UNCHANGED <<loaded, tape, curBlock, paused, mode48k, crashed, from>>

Next ==
  \/ New \/ Open \/ OpenFails \/ SaveNothing \/ Unpause \/ Play \/ Pause \/ Stop
  \/ Rewind \/ NextBlock \/ Record \/ Set48k \/ GetSmp

Spec == Init /\ [][Next]_vars

-----------------------------------------------------------------------------
(* Properties                                                               *)

\* The types; on a tape, the deck's and the player's positions are its blocks.
TypeOK ==
  /\ {loaded, playing, paused, mode48k, crashed} \subseteq BOOLEAN
  /\ curSmp \in Level
  /\ player \in PlayerType /\ sampler \in SamplerType
  /\ loaded => curBlock \in 0 .. Len(tape)
  /\ playing => player.cur \in 0 .. Len(tape) /\ player.nxt \in 0 .. Len(tape)

\* A tape that stands still is not paused: the Play button always starts a tape
\* that is stopped, however it came to stop - a button, a Stop block, the
\* removal of the tape - and never merely resumes it.
PausedIsPlaying == paused => playing

\* The block that Play began with.
Start == Len(tape) - Len(from) + 1

\* Where the deck is in the blocks that Play began with.
Position == CurBlock - (Len(tape) - Len(from))

\* Blocks that make no sound.
Silent(b) == b.btype \in {"other", "lstart", "lend", "stop", "stop48"}

\* Blocks that the player leaves before it is asked for a pulse: a sequence of
\* one pulse ends when that is programmed.
PassedOver(b) ==
  \/ Silent(b)
  \/ b.btype = "pulses" /\ Len(b.lens) = 1
  \/ b.btype = "pause" /\ b.pause = 0
  \/ b.btype \in {"pure", "drec"} /\ b.pause = 0
       /\ (b.data = <<>> \/ (Len(b.data) = 1 /\ b.lbBits = 0))

\* How many of the blocks that Play began with the tape has left behind; all of
\* them at its end.
Behind == IF CurBlock = NoBlock THEN Len(from) ELSE Position - 1

\* A Stop block is never played over: when the position is behind it, the
\* signal is on its way.  Only Play itself passes a Stop block: one that it
\* starts on, or that it comes to over blocks it need not play a pulse of.
StopsHeeded ==
  playing /\ from # <<>> =>
    \A i \in 1 .. Behind :
      from[i].btype = "stop" =>
        \/ i = Behind /\ player.sig = "stop"
        \/ \A j \in 1 .. i : PassedOver(from[j])

-----------------------------------------------------------------------------
(* What is heard                                                            *)

\* The lengths of the pulses of a block.
Lengths(b) ==
  CASE b.btype = "data" -> {RomPilotLen, RomSync1Len, RomSync2Len, RomOneLen, RomZeroLen}
    [] b.btype = "turbo" -> {b.pilotLen, b.sync1, b.sync2, b.one, b.zero}
    [] b.btype = "pure" -> {b.one, b.zero}
    [] b.btype = "tone" -> {b.len}
    [] b.btype = "pulses" -> {b.lens[i] : i \in 1 .. Len(b.lens)}
    [] OTHER -> {}

\* The level goes from pulse to pulse: it is not set behind one, as a direct
\* recording does, and a pause behind a pulse of no length may.
Steady(b) == b.btype # "drec" /\ 0 \notin Lengths(b)

\* Every loop end of the blocks played has a loop start: a playback that begins
\* inside a loop inherits the loop counter of the last.  A Stop-in-48K block
\* that does not stop the tape delays it.  No pulse is dropped (NoneDropped).
Undisturbed ==
  \A n \in Start .. Len(tape) :
    /\ tape[n].btype # "stop48"
    /\ tape[n].btype = "lend" => \E i \in Start .. n : tape[i].btype = "lstart"
    /\ tape[n].btype = "pulses" /\ Len(tape[n].lens) = 1 => n = Len(tape)

\* What the emulator samples is the tape: while it plays, sample n is the level
\* of the waveform n * DeltaT ticks after the place where Play was pressed,
\* whatever pauses the user makes and however many pulses fit between two
\* samples.
SampleIsWaveform ==
  LET w    == Waveform(tape, Start)
      time == elapsed * DeltaT
  IN  playing /\ from # <<>> /\ 0 < elapsed /\ elapsed < MaxElapsed
        /\ Undisturbed /\ (\A n \in Start .. Len(tape) : Steady(tape[n]))
        /\ time < Duration(w)
      => curSmp = LevelAt(w, time)

HasLoop == \E n \in Start .. Len(tape) : tape[n].btype \in {"lstart", "lend"}

\* The position that Stop and quick load work with is that of the sound: the
\* block at the position has not been played to its end, and the block before
\* it has begun.  Only while the first pulse is heard that Play has taken at
\* once, the player may be a block further: Stop then skips a block.
PositionIsHeard ==
  LET w        == Waveform(tape, Start)
      first    == IF w = <<>> THEN 0 ELSE EndTimes(w)[1]
      heard(n) == Duration(Heard(tape, Start)[n].w)
      time     == elapsed * DeltaT
  IN  playing /\ from # <<>> /\ elapsed < MaxElapsed /\ Undisturbed /\ ~HasLoop
        /\ CurBlock # NoBlock
      => /\ Start < CurBlock => heard(CurBlock - 2) <= time \/ heard(CurBlock - 2) <= first
         /\ time <= heard(CurBlock)

=============================================================================
