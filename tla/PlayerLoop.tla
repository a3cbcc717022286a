----------------------------- MODULE PlayerLoop -----------------------------
(***************************************************************************)
(* tape_player_next() and the two functions that call it,                   *)
(* tape_player_is_end() and tape_player_get_next(), as a state machine with *)
(* one action per loop iteration: that shows that the loops end, and what   *)
(* the player does to the tone generator between two pulses.                *)
(*                                                                          *)
(* pc = "outer": at the test of the outer loop                              *)
(*      "inner": at the test of the inner loop                              *)
(*      "ready": tape_player_next() has returned                            *)
(*      "abort": an assertion failed                                        *)
(* out is what the caller of tape_player_get_next() was given since the     *)
(* playback began at block `start': the level at which the tape has been    *)
(* (tape_player_cur_lvl()), for how long, and the signal.  reel is the tape *)
(* it plays, left is what tape_player_init() kept of the playback before.   *)
(***************************************************************************)
EXTENDS Waveform

CONSTANT MaxPlays       \* bound: how many times a playback is started

ASSUME PlaysAssumption == MaxPlays \in Nat \ {0}

VARIABLES reel, p, pc, out, start, left, plays

loopVars == <<reel, p, pc, out, start, left, plays>>

LoopInit ==
  /\ reel \in Tapes
  /\ p = PlayerInit(PlayerCreate, TapeFirst(reel))
  /\ pc = "outer"
  /\ out = <<>>
  /\ start = TapeFirst(reel)
  /\ left = [loop |-> 0, sig |-> "none"]
  /\ plays = 1

Enter ==
  /\ pc = "outer"
  /\ Hungry(p)
  /\ pc' = "inner"
  /\ UNCHANGED <<reel, p, out, start, left, plays>>

Take ==
  /\ pc = "inner"
  /\ p.cur = NoBlock
  /\ p.nxt # NoBlock
  /\ p' = TakeBlock(reel, p)
  /\ UNCHANGED <<reel, pc, out, start, left, plays>>

PlayOn ==
  /\ pc = "inner"
  /\ p.cur # NoBlock
  /\ p' = PlayBlock(reel, p)
  /\ pc' = "outer"
  /\ UNCHANGED <<reel, out, start, left, plays>>

Exhausted ==
  /\ pc = "inner"
  /\ p.cur = NoBlock
  /\ p.nxt = NoBlock
  /\ pc' = "ready"
  /\ UNCHANGED <<reel, p, out, start, left, plays>>

Return ==
  /\ pc = "outer"
  /\ ~Hungry(p)
  /\ pc' = "ready"
  /\ UNCHANGED <<reel, p, out, start, left, plays>>

\* tape_player_get_next() without a signal; its caller has seen that
\* tape_player_is_end() is false.
GetPulse ==
  /\ pc = "ready"
  /\ p.sig = "none"
  /\ ~IsEnd(p.tg)
  /\ IF CanGetNext(p.tg)
     THEN LET tg == GetNext(p.tg)
          IN  /\ p' = [p EXCEPT !.tg = tg]
              /\ out' = Append(out, [lvl |-> p.tg.cur, len |-> tg.clen,
                                     sig |-> "none"])
              /\ pc' = "outer"
     ELSE /\ pc' = "abort"
          /\ UNCHANGED <<p, out>>
  /\ UNCHANGED <<reel, start, left, plays>>

GetSignal ==
  /\ pc = "ready"
  /\ p.sig # "none"
  /\ p' = [p EXCEPT !.sig = "none"]
  /\ out' = Append(out, [lvl |-> p.tg.cur, len |-> 0, sig |-> p.sig])
  /\ pc' = "outer"
  /\ UNCHANGED <<reel, start, left, plays>>

\* The deck is stopped and played again, from any block.
Restart ==
  /\ pc = "ready"
  /\ plays < MaxPlays
  /\ \E b \in 0 .. Len(reel) :
       /\ p' = PlayerInit(p, b)
       /\ start' = b
  /\ left' = [loop |-> p.loop, sig |-> p.sig]
  /\ out' = <<>>
  /\ plays' = plays + 1
  /\ pc' = "outer"
  /\ UNCHANGED reel

Iterate == Enter \/ Take \/ PlayOn \/ Exhausted \/ Return

LoopNext == Iterate \/ GetPulse \/ GetSignal \/ Restart

\* A C function that was called runs; nobody has to call it.
LoopSpec == LoopInit /\ [][LoopNext]_loopVars /\ WF_loopVars(Iterate)

-----------------------------------------------------------------------------
(* Properties                                                               *)

AtEnd == pc = "ready" /\ IsEnd(p.tg) /\ p.sig = "none"

\* The types of the player's fields and of the history.
LoopTypeOK ==
  /\ reel \in Tapes
  /\ p \in PlayerType
  /\ p.cur \in 0 .. Len(reel) /\ p.nxt \in 0 .. Len(reel)
  /\ pc \in {"outer", "inner", "ready", "abort"}
  /\ start \in 0 .. Len(reel)
  /\ left \in [loop : Nat, sig : Signal] /\ plays \in 1 .. MaxPlays

\* No block programs more entries than the generator holds (tonegen.c:96, 128),
\* and whenever the generator says that it is not at its end it has a pulse to
\* give (tonegen.c:197).  A tone block of no pulses alone makes that assertion
\* fail.
NoAssertionFails ==
  /\ Len(p.tg.prog) <= MaxTones
  /\ pc = "abort" => \E b \in 1 .. Len(reel) : NoPulses(reel[b])

\* No block is read beyond its data: while a block is being played the index
\* is at most the number of its bytes, and it is a pulse of the block.
IndexInRange ==
  p.cur # NoBlock =>
    LET b == reel[p.cur]
    IN  /\ b.btype \in {"data", "turbo", "pure", "drec"} => p.idx <= Len(b.data)
        /\ b.btype = "pulses" => p.idx < Len(b.lens)

\* When tape_player_next() returns with a signal, the player has left the block
\* the signal comes from: a deck that stops there and remembers
\* tape_player_cur_block() resumes behind the Stop block, never on it.  (A
\* signal that is pending when a playback is started again is the first thing
\* that playback gives.)
SignalLeavesBlock ==
  pc = "ready" /\ p.sig # "none" /\ (plays = 1 \/ out # <<>>) =>
    /\ p.cur = NoBlock
    /\ \E b \in 1 .. Len(reel) :
         reel[b].btype = p.sig /\ p.nxt = TapeNext(reel, b)

\* The program of q is played to its end or is still there in r.
ProgramKept(q, r) ==
  \/ IsEnd(q.tg)
  \/ Len(q.tg.prog) <= Len(r.tg.prog)
     /\ SubSeq(r.tg.prog, 1, Len(q.tg.prog)) = q.tg.prog

\* The tone generator is cleared when all it was told has been played, as
\* tonegen_clear() asks for (tonegen.c:65): no pulse of a tape is dropped.
ClearedWhenPlayed == [][plays' = plays => ProgramKept(p, p')]_loopVars

\* A playback that begins inside a loop with iterations left from an earlier
\* playback, or with a signal left from it, goes on with them.
Fresh == left.loop <= 1 /\ left.sig = "none"

\* A pulse sequence of one pulse ends before its pulse is played
\* (tape_player_pulses_next()), and the clear of the block behind it drops the
\* pulse: only the last block may be one.
NoneDropped(t) ==
  \A b \in 1 .. Len(t) - 1 : t[b].btype = "pulses" => Len(t[b].lens) > 1

\* What the caller is given - every level, how long it lasts, every signal -
\* is the waveform of the tape from the block where the playback began: each
\* bit with its two pulses, loops unrolled, a pause high for a millisecond
\* exactly after a rising edge; and at the end of the tape nothing is missing.
PlaysWaveform ==
  LET w == Waveform(reel, start)
  IN  start # NoBlock /\ Fresh /\ NoneDropped(reel) /\ pc = "ready" =>
        /\ Len(out) <= Len(w) /\ out = SubSeq(w, 1, Len(out))
        /\ AtEnd => out = w

\* tape_player_next() returns: no tape, whatever its loops, hangs the emulator.
NextReturns == pc = "outer" ~> pc = "ready"

=============================================================================
