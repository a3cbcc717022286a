------------------------------ MODULE MCPlayer ------------------------------
(***************************************************************************)
(* Instances of PlayerLoop for TLC.                                         *)
(***************************************************************************)
EXTENDS PlayerLoop, SequencesExt

Zero8 == <<0, 0>>
One8 == <<1, 0>>
Ff8 == <<1, 1>>

Blocks ==
  { [btype |-> "data", data |-> <<Zero8, One8>>, pause |-> 2],
    [btype |-> "data", data |-> <<Ff8>>, pause |-> 0],
    [btype |-> "turbo", pilotLen |-> 4, pilotPulses |-> 3, sync1 |-> 1, sync2 |-> 2,
     one |-> 3, zero |-> 0, data |-> <<One8, Zero8>>, lbBits |-> 1, pause |-> 1],
    [btype |-> "turbo", pilotLen |-> 4, pilotPulses |-> 0, sync1 |-> 1, sync2 |-> 0,
     one |-> 3, zero |-> 2, data |-> <<>>, lbBits |-> 2, pause |-> 2],
    [btype |-> "pure", one |-> 3, zero |-> 1, data |-> <<One8, Ff8>>, lbBits |-> 0,
     pause |-> 0],
    [btype |-> "drec", smpDur |-> 1, data |-> <<One8, Ff8>>, lbBits |-> 1,
     pause |-> 1],
    [btype |-> "drec", smpDur |-> 1, data |-> <<Zero8>>, lbBits |-> 2, pause |-> 0],
    [btype |-> "tone", len |-> 2, np |-> 3],
    [btype |-> "tone", len |-> 5, np |-> 2],
    [btype |-> "tone", len |-> 0, np |-> 1],
    [btype |-> "tone", len |-> 2, np |-> 0],
    [btype |-> "pulses", lens |-> <<1, 2>>],
    [btype |-> "pulses", lens |-> <<2, 0, 1>>],
    [btype |-> "pause", pause |-> 0],
    [btype |-> "pause", pause |-> 1],
    [btype |-> "stop"], [btype |-> "stop48"], [btype |-> "other"],
    [btype |-> "lend"] }

LoopStarts == {[btype |-> "lstart", rep |-> n] : n \in {0, 3}}

LoopEnd == [btype |-> "lend"]

\* Only the last block of a tape is one: NoneDropped.
SinglePulse == [btype |-> "pulses", lens |-> <<2>>]

\* What is put behind another block, or around it: an odd tone, a direct
\* recording, a block with a pause, a signal, a block that is skipped.
Partners == {b \in Blocks : b.btype \in {"tone", "drec", "stop", "other"}}

\* All short tapes; each block in a loop, with a block before and behind it.
AllTapes ==
  SeqOf(Blocks \cup LoopStarts, 2)
    \cup {<<b, SinglePulse>> : b \in Blocks}
    \cup {<<s, b, LoopEnd, c>> : s \in LoopStarts, b \in Blocks, c \in Partners}
    \cup {<<c, s, b, LoopEnd>> : s \in LoopStarts, b \in Blocks, c \in Partners}

=============================================================================
