----------------------------- MODULE MCTapeDeck -----------------------------
(***************************************************************************)
(* Instances of TapeDeck for TLC.                                           *)
(***************************************************************************)
EXTENDS TapeDeck

Zeros == <<0, 0>>
Ones == <<1, 1>>

Standard == [btype |-> "data", data |-> <<Zeros, Ones>>, pause |-> 1]
Tune == [btype |-> "tone", len |-> 2, np |-> 3]
Long == [btype |-> "tone", len |-> 7, np |-> 1]
Clicks == [btype |-> "pulses", lens |-> <<1, 2, 4>>]
Gap == [btype |-> "pause", pause |-> 2]
Halt == [btype |-> "stop"]
Halt48 == [btype |-> "stop48"]
Loop2 == [btype |-> "lstart", rep |-> 2]
LoopEnd == [btype |-> "lend"]
Note == [btype |-> "other"]
Click == [btype |-> "pulses", lens |-> <<4>>]
NoTone == [btype |-> "tone", len |-> 2, np |-> 0]

MCTapes ==
  { <<>>, <<Standard>>, <<Long>>, <<Tune, Halt, Long>>,
    <<Note, Halt, Long, Halt, Tune>>, <<Gap, Halt48, Clicks>>,
    <<Loop2, Clicks, Note, LoopEnd, Gap>>, <<Click, Halt, Tune, Halt>>,
    <<Long, NoTone, Halt>>, <<Long, Tune, Tune>> }

MCRecordings == {[btype |-> "data", data |-> <<Ones>>, pause |-> 0]}

=============================================================================
