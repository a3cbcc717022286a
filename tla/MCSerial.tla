----------------------------- MODULE MCSerial -----------------------------
(***************************************************************************)
(* Instances of SerialMidi for TLC.                                        *)
(***************************************************************************)
EXTENDS SerialMidi

Bits(n) == [i \in 0 .. 7 |-> (n \div 2 ^ i) % 2]

NoteOn == Bits(144)
ProgramChange == Bits(193)

MCStatus == {NoteOn, ProgramChange}
MCData == {Bits(1), Bits(100)}
=============================================================================
