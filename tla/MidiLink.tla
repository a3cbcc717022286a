----------------------------- MODULE MidiLink -----------------------------
(***************************************************************************)
(* What the MIDI port of the 128K promises to the program that sends on it *)
(* and to the MIDI device: the device is given each message, unchanged and *)
(* once, before the program may ask for the next.  Only a cut - a reset, a *)
(* snapshot, the AY being switched - may lose or garble the message that   *)
(* was on its way.                                                         *)
(***************************************************************************)
EXTENDS Naturals, Sequences

CONSTANTS Message,      \* the messages the program may send
          AnyMessage    \* the messages the device may be given

VARIABLES due,          \* the message on its way, <<m>>, or <<>>
          got,          \* what the last step gave the device, <<m>> or <<>>
          epoch         \* the number of cuts

vars == <<due, got, epoch>>

Init == due = <<>> /\ got = <<>> /\ epoch = 0

Ask == 
  /\ due = <<>>
  /\ \E m \in Message : due' = <<m>>
  /\ got' = <<>>
  /\ UNCHANGED epoch

Deliver ==
  /\ due # <<>>
  /\ got' = due
  /\ due' = <<>>
  /\ UNCHANGED epoch

Quiet == got' = <<>> /\ UNCHANGED <<due, epoch>>

Cut ==
  /\ epoch' = epoch + 1
  /\ due' = <<>>
  /\ got' \in Seq(AnyMessage)

Next == Ask \/ Deliver \/ Quiet \/ Cut

Spec == Init /\ [][Next]_vars
=============================================================================
