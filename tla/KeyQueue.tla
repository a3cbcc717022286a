------------------------------ MODULE KeyQueue ------------------------------
(***************************************************************************)
(* What the queue of key events promises: events are read in the order in   *)
(* which they happened, and only those beyond the first Room that wait are  *)
(* lost.                                                                    *)
(***************************************************************************)
EXTENDS Naturals, Sequences

CONSTANTS Event, Room

VARIABLES q,    \* the events that wait
          got   \* the event that was read last

Init == q = <<>> /\ got = <<>>

Happens == \E e \in Event : q' = Append(q, e) /\ UNCHANGED got

Kept == IF Len(q) <= Room THEN q ELSE SubSeq(q, 1, Room)
Read == Kept # <<>> /\ got' = <<Kept[1]>> /\ q' = Tail(Kept)

Next == Happens \/ Read

Spec == Init /\ [][Next]_<<q, got>>
=============================================================================
