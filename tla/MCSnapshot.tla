----------------------------- MODULE MCSnapshot -----------------------------
(***************************************************************************)
(* Snapshots of pages of eight bytes.  The escape is 8, which is also the    *)
(* length of a page that cannot be packed.                                  *)
(***************************************************************************)
EXTENDS Snapshot

\* Every register has a value of its own.
Base ==
  [A |-> 1, F |-> 2, B |-> 3, C |-> 4, D |-> 5, E |-> 6, H |-> 7, L |-> 8,
   A_ |-> 9, F_ |-> 10, B_ |-> 11, C_ |-> 12, D_ |-> 13, E_ |-> 14, H_ |-> 15, L_ |-> 16,
   IX |-> 4370, IY |-> 4883, SP |-> 32772, PC |-> 33333, I |-> 63, R |-> 200,
   IFF1 |-> 1, IFF2 |-> 1, IM |-> 1, modifier |-> FALSE, halted |-> FALSE, lock |-> FALSE]

\* Behind a prefix; in an NMI handler; with the stack at the edge of the ROM, of
\* a page and of memory; halted; in the ROM at 0 and behind a prefix at 65535.
MCCpus ==
  {[Base EXCEPT !.modifier = TRUE, !.lock = TRUE],
   [Base EXCEPT !.IFF1 = 0, !.IM = 2, !.R = 7],
   [Base EXCEPT !.SP = 16386, !.PC = 255],
   [Base EXCEPT !.SP = 49153, !.halted = TRUE, !.IM = 0],
   [Base EXCEPT !.SP = 1, !.PC = 0, !.IFF1 = 0, !.IFF2 = 0],
   [Base EXCEPT !.PC = 0, !.modifier = TRUE]}

\* Every page of two bytes, one of them the escape, and some of three.
MCPages ==
  [1..PageBytes -> {0, Esc}] \cup {[i \in 1..PageBytes |-> i % k] : k \in 2..PageBytes}

MCEdits == {<<30, 3>>, <<35, 2>>, <<35, 4>>, <<35, 9>>, <<26, 3>>}
=============================================================================
