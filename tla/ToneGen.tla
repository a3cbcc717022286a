------------------------------ MODULE ToneGen ------------------------------
(***************************************************************************)
(* The tape tone generator (tape/tonegen.c): a short program of tones and   *)
(* direct pulses that is played one pulse at a time.  The generator is a    *)
(* record; every C function is an operator on it, so that the tape player   *)
(* can call several of them in one step.                                    *)
(*                                                                          *)
(* Levels are 0 (tlvl_low) and 1 (tlvl_high).  `tidx' is the number of      *)
(* program entries already taken, as in the code, where it is the index of  *)
(* the next entry counted from zero.                                        *)
(***************************************************************************)
EXTENDS Naturals, Sequences

CONSTANT MaxTones       \* tonegen_max_tones: capacity of the program

ASSUME MaxTonesAssumption == MaxTones \in Nat

Level == {0, 1}

Flip(lvl) == 1 - lvl

Entry == [direct : BOOLEAN, lvl : Level, len : Nat, np : Nat]

ToneGenType ==
  [prog : Seq(Entry), tidx : Nat, cur : Level, rem : Nat, clen : Nat,
   cdirect : BOOLEAN, pprev : Level, plast : Level]

\* A tone's `lvl' is never read: dlvl[] matters for direct pulses only.
Tone(len, np) == [direct |-> FALSE, lvl |-> 0, len |-> len, np |-> np]

DirectPulse(lvl, len) == [direct |-> TRUE, lvl |-> lvl, len |-> len, np |-> 1]

TgInit(lvl) ==
  [prog |-> <<>>, tidx |-> 0, cur |-> lvl, rem |-> 0, clen |-> 0,
   cdirect |-> FALSE, pprev |-> lvl, plast |-> lvl]

Clear_KeepsIndex(tg) == [tg EXCEPT !.prog = <<>>]

\* Keeps the levels and the pulses that remain of the entry being played.
Clear(tg) == [tg EXCEPT !.prog = <<>>, !.tidx = 0]

AddTone(tg, len, np) ==
  LET last == IF np % 2 = 1 THEN Flip(tg.plast) ELSE tg.plast
  IN  [tg EXCEPT !.prog  = Append(@, Tone(len, np)),
                 !.plast = last,
                 !.pprev = IF len > 0 /\ np > 0 THEN Flip(last) ELSE @]

\* The first entry of a program sets the current level at once.
AddDPulse(tg, lvl, len) ==
  [tg EXCEPT !.prog  = Append(@, DirectPulse(lvl, len)),
             !.cur   = IF tg.tidx = Len(tg.prog) THEN lvl ELSE @,
             !.pprev = IF len > 0 THEN lvl ELSE @,
             !.plast = lvl]

IsEnd(tg) == tg.rem = 0 /\ tg.tidx = Len(tg.prog)

\* Entries of the program that are still to be taken and have a pulse.
Sounding(tg) == {i \in tg.tidx + 1 .. Len(tg.prog) : tg.prog[i].np > 0}

\* The assertion in the loop of tonegen_get_next() does not fail.
CanGetNext(tg) == tg.rem > 0 \/ Sounding(tg) # {}

\* The loop of tonegen_get_next(): skip entries without pulses, take the first
\* that has some.
TakeEntry(tg) ==
  IF tg.rem > 0 THEN tg
  ELSE LET i == CHOOSE k \in Sounding(tg) : \A j \in Sounding(tg) : k <= j
       IN  [tg EXCEPT !.tidx    = i,
                      !.rem     = tg.prog[i].np,
                      !.clen    = tg.prog[i].len,
                      !.cdirect = tg.prog[i].direct,
                      !.cur     = IF tg.prog[i].direct THEN tg.prog[i].lvl
                                  ELSE @]

\* The level after the pulse of `tg' that is being played.
EndLevel(tg) ==
  IF tg.tidx < Len(tg.prog) /\ tg.prog[tg.tidx + 1].direct
  THEN tg.prog[tg.tidx + 1].lvl
  ELSE IF tg.cdirect THEN tg.cur ELSE Flip(tg.cur)

\* tonegen_get_next(): the generator afterwards; its rdelay is `clen' and its
\* rlvl is `cur' of the result.
GetNext(tg) ==
  LET t == TakeEntry(tg)
  IN  [t EXCEPT !.cur = EndLevel(t), !.rem = @ - 1]

=============================================================================
