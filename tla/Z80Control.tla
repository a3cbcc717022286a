----------------------------- MODULE Z80Control -----------------------------
(***************************************************************************)
(* The control part of the Z80 (z80.c): DD and FD prefixes, which are       *)
(* executed as instructions of their own, HALT, the interrupt flip-flops    *)
(* and the acceptance of INT and NMI between two instructions, with what    *)
(* the rest of the program does to the CPU between two of them: interrupt   *)
(* requests, reset, and snapshots that are loaded and saved.                *)
(*                                                                          *)
(* The program that the Z80 runs is arbitrary: every byte that is fetched   *)
(* is, apart from a byte that is fetched again because the saving of a      *)
(* snapshot has moved PC back.  Bytes are told apart by what they do:       *)
(* "retn" is an opcode that means RETN or RETI behind ED, "op" is any       *)
(* other.                                                                   *)
(***************************************************************************)
EXTENDS Naturals

CONSTANTS
  Tails,              \* the bytes that are met as opcodes behind CB and ED
  MaxBack             \* bound: how far snapshots move PC back

Bytes == {"dd", "fd", "cb", "ed", "ei", "di", "halt", "retn", "op"}

ASSUME Z80Assumption == Tails \subseteq {"dd", "fd", "retn", "op"} /\ MaxBack \in Nat

VARIABLES
  c,                  \* cpus: the fields that matter here
  opcode,             \* the opcode byte of the last instruction
  back,               \* how far PC is from where that instruction left it
  last,               \* history: what the last instruction was
  served              \* history: what the step accepted

vars == <<c, opcode, back, last, served>>

Cpu ==
  [iff1 : BOOLEAN, iff2 : BOOLEAN, lock : BOOLEAN, modifier : 0 .. 2,
   halted : BOOLEAN, int : BOOLEAN, nmi : BOOLEAN]

ResetCpu ==
  [iff1 |-> FALSE, iff2 |-> FALSE, lock |-> FALSE, modifier |-> 0,
   halted |-> FALSE, int |-> FALSE, nmi |-> FALSE]

-----------------------------------------------------------------------------
(* Interrupts.  Each operator is the CPU after the function.                *)

TakesNmi(cpu) == cpu.nmi /\ ~cpu.lock

CheckNmi_WrongFlipFlop(cpu) ==
  IF TakesNmi(cpu)
  THEN [cpu EXCEPT !.nmi = FALSE, !.halted = FALSE, !.iff2 = FALSE]
  ELSE cpu

\* z80_check_nmi()
CheckNmi(cpu) ==
  IF TakesNmi(cpu)
  THEN [cpu EXCEPT !.nmi = FALSE, !.halted = FALSE, !.iff1 = FALSE]
  ELSE cpu

TakesInt(cpu) == cpu.int /\ ~cpu.lock /\ cpu.iff1

CheckInt_WakesFirst(cpu) ==
  IF ~cpu.int \/ cpu.lock THEN cpu
  ELSE IF ~cpu.iff1 THEN [cpu EXCEPT !.int = FALSE, !.halted = FALSE]
  ELSE [cpu EXCEPT !.int = FALSE, !.halted = FALSE, !.iff1 = FALSE, !.iff2 = FALSE]

CheckInt_DropsLocked(cpu) ==
  IF ~cpu.int THEN cpu
  ELSE IF cpu.lock \/ ~cpu.iff1 THEN [cpu EXCEPT !.int = FALSE]
  ELSE [cpu EXCEPT !.int = FALSE, !.halted = FALSE, !.iff1 = FALSE, !.iff2 = FALSE]

CheckInt_KeepsDisabled(cpu) ==
  IF ~cpu.int \/ cpu.lock \/ ~cpu.iff1 THEN cpu
  ELSE [cpu EXCEPT !.int = FALSE, !.halted = FALSE, !.iff1 = FALSE, !.iff2 = FALSE]

\* z80_check_int(): a request that is not enabled is dropped, unless the last
\* instruction has blocked it.
CheckInt(cpu) ==
  IF ~cpu.int \/ cpu.lock THEN cpu
  ELSE IF ~cpu.iff1 THEN [cpu EXCEPT !.int = FALSE]
  ELSE [cpu EXCEPT !.int = FALSE, !.halted = FALSE, !.iff1 = FALSE, !.iff2 = FALSE]

-----------------------------------------------------------------------------
(* Instructions.  A DD or FD before an instruction that it does not change  *)
(* is stray: the tables lead to the same functions.                         *)

MainOp_EiUnlocked(cpu, b) ==
  CASE b = "dd"   -> [cpu EXCEPT !.lock = TRUE, !.modifier = 1]
    [] b = "fd"   -> [cpu EXCEPT !.lock = TRUE, !.modifier = 2]
    [] b = "ei"   -> [cpu EXCEPT !.iff1 = TRUE, !.iff2 = TRUE]
    [] b = "di"   -> [cpu EXCEPT !.iff1 = FALSE, !.iff2 = FALSE, !.lock = TRUE]
    [] b = "halt" -> [cpu EXCEPT !.halted = TRUE]
    [] OTHER      -> cpu

MainOp_PrefixByte(cpu, b) ==
  CASE b = "dd"   -> [cpu EXCEPT !.lock = TRUE, !.modifier = 221]
    [] b = "fd"   -> [cpu EXCEPT !.lock = TRUE, !.modifier = 253]
    [] b = "ei"   -> [cpu EXCEPT !.iff1 = TRUE, !.iff2 = TRUE, !.lock = TRUE]
    [] b = "di"   -> [cpu EXCEPT !.iff1 = FALSE, !.iff2 = FALSE, !.lock = TRUE]
    [] b = "halt" -> [cpu EXCEPT !.halted = TRUE]
    [] OTHER      -> cpu

\* A one-byte opcode: Mi_dd(), Mi_fd(), ei_ei(), ei_di(), ei_halt(), others.
MainOp(cpu, b) ==
  CASE b = "dd"   -> [cpu EXCEPT !.lock = TRUE, !.modifier = 1]
    [] b = "fd"   -> [cpu EXCEPT !.lock = TRUE, !.modifier = 2]
    [] b = "ei"   -> [cpu EXCEPT !.iff1 = TRUE, !.iff2 = TRUE, !.lock = TRUE]
    [] b = "di"   -> [cpu EXCEPT !.iff1 = FALSE, !.iff2 = FALSE, !.lock = TRUE]
    [] b = "halt" -> [cpu EXCEPT !.halted = TRUE]
    [] OTHER      -> cpu

\* An opcode behind ED: ei_retn(), ei_reti(), others.
EdOp(cpu, b) == IF b = "retn" THEN [cpu EXCEPT !.iff1 = cpu.iff2] ELSE cpu

TurnOffModifier_Never(cpu, op) == cpu

\* The end of z80_execinstr(): the modifier goes unless the opcode was one.
TurnOffModifier(cpu, op) ==
  IF op \in {"dd", "fd"} THEN cpu ELSE [cpu EXCEPT !.modifier = 0]

\* What an instruction is, to a programmer.
MainMeaning(b) == IF b \in {"dd", "fd", "ei", "di", "halt"} THEN b ELSE "op"

-----------------------------------------------------------------------------

Init ==
  /\ c = ResetCpu
  /\ opcode = "op"
  /\ back = 0
  /\ last = "start"
  /\ served = "none"

\* z80_execinstr(): accept an interrupt, then execute the next instruction -
\* the first of the handler, if one was accepted.
Execinstr ==
  LET n  == CheckNmi(c)
      i  == CheckInt(n)
      e  == [i EXCEPT !.lock = FALSE]
      how == IF TakesInt(n) THEN "int" ELSE IF TakesNmi(c) THEN "nmi" ELSE "none"
      again == back = 1 /\ how = "none" /\ last # "ay"
  IN  /\ served' = how
      /\ IF e.halted
         THEN /\ c' = e
              /\ back' = IF how = "none" THEN back ELSE 0
              /\ UNCHANGED <<opcode, last>>
         ELSE /\ back' = 0
              /\ \E b \in IF again THEN {opcode} ELSE Bytes :
                   \/ /\ b \notin {"cb", "ed"}
                      /\ opcode' = b
                      /\ c' = TurnOffModifier(MainOp(e, b), b)
                      /\ last' = MainMeaning(b)
                   \/ /\ b \in {"cb", "ed"}
                      /\ last' = "op"
                      /\ \E t \in Tails :
                           /\ opcode' = t
                           /\ c' = TurnOffModifier(IF b = "ed" THEN EdOp(e, t) ELSE e, t)

\* z80_int(), z80_nmi()
Int ==
  /\ c' = [c EXCEPT !.int = TRUE]
  /\ served' = "none"
  /\ UNCHANGED <<opcode, back, last>>

Nmi ==
  /\ c' = [c EXCEPT !.nmi = TRUE]
  /\ served' = "none"
  /\ UNCHANGED <<opcode, back, last>>

\* z80_reset(), as part of zx_reset().
Reset ==
  /\ c' = ResetCpu
  /\ back' = 0
  /\ last' = "start"
  /\ served' = "none"
  /\ UNCHANGED opcode

\* A .z80 snapshot brings both flip-flops, as the saving emulator had them; an
\* .sna only one.
Load ==
  /\ \E iff1, iff2 \in BOOLEAN :
       /\ iff1 => iff2
       /\ c' = [ResetCpu EXCEPT !.iff1 = iff1, !.iff2 = iff2]
  /\ back' = 0
  /\ last' = "start"
  /\ served' = "none"
  /\ UNCHANGED opcode

\* The end of zx_load_snap_ay(): nothing else is reset.
LoadAY ==
  /\ c' = [c EXCEPT !.iff1 = FALSE, !.iff2 = FALSE, !.lock = TRUE]
  /\ back' = 0
  /\ last' = "ay"
  /\ served' = "none"
  /\ UNCHANGED opcode

\* prepare_cpu(), before a snapshot is saved: PC of the running CPU.
Save ==
  /\ back < MaxBack
  /\ back' = IF c.modifier # 0 THEN back + 1 ELSE back
  /\ served' = "none"
  /\ UNCHANGED <<c, opcode, last>>

Next == Execinstr \/ Int \/ Nmi \/ Reset \/ Load \/ LoadAY \/ Save

\* The main loop executes instructions until the program is quit.  The user's
\* keys are looked at once in a field only, so that a snapshot is not loaded
\* before every instruction that could accept an interrupt.
Spec ==
  Init /\ [][Next]_vars /\ WF_vars(Execinstr) /\ SF_vars(~c.lock /\ Execinstr)

-----------------------------------------------------------------------------
(* Properties                                                               *)

\* The types of the CPU's fields and of the history.
TypeOK ==
  /\ c \in Cpu
  /\ opcode \in Bytes
  /\ back \in 0 .. MaxBack
  /\ last \in {"dd", "fd", "ei", "di", "halt", "op", "start", "ay"}
  /\ served \in {"none", "int", "nmi"}

\* IFF2 remembers IFF1 across an NMI, however NMIs, interrupts, RETN and EI are
\* nested: RETN never enables interrupts that were disabled.
IffOrder == c.iff1 => c.iff2

\* The modifier is on exactly behind its prefix - "turn off old modifier prefix
\* (unless set just now)" (z80.c:5530): no other instruction is executed as if
\* it had one, and a snapshot moves PC back onto a prefix only.
PrefixFresh ==
  last # "ay" => c.modifier = (CASE last = "dd" -> 1 [] last = "fd" -> 2 [] OTHER -> 0)

\* No handler is entered behind EI, DI or a prefix: the instruction that
\* follows is executed first, and a prefix is never parted from it.
EntersAtBoundary == [][served' # "none" => last \notin {"ei", "di", "dd", "fd"}]_vars

\* HALT lasts until an interrupt is accepted: one that is disabled does not end
\* it.  (A reset or a snapshot does.)
HaltEnds == [][c.halted /\ ~c'.halted => served' # "none" \/ last' = "start"]_vars

\* A request that is made while interrupts are enabled is not dropped, not even
\* when EI or prefixes delay it; only a simultaneous NMI costs it.
IntNotLost ==
  [][c.int /\ c.iff1 /\ ~c'.int => served' = "int" \/ c.nmi \/ last' = "start"]_vars

\* Unless the program blocks interrupts for ever, a request is answered: taken
\* or dropped, never left over to come at a wrong time.
IntAnswered == []<>(~c.lock) => (c.int ~> ~c.int)

=============================================================================
