------------------------- MODULE Z80Control_proofs -------------------------
(***************************************************************************)
(* Proofs about Z80Control.                                                 *)
(***************************************************************************)
EXTENDS Z80Control, TLAPS

-----------------------------------------------------------------------------
(* The functions, field by field.                                           *)

LEMMA CheckNmiFields ==
  ASSUME NEW cpu \in Cpu
  PROVE  LET r == CheckNmi(cpu) IN
         /\ r \in Cpu
         /\ r.int = cpu.int /\ r.lock = cpu.lock /\ r.modifier = cpu.modifier
         /\ r.iff2 = cpu.iff2
         /\ ~TakesNmi(cpu) => r = cpu
         /\ TakesNmi(cpu) => ~r.iff1 /\ ~r.halted
  BY DEF CheckNmi, TakesNmi, Cpu

LEMMA CheckIntFields ==
  ASSUME NEW cpu \in Cpu
  PROVE  LET r == CheckInt(cpu) IN
         /\ r \in Cpu
         /\ r.nmi = cpu.nmi /\ r.lock = cpu.lock /\ r.modifier = cpu.modifier
         /\ ~TakesInt(cpu) =>
              r.iff1 = cpu.iff1 /\ r.iff2 = cpu.iff2 /\ r.halted = cpu.halted
         /\ TakesInt(cpu) => ~r.iff1 /\ ~r.iff2 /\ ~r.halted
         /\ cpu.int /\ ~r.int => ~cpu.lock
         /\ cpu.int /\ ~r.int /\ cpu.iff1 => TakesInt(cpu)
  BY DEF CheckInt, TakesInt, Cpu

LEMMA MainOpFields ==
  ASSUME NEW cpu \in Cpu, NEW b \in Bytes \ {"cb", "ed"}
  PROVE  LET r == TurnOffModifier(MainOp(cpu, b), b) IN
         /\ r \in Cpu
         /\ (cpu.iff1 => cpu.iff2) => (r.iff1 => r.iff2)
         /\ r.modifier = IF b = "dd" THEN 1 ELSE IF b = "fd" THEN 2 ELSE 0
         /\ b \in {"ei", "di", "dd", "fd"} => r.lock
         /\ r.int = cpu.int
         /\ ~cpu.halted /\ r.halted => b = "halt"
<1> DEFINE r == TurnOffModifier(MainOp(cpu, b), b)
<1>0. TRUE \in BOOLEAN /\ FALSE \in BOOLEAN /\ 0 \in 0 .. 2 /\ 1 \in 0 .. 2 /\ 2 \in 0 .. 2
  OBVIOUS
<1>1. CASE b = "dd"
  <2>1. r = [cpu EXCEPT !.lock = TRUE, !.modifier = 1]
    BY <1>1 DEF TurnOffModifier, MainOp
  <2>2. [cpu EXCEPT !.lock = TRUE, !.modifier = 1] \in Cpu
    BY <1>0, Zenon DEF Cpu
  <2>3. /\ r.iff1 = cpu.iff1 /\ r.iff2 = cpu.iff2 /\ r.lock
        /\ r.modifier = 1 /\ r.halted = cpu.halted /\ r.int = cpu.int
    BY <2>1 DEF Cpu
  <2> QED BY <1>1, <2>1, <2>2, <2>3
<1>2. CASE b = "fd"
  <2>1. r = [cpu EXCEPT !.lock = TRUE, !.modifier = 2]
    BY <1>2 DEF TurnOffModifier, MainOp
  <2>2. [cpu EXCEPT !.lock = TRUE, !.modifier = 2] \in Cpu
    BY <1>0, Zenon DEF Cpu
  <2>3. /\ r.iff1 = cpu.iff1 /\ r.iff2 = cpu.iff2 /\ r.lock
        /\ r.modifier = 2 /\ r.halted = cpu.halted /\ r.int = cpu.int
    BY <2>1 DEF Cpu
  <2> QED BY <1>2, <2>1, <2>2, <2>3
<1>3. CASE b = "ei"
  <2>1. r = [[cpu EXCEPT !.iff1 = TRUE, !.iff2 = TRUE, !.lock = TRUE] EXCEPT !.modifier = 0]
    BY <1>3 DEF TurnOffModifier, MainOp
  <2>2. [[cpu EXCEPT !.iff1 = TRUE, !.iff2 = TRUE, !.lock = TRUE] EXCEPT !.modifier = 0] \in Cpu
    BY <1>0, Zenon DEF Cpu
  <2>3. /\ r.iff1 /\ r.iff2 /\ r.lock
        /\ r.modifier = 0 /\ r.halted = cpu.halted /\ r.int = cpu.int
    BY <2>1 DEF Cpu
  <2> QED BY <1>3, <2>1, <2>2, <2>3
<1>4. CASE b = "di"
  <2>1. r = [[cpu EXCEPT !.iff1 = FALSE, !.iff2 = FALSE, !.lock = TRUE] EXCEPT !.modifier = 0]
    BY <1>4 DEF TurnOffModifier, MainOp
  <2>2. [[cpu EXCEPT !.iff1 = FALSE, !.iff2 = FALSE, !.lock = TRUE] EXCEPT !.modifier = 0] \in Cpu
    BY <1>0, Zenon DEF Cpu
  <2>3. /\ ~r.iff1 /\ ~r.iff2 /\ r.lock
        /\ r.modifier = 0 /\ r.halted = cpu.halted /\ r.int = cpu.int
    BY <2>1 DEF Cpu
  <2> QED BY <1>4, <2>1, <2>2, <2>3
<1>5. CASE b = "halt"
  <2>1. r = [[cpu EXCEPT !.halted = TRUE] EXCEPT !.modifier = 0]
    BY <1>5 DEF TurnOffModifier, MainOp
  <2>2. [[cpu EXCEPT !.halted = TRUE] EXCEPT !.modifier = 0] \in Cpu
    BY <1>0, Zenon DEF Cpu
  <2>3. /\ r.iff1 = cpu.iff1 /\ r.iff2 = cpu.iff2 /\ r.lock = cpu.lock
        /\ r.modifier = 0 /\ r.halted /\ r.int = cpu.int
    BY <2>1 DEF Cpu
  <2> QED BY <1>5, <2>1, <2>2, <2>3
<1>6. CASE b \in {"retn", "op"}
  <2>1. r = [cpu EXCEPT !.modifier = 0]
    BY <1>6 DEF TurnOffModifier, MainOp
  <2> QED BY <1>6, <2>1 DEF Cpu
<1> QED BY <1>1, <1>2, <1>3, <1>4, <1>5, <1>6 DEF Bytes

LEMMA TailFields ==
  ASSUME NEW cpu \in Cpu, NEW t \in Tails, NEW b \in {"cb", "ed"}
  PROVE  LET r == TurnOffModifier(IF b = "ed" THEN EdOp(cpu, t) ELSE cpu, t) IN
         /\ r \in Cpu
         /\ (cpu.iff1 => cpu.iff2) => (r.iff1 => r.iff2)
         /\ t \notin {"dd", "fd"} => r.modifier = 0
         /\ r.int = cpu.int /\ r.halted = cpu.halted
  BY DEF TurnOffModifier, EdOp, Cpu

-----------------------------------------------------------------------------
(* The inductive invariant.                                                 *)

\* Behind EI, DI and the prefixes the lock is on.
Shielded == last \in {"ei", "di", "dd", "fd"} => c.lock

\* A halted CPU has executed HALT - or an .ay file was loaded since.
HaltKnown == c.halted => last \in {"halt", "ay"}

IInv == TypeOK /\ IffOrder /\ Shielded /\ HaltKnown

\* The CPU when an instruction is fetched, or when it stays halted.
Entered == [CheckInt(CheckNmi(c)) EXCEPT !.lock = FALSE]

LEMMA EnteredFields ==
  ASSUME c \in Cpu
  PROVE  /\ Entered \in Cpu
         /\ IffOrder => (Entered.iff1 => Entered.iff2)
         /\ Entered.halted => c.halted
         /\ Entered.modifier = c.modifier
<1> DEFINE n == CheckNmi(c)
           i == CheckInt(n)
<1>1. /\ n \in Cpu /\ n.iff2 = c.iff2 /\ n.modifier = c.modifier
      /\ n = c \/ (~n.iff1 /\ ~n.halted)
  BY CheckNmiFields
<1> HIDE DEF n
<1>2. /\ i \in Cpu /\ i.modifier = n.modifier
      /\ \/ i.iff1 = n.iff1 /\ i.iff2 = n.iff2 /\ i.halted = n.halted
         \/ ~i.iff1 /\ ~i.iff2 /\ ~i.halted
  BY <1>1, CheckIntFields
<1> HIDE DEF i
<1>3. Entered = [i EXCEPT !.lock = FALSE]
  BY DEF Entered, i, n
<1>4. /\ Entered \in Cpu /\ Entered.iff1 = i.iff1 /\ Entered.iff2 = i.iff2
      /\ Entered.halted = i.halted /\ Entered.modifier = i.modifier
  BY <1>2, <1>3 DEF Cpu
<1>5. IffOrder => (i.iff1 => i.iff2)
  BY <1>1, <1>2 DEF IffOrder
<1> QED BY <1>1, <1>2, <1>4, <1>5

\* A step of the main loop, by what is executed.
LEMMA ExecCases ==
  ASSUME Execinstr
  PROVE  /\ served' \in {"none", "int", "nmi"}
         /\ \/ /\ Entered.halted
               /\ c' = Entered /\ opcode' = opcode /\ last' = last
               /\ back' = back \/ back' = 0
            \/ /\ ~Entered.halted /\ back' = 0
               /\ \E b \in Bytes \cup {opcode} :
                    \/ /\ b \notin {"cb", "ed"} /\ opcode' = b
                       /\ c' = TurnOffModifier(MainOp(Entered, b), b)
                       /\ last' = MainMeaning(b)
                    \/ /\ b \in {"cb", "ed"} /\ last' = "op"
                       /\ \E t \in Tails :
                            /\ opcode' = t
                            /\ c' = TurnOffModifier(
                                      IF b = "ed" THEN EdOp(Entered, t) ELSE Entered, t)
  BY DEF Execinstr, Entered

LEMMA ExecKeeps == ASSUME IInv, Execinstr PROVE IInv'
<1>1. c \in Cpu /\ opcode \in Bytes /\ back \in 0 .. MaxBack
  BY DEF IInv, TypeOK
<1>2. /\ Entered \in Cpu /\ (Entered.iff1 => Entered.iff2)
      /\ (Entered.halted => c.halted)
  BY <1>1, EnteredFields DEF IInv
<1>3. served' \in {"none", "int", "nmi"}
  BY ExecCases
<1>4. MaxBack \in Nat
  BY Z80Assumption
<1>5. CASE /\ Entered.halted
           /\ c' = Entered /\ opcode' = opcode /\ last' = last
           /\ back' = back \/ back' = 0
  <2>1. last \in {"halt", "ay"}
    BY <1>2, <1>5 DEF IInv, HaltKnown
  <2>2. TypeOK'
    BY <1>1, <1>2, <1>3, <1>4, <1>5, <2>1 DEF TypeOK
  <2> QED BY <1>2, <1>5, <2>1, <2>2 DEF IInv, IffOrder, Shielded, HaltKnown
<1>6. ASSUME NEW b \in Bytes, ~Entered.halted, back' = 0, b \notin {"cb", "ed"},
             opcode' = b, c' = TurnOffModifier(MainOp(Entered, b), b),
             last' = MainMeaning(b)
      PROVE  IInv'
  <2>1. /\ c' \in Cpu /\ (c'.iff1 => c'.iff2)
        /\ (b \in {"ei", "di", "dd", "fd"} => c'.lock)
        /\ (c'.halted => b = "halt")
    BY <1>2, <1>6, MainOpFields
  <2>2. /\ last' = b \/ (last' = "op" /\ b \notin {"dd", "fd", "ei", "di", "halt"})
        /\ last' \in {"dd", "fd", "ei", "di", "halt", "op"}
    BY <1>6 DEF MainMeaning
  <2>3. TypeOK'
    BY <1>3, <1>4, <1>6, <2>1, <2>2 DEF TypeOK
  <2> QED BY <2>1, <2>2, <2>3 DEF IInv, IffOrder, Shielded, HaltKnown
<1>7. ASSUME NEW b \in {"cb", "ed"}, NEW t \in Tails, ~Entered.halted, back' = 0,
             opcode' = t, last' = "op",
             c' = TurnOffModifier(IF b = "ed" THEN EdOp(Entered, t) ELSE Entered, t)
      PROVE  IInv'
  <2>1. c' \in Cpu /\ (c'.iff1 => c'.iff2) /\ ~c'.halted
    BY <1>2, <1>7, TailFields
  <2>2. t \in Bytes
    BY Z80Assumption DEF Bytes
  <2>3. TypeOK'
    BY <1>3, <1>4, <1>7, <2>1, <2>2 DEF TypeOK
  <2> QED BY <1>7, <2>1, <2>3 DEF IInv, IffOrder, Shielded, HaltKnown
<1> QED BY <1>1, <1>5, <1>6, <1>7, ExecCases

LEMMA OthersKeep ==
  ASSUME IInv, Int \/ Nmi \/ Reset \/ Load \/ LoadAY \/ Save \/ UNCHANGED vars
  PROVE  IInv'
<1>1. MaxBack \in Nat
  BY Z80Assumption
<1>2. ResetCpu \in Cpu /\ ~ResetCpu.halted /\ ~ResetCpu.iff1
  BY DEF ResetCpu, Cpu
<1>3. CASE Int
  BY <1>3 DEF IInv, Int, TypeOK, Cpu, IffOrder, Shielded, HaltKnown
<1>4. CASE Nmi
  BY <1>4 DEF IInv, Nmi, TypeOK, Cpu, IffOrder, Shielded, HaltKnown
<1>5. CASE Reset
  BY <1>1, <1>2, <1>5 DEF IInv, Reset, TypeOK, IffOrder, Shielded, HaltKnown
<1>6. CASE Load
  <2>1. PICK iff1 \in BOOLEAN, iff2 \in BOOLEAN :
          (iff1 => iff2) /\ c' = [ResetCpu EXCEPT !.iff1 = iff1, !.iff2 = iff2]
    BY <1>6 DEF Load
  <2>2. c' \in Cpu /\ (c'.iff1 => c'.iff2) /\ ~c'.halted
    BY <1>2, <2>1 DEF Cpu
  <2>3. opcode' = opcode /\ back' = 0 /\ last' = "start" /\ served' = "none"
    BY <1>6 DEF Load
  <2> QED BY <1>1, <2>2, <2>3 DEF IInv, TypeOK, IffOrder, Shielded, HaltKnown
<1>7. CASE LoadAY
  <2>1. c' \in Cpu /\ ~c'.iff1 /\ c'.lock
    BY <1>7 DEF LoadAY, IInv, TypeOK, Cpu
  <2> QED BY <1>1, <1>7, <2>1 DEF IInv, LoadAY, TypeOK, IffOrder, Shielded, HaltKnown
<1>8. CASE Save
  BY <1>1, <1>8 DEF IInv, Save, TypeOK, IffOrder, Shielded, HaltKnown
<1>9. CASE UNCHANGED vars
  BY <1>9 DEF IInv, vars, TypeOK, IffOrder, Shielded, HaltKnown
<1> QED BY <1>3, <1>4, <1>5, <1>6, <1>7, <1>8, <1>9

-----------------------------------------------------------------------------
(* The theorems.                                                            *)

\* The inductive invariant holds in every state: whatever the program executes
\* and whenever interrupts, resets and snapshots come.
THEOREM Inductive == Spec => []IInv
<1>1. Init => IInv
  <2> SUFFICES ASSUME Init PROVE IInv
    OBVIOUS
  <2>1. ResetCpu \in Cpu /\ ~ResetCpu.halted /\ ~ResetCpu.iff1
    BY DEF ResetCpu, Cpu
  <2> QED
    BY <2>1, Z80Assumption
    DEF Init, IInv, TypeOK, Bytes, IffOrder, Shielded, HaltKnown
<1>2. IInv /\ [Next]_vars => IInv'
  BY ExecKeeps, OthersKeep DEF Next
<1> QED BY <1>1, <1>2, PTL DEF Spec

\* The fields of the CPU keep their types.
THEOREM TypeCorrect == Spec => []TypeOK
<1>1. IInv => TypeOK
  BY DEF IInv
<1> QED BY <1>1, Inductive, PTL

\* IFF1 implies IFF2, whatever is nested in what: RETN never enables interrupts
\* that were disabled.
THEOREM FlipFlopsCorrect == Spec => []IffOrder
<1>1. IInv => IffOrder
  BY DEF IInv
<1> QED BY <1>1, Inductive, PTL

\* The handlers of INT and NMI are never entered behind EI, DI or a prefix.
THEOREM BoundaryCorrect == Spec => EntersAtBoundary
<1>1. IInv /\ [Next]_vars =>
        [served' # "none" => last \notin {"ei", "di", "dd", "fd"}]_vars
  <2> SUFFICES ASSUME IInv, Next, served' # "none", last \in {"ei", "di", "dd", "fd"}
               PROVE  FALSE
    OBVIOUS
  <2>1. c \in Cpu /\ c.lock
    BY DEF IInv, TypeOK, Shielded
  <2>2. Execinstr
    BY DEF Next, Int, Nmi, Reset, Load, LoadAY, Save
  <2>3. ~TakesNmi(c)
    BY <2>1 DEF TakesNmi
  <2>4. CheckNmi(c) = c
    BY <2>3 DEF CheckNmi
  <2>5. ~TakesInt(CheckNmi(c))
    BY <2>1, <2>4 DEF TakesInt
  <2> QED BY <2>2, <2>3, <2>5 DEF Execinstr
<1> QED BY <1>1, Inductive, PTL DEF Spec, EntersAtBoundary

\* What the CPU has accepted: nothing changes but the lock, or a handler is
\* entered, or a disabled request is dropped.
LEMMA Acceptance ==
  ASSUME c \in Cpu, Execinstr
  PROVE  /\ served' = "none" =>
              /\ Entered.halted = c.halted
              /\ c.int /\ c.iff1 => Entered.int
         /\ served' = "int" \/ c.nmi \/ (c.int /\ c.iff1 => Entered.int)
<1> DEFINE n == CheckNmi(c)
           i == CheckInt(n)
<1>1. /\ n \in Cpu /\ n.int = c.int /\ (~TakesNmi(c) => n = c)
      /\ TakesNmi(c) => ~n.iff1 /\ ~n.halted
  BY CheckNmiFields
<1>2. /\ served' = "int" <=> TakesInt(n)
      /\ served' = "none" => ~TakesInt(n) /\ ~TakesNmi(c)
  BY DEF Execinstr
<1> HIDE DEF n
<1>3. /\ i \in Cpu
      /\ ~TakesInt(n) => i.iff1 = n.iff1 /\ i.iff2 = n.iff2 /\ i.halted = n.halted
      /\ n.int /\ ~i.int /\ n.iff1 => TakesInt(n)
  BY <1>1, CheckIntFields
<1> HIDE DEF i
<1>4. Entered = [i EXCEPT !.lock = FALSE]
  BY DEF Entered, i, n
<1>5. Entered.halted = i.halted /\ Entered.int = i.int
  BY <1>3, <1>4 DEF Cpu
<1>6. TakesNmi(c) => c.nmi
  BY DEF TakesNmi
<1> QED BY <1>1, <1>2, <1>3, <1>5, <1>6

\* An instruction leaves the request and never ends HALT.
LEMMA InstructionKeeps ==
  ASSUME c \in Cpu, opcode \in Bytes, Execinstr
  PROVE  c'.int = Entered.int /\ (Entered.halted => c'.halted)
<1>1. Entered \in Cpu
  BY EnteredFields
<1>2. ASSUME NEW b \in Bytes, b \notin {"cb", "ed"},
             c' = TurnOffModifier(MainOp(Entered, b), b)
      PROVE  c'.int = Entered.int
  BY <1>1, <1>2, MainOpFields
<1>3. ASSUME NEW b \in {"cb", "ed"}, NEW t \in Tails,
             c' = TurnOffModifier(IF b = "ed" THEN EdOp(Entered, t) ELSE Entered, t)
      PROVE  c'.int = Entered.int
  BY <1>1, <1>3, TailFields
<1> QED BY <1>1, <1>2, <1>3, ExecCases

\* Only an accepted interrupt, a reset or a snapshot ends HALT.
THEOREM HaltCorrect == Spec => HaltEnds
<1>1. IInv /\ [Next]_vars =>
        [c.halted /\ ~c'.halted => served' # "none" \/ last' = "start"]_vars
  <2> SUFFICES ASSUME IInv, Next, c.halted, ~c'.halted
               PROVE  served' # "none" \/ last' = "start"
    OBVIOUS
  <2>1. c \in Cpu /\ opcode \in Bytes
    BY DEF IInv, TypeOK
  <2>2. CASE Execinstr
    BY <2>1, <2>2, Acceptance, InstructionKeeps
  <2>3. CASE Reset \/ Load
    BY <2>3 DEF Reset, Load
  <2>4. CASE Int \/ Nmi \/ LoadAY \/ Save
    <3>1. c'.halted = c.halted
      BY <2>1, <2>4 DEF Int, Nmi, LoadAY, Save, Cpu
    <3> QED BY <3>1
  <2> QED BY <2>2, <2>3, <2>4 DEF Next
<1> QED BY <1>1, Inductive, PTL DEF Spec, HaltEnds

\* A request that comes while interrupts are enabled is lost to a simultaneous
\* NMI only.
THEOREM RequestCorrect == Spec => IntNotLost
<1>1. IInv /\ [Next]_vars =>
        [c.int /\ c.iff1 /\ ~c'.int => served' = "int" \/ c.nmi \/ last' = "start"]_vars
  <2> SUFFICES ASSUME IInv, Next, c.int, c.iff1, ~c'.int
               PROVE  served' = "int" \/ c.nmi \/ last' = "start"
    OBVIOUS
  <2>1. c \in Cpu /\ opcode \in Bytes
    BY DEF IInv, TypeOK
  <2>2. CASE Execinstr
    BY <2>1, <2>2, Acceptance, InstructionKeeps
  <2>3. CASE Reset \/ Load
    BY <2>3 DEF Reset, Load
  <2>4. CASE Int \/ Nmi \/ LoadAY \/ Save
    <3>1. c'.int
      BY <2>1, <2>4 DEF Int, Nmi, LoadAY, Save, Cpu
    <3> QED BY <3>1
  <2> QED BY <2>2, <2>3, <2>4 DEF Next
<1> QED BY <1>1, Inductive, PTL DEF Spec, IntNotLost

\* No byte behind CB or ED is a prefix.
TailsPlain == Tails \cap {"dd", "fd"} = {}

\* When no byte behind CB or ED is a prefix, the modifier is on exactly behind
\* its prefix.  (With such bytes it is not: run MCZ80Prefix.)
THEOREM PrefixCorrect == TailsPlain /\ Spec => []PrefixFresh
<1> SUFFICES ASSUME TailsPlain PROVE Spec => []PrefixFresh
  OBVIOUS
<1>1. Init => PrefixFresh
  BY DEF Init, PrefixFresh, ResetCpu
<1>2. IInv /\ PrefixFresh /\ [Next]_vars => PrefixFresh'
  <2> SUFFICES ASSUME IInv, PrefixFresh, [Next]_vars PROVE PrefixFresh'
    OBVIOUS
  <2>1. c \in Cpu /\ opcode \in Bytes
    BY DEF IInv, TypeOK
  <2>2. CASE Execinstr
    <3>1. Entered \in Cpu /\ Entered.modifier = c.modifier
      BY <2>1, EnteredFields
    <3>2. ASSUME c' = Entered, last' = last
          PROVE  PrefixFresh'
      BY <3>1, <3>2 DEF PrefixFresh
    <3>3. ASSUME NEW b \in Bytes, b \notin {"cb", "ed"}, last' = MainMeaning(b),
                 c' = TurnOffModifier(MainOp(Entered, b), b)
          PROVE  PrefixFresh'
      <4>1. c'.modifier = IF b = "dd" THEN 1 ELSE IF b = "fd" THEN 2 ELSE 0
        BY <3>1, <3>3, MainOpFields
      <4> QED BY <3>3, <4>1 DEF PrefixFresh, MainMeaning
    <3>4. ASSUME NEW b \in {"cb", "ed"}, NEW t \in Tails, last' = "op",
                 c' = TurnOffModifier(IF b = "ed" THEN EdOp(Entered, t) ELSE Entered, t)
          PROVE  PrefixFresh'
      <4>1. t \notin {"dd", "fd"}
        BY DEF TailsPlain
      <4>2. c'.modifier = 0
        BY <3>1, <3>4, <4>1, TailFields
      <4> QED BY <3>4, <4>2 DEF PrefixFresh
    <3> QED BY <2>1, <2>2, <3>2, <3>3, <3>4, ExecCases
  <2>3. CASE Reset
    BY <2>3 DEF Reset, ResetCpu, PrefixFresh
  <2>4. CASE Load
    BY <2>4 DEF Load, ResetCpu, PrefixFresh
  <2>5. CASE LoadAY
    BY <2>5 DEF LoadAY, PrefixFresh
  <2>6. CASE Int \/ Nmi \/ Save \/ UNCHANGED vars
    <3>1. c'.modifier = c.modifier /\ last' = last
      BY <2>1, <2>6 DEF Int, Nmi, Save, vars, Cpu
    <3> QED BY <3>1 DEF PrefixFresh
  <2> QED BY <2>2, <2>3, <2>4, <2>5, <2>6 DEF Next
<1> QED BY <1>1, <1>2, Inductive, PTL DEF Spec

=============================================================================
