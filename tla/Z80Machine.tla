----------------------------- MODULE Z80Machine -----------------------------
(***************************************************************************)
(* The Z80 with a program in its memory: z80_execinstr() again and again    *)
(* until the program halts, while interrupts are requested at any time.     *)
(*                                                                          *)
(* A job is a program with its input.  The program ends with a HALT and a   *)
(* jump back to it; what is in memory and in the registers then is compared *)
(* with what the program is to compute.                                     *)
(***************************************************************************)
EXTENDS Z80Instr, FiniteSets

CONSTANTS
  Jobs,               \* programs with their inputs
  Start(_),           \* the machine when a job begins
  Writes(_),          \* the addresses that a job may change, but for its stack
  Result(_, _),       \* what the job computes: the machine at its HALT is right
  Requests(_),        \* bound: how often interrupts are requested
  Stack,              \* the addresses of the stack
  IntCount, NmiCount  \* the addresses in which the handlers count their runs

ASSUME JobsAssumption == \A j \in Jobs : Start(j) \in Machine /\ Requests(j) \in Nat

VARIABLES
  job,
  s,                  \* cpus, the memory and the ports
  left,               \* bound: the requests that may still come
  served,             \* history: what the step accepted
  taken               \* history: how many of each kind were accepted

vars == <<job, s, left, served, taken>>

Kinds == {"int", "nmi"}

-----------------------------------------------------------------------------
(* What the control part of the CPU sees of an instruction.                 *)

\* The opcode, told apart by what it does.
Class ==
  CASE s.opcode = 221 -> "dd"
    [] s.opcode = 253 -> "fd"
    [] s.group = "op" /\ s.opcode = 251 -> "ei"
    [] s.group = "op" /\ s.opcode = 243 -> "di"
    [] s.group = "op" /\ s.opcode = 118 -> "halt"
    [] s.group = "ed" /\ s.opcode \div 64 = 1 /\ s.opcode % 8 = 5 -> "retn"
    [] OTHER -> "op"

Control ==
  INSTANCE Z80Control WITH
    Tails <- {"dd", "fd", "retn", "op"},
    MaxBack <- 0,
    c <- [iff1 |-> s.IFF1, iff2 |-> s.IFF2, lock |-> s.int_lock,
          modifier |-> s.modifier, halted |-> s.halted,
          int |-> s.int_pending, nmi |-> s.nmi_pending],
    opcode <- Class,
    back <- 0,
    last <- IF s.group # "op" \/ Class = "retn" THEN "op" ELSE Class,
    served <- served

\* What z80_check_nmi() and z80_check_int() accept together.
Accepted ==
  LET n == CheckNmi(s)
  IN  CASE n.int_pending /\ ~n.int_lock /\ n.IFF1 -> "int"
        [] n.nmi_pending # s.nmi_pending -> "nmi"
        [] OTHER -> "none"

-----------------------------------------------------------------------------

Init ==
  /\ job \in Jobs
  /\ s = Start(job)
  /\ left = Requests(job)
  /\ served = "none"
  /\ taken = [k \in Kinds |-> 0]

\* z80_execinstr().  A CPU that is halted only counts R until a request comes:
\* the bound leaves that out.
Running == ~s.halted \/ s.int_pending \/ s.nmi_pending
Tick ==
  /\ Running
  /\ s' = Execinstr(s)
  /\ served' = Accepted
  /\ taken' = IF served' = "none" THEN taken ELSE [taken EXCEPT ![served'] = @ + 1]
  /\ UNCHANGED <<job, left>>

\* z80_int() and z80_nmi()
Request(n) ==
  /\ left > 0
  /\ left' = left - 1
  /\ s' = n
  /\ served' = "none"
  /\ UNCHANGED <<job, taken>>

RequestInt == Request([s EXCEPT !.int_pending = TRUE])
RequestNmi == Request([s EXCEPT !.nmi_pending = TRUE])

Next == Tick \/ RequestInt \/ RequestNmi

\* The main loop executes one instruction after the other: this is WF_vars(Tick)
\* with Running in the place of ENABLED <<Tick>>_vars.
Fairness == []<>~Running \/ []<><<Tick>>_vars

Spec == Init /\ [][Next]_vars /\ Fairness

-----------------------------------------------------------------------------
(* Properties                                                               *)

\* The types of the registers, the memory and the history: no register or byte
\* leaves its width, whatever is computed.
TypeOK ==
  /\ job \in Jobs
  /\ s \in Machine
  /\ left \in 0 .. Requests(job)
  /\ served \in Kinds \cup {"none"}
  /\ taken \in [Kinds -> Nat]

Done == ~Running

\* A program that has come to its HALT has computed what it is to compute, and
\* its stack is as it was, wherever it was interrupted: between a prefix and
\* its opcode, within a block instruction, behind EI, or in the other handler.
ComputesResult ==
  Done => Result(job, s) /\ s.rp["SP"] = Start(job).rp["SP"]

\* Nothing else in memory changes, at any time: no instruction, least of all a
\* block instruction at its end or an operand (IX+d), writes beside its target.
Footprint ==
  LET before == Start(job).mem
  IN  \A a \in Ram :
        s.mem[a] # before[a] =>
          a \in Writes(job) \cup Stack \cup {IntCount, NmiCount}

\* Every request that is accepted runs its handler once and to its end.
HandlersRun ==
  Done => s.mem[IntCount] = taken["int"] /\ s.mem[NmiCount] = taken["nmi"]

\* The instructions change prefixes, interrupt flip-flops and HALT as
\* Z80Control says, for each byte that is really fetched: its properties hold
\* of the whole instruction set.
ImplementsControl == [][Control!Execinstr \/ Control!Int \/ Control!Nmi]_vars

\* A comparison leaves A alone: "timing&flags taken from cp_r" (z80.c:4536).
CompareKeepsA == [][Class' = "op" /\ s'.group = "op" /\ s'.opcode \in 184 .. 191 =>
                      s'.A = s.A]_vars

\* Loops and block instructions come to their end, and so does the program,
\* also when it is interrupted.
Terminates == []<>Done
=============================================================================
