--------------------------- MODULE Snapshot_proofs ---------------------------
(***************************************************************************)
(* Saving a snapshot is invisible to the program that goes on, and a whole  *)
(* file is loaded as the machine that it is of, for all states of the CPU,  *)
(* all contents of the memory and all sizes of a page.  A load that fails   *)
(* keeps the memory.  A page that is packed and unpacked again is the same  *)
(* page.                                                                    *)
(*                                                                          *)
(* The argument: until a file is loaded the machine is a record of its      *)
(* seven fields with a CPU and a memory.  What is put under the stack is    *)
(* put at the same two places as the zeros that replace it, wherever these  *)
(* are in the memory, and the stack pointer comes back modulo 2^16.  A file *)
(* that is refused is refused for what its head says, when registers only   *)
(* have been loaded.  The packer puts the stored form of one run after      *)
(* another, and the unpacker takes each of them for that run.               *)
(*                                                                          *)
(* A whole file holds its parts one after the other: the bytes of the head  *)
(* are read back where they were put, and each page or bank is stored in    *)
(* its own part of the RAM, which together are all of it.  That a whole     *)
(* file is one of the machine it is of is an invariant (FileInv), and so is *)
(* what that machine holds (SoundInv).                                      *)
(***************************************************************************)
EXTENDS Snapshot, TLAPS, NaturalsInduction, WellFoundedInduction

(***************************************************************************)
(* The machine.                                                             *)
(***************************************************************************)
IsFunction(f) == f = [k \in DOMAIN f |-> f[k]]

MachineFields == {"model", "cpu", "border", "page", "locked", "ay", "ram"}

IsMachine(mm) ==
  /\ IsFunction(mm) /\ DOMAIN mm = MachineFields
  /\ mm.cpu \in CpuState
  /\ IsFunction(mm.ram)

MachineInv == did \notin Loads => IsMachine(m)

LEMMA CpuPC ==
  ASSUME NEW c \in CpuState, NEW x \in R16
  PROVE  /\ [c EXCEPT !.PC = x] \in CpuState
         /\ [c EXCEPT !.PC = x].SP = c.SP /\ [c EXCEPT !.PC = x].PC = x
         /\ [[c EXCEPT !.PC = x] EXCEPT !.PC = c.PC] = c
<1>1. [c EXCEPT !.PC = x] \in CpuState
  BY DEF CpuState
<1>2. [c EXCEPT !.PC = x].SP = c.SP /\ [c EXCEPT !.PC = x].PC = x
  BY DEF CpuState
<1>3. [[c EXCEPT !.PC = x] EXCEPT !.PC = c.PC] = c
  BY DEF CpuState
<1> QED BY <1>1, <1>2, <1>3

LEMMA WordType == ASSUME NEW w \in Int PROVE Word(w) \in R16
BY SMTT(30) DEF Word, R16

LEMMA R16Int ==
  ASSUME NEW w \in R16
  PROVE  w \in Int /\ w - 1 \in Int /\ w - 2 \in Int /\ w - 1 + 0 = w - 1
<1>1. w \in Nat
  BY SMTT(30) DEF R16
<1> QED BY <1>1

LEMMA WordBack == ASSUME NEW w \in R16 PROVE Word(Word(w - 2) + 2) = w
<1>0. w \in Nat /\ w < 65536
  BY DEF R16
<1>1. CASE w >= 2
  <2>1. Word(w - 2) = w - 2
    BY <1>0, <1>1 DEF Word
  <2>2. (w - 2) + 2 = w /\ w % 65536 = w
    BY <1>0
  <2>3. Word(Word(w - 2) + 2) = ((w - 2) + 2) % 65536
    BY ONLY <2>1 DEF Word
  <2> QED BY <2>2, <2>3
<1>2. CASE w < 2
  <2>1. Word(w - 2) = w + 65534
    BY <1>0, <1>2 DEF Word
  <2>2. (w + 65534) + 2 = w + 65536 /\ (w + 65536) % 65536 = w
    BY <1>0, <1>2
  <2>3. Word(Word(w - 2) + 2) = ((w + 65534) + 2) % 65536
    BY ONLY <2>1 DEF Word
  <2> QED BY <2>2, <2>3
<1> QED BY <1>0, <1>1, <1>2

LEMMA CpuSP ==
  ASSUME NEW c \in CpuState, NEW x \in R16
  PROVE  /\ [c EXCEPT !.SP = x] \in CpuState
         /\ [c EXCEPT !.SP = x].SP = x /\ [c EXCEPT !.SP = x].PC = c.PC
         /\ [[c EXCEPT !.SP = x] EXCEPT !.SP = c.SP] = c
<1>1. [c EXCEPT !.SP = x] \in CpuState
  BY DEF CpuState
<1>2. [c EXCEPT !.SP = x].SP = x /\ [c EXCEPT !.SP = x].PC = c.PC
  BY DEF CpuState
<1>3. [[c EXCEPT !.SP = x] EXCEPT !.SP = c.SP] = c
  BY DEF CpuState
<1> QED BY <1>1, <1>2, <1>3

(* The machine with another CPU and another memory.                         *)
With(mm, c, ram) == [mm EXCEPT !.cpu = c, !.ram = ram]

LEMMA WithFields ==
  ASSUME NEW mm, IsMachine(mm), NEW c, NEW ram
  PROVE  /\ With(mm, c, ram).cpu = c /\ With(mm, c, ram).ram = ram
         /\ With(mm, c, ram).model = mm.model /\ With(mm, c, ram).page = mm.page
         /\ With(mm, mm.cpu, mm.ram) = mm
         /\ \A d, r : With(With(mm, c, ram), d, r) = With(mm, d, r)
         /\ c \in CpuState /\ IsFunction(ram) => IsMachine(With(mm, c, ram))
<1>1. IsFunction(mm) /\ {"model", "page", "cpu", "ram"} \subseteq DOMAIN mm
  BY DEF IsMachine, MachineFields
<1>2. /\ With(mm, c, ram).cpu = c /\ With(mm, c, ram).ram = ram
      /\ With(mm, c, ram).model = mm.model /\ With(mm, c, ram).page = mm.page
  BY <1>1 DEF With, IsFunction
<1>3. With(mm, mm.cpu, mm.ram) = mm
  BY <1>1 DEF With, IsFunction
<1>4. ASSUME NEW d, NEW r PROVE With(With(mm, c, ram), d, r) = With(mm, d, r)
  BY <1>1 DEF With, IsFunction
<1>5. IsFunction(With(mm, c, ram)) /\ DOMAIN With(mm, c, ram) = DOMAIN mm
  BY <1>1 DEF With, IsFunction
<1>6. ASSUME c \in CpuState, IsFunction(ram) PROVE IsMachine(With(mm, c, ram))
  BY <1>2, <1>5, <1>6 DEF IsMachine
<1> QED BY <1>2, <1>3, <1>4, <1>6

(***************************************************************************)
(* The bytes under the stack.                                               *)
(***************************************************************************)
Put(mm, ram, addr, b) ==
  IF addr < 16384 THEN ram ELSE [ram EXCEPT ![RamIndex(mm, addr)] = b]
Put16(mm, ram, addr, w) == Put(mm, Put(mm, ram, addr, w % 256), Word(addr + 1), w \div 256)

LEMMA PutFunction ==
  ASSUME NEW mm, NEW ram, IsFunction(ram), NEW addr, NEW b
  PROVE  IsFunction(Put(mm, ram, addr, b))
BY DEF Put, IsFunction

(* Zeros replace what was put at the same place, also when its two bytes    *)
(* are in one place.                                                        *)
LEMMA PutTwice ==
  ASSUME NEW mm, NEW ram, IsFunction(ram), NEW a, NEW w, NEW v
  PROVE  Put16(mm, Put16(mm, ram, a, w), a, v) = Put16(mm, ram, a, v)
<1> DEFINE e == Word(a + 1)
           i == RamIndex(mm, a)
           j == RamIndex(mm, e)
<1> HIDE DEF e, i, j
<1>1. ASSUME NEW x, NEW y, NEW x1, NEW y1
      PROVE  Put(mm, Put(mm, Put(mm, Put(mm, ram, a, x), e, y), a, x1), e, y1)
               = Put(mm, Put(mm, ram, a, x1), e, y1)
  <2>1. CASE a < 16384 /\ e < 16384
    BY <2>1 DEF Put
  <2>2. CASE a < 16384 /\ ~(e < 16384)
    <3>1. [[ram EXCEPT ![j] = y] EXCEPT ![j] = y1] = [ram EXCEPT ![j] = y1]
      BY DEF IsFunction
    <3> QED BY <2>2, <3>1 DEF Put, j
  <2>3. CASE ~(a < 16384) /\ e < 16384
    <3>1. [[ram EXCEPT ![i] = x] EXCEPT ![i] = x1] = [ram EXCEPT ![i] = x1]
      BY DEF IsFunction
    <3> QED BY <2>3, <3>1 DEF Put, i
  <2>4. CASE ~(a < 16384) /\ ~(e < 16384)
    <3>1. [[[[ram EXCEPT ![i] = x] EXCEPT ![j] = y] EXCEPT ![i] = x1] EXCEPT ![j] = y1]
            = [[ram EXCEPT ![i] = x1] EXCEPT ![j] = y1]
      BY DEF IsFunction
    <3> QED BY <2>4, <3>1 DEF Put, i, j
  <2> QED BY <2>1, <2>2, <2>3, <2>4
<1> QED BY <1>1 DEF Put16, e

LEMMA PokeWith ==
  ASSUME NEW mm, IsMachine(mm), NEW c \in CpuState, NEW ram, IsFunction(ram), NEW a, NEW w
  PROVE  /\ Poke16(With(mm, c, ram), a, w) = With(mm, c, Put16(mm, ram, a, w))
         /\ IsFunction(Put16(mm, ram, a, w))
<1>1. ASSUME NEW r, IsFunction(r), NEW addr, NEW b
      PROVE  Poke(With(mm, c, r), addr, b) = With(mm, c, Put(mm, r, addr, b))
  <2> DEFINE n == With(mm, c, r)
  <2>1. n.model = mm.model /\ n.page = mm.page /\ n.cpu = c /\ n.ram = r /\ IsMachine(n)
    BY <1>1, WithFields
  <2>2. RamIndex(n, addr) = RamIndex(mm, addr)
    BY <2>1 DEF RamIndex, BankIn
  <2>3. \A d, q : With(n, d, q) = With(mm, d, q)
    BY WithFields
  <2> HIDE DEF n
  <2>4. CASE addr < 16384
    BY <2>4 DEF Poke, Put, n
  <2>5. CASE ~(addr < 16384)
    <3> DEFINE q == [r EXCEPT ![RamIndex(mm, addr)] = b]
    <3>1. Poke(n, addr, b) = [n EXCEPT !.ram = q]
      BY <2>1, <2>2, <2>5 DEF Poke
    <3> HIDE DEF q
    <3>2. [n EXCEPT !.ram = q] = With(n, c, q)
      <4>1. IsFunction(n) /\ {"cpu", "ram"} \subseteq DOMAIN n
        BY <2>1 DEF IsMachine, MachineFields
      <4>2. [n EXCEPT !.ram = q] = [n EXCEPT !.cpu = n.cpu, !.ram = q]
        BY <4>1 DEF IsFunction
      <4> QED BY <2>1, <4>2 DEF With
    <3> QED BY <2>3, <2>5, <3>1, <3>2 DEF Put, q, n
  <2> QED BY <2>4, <2>5
<1>2. IsFunction(Put(mm, ram, a, w % 256))
  BY PutFunction
<1>3. Poke16(With(mm, c, ram), a, w) = With(mm, c, Put16(mm, ram, a, w))
  BY <1>1, <1>2 DEF Poke16, Put16
<1>4. IsFunction(Put16(mm, ram, a, w))
  BY <1>2, PutFunction DEF Put16
<1> QED BY <1>3, <1>4

(***************************************************************************)
(* Saving.                                                                  *)
(***************************************************************************)
SetPC(mm, x) == [mm EXCEPT !.cpu.PC = x]
SetSP(mm, x) == [mm EXCEPT !.cpu.SP = x]
CpuAt(c, x) == [c EXCEPT !.PC = x]
CpuOn(c, x) == [c EXCEPT !.SP = x]

LEMMA WithCpu ==
  ASSUME NEW mm, IsMachine(mm), NEW c, NEW ram, NEW x
  PROVE  /\ SetPC(With(mm, c, ram), x) = With(mm, CpuAt(c, x), ram)
         /\ SetSP(With(mm, c, ram), x) = With(mm, CpuOn(c, x), ram)
<1>1. IsFunction(mm) /\ {"cpu", "ram"} \subseteq DOMAIN mm
  BY DEF IsMachine, MachineFields
<1>2. SetPC(With(mm, c, ram), x) = With(mm, CpuAt(c, x), ram)
  BY <1>1 DEF SetPC, CpuAt, With, IsFunction
<1>3. SetSP(With(mm, c, ram), x) = With(mm, CpuOn(c, x), ram)
  BY <1>1 DEF SetSP, CpuOn, With, IsFunction
<1> QED BY <1>2, <1>3

(* PC stays or moves to the prefix.                                         *)
LEMMA PrepareWith ==
  ASSUME NEW mm, IsMachine(mm)
  PROVE  \E x \in R16 : /\ PrepareCpu(mm) = With(mm, CpuAt(mm.cpu, x), mm.ram)
                        /\ x \in {mm.cpu.PC, Resumed(mm, 0).cpu.PC}
<1>1. mm.cpu \in CpuState /\ mm = With(mm, mm.cpu, mm.ram)
  BY WithFields DEF IsMachine
<1>2. CASE mm.cpu.modifier
  <2> DEFINE x == Word(mm.cpu.PC - 1)
  <2>1. mm.cpu.PC \in R16
    BY <1>1 DEF CpuState
  <2>2. x \in R16 /\ mm.cpu.PC - 1 + 0 = mm.cpu.PC - 1
    BY <2>1, R16Int, WordType
  <2>3. PrepareCpu(mm) = SetPC(mm, x)
    BY <1>2 DEF PrepareCpu, SetPC
  <2>4. Resumed(mm, 0).cpu.PC = Word(mm.cpu.PC - 1 + 0)
    <3>1. "cpu" \in DOMAIN mm /\ "PC" \in DOMAIN mm.cpu
      BY <1>1 DEF IsMachine, MachineFields, CpuState
    <3> QED BY <1>2, <3>1 DEF Resumed
  <2> HIDE DEF x
  <2>5. PrepareCpu(mm) = With(mm, CpuAt(mm.cpu, x), mm.ram)
    BY <1>1, <2>3, WithCpu
  <2>6. x = Resumed(mm, 0).cpu.PC
    BY <2>2, <2>4 DEF x
  <2> QED BY <2>2, <2>5, <2>6
<1>3. CASE ~mm.cpu.modifier
  <2>1. PrepareCpu(mm) = mm
    BY <1>3 DEF PrepareCpu
  <2>2. CpuAt(mm.cpu, mm.cpu.PC) = mm.cpu /\ mm.cpu.PC \in R16
    BY <1>1 DEF CpuState, CpuAt
  <2> QED BY <1>1, <2>1, <2>2
<1> QED BY <1>2, <1>3

(* What is left of PC on the stack are zeros.                               *)
LEMMA UnpushWith ==
  ASSUME NEW mm, IsMachine(mm), NEW c \in CpuState
  PROVE  LET sp == Word(c.SP - 2) IN
         UnpushPC(PushPC(With(mm, c, mm.ram))) =
           With(mm, c, IF mm.model = "48K" THEN Put16(mm, mm.ram, sp, 0) ELSE mm.ram)
<1> DEFINE sp == Word(c.SP - 2)
           n == With(mm, c, mm.ram)
           c1 == CpuOn(c, sp)
           ram1 == Put16(mm, mm.ram, sp, c.PC)
<1>1. n.model = mm.model /\ n.cpu = c /\ IsFunction(mm.ram)
  BY WithFields DEF IsMachine
<1>2. CASE mm.model # "48K"
  BY <1>1, <1>2 DEF PushPC, UnpushPC
<1>3. CASE mm.model = "48K"
  <2>1. sp \in R16 /\ c.SP \in R16
    <3>1. c.SP \in R16
      BY DEF CpuState
    <3>2. c.SP - 2 \in Int
      BY <3>1, R16Int
    <3> QED BY <3>1, <3>2, WordType
  <2>2. Word(sp + 2) = c.SP
    BY <2>1, WordBack
  <2> HIDE DEF sp
  <2>3. c1 \in CpuState /\ c1.SP = sp /\ CpuOn(c1, c.SP) = c
    BY <2>1, CpuSP DEF CpuOn
  <2>4. SetSP(n, sp) = With(mm, c1, mm.ram)
    BY WithCpu
  <2>5. PushPC(n) = Poke16(SetSP(n, sp), sp, c.PC)
    BY <1>1, <1>3 DEF PushPC, SetSP, sp
  <2> HIDE DEF n, c1
  <2>6. PushPC(n) = With(mm, c1, ram1) /\ IsFunction(ram1)
    BY <1>1, <2>3, <2>4, <2>5, PokeWith
  <2> DEFINE q == With(mm, c1, ram1)
  <2> HIDE DEF ram1
  <2>7. q.model = "48K" /\ q.cpu = c1
    BY <1>3, WithFields
  <2>8. UnpushPC(q) = Poke16(SetSP(q, c.SP), sp, 0)
    BY <2>2, <2>3, <2>7 DEF UnpushPC, SetSP
  <2>9. SetSP(q, c.SP) = With(mm, c, ram1)
    BY <2>3, WithCpu
  <2> HIDE DEF q
  <2>10. UnpushPC(q) = With(mm, c, Put16(mm, ram1, sp, 0))
    BY <2>6, <2>8, <2>9, PokeWith
  <2>11. Put16(mm, ram1, sp, 0) = Put16(mm, mm.ram, sp, 0)
    BY <1>1, PutTwice DEF ram1
  <2> QED BY <1>3, <2>6, <2>10, <2>11 DEF q, n, sp
<1> QED BY <1>2, <1>3

(* Saving a .sna file, seen with PC where it was.                           *)
Unseen(mm, r) ==
  LET sp == Word(mm.cpu.SP - 2) IN
  /\ r.cpu.PC \in {mm.cpu.PC, Resumed(mm, 0).cpu.PC}
  /\ [r EXCEPT !.cpu.PC = mm.cpu.PC] \in {mm, Poke16(mm, sp, 0)}

LEMMA PreparedUnseen ==
  ASSUME NEW mm, IsMachine(mm)
  PROVE  /\ Unseen(mm, mm) /\ Unseen(mm, PrepareCpu(mm))
         /\ Unseen(mm, UnpushPC(PushPC(PrepareCpu(mm))))
<1> DEFINE sp == Word(mm.cpu.SP - 2)
           zeros == Put16(mm, mm.ram, sp, 0)
<1>1. mm.cpu \in CpuState /\ IsFunction(mm.ram) /\ mm.cpu.PC \in R16
  BY DEF IsMachine, CpuState
<1>2. Poke16(mm, sp, 0) = With(mm, mm.cpu, zeros) /\ With(mm, mm.cpu, mm.ram) = mm
  <2>1. With(mm, mm.cpu, mm.ram) = mm
    BY WithFields
  <2>2. Poke16(With(mm, mm.cpu, mm.ram), sp, 0) = With(mm, mm.cpu, zeros)
    BY <1>1, PokeWith
  <2> QED BY <2>1, <2>2
<1> HIDE DEF sp, zeros
<1>3. ASSUME NEW x \in R16, x \in {mm.cpu.PC, Resumed(mm, 0).cpu.PC}, NEW ram \in {mm.ram, zeros}
      PROVE  Unseen(mm, With(mm, CpuAt(mm.cpu, x), ram))
  <2> DEFINE r == With(mm, CpuAt(mm.cpu, x), ram)
  <2>1. CpuAt(mm.cpu, x).PC = x /\ CpuAt(CpuAt(mm.cpu, x), mm.cpu.PC) = mm.cpu
    BY <1>1, CpuPC DEF CpuAt
  <2>2. r.cpu.PC = x
    BY <2>1, WithFields
  <2>3. SetPC(r, mm.cpu.PC) = With(mm, mm.cpu, ram)
    BY <2>1, WithCpu
  <2>4. SetPC(r, mm.cpu.PC) \in {mm, Poke16(mm, sp, 0)}
    BY <1>2, <2>3
  <2> HIDE DEF r
  <2>5. Unseen(mm, r)
    BY <1>3, <2>2, <2>4 DEF Unseen, SetPC, sp
  <2> QED BY <2>5 DEF r
<1>4. PICK x \in R16 : /\ PrepareCpu(mm) = With(mm, CpuAt(mm.cpu, x), mm.ram)
                      /\ x \in {mm.cpu.PC, Resumed(mm, 0).cpu.PC}
  BY PrepareWith
<1>5. Unseen(mm, PrepareCpu(mm))
  BY <1>3, <1>4
<1>6. CpuAt(mm.cpu, mm.cpu.PC) = mm.cpu
  BY <1>1 DEF CpuState, CpuAt
<1>7. Unseen(mm, mm)
  <2>1. Unseen(mm, With(mm, CpuAt(mm.cpu, mm.cpu.PC), mm.ram))
    BY <1>1, <1>3
  <2> QED BY <1>2, <1>6, <2>1
<1>8. Unseen(mm, UnpushPC(PushPC(PrepareCpu(mm))))
  <2> DEFINE c == CpuAt(mm.cpu, x)
  <2>1. c \in CpuState /\ c.SP = mm.cpu.SP
    BY <1>1, CpuPC DEF CpuAt
  <2>2. UnpushPC(PushPC(With(mm, c, mm.ram))) =
          With(mm, c, IF mm.model = "48K" THEN zeros ELSE mm.ram)
    <3> HIDE DEF c
    <3> QED BY <2>1, UnpushWith DEF zeros, sp
  <2>3. (IF mm.model = "48K" THEN zeros ELSE mm.ram) \in {mm.ram, zeros}
    OBVIOUS
  <2>4. Unseen(mm, With(mm, c, IF mm.model = "48K" THEN zeros ELSE mm.ram))
    BY <1>3, <1>4, <2>3
  <2> QED BY <1>4, <2>2, <2>4
<1> QED BY <1>5, <1>7, <1>8

(***************************************************************************)
(* The machine is one until a file is loaded.                               *)
(***************************************************************************)
LEMMA ResetCpuType == ResetCpu \in CpuState
<1> DEFINE zero == 0
           no == FALSE
<1>1. zero \in R8 /\ zero \in R16 /\ zero \in 0..1 /\ zero \in 0..2 /\ no \in BOOLEAN
  BY DEF R8, R16
<1>2. ResetCpu =
        [A |-> zero, F |-> zero, B |-> zero, C |-> zero, D |-> zero, E |-> zero, H |-> zero,
         L |-> zero, A_ |-> zero, F_ |-> zero, B_ |-> zero, C_ |-> zero, D_ |-> zero,
         E_ |-> zero, H_ |-> zero, L_ |-> zero, IX |-> zero, IY |-> zero, SP |-> zero,
         PC |-> zero, I |-> zero, R |-> zero, IFF1 |-> zero, IFF2 |-> zero, IM |-> zero,
         modifier |-> no, halted |-> no, lock |-> no]
  BY DEF ResetCpu
<1> HIDE DEF zero, no
<1> QED BY <1>1, <1>2 DEF CpuState

LEMMA FilledIsFunction ==
  ASSUME NEW model, NEW b
  PROVE  IsFunction(Filled(model, b))
BY DEF Filled, Times, IsFunction

LEMMA PageSelectType ==
  ASSUME NEW mm, IsMachine(mm), NEW v
  PROVE  IsMachine(PageSelect(mm, v))
<1> DEFINE bit == (v \div 32) % 2 = 1
<1>1. PageSelect(mm, v) = IF mm.model = "48K" \/ mm.locked THEN mm
                          ELSE [mm EXCEPT !.page = v, !.locked = bit]
  BY DEF PageSelect
<1> HIDE DEF bit
<1>2. IsMachine([mm EXCEPT !.page = v, !.locked = bit])
  BY DEF IsMachine, MachineFields, IsFunction
<1> QED BY <1>1, <1>2

LEMMA ResetType ==
  ASSUME NEW mm, IsMachine(mm)
  PROVE  IsMachine(Reset(mm))
<1> DEFINE r == [mm EXCEPT !.cpu = ResetCpu, !.ay.reg[7] = 63, !.locked = FALSE]
<1>1. IsMachine(r)
  BY ResetCpuType DEF IsMachine, MachineFields, IsFunction
<1>2. Reset(mm) = PageSelect(r, 7)
  BY DEF Reset
<1> HIDE DEF r
<1> QED BY <1>1, <1>2, PageSelectType

LEMMA MachineInitially == Init => MachineInv
<1> SUFFICES ASSUME NEW model \in Models, m = PowerOn(model) PROVE IsMachine(m)
  BY DEF Init, MachineInv
<1>1. IsFunction(Filled(model, 0))
  BY FilledIsFunction
<1>2. IsFunction(PowerOn(model)) /\ DOMAIN PowerOn(model) = MachineFields
  BY DEF PowerOn, IsFunction, MachineFields
<1>3. PowerOn(model).cpu = ResetCpu /\ PowerOn(model).ram = Filled(model, 0)
  BY DEF PowerOn
<1> QED BY <1>1, <1>2, <1>3, ResetCpuType DEF IsMachine

LEMMA SaveStep ==
  ASSUME MachineInv, SaveInvalid \/ SaveZ80 \/ SaveSna
  PROVE  IsMachine(m) /\ IsMachine(m') /\ (back = 0 => Unseen(m, m'))
<1>1. did \notin Loads
  BY DEF SaveInvalid, SaveZ80, SaveSna, Saved, Costs
<1>2. IsMachine(m)
  BY <1>1 DEF MachineInv
<1>3. m' \in {m, PrepareCpu(m), UnpushPC(PushPC(PrepareCpu(m)))}
  BY DEF SaveInvalid, SaveZ80, SaveSna, Saved
<1>4. Unseen(m, m')
  BY <1>2, <1>3, PreparedUnseen
<1>5. IsMachine(m')
  <2>1. PICK x \in R16 : PrepareCpu(m) = With(m, CpuAt(m.cpu, x), m.ram)
    BY <1>2, PrepareWith
  <2> DEFINE c == CpuAt(m.cpu, x)
  <2>2. c \in CpuState /\ IsFunction(m.ram)
    BY <1>2, CpuPC DEF CpuAt, IsMachine
  <2> HIDE DEF c
  <2>3. IsMachine(With(m, c, m.ram))
    BY <1>2, <2>2, WithFields
  <2> DEFINE sp == Word(c.SP - 2)
             ram == IF m.model = "48K" THEN Put16(m, m.ram, sp, 0) ELSE m.ram
  <2>4. UnpushPC(PushPC(With(m, c, m.ram))) = With(m, c, ram)
    BY <1>2, <2>2, UnpushWith
  <2>5. IsFunction(ram)
    BY <1>2, <2>2, PokeWith
  <2> HIDE DEF ram
  <2>6. IsMachine(With(m, c, ram))
    BY <1>2, <2>2, <2>5, WithFields
  <2> QED BY <1>2, <1>3, <2>1, <2>3, <2>4, <2>6 DEF c
<1> QED BY <1>2, <1>4, <1>5

LEMMA MachineStep == MachineInv /\ [Next]_vars => MachineInv'
<1> SUFFICES ASSUME MachineInv, [Next]_vars PROVE MachineInv'
  OBVIOUS
<1>1. CASE Execute
  <2>1. PICK c \in Cpus : Work([m EXCEPT !.cpu = c], 1)
    BY <1>1 DEF Execute
  <2>2. IsMachine(m) /\ m' = [m EXCEPT !.cpu = c] /\ c \in CpuState
    BY <2>1, CpusAssumption DEF Work, Costs, MachineInv
  <2>3. IsMachine(m')
    BY <2>2 DEF IsMachine, MachineFields, IsFunction
  <2> QED BY <2>3 DEF MachineInv
<1>2. CASE Write
  <2>1. PICK n \in Banks, page \in Pages :
          Work([m EXCEPT !.ram = Stored(@, n * PageBytes, page)], 2)
    BY <1>2 DEF Write
  <2> DEFINE ram == Stored(m.ram, n * PageBytes, page)
  <2>2. IsMachine(m) /\ m' = [m EXCEPT !.ram = ram]
    BY <2>1 DEF Work, Costs, MachineInv
  <2>3. IsFunction(ram)
    BY DEF Stored, IsFunction
  <2> HIDE DEF ram
  <2>4. IsMachine(m')
    BY <2>2, <2>3 DEF IsMachine, MachineFields, IsFunction
  <2> QED BY <2>4 DEF MachineInv
<1>3. CASE Select
  <2>1. PICK v \in Selects : Work(PageSelect(m, v), 1)
    BY <1>3 DEF Select
  <2>2. IsMachine(m) /\ m' = PageSelect(m, v)
    BY <2>1 DEF Work, Costs, MachineInv
  <2> QED BY <2>2, PageSelectType DEF MachineInv
<1>4. CASE ChooseModel
  <2>1. PICK model \in Models : Work(Reset(SelectModel(m, model, 0)), 1)
    BY <1>4 DEF ChooseModel
  <2>2. IsMachine(m) /\ m' = Reset(SelectModel(m, model, 0))
    BY <2>1 DEF Work, Costs, MachineInv
  <2> DEFINE ram == Filled(model, 0)
  <2>3. IsFunction(ram)
    BY FilledIsFunction
  <2>4. SelectModel(m, model, 0) = [m EXCEPT !.model = model, !.ram = ram]
    BY DEF SelectModel
  <2> HIDE DEF ram
  <2>5. IsMachine(SelectModel(m, model, 0))
    BY <2>2, <2>3, <2>4 DEF IsMachine, MachineFields, IsFunction
  <2> QED BY <2>2, <2>5, ResetType DEF MachineInv
<1>5. CASE SaveInvalid \/ SaveZ80 \/ SaveSna
  BY <1>5, SaveStep DEF MachineInv
<1>6. CASE OtherWrites
  BY <1>6 DEF OtherWrites, Other, Loads, MachineInv
<1>7. CASE Edit
  BY <1>7 DEF Edit, Loads, MachineInv
<1>8. CASE Load \/ LoadUnopened
  BY <1>8 DEF Load, LoadUnopened, Loads, MachineInv
<1>9. CASE UNCHANGED vars
  BY <1>9 DEF vars, MachineInv
<1> QED BY <1>1, <1>2, <1>3, <1>4, <1>5, <1>6, <1>7, <1>8, <1>9 DEF Next

(* The program that goes on does not notice a save: its PC is where it was  *)
(* or at the prefix, all other registers are what they were, and so is the  *)
(* memory but for zeros under the stack (zx_save_snap_z80(),                *)
(* zx_save_snap_sna()), in every state of the CPU and wherever the stack is *)
(* in the memory.                                                           *)
THEOREM SaveCorrect == Spec => SaveIsInvisible
<1>1. MachineInv /\ [Next]_vars =>
        [did' = "save" /\ back = 0 => Unseen(m, m')]_vars
  <2> SUFFICES ASSUME MachineInv, Next, did' = "save", back = 0 PROVE Unseen(m, m')
    OBVIOUS
  <2>1. SaveInvalid \/ SaveZ80 \/ SaveSna
    BY DEF Next, Execute, Write, Select, ChooseModel, Work, OtherWrites, Other, Edit, Load,
           LoadUnopened
  <2> QED BY <2>1, SaveStep
<1>2. [did' = "save" /\ back = 0 => Unseen(m, m')]_vars <=>
        [did' = "save" /\ back = 0 =>
           LET sp == Word(m.cpu.SP - 2) IN
           /\ m'.cpu.PC \in {m.cpu.PC, Resumed(m, 0).cpu.PC}
           /\ [m' EXCEPT !.cpu.PC = m.cpu.PC] \in {m, Poke16(m, sp, 0)}]_vars
  BY DEF Unseen
<1> QED BY MachineInitially, MachineStep, <1>1, <1>2, PTL DEF Spec, SaveIsInvisible

(***************************************************************************)
(* Loading.                                                                 *)
(***************************************************************************)
Spared(mm, r) == r.model = mm.model /\ r.ram = mm.ram

(* Reading the head of a file changes registers only.                       *)
LEMMA ResetSpares ==
  ASSUME NEW mm, IsMachine(mm), NEW c
  PROVE  /\ Spared(mm, [Reset(mm) EXCEPT !.cpu = c])
         /\ \A b : Spared(mm, [Reset(mm) EXCEPT !.cpu = c, !.border = b])
         /\ \A b, x : Spared(mm, [[Reset(mm) EXCEPT !.cpu = c, !.border = b] EXCEPT !.cpu.PC = x])
<1> DEFINE r == [mm EXCEPT !.cpu = ResetCpu, !.ay.reg[7] = 63, !.locked = FALSE]
<1>1. IsMachine(r) /\ Spared(mm, r)
  BY ResetCpuType, ZenonT(40) DEF IsMachine, MachineFields, IsFunction, Spared
<1>2. Reset(mm) = PageSelect(r, 7)
  BY DEF Reset
<1> HIDE DEF r
<1>3. Spared(mm, Reset(mm)) /\ IsMachine(Reset(mm))
  <2> DEFINE bit == (7 \div 32) % 2 = 1
  <2>1. PageSelect(r, 7) \in {r, [r EXCEPT !.page = 7, !.locked = bit]}
    BY DEF PageSelect
  <2> HIDE DEF bit
  <2>2. Spared(mm, [r EXCEPT !.page = 7, !.locked = bit])
    BY <1>1 DEF IsMachine, MachineFields, IsFunction, Spared
  <2> QED BY <1>1, <1>2, <2>1, <2>2, ResetType
<1> DEFINE q == Reset(mm)
<1> HIDE DEF q
<1>4. Spared(mm, q) /\ IsFunction(q) /\ DOMAIN q = MachineFields
  BY <1>3 DEF q, IsMachine
<1>5. Spared(mm, [q EXCEPT !.cpu = c])
  BY <1>4 DEF MachineFields, IsFunction, Spared
<1>6. ASSUME NEW b PROVE Spared(mm, [q EXCEPT !.cpu = c, !.border = b])
  BY <1>4 DEF MachineFields, IsFunction, Spared
<1>7. ASSUME NEW b, NEW x
      PROVE  Spared(mm, [[q EXCEPT !.cpu = c, !.border = b] EXCEPT !.cpu.PC = x])
  BY <1>4 DEF MachineFields, IsFunction, Spared
<1> QED BY <1>5, <1>6, <1>7 DEF q

LEMMA ResultFields ==
  ASSUME NEW mm, NEW code, NEW out
  PROVE  Result(mm, code, out).m = mm /\ Result(mm, code, out).rc = code
BY DEF Result

LEMMA PagesSucceed ==
  ASSUME NEW mm, NEW f, NEW tmp, NEW pos, NEW packed
  PROVE  ReadPages(mm, f, tmp, pos).rc = 0 /\ ReadWhole(mm, f, tmp, pos, packed).rc = 0
BY DEF ReadPages, ReadWhole, Result

(* A .z80 file is refused for its interrupt mode or its machine.            *)
LEMMA FailedZ80 ==
  ASSUME NEW mm, IsMachine(mm), NEW f, NEW tmp, NEW fill, LoadZ80(mm, f, tmp, fill).rc = -1
  PROVE  Spared(mm, LoadZ80(mm, f, tmp, fill).m)
<1> DEFINE cpu == Z80Cpu(f, tmp)
           b == (Flags1(f, tmp) \div 2) % 8
           x == U16(f, tmp, 32)
           m1 == [Reset(mm) EXCEPT !.cpu = cpu, !.border = b]
           m1pc == [m1 EXCEPT !.cpu.PC = x]
           hw == U8(f, tmp, 34)
           m2 == SelectModel(m1pc, IF hw < 2 THEN "48K" ELSE "128K", fill)
           m3 == IF hw < 2 THEN m2 ELSE PageSelect(m2, U8(f, tmp, 35))
           m4 == AyLoaded(m3, U8(f, tmp, 38), [r \in AyRegs |-> U8(f, tmp, 39 + r)])
           w == SelectModel(m1, "48K", fill)
           packed == (Flags1(f, tmp) \div 32) % 2 = 1
           whole == ReadWhole(w, f, tmp, 30, packed)
           pages == ReadPages(m4, f, tmp, 32 + U16(f, tmp, 30))
           res == LoadZ80(mm, f, tmp, fill)
<1>1. res = CASE cpu.IM = 3 -> Result(m1, -1, FALSE)
              [] cpu.IM # 3 /\ cpu.PC # 0 -> whole
              [] cpu.IM # 3 /\ cpu.PC = 0 /\ hw \notin {0, 1, 3, 4} -> Result(m1pc, -1, FALSE)
              [] cpu.IM # 3 /\ cpu.PC = 0 /\ hw \in {0, 1, 3, 4} -> pages
  BY DEF LoadZ80
<1>2. Spared(mm, m1) /\ Spared(mm, m1pc)
  <2> HIDE DEF cpu, b, x
  <2>1. \A y : Spared(mm, [m1 EXCEPT !.cpu.PC = y])
    BY ResetSpares
  <2>2. Spared(mm, m1)
    BY ResetSpares
  <2> HIDE DEF m1
  <2> QED BY <2>1, <2>2
<1> HIDE DEF packed, w, m4
<1>3. whole.rc = 0 /\ pages.rc = 0
  BY PagesSucceed
<1> HIDE DEF res, whole, pages, m1, m1pc, cpu, hw
<1>4. CASE cpu.IM = 3
  <2>1. res = Result(m1, -1, FALSE)
    BY <1>1, <1>4
  <2>2. res.m = m1
    BY <2>1, ResultFields
  <2>3. Spared(mm, res.m)
    BY <1>2, <2>2
  <2> QED BY <2>3 DEF res
<1>5. CASE cpu.IM # 3 /\ cpu.PC # 0
  <2>1. res = whole
    BY <1>1, <1>5
  <2> QED BY <1>3, <2>1 DEF res
<1>6. CASE cpu.IM # 3 /\ cpu.PC = 0 /\ hw \notin {0, 1, 3, 4}
  <2>1. res = Result(m1pc, -1, FALSE)
    BY <1>1, <1>6
  <2>2. res.m = m1pc
    BY <2>1, ResultFields
  <2>3. Spared(mm, res.m)
    BY <1>2, <2>2
  <2> QED BY <2>3 DEF res
<1>7. CASE cpu.IM # 3 /\ cpu.PC = 0 /\ hw \in {0, 1, 3, 4}
  <2>1. res = pages
    BY <1>1, <1>7
  <2> QED BY <1>3, <2>1 DEF res
<1> QED BY <1>4, <1>5, <1>6, <1>7

(* A .sna file is refused for its length or its interrupt mode.             *)
LEMMA FailedSna ==
  ASSUME NEW mm, IsMachine(mm), NEW f, NEW tmp, NEW fill, LoadSna(mm, f, tmp, fill).rc = -1
  PROVE  Spared(mm, LoadSna(mm, f, tmp, fill).m)
<1> DEFINE cpu == SnaCpu(f, tmp)
           m1 == [Reset(mm) EXCEPT !.cpu = cpu]
           m2 == [m1 EXCEPT !.border = U8(f, tmp, 26) % 8]
           m48 == [SelectModel(m2, "48K", fill) EXCEPT !.ram = Stored(@, 0, Bytes(f, 27, 3 * PageBytes))]
           page == U8(f, tmp, Sna48Length + 2)
           m128 == PageSelect(SelectModel([m2 EXCEPT !.cpu.PC = U16(f, tmp, Sna48Length)],
                                          "128K", fill), page)
           ram1 == ReadBanks(m128.ram, f, 27, FirstBanks(page))
           ram2 == ReadBanks(ram1, f, Sna48Length + 4, OtherBanks(page))
           popped == PopPC(m48)
           banked == [m128 EXCEPT !.ram = ram2]
           is48 == Len(f) = Sna48Length
           is128 == Len(f) \in Sna128Lengths
           known == cpu.IM \in 0..2
           res == LoadSna(mm, f, tmp, fill)
<1>1. res = CASE ~is48 /\ ~is128 -> Result(mm, -1, FALSE)
              [] (is48 \/ is128) /\ ~known -> Result(m1, -1, FALSE)
              [] is48 /\ known -> Result(popped, 0, FALSE)
              [] is128 /\ known -> Result(banked, 0, FALSE)
  BY DEF LoadSna
<1>2. Spared(mm, m1) /\ Spared(mm, mm)
  <2> HIDE DEF cpu
  <2> QED BY ResetSpares DEF Spared
<1> HIDE DEF res, popped, banked, m1, cpu, is48, is128, known
<1>3. CASE ~is48 /\ ~is128
  <2>1. res = Result(mm, -1, FALSE)
    BY <1>1, <1>3
  <2>2. res.m = mm
    BY <2>1, ResultFields
  <2>3. Spared(mm, res.m)
    BY <1>2, <2>2
  <2> QED BY <2>3 DEF res
<1>4. CASE (is48 \/ is128) /\ ~known
  <2>1. res = Result(m1, -1, FALSE)
    BY <1>1, <1>4
  <2>2. res.m = m1
    BY <2>1, ResultFields
  <2>3. Spared(mm, res.m)
    BY <1>2, <2>2
  <2> QED BY <2>3 DEF res
<1>5. CASE (is48 \/ is128) /\ known
  <2>1. res \in {Result(popped, 0, FALSE), Result(banked, 0, FALSE)}
    BY <1>1, <1>5
  <2>2. Result(popped, 0, FALSE).rc = 0 /\ Result(banked, 0, FALSE).rc = 0
    BY DEF Result
  <2>3. res.rc = 0
    BY <2>1, <2>2
  <2> QED BY <2>3 DEF res
<1> QED BY <1>3, <1>4, <1>5

LEMMA LoadStep ==
  MachineInv /\ Load /\ rc' = -1 /\ did' # "short" => Spared(m, m')
<1> SUFFICES ASSUME MachineInv, Load, rc' = -1, did' # "short" PROVE Spared(m, m')
  OBVIOUS
<1>1. IsMachine(m)
  BY DEF Load, MachineInv
<1>2. CASE file.ext = "z80"
  <2>1. PICK junk \in Junk : /\ m' = LoadZ80(m, file.bytes, junk, junk).m
                            /\ rc' = LoadZ80(m, file.bytes, junk, junk).rc
    BY <1>2, Zenon DEF Load
  <2> QED BY <1>1, <2>1, FailedZ80
<1>3. CASE file.ext # "z80"
  <2>1. PICK junk \in Junk : /\ m' = LoadSna(m, file.bytes, junk, junk).m
                            /\ rc' = LoadSna(m, file.bytes, junk, junk).rc
    BY <1>3, Zenon DEF Load
  <2> QED BY <1>1, <2>1, FailedSna
<1> QED BY <1>2, <1>3

(* A load that returns an error has changed registers only: the machine     *)
(* that was there goes on with its memory (zx_load_snap_z80(),              *)
(* zx_load_snap_sna()), whatever the file holds; unless the error is that   *)
(* memory was short when the file had been loaded (zx_load_snap()).         *)
THEOREM LoadCorrect == Spec => FailedLoadKeepsMemory
<1>1. MachineInv /\ [Next]_vars =>
        [did' \in Loads /\ rc' = -1 => did' = "short" \/ Spared(m, m')]_vars
  <2> SUFFICES ASSUME MachineInv, Next, did' \in Loads, rc' = -1, did' # "short"
               PROVE  Spared(m, m')
    OBVIOUS
  <2>1. CASE Load
    BY <2>1, LoadStep
  <2>2. CASE LoadUnopened
    BY <2>2 DEF LoadUnopened, Spared
  <2>3. ~(Load \/ LoadUnopened) => did' \in {"work", "save", "other"}
    BY DEF Next, Execute, Write, Select, ChooseModel, Work, OtherWrites, Other, Edit,
           SaveInvalid, SaveZ80, SaveSna, Saved
  <2> QED BY <2>1, <2>2, <2>3 DEF Loads
<1>2. [did' \in Loads /\ rc' = -1 => did' = "short" \/ Spared(m, m')]_vars <=>
        [did' \in Loads /\ rc' = -1 =>
           did' = "short" \/ (m'.model = m.model /\ m'.ram = m.ram)]_vars
  BY DEF Spared
<1> QED
  BY MachineInitially, MachineStep, <1>1, <1>2, PTL DEF Spec, FailedLoadKeepsMemory
(***************************************************************************)
(* Functions that are defined by recursion exist, if a measure goes down.   *)
(***************************************************************************)
LEMMA Least ==
  ASSUME NEW T \in SUBSET Nat, T # {}
  PROVE  \E x \in T : \A y \in T : x <= y
<1>1. PICK x \in T : \A y \in T : ~(<<y, x>> \in OpToRel(<, Nat))
  BY NatLessThanWellFounded, WFMin
<1>2. \A y \in T : ~(y < x)
  BY <1>1 DEF OpToRel
<1> QED BY <1>2

\* F[x][g] is the value at x, by recursion into g; below k, g has these values.
Obeys(S, F, mu, g, k) == \A x \in S : mu[x] < k => g[x] = F[x][g]

\* The recursion at x looks at values of a smaller measure only.
Descends(S, V, F, mu) ==
  /\ V # {} /\ mu \in [S -> Nat] /\ F \in [S -> [[S -> V] -> V]]
  /\ \A x \in S : \A g, h \in [S -> V] :
       (\A y \in S : mu[y] < mu[x] => g[y] = h[y]) => F[x][g] = F[x][h]

LEMMA RecursionBelow ==
  ASSUME NEW S, NEW V, NEW F, NEW mu, Descends(S, V, F, mu),
         NEW k \in Nat
  PROVE  \E g \in [S -> V] : Obeys(S, F, mu, g, k)
<1>0. /\ V # {} /\ mu \in [S -> Nat] /\ F \in [S -> [[S -> V] -> V]]
      /\ \A x \in S : \A g, h \in [S -> V] :
           (\A y \in S : mu[y] < mu[x] => g[y] = h[y]) => F[x][g] = F[x][h]
  BY DEF Descends
<1> DEFINE T == {j \in Nat : ~\E g \in [S -> V] : Obeys(S, F, mu, g, j)}
<1> SUFFICES ASSUME T # {} PROVE FALSE
  OBVIOUS
<1>1. PICK j \in T : \A l \in T : j <= l
  BY Least
<1>2. j \in Nat /\ ~\E g \in [S -> V] : Obeys(S, F, mu, g, j)
  OBVIOUS
<1>3. CASE j = 0
  <2>1. PICK v \in V : TRUE
    BY <1>0
  <2> DEFINE g == [x \in S |-> v]
  <2>2. g \in [S -> V]
    OBVIOUS
  <2>3. \A x \in S : ~(mu[x] < 0)
    BY <1>0
  <2>4. Obeys(S, F, mu, g, 0)
    BY <2>3 DEF Obeys
  <2> HIDE DEF g, T
  <2> QED BY <1>2, <1>3, <2>2, <2>4
<1>4. CASE j # 0
  <2>1. j - 1 \in Nat /\ j - 1 \notin T
    BY <1>1, <1>2, <1>4
  <2> HIDE DEF T
  <2>2. PICK g \in [S -> V] : Obeys(S, F, mu, g, j - 1)
    BY <2>1 DEF T
  <2> DEFINE h == [x \in S |-> F[x][g]]
  <2>3. h \in [S -> V]
    BY <1>0
  <2>4. \A x \in S : h[x] = F[x][g]
    OBVIOUS
  <2> HIDE DEF h
  <2>5. ASSUME NEW x \in S, mu[x] < j PROVE h[x] = F[x][h]
    <3>1. ASSUME NEW y \in S, mu[y] < mu[x] PROVE g[y] = h[y]
      <4>1. mu[y] < j - 1
        BY <1>0, <1>2, <2>5, <3>1
      <4> QED BY <2>2, <2>4, <4>1 DEF Obeys
    <3>2. F[x][g] = F[x][h]
      BY <2>3, <3>1, <1>0
    <3> QED BY <2>4, <3>2
  <2>6. Obeys(S, F, mu, h, j)
    BY <2>5 DEF Obeys
  <2> QED BY <1>2, <2>3, <2>6
<1> QED BY <1>3, <1>4

LEMMA RecursionAgrees ==
  ASSUME NEW S, NEW V, NEW F, NEW mu, Descends(S, V, F, mu),
         NEW k \in Nat, NEW l \in Nat, NEW g \in [S -> V], NEW h \in [S -> V],
         Obeys(S, F, mu, g, k), Obeys(S, F, mu, h, l)
  PROVE  \A x \in S : mu[x] < k /\ mu[x] < l => g[x] = h[x]
<1>0. /\ V # {} /\ mu \in [S -> Nat] /\ F \in [S -> [[S -> V] -> V]]
      /\ \A x \in S : \A d, e \in [S -> V] :
           (\A y \in S : mu[y] < mu[x] => d[y] = e[y]) => F[x][d] = F[x][e]
  BY DEF Descends
<1> DEFINE Wrong(y) == mu[y] < k /\ mu[y] < l /\ g[y] # h[y]
           T == {j \in Nat : \E y \in S : Wrong(y) /\ mu[y] = j}
<1> SUFFICES ASSUME NEW x \in S, mu[x] < k, mu[x] < l, g[x] # h[x] PROVE FALSE
  OBVIOUS
<1>1. mu[x] \in T
  BY <1>0
<1>2. PICK j \in T : \A i \in T : j <= i
  BY <1>1, Least
<1>3. PICK y \in S : Wrong(y) /\ mu[y] = j
  OBVIOUS
<1>4. ASSUME NEW z \in S, mu[z] < mu[y] PROVE g[z] = h[z]
  <2>1. mu[z] \in Nat /\ mu[z] \notin T
    BY <1>0, <1>2, <1>3, <1>4
  <2>2. mu[z] < k /\ mu[z] < l
    BY <1>0, <1>3, <1>4
  <2> QED BY <2>1, <2>2
<1> HIDE DEF T
<1>5. F[y][g] = F[y][h]
  BY <1>0, <1>4
<1>6. g[y] = F[y][g] /\ h[y] = F[y][h]
  BY <1>3 DEF Obeys
<1> QED BY <1>3, <1>5, <1>6

LEMMA Recursion ==
  ASSUME NEW S, NEW V, NEW F, NEW mu, Descends(S, V, F, mu)
  PROVE  \E f \in [S -> V] : \A x \in S : f[x] = F[x][f]
<1>0. /\ V # {} /\ mu \in [S -> Nat] /\ F \in [S -> [[S -> V] -> V]]
      /\ \A x \in S : \A g, h \in [S -> V] :
           (\A y \in S : mu[y] < mu[x] => g[y] = h[y]) => F[x][g] = F[x][h]
  BY DEF Descends
<1> DEFINE G(k) == CHOOSE g \in [S -> V] : Obeys(S, F, mu, g, k)
           f == [x \in S |-> G(mu[x] + 1)[x]]
<1>1. \A k \in Nat : G(k) \in [S -> V] /\ Obeys(S, F, mu, G(k), k)
  BY RecursionBelow
<1> HIDE DEF G
<1>2. \A x \in S : mu[x] \in Nat /\ mu[x] + 1 \in Nat /\ mu[x] < mu[x] + 1
  BY <1>0
<1>3. f \in [S -> V]
  BY <1>1, <1>2
<1>4. \A x \in S : f[x] = G(mu[x] + 1)[x]
  OBVIOUS
<1> HIDE DEF f
<1>5. ASSUME NEW x \in S PROVE f[x] = F[x][f]
  <2> DEFINE g == G(mu[x] + 1)
  <2>1. g \in [S -> V] /\ Obeys(S, F, mu, g, mu[x] + 1)
    BY <1>1, <1>2
  <2> HIDE DEF g
  <2>2. ASSUME NEW y \in S, mu[y] < mu[x] PROVE g[y] = f[y]
    <3> DEFINE h == G(mu[y] + 1)
    <3>1. h \in [S -> V] /\ Obeys(S, F, mu, h, mu[y] + 1)
      BY <1>1, <1>2
    <3>2. mu[y] < mu[x] + 1 /\ mu[y] < mu[y] + 1
      BY <1>0, <1>2, <2>2
    <3>3. f[y] = h[y]
      BY <1>4
    <3> DEFINE k == mu[x] + 1
               l == mu[y] + 1
    <3>4. k \in Nat /\ l \in Nat /\ mu[y] < k /\ mu[y] < l
      BY <1>2, <3>2
    <3>5. Obeys(S, F, mu, g, k) /\ Obeys(S, F, mu, h, l)
      BY <2>1, <3>1
    <3> HIDE DEF h, k, l
    <3>6. g[y] = h[y]
      <4>1. \A z \in S : mu[z] < k /\ mu[z] < l => g[z] = h[z]
        BY <2>1, <3>1, <3>4, <3>5, RecursionAgrees
      <4> QED BY <3>4, <4>1
    <3> QED BY <3>3, <3>6
  <2>3. F[x][g] = F[x][f]
    BY <1>3, <2>1, <2>2, <1>0
  <2>4. g[x] = F[x][g]
    BY <1>2, <2>1 DEF Obeys
  <2>5. f[x] = g[x]
    BY <1>4 DEF g
  <2> QED BY <2>3, <2>4, <2>5
<1> QED BY <1>3, <1>5

(***************************************************************************)
(* Reading: what snap_z80_read_mem_page() stores from a position on, when   *)
(* so many bytes have been stored.                                          *)
(***************************************************************************)
Places == Nat \X Nat

\* A step of the loop; g gives the bytes of the steps that follow.
ReadStep(f, tmp, n, g, x) ==
  IF x[2] >= n THEN <<>>
  ELSE IF U8(f, tmp, x[1]) = Esc /\ U8(f, tmp, x[1] + 1) = Esc
  THEN Times(U8(f, tmp, x[1] + 2), U8(f, tmp, x[1] + 3))
         \o g[<<x[1] + 4, x[2] + U8(f, tmp, x[1] + 2)>>]
  ELSE <<U8(f, tmp, x[1])>> \o g[<<x[1] + 1, x[2] + 1>>]

Reads(f, tmp, n, u) == u = [x \in Places |-> ReadStep(f, tmp, n, u, x)]

LEMMA U8Type ==
  ASSUME NEW f \in Seq(R8), NEW tmp \in R8, NEW p \in Nat
  PROVE  U8(f, tmp, p) \in R8 /\ (p >= Len(f) => U8(f, tmp, p) = tmp)
BY DEF U8

LEMMA R8Is == \A x : x \in R8 <=> x \in Int /\ 0 <= x /\ x <= 255
BY DEF R8

LEMMA TimesType ==
  ASSUME NEW n \in Nat, NEW b
  PROVE  /\ Len(Times(n, b)) = n
         /\ \A i \in 1..n : Times(n, b)[i] = b
         /\ b \in R8 => Times(n, b) \in Seq(R8)
BY DEF Times

LEMMA PlaceParts ==
  /\ \A x \in Places : x[1] \in Nat /\ x[2] \in Nat
  /\ \A p, c \in Nat : <<p, c>> \in Places /\ <<p, c>>[1] = p /\ <<p, c>>[2] = c
BY DEF Places

\* The bytes that a step looks at.
LEMMA StepBytes ==
  ASSUME NEW f \in Seq(R8), NEW tmp \in R8, NEW p \in Nat
  PROVE  /\ U8(f, tmp, p) \in R8 /\ U8(f, tmp, p + 1) \in R8
         /\ U8(f, tmp, p + 2) \in R8 /\ U8(f, tmp, p + 3) \in R8
         /\ U8(f, tmp, p + 2) \in Nat
         /\ p >= Len(f) => U8(f, tmp, p) = tmp /\ U8(f, tmp, p + 2) = tmp
<1>1. /\ Len(f) \in Nat /\ p + 1 \in Nat /\ p + 2 \in Nat /\ p + 3 \in Nat
      /\ p >= Len(f) => p + 2 >= Len(f)
  OBVIOUS
<1>2. /\ U8(f, tmp, p) \in R8 /\ U8(f, tmp, p + 1) \in R8
      /\ U8(f, tmp, p + 2) \in R8 /\ U8(f, tmp, p + 3) \in R8
      /\ p >= Len(f) => U8(f, tmp, p) = tmp
      /\ p + 2 >= Len(f) => U8(f, tmp, p + 2) = tmp
  BY <1>1, U8Type, Zenon
<1>3. U8(f, tmp, p + 2) \in Nat
  BY <1>2, R8Is
<1> QED BY <1>1, <1>2, <1>3

LEMMA ReadStepType ==
  ASSUME NEW f \in Seq(R8), NEW tmp \in R8, NEW n \in Nat,
         NEW g \in [Places -> Seq(R8)], NEW x \in Places
  PROVE  ReadStep(f, tmp, n, g, x) \in Seq(R8)
<1>1. x[1] \in Nat /\ x[2] \in Nat
  BY PlaceParts
<1>2. /\ U8(f, tmp, x[1]) \in R8 /\ U8(f, tmp, x[1] + 2) \in R8 /\ U8(f, tmp, x[1] + 3) \in R8
      /\ U8(f, tmp, x[1] + 2) \in Nat
  BY <1>1, StepBytes
<1>3. <<x[1] + 4, x[2] + U8(f, tmp, x[1] + 2)>> \in Places /\ <<x[1] + 1, x[2] + 1>> \in Places
  <2> DEFINE p == x[1]
             c == x[2]
             k == U8(f, tmp, p + 2)
  <2>1. p \in Nat /\ c \in Nat /\ k \in Nat
    BY <1>1, <1>2
  <2> HIDE DEF p, c, k
  <2>2. p + 4 \in Nat /\ c + k \in Nat /\ p + 1 \in Nat /\ c + 1 \in Nat
    BY <2>1
  <2>3. <<p + 4, c + k>> \in Places /\ <<p + 1, c + 1>> \in Places
    BY <2>2, PlaceParts
  <2> QED BY <2>3 DEF p, c, k
<1>4. CASE x[2] >= n
  BY <1>4 DEF ReadStep
<1>5. CASE ~(x[2] >= n) /\ U8(f, tmp, x[1]) = Esc /\ U8(f, tmp, x[1] + 1) = Esc
  <2> DEFINE a == Times(U8(f, tmp, x[1] + 2), U8(f, tmp, x[1] + 3))
             b == g[<<x[1] + 4, x[2] + U8(f, tmp, x[1] + 2)>>]
  <2>1. a \in Seq(R8) /\ b \in Seq(R8)
    BY <1>2, <1>3, TimesType
  <2>2. ReadStep(f, tmp, n, g, x) = a \o b
    BY <1>5 DEF ReadStep
  <2> HIDE DEF a, b
  <2> QED BY <2>1, <2>2
<1>6. CASE ~(x[2] >= n) /\ ~(U8(f, tmp, x[1]) = Esc /\ U8(f, tmp, x[1] + 1) = Esc)
  <2> DEFINE a == <<U8(f, tmp, x[1])>>
             b == g[<<x[1] + 1, x[2] + 1>>]
  <2>1. a \in Seq(R8) /\ b \in Seq(R8)
    BY <1>2, <1>3
  <2>2. ReadStep(f, tmp, n, g, x) = a \o b
    BY <1>6 DEF ReadStep
  <2> HIDE DEF a, b
  <2> QED BY <2>1, <2>2
<1> QED BY <1>4, <1>5, <1>6

\* What is still to be read and to be stored becomes less with each step; behind
\* the end of the file a run has Esc bytes.
LEMMA ReadingEnds ==
  ASSUME NEW f \in Seq(R8), NEW tmp \in R8, NEW n \in Nat
  PROVE  \E u \in [Places -> Seq(R8)] : Reads(f, tmp, n, u)
<1> DEFINE V == Seq(R8)
           l == Len(f)
           more(x) == (IF x[2] < n THEN n - x[2] ELSE 0) + (IF x[1] < l THEN l - x[1] ELSE 0)
           mu == [x \in Places |-> more(x)]
           F == [x \in Places |-> [g \in [Places -> V] |-> ReadStep(f, tmp, n, g, x)]]
<1>1. l \in Nat
  OBVIOUS
<1>2. \A x \in Places : x[1] \in Nat /\ x[2] \in Nat
  BY PlaceParts
<1>3. mu \in [Places -> Nat]
  <2> HIDE DEF l
  <2>1. \A x \in Places : more(x) \in Nat
    BY <1>1, <1>2
  <2> QED BY <2>1
<1>4. F \in [Places -> [[Places -> V] -> V]]
  <2>1. \A x \in Places : \A g \in [Places -> V] : ReadStep(f, tmp, n, g, x) \in V
    BY ReadStepType
  <2> QED BY <2>1
<1>5. ASSUME NEW x \in Places, NEW g \in [Places -> V], NEW h \in [Places -> V],
             \A y \in Places : mu[y] < mu[x] => g[y] = h[y]
      PROVE  F[x][g] = F[x][h]
  <2> DEFINE p == x[1]
             c == x[2]
             nrep == U8(f, tmp, p + 2)
             run == <<p + 4, c + nrep>>
             one == <<p + 1, c + 1>>
  <2>1. F[x][g] = ReadStep(f, tmp, n, g, x) /\ F[x][h] = ReadStep(f, tmp, n, h, x)
    OBVIOUS
  <2>2. p \in Nat /\ c \in Nat
    BY <1>2
  <2>3. nrep \in Nat /\ (p >= l => U8(f, tmp, p) = tmp /\ nrep = tmp)
    BY <2>2, StepBytes
  <2>4. mu[x] = (IF c < n THEN n - c ELSE 0) + (IF p < l THEN l - p ELSE 0)
    OBVIOUS
  <2>5. ASSUME NEW y \in Places
        PROVE  mu[y] = (IF y[2] < n THEN n - y[2] ELSE 0) + (IF y[1] < l THEN l - y[1] ELSE 0)
    OBVIOUS
  <2>6. \A d \in {g, h} :
          ReadStep(f, tmp, n, d, x) =
            IF c >= n THEN <<>>
            ELSE IF U8(f, tmp, p) = Esc /\ U8(f, tmp, p + 1) = Esc
            THEN Times(nrep, U8(f, tmp, p + 3)) \o d[run]
            ELSE <<U8(f, tmp, p)>> \o d[one]
    BY DEF ReadStep
  <2> HIDE DEF F, mu, l, p, c, nrep
  <2>7. run \in Places /\ one \in Places
    <3>1. p + 4 \in Nat /\ c + nrep \in Nat /\ p + 1 \in Nat /\ c + 1 \in Nat
      BY <2>2, <2>3
    <3> QED BY <3>1, PlaceParts
  <2>8. /\ run[1] = p + 4 /\ run[2] = c + nrep
        /\ one[1] = p + 1 /\ one[2] = c + 1
    OBVIOUS
  <2> HIDE DEF run, one
  <2>9. CASE c >= n
    BY <2>1, <2>6, <2>9
  <2>10. CASE c < n /\ U8(f, tmp, p) = Esc /\ U8(f, tmp, p + 1) = Esc
    <3>1. p >= l => nrep > 0
      <4>1. Esc > 0
        BY RleAssumption
      <4>2. p >= l => nrep = Esc
        BY <2>3, <2>10
      <4> QED BY <4>1, <4>2
    <3>2. mu[run] = (IF c + nrep < n THEN n - (c + nrep) ELSE 0)
                      + (IF p + 4 < l THEN l - (p + 4) ELSE 0)
      BY <2>5, <2>7, <2>8
    <3>3. mu[run] < mu[x]
      BY <1>1, <2>2, <2>3, <2>4, <2>10, <3>1, <3>2
    <3>4. g[run] = h[run]
      BY <1>5, <2>7, <3>3
    <3>5. ~(c >= n)
      BY <2>2, <2>10
    <3> QED BY <2>1, <2>6, <2>10, <3>4, <3>5, Zenon
  <2>11. CASE c < n /\ ~(U8(f, tmp, p) = Esc /\ U8(f, tmp, p + 1) = Esc)
    <3>1. mu[one] = (IF c + 1 < n THEN n - (c + 1) ELSE 0)
                      + (IF p + 1 < l THEN l - (p + 1) ELSE 0)
      BY <2>5, <2>7, <2>8
    <3>2. mu[one] < mu[x]
      BY <1>1, <2>2, <2>4, <2>11, <3>1
    <3>3. g[one] = h[one]
      BY <1>5, <2>7, <3>2
    <3>4. ~(c >= n)
      BY <2>2, <2>11
    <3> QED BY <2>1, <2>6, <2>11, <3>3, <3>4, Zenon
  <2> QED BY <2>2, <2>9, <2>10, <2>11
<1>6. V # {}
  <2>1. <<>> \in V
    OBVIOUS
  <2> QED BY <2>1
<1>7. \A x \in Places : \A g \in [Places -> V] : F[x][g] = ReadStep(f, tmp, n, g, x)
  OBVIOUS
<1> HIDE DEF V, mu, F, l
<1>8. Descends(Places, V, F, mu)
  BY <1>3, <1>4, <1>5, <1>6 DEF Descends
<1>9. PICK u \in [Places -> V] : \A x \in Places : u[x] = F[x][u]
  BY <1>8, Recursion
<1>10. \A x \in Places : u[x] = ReadStep(f, tmp, n, u, x)
  BY <1>7, <1>9
<1>11. u = [x \in Places |-> u[x]]
  OBVIOUS
<1>12. u = [x \in Places |-> ReadStep(f, tmp, n, u, x)]
  BY <1>10, <1>11
<1> QED BY <1>12 DEF V, Reads

LEMMA UnpackedIs ==
  ASSUME NEW f \in Seq(R8), NEW tmp \in R8, NEW n \in Nat
  PROVE  \E u : Reads(f, tmp, n, u) /\ \A p : Unpacked(f, tmp, p, n) = u[<<p, 0>>]
<1> DEFINE u == CHOOSE v : Reads(f, tmp, n, v)
<1>1. Reads(f, tmp, n, u)
  BY ReadingEnds
<1>2. \A p : Unpacked(f, tmp, p, n) = u[<<p, 0>>]
  BY DEF Unpacked, Reads, ReadStep, Places
<1> QED BY <1>1, <1>2

ReadIs(f, tmp, n, u, p, c) ==
  u[<<p, c>>] =
    IF c >= n THEN <<>>
    ELSE IF U8(f, tmp, p) = Esc /\ U8(f, tmp, p + 1) = Esc
    THEN Times(U8(f, tmp, p + 2), U8(f, tmp, p + 3)) \o u[<<p + 4, c + U8(f, tmp, p + 2)>>]
    ELSE <<U8(f, tmp, p)>> \o u[<<p + 1, c + 1>>]

LEMMA ReadsIs ==
  ASSUME NEW f, NEW tmp, NEW n, NEW u, Reads(f, tmp, n, u), NEW p \in Nat, NEW c \in Nat
  PROVE  ReadIs(f, tmp, n, u, p, c)
<1> DEFINE x == <<p, c>>
<1>1. x \in Places /\ x[1] = p /\ x[2] = c
  BY PlaceParts
<1> HIDE DEF x
<1>2. u[x] = ReadStep(f, tmp, n, u, x)
  BY <1>1 DEF Reads
<1>3. u[x] =
        IF c >= n THEN <<>>
        ELSE IF U8(f, tmp, p) = Esc /\ U8(f, tmp, p + 1) = Esc
        THEN Times(U8(f, tmp, p + 2), U8(f, tmp, p + 3))
               \o u[<<p + 4, c + U8(f, tmp, p + 2)>>]
        ELSE <<U8(f, tmp, p)>> \o u[<<p + 1, c + 1>>]
  BY <1>1, <1>2, Zenon DEF ReadStep
<1> QED BY <1>3 DEF x, ReadIs

(***************************************************************************)
(* What a file holds from a position on.                                    *)
(***************************************************************************)
Holds(f, p, s) == p + Len(s) <= Len(f) /\ \A j \in 1..Len(s) : f[p + j] = s[j]

LEMMA HoldsParts ==
  ASSUME NEW f \in Seq(R8), NEW p \in Nat, NEW s \in Seq(R8), NEW t \in Seq(R8),
         Holds(f, p, s \o t), NEW q, q = p + Len(s)
  PROVE  /\ Holds(f, p, s) /\ Holds(f, q, t)
         /\ Len(s \o t) = Len(s) + Len(t) /\ Len(s) \in Nat /\ Len(t) \in Nat
<1>1. /\ Len(s \o t) = Len(s) + Len(t) /\ Len(s) \in Nat /\ Len(t) \in Nat /\ Len(f) \in Nat
      /\ \A j \in 1..Len(s) : (s \o t)[j] = s[j]
      /\ \A j \in 1..Len(t) : (s \o t)[Len(s) + j] = t[j]
  OBVIOUS
<1>2. p + Len(s) + Len(t) <= Len(f) /\ \A j \in 1..(Len(s) + Len(t)) : f[p + j] = (s \o t)[j]
  BY <1>1 DEF Holds
<1> DEFINE a == Len(s)
           b == Len(t)
<1>3. Holds(f, p, s)
  <2>1. p + a <= Len(f)
    BY <1>1, <1>2
  <2>2. \A j \in 1..a : j \in 1..(a + b)
    BY <1>1
  <2>3. \A j \in 1..a : f[p + j] = s[j]
    BY <1>1, <1>2, <2>2
  <2> QED BY <2>1, <2>3 DEF Holds
<1>4. Holds(f, p + a, t)
  <2>1. p + a + b <= Len(f)
    BY <1>2
  <2>2. \A j \in 1..b : a + j \in 1..(a + b) /\ p + (a + j) = p + a + j
    BY <1>1
  <2>3. \A j \in 1..b : f[p + a + j] = t[j]
    BY <1>1, <1>2, <2>2
  <2> QED BY <2>1, <2>3 DEF Holds
<1> QED BY <1>1, <1>3, <1>4

(***************************************************************************)
(* A run of equal bytes, as it is put.                                      *)
(***************************************************************************)
Codes == [bytes : Seq(R8), left : Nat]
NowOf(n) == IF n > MaxRep THEN MaxRep ELSE n

CodeStep(b, g, n) ==
  IF WorthACode(b, n)
  THEN [g[n - NowOf(n)] EXCEPT !.bytes = <<Esc, Esc, NowOf(n), b>> \o @]
  ELSE [bytes |-> Times(n, b), left |-> n]

IsCode(b, cnt, g) == g = [n \in 0..cnt |-> CodeStep(b, g, n)]

LEMMA NowIs ==
  ASSUME NEW b, NEW cnt \in Nat, NEW n \in 0..cnt, WorthACode(b, n)
  PROVE  /\ NowOf(n) \in R8 /\ NowOf(n) \in 1..n
         /\ n - NowOf(n) \in 0..cnt /\ n - NowOf(n) < n /\ n - NowOf(n) \in Nat
BY RleAssumption DEF NowOf, WorthACode, R8

LEMMA EscIs == Esc \in R8 /\ MaxRep \in Nat /\ MaxRep >= 5
BY RleAssumption DEF R8

LEMMA CodeStepType ==
  ASSUME NEW b \in R8, NEW cnt \in Nat, NEW n \in 0..cnt, NEW g \in [0..cnt -> Codes]
  PROVE  /\ CodeStep(b, g, n) \in Codes
         /\ WorthACode(b, n) =>
              /\ CodeStep(b, g, n).bytes = <<Esc, Esc, NowOf(n), b>> \o g[n - NowOf(n)].bytes
              /\ CodeStep(b, g, n).left = g[n - NowOf(n)].left
         /\ ~WorthACode(b, n) =>
              CodeStep(b, g, n).bytes = Times(n, b) /\ CodeStep(b, g, n).left = n
<1>1. CASE WorthACode(b, n)
  <2> DEFINE now == NowOf(n)
             rest == g[n - now]
             code == <<Esc, Esc, now, b>>
  <2>1. now \in R8 /\ n - now \in 0..cnt
    BY <1>1, NowIs
  <2>2. rest \in Codes
    BY <2>1
  <2>3. code \in Seq(R8)
    BY <2>1, EscIs
  <2>4. CodeStep(b, g, n) = [rest EXCEPT !.bytes = code \o @]
    BY <1>1 DEF CodeStep
  <2> HIDE DEF rest, code, now
  <2>5. rest.bytes \in Seq(R8) /\ rest.left \in Nat
    BY <2>2 DEF Codes
  <2>6. code \o rest.bytes \in Seq(R8)
    BY <2>3, <2>5
  <2> DEFINE all == code \o rest.bytes
  <2>7. CodeStep(b, g, n) = [rest EXCEPT !.bytes = all]
    BY <2>4
  <2> HIDE DEF all
  <2>8. all \in Seq(R8)
    BY <2>6 DEF all
  <2>9. CodeStep(b, g, n) \in Codes /\ CodeStep(b, g, n).bytes = all /\ CodeStep(b, g, n).left = rest.left
    BY <2>2, <2>7, <2>8 DEF Codes
  <2> QED BY <1>1, <2>9 DEF all, code, rest, now
<1>2. CASE ~WorthACode(b, n)
  <2>1. n \in Nat
    OBVIOUS
  <2>2. Times(n, b) \in Seq(R8)
    BY <2>1, TimesType
  <2> DEFINE t == Times(n, b)
  <2>3. CodeStep(b, g, n) = [bytes |-> t, left |-> n]
    BY <1>2 DEF CodeStep
  <2> HIDE DEF t
  <2>4. CodeStep(b, g, n) \in Codes /\ CodeStep(b, g, n).bytes = t /\ CodeStep(b, g, n).left = n
    BY <2>1, <2>2, <2>3 DEF Codes, t
  <2> QED BY <1>2, <2>4 DEF t
<1> QED BY <1>1, <1>2

LEMMA CodesExist ==
  ASSUME NEW b \in R8, NEW cnt \in Nat
  PROVE  \E g \in [0..cnt -> Codes] : IsCode(b, cnt, g)
<1> DEFINE S == 0..cnt
           V == Codes
           mu == [n \in S |-> n]
           F == [n \in S |-> [g \in [S -> V] |-> CodeStep(b, g, n)]]
<1>1. mu \in [S -> Nat]
  OBVIOUS
<1>2. F \in [S -> [[S -> V] -> V]]
  <2>1. \A n \in S : \A g \in [S -> V] : CodeStep(b, g, n) \in V
    BY CodeStepType
  <2> QED BY <2>1
<1>3. V # {}
  <2>1. [bytes |-> <<>>, left |-> 0] \in V
    BY DEF Codes
  <2> QED BY <2>1
<1>4. \A n \in S : \A g \in [S -> V] : F[n][g] = CodeStep(b, g, n)
  OBVIOUS
<1>5. \A n \in S : mu[n] = n
  OBVIOUS
<1> HIDE DEF V, mu, F
<1>6. ASSUME NEW n \in S, NEW g \in [S -> V], NEW h \in [S -> V],
             \A k \in S : mu[k] < mu[n] => g[k] = h[k]
      PROVE  F[n][g] = F[n][h]
  <2>1. F[n][g] = CodeStep(b, g, n) /\ F[n][h] = CodeStep(b, h, n)
    BY <1>4
  <2>2. CASE WorthACode(b, n)
    <3>1. n - NowOf(n) \in S /\ n - NowOf(n) < n
      BY <2>2, NowIs
    <3>2. g[n - NowOf(n)] = h[n - NowOf(n)]
      BY <1>5, <1>6, <3>1
    <3> QED BY <2>1, <2>2, <3>2 DEF CodeStep
  <2>3. CASE ~WorthACode(b, n)
    BY <2>1, <2>3 DEF CodeStep
  <2> QED BY <2>2, <2>3
<1> HIDE DEF S
<1>7. Descends(S, V, F, mu)
  BY <1>1, <1>2, <1>3, <1>6 DEF Descends
<1>8. PICK g \in [S -> V] : \A n \in S : g[n] = F[n][g]
  BY <1>7, Recursion
<1>9. g = [n \in S |-> g[n]] /\ \A n \in S : g[n] = CodeStep(b, g, n)
  BY <1>4, <1>8
<1>10. g = [n \in S |-> CodeStep(b, g, n)]
  BY <1>9
<1> QED BY <1>10 DEF IsCode, V, S

LEMMA CodedIs ==
  ASSUME NEW b \in R8, NEW cnt \in Nat
  PROVE  \E g \in [0..cnt -> Codes] :
           /\ Coded(b, cnt) = g[cnt]
           /\ \A n \in 0..cnt :
                /\ WorthACode(b, n) =>
                     /\ g[n].bytes = <<Esc, Esc, NowOf(n), b>> \o g[n - NowOf(n)].bytes
                     /\ g[n].left = g[n - NowOf(n)].left
                /\ ~WorthACode(b, n) => g[n].bytes = Times(n, b) /\ g[n].left = n
<1> DEFINE g == CHOOSE h : IsCode(b, cnt, h)
<1>1. IsCode(b, cnt, g)
  BY CodesExist
<1>2. Coded(b, cnt) = g[cnt]
  BY DEF Coded, IsCode, CodeStep, NowOf
<1> HIDE DEF g
<1>3. \A n \in 0..cnt : g[n] = CodeStep(b, g, n)
  BY <1>1 DEF IsCode
<1>4. g \in [0..cnt -> Codes]
  <2> DEFINE T == {n \in Nat : n <= cnt /\ g[n] \notin Codes}
  <2> SUFFICES ASSUME T # {} PROVE FALSE
    <3>1. \A n \in 0..cnt : g[n] \in Codes
      OBVIOUS
    <3>2. g = [n \in 0..cnt |-> CodeStep(b, g, n)]
      BY <1>1 DEF IsCode
    <3> QED BY <3>1, <3>2, <1>3
  <2>1. PICK n \in T : \A k \in T : n <= k
    BY Least
  <2>2. n \in 0..cnt /\ g[n] \notin Codes /\ n \in Nat
    OBVIOUS
  <2>3. CASE WorthACode(b, n)
    <3> DEFINE rest == g[n - NowOf(n)]
               code == <<Esc, Esc, NowOf(n), b>>
    <3>1. n - NowOf(n) \in 0..cnt /\ n - NowOf(n) < n /\ n - NowOf(n) \in Nat /\ NowOf(n) \in R8
      BY <2>2, <2>3, NowIs
    <3>2. rest \in Codes
      <4>1. n - NowOf(n) \notin T
        BY <2>1, <2>2, <3>1
      <4> QED BY <3>1, <4>1
    <3>3. g[n] = [rest EXCEPT !.bytes = code \o @]
      BY <1>3, <2>2, <2>3 DEF CodeStep
    <3>4. code \in Seq(R8)
      BY <3>1, EscIs
    <3> DEFINE all == code \o rest.bytes
    <3> HIDE DEF T, code, rest
    <3>5. all \in Seq(R8)
      BY <3>2, <3>4 DEF Codes
    <3>6. g[n] = [rest EXCEPT !.bytes = all]
      BY <3>3
    <3> HIDE DEF all
    <3> QED BY <2>2, <3>2, <3>5, <3>6 DEF Codes
  <2>4. CASE ~WorthACode(b, n)
    <3> DEFINE t == Times(n, b)
    <3>1. g[n] = [bytes |-> t, left |-> n]
      BY <1>3, <2>2, <2>4 DEF CodeStep
    <3>2. t \in Seq(R8)
      BY <2>2, TimesType
    <3> HIDE DEF T, t
    <3> QED BY <2>2, <3>1, <3>2 DEF Codes
  <2> QED BY <2>3, <2>4
<1>5. \A n \in 0..cnt :
        /\ WorthACode(b, n) =>
             /\ g[n].bytes = <<Esc, Esc, NowOf(n), b>> \o g[n - NowOf(n)].bytes
             /\ g[n].left = g[n - NowOf(n)].left
        /\ ~WorthACode(b, n) => g[n].bytes = Times(n, b) /\ g[n].left = n
  <2> SUFFICES ASSUME NEW n \in 0..cnt
               PROVE  /\ WorthACode(b, n) =>
                           /\ g[n].bytes = <<Esc, Esc, NowOf(n), b>> \o g[n - NowOf(n)].bytes
                           /\ g[n].left = g[n - NowOf(n)].left
                      /\ ~WorthACode(b, n) => g[n].bytes = Times(n, b) /\ g[n].left = n
    OBVIOUS
  <2>1. g[n] = CodeStep(b, g, n)
    BY <1>3
  <2>2. /\ WorthACode(b, n) =>
             /\ CodeStep(b, g, n).bytes = <<Esc, Esc, NowOf(n), b>> \o g[n - NowOf(n)].bytes
             /\ CodeStep(b, g, n).left = g[n - NowOf(n)].left
        /\ ~WorthACode(b, n) =>
             CodeStep(b, g, n).bytes = Times(n, b) /\ CodeStep(b, g, n).left = n
    BY <1>4, CodeStepType
  <2> QED BY <2>1, <2>2, Zenon
<1> QED BY <1>2, <1>4, <1>5

(***************************************************************************)
(* A page that is read: from the bytes of f at p on, the rest of the page   *)
(* is stored that begins with its byte i.                                   *)
(***************************************************************************)
Suffix(page, i) == SubSeq(page, i, Len(page))
StoredFrom(u, page, p, i) == u[<<p, i - 1>>] = Suffix(page, i)

\* k bytes of the page, from i on, are b.
Same(page, i, j, b) == \A at \in Nat : i <= at /\ at < j => page[at] = b
Run(page, i, k, j, b) ==
  1 <= i /\ j = i + k /\ j <= Len(page) + 1 /\ Same(page, i, j, b)

LEMMA ConcatAt ==
  ASSUME NEW s \in Seq(R8), NEW t \in Seq(R8), NEW k \in Nat, k = Len(s), NEW at \in Nat, k < at, at <= k + Len(t)
  PROVE  (s \o t)[at] = t[at - k]
OBVIOUS

LEMMA SuffixStep ==
  ASSUME NEW page \in Seq(R8), NEW k \in Nat, NEW i \in Nat, NEW j \in Nat, NEW b \in R8,
         Run(page, i, k, j, b)
  PROVE  Times(k, b) \o Suffix(page, j) = Suffix(page, i)
<1> DEFINE s == Times(k, b)
           t == Suffix(page, j)
           r == Suffix(page, i)
           l == Len(page)
<1>0. 1 <= i /\ j = i + k /\ j <= l + 1 /\ Same(page, i, j, b)
  BY DEF Run
<1>1. /\ s \in Seq(R8) /\ Len(s) = k /\ \A at \in 1..k : s[at] = b
  BY TimesType
<1>2. /\ t \in Seq(R8) /\ Len(t) = l + 1 - j /\ \A at \in 1..(l + 1 - j) : t[at] = page[j + at - 1]
  BY <1>0 DEF Suffix
<1>3. /\ r \in Seq(R8) /\ Len(r) = l + 1 - i /\ \A at \in 1..(l + 1 - i) : r[at] = page[i + at - 1]
  BY <1>0 DEF Suffix
<1>4. \A at \in 1..k : page[i + at - 1] = b
  BY <1>0 DEF Same
<1>5. l \in Nat
  OBVIOUS
<1> HIDE DEF s, t, r, l
<1>6. s \o t \in Seq(R8) /\ Len(s \o t) = Len(s) + Len(t)
  <2>1. s \in Seq(R8) /\ t \in Seq(R8)
    BY <1>1, <1>2
  <2> QED BY <2>1
<1>7. Len(s \o t) = l + 1 - i
  BY <1>0, <1>1, <1>2, <1>5, <1>6
<1>8. ASSUME NEW at \in 1..(l + 1 - i) PROVE (s \o t)[at] = r[at]
  <2>1. CASE at <= k
    <3>1. at \in 1..k /\ at \in 1..Len(s)
      BY <1>0, <1>1, <1>5, <2>1
    <3>2. (s \o t)[at] = s[at]
      BY <1>1, <1>2, <3>1
    <3> QED BY <1>1, <1>3, <1>4, <3>1, <3>2
  <2>2. CASE ~(at <= k)
    <3>1. at - k \in 1..(l + 1 - j) /\ j + (at - k) - 1 = i + at - 1 /\ at \in 1..(Len(s) + Len(t)) /\ ~(at <= Len(s))
      BY <1>0, <1>1, <1>2, <1>5, <2>2
    <3>2. (s \o t)[at] = t[at - k]
      <4>1. k = Len(s) /\ at \in Nat /\ k < at /\ at <= k + Len(t)
        BY <1>0, <1>1, <1>2, <1>5, <2>2
      <4> QED BY <1>1, <1>2, <4>1, ConcatAt, SMTT(30)
    <3>3. t[at - k] = page[i + at - 1]
      BY <1>2, <3>1
    <3> QED BY <1>1, <1>3, <3>2, <3>3
  <2> QED BY <2>1, <2>2
<1> DEFINE z == s \o t
<1> HIDE DEF z
<1>9. z \in Seq(R8) /\ Len(z) = Len(r) /\ \A at \in 1..Len(r) : z[at] = r[at]
  BY <1>3, <1>6, <1>7, <1>8 DEF z
<1>10. z = r
  BY <1>3, <1>9
<1> QED BY <1>10 DEF z, s, t, r

\* The bytes of f at p announce n bytes b.
Announces(f, tmp, p, n, b) ==
  /\ U8(f, tmp, p) = Esc /\ U8(f, tmp, p + 1) = Esc
  /\ U8(f, tmp, p + 2) = n /\ U8(f, tmp, p + 3) = b

StoresRuns(f, tmp, page, u) ==
  \A p, q, i, j, n \in Nat : \A b \in R8 :
    /\ q = p + 4 /\ 1 <= n /\ Run(page, i, n, j, b)
    /\ Announces(f, tmp, p, n, b) /\ StoredFrom(u, page, q, j)
    => StoredFrom(u, page, p, i)

StoresBytes(f, tmp, page, u) ==
  \A p, q, i, j \in Nat : \A b \in R8 :
    /\ q = p + 1 /\ Run(page, i, 1, j, b)
    /\ U8(f, tmp, p) = b /\ (b # Esc \/ U8(f, tmp, q) # Esc)
    /\ StoredFrom(u, page, q, j)
    => StoredFrom(u, page, p, i)

LEMMA StoresEnd ==
  ASSUME NEW f \in Seq(R8), NEW tmp \in R8, NEW page \in Seq(R8), NEW u,
         Reads(f, tmp, Len(page), u), NEW p \in Nat, NEW j, j = Len(page) + 1
  PROVE  StoredFrom(u, page, p, j)
<1>1. Len(page) \in Nat /\ j - 1 = Len(page)
  OBVIOUS
<1>2. u[<<p, Len(page)>>] = <<>>
  <2> DEFINE l == Len(page)
             c == Len(page)
  <2>1. c \in Nat /\ c >= l /\ Reads(f, tmp, l, u)
    BY <1>1
  <2> HIDE DEF l, c
  <2>4. ReadIs(f, tmp, l, u, p, c)
    BY <2>1, ReadsIs
  <2>2. u[<<p, c>>] =
          IF c >= l THEN <<>>
          ELSE IF U8(f, tmp, p) = Esc /\ U8(f, tmp, p + 1) = Esc
          THEN Times(U8(f, tmp, p + 2), U8(f, tmp, p + 3))
                 \o u[<<p + 4, c + U8(f, tmp, p + 2)>>]
          ELSE <<U8(f, tmp, p)>> \o u[<<p + 1, c + 1>>]
    BY <2>4 DEF ReadIs
  <2>3. u[<<p, c>>] = <<>>
    BY <2>1, <2>2, Zenon
  <2> QED BY <2>3 DEF c
<1>3. SubSeq(page, j, Len(page)) = <<>>
  OBVIOUS
<1> QED BY <1>1, <1>2, <1>3 DEF StoredFrom, Suffix

LEMMA StoresRun ==
  ASSUME NEW f \in Seq(R8), NEW tmp \in R8, NEW page \in Seq(R8), NEW u,
         Reads(f, tmp, Len(page), u)
  PROVE  StoresRuns(f, tmp, page, u)
<1> SUFFICES ASSUME NEW p \in Nat, NEW q \in Nat, NEW i \in Nat, NEW j \in Nat, NEW n \in Nat,
                    NEW b \in R8, q = p + 4, 1 <= n, Run(page, i, n, j, b),
                    Announces(f, tmp, p, n, b), StoredFrom(u, page, q, j)
             PROVE  StoredFrom(u, page, p, i)
  BY DEF StoresRuns
<1> DEFINE c == i - 1
           d == j - 1
           l == Len(page)
<1>1. c \in Nat /\ d = c + n /\ ~(c >= l)
  BY DEF Run
<1>2. u[<<q, d>>] = Suffix(page, j) /\ Reads(f, tmp, l, u)
  BY DEF StoredFrom
<1>3. /\ U8(f, tmp, p) = Esc /\ U8(f, tmp, p + 1) = Esc
      /\ U8(f, tmp, p + 2) = n /\ U8(f, tmp, p + 3) = b
  BY DEF Announces
<1>4. Times(n, b) \o Suffix(page, j) = Suffix(page, i)
  BY SuffixStep
<1> HIDE DEF c, d, l
<1>8. ReadIs(f, tmp, l, u, p, c)
  BY <1>1, <1>2, ReadsIs
<1>5. u[<<p, c>>] =
        IF c >= l THEN <<>>
        ELSE IF U8(f, tmp, p) = Esc /\ U8(f, tmp, p + 1) = Esc
        THEN Times(U8(f, tmp, p + 2), U8(f, tmp, p + 3))
               \o u[<<p + 4, c + U8(f, tmp, p + 2)>>]
        ELSE <<U8(f, tmp, p)>> \o u[<<p + 1, c + 1>>]
  BY <1>8, Zenon DEF ReadIs
<1>6. u[<<p, c>>] = Times(n, b) \o u[<<q, d>>]
  BY <1>1, <1>3, <1>5, Zenon
<1>7. u[<<p, c>>] = Suffix(page, i)
  BY <1>2, <1>4, <1>6
<1> QED BY <1>7 DEF StoredFrom, c

LEMMA StoresByte ==
  ASSUME NEW f \in Seq(R8), NEW tmp \in R8, NEW page \in Seq(R8), NEW u,
         Reads(f, tmp, Len(page), u)
  PROVE  StoresBytes(f, tmp, page, u)
<1> SUFFICES ASSUME NEW p \in Nat, NEW q \in Nat, NEW i \in Nat, NEW j \in Nat,
                    NEW b \in R8, q = p + 1, Run(page, i, 1, j, b),
                    U8(f, tmp, p) = b, b # Esc \/ U8(f, tmp, q) # Esc,
                    StoredFrom(u, page, q, j)
             PROVE  StoredFrom(u, page, p, i)
  BY DEF StoresBytes
<1> DEFINE c == i - 1
           d == j - 1
           l == Len(page)
<1>1. c \in Nat /\ d = c + 1 /\ ~(c >= l)
  BY DEF Run
<1>2. u[<<q, d>>] = Suffix(page, j) /\ Reads(f, tmp, l, u)
  BY DEF StoredFrom
<1>3. Times(1, b) = <<b>>
  BY DEF Times
<1>4. Times(1, b) \o Suffix(page, j) = Suffix(page, i)
  <2>1. 1 \in Nat
    OBVIOUS
  <2> QED BY <2>1, SuffixStep
<1> HIDE DEF c, d, l
<1>8. ReadIs(f, tmp, l, u, p, c)
  BY <1>1, <1>2, ReadsIs
<1>5. u[<<p, c>>] =
        IF c >= l THEN <<>>
        ELSE IF U8(f, tmp, p) = Esc /\ U8(f, tmp, p + 1) = Esc
        THEN Times(U8(f, tmp, p + 2), U8(f, tmp, p + 3))
               \o u[<<p + 4, c + U8(f, tmp, p + 2)>>]
        ELSE <<U8(f, tmp, p)>> \o u[<<p + 1, c + 1>>]
  BY <1>8, Zenon DEF ReadIs
<1>6. u[<<p, c>>] = <<b>> \o u[<<q, d>>]
  BY <1>1, <1>5, Zenon
<1>7. u[<<p, c>>] = Suffix(page, i)
  BY <1>2, <1>3, <1>4, <1>6
<1> QED BY <1>7 DEF StoredFrom, c

LEMMA SamePart ==
  ASSUME NEW page, NEW i \in Nat, NEW j \in Nat, NEW k \in Nat, NEW at \in Nat, NEW n \in Nat,
         NEW h \in Nat, NEW b, Run(page, i, k, j, b), at + n = k, h = i + at
  PROVE  Run(page, i, at, h, b) /\ Run(page, h, n, j, b)
<1>1. 1 <= i /\ j = i + k /\ j <= Len(page) + 1
  BY DEF Run
<1>2. \A x \in Nat : i <= x /\ x < j => page[x] = b
  BY DEF Run, Same
<1> DEFINE l == Len(page)
<1>3. h = i + at /\ j = h + n /\ 1 <= h /\ h <= j
  BY <1>1
<1>4. h <= Len(page) + 1
  <2>1. h <= j /\ j <= l + 1 /\ h \in Nat /\ j \in Nat
    BY <1>1, <1>3
  <2>2. CASE h = j
    BY <2>1, <2>2
  <2>3. CASE h # j
    BY <2>1, <2>3
  <2> QED BY <2>2, <2>3
<1>5. Same(page, i, h, b) /\ Same(page, h, j, b)
  BY <1>2, <1>3 DEF Same
<1> QED BY <1>1, <1>3, <1>4, <1>5 DEF Run

\* Bytes that announce no run are stored as they are.
LEMMA LiteralsStored ==
  ASSUME NEW f \in Seq(R8), NEW tmp \in R8, NEW page \in Seq(R8), NEW u,
         StoresBytes(f, tmp, page, u),
         NEW b \in R8, NEW k \in Nat, NEW p \in Nat, NEW q \in Nat, NEW i \in Nat, NEW j \in Nat,
         Holds(f, p, Times(k, b)), q = p + k, Run(page, i, k, j, b), StoredFrom(u, page, q, j),
         b = Esc => k <= 1 /\ (k = 1 => U8(f, tmp, q) # Esc)
  PROVE  StoredFrom(u, page, p, i)
<1> DEFINE At(at) == StoredFrom(u, page, p + (k - at), i + (k - at))
           T == {at \in Nat : at <= k /\ ~At(at)}
<1>1. \A at : at \in T <=> at \in Nat /\ at <= k /\ ~At(at)
  OBVIOUS
<1>2. T \in SUBSET Nat
  OBVIOUS
<1>3. At(0)
  <2>1. i + (k - 0) = j /\ p + (k - 0) = q
    BY DEF Run
  <2> QED BY <2>1
<1>4. At(k) => StoredFrom(u, page, p, i)
  <2>1. i + (k - k) = i /\ p + (k - k) = p
    OBVIOUS
  <2> QED BY <2>1
<1>5. ASSUME NEW at \in Nat, at < k, At(at) PROVE At(at + 1)
  <2> DEFINE p0 == p + (k - (at + 1))
             q0 == p + (k - at)
             i0 == i + (k - (at + 1))
             j0 == i + (k - at)
             a == k - (at + 1)
  <2>1. /\ p0 \in Nat /\ q0 \in Nat /\ i0 \in Nat /\ j0 \in Nat /\ a \in Nat
        /\ q0 = p0 + 1 /\ j0 = i0 + 1 /\ p0 = p + a /\ i0 = i + a
        /\ a + 1 \in Nat /\ a + (at + 1) = k /\ at + 1 \in Nat /\ 1 + at = at + 1
    BY <1>5
  <2>2. StoredFrom(u, page, q0, j0)
    BY <1>5
  <2> HIDE DEF At, T, p0, q0, i0, j0, a
  <2>3. Run(page, i0, 1, j0, b)
    <3> DEFINE k1 == at + 1
               one == 1
    <3>1. k1 \in Nat /\ one \in Nat /\ a + k1 = k /\ one + at = k1 /\ j0 = i0 + one
      BY <2>1
    <3> HIDE DEF k1, one
    <3>5. i0 \in Nat /\ a \in Nat /\ i0 = i + a
      BY <2>1
    <3>6. Run(page, i, k, j, b) /\ k1 \in Nat /\ a + k1 = k
      BY <3>1
    <3>2. Run(page, i0, k1, j, b)
      BY <3>5, <3>6, SamePart
    <3>4. i0 \in Nat /\ j0 \in Nat
      BY <2>1
    <3>3. Run(page, i0, one, j0, b)
      BY <3>1, <3>2, <3>4, SamePart
    <3> QED BY <3>3 DEF one
  <2>4. U8(f, tmp, p0) = b
    <3> DEFINE s == Times(k, b)
               n == a + 1
    <3>1. n \in Nat /\ n >= 1 /\ n <= k /\ n \in 1..k /\ p0 + 1 = p + n /\ Holds(f, p, s)
      BY <2>1
    <3>2. Len(s) = k /\ s[n] = b
      BY <3>1, TimesType
    <3> HIDE DEF s, n
    <3>3. p + k <= Len(f) /\ f[p + n] = b /\ Len(f) \in Nat
      BY <3>1, <3>2 DEF Holds
    <3>4. p0 < Len(f)
      BY <2>1, <3>1, <3>3
    <3>5. U8(f, tmp, p0) = f[p0 + 1]
      BY <3>4 DEF U8
    <3> QED BY <3>1, <3>3, <3>5
  <2>5. b # Esc \/ U8(f, tmp, q0) # Esc
    <3>1. CASE b = Esc
      <4>1. k = 1 /\ a = 0
        BY <1>5, <2>1, <3>1
      <4>2. q0 = q
        BY <2>1, <4>1
      <4> QED BY <3>1, <4>1, <4>2
    <3> QED BY <3>1
  <2>6. StoredFrom(u, page, p0, i0)
    BY <2>1, <2>2, <2>3, <2>4, <2>5 DEF StoresBytes
  <2> QED BY <2>6 DEF At, p0, i0
<1> HIDE DEF At, T
<1>6. T = {}
  <2> SUFFICES ASSUME T # {} PROVE FALSE
    OBVIOUS
  <2>1. PICK at \in T : \A x \in T : at <= x
    BY <1>2, Least
  <2>2. at \in Nat /\ at <= k /\ ~At(at)
    BY <1>1
  <2>3. at # 0
    BY <1>3, <2>2
  <2> DEFINE h == at - 1
  <2>4. h \in Nat /\ h < k /\ h <= k /\ ~(at <= h) /\ h + 1 = at
    BY <2>2, <2>3
  <2> HIDE DEF h
  <2>5. At(h)
    BY <1>1, <2>1, <2>4
  <2>6. At(h + 1)
    BY <1>5, <2>4, <2>5
  <2> QED BY <2>2, <2>4, <2>6
<1>7. At(k)
  <2>1. k <= k
    OBVIOUS
  <2> QED BY <1>1, <1>6, <2>1
<1> QED BY <1>4, <1>7

LEMMA HoldsCode ==
  ASSUME NEW f \in Seq(R8), NEW tmp \in R8, NEW p \in Nat, NEW n, NEW b,
         Holds(f, p, <<Esc, Esc, n, b>>)
  PROVE  Announces(f, tmp, p, n, b)
<1> DEFINE s == <<Esc, Esc, n, b>>
<1>1. Len(s) = 4 /\ s[1] = Esc /\ s[2] = Esc /\ s[3] = n /\ s[4] = b
  OBVIOUS
<1> HIDE DEF s
<1>2. p + 4 <= Len(f) /\ \A j \in 1..4 : f[p + j] = s[j]
  BY <1>1 DEF Holds, s
<1>3. f[p + 1] = Esc /\ f[p + 2] = Esc /\ f[p + 3] = n /\ f[p + 4] = b
  BY <1>1, <1>2
<1>4. /\ p < Len(f) /\ p + 1 < Len(f) /\ p + 2 < Len(f) /\ p + 3 < Len(f)
      /\ p + 1 + 1 = p + 2 /\ p + 2 + 1 = p + 3 /\ p + 3 + 1 = p + 4
  BY <1>2
<1> QED BY <1>3, <1>4 DEF Announces, U8

\* cnt bytes b are put from p to q, and the page is read right from q on.
PutRun(f, tmp, page, u, b, cnt, p, q, i, j) ==
  /\ Holds(f, p, Coded(b, cnt).bytes) /\ q = p + Len(Coded(b, cnt).bytes)
  /\ Run(page, i, cnt, j, b) /\ StoredFrom(u, page, q, j)
  /\ b = Esc /\ Coded(b, cnt).left > 0 => U8(f, tmp, q) # Esc

\* What is put for a run is stored as the run, unless it ends with an Esc that
\* stands for itself and another Esc follows.
LEMMA RunStored ==
  ASSUME NEW f \in Seq(R8), NEW tmp \in R8, NEW page \in Seq(R8), NEW u,
         StoresBytes(f, tmp, page, u), StoresRuns(f, tmp, page, u),
         NEW b \in R8, NEW cnt \in Nat, NEW p \in Nat, NEW q \in Nat, NEW i \in Nat,
         NEW j \in Nat, PutRun(f, tmp, page, u, b, cnt, p, q, i, j)
  PROVE  StoredFrom(u, page, p, i)
<1>0. /\ Holds(f, p, Coded(b, cnt).bytes) /\ q = p + Len(Coded(b, cnt).bytes)
      /\ Run(page, i, cnt, j, b) /\ StoredFrom(u, page, q, j)
      /\ b = Esc /\ Coded(b, cnt).left > 0 => U8(f, tmp, q) # Esc
  BY DEF PutRun
<1>1. PICK g \in [0..cnt -> Codes] :
        /\ Coded(b, cnt) = g[cnt]
        /\ \A k \in 0..cnt :
             /\ WorthACode(b, k) =>
                  /\ g[k].bytes = <<Esc, Esc, NowOf(k), b>> \o g[k - NowOf(k)].bytes
                  /\ g[k].left = g[k - NowOf(k)].left
             /\ ~WorthACode(b, k) => g[k].bytes = Times(k, b) /\ g[k].left = k
  BY CodedIs
<1>2. \A k \in 0..cnt : g[k].bytes \in Seq(R8) /\ Len(g[k].bytes) \in Nat /\ g[k].left \in Nat
  BY DEF Codes
<1> DEFINE Clear(k) == b = Esc /\ g[k].left > 0 => U8(f, tmp, q) # Esc
           Puts(k, p0, i0) == /\ Holds(f, p0, g[k].bytes) /\ q = p0 + Len(g[k].bytes)
                             /\ Run(page, i0, k, j, b) /\ Clear(k)
           Right(k) == \A p0, i0 \in Nat : Puts(k, p0, i0) => StoredFrom(u, page, p0, i0)
           T == {k \in Nat : k <= cnt /\ ~Right(k)}
<1>3. \A k : k \in T <=> k \in Nat /\ k <= cnt /\ ~Right(k)
  OBVIOUS
<1>4. T \in SUBSET Nat
  OBVIOUS
<1>5. Right(cnt) => StoredFrom(u, page, p, i)
  <2>1. Puts(cnt, p, i)
    BY <1>0, <1>1
  <2> HIDE DEF Puts
  <2> QED BY <2>1
<1> HIDE DEF T
<1>6. ASSUME NEW k \in Nat, k <= cnt, WorthACode(b, k), Right(k - NowOf(k))
      PROVE  Right(k)
  <2> SUFFICES ASSUME NEW p0 \in Nat, NEW i0 \in Nat, Puts(k, p0, i0)
               PROVE  StoredFrom(u, page, p0, i0)
    OBVIOUS
  <2> DEFINE now == NowOf(k)
             at == k - now
             code == <<Esc, Esc, now, b>>
             rest == g[at].bytes
             p1 == p0 + 4
             i1 == i0 + now
  <2>0. k \in 0..cnt
    BY <1>6
  <2>1. /\ now \in R8 /\ now \in Nat /\ 1 <= now /\ at \in 0..cnt /\ at \in Nat /\ now + at = k
        /\ p1 \in Nat /\ i1 \in Nat
    <3>1. now \in R8 /\ now \in 1..k /\ at \in 0..cnt /\ at \in Nat
      BY <1>6, <2>0, NowIs
    <3>2. at = k - now
      OBVIOUS
    <3> HIDE DEF now, at
    <3> QED BY <1>6, <3>1, <3>2
  <2>2. g[k].bytes = code \o rest /\ g[k].left = g[at].left
    BY <1>1, <1>6, <2>0
  <2>3. Holds(f, p0, g[k].bytes) /\ q = p0 + Len(g[k].bytes) /\ Run(page, i0, k, j, b) /\ Clear(k)
    OBVIOUS
  <2>4. Right(at)
    BY <1>6
  <2>5. rest \in Seq(R8) /\ Len(rest) \in Nat
    BY <1>2, <2>1
  <2>6. code \in Seq(R8) /\ Len(code) = 4
    BY <2>1, EscIs
  <2>7. i1 = i0 + now /\ p1 = p0 + 4
    OBVIOUS
  <2>8. Clear(at)
    BY <2>2, <2>3
  <2> HIDE DEF Right, Clear
  <2>9. Puts(at, p1, i1) => StoredFrom(u, page, p1, i1)
    BY <2>1, <2>4 DEF Right
  <2>10. Holds(f, p1, rest) /\ q = p1 + Len(rest) /\ Holds(f, p0, code)
    <3> HIDE DEF Puts, rest, code, now, at, p1, i1
    <3>1. Holds(f, p0, code \o rest) /\ q = p0 + Len(code \o rest) /\ p1 = p0 + Len(code)
      BY <2>2, <2>3, <2>6, <2>7
    <3>2. /\ Holds(f, p0, code) /\ Holds(f, p1, rest)
          /\ Len(code \o rest) = Len(code) + Len(rest)
      <4>1. Holds(f, p0, code \o rest) /\ p1 = p0 + Len(code)
        BY <3>1
      <4>2. code \in Seq(R8) /\ rest \in Seq(R8)
        BY <2>5, <2>6
      <4> QED BY <4>1, <4>2, HoldsParts
    <3>3. q = p1 + Len(rest)
      BY <2>5, <2>6, <2>7, <3>1, <3>2
    <3> QED BY <3>2, <3>3
  <2>11. Announces(f, tmp, p0, now, b)
    BY <2>10, HoldsCode
  <2> HIDE DEF now, at, p1, i1, Puts, code, rest
  <2>12. Run(page, i0, now, i1, b) /\ Run(page, i1, at, j, b)
    BY <2>1, <2>3, <2>7, SamePart
  <2>13. Puts(at, p1, i1)
    BY <2>8, <2>10, <2>12 DEF Puts, rest
  <2>14. StoredFrom(u, page, p1, i1)
    BY <2>9, <2>13
  <2> QED BY <2>1, <2>7, <2>11, <2>12, <2>14 DEF StoresRuns
<1>7. ASSUME NEW k \in Nat, k <= cnt, ~WorthACode(b, k)
      PROVE  Right(k)
  <2> SUFFICES ASSUME NEW p0 \in Nat, NEW i0 \in Nat, Puts(k, p0, i0)
               PROVE  StoredFrom(u, page, p0, i0)
    OBVIOUS
  <2>0. k \in 0..cnt
    BY <1>7
  <2>1. g[k].bytes = Times(k, b) /\ g[k].left = k
    BY <1>1, <1>7, <2>0, Zenon
  <2>2. Len(Times(k, b)) = k
    BY TimesType
  <2>3. Holds(f, p0, Times(k, b)) /\ q = p0 + k /\ Run(page, i0, k, j, b)
    BY <2>1, <2>2
  <2>4. b = Esc => k <= 1 /\ (k = 1 => U8(f, tmp, q) # Esc)
    <3>1. b = Esc => ~(k >= 2)
      BY <1>7 DEF WorthACode
    <3>2. b = Esc /\ k > 0 => U8(f, tmp, q) # Esc
      BY <2>1
    <3> HIDE DEF Puts, Right, Clear
    <3>3. b = Esc => k <= 1 /\ k \in Nat
      BY <3>1
    <3> QED BY <3>2, <3>3
  <2> HIDE DEF Puts, Right, Clear
  <2> QED BY <1>0, <2>3, <2>4, LiteralsStored
<1> HIDE DEF Right
<1>8. T = {}
  <2> SUFFICES ASSUME T # {} PROVE FALSE
    OBVIOUS
  <2>1. PICK k \in T : \A x \in T : k <= x
    BY <1>4, Least
  <2>2. k \in Nat /\ k <= cnt /\ ~Right(k)
    BY <1>3
  <2>3. WorthACode(b, k)
    BY <1>7, <2>2
  <2>4. k \in 0..cnt
    BY <2>2
  <2>5. k - NowOf(k) \in Nat /\ k - NowOf(k) < k
    BY <2>3, <2>4, NowIs
  <2> DEFINE at == k - NowOf(k)
  <2>6. at \in Nat /\ at <= cnt /\ ~(k <= at)
    BY <2>2, <2>5
  <2> HIDE DEF at
  <2>7. Right(at)
    BY <1>3, <2>1, <2>6
  <2> QED BY <1>6, <2>2, <2>3, <2>7 DEF at
<1>9. Right(cnt)
  <2>1. cnt <= cnt
    OBVIOUS
  <2> QED BY <1>3, <1>8, <2>1
<1> QED BY <1>5, <1>9

(***************************************************************************)
(* The runs of a page.                                                      *)
(***************************************************************************)
LEMMA CodedType ==
  ASSUME NEW b \in R8, NEW cnt \in Nat
  PROVE  Coded(b, cnt).bytes \in Seq(R8) /\ Coded(b, cnt).left \in Nat
<1>1. PICK g \in [0..cnt -> Codes] : Coded(b, cnt) = g[cnt]
  BY CodedIs
<1>2. g[cnt] \in Codes
  OBVIOUS
<1> QED BY <1>1, <1>2 DEF Codes

LEMMA NoCode ==
  ASSUME NEW b \in R8, NEW cnt \in Nat, ~WorthACode(b, cnt)
  PROVE  Coded(b, cnt).bytes = Times(cnt, b)
<1>1. PICK g \in [0..cnt -> Codes] :
        /\ Coded(b, cnt) = g[cnt]
        /\ \A k \in 0..cnt :
             /\ WorthACode(b, k) =>
                  /\ g[k].bytes = <<Esc, Esc, NowOf(k), b>> \o g[k - NowOf(k)].bytes
                  /\ g[k].left = g[k - NowOf(k)].left
             /\ ~WorthACode(b, k) => g[k].bytes = Times(k, b) /\ g[k].left = k
  BY CodedIs
<1>2. cnt \in 0..cnt
  OBVIOUS
<1> QED BY <1>1, <1>2

LEMMA OneLeft ==
  ASSUME NEW M \in Nat, M >= 5, NEW at \in Nat, NEW k \in Nat, k = at + M, at % M = 1
  PROVE  k % M = 1
OBVIOUS

\* The Esc that is put as it is is the last of so many.
LEMMA EscLeft ==
  ASSUME NEW cnt \in Nat, Coded(Esc, cnt).left > 0
  PROVE  cnt % MaxRep = 1
<1> DEFINE b == Esc
<1>0. b \in R8 /\ b = Esc
  BY EscIs
<1> HIDE DEF b
<1>1. PICK g \in [0..cnt -> Codes] :
        /\ Coded(b, cnt) = g[cnt]
        /\ \A k \in 0..cnt :
             /\ WorthACode(b, k) =>
                  /\ g[k].bytes = <<Esc, Esc, NowOf(k), b>> \o g[k - NowOf(k)].bytes
                  /\ g[k].left = g[k - NowOf(k)].left
             /\ ~WorthACode(b, k) => g[k].bytes = Times(k, b) /\ g[k].left = k
  BY <1>0, CodedIs
<1> DEFINE Right(k) == g[k].left > 0 => k % MaxRep = 1
           T == {k \in Nat : k <= cnt /\ ~Right(k)}
<1>2. \A k : k \in T <=> k \in Nat /\ k <= cnt /\ ~Right(k)
  OBVIOUS
<1>3. T \in SUBSET Nat
  OBVIOUS
<1> HIDE DEF T
<1>4. \A k \in 0..cnt : WorthACode(b, k) => g[k].left = g[k - NowOf(k)].left
  BY <1>1
<1>5. \A k \in 0..cnt : ~WorthACode(b, k) => g[k].left = k
  BY <1>1
<1>6. T = {}
  <2> SUFFICES ASSUME T # {} PROVE FALSE
    OBVIOUS
  <2>1. PICK k \in T : \A x \in T : k <= x
    BY <1>3, Least
  <2>2. k \in Nat /\ k <= cnt /\ k \in 0..cnt /\ g[k].left > 0 /\ k % MaxRep # 1
    BY <1>2
  <2>3. CASE k < 2
    <3>1. ~WorthACode(b, k)
      BY <2>2, <2>3 DEF WorthACode
    <3>2. g[k].left = k
      BY <1>5, <2>2, <3>1
    <3>3. k = 1
      BY <2>2, <2>3, <3>2
    <3>4. 1 % MaxRep = 1
      BY EscIs
    <3> QED BY <2>2, <3>3, <3>4
  <2>4. CASE k >= 2
    <3>1. WorthACode(b, k)
      BY <1>0, <2>4 DEF WorthACode
    <3>2. g[k].left = g[k - NowOf(k)].left
      BY <1>4, <2>2, <3>1
    <3>3. CASE k > MaxRep
      <4> DEFINE at == k - MaxRep
      <4>1. at = k - NowOf(k)
        BY <3>3 DEF NowOf
      <4>2. at \in Nat /\ at <= cnt /\ ~(k <= at) /\ k = at + MaxRep
        BY <2>2, <3>3, EscIs
      <4> HIDE DEF at
      <4>3. Right(at)
        BY <1>2, <2>1, <4>2
      <4>4. at % MaxRep = 1
        BY <2>2, <3>2, <4>1, <4>3
      <4> QED BY <2>2, <4>2, <4>4, EscIs, OneLeft
    <3>4. CASE ~(k > MaxRep)
      <4>1. k - NowOf(k) = 0
        BY <2>2, <3>4 DEF NowOf
      <4>2. ~WorthACode(b, 0)
        BY DEF WorthACode
      <4>3. g[0].left = 0
        BY <1>5, <4>2
      <4>4. g[k].left = 0
        BY <3>2, <4>1, <4>3
      <4> QED BY <2>2, <4>4
    <3> QED BY <3>3, <3>4
  <2> QED BY <2>2, <2>3, <2>4
<1>7. Right(cnt)
  <2>1. cnt <= cnt
    OBVIOUS
  <2> HIDE DEF Right
  <2> QED BY <1>2, <1>6, <2>1
<1> QED BY <1>0, <1>1, <1>7

LEMMA RunLengthIs ==
  ASSUME NEW page \in Seq(R8), NEW i \in Nat, 1 <= i, i <= Len(page)
  PROVE  LET n == RunLength(page, i)
         IN  /\ n \in 1..(Len(page) - i + 1)
             /\ \A j \in i..(i + n - 1) : page[j] = page[i]
             /\ i + n <= Len(page) => page[i + n] # page[i]
<1> DEFINE l == Len(page)
           T == {n \in Nat : n >= 1 /\ (i + n <= l => page[i + n] # page[i])}
           P(n) == /\ \A j \in i..(i + n - 1) : page[j] = page[i]
                   /\ i + n <= l => page[i + n] # page[i]
<1>1. l \in Nat /\ l >= i
  OBVIOUS
<1>2. \A n : n \in T <=> n \in Nat /\ n >= 1 /\ (i + n <= l => page[i + n] # page[i])
  OBVIOUS
<1>3. T \in SUBSET Nat
  OBVIOUS
<1>4. RunLength(page, i) = CHOOSE n \in 1..(l - i + 1) : P(n)
  BY DEF RunLength
<1> HIDE DEF T, l
<1>5. l - i + 1 \in T
  BY <1>1, <1>2
<1>6. PICK n \in T : \A x \in T : n <= x
  BY <1>3, <1>5, Least
<1>7. n \in Nat /\ n >= 1 /\ n <= l - i + 1 /\ (i + n <= l => page[i + n] # page[i])
  BY <1>2, <1>5, <1>6
<1>8. \A j \in i..(i + n - 1) : page[j] = page[i]
  <2> SUFFICES ASSUME NEW j \in i..(i + n - 1), j # i PROVE page[j] = page[i]
    OBVIOUS
  <2> DEFINE at == j - i
  <2>1. at \in Nat /\ at >= 1 /\ ~(n <= at) /\ i + at = j
    BY <1>7
  <2> HIDE DEF at
  <2>2. at \notin T
    BY <1>6, <2>1
  <2> QED BY <1>2, <2>1, <2>2
<1>9. n \in 1..(l - i + 1) /\ P(n)
  BY <1>1, <1>7, <1>8
<1> HIDE DEF P
<1>10. RunLength(page, i) \in 1..(l - i + 1) /\ P(RunLength(page, i))
  BY <1>4, <1>9
<1> QED BY <1>10 DEF P, l

(***************************************************************************)
(* The bytes of a page, as they are put.                                    *)
(***************************************************************************)
Spots(page) == (1..(Len(page) + 1)) \X BOOLEAN
CntOf(page, x) == IF x[2] THEN 1 ELSE RunLength(page, x[1])
CodeOf(page, x) == Coded(page[x[1]], CntOf(page, x))
NextOf(page, x) ==
  <<x[1] + CntOf(page, x), page[x[1]] = Esc /\ CodeOf(page, x).left > 0>>

PackStep(page, g, x) ==
  IF x[1] > Len(page) THEN <<>> ELSE CodeOf(page, x).bytes \o g[NextOf(page, x)]

IsPack(page, g) == g = [x \in Spots(page) |-> PackStep(page, g, x)]

LEMMA SpotParts ==
  ASSUME NEW page \in Seq(R8)
  PROVE  /\ \A x \in Spots(page) :
              x[1] \in Nat /\ 1 <= x[1] /\ x[1] <= Len(page) + 1 /\ x[2] \in BOOLEAN
         /\ \A i \in Nat : \A r \in BOOLEAN :
              1 <= i /\ i <= Len(page) + 1 =>
                <<i, r>> \in Spots(page) /\ <<i, r>>[1] = i /\ <<i, r>>[2] = r
BY DEF Spots

LEMMA CntIs ==
  ASSUME NEW page \in Seq(R8), NEW x \in Spots(page), ~(x[1] > Len(page))
  PROVE  /\ CntOf(page, x) \in Nat /\ 1 <= CntOf(page, x)
         /\ x[1] + CntOf(page, x) \in Nat /\ x[1] + CntOf(page, x) <= Len(page) + 1
         /\ page[x[1]] \in R8
         /\ CodeOf(page, x).bytes \in Seq(R8) /\ CodeOf(page, x).left \in Nat
<1> DEFINE i == x[1]
           n == RunLength(page, i)
           l == Len(page)
<1>1. i \in Nat /\ 1 <= i /\ i <= l /\ l \in Nat
  BY SpotParts
<1>2. n \in 1..(l - i + 1)
  BY <1>1, RunLengthIs
<1>3. page[i] \in R8
  BY <1>1
<1>4. CntOf(page, x) = IF x[2] THEN 1 ELSE n
  BY DEF CntOf
<1> DEFINE c == CntOf(page, x)
<1>5. CodeOf(page, x) = Coded(page[i], c)
  BY DEF CodeOf
<1> HIDE DEF n, l, i, c
<1>6. c \in Nat /\ 1 <= c /\ i + c \in Nat /\ i + c <= l + 1
  <2>1. CASE x[2]
    BY <1>1, <1>4, <2>1 DEF c
  <2>2. CASE ~x[2]
    BY <1>1, <1>2, <1>4, <2>2 DEF c
  <2> QED BY <2>1, <2>2
<1>7. CodeOf(page, x).bytes \in Seq(R8) /\ CodeOf(page, x).left \in Nat
  BY <1>3, <1>5, <1>6, CodedType
<1> QED BY <1>3, <1>6, <1>7 DEF c, i, l

LEMMA NextIs ==
  ASSUME NEW page \in Seq(R8), NEW x \in Spots(page), ~(x[1] > Len(page))
  PROVE  /\ NextOf(page, x) \in Spots(page)
         /\ NextOf(page, x)[1] = x[1] + CntOf(page, x)
         /\ NextOf(page, x)[2] = (page[x[1]] = Esc /\ CodeOf(page, x).left > 0)
<1> DEFINE i == x[1]
           c == CntOf(page, x)
           j == i + c
           r == (page[i] = Esc /\ CodeOf(page, x).left > 0)
<1>1. NextOf(page, x) = <<j, r>>
  BY DEF NextOf
<1>2. r \in BOOLEAN
  OBVIOUS
<1>3. j \in Nat /\ j <= Len(page) + 1 /\ 1 <= j
  <2>1. /\ c \in Nat /\ 1 <= c /\ i + c \in Nat /\ i + c <= Len(page) + 1
    BY CntIs
  <2>2. i \in Nat /\ 1 <= i
    BY SpotParts
  <2> HIDE DEF c, i
  <2> QED BY <2>1, <2>2
<1> HIDE DEF j, r
<1>4. <<j, r>> \in Spots(page) /\ <<j, r>>[1] = j /\ <<j, r>>[2] = r
  BY <1>2, <1>3, SpotParts
<1> QED BY <1>1, <1>4 DEF j, r

LEMMA PackStepType ==
  ASSUME NEW page \in Seq(R8), NEW x \in Spots(page), NEW g,
         ~(x[1] > Len(page)) => g[NextOf(page, x)] \in Seq(R8)
  PROVE  /\ PackStep(page, g, x) \in Seq(R8)
         /\ x[1] > Len(page) => PackStep(page, g, x) = <<>>
         /\ ~(x[1] > Len(page)) =>
              PackStep(page, g, x) = CodeOf(page, x).bytes \o g[NextOf(page, x)]
<1>1. CASE x[1] > Len(page)
  <2>1. PackStep(page, g, x) = <<>>
    BY <1>1 DEF PackStep
  <2>2. <<>> \in Seq(R8)
    OBVIOUS
  <2> QED BY <1>1, <2>1, <2>2, Zenon
<1>2. CASE ~(x[1] > Len(page))
  <2> DEFINE s == CodeOf(page, x).bytes
             t == g[NextOf(page, x)]
  <2>1. s \in Seq(R8) /\ t \in Seq(R8)
    BY <1>2, CntIs
  <2>2. PackStep(page, g, x) = s \o t
    BY <1>2 DEF PackStep
  <2> HIDE DEF s, t
  <2>3. s \o t \in Seq(R8)
    BY <2>1
  <2> QED BY <1>2, <2>2, <2>3 DEF s, t
<1> QED BY <1>1, <1>2

LEMMA PacksExist ==
  ASSUME NEW page \in Seq(R8)
  PROVE  \E g : IsPack(page, g)
<1> DEFINE S == Spots(page)
           V == Seq(R8)
           l == Len(page)
           mu == [x \in S |-> l + 1 - x[1]]
           F == [x \in S |-> [g \in [S -> V] |-> PackStep(page, g, x)]]
<1>0. l \in Nat /\ \A x \in S : x[1] \in Nat /\ 1 <= x[1] /\ x[1] <= l + 1
  BY SpotParts
<1>1. mu \in [S -> Nat]
  <2> HIDE DEF l, S
  <2>1. \A x \in S : l + 1 - x[1] \in Nat
    BY <1>0
  <2> QED BY <2>1
<1>2. F \in [S -> [[S -> V] -> V]]
  <2>1. \A x \in S : \A g \in [S -> V] : PackStep(page, g, x) \in V
    BY NextIs, PackStepType
  <2> QED BY <2>1
<1>3. V # {}
  <2>1. <<>> \in V
    OBVIOUS
  <2> QED BY <2>1
<1>4. \A x \in S : \A g \in [S -> V] : F[x][g] = PackStep(page, g, x)
  OBVIOUS
<1>5. \A x \in S : mu[x] = l + 1 - x[1]
  OBVIOUS
<1> HIDE DEF V, mu, F
<1>6. ASSUME NEW x \in S, NEW g \in [S -> V], NEW h \in [S -> V],
             \A y \in S : mu[y] < mu[x] => g[y] = h[y]
      PROVE  F[x][g] = F[x][h]
  <2>1. F[x][g] = PackStep(page, g, x) /\ F[x][h] = PackStep(page, h, x)
    BY <1>4
  <2>2. CASE x[1] > l
    BY <2>1, <2>2 DEF PackStep
  <2>3. CASE ~(x[1] > l)
    <3> DEFINE y == NextOf(page, x)
               c == CntOf(page, x)
    <3>1. y \in S /\ y[1] = x[1] + c /\ c \in Nat /\ 1 <= c
      BY <2>3, NextIs, CntIs
    <3> HIDE DEF y, c, S, l
    <3>2. mu[y] < mu[x]
      BY <1>0, <1>5, <3>1
    <3>3. g[y] = h[y]
      BY <1>6, <3>1, <3>2
    <3> QED BY <2>1, <3>3 DEF PackStep, y, l
  <2> QED BY <2>2, <2>3
<1> HIDE DEF S
<1>7. Descends(S, V, F, mu)
  BY <1>1, <1>2, <1>3, <1>6 DEF Descends
<1>8. PICK g \in [S -> V] : \A x \in S : g[x] = F[x][g]
  BY <1>7, Recursion
<1>9. g = [x \in S |-> g[x]] /\ \A x \in S : g[x] = PackStep(page, g, x)
  BY <1>4, <1>8
<1>10. g = [x \in S |-> PackStep(page, g, x)]
  BY <1>9
<1> QED BY <1>10 DEF IsPack, S

LEMMA PackedIs ==
  ASSUME NEW page \in Seq(R8)
  PROVE  \E g : /\ Packed(page) = g[<<1, FALSE>>]
                /\ \A x \in Spots(page) :
                     /\ g[x] \in Seq(R8)
                     /\ x[1] > Len(page) => g[x] = <<>>
                     /\ ~(x[1] > Len(page)) =>
                          g[x] = CodeOf(page, x).bytes \o g[NextOf(page, x)]
<1> DEFINE g == CHOOSE h : IsPack(page, h)
           l == Len(page)
<1>1. IsPack(page, g)
  BY PacksExist
<1>2. Packed(page) = g[<<1, FALSE>>]
  BY DEF Packed, IsPack, PackStep, CodeOf, CntOf, NextOf, Spots
<1> HIDE DEF g
<1>3. \A x \in Spots(page) : g[x] = PackStep(page, g, x)
  BY <1>1 DEF IsPack
<1> DEFINE T == {at \in Nat : \E x \in Spots(page) : l + 1 - x[1] = at /\ g[x] \notin Seq(R8)}
<1>4. \A at : at \in T <=>
        at \in Nat /\ \E x \in Spots(page) : l + 1 - x[1] = at /\ g[x] \notin Seq(R8)
  OBVIOUS
<1>5. T \in SUBSET Nat
  OBVIOUS
<1>0. l \in Nat /\ \A x \in Spots(page) : x[1] \in Nat /\ 1 <= x[1] /\ x[1] <= l + 1
  BY SpotParts
<1> HIDE DEF T
<1>6. T = {}
  <2> SUFFICES ASSUME T # {} PROVE FALSE
    OBVIOUS
  <2>1. PICK at \in T : \A k \in T : at <= k
    BY <1>5, Least
  <2>2. PICK x \in Spots(page) : l + 1 - x[1] = at /\ g[x] \notin Seq(R8)
    BY <1>4
  <2>3. ~(x[1] > Len(page)) => g[NextOf(page, x)] \in Seq(R8)
    <3> SUFFICES ASSUME ~(x[1] > Len(page)) PROVE g[NextOf(page, x)] \in Seq(R8)
      OBVIOUS
    <3> DEFINE y == NextOf(page, x)
               c == CntOf(page, x)
               k == l + 1 - y[1]
    <3>1. y \in Spots(page) /\ y[1] = x[1] + c /\ c \in Nat /\ 1 <= c
      BY NextIs, CntIs
    <3> HIDE DEF y, c, l
    <3>2. k \in Nat /\ ~(at <= k)
      BY <1>0, <2>2, <3>1, SMTT(30)
    <3>3. k \notin T
      BY <2>1, <3>2
    <3> HIDE DEF k
    <3>4. g[y] \in Seq(R8)
      BY <1>4, <3>1, <3>2, <3>3 DEF k
    <3> QED BY <3>4 DEF y
  <2>4. PackStep(page, g, x) \in Seq(R8)
    BY <2>3, PackStepType
  <2> QED BY <1>3, <2>2, <2>4
<1>7. ASSUME NEW x \in Spots(page) PROVE g[x] \in Seq(R8)
  <2> DEFINE at == l + 1 - x[1]
  <2>1. at \in Nat
    <3> HIDE DEF l
    <3> QED BY <1>0
  <2>2. at \notin T
    BY <1>6
  <2> HIDE DEF at
  <2> QED BY <1>4, <2>1, <2>2 DEF at
<1>8. ASSUME NEW x \in Spots(page)
      PROVE  /\ g[x] \in Seq(R8)
             /\ x[1] > Len(page) => g[x] = <<>>
             /\ ~(x[1] > Len(page)) =>
                  g[x] = CodeOf(page, x).bytes \o g[NextOf(page, x)]
  <2>1. ~(x[1] > Len(page)) => g[NextOf(page, x)] \in Seq(R8)
    BY <1>7, NextIs
  <2>2. g[x] = PackStep(page, g, x)
    BY <1>3
  <2>3. /\ x[1] > Len(page) => PackStep(page, g, x) = <<>>
        /\ ~(x[1] > Len(page)) =>
             PackStep(page, g, x) = CodeOf(page, x).bytes \o g[NextOf(page, x)]
    BY <2>1, PackStepType
  <2> QED BY <1>7, <2>2, <2>3
<1> QED BY <1>2, <1>8

(***************************************************************************)
(* Between two runs: behind an Esc that stands for itself comes another     *)
(* byte, and a run of Esc is as long as it can be.                          *)
(***************************************************************************)
Follows(page, i, open) ==
  /\ open => /\ i <= Len(page) => page[i] # Esc
             /\ i = Len(page) + 1 => EndsOpen(page)
  /\ ~open => (1 < i /\ i <= Len(page) /\ page[i] = Esc => page[i - 1] # Esc)

LEMMA FollowsStart ==
  ASSUME NEW page \in Seq(R8)
  PROVE  Follows(page, 1, FALSE)
BY DEF Follows

LEMMA FollowsNext ==
  ASSUME NEW page \in Seq(R8), NEW x \in Spots(page), ~(x[1] > Len(page)),
         Follows(page, x[1], x[2]), NEW y, y = NextOf(page, x)
  PROVE  /\ Follows(page, y[1], y[2])
         /\ Run(page, x[1], CntOf(page, x), y[1], page[x[1]])
<1> DEFINE i == x[1]
           j == y[1]
           c == CntOf(page, x)
           l == Len(page)
           b == page[i]
           left == CodeOf(page, x).left
           open == x[2]
           then == y[2]
<1>1. /\ i \in Nat /\ 1 <= i /\ i <= l /\ l \in Nat /\ open \in BOOLEAN
      /\ c \in Nat /\ 1 <= c /\ j = i + c /\ j <= l + 1 /\ j \in Nat
      /\ then = (b = Esc /\ left > 0)
  BY SpotParts, CntIs, NextIs
<1>2. left = Coded(b, c).left
  BY DEF CodeOf
<1>3. CASE open
  <2>1. c = 1 /\ b # Esc
    BY <1>1, <1>3 DEF CntOf, Follows
  <2>2. Same(page, i, j, b)
    <3> SUFFICES ASSUME NEW at \in Nat, i <= at, at < j PROVE page[at] = page[i]
      BY DEF Same
    <3> HIDE DEF i, j, c
    <3>1. at = i
      BY <1>1, <2>1
    <3> QED BY <3>1
  <2>3. Follows(page, j, then)
    <3>1. ~then
      BY <1>1, <2>1
    <3>2. j - 1 = i
      <4> HIDE DEF i, j, c
      <4> QED BY <1>1, <2>1
    <3>3. page[j - 1] # Esc
      BY <2>1, <3>2
    <3> HIDE DEF then, j, b
    <3> QED BY <3>1, <3>3 DEF Follows
  <2> QED BY <1>1, <2>2, <2>3 DEF Run
<1>4. CASE ~open
  <2>1. c = RunLength(page, i)
    BY <1>4 DEF CntOf
  <2>2. /\ c \in 1..(l - i + 1)
        /\ \A at \in i..(i + c - 1) : page[at] = b
        /\ i + c <= l => page[i + c] # b
    BY <1>1, <2>1, RunLengthIs, SMTT(30)
  <2>3. b = Esc /\ 1 < i => page[i - 1] # Esc
    BY <1>1, <1>4 DEF Follows
  <2> HIDE DEF i, j, c, l, b, left, open, then
  <2>4. Same(page, i, j, b)
    <3> SUFFICES ASSUME NEW at \in Nat, i <= at, at < j PROVE page[at] = b
      BY DEF Same
    <3>1. at \in i..(i + c - 1)
      BY <1>1
    <3> QED BY <2>2, <3>1
  <2>5. CASE then
    <3>1. b = Esc /\ left > 0
      BY <1>1, <2>5
    <3>2. j <= l => page[j] # Esc
      BY <1>1, <2>2, <3>1
    <3>3. ASSUME j = l + 1 PROVE EndsOpen(page)
      <4>1. c \in 1..l /\ l - c + 1 = i /\ l = i + c - 1 /\ l - c = i - 1 /\ (c < l => 1 < i)
        BY <1>1, <3>3
      <4>2. Coded(Esc, c).left > 0
        BY <1>2, <3>1
      <4>3. c % MaxRep = 1
        BY <1>1, <4>2, EscLeft
      <4>4. \A at \in (l - c + 1)..l : page[at] = Esc
        BY <2>2, <3>1, <4>1
      <4>5. c < l => page[l - c] # Esc
        BY <2>3, <3>1, <4>1
      <4> QED BY <4>1, <4>3, <4>4, <4>5 DEF EndsOpen, l
    <3>4. Follows(page, j, then)
      BY <2>5, <3>2, <3>3 DEF Follows, l
    <3> QED BY <1>1, <2>4, <3>4 DEF Run, i, j, c, l, b, then
  <2>6. CASE ~then
    <3>1. ASSUME j <= l, page[j] = Esc PROVE page[j - 1] # Esc
      <4>1. b # Esc
        BY <1>1, <2>2, <3>1
      <4>2. j - 1 \in i..(i + c - 1)
        BY <1>1
      <4> QED BY <2>2, <4>1, <4>2
    <3>2. Follows(page, j, then)
      BY <2>6, <3>1 DEF Follows, l
    <3> QED BY <1>1, <2>4, <3>2 DEF Run, i, j, c, l, b, then
  <2> QED BY <2>5, <2>6
<1> QED BY <1>3, <1>4

(***************************************************************************)
(* What is packed is read back.                                             *)
(***************************************************************************)
THEOREM PageRoundTrip ==
  ASSUME NEW page \in Seq(R8), NEW f \in Seq(R8), NEW tmp \in R8, NEW p \in Nat,
         Holds(f, p, Packed(page)),
         EndsOpen(page) => U8(f, tmp, p + Len(Packed(page))) # Esc
  PROVE  Unpacked(f, tmp, p, Len(page)) = page
<1> DEFINE l == Len(page)
           e == p + Len(Packed(page))
<1>1. l \in Nat
  OBVIOUS
<1>2. PICK u : Reads(f, tmp, l, u) /\ \A q : Unpacked(f, tmp, q, l) = u[<<q, 0>>]
  BY <1>1, UnpackedIs
<1>3. PICK g : /\ Packed(page) = g[<<1, FALSE>>]
               /\ \A x \in Spots(page) :
                    /\ g[x] \in Seq(R8)
                    /\ x[1] > Len(page) => g[x] = <<>>
                    /\ ~(x[1] > Len(page)) =>
                         g[x] = CodeOf(page, x).bytes \o g[NextOf(page, x)]
  BY PackedIs
<1>4. StoresBytes(f, tmp, page, u) /\ StoresRuns(f, tmp, page, u)
  BY <1>2, StoresByte, StoresRun
<1> DEFINE Puts(x, q) == /\ Follows(page, x[1], x[2])
                        /\ Holds(f, q, g[x]) /\ e = q + Len(g[x])
           Back(x, q) == /\ StoredFrom(u, page, q, x[1])
                         /\ x[2] => U8(f, tmp, q) # Esc
           Right(x) == \A q \in Nat : Puts(x, q) => Back(x, q)
           T == {at \in Nat : \E x \in Spots(page) : l + 1 - x[1] = at /\ ~Right(x)}
<1>5. \A at : at \in T <=> at \in Nat /\ \E x \in Spots(page) : l + 1 - x[1] = at /\ ~Right(x)
  OBVIOUS
<1>6. T \in SUBSET Nat
  OBVIOUS
<1>7. \A x \in Spots(page) : x[1] \in Nat /\ 1 <= x[1] /\ x[1] <= l + 1 /\ x[2] \in BOOLEAN
  BY SpotParts
<1> HIDE DEF T
<1>8. ASSUME NEW x \in Spots(page), x[1] > Len(page) PROVE Right(x)
  <2> SUFFICES ASSUME NEW q \in Nat, Puts(x, q) PROVE Back(x, q)
    OBVIOUS
  <2>0. x[1] = l + 1
    <3> HIDE DEF Puts, Back
    <3>1. x[1] \in Nat /\ x[1] <= l + 1 /\ x[1] > l
      BY <1>7, <1>8
    <3> QED BY <1>1, <3>1
  <2>1. g[x] = <<>> /\ x[1] = l + 1
    BY <1>3, <1>8, <2>0, Zenon
  <2>2. Len(g[x]) = 0
    BY <2>1
  <2>3. e = q
    <3>1. e = q + Len(g[x])
      OBVIOUS
    <3> HIDE DEF e, Puts
    <3> QED BY <2>2, <3>1
  <2>4. Follows(page, x[1], x[2])
    OBVIOUS
  <2>5. x[2] => EndsOpen(page)
    BY <2>1, <2>4 DEF Follows
  <2>6. x[2] => U8(f, tmp, q) # Esc
    BY <2>3, <2>5
  <2>7. StoredFrom(u, page, q, x[1])
    <3> DEFINE j == x[1]
    <3>1. j = Len(page) + 1
      BY <2>1
    <3> HIDE DEF j, e, Puts
    <3>2. StoredFrom(u, page, q, j)
      BY <1>2, <3>1, StoresEnd
    <3> QED BY <3>2 DEF j
  <2> QED BY <2>6, <2>7
<1>9. ASSUME NEW x \in Spots(page), ~(x[1] > Len(page)), Right(NextOf(page, x))
      PROVE  Right(x)
  <2> SUFFICES ASSUME NEW q \in Nat, Puts(x, q) PROVE Back(x, q)
    OBVIOUS
  <2> DEFINE i == x[1]
             y == NextOf(page, x)
             j == y[1]
             c == CntOf(page, x)
             b == page[i]
             s == CodeOf(page, x).bytes
             t == g[y]
             r == q + Len(s)
  <2>1. Follows(page, x[1], x[2]) /\ Holds(f, q, g[x]) /\ e = q + Len(g[x])
    OBVIOUS
  <2>2. y \in Spots(page) /\ y[2] = (b = Esc /\ CodeOf(page, x).left > 0)
    BY <1>9, NextIs
  <2>3. s \in Seq(R8) /\ b \in R8 /\ c \in Nat
    BY <1>9, CntIs
  <2>4. g[x] = s \o t /\ t \in Seq(R8)
    BY <1>3, <1>9, <2>2
  <2>5. i \in Nat /\ j \in Nat
    BY <1>7, <2>2
  <2>6. Follows(page, y[1], y[2]) /\ Run(page, i, c, j, b)
    <3>1. Follows(page, x[1], x[2]) /\ ~(x[1] > Len(page))
      BY <1>9, <2>1
    <3> HIDE DEF Puts, Right
    <3> QED BY <3>1, FollowsNext
  <2>7. CodeOf(page, x) = Coded(b, c)
    BY DEF CodeOf
  <2>8. Right(y)
    BY <1>9
  <2>9. Puts(y, r) => Back(y, r)
    <3>1. r \in Nat
      BY <2>3
    <3> HIDE DEF Puts, Back, y, r
    <3> QED BY <2>8, <3>1
  <2>10. r = q + Len(s)
    OBVIOUS
  <2>11. x[2] => U8(f, tmp, q) # Esc
    <3> SUFFICES ASSUME x[2] PROVE U8(f, tmp, q) # Esc
      OBVIOUS
    <3>1. c = 1
      BY DEF CntOf
    <3>2. b # Esc
      <4>1. i <= Len(page)
        BY <1>1, <1>9, <2>5
      <4>2. Follows(page, i, TRUE)
        BY <2>1
      <4> QED BY <4>1, <4>2 DEF Follows
    <3>3. s = Times(c, b)
      <4>1. ~WorthACode(b, c)
        BY <3>1, <3>2 DEF WorthACode
      <4> HIDE DEF c, b
      <4>2. Coded(b, c).bytes = Times(c, b)
        BY <2>3, <4>1, NoCode
      <4> QED BY <2>7, <4>2
    <3>4. Len(s) = 1 /\ s[1] = b
      <4> HIDE DEF c, b, s
      <4>1. Len(Times(c, b)) = c /\ \A at \in 1..c : Times(c, b)[at] = b
        BY <2>3, TimesType
      <4> QED BY <3>1, <3>3, <4>1
    <3>5. Holds(f, q, s)
      <4> HIDE DEF s, t, r
      <4> QED BY <2>1, <2>3, <2>4, <2>10, HoldsParts
    <3> HIDE DEF s, b, e
    <3>6. q < Len(f) /\ f[q + 1] = b
      BY <3>4, <3>5 DEF Holds
    <3> QED BY <3>2, <3>6 DEF U8
  <2> HIDE DEF i, y, j, c, b, s, t, r, e, Puts, Right, Back
  <2>12. Holds(f, q, s) /\ Holds(f, r, t) /\ Len(s \o t) = Len(s) + Len(t) /\ Len(s) \in Nat /\ Len(t) \in Nat
    <3>1. Holds(f, q, s \o t)
      BY <2>1, <2>4
    <3> QED BY <2>3, <2>4, <2>10, <3>1, HoldsParts
  <2>13. e = r + Len(t)
    BY <2>1, <2>4, <2>10, <2>12
  <2>14. Puts(y, r)
    BY <2>6, <2>12, <2>13 DEF Puts, t
  <2>15. StoredFrom(u, page, r, j) /\ (y[2] => U8(f, tmp, r) # Esc)
    BY <2>9, <2>14 DEF Back, j
  <2>16. /\ Holds(f, q, Coded(b, c).bytes) /\ r = q + Len(Coded(b, c).bytes)
         /\ b = Esc /\ Coded(b, c).left > 0 => U8(f, tmp, r) # Esc
    BY <2>2, <2>7, <2>10, <2>12, <2>15 DEF s
  <2>17. r \in Nat
    BY <2>10, <2>12
  <2>18. StoredFrom(u, page, q, i)
    <3>1. PutRun(f, tmp, page, u, b, c, q, r, i, j)
      BY <2>6, <2>15, <2>16 DEF PutRun
    <3> QED BY <1>4, <2>3, <2>5, <2>17, <3>1, RunStored
  <2> QED BY <2>11, <2>18 DEF Back, i
<1> HIDE DEF Right
<1>10. T = {}
  <2> SUFFICES ASSUME T # {} PROVE FALSE
    OBVIOUS
  <2>1. PICK at \in T : \A k \in T : at <= k
    BY <1>6, Least
  <2>2. PICK x \in Spots(page) : l + 1 - x[1] = at /\ ~Right(x)
    BY <1>5
  <2>3. ~(x[1] > Len(page))
    BY <1>8, <2>2
  <2> DEFINE y == NextOf(page, x)
             c == CntOf(page, x)
             k == l + 1 - y[1]
  <2>4. y \in Spots(page) /\ y[1] = x[1] + c /\ c \in Nat /\ 1 <= c
    BY <2>3, NextIs, CntIs
  <2> HIDE DEF y, c, l
  <2>5. k \in Nat /\ ~(at <= k)
    <3>1. y[1] \in Nat /\ y[1] <= l + 1 /\ x[1] \in Nat
      BY <1>7, <2>4
    <3>2. at = l + 1 - x[1] /\ at \in Nat /\ l \in Nat
      BY <1>1, <1>5, <2>2
    <3> DEFINE xi == x[1]
               yi == y[1]
    <3>3. /\ yi = xi + c /\ c \in Nat /\ 1 <= c /\ yi \in Nat /\ yi <= l + 1 /\ xi \in Nat
          /\ k = l + 1 - yi /\ at = l + 1 - xi /\ at \in Nat /\ l \in Nat
      BY <2>4, <3>1, <3>2
    <3> HIDE DEF xi, yi, k
    <3> QED BY <3>3
  <2>6. k \notin T
    BY <2>1, <2>5
  <2>7. k = l + 1 - y[1]
    OBVIOUS
  <2> HIDE DEF k
  <2>8. Right(y)
    BY <1>5, <2>4, <2>5, <2>6, <2>7
  <2> QED BY <1>9, <2>2, <2>3, <2>8 DEF y
<1> DEFINE x == <<1, FALSE>>
<1>11. x \in Spots(page) /\ x[1] = 1 /\ x[2] = FALSE
  <2>1. 1 \in 1..(Len(page) + 1) /\ FALSE \in BOOLEAN
    BY <1>1
  <2> QED BY <2>1 DEF Spots
<1>12. Right(x)
  <2> DEFINE at == l + 1 - x[1]
  <2>1. at \in Nat /\ at = l + 1 - x[1]
    <3> HIDE DEF l, x
    <3> QED BY <1>1, <1>11
  <2>2. at \notin T
    BY <1>10
  <2> HIDE DEF at, x
  <2> QED BY <1>5, <1>11, <2>1, <2>2
<1>13. Puts(x, p)
  <2>1. g[x] = Packed(page)
    BY <1>3
  <2>2. Follows(page, x[1], x[2])
    <3> HIDE DEF x
    <3> QED BY <1>11, FollowsStart
  <2> HIDE DEF x
  <2> QED BY <2>1, <2>2
<1>14. StoredFrom(u, page, p, 1)
  <2> HIDE DEF Puts, x
  <2>1. Back(x, p)
    BY <1>12, <1>13 DEF Right
  <2> QED BY <1>11, <2>1
<1>15. u[<<p, 0>>] = page
  <2>1. 1 - 1 = 0 /\ SubSeq(page, 1, Len(page)) = page
    OBVIOUS
  <2> QED BY <1>14, <2>1 DEF StoredFrom, Suffix
<1> QED BY <1>2, <1>15

(***************************************************************************)
(* The head of a file: what is held at each place.                          *)
(***************************************************************************)
LEMMA CpuFields ==
  ASSUME NEW c \in CpuState
  PROVE  /\ c.A \in R8 /\ c.F \in R8 /\ c.B \in R8 /\ c.C \in R8 /\ c.D \in R8
         /\ c.E \in R8 /\ c.H \in R8 /\ c.L \in R8
         /\ c.A_ \in R8 /\ c.F_ \in R8 /\ c.B_ \in R8 /\ c.C_ \in R8 /\ c.D_ \in R8
         /\ c.E_ \in R8 /\ c.H_ \in R8 /\ c.L_ \in R8
         /\ c.IX \in R16 /\ c.IY \in R16 /\ c.SP \in R16 /\ c.PC \in R16
         /\ c.I \in R8 /\ c.R \in R8
         /\ c.IFF1 \in 0..1 /\ c.IFF2 \in 0..1 /\ c.IM \in 0..2
BY DEF CpuState

\* Byte j of s is at q, if s is at p.
IsAt(s, p, j, q) == j \in 1..Len(s) /\ q + 1 = p + j /\ q \in Nat

LEMMA HeldByte ==
  ASSUME NEW f \in Seq(R8), NEW tmp, NEW p \in Nat, NEW s \in Seq(R8), Holds(f, p, s),
         NEW j, NEW q, IsAt(s, p, j, q)
  PROVE  U8(f, tmp, q) = s[j]
<1>1. Len(f) \in Nat /\ Len(s) \in Nat
  OBVIOUS
<1>2. q < Len(f) /\ q + 1 = p + j /\ j \in 1..Len(s)
  BY <1>1 DEF Holds, IsAt
<1>3. f[p + j] = s[j]
  BY <1>2 DEF Holds
<1> QED BY <1>2, <1>3 DEF U8

LEMMA LeType ==
  ASSUME NEW w \in R16
  PROVE  /\ Le(w) \in Seq(R8) /\ Len(Le(w)) = 2
         /\ Le(w)[1] \in Nat /\ Le(w)[1] = w % 256 /\ Le(w)[1] + (256 * Le(w)[2]) = w
<1>1. w \in Nat /\ w < 65536
  BY DEF R16
<1> DEFINE a == w % 256
           b == (w \div 256) % 256
<1>2. a \in Nat /\ b \in Nat /\ a <= 255 /\ b <= 255 /\ a + (256 * b) = w
  BY <1>1
<1>3. Le(w) = <<a, b>>
  BY DEF Le
<1> HIDE DEF a, b
<1>4. a \in R8 /\ b \in R8
  BY <1>2, R8Is
<1>5. <<a, b>> \in Seq(R8) /\ Len(<<a, b>>) = 2 /\ <<a, b>>[1] = a /\ <<a, b>>[2] = b
  BY <1>4
<1> QED BY <1>2, <1>3, <1>5 DEF a

LEMMA HeldWord ==
  ASSUME NEW f \in Seq(R8), NEW tmp, NEW p \in Nat, NEW w \in R16, Holds(f, p, Le(w))
  PROVE  U16(f, tmp, p) = w /\ U8(f, tmp, p) = w % 256
<1> DEFINE s == Le(w)
<1>1. s \in Seq(R8) /\ Len(s) = 2 /\ s[1] = w % 256 /\ s[1] + (256 * s[2]) = w
  BY LeType
<1> HIDE DEF s
<1>2. Holds(f, p, s)
  BY DEF s
<1> DEFINE j == 2
           q == p + 1
           i == 1
<1>3. IsAt(s, p, j, q) /\ IsAt(s, p, i, p)
  BY <1>1 DEF IsAt
<1> HIDE DEF i, j, q
<1>5. U8(f, tmp, q) = s[j]
  BY <1>1, <1>2, <1>3, HeldByte
<1>6. U8(f, tmp, p) = s[i]
  BY <1>1, <1>2, <1>3, HeldByte
<1> QED BY <1>1, <1>5, <1>6 DEF U16, i, j, q, s

LEMMA ConcatType ==
  ASSUME NEW s \in Seq(R8), NEW t \in Seq(R8)
  PROVE  s \o t \in Seq(R8) /\ Len(s \o t) = Len(s) + Len(t)
OBVIOUS

\* The first bytes of s, if s is at p.
HeldAre(f, tmp, p, s) ==
  /\ 1 <= Len(s) => U8(f, tmp, p) = s[1]
  /\ 2 <= Len(s) => U8(f, tmp, p + 1) = s[2]
  /\ 3 <= Len(s) => U8(f, tmp, p + 2) = s[3]
  /\ 4 <= Len(s) => U8(f, tmp, p + 3) = s[4]
  /\ 5 <= Len(s) => U8(f, tmp, p + 4) = s[5]
  /\ 6 <= Len(s) => U8(f, tmp, p + 5) = s[6]
  /\ 7 <= Len(s) => U8(f, tmp, p + 6) = s[7]
  /\ 8 <= Len(s) => U8(f, tmp, p + 7) = s[8]
  /\ 9 <= Len(s) => U8(f, tmp, p + 8) = s[9]

LEMMA HeldBytes ==
  ASSUME NEW f \in Seq(R8), NEW tmp, NEW p \in Nat, NEW s \in Seq(R8), Holds(f, p, s)
  PROVE  HeldAre(f, tmp, p, s)
<1>1. ASSUME NEW j \in Nat, NEW q \in Nat, 1 <= j, q + 1 = p + j, j <= Len(s)
      PROVE  U8(f, tmp, q) = s[j]
  <2>1. IsAt(s, p, j, q)
    BY <1>1 DEF IsAt
  <2> QED BY <2>1, HeldByte
<1>2. 1 <= Len(s) => U8(f, tmp, p) = s[1]
  BY <1>1
<1>3. 2 <= Len(s) => U8(f, tmp, p + 1) = s[2]
  BY <1>1
<1>4. 3 <= Len(s) => U8(f, tmp, p + 2) = s[3]
  BY <1>1
<1>5. 4 <= Len(s) => U8(f, tmp, p + 3) = s[4]
  BY <1>1
<1>6. 5 <= Len(s) => U8(f, tmp, p + 4) = s[5]
  BY <1>1
<1>7. 6 <= Len(s) => U8(f, tmp, p + 5) = s[6]
  BY <1>1
<1>8. 7 <= Len(s) => U8(f, tmp, p + 6) = s[7]
  BY <1>1
<1>9. 8 <= Len(s) => U8(f, tmp, p + 7) = s[8]
  BY <1>1
<1>10. 9 <= Len(s) => U8(f, tmp, p + 8) = s[9]
  BY <1>1
<1> QED BY <1>2, <1>3, <1>4, <1>5, <1>6, <1>7, <1>8, <1>9, <1>10 DEF HeldAre

LEMMA Peel ==
  ASSUME NEW f \in Seq(R8), NEW s \in Seq(R8), NEW t \in Seq(R8), NEW k, Len(s) = k,
         Holds(f, 0, s \o t)
  PROVE  Holds(f, 0, s) /\ Holds(f, k, t)
<1> DEFINE z == 0
<1>1. k = z + Len(s) /\ z \in Nat
  OBVIOUS
<1> HIDE DEF z
<1>2. Holds(f, z, s \o t)
  BY DEF z
<1>3. Holds(f, z, s) /\ Holds(f, k, t)
  BY <1>1, <1>2, HoldsParts
<1> QED BY <1>3 DEF z

\* What is read of a file that begins with the registers.
RegistersAre(f, tmp, c, pc, flags) ==
  /\ U8(f, tmp, 0) = c.A /\ U8(f, tmp, 1) = c.F /\ U8(f, tmp, 2) = c.C
  /\ U8(f, tmp, 3) = c.B /\ U8(f, tmp, 4) = c.L /\ U8(f, tmp, 5) = c.H
  /\ U16(f, tmp, 6) = pc /\ U16(f, tmp, 8) = c.SP /\ U8(f, tmp, 10) = c.I
  /\ U8(f, tmp, 11) = c.R /\ U8(f, tmp, 12) = flags /\ U8(f, tmp, 13) = c.E
  /\ U8(f, tmp, 14) = c.D /\ U8(f, tmp, 15) = c.C_ /\ U8(f, tmp, 16) = c.B_
  /\ U8(f, tmp, 17) = c.E_ /\ U8(f, tmp, 18) = c.D_ /\ U8(f, tmp, 19) = c.L_
  /\ U8(f, tmp, 20) = c.H_ /\ U8(f, tmp, 21) = c.A_ /\ U8(f, tmp, 22) = c.F_
  /\ U16(f, tmp, 23) = c.IY /\ U16(f, tmp, 25) = c.IX /\ U8(f, tmp, 27) = c.IFF1
  /\ U8(f, tmp, 28) = c.IFF2 /\ U8(f, tmp, 29) = c.IM

LEMMA RegistersHeld ==
  ASSUME NEW f \in Seq(R8), NEW tmp, NEW c \in CpuState, NEW pc \in R16, NEW flags \in R8
  PROVE  /\ Z80Registers(c, pc, flags) \in Seq(R8) /\ Len(Z80Registers(c, pc, flags)) = 30
         /\ Holds(f, 0, Z80Registers(c, pc, flags)) => RegistersAre(f, tmp, c, pc, flags)
<1> DEFINE t1 == <<c.A, c.F, c.C, c.B, c.L, c.H>>
           t2 == Le(pc)
           t3 == Le(c.SP)
           t4 == <<c.I, c.R, flags, c.E, c.D>>
           t5 == <<c.C_, c.B_, c.E_, c.D_, c.L_, c.H_, c.A_, c.F_>>
           t6 == Le(c.IY)
           t7 == Le(c.IX)
           t8 == <<c.IFF1, c.IFF2, c.IM>>
           s1 == t1 \o t2
           s2 == s1 \o t3
           s3 == s2 \o t4
           s4 == s3 \o t5
           s5 == s4 \o t6
           s6 == s5 \o t7
           s7 == s6 \o t8
<1>1. s7 = Z80Registers(c, pc, flags)
  BY DEF Z80Registers
<1>2. 0..1 \subseteq R8 /\ 0..2 \subseteq R8
  BY DEF R8
<1>3. t1 \in Seq(R8) /\ Len(t1) = 6
  <2>1. c.A \in R8 /\ c.F \in R8 /\ c.C \in R8 /\ c.B \in R8 /\ c.L \in R8 /\ c.H \in R8
    BY <1>2, CpuFields
  <2> QED BY <2>1
<1>4. t2 \in Seq(R8) /\ Len(t2) = 2
  BY CpuFields, LeType
<1>5. t3 \in Seq(R8) /\ Len(t3) = 2
  BY CpuFields, LeType
<1>6. t4 \in Seq(R8) /\ Len(t4) = 5
  <2>1. c.I \in R8 /\ c.R \in R8 /\ flags \in R8 /\ c.E \in R8 /\ c.D \in R8
    BY <1>2, CpuFields
  <2> QED BY <2>1
<1>7. t5 \in Seq(R8) /\ Len(t5) = 8
  <2>1. /\ c.C_ \in R8 /\ c.B_ \in R8 /\ c.E_ \in R8 /\ c.D_ \in R8 /\ c.L_ \in R8
        /\ c.H_ \in R8 /\ c.A_ \in R8 /\ c.F_ \in R8
    BY <1>2, CpuFields
  <2> QED BY <2>1
<1>8. t6 \in Seq(R8) /\ Len(t6) = 2
  BY CpuFields, LeType
<1>9. t7 \in Seq(R8) /\ Len(t7) = 2
  BY CpuFields, LeType
<1>10. t8 \in Seq(R8) /\ Len(t8) = 3
  <2>1. c.IFF1 \in R8 /\ c.IFF2 \in R8 /\ c.IM \in R8
    BY <1>2, CpuFields
  <2> QED BY <2>1
<1> HIDE DEF s1, s2, s3, s4, s5, s6, s7
<1>11. t1[1] = c.A /\ t1[2] = c.F /\ t1[3] = c.C /\ t1[4] = c.B /\ t1[5] = c.L /\ t1[6] = c.H
  OBVIOUS
<1>12. t4[1] = c.I /\ t4[2] = c.R /\ t4[3] = flags /\ t4[4] = c.E /\ t4[5] = c.D
  OBVIOUS
<1>13. /\ t5[1] = c.C_ /\ t5[2] = c.B_ /\ t5[3] = c.E_ /\ t5[4] = c.D_ /\ t5[5] = c.L_
       /\ t5[6] = c.H_ /\ t5[7] = c.A_ /\ t5[8] = c.F_
  OBVIOUS
<1>14. t8[1] = c.IFF1 /\ t8[2] = c.IFF2 /\ t8[3] = c.IM
  OBVIOUS
<1> HIDE DEF t1, t2, t3, t4, t5, t6, t7, t8
<1>15. s1 \in Seq(R8) /\ Len(s1) = 8
  <2>1. s1 \in Seq(R8) /\ Len(s1) = Len(t1) + Len(t2)
    BY <1>3, <1>4, ConcatType DEF s1
  <2> QED BY <1>3, <1>4, <2>1
<1>16. s2 \in Seq(R8) /\ Len(s2) = 10
  <2>1. s2 \in Seq(R8) /\ Len(s2) = Len(s1) + Len(t3)
    BY <1>15, <1>5, ConcatType DEF s2
  <2> QED BY <1>15, <1>5, <2>1
<1>17. s3 \in Seq(R8) /\ Len(s3) = 15
  <2>1. s3 \in Seq(R8) /\ Len(s3) = Len(s2) + Len(t4)
    BY <1>16, <1>6, ConcatType DEF s3
  <2> QED BY <1>16, <1>6, <2>1
<1>18. s4 \in Seq(R8) /\ Len(s4) = 23
  <2>1. s4 \in Seq(R8) /\ Len(s4) = Len(s3) + Len(t5)
    BY <1>17, <1>7, ConcatType DEF s4
  <2> QED BY <1>17, <1>7, <2>1
<1>19. s5 \in Seq(R8) /\ Len(s5) = 25
  <2>1. s5 \in Seq(R8) /\ Len(s5) = Len(s4) + Len(t6)
    BY <1>18, <1>8, ConcatType DEF s5
  <2> QED BY <1>18, <1>8, <2>1
<1>20. s6 \in Seq(R8) /\ Len(s6) = 27
  <2>1. s6 \in Seq(R8) /\ Len(s6) = Len(s5) + Len(t7)
    BY <1>19, <1>9, ConcatType DEF s6
  <2> QED BY <1>19, <1>9, <2>1
<1>21. s7 \in Seq(R8) /\ Len(s7) = 30
  <2>1. s7 \in Seq(R8) /\ Len(s7) = Len(s6) + Len(t8)
    BY <1>20, <1>10, ConcatType DEF s7
  <2> QED BY <1>20, <1>10, <2>1
<1>22. ASSUME Holds(f, 0, s7) PROVE RegistersAre(f, tmp, c, pc, flags)
  <2>1. Holds(f, 0, s6) /\ Holds(f, 27, t8)
    BY <1>20, <1>10, <1>22, Peel DEF s7
  <2>2. Holds(f, 0, s5) /\ Holds(f, 25, t7)
    BY <1>19, <1>9, <2>1, Peel DEF s6
  <2>3. Holds(f, 0, s4) /\ Holds(f, 23, t6)
    BY <1>18, <1>8, <2>2, Peel DEF s5
  <2>4. Holds(f, 0, s3) /\ Holds(f, 15, t5)
    BY <1>17, <1>7, <2>3, Peel DEF s4
  <2>5. Holds(f, 0, s2) /\ Holds(f, 10, t4)
    BY <1>16, <1>6, <2>4, Peel DEF s3
  <2>6. Holds(f, 0, s1) /\ Holds(f, 8, t3)
    BY <1>15, <1>5, <2>5, Peel DEF s2
  <2>7. Holds(f, 0, t1) /\ Holds(f, 6, t2)
    BY <1>3, <1>4, <2>6, Peel DEF s1
  <2>8. /\ U8(f, tmp, 0) = c.A /\ U8(f, tmp, 1) = c.F /\ U8(f, tmp, 2) = c.C
        /\ U8(f, tmp, 3) = c.B /\ U8(f, tmp, 4) = c.L /\ U8(f, tmp, 5) = c.H
    <3>1. HeldAre(f, tmp, 0, t1)
      BY <1>3, <2>7, HeldBytes
    <3> QED BY <1>3, <1>11, <3>1 DEF HeldAre
  <2>9. U16(f, tmp, 6) = pc
    BY <2>7, CpuFields, HeldWord DEF t2
  <2>10. U16(f, tmp, 8) = c.SP
    BY <2>6, CpuFields, HeldWord DEF t3
  <2>11. /\ U8(f, tmp, 10) = c.I /\ U8(f, tmp, 11) = c.R /\ U8(f, tmp, 12) = flags
         /\ U8(f, tmp, 13) = c.E /\ U8(f, tmp, 14) = c.D
    <3>1. HeldAre(f, tmp, 10, t4)
      BY <1>6, <2>5, HeldBytes
    <3> QED BY <1>6, <1>12, <3>1 DEF HeldAre
  <2>12. /\ U8(f, tmp, 15) = c.C_ /\ U8(f, tmp, 16) = c.B_ /\ U8(f, tmp, 17) = c.E_
         /\ U8(f, tmp, 18) = c.D_ /\ U8(f, tmp, 19) = c.L_ /\ U8(f, tmp, 20) = c.H_
         /\ U8(f, tmp, 21) = c.A_ /\ U8(f, tmp, 22) = c.F_
    <3>1. HeldAre(f, tmp, 15, t5)
      BY <1>7, <2>4, HeldBytes
    <3> QED BY <1>7, <1>13, <3>1 DEF HeldAre
  <2>13. U16(f, tmp, 23) = c.IY
    BY <2>3, CpuFields, HeldWord DEF t6
  <2>14. U16(f, tmp, 25) = c.IX
    BY <2>2, CpuFields, HeldWord DEF t7
  <2>15. U8(f, tmp, 27) = c.IFF1 /\ U8(f, tmp, 28) = c.IFF2 /\ U8(f, tmp, 29) = c.IM
    <3>1. HeldAre(f, tmp, 27, t8)
      BY <1>10, <2>1, HeldBytes
    <3> QED BY <1>10, <1>14, <3>1 DEF HeldAre
  <2> QED BY <2>8, <2>9, <2>10, <2>11, <2>12, <2>13, <2>14, <2>15 DEF RegistersAre
<1> QED BY <1>1, <1>21, <1>22

\* The CPU that is loaded from a file with another PC.
Loaded(c, pc) ==
  [c EXCEPT !.PC = pc, !.modifier = FALSE, !.halted = FALSE, !.lock = FALSE]

LEMMA LoadedIs ==
  ASSUME NEW c \in CpuState, NEW pc \in R16
  PROVE  /\ Loaded(c, pc) =
              [A |-> c.A, F |-> c.F, C |-> c.C, B |-> c.B, L |-> c.L, H |-> c.H,
               PC |-> pc, SP |-> c.SP, I |-> c.I, R |-> c.R, E |-> c.E, D |-> c.D,
               C_ |-> c.C_, B_ |-> c.B_, E_ |-> c.E_, D_ |-> c.D_, L_ |-> c.L_,
               H_ |-> c.H_, A_ |-> c.A_, F_ |-> c.F_, IY |-> c.IY, IX |-> c.IX,
               IFF1 |-> c.IFF1, IFF2 |-> c.IFF2, IM |-> c.IM,
               modifier |-> FALSE, halted |-> FALSE, lock |-> FALSE]
         /\ Loaded(c, pc) \in CpuState
         /\ Loaded(c, pc).PC = pc /\ Loaded(c, pc).SP = c.SP /\ Loaded(c, pc).IM = c.IM
         /\ Loaded(c, pc).IFF1 = c.IFF1
         /\ \A x : [Loaded(c, pc) EXCEPT !.PC = x] = Loaded(c, x)
<1> DEFINE no == FALSE
           e ==
             [A |-> c.A, F |-> c.F, C |-> c.C, B |-> c.B, L |-> c.L, H |-> c.H,
              PC |-> pc, SP |-> c.SP, I |-> c.I, R |-> c.R, E |-> c.E, D |-> c.D,
              C_ |-> c.C_, B_ |-> c.B_, E_ |-> c.E_, D_ |-> c.D_, L_ |-> c.L_,
              H_ |-> c.H_, A_ |-> c.A_, F_ |-> c.F_, IY |-> c.IY, IX |-> c.IX,
              IFF1 |-> c.IFF1, IFF2 |-> c.IFF2, IM |-> c.IM,
              modifier |-> no, halted |-> no, lock |-> no]
<1>0. no \in BOOLEAN
  OBVIOUS
<1> HIDE DEF no
<1>6. e \in CpuState
  BY <1>0, CpuFields DEF CpuState
<1>7. /\ Loaded(c, pc) \in CpuState
      /\ Loaded(c, pc) = [c EXCEPT !.PC = pc, !.modifier = no, !.halted = no, !.lock = no]
  BY <1>0 DEF Loaded, CpuState, no
<1>8. /\ e.A = c.A /\ e.F = c.F /\ e.B = c.B /\ e.C = c.C
      /\ e.D = c.D /\ e.E = c.E /\ e.H = c.H /\ e.L = c.L
      /\ e.A_ = c.A_ /\ e.F_ = c.F_ /\ e.B_ = c.B_ /\ e.C_ = c.C_
      /\ e.D_ = c.D_ /\ e.E_ = c.E_ /\ e.H_ = c.H_ /\ e.L_ = c.L_
      /\ e.IX = c.IX /\ e.IY = c.IY /\ e.SP = c.SP /\ e.I = c.I
      /\ e.R = c.R /\ e.IFF1 = c.IFF1 /\ e.IFF2 = c.IFF2 /\ e.IM = c.IM
      /\ e.PC = pc /\ e.modifier = no /\ e.halted = no /\ e.lock = no
  OBVIOUS
<1> HIDE DEF e
<1> DEFINE d == Loaded(c, pc)
<1>9. /\ d.A = c.A /\ d.F = c.F /\ d.B = c.B /\ d.C = c.C
      /\ d.D = c.D /\ d.E = c.E /\ d.H = c.H /\ d.L = c.L
      /\ d.A_ = c.A_ /\ d.F_ = c.F_ /\ d.B_ = c.B_ /\ d.C_ = c.C_
      /\ d.D_ = c.D_ /\ d.E_ = c.E_ /\ d.H_ = c.H_ /\ d.L_ = c.L_
      /\ d.IX = c.IX /\ d.IY = c.IY /\ d.SP = c.SP /\ d.I = c.I
      /\ d.R = c.R /\ d.IFF1 = c.IFF1 /\ d.IFF2 = c.IFF2 /\ d.IM = c.IM
      /\ d.PC = pc /\ d.modifier = no /\ d.halted = no /\ d.lock = no
  BY <1>7 DEF CpuState
<1> HIDE DEF d
<1>11. d \in CpuState
  BY <1>7 DEF d
<1>10. d = e
  BY ONLY <1>6, <1>8, <1>9, <1>11 DEF CpuState
<1>1. Loaded(c, pc) = e
  BY <1>10 DEF d
<1>2. Loaded(c, pc) \in CpuState
  BY DEF Loaded, CpuState
<1>3. Loaded(c, pc).PC = pc /\ Loaded(c, pc).SP = c.SP /\ Loaded(c, pc).IM = c.IM
  BY DEF Loaded, CpuState
<1>4. Loaded(c, pc).IFF1 = c.IFF1
  BY DEF Loaded, CpuState
<1>5. ASSUME NEW x PROVE [Loaded(c, pc) EXCEPT !.PC = x] = Loaded(c, x)
  BY DEF Loaded, CpuState
<1> QED BY <1>1, <1>2, <1>3, <1>4, <1>5 DEF no, e

LEMMA Z80CpuRead ==
  ASSUME NEW f, NEW tmp, NEW c \in CpuState, NEW pc \in R16, NEW flags \in R8,
         flags < 255, flags % 2 = c.R \div 128, RegistersAre(f, tmp, c, pc, flags)
  PROVE  Z80Cpu(f, tmp) = Loaded(c, pc) /\ Flags1(f, tmp) = flags
<1>1. Flags1(f, tmp) = flags
  <2>1. flags # 255
    BY DEF R8
  <2>2. U8(f, tmp, 12) = flags
    BY DEF RegistersAre
  <2> QED BY <2>1, <2>2 DEF Flags1
<1>2. (c.R % 128) + (128 * (flags % 2)) = c.R
  <2>1. c.R \in Nat
    BY CpuFields DEF R8
  <2> QED BY <2>1
<1>3. c.IM % 4 = c.IM /\ Flag(c.IFF1) = c.IFF1 /\ Flag(c.IFF2) = c.IFF2
  <2>1. c.IM \in 0..2 /\ c.IFF1 \in 0..1 /\ c.IFF2 \in 0..1
    BY CpuFields
  <2> QED BY <2>1 DEF Flag
<1> DEFINE r == (U8(f, tmp, 11) % 128) + (128 * (Flags1(f, tmp) % 2))
           i1 == Flag(U8(f, tmp, 27))
           i2 == Flag(U8(f, tmp, 28))
           im == U8(f, tmp, 29) % 4
<1>4. r = c.R /\ i1 = c.IFF1 /\ i2 = c.IFF2 /\ im = c.IM
  BY <1>1, <1>2, <1>3 DEF RegistersAre
<1>5. Z80Cpu(f, tmp) =
        [A |-> U8(f, tmp, 0), F |-> U8(f, tmp, 1), C |-> U8(f, tmp, 2), B |-> U8(f, tmp, 3),
         L |-> U8(f, tmp, 4), H |-> U8(f, tmp, 5), PC |-> U16(f, tmp, 6),
         SP |-> U16(f, tmp, 8), I |-> U8(f, tmp, 10), R |-> r, E |-> U8(f, tmp, 13),
         D |-> U8(f, tmp, 14), C_ |-> U8(f, tmp, 15), B_ |-> U8(f, tmp, 16),
         E_ |-> U8(f, tmp, 17), D_ |-> U8(f, tmp, 18), L_ |-> U8(f, tmp, 19),
         H_ |-> U8(f, tmp, 20), A_ |-> U8(f, tmp, 21), F_ |-> U8(f, tmp, 22),
         IY |-> U16(f, tmp, 23), IX |-> U16(f, tmp, 25),
         IFF1 |-> i1, IFF2 |-> i2, IM |-> im,
         modifier |-> FALSE, halted |-> FALSE, lock |-> FALSE]
  BY DEF Z80Cpu
<1> HIDE DEF r, i1, i2, im
<1>6. Z80Cpu(f, tmp) = Loaded(c, pc)
  BY <1>4, <1>5, LoadedIs DEF RegistersAre
<1> QED BY <1>1, <1>6

(***************************************************************************)
(* The head of a newer .z80 file.                                           *)
(***************************************************************************)
LockBit(page) == (page \div 32) % 2 = 1
IsAy(ay) == ay \in [sel : AyRegs, reg : [AyRegs -> R8]]

\* What a machine is, and one that can be saved.
Sound(mm) ==
  /\ IsMachine(mm)
  /\ mm.border \in 0..7 /\ mm.page \in R8 /\ IsAy(mm.ay)
  /\ mm.ram \in [1..(RamBanks(mm.model) * PageBytes) -> R8]
  /\ mm.model # "48K" => mm.locked = LockBit(mm.page)

Savable(mm) == Sound(mm) /\ mm.model \in {"48K", "128K"}

FlagsOf(c, border, k) == (c.R \div 128) + (2 * border) + k
FlagsAre(v, c, border, k) ==
  /\ v \in R8 /\ v < 255 /\ v % 2 = c.R \div 128 /\ (v \div 2) % 8 = border
  /\ k = 32 => (v \div 32) % 2 = 1
  /\ k = 0 => (v \div 32) % 2 = 0

LEMMA FlagsType ==
  ASSUME NEW c \in CpuState, NEW border \in 0..7, NEW k \in {0, 32}
  PROVE  FlagsAre(FlagsOf(c, border, k), c, border, k)
<1> DEFINE b == c.R \div 128
           v == FlagsOf(c, border, k)
<1>1. b \in 0..1
  <2>1. c.R \in Nat /\ c.R <= 255
    BY CpuFields, SMTT(30) DEF R8
  <2> QED BY <2>1
<1>2. v = b + (2 * border) + k
  BY DEF FlagsOf
<1> HIDE DEF b, v
<1>3. CASE k = 0
  <2> USE DEF FlagsAre
  <2>1. v \in R8 /\ v < 255
    BY <1>1, <1>2, <1>3 DEF R8
  <2>2. v % 2 = b /\ (v \div 2) % 8 = border /\ (v \div 32) % 2 = 0
    BY <1>1, <1>2, <1>3
  <2> QED BY <1>3, <2>1, <2>2 DEF b, v
<1>4. CASE k = 32
  <2> USE DEF FlagsAre
  <2>1. v \in R8 /\ v < 255
    BY <1>1, <1>2, <1>4 DEF R8
  <2>2. v % 2 = b /\ (v \div 2) % 8 = border /\ (v \div 32) % 2 = 1
    BY <1>1, <1>2, <1>4
  <2> QED BY <1>4, <2>1, <2>2 DEF b, v
<1> QED BY <1>3, <1>4

\* What is read of a file that begins with the head.
HeadIs(f, tmp, mm) ==
  /\ RegistersAre(f, tmp, mm.cpu, 0, Z80Flags(mm))
  /\ U16(f, tmp, 30) = 23 /\ U16(f, tmp, 32) = mm.cpu.PC
  /\ U8(f, tmp, 34) = HwNumber(mm.model) /\ U8(f, tmp, 35) = mm.page
  /\ U8(f, tmp, 38) = mm.ay.sel
  /\ \A r \in AyRegs : U8(f, tmp, 39 + r) = mm.ay.reg[r]

LEMMA HeadHeld ==
  ASSUME NEW f \in Seq(R8), NEW tmp, NEW mm, Savable(mm)
  PROVE  /\ Z80Head(mm) \in Seq(R8) /\ Len(Z80Head(mm)) = 55
         /\ Holds(f, 0, Z80Head(mm)) => HeadIs(f, tmp, mm)
<1> DEFINE hw == HwNumber(mm.model)
           t1 == Z80Registers(mm.cpu, 0, Z80Flags(mm))
           t2 == Le(23)
           t3 == Le(mm.cpu.PC)
           t4 == <<hw, mm.page, 0, 7, mm.ay.sel>>
           t5 == [i \in 1..16 |-> mm.ay.reg[i - 1]]
           s1 == t1 \o t2
           s2 == s1 \o t3
           s3 == s2 \o t4
           s4 == s3 \o t5
<1>1. s4 = Z80Head(mm)
  BY DEF Z80Head
<1>2. /\ mm.cpu \in CpuState /\ mm.page \in R8 /\ mm.border \in 0..7
      /\ mm.ay.sel \in AyRegs /\ mm.ay.reg \in [AyRegs -> R8] /\ mm.cpu.PC \in R16
  BY DEF Savable, Sound, IsMachine, IsAy, CpuState
<1>3. 0 \in R8 /\ 3 \in R8 /\ 7 \in R8 /\ 0 \in R16 /\ 23 \in R16 /\ AyRegs \subseteq R8
  BY DEF R8, R16, AyRegs
<1>4. Z80Flags(mm) \in R8
  <2>1. Z80Flags(mm) = (mm.cpu.R \div 128) + (2 * mm.border) + 32
    BY DEF Z80Flags
  <2> DEFINE k == 32
  <2>2. k \in {0, 32} /\ Z80Flags(mm) = FlagsOf(mm.cpu, mm.border, k)
    BY <2>1 DEF FlagsOf
  <2> HIDE DEF k
  <2>3. FlagsAre(FlagsOf(mm.cpu, mm.border, k), mm.cpu, mm.border, k)
    BY <1>2, <2>2, FlagsType
  <2> QED BY <2>2, <2>3 DEF FlagsAre
<1>5. /\ t1 \in Seq(R8) /\ Len(t1) = 30
      /\ Holds(f, 0, t1) => RegistersAre(f, tmp, mm.cpu, 0, Z80Flags(mm))
  <2> DEFINE z == 0
  <2>1. z \in R16
    BY <1>3
  <2> HIDE DEF z
  <2>2. /\ Z80Registers(mm.cpu, z, Z80Flags(mm)) \in Seq(R8)
        /\ Len(Z80Registers(mm.cpu, z, Z80Flags(mm))) = 30
        /\ Holds(f, 0, Z80Registers(mm.cpu, z, Z80Flags(mm)))
             => RegistersAre(f, tmp, mm.cpu, z, Z80Flags(mm))
    BY <1>2, <1>4, <2>1, RegistersHeld
  <2> QED BY <2>2 DEF z
<1>6. t2 \in Seq(R8) /\ Len(t2) = 2 /\ t3 \in Seq(R8) /\ Len(t3) = 2
  BY <1>2, <1>3, LeType
<1>7. /\ t4 \in Seq(R8) /\ Len(t4) = 5
      /\ t4[1] = hw /\ t4[2] = mm.page /\ t4[5] = mm.ay.sel
  <2>1. hw \in R8
    BY <1>3 DEF HwNumber
  <2> HIDE DEF hw
  <2> QED BY <1>2, <1>3, <2>1
<1>8. t5 \in Seq(R8) /\ Len(t5) = 16 /\ \A i \in 1..16 : t5[i] = mm.ay.reg[i - 1]
  <2>1. \A i \in 1..16 : i - 1 \in AyRegs
    BY DEF AyRegs
  <2> QED BY <1>2, <2>1
<1> HIDE DEF hw, t1, t2, t3, t4, t5, s1, s2, s3, s4
<1>9. s1 \in Seq(R8) /\ Len(s1) = 32
  <2>1. s1 \in Seq(R8) /\ Len(s1) = Len(t1) + Len(t2)
    BY <1>5, <1>6, ConcatType DEF s1
  <2> QED BY <1>5, <1>6, <2>1
<1>10. s2 \in Seq(R8) /\ Len(s2) = 34
  <2>1. s2 \in Seq(R8) /\ Len(s2) = Len(s1) + Len(t3)
    BY <1>6, <1>9, ConcatType DEF s2
  <2> QED BY <1>6, <1>9, <2>1
<1>11. s3 \in Seq(R8) /\ Len(s3) = 39
  <2>1. s3 \in Seq(R8) /\ Len(s3) = Len(s2) + Len(t4)
    BY <1>7, <1>10, ConcatType DEF s3
  <2> QED BY <1>7, <1>10, <2>1
<1>12. s4 \in Seq(R8) /\ Len(s4) = 55
  <2>1. s4 \in Seq(R8) /\ Len(s4) = Len(s3) + Len(t5)
    BY <1>8, <1>11, ConcatType DEF s4
  <2> QED BY <1>8, <1>11, <2>1
<1>13. ASSUME Holds(f, 0, s4) PROVE HeadIs(f, tmp, mm)
  <2>1. Holds(f, 0, s3) /\ Holds(f, 39, t5)
    BY <1>8, <1>11, <1>13, Peel, ZenonT(40) DEF s4
  <2>2. Holds(f, 0, s2) /\ Holds(f, 34, t4)
    BY <1>7, <1>10, <2>1, Peel DEF s3
  <2>3. Holds(f, 0, s1) /\ Holds(f, 32, t3)
    BY <1>6, <1>9, <2>2, Peel DEF s2
  <2>4. Holds(f, 0, t1) /\ Holds(f, 30, t2)
    BY <1>5, <1>6, <2>3, Peel DEF s1
  <2>5. U16(f, tmp, 30) = 23
    BY <1>3, <2>4, HeldWord DEF t2
  <2>6. U16(f, tmp, 32) = mm.cpu.PC
    BY <1>2, <2>3, HeldWord DEF t3
  <2>7. U8(f, tmp, 34) = hw /\ U8(f, tmp, 35) = mm.page /\ U8(f, tmp, 38) = mm.ay.sel
    <3>1. HeldAre(f, tmp, 34, t4)
      BY <1>7, <2>2, HeldBytes
    <3> QED BY <1>7, <3>1 DEF HeldAre
  <2>8. ASSUME NEW r \in AyRegs PROVE U8(f, tmp, 39 + r) = mm.ay.reg[r]
    <3> DEFINE j == r + 1
               q == 39 + r
               p == 39
    <3>1. IsAt(t5, p, j, q) /\ j \in 1..16 /\ j - 1 = r /\ p \in Nat
      BY <1>8 DEF IsAt, AyRegs
    <3>2. Holds(f, p, t5)
      BY <2>1
    <3> HIDE DEF j, q, p
    <3>4. t5 \in Seq(R8)
      BY <1>8
    <3>5. p \in Nat
      BY <3>1
    <3>6. IsAt(t5, p, j, q)
      BY <3>1
    <3>3. U8(f, tmp, q) = t5[j]
      BY <3>2, <3>4, <3>5, <3>6, HeldByte
    <3> QED BY <1>8, <3>1, <3>3 DEF q
  <2> QED BY <1>5, <2>4, <2>5, <2>6, <2>7, <2>8 DEF HeadIs, hw
<1> QED BY <1>1, <1>12, <1>13

(***************************************************************************)
(* How long a packed page is: no run takes more than twice its bytes.       *)
(***************************************************************************)
LEMMA CodedLength ==
  ASSUME NEW b \in R8, NEW cnt \in Nat
  PROVE  Len(Coded(b, cnt).bytes) <= 2 * cnt
<1>1. PICK g \in [0..cnt -> Codes] :
        /\ Coded(b, cnt) = g[cnt]
        /\ \A k \in 0..cnt :
             /\ WorthACode(b, k) =>
                  /\ g[k].bytes = <<Esc, Esc, NowOf(k), b>> \o g[k - NowOf(k)].bytes
                  /\ g[k].left = g[k - NowOf(k)].left
             /\ ~WorthACode(b, k) => g[k].bytes = Times(k, b) /\ g[k].left = k
  BY CodedIs
<1> DEFINE T == {k \in 0..cnt : ~(Len(g[k].bytes) <= 2 * k)}
<1>2. \A k : k \in T <=> k \in 0..cnt /\ ~(Len(g[k].bytes) <= 2 * k)
  OBVIOUS
<1>3. T \in SUBSET Nat
  OBVIOUS
<1>4. \A k \in 0..cnt : g[k].bytes \in Seq(R8)
  BY DEF Codes
<1> HIDE DEF T
<1>5. T = {}
  <2> SUFFICES ASSUME T # {} PROVE FALSE
    OBVIOUS
  <2>1. PICK k \in T : \A i \in T : k <= i
    BY <1>3, Least
  <2>2. k \in 0..cnt /\ ~(Len(g[k].bytes) <= 2 * k)
    BY <1>2
  <2>3. CASE WorthACode(b, k)
    <3> DEFINE now == NowOf(k)
               s == <<Esc, Esc, now, b>>
               t == g[k - now].bytes
    <3>1. now \in Nat /\ 2 <= now /\ now <= k /\ now <= MaxRep
      <4>1. k >= 2
        BY <2>2, <2>3 DEF WorthACode
      <4> QED BY <2>2, <4>1, EscIs DEF NowOf
    <3> HIDE DEF now
    <3>2. k - now \in 0..cnt /\ k - now < k
      BY <2>2, <3>1
    <3>3. k - now \notin T
      <4> DEFINE i == k - now
      <4>1. i \in Nat /\ ~(k <= i)
        BY <2>2, <3>1
      <4> HIDE DEF i
      <4>2. i \notin T
        BY <2>1, <4>1
      <4> QED BY <4>2 DEF i
    <3>4. t \in Seq(R8) /\ Len(t) <= 2 * (k - now)
      BY <1>2, <1>4, <3>2, <3>3
    <3>5. s \in Seq(R8) /\ Len(s) = 4
      <4>1. MaxRep <= 255
        BY RleAssumption
      <4>2. now \in R8 /\ Esc \in R8
        BY <3>1, <4>1, EscIs, R8Is
      <4> QED BY <4>2
    <3>6. g[k].bytes = s \o t
      BY <1>1, <2>2, <2>3 DEF now
    <3> HIDE DEF s, t
    <3>7. Len(g[k].bytes) = Len(s) + Len(t)
      BY <3>4, <3>5, <3>6, ConcatType
    <3> QED BY <2>2, <3>1, <3>4, <3>5, <3>7
  <2>4. CASE ~WorthACode(b, k)
    <3>0. k \in 0..cnt /\ k \in Nat
      BY <2>2
    <3>1. g[k].bytes = Times(k, b)
      BY <1>1, <2>4, <3>0, Zenon
    <3>2. Len(g[k].bytes) = k
      BY <3>0, <3>1, TimesType
    <3> QED BY <2>2, <3>0, <3>2
  <2> QED BY <2>3, <2>4
<1>6. cnt \in 0..cnt /\ cnt \notin T
  BY <1>5
<1> QED BY <1>1, <1>2, <1>6

LEMMA PackedLength ==
  ASSUME NEW page \in Seq(R8)
  PROVE  Packed(page) \in Seq(R8) /\ Len(Packed(page)) <= 2 * Len(page)
<1> DEFINE l == Len(page)
<1>0. l \in Nat /\ \A x \in Spots(page) : x[1] \in Nat /\ 1 <= x[1] /\ x[1] <= l + 1
  BY SpotParts
<1>1. PICK g : /\ Packed(page) = g[<<1, FALSE>>]
               /\ \A x \in Spots(page) :
                    /\ g[x] \in Seq(R8)
                    /\ x[1] > Len(page) => g[x] = <<>>
                    /\ ~(x[1] > Len(page)) =>
                         g[x] = CodeOf(page, x).bytes \o g[NextOf(page, x)]
  BY PackedIs
<1> DEFINE Long(x) == ~(Len(g[x]) <= 2 * (l + 1 - x[1]))
           T == {k \in Nat : \E x \in Spots(page) : l + 1 - x[1] = k /\ Long(x)}
<1>2. \A k : k \in T <=> k \in Nat /\ \E x \in Spots(page) : l + 1 - x[1] = k /\ Long(x)
  OBVIOUS
<1>3. T \in SUBSET Nat
  OBVIOUS
<1> HIDE DEF T
<1>4. T = {}
  <2> SUFFICES ASSUME T # {} PROVE FALSE
    OBVIOUS
  <2>1. PICK k \in T : \A i \in T : k <= i
    BY <1>3, Least
  <2>2. PICK x \in Spots(page) : l + 1 - x[1] = k /\ Long(x)
    BY <1>2
  <2>3. CASE x[1] > l
    <3>1. g[x] = <<>>
      BY <1>1, <2>3
    <3>2. Len(g[x]) = 0
      BY <3>1
    <3> HIDE DEF l
    <3> QED BY <1>0, <2>2, <3>2
  <2>4. CASE ~(x[1] > l)
    <3> DEFINE y == NextOf(page, x)
               c == CntOf(page, x)
               s == CodeOf(page, x).bytes
               t == g[y]
               i == l + 1 - y[1]
    <3>1. y \in Spots(page) /\ y[1] = x[1] + c /\ c \in Nat /\ 1 <= c
      BY <2>4, NextIs, CntIs
    <3>2. s \in Seq(R8) /\ Len(s) <= 2 * c
      <4>1. page[x[1]] \in R8 /\ c \in Nat
        BY <2>4, CntIs
      <4> HIDE DEF c
      <4>2. Len(Coded(page[x[1]], c).bytes) <= 2 * c
        BY <4>1, CodedLength
      <4>3. s \in Seq(R8)
        BY <2>4, CntIs
      <4> QED BY <4>2, <4>3 DEF CodeOf, c
    <3>3. t \in Seq(R8) /\ g[x] = s \o t
      BY <1>1, <2>4, <3>1
    <3> HIDE DEF y, c, s, l
    <3>4. i \in Nat /\ ~(k <= i)
      <4>1. x[1] \in Nat /\ y[1] \in Nat /\ y[1] <= l + 1 /\ l + 1 - x[1] = k
        BY <1>0, <2>2, <3>1
      <4> QED BY <1>0, <3>1, <4>1, SMTT(30)
    <3> HIDE DEF i
    <3>5. i \notin T
      BY <2>1, <3>4
    <3>6. Len(t) <= 2 * i
      BY <1>2, <3>1, <3>4, <3>5 DEF i
    <3> HIDE DEF t
    <3>7. Len(g[x]) = Len(s) + Len(t) /\ Len(s) \in Nat /\ Len(t) \in Nat
      BY <3>2, <3>3, ConcatType
    <3>8. i = k - c
      BY <1>0, <2>2, <3>1 DEF i
    <3>9. k \in Nat
      BY <1>2
    <3> QED BY <2>2, <3>1, <3>2, <3>6, <3>7, <3>8, <3>9
  <2> QED BY <2>3, <2>4
<1> DEFINE i == 1
           r == FALSE
           x == <<i, r>>
<1>5. x \in Spots(page) /\ x[1] = i
  <2>1. i \in Nat /\ r \in BOOLEAN /\ 1 <= i /\ i <= Len(page) + 1
    OBVIOUS
  <2> HIDE DEF i, r
  <2> QED BY <2>1, SpotParts
<1>6. Packed(page) = g[x] /\ g[x] \in Seq(R8)
  BY <1>1, <1>5
<1>7. l + 1 - x[1] = l
  BY <1>0, <1>5
<1> HIDE DEF x, l
<1>8. l \notin T
  BY <1>4
<1>9. Len(g[x]) <= 2 * l
  BY <1>0, <1>2, <1>5, <1>7, <1>8
<1> QED BY <1>6, <1>9 DEF l

(***************************************************************************)
(* Parts of a file one after the other.                                     *)
(***************************************************************************)
FlatStep(s, g, i) == IF i = 1 THEN s[i] ELSE g[i - 1] \o s[i]
IsFlat(s, g) == g = [i \in 1..Len(s) |-> FlatStep(s, g, i)]

LEMMA FlatExists ==
  ASSUME NEW s \in Seq(Seq(R8))
  PROVE  \E g \in [1..Len(s) -> Seq(R8)] : IsFlat(s, g)
<1> DEFINE S == 1..Len(s)
           V == Seq(R8)
           mu == [i \in S |-> i]
           F == [i \in S |-> [g \in [S -> V] |-> FlatStep(s, g, i)]]
<1>0. Len(s) \in Nat /\ \A i \in S : i \in Nat /\ s[i] \in V /\ (i # 1 => i - 1 \in S /\ i - 1 < i)
  OBVIOUS
<1>1. mu \in [S -> Nat]
  BY <1>0
<1>2. \A i \in S : \A g \in [S -> V] : F[i][g] = FlatStep(s, g, i)
  OBVIOUS
<1>3. V # {}
  <2>1. <<>> \in V
    OBVIOUS
  <2> QED BY <2>1
<1>4. F \in [S -> [[S -> V] -> V]]
  <2>1. ASSUME NEW i \in S, NEW g \in [S -> V] PROVE FlatStep(s, g, i) \in V
    <3>1. CASE i = 1
      BY <1>0, <3>1 DEF FlatStep
    <3>2. CASE i # 1
      <4>1. g[i - 1] \in V /\ s[i] \in V
        BY <1>0, <3>2
      <4> QED BY <3>2, <4>1, ConcatType DEF FlatStep
    <3> QED BY <3>1, <3>2
  <2> QED BY <2>1
<1>5. \A i \in S : mu[i] = i
  OBVIOUS
<1> HIDE DEF V, mu, F, S
<1>6. ASSUME NEW i \in S, NEW g \in [S -> V], NEW h \in [S -> V],
             \A j \in S : mu[j] < mu[i] => g[j] = h[j]
      PROVE  F[i][g] = F[i][h]
  <2>1. CASE i = 1
    BY <1>2, <2>1 DEF FlatStep
  <2>2. CASE i # 1
    <3>1. g[i - 1] = h[i - 1]
      BY <1>0, <1>5, <1>6, <2>2
    <3> QED BY <1>2, <2>2, <3>1 DEF FlatStep
  <2> QED BY <2>1, <2>2
<1>7. Descends(S, V, F, mu)
  BY <1>1, <1>3, <1>4, <1>6 DEF Descends
<1>8. PICK g \in [S -> V] : \A i \in S : g[i] = F[i][g]
  BY <1>7, Recursion
<1>9. g = [i \in S |-> FlatStep(s, g, i)]
  <2>1. g = [i \in S |-> g[i]] /\ \A i \in S : g[i] = FlatStep(s, g, i)
    BY <1>2, <1>8
  <2> QED BY <2>1
<1> QED BY <1>9 DEF IsFlat, S, V

LEMMA FlattenIs ==
  ASSUME NEW s \in Seq(Seq(R8)), Len(s) > 0
  PROVE  \E g : /\ FlattenSeq(s) = g[Len(s)]
                /\ \A i \in 1..Len(s) :
                     /\ g[i] \in Seq(R8)
                     /\ i = 1 => g[i] = s[i]
                     /\ i # 1 => g[i] = g[i - 1] \o s[i]
<1> DEFINE g == CHOOSE h : IsFlat(s, h)
           n == Len(s)
<1>1. IsFlat(s, g)
  BY FlatExists
<1>2. FlattenSeq(s) = g[Len(s)]
  <2>1. Len(s) # 0
    OBVIOUS
  <2> QED BY <2>1 DEF FlattenSeq, IsFlat, FlatStep
<1> HIDE DEF g
<1>3. \A i \in 1..n : g[i] = FlatStep(s, g, i)
  BY <1>1 DEF IsFlat
<1>4. \A i \in 1..n : (i = 1 => g[i] = s[i]) /\ (i # 1 => g[i] = g[i - 1] \o s[i])
  BY <1>3 DEF FlatStep
<1>5. n \in Nat /\ \A i \in 1..n : s[i] \in Seq(R8)
  OBVIOUS
<1> DEFINE T == {i \in 1..n : g[i] \notin Seq(R8)}
<1>6. \A i : i \in T <=> i \in 1..n /\ g[i] \notin Seq(R8)
  OBVIOUS
<1>7. T \in SUBSET Nat
  OBVIOUS
<1> HIDE DEF T, n
<1>8. T = {}
  <2> SUFFICES ASSUME T # {} PROVE FALSE
    OBVIOUS
  <2>1. PICK i \in T : \A j \in T : i <= j
    BY <1>7, Least
  <2>2. i \in 1..n /\ g[i] \notin Seq(R8)
    BY <1>6
  <2>3. i # 1
    BY <1>4, <1>5, <2>2
  <2> DEFINE j == i - 1
  <2>4. j \in 1..n /\ ~(i <= j)
    BY <1>5, <2>2, <2>3
  <2>5. g[i] = g[j] \o s[i]
    BY <1>4, <2>2, <2>3
  <2> HIDE DEF j
  <2>6. g[j] \in Seq(R8)
    BY <1>6, <2>1, <2>4
  <2> QED BY <1>5, <2>2, <2>5, <2>6, ConcatType
<1> QED BY <1>2, <1>4, <1>6, <1>8 DEF n

\* Each part is held at its place.
Laid(f, p, s, at) ==
  /\ at \in [1..(Len(s) + 1) -> Nat] /\ at[1] = p
  /\ \A i \in 1..Len(s) : Holds(f, at[i], s[i]) /\ at[i + 1] = at[i] + Len(s[i])

LEMMA PartsLaid ==
  ASSUME NEW f \in Seq(R8), NEW p \in Nat, NEW s \in Seq(Seq(R8)), Len(s) > 0,
         Holds(f, p, FlattenSeq(s))
  PROVE  \E at : Laid(f, p, s, at) /\ at[Len(s) + 1] = p + Len(FlattenSeq(s))
<1> DEFINE n == Len(s)
<1>1. PICK g : /\ FlattenSeq(s) = g[n]
               /\ \A i \in 1..n : /\ g[i] \in Seq(R8)
                                  /\ i = 1 => g[i] = s[i]
                                  /\ i # 1 => g[i] = g[i - 1] \o s[i]
  BY FlattenIs
<1>2. n \in Nat /\ n > 0 /\ \A i \in 1..n : s[i] \in Seq(R8) /\ Len(s[i]) \in Nat
  OBVIOUS
<1> HIDE DEF n
<1>3. ASSUME NEW i \in 1..n, i # 1, Holds(f, p, g[i])
      PROVE  /\ Holds(f, p, g[i - 1]) /\ Holds(f, p + Len(g[i - 1]), s[i])
             /\ Len(g[i]) = Len(g[i - 1]) + Len(s[i])
  <2> DEFINE a == g[i - 1]
             b == s[i]
             q == p + Len(a)
  <2>1. i - 1 \in 1..n
    BY <1>2, <1>3
  <2>2. a \in Seq(R8) /\ b \in Seq(R8) /\ g[i] = a \o b
    BY <1>1, <1>2, <1>3, <2>1
  <2> HIDE DEF a, b
  <2>3. Holds(f, p, a \o b)
    BY <1>3, <2>2
  <2>4. q = p + Len(a)
    OBVIOUS
  <2> HIDE DEF q
  <2>5. Holds(f, p, a) /\ Holds(f, q, b) /\ Len(a \o b) = Len(a) + Len(b)
    BY <2>2, <2>3, <2>4, HoldsParts
  <2> QED BY <2>2, <2>5 DEF a, b, q
<1> DEFINE T == {k \in Nat : k < n /\ ~Holds(f, p, g[n - k])}
<1>4. \A k : k \in T <=> k \in Nat /\ k < n /\ ~Holds(f, p, g[n - k])
  OBVIOUS
<1>5. T \in SUBSET Nat
  OBVIOUS
<1> HIDE DEF T
<1>6. T = {}
  <2> SUFFICES ASSUME T # {} PROVE FALSE
    OBVIOUS
  <2>1. PICK k \in T : \A j \in T : k <= j
    BY <1>5, Least
  <2>2. k \in Nat /\ k < n /\ ~Holds(f, p, g[n - k])
    BY <1>4
  <2>3. k # 0
    <3>1. n - 0 = n
      BY <1>2
    <3> QED BY <1>1, <2>2, <3>1
  <2> DEFINE j == k - 1
             i == n - j
  <2>4. j \in Nat /\ j < n /\ ~(k <= j) /\ i \in 1..n /\ i # 1 /\ i - 1 = n - k
    BY <1>2, <2>2, <2>3
  <2>5. i = n - j
    OBVIOUS
  <2> HIDE DEF j, i
  <2>6. j \notin T
    BY <2>1, <2>4
  <2>7. Holds(f, p, g[i])
    BY <1>4, <2>4, <2>5, <2>6
  <2>8. Holds(f, p, g[i - 1])
    BY <1>3, <2>4, <2>7
  <2> QED BY <2>2, <2>4, <2>8
<1>7. ASSUME NEW i \in 1..n PROVE Holds(f, p, g[i])
  <2> DEFINE k == n - i
  <2>1. k \in Nat /\ k < n /\ n - k = i
    BY <1>2
  <2> HIDE DEF k
  <2> QED BY <1>4, <1>6, <2>1
<1> DEFINE at == [i \in 1..(n + 1) |-> IF i = 1 THEN p ELSE p + Len(g[i - 1])]
<1>8. at \in [1..(n + 1) -> Nat] /\ at[1] = p
  <2>1. \A i \in 1..(n + 1) : i # 1 => i - 1 \in 1..n
    BY <1>2
  <2>2. \A i \in 1..n : Len(g[i]) \in Nat
    BY <1>1
  <2>3. \A i \in 1..(n + 1) : i # 1 => p + Len(g[i - 1]) \in Nat
    BY <2>1, <2>2
  <2>4. 1 \in 1..(n + 1)
    BY <1>2
  <2> QED BY <2>3, <2>4
<1>9. ASSUME NEW i \in 1..n PROVE Holds(f, at[i], s[i]) /\ at[i + 1] = at[i] + Len(s[i])
  <2>1. i \in 1..(n + 1) /\ i + 1 \in 1..(n + 1) /\ i + 1 # 1 /\ i + 1 - 1 = i
    BY <1>2
  <2>2. at[i + 1] = p + Len(g[i])
    BY <2>1
  <2>3. CASE i = 1
    <3>1. at[i] = p /\ g[i] = s[i]
      BY <1>1, <2>1, <2>3
    <3> QED BY <1>7, <2>2, <3>1
  <2>4. CASE i # 1
    <3>1. at[i] = p + Len(g[i - 1])
      BY <2>1, <2>4
    <3>2. i - 1 \in 1..n
      BY <1>2, <2>4
    <3>3. Len(g[i - 1]) \in Nat /\ Len(s[i]) \in Nat
      BY <1>1, <1>2, <3>2
    <3> HIDE DEF at
    <3>4. /\ Holds(f, p + Len(g[i - 1]), s[i])
          /\ Len(g[i]) = Len(g[i - 1]) + Len(s[i])
      BY <1>3, <1>7, <2>4
    <3> DEFINE a == Len(g[i - 1])
               b == Len(s[i])
    <3>8. a \in Nat /\ b \in Nat
      BY <3>3
    <3>6. at[i + 1] = p + (a + b) /\ at[i] = p + a
      BY <2>2, <3>1, <3>4
    <3> HIDE DEF a, b
    <3>5. p + (a + b) = (p + a) + b
      BY <3>8
    <3>7. Holds(f, at[i], s[i])
      BY <3>1, <3>4
    <3> QED BY <3>5, <3>6, <3>7 DEF b
  <2> QED BY <2>3, <2>4
<1>10. at[n + 1] = p + Len(FlattenSeq(s))
  <2> DEFINE end == n + 1
  <2>1. end \in 1..(n + 1) /\ end # 1 /\ end - 1 = n
    BY <1>2
  <2> HIDE DEF end
  <2>3. at[end] = p + Len(g[n])
    BY <2>1
  <2> HIDE DEF at
  <2>2. at[n + 1] = p + Len(g[n])
    BY <2>3 DEF end
  <2> QED BY <1>1, <2>2
<1> HIDE DEF at
<1> QED BY <1>8, <1>9, <1>10 DEF Laid, n

LEMMA FlattenType ==
  ASSUME NEW s \in Seq(Seq(R8)), Len(s) > 0
  PROVE  FlattenSeq(s) \in Seq(R8)
<1>1. Len(s) \in 1..Len(s)
  OBVIOUS
<1> QED BY <1>1, FlattenIs

(***************************************************************************)
(* The banks of the RAM.                                                    *)
(***************************************************************************)
Size(n) == n * PageBytes
IsRam(ram, n) == ram \in [1..Size(n) -> R8]
InBank(k, b) == Size(b) < k /\ k <= Size(b) + PageBytes

\* The RAM in which the banks of a set are the new ones.
Mixed(n, banks, old, new) ==
  [k \in 1..Size(n) |-> IF \E b \in banks : InBank(k, b) THEN new[k] ELSE old[k]]

LEMMA PageBytesIs == PageBytes \in Nat /\ 2 <= PageBytes /\ PageBytes <= 16384
BY RleAssumption

LEMMA SizeIs ==
  /\ \A n \in 0..8 : Size(n) \in Nat /\ Size(n + 1) = Size(n) + PageBytes
  /\ \A n \in 0..8 : \A b \in 0..8 : b < n => Size(b) + PageBytes <= Size(n)
  /\ \A n \in 0..8 : \A k \in 1..Size(n) : \E b \in 0..8 : b < n /\ InBank(k, b)
<1>0. PageBytes \in Nat /\ PageBytes > 0
  BY PageBytesIs
<1>1. /\ Size(0) = 0 /\ Size(1) = PageBytes /\ Size(2) = 2 * PageBytes
      /\ Size(3) = 3 * PageBytes /\ Size(4) = 4 * PageBytes /\ Size(5) = 5 * PageBytes
      /\ Size(6) = 6 * PageBytes /\ Size(7) = 7 * PageBytes /\ Size(8) = 8 * PageBytes
      /\ Size(9) = 9 * PageBytes
  BY <1>0 DEF Size
<1>2. ASSUME NEW n \in 0..8 PROVE Size(n) \in Nat /\ Size(n + 1) = Size(n) + PageBytes
  <2>1. n \in {0, 1, 2, 3, 4, 5, 6, 7, 8}
    OBVIOUS
  <2> QED BY <1>0, <1>1, <2>1
<1>3. ASSUME NEW n \in 0..8, NEW b \in 0..8, b < n PROVE Size(b) + PageBytes <= Size(n)
  <2>1. n \in {0, 1, 2, 3, 4, 5, 6, 7, 8} /\ b \in {0, 1, 2, 3, 4, 5, 6, 7, 8}
    OBVIOUS
  <2> QED BY <1>0, <1>1, <1>3, <2>1
<1>4. ASSUME NEW n \in 0..8, NEW k \in 1..Size(n)
      PROVE  \E b \in 0..8 : b < n /\ InBank(k, b)
  <2> DEFINE T == {x \in 0..8 : k <= Size(x)}
  <2>1. n \in T /\ T \in SUBSET Nat
    OBVIOUS
  <2>2. PICK x \in T : \A y \in T : x <= y
    <3> HIDE DEF T
    <3> QED BY <2>1, Least
  <2>3. x \in 0..8 /\ k <= Size(x) /\ x <= n /\ k \in Nat /\ k > 0
    BY <1>2, <2>1, <2>2
  <2>4. x # 0
    BY <1>1, <2>3
  <2> DEFINE b == x - 1
  <2>5. b \in 0..8 /\ b < n /\ ~(x <= b) /\ b + 1 = x
    BY <2>3, <2>4
  <2> HIDE DEF b
  <2>6. b \notin T
    BY <2>2, <2>5
  <2>7. ~(k <= Size(b)) /\ Size(b) \in Nat /\ Size(x) = Size(b) + PageBytes
    BY <1>2, <2>5, <2>6
  <2>8. InBank(k, b)
    BY <2>3, <2>7 DEF InBank
  <2> QED BY <2>5, <2>8
<1> QED BY <1>2, <1>3, <1>4

LEMMA RamIs ==
  ASSUME NEW n \in 0..8, NEW ram, IsRam(ram, n)
  PROVE  ram \in Seq(R8) /\ Len(ram) = Size(n) /\ DOMAIN ram = 1..Size(n)
<1>1. Size(n) \in Nat
  BY SizeIs
<1> DEFINE l == Size(n)
<1> HIDE DEF l
<1>2. l \in Nat /\ ram \in [1..l -> R8]
  BY <1>1 DEF l, IsRam
<1>3. ram \in Seq(R8) /\ Len(ram) = l /\ DOMAIN ram = 1..l
  BY <1>2
<1> QED BY <1>3 DEF l

LEMMA BankIs ==
  ASSUME NEW n \in 0..8, NEW ram, IsRam(ram, n), NEW b \in 0..8, b < n
  PROVE  /\ Bank(ram, b) \in Seq(R8) /\ Len(Bank(ram, b)) = PageBytes
         /\ \A j \in 1..PageBytes : Bank(ram, b)[j] = ram[Size(b) + j]
<1> DEFINE x == Size(b) + 1
           y == Size(b) + PageBytes
           l == Size(n)
<1>1. /\ Size(b) \in Nat /\ Size(b + 1) = y /\ y <= l /\ l \in Nat
      /\ PageBytes \in Nat /\ PageBytes > 0
  BY SizeIs, PageBytesIs
<1>2. ram \in Seq(R8) /\ Len(ram) = l
  BY RamIs
<1>3. x \in Nat /\ y \in Nat /\ 1 <= x /\ x <= y + 1 /\ y - x + 1 = PageBytes
  BY <1>1
<1>4. Bank(ram, b) = SubSeq(ram, x, y)
  BY <1>1 DEF Bank, Size
<1>5. \A j \in 1..PageBytes : x + j - 1 = Size(b) + j
  BY <1>1
<1> HIDE DEF x, y, l
<1>6. /\ SubSeq(ram, x, y) \in Seq(R8) /\ Len(SubSeq(ram, x, y)) = y - x + 1
      /\ \A j \in 1..(y - x + 1) : SubSeq(ram, x, y)[j] = ram[x + j - 1]
  BY <1>1, <1>2, <1>3
<1> QED BY <1>3, <1>4, <1>5, <1>6

LEMMA MixedType ==
  ASSUME NEW n, NEW old, NEW new, NEW banks, IsRam(old, n), IsRam(new, n)
  PROVE  IsRam(Mixed(n, banks, old, new), n)
BY DEF Mixed, IsRam

Covers(n, banks) == \A b \in 0..8 : b < n => b \in banks

LEMMA MixedNone ==
  ASSUME NEW n, NEW old, NEW new, IsRam(old, n)
  PROVE  Mixed(n, {}, old, new) = old
BY DEF Mixed, IsRam

LEMMA MixedAll ==
  ASSUME NEW n \in 0..8, NEW old, NEW new, IsRam(new, n), NEW banks, Covers(n, banks)
  PROVE  Mixed(n, banks, old, new) = new
<1>1. \A k \in 1..Size(n) : \E b \in banks : InBank(k, b)
  BY SizeIs DEF Covers
<1> QED BY <1>1 DEF Mixed, IsRam

\* Storing a bank.
BankIsStored(n, banks, old, new, b) ==
  /\ Stored(Mixed(n, banks, old, new), Size(b), Bank(new, b))
       = Mixed(n, banks \cup {b}, old, new)
  /\ ~Overruns(Mixed(n, banks, old, new), Size(b), Bank(new, b))

LEMMA BankStored ==
  ASSUME NEW n \in 0..8, NEW old, NEW new, IsRam(old, n), IsRam(new, n), NEW banks,
         NEW b \in 0..8, b < n
  PROVE  BankIsStored(n, banks, old, new, b)
<1> DEFINE ram == Mixed(n, banks, old, new)
           page == Bank(new, b)
           at == Size(b)
           more == Mixed(n, banks \cup {b}, old, new)
<1>1. IsRam(ram, n)
  BY MixedType
<1>2. /\ page \in Seq(R8) /\ Len(page) = PageBytes /\ DOMAIN page = 1..PageBytes
      /\ \A j \in 1..PageBytes : page[j] = new[at + j]
  <2>1. page \in Seq(R8) /\ Len(page) = PageBytes
        /\ \A j \in 1..PageBytes : page[j] = new[at + j]
    BY BankIs
  <2> HIDE DEF page, at
  <2>2. DOMAIN page = 1..PageBytes
    BY <2>1
  <2> QED BY <2>1, <2>2
<1>3. /\ at \in Nat /\ PageBytes \in Nat /\ Size(n) \in Nat
      /\ at + PageBytes <= Size(n) /\ DOMAIN ram = 1..Size(n) /\ Len(ram) = Size(n)
  <2>1. /\ at \in Nat /\ PageBytes \in Nat /\ Size(n) \in Nat
        /\ at + PageBytes <= Size(n)
    BY SizeIs, PageBytesIs
  <2> HIDE DEF ram
  <2>2. DOMAIN ram = 1..Size(n) /\ Len(ram) = Size(n)
    BY <1>1, RamIs
  <2> QED BY <2>1, <2>2
<1>4. \A k \in 1..Size(n) :
        /\ ram[k] = IF \E c \in banks : InBank(k, c) THEN new[k] ELSE old[k]
        /\ more[k] = IF InBank(k, b) \/ \E c \in banks : InBank(k, c) THEN new[k] ELSE old[k]
  BY DEF Mixed
<1>5. more = [k \in 1..Size(n) |-> more[k]]
  BY DEF Mixed
<1> HIDE DEF ram, page, more
<1>6. ASSUME NEW k \in 1..Size(n)
      PROVE  (IF k - at \in DOMAIN page THEN page[k - at] ELSE ram[k]) = more[k]
  <2>1. CASE InBank(k, b)
    <3>1. k - at \in 1..PageBytes /\ at + (k - at) = k
      BY <1>3, <2>1 DEF InBank
    <3>2. page[k - at] = new[k]
      BY <1>2, <3>1
    <3> QED BY <1>2, <1>4, <2>1, <3>1, <3>2
  <2>2. CASE ~InBank(k, b)
    <3>1. k - at \notin 1..PageBytes
      BY <1>3, <2>2 DEF InBank
    <3> QED BY <1>2, <1>4, <2>2, <3>1
  <2> QED BY <2>1, <2>2
<1>7. Stored(ram, at, page) = more
  BY <1>3, <1>5, <1>6 DEF Stored
<1>8. ~Overruns(ram, at, page)
  BY <1>2, <1>3 DEF Overruns
<1> QED BY <1>7, <1>8 DEF ram, page, at, more, BankIsStored

(***************************************************************************)
(* The pages of a newer .z80 file.                                          *)
(***************************************************************************)
Number(order, i) == order[i][2]
BankAt(order, i) == order[i][1]

\* Every bank is in the order once, under a number that stands for it.
IsOrder(model, n, order) ==
  /\ n \in 1..8 /\ n = RamBanks(model) /\ Len(order) = n /\ DOMAIN order = 1..n
  /\ \A i \in 1..n : /\ BankAt(order, i) \in 0..8 /\ BankAt(order, i) < n
                     /\ Number(order, i) \in R8
                     /\ BankOfPage(model, Number(order, i)) = BankAt(order, i)
  /\ \A b \in 0..8 : b < n => \E i \in 1..n : BankAt(order, i) = b

LEMMA OrderIs ==
  ASSUME NEW model \in {"48K", "128K"}
  PROVE  IsOrder(model, RamBanks(model), PageOrder(model))
<1> DEFINE n == RamBanks(model)
           order == PageOrder(model)
<1>1. CASE model = "48K"
  <2>1. n = 3 /\ order = <<<<1, 4>>, <<2, 5>>, <<0, 8>>>>
    BY <1>1 DEF RamBanks, PageOrder
  <2> HIDE DEF n, order
  <2>2. /\ n \in 1..8 /\ Len(order) = n /\ DOMAIN order = 1..n
    BY <2>1
  <2>3. /\ BankAt(order, 1) = 1 /\ Number(order, 1) = 4
        /\ BankAt(order, 2) = 2 /\ Number(order, 2) = 5
        /\ BankAt(order, 3) = 0 /\ Number(order, 3) = 8
    BY <2>1 DEF BankAt, Number
  <2>4. /\ BankOfPage(model, 4) = 1 /\ BankOfPage(model, 5) = 2 /\ BankOfPage(model, 8) = 0
    BY <1>1 DEF BankOfPage
  <2>5. \A i \in 1..n : i \in {1, 2, 3}
    BY <2>1
  <2>6. /\ 4 \in R8 /\ 5 \in R8 /\ 8 \in R8
    BY DEF R8
  <2>7. \A i \in 1..n : /\ BankAt(order, i) \in 0..8 /\ BankAt(order, i) < n
                        /\ Number(order, i) \in R8
                        /\ BankOfPage(model, Number(order, i)) = BankAt(order, i)
    BY <2>1, <2>3, <2>4, <2>5, <2>6
  <2>8. \A b \in 0..8 : b < n => \E i \in 1..n : BankAt(order, i) = b
    <3>1. 1 \in 1..n /\ 2 \in 1..n /\ 3 \in 1..n
      BY <2>1
    <3>2. \A b \in 0..8 : b < n => b \in {0, 1, 2}
      BY <2>1
    <3> QED BY <2>3, <3>1, <3>2
  <2> QED BY <2>2, <2>7, <2>8 DEF IsOrder, n, order
<1>2. CASE model = "128K"
  <2>1. n = 8 /\ order = [i \in 1..8 |-> <<i - 1, i + 2>>]
    BY <1>2 DEF RamBanks, PageOrder
  <2> HIDE DEF n, order
  <2>2. /\ n \in 1..8 /\ Len(order) = n /\ DOMAIN order = 1..n
    BY <2>1
  <2>3. \A i \in 1..n : BankAt(order, i) = i - 1 /\ Number(order, i) = i + 2
    BY <2>1 DEF BankAt, Number
  <2>4. \A i \in 1..n : /\ i - 1 \in 0..8 /\ i - 1 < n /\ i + 2 \in R8
                        /\ BankOfPage(model, i + 2) = i - 1
    BY <1>2, <2>1 DEF BankOfPage, R8
  <2>5. \A b \in 0..8 : b < n => \E i \in 1..n : BankAt(order, i) = b
    <3>1. \A b \in 0..8 : b < n => b + 1 \in 1..n /\ b + 1 - 1 = b
      BY <2>1
    <3> QED BY <2>3, <3>1
  <2> QED BY <2>2, <2>3, <2>4, <2>5 DEF IsOrder, n, order
<1> QED BY <1>1, <1>2

\* One page: its length, its number and its bytes.
PageIs(f, tmp, p, ram, b, number) ==
  LET data == Packed(Bank(ram, b)) IN
  /\ WritePage(ram, b, number) \in Seq(R8)
  /\ data \in Seq(R8)
  /\ Len(WritePage(ram, b, number)) = 3 + Len(data)
  /\ Holds(f, p, WritePage(ram, b, number)) =>
       /\ U16(f, tmp, p) = Len(data) /\ U8(f, tmp, p) = Len(data) % 256
       /\ U8(f, tmp, p + 2) = number
       /\ Holds(f, p + 3, data)

LEMMA PageHeld ==
  ASSUME NEW f \in Seq(R8), NEW tmp, NEW p \in Nat, NEW ram, NEW n \in 0..8, IsRam(ram, n),
         NEW b \in 0..8, b < n, NEW number \in R8
  PROVE  PageIs(f, tmp, p, ram, b, number)
<1> DEFINE data == Packed(Bank(ram, b))
           l == Len(data)
           t1 == Le(l)
           t2 == <<number>>
           s1 == t1 \o t2
           s2 == s1 \o data
<1>1. s2 = WritePage(ram, b, number)
  BY SMTT(30) DEF WritePage
<1>2. data \in Seq(R8) /\ l \in R16
  <2>1. Bank(ram, b) \in Seq(R8) /\ Len(Bank(ram, b)) = PageBytes
    BY BankIs
  <2>2. data \in Seq(R8) /\ l <= 2 * PageBytes
    BY <2>1, PackedLength
  <2>3. l \in Nat
    BY <2>2
  <2> HIDE DEF l
  <2> QED BY <2>2, <2>3, PageBytesIs, SMTT(30) DEF R16
<1>3. t1 \in Seq(R8) /\ Len(t1) = 2
  BY <1>2, LeType
<1>4. t2 \in Seq(R8) /\ Len(t2) = 1 /\ t2[1] = number
  OBVIOUS
<1>5. l = Len(data)
  OBVIOUS
<1>6. l \in Nat
  BY <1>2
<1> HIDE DEF data, l, t1, t2, s1, s2
<1>7. s1 \in Seq(R8) /\ Len(s1) = 3
  <2>1. s1 \in Seq(R8) /\ Len(s1) = Len(t1) + Len(t2)
    BY <1>3, <1>4, ConcatType DEF s1
  <2> QED BY <1>3, <1>4, <2>1
<1>8. s2 \in Seq(R8) /\ Len(s2) = 3 + l
  <2>1. s2 \in Seq(R8) /\ Len(s2) = Len(s1) + Len(data)
    BY <1>2, <1>7, ConcatType DEF s2
  <2> QED BY <1>5, <1>7, <2>1
<1>9. ASSUME Holds(f, p, s2)
      PROVE  /\ U16(f, tmp, p) = l /\ U8(f, tmp, p) = l % 256 /\ U8(f, tmp, p + 2) = number
             /\ Holds(f, p + 3, data)
  <2> DEFINE q == p + 2
             r == p + 3
  <2>0. q \in Nat /\ r \in Nat /\ q = p + Len(t1) /\ r = p + Len(s1)
    BY <1>3, <1>7
  <2> HIDE DEF q, r
  <2>1. Holds(f, p, s1) /\ Holds(f, r, data)
    BY <1>2, <1>7, <1>9, <2>0, HoldsParts DEF s2
  <2>2. Holds(f, p, t1) /\ Holds(f, q, t2)
    BY <1>3, <1>4, <2>0, <2>1, HoldsParts DEF s1
  <2>3. U16(f, tmp, p) = l /\ U8(f, tmp, p) = l % 256
    BY <1>2, <2>2, HeldWord DEF t1
  <2>4. HeldAre(f, tmp, q, t2)
    BY <1>4, <2>0, <2>2, HeldBytes
  <2>5. U8(f, tmp, q) = number
    BY <1>4, <2>4 DEF HeldAre
  <2> QED BY <2>1, <2>3, <2>5 DEF q, r
<1> QED BY <1>1, <1>2, <1>5, <1>8, <1>9 DEF data, PageIs

\* The machine with another RAM.
WithRam(mm, ram) == [mm EXCEPT !.ram = ram]
HasRam(mm) == IsFunction(mm) /\ {"model", "ram"} \subseteq DOMAIN mm

LEMMA WithRamIs ==
  ASSUME NEW mm, HasRam(mm), NEW ram
  PROVE  /\ WithRam(mm, ram).ram = ram /\ WithRam(mm, ram).model = mm.model
         /\ \A s : WithRam(WithRam(mm, ram), s) = WithRam(mm, s)
         /\ WithRam(mm, mm.ram) = mm
<1>1. IsFunction(mm) /\ {"model", "ram"} \subseteq DOMAIN mm
  BY DEF HasRam
<1>2. WithRam(mm, ram).ram = ram /\ WithRam(mm, ram).model = mm.model
  BY <1>1 DEF WithRam
<1>3. ASSUME NEW s PROVE WithRam(WithRam(mm, ram), s) = WithRam(mm, s)
  BY <1>1 DEF WithRam, IsFunction
<1>4. WithRam(mm, mm.ram) = mm
  BY <1>1 DEF WithRam, IsFunction
<1> QED BY <1>2, <1>3, <1>4

\* The pages so far have been read.
PagesRead(mm, n, banks, old, new) ==
  [m |-> WithRam(mm, Mixed(n, banks, old, new)), over |-> FALSE]

\* A page that is read back to the last byte.
IsPage(f, tmp, p, model, new, b, number) ==
  /\ Holds(f, p, WritePage(new, b, number))
  /\ BankOfPage(model, number) = b
  /\ EndsOpen(Bank(new, b)) =>
       U8(f, tmp, p + 3 + Len(Packed(Bank(new, b)))) # Esc

PageIsRead(f, tmp, p, mm, n, banks, old, new, b, number) ==
  /\ ReadPage(PagesRead(mm, n, banks, old, new), f, tmp, p)
       = PagesRead(mm, n, banks \cup {b}, old, new)
  /\ p + 3 + U16(f, tmp, p) = p + Len(WritePage(new, b, number))

LEMMA PageRead ==
  ASSUME NEW f \in Seq(R8), NEW tmp \in R8, NEW p \in Nat, NEW mm, HasRam(mm),
         NEW n \in 0..8, NEW old, NEW new, IsRam(old, n), IsRam(new, n), NEW banks,
         NEW b \in 0..8, b < n, NEW number \in R8,
         IsPage(f, tmp, p, mm.model, new, b, number)
  PROVE  PageIsRead(f, tmp, p, mm, n, banks, old, new, b, number)
<1> DEFINE page == Bank(new, b)
           data == Packed(page)
           q == p + 3
           ram == Mixed(n, banks, old, new)
           more == Mixed(n, banks \cup {b}, old, new)
           res == PagesRead(mm, n, banks, old, new)
           bytes == Unpacked(f, tmp, q, PageBytes)
<1>1. /\ WritePage(new, b, number) \in Seq(R8) /\ data \in Seq(R8)
      /\ Len(WritePage(new, b, number)) = 3 + Len(data)
      /\ U16(f, tmp, p) = Len(data) /\ U8(f, tmp, p + 2) = number /\ Holds(f, q, data)
  <2>1. Holds(f, p, WritePage(new, b, number))
    BY DEF IsPage
  <2>2. PageIs(f, tmp, p, new, b, number)
    BY PageHeld
  <2> QED BY <2>1, <2>2 DEF PageIs
<1>2. page \in Seq(R8) /\ Len(page) = PageBytes
  BY BankIs
<1>3. EndsOpen(page) => U8(f, tmp, q + Len(data)) # Esc
  BY DEF IsPage
<1>4. bytes = page
  <2> HIDE DEF page
  <2>1. q \in Nat
    OBVIOUS
  <2> HIDE DEF q
  <2>2. Unpacked(f, tmp, q, Len(page)) = page
    BY <1>1, <1>2, <1>3, <2>1, PageRoundTrip
  <2> QED BY <1>2, <2>2
<1>5. /\ Stored(ram, Size(b), page) = more /\ ~Overruns(ram, Size(b), page)
  <2>1. BankIsStored(n, banks, old, new, b)
    BY BankStored
  <2> QED BY <2>1 DEF BankIsStored
<1>6. BankOfPage(mm.model, number) = b
  BY DEF IsPage
<1> HIDE DEF page, ram, more, bytes
<1>7. /\ res.m = WithRam(mm, ram) /\ res.over = FALSE
      /\ res.m.model = mm.model /\ res.m.ram = ram
      /\ [res.m EXCEPT !.ram = Stored(@, Size(b), page)] = WithRam(mm, Stored(ram, Size(b), page))
  <2>1. res.m = WithRam(mm, ram) /\ res.over = FALSE
    BY DEF PagesRead, ram
  <2> HIDE DEF res
  <2>2. res.m.model = mm.model /\ res.m.ram = ram
    BY <2>1, WithRamIs
  <2>3. [res.m EXCEPT !.ram = Stored(@, Size(b), page)] = WithRam(res.m, Stored(ram, Size(b), page))
    BY <2>2 DEF WithRam
  <2>4. WithRam(WithRam(mm, ram), Stored(ram, Size(b), page)) = WithRam(mm, Stored(ram, Size(b), page))
    BY WithRamIs
  <2> QED BY <2>1, <2>2, <2>3, <2>4
<1> HIDE DEF res
<1>8. ReadPage(res, f, tmp, p) = [m |-> WithRam(mm, more), over |-> FALSE]
  <2>1. BankOfPage(res.m.model, U8(f, tmp, p + 2)) = b /\ ~(b < 0)
    BY <1>1, <1>6, <1>7
  <2>2. b * PageBytes = Size(b)
    BY DEF Size
  <2>3. Unpacked(f, tmp, p + 3, PageBytes) = page
    BY <1>4 DEF bytes
  <2> HIDE DEF data, q
  <2>4. ReadPage(res, f, tmp, p)
          = [m |-> [res.m EXCEPT !.ram = Stored(@, Size(b), page)],
             over |-> res.over \/ Overruns(res.m.ram, Size(b), page)]
    BY <2>1, <2>2, <2>3 DEF ReadPage
  <2> QED BY <1>5, <1>7, <2>4
<1>9. ReadPage(res, f, tmp, p) = PagesRead(mm, n, banks \cup {b}, old, new)
  BY <1>8 DEF PagesRead, more
<1>10. p + 3 + Len(data) = p + (3 + Len(data))
  <2> DEFINE l == Len(data)
  <2>1. l \in Nat
    BY <1>1
  <2> HIDE DEF l
  <2>2. p + 3 + l = p + (3 + l)
    BY <2>1
  <2> QED BY <2>2 DEF l
<1> QED BY <1>1, <1>9, <1>10 DEF res, data, page, PageIsRead

\* All pages one after the other.
SomeBanks(order, i) == {BankAt(order, j) : j \in 1..i}

ReadPagesStep(mm, f, tmp, pos, g, i) ==
  IF i = 0 THEN [res |-> [m |-> mm, over |-> FALSE], pos |-> pos]
  ELSE LET r == g[i - 1] IN
       [res |-> ReadPage(r.res, f, tmp, r.pos), pos |-> r.pos + 3 + U16(f, tmp, r.pos)]
IsReading(mm, f, tmp, pos, g) ==
  g = [i \in 0..RamBanks(mm.model) |-> ReadPagesStep(mm, f, tmp, pos, g, i)]

PagesOf(ram, order) == [i \in DOMAIN order |-> WritePage(ram, BankAt(order, i), Number(order, i))]

\* The pages of a file that are read back.
ArePages(f, tmp, pos, order, new, at) ==
  /\ Laid(f, pos, PagesOf(new, order), at)
  /\ \A i \in 1..Len(order) :
       EndsOpen(Bank(new, BankAt(order, i))) => U8(f, tmp, at[i + 1]) # Esc

LEMMA PagesHeld ==
  ASSUME NEW f \in Seq(R8), NEW tmp, NEW pos \in Nat, NEW model, NEW n, NEW order,
         IsOrder(model, n, order), NEW new, IsRam(new, n), NEW at,
         ArePages(f, tmp, pos, order, new, at), NEW i \in 1..n
  PROVE  /\ at[i] \in Nat /\ at[1] = pos
         /\ at[i + 1] = at[i] + Len(WritePage(new, BankAt(order, i), Number(order, i)))
         /\ IsPage(f, tmp, at[i], model, new, BankAt(order, i), Number(order, i))
<1> DEFINE b == BankAt(order, i)
           number == Number(order, i)
           s == PagesOf(new, order)
           part == WritePage(new, b, number)
<1>1. n \in 1..8 /\ DOMAIN order = 1..n /\ Len(order) = n
  BY DEF IsOrder
<1>2. Len(s) = n /\ s[i] = part
  <2>1. s = [k \in 1..n |-> WritePage(new, BankAt(order, k), Number(order, k))]
    BY <1>1 DEF PagesOf
  <2> HIDE DEF s
  <2>2. Len(s) = n
    BY <1>1, <2>1
  <2> QED BY <2>1, <2>2
<1>3. b \in 0..8 /\ b < n /\ number \in R8 /\ BankOfPage(model, number) = b
  BY DEF IsOrder
<1> HIDE DEF s
<1>4. /\ at[i] \in Nat /\ at[1] = pos /\ Holds(f, at[i], part) /\ at[i + 1] = at[i] + Len(part)
  <2>1. Laid(f, pos, s, at)
    BY DEF ArePages, s
  <2>2. i \in 1..Len(s) /\ i \in 1..(Len(s) + 1)
    BY <1>1, <1>2
  <2> HIDE DEF part
  <2>3. at[i] \in Nat /\ at[1] = pos
    BY <2>1, <2>2 DEF Laid
  <2>4. Holds(f, at[i], s[i]) /\ at[i + 1] = at[i] + Len(s[i])
    BY <2>1, <2>2 DEF Laid
  <2> QED BY <1>2, <2>3, <2>4
<1>5. EndsOpen(Bank(new, b)) => U8(f, tmp, at[i + 1]) # Esc
  BY <1>1 DEF ArePages
<1>6. at[i + 1] = at[i] + 3 + Len(Packed(Bank(new, b)))
  <2> DEFINE q == at[i]
             l == Len(Packed(Bank(new, b)))
  <2>1. n \in 0..8
    BY <1>1
  <2>2. PageIs(f, tmp, q, new, b, number)
    <3> HIDE DEF b, number, q
    <3>1. q \in Nat
      BY <1>4 DEF q
    <3> QED BY <1>3, <2>1, <3>1, PageHeld
  <2>3. q \in Nat /\ l \in Nat /\ Len(part) = 3 + l
    BY <1>4, <2>2 DEF PageIs
  <2>4. at[i + 1] = q + Len(part)
    BY <1>4
  <2> HIDE DEF q, l, part
  <2>5. q + (3 + l) = q + 3 + l
    BY <2>3
  <2> QED BY <2>3, <2>4, <2>5 DEF q, l
<1>7. IsPage(f, tmp, at[i], model, new, b, number)
  <2>1. EndsOpen(Bank(new, b)) => U8(f, tmp, at[i] + 3 + Len(Packed(Bank(new, b)))) # Esc
    BY <1>5, <1>6
  <2> QED BY <1>3, <1>4, <2>1 DEF IsPage
<1> QED BY <1>4, <1>7

\* What is needed for all pages to be read.
Readable(f, tmp, pos, mm, n, order, new, at) ==
  /\ f \in Seq(R8) /\ tmp \in R8 /\ pos \in Nat /\ HasRam(mm)
  /\ IsOrder(mm.model, n, order) /\ IsRam(new, n) /\ IsRam(mm.ram, n)
  /\ ArePages(f, tmp, pos, order, new, at)

LEMMA PagesAreRead ==
  ASSUME NEW f, NEW tmp, NEW pos, NEW mm, NEW n, NEW order, NEW new, NEW at,
         Readable(f, tmp, pos, mm, n, order, new, at)
  PROVE  ReadPages(mm, f, tmp, pos) = Result(WithRam(mm, new), 0, FALSE)
<1> DEFINE old == mm.ram
           w == [i \in 0..n |-> [res |-> PagesRead(mm, n, SomeBanks(order, i), old, new),
                                 pos |-> at[i + 1]]]
           g == CHOOSE h : IsReading(mm, f, tmp, pos, h)
<1>0. /\ f \in Seq(R8) /\ tmp \in R8 /\ pos \in Nat /\ HasRam(mm)
      /\ IsOrder(mm.model, n, order) /\ IsRam(new, n) /\ IsRam(mm.ram, n)
      /\ ArePages(f, tmp, pos, order, new, at)
  BY DEF Readable
<1>1. /\ n \in 1..8 /\ n \in 0..8 /\ n = RamBanks(mm.model)
      /\ \A i \in 1..n : /\ BankAt(order, i) \in 0..8 /\ BankAt(order, i) < n
                         /\ Number(order, i) \in R8
  BY <1>0 DEF IsOrder
<1>2. ReadPages(mm, f, tmp, pos) = Result(g[n].res.m, 0, g[n].res.over)
  BY <1>1 DEF ReadPages, IsReading, ReadPagesStep
<1> HIDE DEF g, old
<1>3. w[0] = [res |-> [m |-> mm, over |-> FALSE], pos |-> pos]
  <2>1. SomeBanks(order, 0) = {}
    BY DEF SomeBanks
  <2>2. Mixed(n, {}, old, new) = old
    BY <1>0, MixedNone DEF old
  <2>3. PagesRead(mm, n, {}, old, new) = [m |-> mm, over |-> FALSE]
    BY <1>0, <2>2, WithRamIs DEF PagesRead, old
  <2>4. at[1] = pos
    BY <1>0 DEF ArePages, Laid
  <2>5. 0 \in 0..n /\ 0 + 1 = 1
    BY <1>1
  <2> QED BY <2>1, <2>3, <2>4, <2>5
<1>4. ASSUME NEW i \in 1..n
      PROVE  w[i] = [res |-> ReadPage(w[i - 1].res, f, tmp, w[i - 1].pos),
                     pos |-> w[i - 1].pos + 3 + U16(f, tmp, w[i - 1].pos)]
  <2> DEFINE b == BankAt(order, i)
             number == Number(order, i)
             j == i - 1
             banks == SomeBanks(order, j)
             p == at[i]
  <2>1. j \in 0..n /\ i \in 0..n /\ j + 1 = i
    BY <1>1
  <2>2. w[j] = [res |-> PagesRead(mm, n, banks, old, new), pos |-> p]
    BY <2>1
  <2>3. w[i] = [res |-> PagesRead(mm, n, SomeBanks(order, i), old, new), pos |-> at[i + 1]]
    BY <2>1
  <2>4. SomeBanks(order, i) = banks \cup {b}
    <3>1. \A k : k \in 1..i <=> k \in 1..j \/ k = i
      BY <1>1
    <3> QED BY <3>1 DEF SomeBanks
  <2>5. /\ p \in Nat /\ at[i + 1] = p + Len(WritePage(new, b, number))
        /\ IsPage(f, tmp, p, mm.model, new, b, number)
    BY <1>0, PagesHeld
  <2>6. b \in 0..8 /\ b < n /\ number \in R8 /\ IsRam(old, n)
    BY <1>0, <1>1 DEF old
  <2> HIDE DEF w, b, number, j, banks, p
  <2>10. PageIsRead(f, tmp, p, mm, n, banks, old, new, b, number)
    BY <1>0, <1>1, <2>5, <2>6, PageRead
  <2>7. /\ ReadPage(PagesRead(mm, n, banks, old, new), f, tmp, p)
             = PagesRead(mm, n, banks \cup {b}, old, new)
        /\ p + 3 + U16(f, tmp, p) = p + Len(WritePage(new, b, number))
    BY <2>10 DEF PageIsRead
  <2>8. w[j].res = PagesRead(mm, n, banks, old, new) /\ w[j].pos = p
    BY <2>2
  <2>9. w[i] = [res |-> ReadPage(w[j].res, f, tmp, w[j].pos),
                pos |-> w[j].pos + 3 + U16(f, tmp, w[j].pos)]
    BY <2>3, <2>4, <2>5, <2>7, <2>8
  <2> QED BY <2>9 DEF j
<1>5. w = [i \in 0..n |-> w[i]]
  OBVIOUS
<1>6. w[n].res.m = WithRam(mm, new) /\ w[n].res.over = FALSE
  <2>1. Covers(n, SomeBanks(order, n))
    BY <1>0 DEF IsOrder, SomeBanks, Covers
  <2>2. Mixed(n, SomeBanks(order, n), old, new) = new
    <3> DEFINE banks == SomeBanks(order, n)
    <3>1. IsRam(old, n) /\ IsRam(new, n) /\ n \in 0..8
      BY <1>0, <1>1 DEF old
    <3>2. Covers(n, banks)
      BY <2>1
    <3> HIDE DEF banks
    <3>3. Mixed(n, banks, old, new) = new
      BY ONLY <3>1, <3>2, MixedAll
    <3> QED BY <3>3 DEF banks
  <2>3. n \in 0..n
    BY <1>1
  <2> QED BY <2>2, <2>3 DEF PagesRead
<1> HIDE DEF w
<1>7. IsReading(mm, f, tmp, pos, w)
  <2>1. \A i \in 0..n : w[i] = ReadPagesStep(mm, f, tmp, pos, w, i)
    <3>1. \A i \in 0..n : i # 0 => i \in 1..n
      BY <1>1
    <3> QED BY <1>3, <1>4, <3>1 DEF ReadPagesStep
  <2> QED BY <1>1, <1>5, <2>1 DEF IsReading
<1>8. IsReading(mm, f, tmp, pos, g)
  BY <1>7 DEF g
<1>9. \A i \in 0..n : g[i] = ReadPagesStep(mm, f, tmp, pos, g, i)
  BY <1>1, <1>8 DEF IsReading
<1> DEFINE T == {i \in 0..n : g[i] # w[i]}
<1>10. T = {}
  <2>1. T \in SUBSET Nat /\ \A i : i \in T <=> i \in 0..n /\ g[i] # w[i]
    OBVIOUS
  <2> HIDE DEF T
  <2> SUFFICES ASSUME T # {} PROVE FALSE
    OBVIOUS
  <2>2. PICK i \in T : \A j \in T : i <= j
    BY <2>1, Least
  <2>3. i \in 0..n /\ g[i] # w[i]
    BY <2>1
  <2>4. i # 0
    BY <1>1, <1>3, <1>9, <2>3 DEF ReadPagesStep
  <2> DEFINE j == i - 1
  <2>5. i \in 1..n /\ j \in 0..n /\ ~(i <= j)
    BY <1>1, <2>3, <2>4
  <2> HIDE DEF j
  <2>6. g[j] = w[j]
    BY <2>1, <2>2, <2>5
  <2>7. g[i - 1] = w[i - 1]
    BY <2>6 DEF j
  <2> QED BY <1>4, <1>9, <2>3, <2>4, <2>5, <2>7 DEF ReadPagesStep
<1>11. g[n] = w[n]
  BY <1>1, <1>10
<1> QED BY <1>2, <1>6, <1>11

(***************************************************************************)
(* A newer .z80 file is read back.                                          *)
(***************************************************************************)
\* A page ends in an Esc that the next byte makes another.
Doubtful(ram, order) ==
  \E i \in DOMAIN order :
    /\ EndsOpen(Bank(ram, BankAt(order, i)))
    /\ i = Len(order) \/ Len(Packed(Bank(ram, BankAt(order, i + 1)))) % 256 = Esc

LEMMA PagesOfType ==
  ASSUME NEW model, NEW n, NEW order, IsOrder(model, n, order), NEW ram, IsRam(ram, n)
  PROVE  /\ PagesOf(ram, order) \in Seq(Seq(R8)) /\ Len(PagesOf(ram, order)) = n
         /\ \A f \in Seq(R8) : \A tmp : \A p \in Nat : \A i \in 1..n :
              PageIs(f, tmp, p, ram, BankAt(order, i), Number(order, i))
<1> DEFINE s == PagesOf(ram, order)
<1>1. n \in 1..8 /\ n \in 0..8 /\ n \in Nat /\ DOMAIN order = 1..n
  BY DEF IsOrder
<1>2. \A i \in 1..n : BankAt(order, i) \in 0..8 /\ BankAt(order, i) < n /\ Number(order, i) \in R8
  BY DEF IsOrder
<1>3. ASSUME NEW f \in Seq(R8), NEW tmp, NEW p \in Nat, NEW i \in 1..n
      PROVE  PageIs(f, tmp, p, ram, BankAt(order, i), Number(order, i))
  <2> DEFINE b == BankAt(order, i)
             number == Number(order, i)
  <2>1. b \in 0..8 /\ b < n /\ number \in R8
    BY <1>2
  <2> HIDE DEF b, number
  <2>2. PageIs(f, tmp, p, ram, b, number)
    BY <1>1, <2>1, PageHeld
  <2> QED BY <2>2 DEF b, number
<1>4. s = [i \in 1..n |-> WritePage(ram, BankAt(order, i), Number(order, i))]
  BY <1>1 DEF PagesOf
<1>5. \A i \in 1..n : WritePage(ram, BankAt(order, i), Number(order, i)) \in Seq(R8)
  <2> DEFINE e == <<>>
             z == 0
  <2>1. e \in Seq(R8) /\ z \in Nat
    OBVIOUS
  <2> HIDE DEF e, z
  <2>2. \A i \in 1..n : PageIs(e, e, z, ram, BankAt(order, i), Number(order, i))
    BY <1>3, <2>1
  <2> QED BY <2>2 DEF PageIs
<1> HIDE DEF s
<1>6. s \in [1..n -> Seq(R8)]
  BY <1>4, <1>5
<1>7. s \in Seq(Seq(R8)) /\ Len(s) = n
  BY <1>1, <1>6
<1> QED BY <1>3, <1>7 DEF s

LEMMA PagesLaid ==
  ASSUME NEW f \in Seq(R8), NEW tmp, NEW pos \in Nat, NEW model, NEW n, NEW order,
         IsOrder(model, n, order), NEW ram, IsRam(ram, n), ~Doubtful(ram, order),
         Holds(f, pos, FlattenSeq(PagesOf(ram, order)))
  PROVE  \E at : ArePages(f, tmp, pos, order, ram, at)
<1> DEFINE s == PagesOf(ram, order)
<1>1. n \in 1..8 /\ n \in Nat /\ n > 0 /\ DOMAIN order = 1..n /\ Len(order) = n
  BY DEF IsOrder
<1>2. s \in Seq(Seq(R8)) /\ Len(s) = n
  BY PagesOfType
<1>3. \A p \in Nat : \A i \in 1..n : PageIs(f, tmp, p, ram, BankAt(order, i), Number(order, i))
  BY PagesOfType
<1>4. s = [i \in 1..n |-> WritePage(ram, BankAt(order, i), Number(order, i))]
  BY <1>1 DEF PagesOf
<1> HIDE DEF s
<1>5. PICK at : Laid(f, pos, s, at)
  <2>1. Len(s) > 0 /\ Holds(f, pos, FlattenSeq(s))
    BY <1>1, <1>2 DEF s
  <2> QED BY <1>2, <2>1, PartsLaid
<1>6. ASSUME NEW i \in 1..n, EndsOpen(Bank(ram, BankAt(order, i)))
      PROVE  U8(f, tmp, at[i + 1]) # Esc
  <2>1. i # n /\ Len(Packed(Bank(ram, BankAt(order, i + 1)))) % 256 # Esc
    BY <1>1, <1>6 DEF Doubtful
  <2> DEFINE j == i + 1
             p == at[j]
             b == BankAt(order, j)
             number == Number(order, j)
  <2>2. j \in 1..n /\ j \in 1..(n + 1)
    BY <1>1, <2>1
  <2>3. p \in Nat /\ Holds(f, p, s[j]) /\ s[j] = WritePage(ram, b, number)
    BY <1>2, <1>4, <1>5, <2>2 DEF Laid
  <2>4. PageIs(f, tmp, p, ram, b, number)
    BY <1>3, <2>2, <2>3
  <2>5. U8(f, tmp, p) = Len(Packed(Bank(ram, b))) % 256
    BY <2>3, <2>4 DEF PageIs
  <2> QED BY <2>1, <2>5
<1> QED BY <1>1, <1>5, <1>6 DEF ArePages, s

\* What an operation leaves of the fields of the machine.
HasFields(mm) == IsFunction(mm) /\ DOMAIN mm = MachineFields

LEMMA ResetFields ==
  ASSUME NEW mm, HasFields(mm)
  PROVE  HasFields(Reset(mm)) /\ Reset(mm).locked = FALSE
<1> DEFINE r == [mm EXCEPT !.cpu = ResetCpu, !.ay.reg[7] = 63, !.locked = FALSE]
<1>1. IsFunction(mm) /\ DOMAIN mm = MachineFields
  BY DEF HasFields
<1>2. HasFields(r) /\ r.locked = FALSE
  BY <1>1 DEF HasFields, IsFunction, MachineFields
<1>3. Reset(mm) = PageSelect(r, 7)
  BY DEF Reset
<1> HIDE DEF r
<1>4. CASE r.model = "48K"
  BY <1>2, <1>3, <1>4 DEF PageSelect
<1>5. CASE r.model # "48K"
  <2> DEFINE lock == (7 \div 32) % 2 = 1
             q == [r EXCEPT !.page = 7, !.locked = lock]
  <2>1. lock = FALSE
    OBVIOUS
  <2>2. Reset(mm) = q
    BY <1>2, <1>3, <1>5 DEF PageSelect
  <2> HIDE DEF lock
  <2>3. HasFields(q) /\ q.locked = lock
    BY <1>2 DEF HasFields, IsFunction, MachineFields
  <2> QED BY <2>1, <2>2, <2>3
<1> QED BY <1>4, <1>5

\* All fields but those that are set.
CpuBorder(mm, c, b) == [mm EXCEPT !.cpu = c, !.border = b]

LEMMA CpuFieldsSet ==
  ASSUME NEW mm, HasFields(mm), NEW c, NEW b
  PROVE  LET r == CpuBorder(mm, c, b) IN
         /\ HasFields(r) /\ r.cpu = c /\ r.border = b /\ r.locked = mm.locked
         /\ r.model = mm.model /\ r.ram = mm.ram
BY DEF CpuBorder, HasFields, IsFunction, MachineFields

LEMMA ModelFields ==
  ASSUME NEW mm, HasFields(mm), NEW model, NEW fill
  PROVE  LET r == SelectModel(mm, model, fill) IN
         /\ HasFields(r) /\ r.model = model /\ r.ram = Filled(model, fill)
         /\ r.cpu = mm.cpu /\ r.border = mm.border /\ r.locked = mm.locked
BY DEF HasFields, IsFunction, MachineFields, SelectModel

PageIsSet(mm, v, r) ==
  /\ HasFields(r) /\ r.model = mm.model /\ r.ram = mm.ram
  /\ r.cpu = mm.cpu /\ r.border = mm.border
  /\ r.page = v /\ (r.locked <=> LockBit(v)) /\ r.locked \in BOOLEAN

LEMMA PageFields ==
  ASSUME NEW mm, HasFields(mm), mm.model # "48K", mm.locked = FALSE, NEW v
  PROVE  PageIsSet(mm, v, PageSelect(mm, v))
<1> DEFINE lock == (v \div 32) % 2 = 1
           q == [mm EXCEPT !.page = v, !.locked = lock]
<1>1. PageSelect(mm, v) = q
  BY DEF PageSelect
<1>2. lock \in BOOLEAN /\ (lock <=> LockBit(v))
  BY DEF LockBit
<1> HIDE DEF lock
<1>3. /\ HasFields(q) /\ q.model = mm.model /\ q.ram = mm.ram
      /\ q.cpu = mm.cpu /\ q.border = mm.border /\ q.page = v /\ q.locked = lock
  BY DEF HasFields, IsFunction, MachineFields
<1> QED BY <1>1, <1>2, <1>3 DEF PageIsSet

LEMMA AyFields ==
  ASSUME NEW mm, HasFields(mm), NEW sel, NEW regs
  PROVE  LET r == AyLoaded(mm, sel, regs) IN
         /\ HasFields(r) /\ r.model = mm.model /\ r.ram = mm.ram
         /\ r.cpu = mm.cpu /\ r.border = mm.border
         /\ r.page = mm.page /\ r.locked = mm.locked
         /\ r.ay = [sel |-> sel % 16, reg |-> regs]
BY DEF HasFields, IsFunction, MachineFields, AyLoaded

LEMMA PcFields ==
  ASSUME NEW mm, HasFields(mm), NEW pc
  PROVE  LET r == [mm EXCEPT !.cpu.PC = pc] IN
         /\ HasFields(r) /\ r.cpu = [mm.cpu EXCEPT !.PC = pc] /\ r.border = mm.border
         /\ r.locked = mm.locked /\ r.model = mm.model /\ r.ram = mm.ram
BY DEF HasFields, IsFunction, MachineFields

LEMMA RamFields ==
  ASSUME NEW mm, HasFields(mm), NEW ram
  PROVE  LET r == WithRam(mm, ram) IN
         /\ HasFields(r) /\ r.ram = ram /\ r.model = mm.model
         /\ r.cpu = mm.cpu /\ r.border = mm.border
         /\ r.page = mm.page /\ r.locked = mm.locked /\ r.ay = mm.ay
BY DEF HasFields, IsFunction, MachineFields, WithRam

LEMMA FilledIs ==
  ASSUME NEW model, NEW b \in R8 PROVE IsRam(Filled(model, b), RamBanks(model))
BY DEF IsRam, Filled, Times, Size

\* A load that goes on where a machine was, except for what its file lacks.
Continues(res, mm) ==
  /\ res.rc = 0 /\ res.over = FALSE
  /\ res.m.model = mm.model /\ res.m.cpu = Loaded(mm.cpu, mm.cpu.PC)
  /\ res.m.border = mm.border /\ res.m.ram = mm.ram
  /\ mm.model # "48K" => res.m.page = mm.page /\ res.m.locked = mm.locked

LEMMA SavableIs ==
  ASSUME NEW mm, Savable(mm)
  PROVE  /\ mm.model \in {"48K", "128K"} /\ mm.cpu \in CpuState /\ mm.cpu.PC \in R16
         /\ mm.border \in 0..7 /\ mm.page \in R8
         /\ mm.ay \in [sel : AyRegs, reg : [AyRegs -> R8]]
         /\ IsRam(mm.ram, RamBanks(mm.model)) /\ HasFields(mm)
         /\ mm.model = "128K" => mm.locked = LockBit(mm.page)
<1>1. mm.cpu \in CpuState
  BY DEF Savable, Sound, IsMachine
<1>2. mm.cpu.PC \in R16
  BY <1>1, CpuFields
<1>3. IsRam(mm.ram, RamBanks(mm.model))
  BY DEF Savable, Sound, IsRam, Size
<1>4. HasFields(mm)
  BY DEF Savable, Sound, IsMachine, HasFields
<1> QED BY <1>1, <1>2, <1>3, <1>4 DEF Savable, Sound, IsAy

LEMMA HeadAndPages ==
  ASSUME NEW tmp, NEW mm, Savable(mm)
  PROVE  LET f == Z80Bytes(mm) IN
         /\ f \in Seq(R8) /\ HeadIs(f, tmp, mm) /\ Holds(f, 55, Z80Pages(mm))
<1> DEFINE head == Z80Head(mm)
           pages == Z80Pages(mm)
           f == head \o pages
           order == PageOrder(mm.model)
           n == RamBanks(mm.model)
<1>1. f = Z80Bytes(mm)
  BY DEF Z80Bytes
<1>2. \A g \in Seq(R8) : /\ head \in Seq(R8) /\ Len(head) = 55
                         /\ Holds(g, 0, head) => HeadIs(g, tmp, mm)
  BY HeadHeld
<1>3. head \in Seq(R8) /\ Len(head) = 55
  <2>1. <<>> \in Seq(R8)
    OBVIOUS
  <2> QED BY <1>2, <2>1
<1>4. pages \in Seq(R8)
  <2>1. IsOrder(mm.model, n, order) /\ n \in 1..8
    BY SavableIs, OrderIs DEF IsOrder
  <2>2. IsRam(mm.ram, n)
    BY SavableIs
  <2> DEFINE s == PagesOf(mm.ram, order)
  <2>3. pages = FlattenSeq(s)
    BY DEF Z80Pages, PagesOf, BankAt, Number
  <2> HIDE DEF n, order
  <2>4. s \in Seq(Seq(R8)) /\ Len(s) = n
    BY <2>1, <2>2, PagesOfType
  <2> HIDE DEF s, pages
  <2>5. Len(s) > 0
    BY <2>1, <2>4
  <2> QED BY <2>3, <2>4, <2>5, FlattenType
<1> HIDE DEF head, pages
<1>5. f \in Seq(R8) /\ Holds(f, 0, head \o pages)
  <2>1. f \in Seq(R8)
    BY <1>3, <1>4
  <2>2. f = head \o pages
    OBVIOUS
  <2> HIDE DEF f
  <2>3. Holds(f, 0, f)
    BY <2>1 DEF Holds
  <2> QED BY <2>1, <2>2, <2>3
<1> HIDE DEF f
<1>6. Holds(f, 0, head) /\ Holds(f, 55, pages)
  BY <1>3, <1>4, <1>5, Peel
<1>7. HeadIs(f, tmp, mm)
  BY <1>2, <1>5, <1>6
<1> QED BY <1>1, <1>5, <1>6, <1>7 DEF pages

LEMMA Z80Restores ==
  ASSUME NEW mm, HasFields(mm), NEW tmp \in R8, NEW fill \in R8, NEW n, Savable(n),
         ~Doubtful(n.ram, PageOrder(n.model))
  PROVE  LET res == LoadZ80(mm, Z80Bytes(n), tmp, fill) IN
         Continues(res, n) /\ res.m.ay = n.ay
<1> DEFINE f == Z80Bytes(n)
           cpu == Z80Cpu(f, tmp)
           flags == Flags1(f, tmp)
           hw == U8(f, tmp, 34)
           model == IF hw < 2 THEN "48K" ELSE "128K"
           m1 == [Reset(mm) EXCEPT !.cpu = cpu, !.border = (flags \div 2) % 8]
           m1b == [m1 EXCEPT !.cpu.PC = U16(f, tmp, 32)]
           m2 == SelectModel(m1b, model, fill)
           m3 == IF hw < 2 THEN m2 ELSE PageSelect(m2, U8(f, tmp, 35))
           m4 == AyLoaded(m3, U8(f, tmp, 38), [r \in AyRegs |-> U8(f, tmp, 39 + r)])
           order == PageOrder(n.model)
           banks == RamBanks(n.model)
           done == ReadPages(m4, f, tmp, 32 + U16(f, tmp, 30))
<1>1. f \in Seq(R8) /\ HeadIs(f, tmp, n) /\ Holds(f, 55, Z80Pages(n))
  BY HeadAndPages
<1>2. /\ n.model \in {"48K", "128K"} /\ n.cpu \in CpuState /\ n.cpu.PC \in R16
      /\ n.border \in 0..7 /\ n.page \in R8
      /\ n.ay \in [sel : AyRegs, reg : [AyRegs -> R8]]
      /\ IsRam(n.ram, banks)
      /\ n.model = "128K" => n.locked = LockBit(n.page)
  BY SavableIs
<1>3. cpu = Loaded(n.cpu, 0) /\ (flags \div 2) % 8 = n.border
  <2> DEFINE fl == Z80Flags(n)
             k == 32
             z == 0
  <2>1. k \in {0, 32} /\ fl = FlagsOf(n.cpu, n.border, k)
    BY DEF Z80Flags, FlagsOf
  <2>2. z \in R16
    BY DEF R16
  <2>3. RegistersAre(f, tmp, n.cpu, z, fl)
    BY <1>1 DEF HeadIs
  <2> HIDE DEF fl, k, z, f
  <2>4. /\ fl \in R8 /\ fl < 255 /\ fl % 2 = n.cpu.R \div 128
        /\ (fl \div 2) % 8 = n.border
    <3>1. FlagsAre(FlagsOf(n.cpu, n.border, k), n.cpu, n.border, k)
      BY <1>2, <2>1, FlagsType
    <3> QED BY <2>1, <3>1 DEF FlagsAre
  <2>5. cpu = Loaded(n.cpu, z) /\ flags = fl
    BY <1>2, <2>2, <2>3, <2>4, Z80CpuRead
  <2> QED BY <2>4, <2>5 DEF z
<1>4. /\ U16(f, tmp, 30) = 23 /\ U16(f, tmp, 32) = n.cpu.PC
      /\ hw = HwNumber(n.model) /\ U8(f, tmp, 35) = n.page
      /\ U8(f, tmp, 38) = n.ay.sel
      /\ \A r \in AyRegs : U8(f, tmp, 39 + r) = n.ay.reg[r]
  BY <1>1 DEF HeadIs
<1>5. /\ hw \in {0, 3} /\ model = n.model /\ (hw < 2 <=> n.model = "48K")
  BY <1>2, <1>4 DEF HwNumber
<1>6. cpu.IM # 3 /\ cpu.PC = 0
  <2> DEFINE z == 0
  <2>1. z \in R16 /\ n.cpu.IM # 3
    <3>1. n.cpu.IM \in 0..2
      BY <1>2, CpuFields
    <3> QED BY <3>1 DEF R16
  <2> HIDE DEF z
  <2>2. Loaded(n.cpu, z).PC = z /\ Loaded(n.cpu, z).IM = n.cpu.IM
    BY <1>2, <2>1, LoadedIs
  <2> QED BY <1>3, <2>1, <2>2 DEF z
<1>7. LoadZ80(mm, f, tmp, fill) = done
  <2> HIDE DEF f
  <2>1. hw \in {0, 1, 3, 4}
    BY <1>5
  <2> QED BY <1>6, <2>1 DEF LoadZ80
<1> HIDE DEF f, cpu, flags, hw, model
<1>8. /\ HasFields(m1) /\ m1.cpu = cpu /\ m1.border = n.border /\ m1.locked = FALSE
  <2> DEFINE r == Reset(mm)
             b == (flags \div 2) % 8
  <2>1. HasFields(r) /\ r.locked = FALSE
    BY ResetFields
  <2>2. b = n.border /\ m1 = CpuBorder(r, cpu, b)
    BY <1>3 DEF CpuBorder
  <2> HIDE DEF r, b, m1
  <2> QED BY <2>1, <2>2, CpuFieldsSet
<1> HIDE DEF m1
<1>9. /\ HasFields(m1b) /\ m1b.cpu = Loaded(n.cpu, n.cpu.PC) /\ m1b.border = n.border
      /\ m1b.locked = FALSE
  <2> DEFINE z == 0
  <2>1. z \in R16
    BY DEF R16
  <2> HIDE DEF z
  <2>2. \A x : [Loaded(n.cpu, z) EXCEPT !.PC = x] = Loaded(n.cpu, x)
    BY <1>2, <2>1, LoadedIs
  <2>3. [cpu EXCEPT !.PC = U16(f, tmp, 32)] = Loaded(n.cpu, n.cpu.PC)
    BY <1>3, <1>4, <2>2 DEF z
  <2> QED BY <1>8, <2>3, PcFields
<1> HIDE DEF m1b
<1>10. /\ HasFields(m2) /\ m2.model = n.model /\ m2.ram = Filled(n.model, fill)
       /\ m2.cpu = Loaded(n.cpu, n.cpu.PC) /\ m2.border = n.border /\ m2.locked = FALSE
  BY <1>5, <1>9, ModelFields
<1> HIDE DEF m2
<1>11. /\ HasFields(m3) /\ m3.model = n.model /\ m3.ram = Filled(n.model, fill)
       /\ m3.cpu = Loaded(n.cpu, n.cpu.PC) /\ m3.border = n.border
       /\ n.model # "48K" => m3.page = n.page /\ m3.locked = n.locked
  <2>1. CASE n.model = "48K"
    BY <1>5, <1>10, <2>1
  <2>2. CASE n.model # "48K"
    <3>1. m3 = PageSelect(m2, n.page)
      BY <1>4, <1>5, <2>2
    <3> HIDE DEF m3
    <3>2. /\ HasFields(m3) /\ m3.model = m2.model /\ m3.ram = m2.ram
          /\ m3.cpu = m2.cpu /\ m3.border = m2.border
          /\ m3.page = n.page /\ (m3.locked <=> LockBit(n.page)) /\ m3.locked \in BOOLEAN
      <4>1. PageIsSet(m2, n.page, PageSelect(m2, n.page))
        BY <1>10, <2>2, PageFields
      <4> QED BY <3>1, <4>1 DEF PageIsSet
    <3>3. n.locked = LockBit(n.page)
      BY <1>2, <2>2
    <3>4. m3.locked = n.locked
      BY <3>2, <3>3 DEF LockBit
    <3> QED BY <1>10, <3>2, <3>4
  <2> QED BY <2>1, <2>2
<1> HIDE DEF m3
<1>12. [sel |-> U8(f, tmp, 38) % 16, reg |-> [r \in AyRegs |-> U8(f, tmp, 39 + r)]] = n.ay
  <2>1. n.ay.sel % 16 = n.ay.sel
    BY <1>2 DEF AyRegs
  <2>2. [r \in AyRegs |-> U8(f, tmp, 39 + r)] = n.ay.reg
    BY <1>2, <1>4
  <2> QED BY <1>2, <1>4, <2>1, <2>2
<1>13. /\ HasFields(m4) /\ m4.model = n.model /\ m4.ram = Filled(n.model, fill)
       /\ m4.cpu = Loaded(n.cpu, n.cpu.PC) /\ m4.border = n.border
       /\ n.model # "48K" => m4.page = n.page /\ m4.locked = n.locked
       /\ m4.ay = n.ay
  BY <1>11, <1>12, AyFields
<1> HIDE DEF m4
<1>14. done = Result(WithRam(m4, n.ram), 0, FALSE)
  <2> DEFINE pos == 32 + U16(f, tmp, 30)
  <2>1. pos = 55 /\ pos \in Nat
    BY <1>4
  <2>2. IsOrder(n.model, banks, order)
    BY <1>2, OrderIs
  <2>3. Holds(f, pos, FlattenSeq(PagesOf(n.ram, order)))
    <3>1. Z80Pages(n) = FlattenSeq(PagesOf(n.ram, order))
      BY DEF Z80Pages, PagesOf, BankAt, Number
    <3> QED BY <1>1, <2>1, <3>1
  <2>4. ~Doubtful(n.ram, order)
    OBVIOUS
  <2>5. IsRam(m4.ram, banks)
    BY <1>13, FilledIs
  <2>6. HasRam(m4) /\ m4.model = n.model
    BY <1>13 DEF HasRam, HasFields, MachineFields
  <2> HIDE DEF pos, order, banks
  <2>7. PICK at : ArePages(f, tmp, pos, order, n.ram, at)
    BY <1>1, <1>2, <2>1, <2>2, <2>3, <2>4, PagesLaid
  <2>8. ReadPages(m4, f, tmp, pos) = Result(WithRam(m4, n.ram), 0, FALSE)
    <3> DEFINE model4 == m4.model
               ram4 == n.ram
    <3>1. IsOrder(m4.model, banks, order) /\ IsRam(ram4, banks)
          /\ ArePages(f, tmp, pos, order, ram4, at)
      BY <1>2, <2>2, <2>6, <2>7
    <3> HIDE DEF ram4
    <3>2. ReadPages(m4, f, tmp, pos) = Result(WithRam(m4, ram4), 0, FALSE)
      <4>1. Readable(f, tmp, pos, m4, banks, order, ram4, at)
        BY <1>1, <2>1, <2>5, <2>6, <3>1 DEF Readable
      <4> QED BY <4>1, PagesAreRead DEF Result
    <3> QED BY <3>2 DEF ram4
  <2> QED BY <2>8 DEF pos
<1> HIDE DEF done
<1>15. Continues(done, n) /\ done.m.ay = n.ay
  <2> DEFINE last == WithRam(m4, n.ram)
  <2>1. /\ last.ram = n.ram /\ last.model = m4.model /\ last.cpu = m4.cpu
        /\ last.border = m4.border /\ last.page = m4.page /\ last.locked = m4.locked
        /\ last.ay = m4.ay
    BY <1>13, RamFields
  <2>2. done.m = last /\ done.rc = 0 /\ done.over = FALSE
    BY <1>14 DEF Result
  <2> HIDE DEF last
  <2> QED BY <1>13, <2>1, <2>2 DEF Continues
<1> QED BY <1>7, <1>15 DEF f

(***************************************************************************)
(* The RAM in one piece.                                                    *)
(***************************************************************************)
LEMMA BytesHeld ==
  ASSUME NEW f \in Seq(R8), NEW p \in Nat, NEW s \in Seq(R8), Holds(f, p, s),
         NEW n, n = Len(s)
  PROVE  Bytes(f, p, n) = s
<1>1. n \in Nat /\ Len(f) \in Nat /\ p + n <= Len(f) /\ \A j \in 1..n : f[p + j] = s[j]
  BY DEF Holds
<1> DEFINE x == p + 1
           y == p + n
           r == SubSeq(f, x, y)
<1>2. Bytes(f, p, n) = r
  <2> DEFINE l == Len(f)
  <2>1. l \in Nat /\ y \in Nat /\ y <= l
    BY <1>1
  <2> HIDE DEF l
  <2>2. (IF p + n < l THEN p + n ELSE l) = y
    BY <2>1
  <2> QED BY <2>2 DEF Bytes, l
<1>3. x \in Nat /\ y \in Nat /\ 1 <= x /\ x <= y + 1 /\ y <= Len(f) /\ y - x + 1 = n
      /\ \A j \in 1..n : x + j - 1 = p + j
  BY <1>1
<1> HIDE DEF x, y
<1>4. r \in Seq(R8) /\ Len(r) = y - x + 1 /\ \A j \in 1..(y - x + 1) : r[j] = f[x + j - 1]
  BY <1>1, <1>3
<1> HIDE DEF r
<1>5. r = s
  <2>1. r \in [1..n -> R8] /\ s \in [1..n -> R8]
    BY <1>3, <1>4
  <2>2. \A j \in 1..n : r[j] = s[j]
    BY <1>1, <1>3, <1>4
  <2> QED BY <2>1, <2>2
<1> QED BY <1>2, <1>5

LEMMA StoredWhole ==
  ASSUME NEW n \in 0..8, NEW old, NEW new, IsRam(old, n), IsRam(new, n)
  PROVE  Stored(old, 0, new) = new /\ ~Overruns(old, 0, new)
<1> DEFINE l == Size(n)
<1>1. /\ DOMAIN old = 1..l /\ DOMAIN new = 1..l /\ Len(old) = l /\ Len(new) = l /\ l \in Nat
      /\ new = [k \in 1..l |-> new[k]]
  BY RamIs, SizeIs DEF IsRam
<1> HIDE DEF l
<1>2. \A k \in 1..l : k - 0 = k
  BY <1>1
<1>3. Stored(old, 0, new) = new
  BY <1>1, <1>2 DEF Stored
<1>4. ~Overruns(old, 0, new)
  BY <1>1 DEF Overruns
<1> QED BY <1>3, <1>4

LEMMA OneConcat ==
  ASSUME NEW f, NEW s \in Seq(R8), NEW t \in Seq(R8), f = s \o t, NEW k, Len(s) = k
  PROVE  f \in Seq(R8) /\ Len(f) = k + Len(t) /\ Holds(f, 0, s) /\ Holds(f, k, t)
<1>1. f \in Seq(R8) /\ Len(f) = k + Len(t)
  BY ConcatType
<1>2. Holds(f, 0, f)
  BY <1>1 DEF Holds
<1>3. Holds(f, 0, s \o t)
  BY <1>2
<1>4. Holds(f, 0, s) /\ Holds(f, k, t)
  BY <1>1, <1>3, Peel
<1> QED BY <1>1, <1>4

\* An older .z80 file is read back.
LEMMA OlderZ80Restores ==
  ASSUME NEW mm, HasFields(mm), NEW tmp \in R8, NEW fill \in R8, NEW n, Savable(n),
         n.model = "48K", n.cpu.PC # 0, NEW compressed \in BOOLEAN
  PROVE  Continues(LoadZ80(mm, OtherZ80(n, compressed), tmp, fill), n)
<1> DEFINE f == OtherZ80(n, compressed)
           k == IF compressed THEN 32 ELSE 0
           less == IF compressed THEN 0 ELSE 32
           fl == Z80Flags(n) - less
           regs == Z80Registers(n.cpu, n.cpu.PC, fl)
           tail == <<0, Esc, Esc, 0>>
           mem == IF compressed THEN Packed(n.ram) \o tail ELSE n.ram
           cpu == Z80Cpu(f, tmp)
           flags == Flags1(f, tmp)
           m1 == [Reset(mm) EXCEPT !.cpu = cpu, !.border = (flags \div 2) % 8]
           m2 == SelectModel(m1, "48K", fill)
           packed == (flags \div 32) % 2 = 1
           done == ReadWhole(m2, f, tmp, 30, packed)
<1>1. f = regs \o mem
  BY DEF OtherZ80
<1>2. /\ n.cpu \in CpuState /\ n.cpu.PC \in R16
      /\ n.border \in 0..7 /\ IsRam(n.ram, RamBanks(n.model))
  BY SavableIs
<1>3. /\ n.ram \in Seq(R8) /\ Len(n.ram) = 3 * PageBytes /\ IsRam(n.ram, 3)
  <2> DEFINE b == 3
  <2>1. RamBanks(n.model) = b /\ b \in 0..8
    BY DEF RamBanks
  <2> HIDE DEF b
  <2>2. n.ram \in Seq(R8) /\ Len(n.ram) = Size(b) /\ IsRam(n.ram, b)
    BY <1>2, <2>1, RamIs
  <2> QED BY <2>2 DEF Size, b
<1>4. FlagsAre(fl, n.cpu, n.border, k)
  <2>1. fl = FlagsOf(n.cpu, n.border, k)
    <3>1. n.cpu.R \in Nat /\ n.border \in Nat
      <4>1. n.cpu.R \in R8
        BY <1>2, CpuFields
      <4>2. n.border \in Nat
        BY <1>2
      <4> QED BY <4>1, <4>2 DEF R8
    <3> DEFINE r == n.cpu.R \div 128
    <3>2. r \in Nat
      BY <3>1
    <3> HIDE DEF r
    <3>3. fl = r + (2 * n.border) + 32 - less
      <4>1. Z80Flags(n) = r + (2 * n.border) + 32
        BY DEF Z80Flags, r
      <4>2. fl = Z80Flags(n) - less /\ less \in Nat
        OBVIOUS
      <4> HIDE DEF less, fl
      <4> QED BY <3>1, <3>2, <4>1, <4>2
    <3>5. less \in Nat /\ k \in Nat /\ 32 - less = k
      OBVIOUS
    <3>4. FlagsOf(n.cpu, n.border, k) = r + (2 * n.border) + k
      BY DEF FlagsOf, r
    <3> HIDE DEF fl, less, k
    <3> QED BY <3>1, <3>2, <3>3, <3>4, <3>5
  <2>2. k \in {0, 32}
    OBVIOUS
  <2> HIDE DEF k, fl
  <2>3. FlagsAre(FlagsOf(n.cpu, n.border, k), n.cpu, n.border, k)
    BY <1>2, <2>2, FlagsType
  <2> QED BY <2>1, <2>3
<1>5. /\ fl \in R8 /\ fl < 255 /\ fl % 2 = n.cpu.R \div 128 /\ (fl \div 2) % 8 = n.border
      /\ (fl \div 32) % 2 = 1 <=> compressed
  BY <1>4 DEF FlagsAre
<1> HIDE DEF fl
<1>6. regs \in Seq(R8) /\ Len(regs) = 30
      /\ \A g \in Seq(R8) : Holds(g, 0, regs) => RegistersAre(g, tmp, n.cpu, n.cpu.PC, fl)
  <2>1. ASSUME NEW g \in Seq(R8)
        PROVE  /\ regs \in Seq(R8) /\ Len(regs) = 30
               /\ Holds(g, 0, regs) => RegistersAre(g, tmp, n.cpu, n.cpu.PC, fl)
    BY <1>2, <1>5, RegistersHeld
  <2>2. <<>> \in Seq(R8)
    OBVIOUS
  <2> HIDE DEF regs
  <2> QED BY <2>1, <2>2
<1>7. tail \in Seq(R8) /\ Len(tail) = 4 /\ tail[1] = 0 /\ 0 # Esc
  <2>1. 0 \in R8 /\ Esc \in R8 /\ 0 # Esc
    BY RleAssumption DEF R8
  <2> QED BY <2>1
<1>8. Packed(n.ram) \in Seq(R8)
  BY <1>3, PackedLength
<1> HIDE DEF regs, tail
<1>9. mem \in Seq(R8)
  BY <1>3, <1>7, <1>8, ConcatType
<1> HIDE DEF f, mem
<1>10. f \in Seq(R8) /\ Holds(f, 0, regs) /\ Holds(f, 30, mem)
  BY <1>1, <1>6, <1>9, OneConcat
<1>11. cpu = Loaded(n.cpu, n.cpu.PC) /\ flags = fl
  <2>1. RegistersAre(f, tmp, n.cpu, n.cpu.PC, fl)
    BY <1>6, <1>10
  <2> QED BY <1>2, <1>5, <2>1, Z80CpuRead
<1>12. cpu.IM # 3 /\ cpu.PC # 0
  <2>1. n.cpu.IM # 3
    <3>1. n.cpu.IM \in 0..2
      BY <1>2, CpuFields
    <3> QED BY <3>1
  <2>2. cpu.PC = n.cpu.PC /\ cpu.IM = n.cpu.IM
    BY <1>2, <1>11, LoadedIs
  <2> QED BY <2>1, <2>2
<1>13. LoadZ80(mm, f, tmp, fill) = done
  BY <1>12 DEF LoadZ80
<1> HIDE DEF cpu, flags
<1>14. /\ HasFields(m1) /\ m1.cpu = cpu /\ m1.border = n.border
  <2> DEFINE r == Reset(mm)
             b == (flags \div 2) % 8
  <2>1. HasFields(r) /\ r.locked = FALSE
    BY ResetFields
  <2>2. b = n.border /\ m1 = CpuBorder(r, cpu, b)
    BY <1>5, <1>11 DEF CpuBorder
  <2> HIDE DEF r, b, m1
  <2> QED BY <2>1, <2>2, CpuFieldsSet
<1> HIDE DEF m1
<1>15. /\ HasFields(m2) /\ m2.model = "48K" /\ m2.ram = Filled("48K", fill)
       /\ m2.cpu = cpu /\ m2.border = n.border
  BY <1>14, ModelFields
<1> HIDE DEF m2
<1>16. (packed => Unpacked(f, tmp, 30, 3 * PageBytes) = n.ram)
       /\ (~packed => Bytes(f, 30, 3 * PageBytes) = n.ram)
  <2> DEFINE p == 30
             l == 3 * PageBytes
             ram == n.ram
  <2>0. p \in Nat /\ ram \in Seq(R8) /\ l = Len(ram) /\ Holds(f, p, mem)
        /\ (packed <=> compressed)
    BY <1>3, <1>5, <1>10, <1>11
  <2>1. CASE compressed
    <3> DEFINE data == Packed(ram)
               q == p + Len(data)
    <3>1. mem = data \o tail
      BY <2>1 DEF mem
    <3>2. data \in Seq(R8) /\ q = p + Len(data) /\ q \in Nat
      BY <1>8
    <3> HIDE DEF p, l, ram, q
    <3> HIDE DEF data
    <3>3. Holds(f, p, data) /\ Holds(f, q, tail)
      BY <1>7, <1>10, <2>0, <3>1, <3>2, HoldsParts
    <3>4. HeldAre(f, tmp, q, tail)
      BY <1>7, <1>10, <3>2, <3>3, HeldBytes
    <3>5. U8(f, tmp, q) # Esc
      BY <1>7, <3>4 DEF HeldAre
    <3>6. U8(f, tmp, p + Len(Packed(ram))) # Esc /\ Holds(f, p, Packed(ram))
      BY <3>2, <3>3, <3>5 DEF data
    <3>7. Unpacked(f, tmp, p, Len(ram)) = ram
      BY <1>10, <2>0, <3>6, PageRoundTrip
    <3> QED BY <2>0, <2>1, <3>7 DEF p, l, ram
  <2>2. CASE ~compressed
    <3>1. mem = ram
      BY <2>2 DEF mem
    <3> HIDE DEF p, l, ram
    <3>3. Holds(f, p, ram)
      BY <2>0, <3>1
    <3>2. Bytes(f, p, l) = ram
      BY <1>10, <2>0, <3>3, BytesHeld
    <3> QED BY <2>0, <2>2, <3>2 DEF p, l, ram
  <2> QED BY <2>1, <2>2
<1>17. Stored(m2.ram, 0, n.ram) = n.ram /\ ~Overruns(m2.ram, 0, n.ram)
  <2> DEFINE b == 3
  <2>1. b \in 0..8 /\ IsRam(n.ram, b)
    BY <1>3
  <2>2. IsRam(m2.ram, b)
    BY <1>15, FilledIs DEF RamBanks
  <2> HIDE DEF b
  <2> QED BY <2>1, <2>2, StoredWhole
<1>18. done = Result(WithRam(m2, n.ram), 0, FALSE)
  <2>1. done = Result([m2 EXCEPT !.ram = Stored(@, 0, n.ram)], 0, Overruns(m2.ram, 0, n.ram))
    BY <1>16 DEF ReadWhole
  <2>2. Overruns(m2.ram, 0, n.ram) = FALSE
    BY <1>17 DEF Overruns
  <2>3. [m2 EXCEPT !.ram = Stored(@, 0, n.ram)] = WithRam(m2, n.ram)
    BY <1>17 DEF WithRam
  <2> QED BY <2>1, <2>2, <2>3 DEF Result
<1> HIDE DEF done
<1>19. Continues(done, n)
  <2> DEFINE last == WithRam(m2, n.ram)
  <2>1. /\ last.ram = n.ram /\ last.model = m2.model /\ last.cpu = m2.cpu
        /\ last.border = m2.border
    BY <1>15, RamFields
  <2>2. done.m = last /\ done.rc = 0 /\ done.over = FALSE
    BY <1>18 DEF Result
  <2> HIDE DEF last
  <2> QED BY <1>11, <1>15, <2>1, <2>2 DEF Continues
<1> QED BY <1>13, <1>19 DEF f

(***************************************************************************)
(* The head of a .sna file.                                                 *)
(***************************************************************************)
SnaAre(f, tmp, c, iff, border) ==
  /\ U8(f, tmp, 0) = c.I /\ U8(f, tmp, 1) = c.L_ /\ U8(f, tmp, 2) = c.H_
  /\ U8(f, tmp, 3) = c.E_ /\ U8(f, tmp, 4) = c.D_ /\ U8(f, tmp, 5) = c.C_
  /\ U8(f, tmp, 6) = c.B_ /\ U8(f, tmp, 7) = c.F_ /\ U8(f, tmp, 8) = c.A_
  /\ U8(f, tmp, 9) = c.L /\ U8(f, tmp, 10) = c.H /\ U8(f, tmp, 11) = c.E
  /\ U8(f, tmp, 12) = c.D /\ U8(f, tmp, 13) = c.C /\ U8(f, tmp, 14) = c.B
  /\ U16(f, tmp, 15) = c.IY /\ U16(f, tmp, 17) = c.IX /\ U8(f, tmp, 19) = iff
  /\ U8(f, tmp, 20) = c.R /\ U8(f, tmp, 21) = c.F /\ U8(f, tmp, 22) = c.A
  /\ U16(f, tmp, 23) = c.SP /\ U8(f, tmp, 25) = c.IM /\ U8(f, tmp, 26) = border

LEMMA SnaHeld ==
  ASSUME NEW f \in Seq(R8), NEW tmp, NEW mm, mm.cpu \in CpuState, mm.border \in 0..7
  PROVE  /\ SnaHead(mm) \in Seq(R8) /\ Len(SnaHead(mm)) = 27
         /\ Holds(f, 0, SnaHead(mm)) => SnaAre(f, tmp, mm.cpu, 4 * mm.cpu.IFF1, mm.border)
<1> DEFINE c == mm.cpu
           iff == 4 * c.IFF1
           border == mm.border
           t1 == <<c.I, c.L_, c.H_, c.E_, c.D_, c.C_, c.B_, c.F_, c.A_>>
           t2 == <<c.L, c.H, c.E, c.D, c.C, c.B>>
           t3 == Le(c.IY)
           t4 == Le(c.IX)
           t5 == <<iff, c.R, c.F, c.A>>
           t6 == Le(c.SP)
           t7 == <<c.IM, border>>
           s1 == t1 \o t2
           s2 == s1 \o t3
           s3 == s2 \o t4
           s4 == s3 \o t5
           s5 == s4 \o t6
           s6 == s5 \o t7
<1>1. s6 = SnaHead(mm)
  BY DEF SnaHead
<1>0. c \in CpuState
  OBVIOUS
<1> HIDE DEF c
<1>2. iff \in R8 /\ border \in R8 /\ 0..2 \subseteq R8
  <2>1. c.IFF1 \in 0..1
    BY <1>0, CpuFields
  <2>2. iff \in {0, 4}
    BY <2>1
  <2>3. 0 \in R8 /\ 4 \in R8 /\ 0..7 \subseteq R8 /\ 0..2 \subseteq R8
    BY DEF R8
  <2> HIDE DEF iff
  <2> QED BY <2>2, <2>3
<1> HIDE DEF iff, border
<1>3. t1 \in Seq(R8) /\ Len(t1) = 9
  <2>1. /\ c.I \in R8 /\ c.L_ \in R8 /\ c.H_ \in R8 /\ c.E_ \in R8 /\ c.D_ \in R8
        /\ c.C_ \in R8 /\ c.B_ \in R8 /\ c.F_ \in R8 /\ c.A_ \in R8
    BY <1>0, <1>2, CpuFields
  <2> QED BY <2>1
<1>4. t2 \in Seq(R8) /\ Len(t2) = 6
  <2>1. c.L \in R8 /\ c.H \in R8 /\ c.E \in R8 /\ c.D \in R8 /\ c.C \in R8 /\ c.B \in R8
    BY <1>0, <1>2, CpuFields
  <2> QED BY <2>1
<1>5. t3 \in Seq(R8) /\ Len(t3) = 2
  BY <1>0, CpuFields, LeType
<1>6. t4 \in Seq(R8) /\ Len(t4) = 2
  BY <1>0, CpuFields, LeType
<1>7. t5 \in Seq(R8) /\ Len(t5) = 4
  <2>1. iff \in R8 /\ c.R \in R8 /\ c.F \in R8 /\ c.A \in R8
    BY <1>0, <1>2, CpuFields
  <2> QED BY <2>1
<1>8. t6 \in Seq(R8) /\ Len(t6) = 2
  BY <1>0, CpuFields, LeType
<1>9. t7 \in Seq(R8) /\ Len(t7) = 2
  <2>1. c.IM \in R8 /\ border \in R8
    BY <1>0, <1>2, CpuFields
  <2> QED BY <2>1
<1> HIDE DEF s1, s2, s3, s4, s5, s6
<1>10. /\ t1[1] = c.I /\ t1[2] = c.L_ /\ t1[3] = c.H_ /\ t1[4] = c.E_ /\ t1[5] = c.D_
       /\ t1[6] = c.C_ /\ t1[7] = c.B_ /\ t1[8] = c.F_ /\ t1[9] = c.A_
  OBVIOUS
<1>11. t2[1] = c.L /\ t2[2] = c.H /\ t2[3] = c.E /\ t2[4] = c.D /\ t2[5] = c.C /\ t2[6] = c.B
  OBVIOUS
<1>12. t5[1] = iff /\ t5[2] = c.R /\ t5[3] = c.F /\ t5[4] = c.A
  OBVIOUS
<1>13. t7[1] = c.IM /\ t7[2] = border
  OBVIOUS
<1> HIDE DEF t1, t2, t3, t4, t5, t6, t7
<1>14. s1 \in Seq(R8) /\ Len(s1) = 15
  <2>1. s1 \in Seq(R8) /\ Len(s1) = Len(t1) + Len(t2)
    BY <1>3, <1>4, ConcatType DEF s1
  <2> QED BY <1>3, <1>4, <2>1
<1>15. s2 \in Seq(R8) /\ Len(s2) = 17
  <2>1. s2 \in Seq(R8) /\ Len(s2) = Len(s1) + Len(t3)
    BY <1>14, <1>5, ConcatType DEF s2
  <2> QED BY <1>14, <1>5, <2>1
<1>16. s3 \in Seq(R8) /\ Len(s3) = 19
  <2>1. s3 \in Seq(R8) /\ Len(s3) = Len(s2) + Len(t4)
    BY <1>15, <1>6, ConcatType DEF s3
  <2> QED BY <1>15, <1>6, <2>1
<1>17. s4 \in Seq(R8) /\ Len(s4) = 23
  <2>1. s4 \in Seq(R8) /\ Len(s4) = Len(s3) + Len(t5)
    BY <1>16, <1>7, ConcatType DEF s4
  <2> QED BY <1>16, <1>7, <2>1
<1>18. s5 \in Seq(R8) /\ Len(s5) = 25
  <2>1. s5 \in Seq(R8) /\ Len(s5) = Len(s4) + Len(t6)
    BY <1>17, <1>8, ConcatType DEF s5
  <2> QED BY <1>17, <1>8, <2>1
<1>19. s6 \in Seq(R8) /\ Len(s6) = 27
  <2>1. s6 \in Seq(R8) /\ Len(s6) = Len(s5) + Len(t7)
    BY <1>18, <1>9, ConcatType DEF s6
  <2> QED BY <1>18, <1>9, <2>1
<1>20. ASSUME Holds(f, 0, s6) PROVE SnaAre(f, tmp, c, iff, border)
  <2>1. Holds(f, 0, s5) /\ Holds(f, 25, t7)
    BY <1>18, <1>9, <1>20, Peel DEF s6
  <2>2. Holds(f, 0, s4) /\ Holds(f, 23, t6)
    BY <1>17, <1>8, <2>1, Peel DEF s5
  <2>3. Holds(f, 0, s3) /\ Holds(f, 19, t5)
    BY <1>16, <1>7, <2>2, Peel DEF s4
  <2>4. Holds(f, 0, s2) /\ Holds(f, 17, t4)
    BY <1>15, <1>6, <2>3, Peel DEF s3
  <2>5. Holds(f, 0, s1) /\ Holds(f, 15, t3)
    BY <1>14, <1>5, <2>4, Peel DEF s2
  <2>6. Holds(f, 0, t1) /\ Holds(f, 9, t2)
    BY <1>3, <1>4, <2>5, Peel DEF s1
  <2>7. /\ U8(f, tmp, 0) = c.I /\ U8(f, tmp, 1) = c.L_ /\ U8(f, tmp, 2) = c.H_
        /\ U8(f, tmp, 3) = c.E_ /\ U8(f, tmp, 4) = c.D_ /\ U8(f, tmp, 5) = c.C_
        /\ U8(f, tmp, 6) = c.B_ /\ U8(f, tmp, 7) = c.F_ /\ U8(f, tmp, 8) = c.A_
    <3>1. HeldAre(f, tmp, 0, t1)
      BY <1>3, <2>6, HeldBytes
    <3> QED BY <1>3, <1>10, <3>1 DEF HeldAre
  <2>8. /\ U8(f, tmp, 9) = c.L /\ U8(f, tmp, 10) = c.H /\ U8(f, tmp, 11) = c.E
        /\ U8(f, tmp, 12) = c.D /\ U8(f, tmp, 13) = c.C /\ U8(f, tmp, 14) = c.B
    <3>1. HeldAre(f, tmp, 9, t2)
      BY <1>4, <2>6, HeldBytes
    <3> QED BY <1>4, <1>11, <3>1 DEF HeldAre
  <2>9. U16(f, tmp, 15) = c.IY
    BY <2>5, <1>0, CpuFields, HeldWord DEF t3
  <2>10. U16(f, tmp, 17) = c.IX
    BY <2>4, <1>0, CpuFields, HeldWord DEF t4
  <2>11. /\ U8(f, tmp, 19) = iff /\ U8(f, tmp, 20) = c.R /\ U8(f, tmp, 21) = c.F
         /\ U8(f, tmp, 22) = c.A
    <3>1. HeldAre(f, tmp, 19, t5)
      BY <1>7, <2>3, HeldBytes
    <3> QED BY <1>7, <1>12, <3>1 DEF HeldAre
  <2>12. U16(f, tmp, 23) = c.SP
    BY <2>2, <1>0, CpuFields, HeldWord DEF t6
  <2>13. U8(f, tmp, 25) = c.IM /\ U8(f, tmp, 26) = border
    <3>1. HeldAre(f, tmp, 25, t7)
      BY <1>9, <2>1, HeldBytes
    <3> QED BY <1>9, <1>13, <3>1 DEF HeldAre
  <2> QED BY <2>7, <2>8, <2>9, <2>10, <2>11, <2>12, <2>13 DEF SnaAre
<1> QED BY <1>1, <1>19, <1>20 DEF c, iff, border

\* The CPU as a .sna file knows it.
OneIFF(c) == [c EXCEPT !.IFF2 = c.IFF1]

LEMMA OneIFFIs ==
  ASSUME NEW c \in CpuState
  PROVE  /\ OneIFF(c) \in CpuState /\ OneIFF(c).IFF1 = c.IFF1 /\ OneIFF(c).IFF2 = c.IFF1
         /\ OneIFF(c).SP = c.SP /\ OneIFF(c).PC = c.PC
         /\ \A f, tmp, iff, border :
              SnaAre(f, tmp, c, iff, border) => SnaAre(f, tmp, OneIFF(c), iff, border)
<1> DEFINE d == OneIFF(c)
<1>1. d \in CpuState
  BY DEF CpuState, OneIFF
<1>2. /\ d.A = c.A /\ d.F = c.F /\ d.B = c.B /\ d.C = c.C
      /\ d.D = c.D /\ d.E = c.E /\ d.H = c.H /\ d.L = c.L
      /\ d.A_ = c.A_ /\ d.F_ = c.F_ /\ d.B_ = c.B_ /\ d.C_ = c.C_
      /\ d.D_ = c.D_ /\ d.E_ = c.E_ /\ d.H_ = c.H_ /\ d.L_ = c.L_
      /\ d.IX = c.IX /\ d.IY = c.IY /\ d.SP = c.SP /\ d.I = c.I
      /\ d.R = c.R /\ d.IFF1 = c.IFF1 /\ d.IFF2 = c.IFF1 /\ d.IM = c.IM /\ d.PC = c.PC
  BY DEF CpuState, OneIFF
<1> HIDE DEF d
<1>3. ASSUME NEW f, NEW tmp, NEW iff, NEW border, SnaAre(f, tmp, c, iff, border)
      PROVE  SnaAre(f, tmp, d, iff, border)
  BY <1>2, <1>3 DEF SnaAre
<1> QED BY <1>1, <1>2, <1>3 DEF d

LEMMA SnaCpuRead ==
  ASSUME NEW f, NEW tmp, NEW c \in CpuState, c.IFF2 = c.IFF1, NEW border,
         SnaAre(f, tmp, c, 4 * c.IFF1, border)
  PROVE  SnaCpu(f, tmp) = Loaded(c, 0)
<1> DEFINE i1 == Flag(U8(f, tmp, 19))
           z == 0
<1>1. i1 = c.IFF1
  <2>1. c.IFF1 \in 0..1 /\ U8(f, tmp, 19) = 4 * c.IFF1
    <3>1. c.IFF1 \in 0..1
      BY CpuFields
    <3> QED BY <3>1 DEF SnaAre
  <2>2. c.IFF1 = 0 \/ c.IFF1 = 1
    BY <2>1
  <2> QED BY <2>1, <2>2 DEF Flag
<1>2. SnaCpu(f, tmp) =
       [I |-> U8(f, tmp, 0), L_ |-> U8(f, tmp, 1), H_ |-> U8(f, tmp, 2), E_ |-> U8(f, tmp, 3),
        D_ |-> U8(f, tmp, 4), C_ |-> U8(f, tmp, 5), B_ |-> U8(f, tmp, 6), F_ |-> U8(f, tmp, 7),
        A_ |-> U8(f, tmp, 8), L |-> U8(f, tmp, 9), H |-> U8(f, tmp, 10), E |-> U8(f, tmp, 11),
        D |-> U8(f, tmp, 12), C |-> U8(f, tmp, 13), B |-> U8(f, tmp, 14),
        IY |-> U16(f, tmp, 15), IX |-> U16(f, tmp, 17), IFF2 |-> i1, IFF1 |-> i1,
        R |-> U8(f, tmp, 20), F |-> U8(f, tmp, 21), A |-> U8(f, tmp, 22),
        SP |-> U16(f, tmp, 23), IM |-> U8(f, tmp, 25), PC |-> z,
        modifier |-> FALSE, halted |-> FALSE, lock |-> FALSE]
  BY DEF SnaCpu
<1>3. z \in R16
  BY DEF R16
<1> HIDE DEF i1, z
<1>4. SnaCpu(f, tmp) =
       [I |-> c.I, L_ |-> c.L_, H_ |-> c.H_, E_ |-> c.E_, D_ |-> c.D_, C_ |-> c.C_,
        B_ |-> c.B_, F_ |-> c.F_, A_ |-> c.A_, L |-> c.L, H |-> c.H, E |-> c.E,
        D |-> c.D, C |-> c.C, B |-> c.B, IY |-> c.IY, IX |-> c.IX, IFF2 |-> c.IFF2,
        IFF1 |-> c.IFF1, R |-> c.R, F |-> c.F, A |-> c.A, SP |-> c.SP, IM |-> c.IM, PC |-> z,
        modifier |-> FALSE, halted |-> FALSE, lock |-> FALSE]
  BY <1>1, <1>2 DEF SnaAre
<1>5. SnaCpu(f, tmp) = Loaded(c, z)
  BY <1>3, <1>4, LoadedIs
<1> QED BY <1>5 DEF z

(***************************************************************************)
(* Whole banks, one after the other.                                        *)
(***************************************************************************)
\* Up to eight banks of a machine.
AreBanks(order, n) ==
  /\ n \in 0..8 /\ order \in Seq(0..8) /\ Len(order) \in 1..8
  /\ \A i \in 1..Len(order) : order[i] < n

BankParts(ram, order) == [i \in DOMAIN order |-> Bank(ram, order[i])]

LEMMA BankPartsAre ==
  ASSUME NEW n, NEW order, AreBanks(order, n), NEW ram, IsRam(ram, n)
  PROVE  /\ BankParts(ram, order) \in Seq(Seq(R8))
         /\ Len(BankParts(ram, order)) = Len(order)
         /\ \A i \in 1..Len(order) :
              BankParts(ram, order)[i] = Bank(ram, order[i]) /\ Len(Bank(ram, order[i])) = PageBytes
<1> DEFINE s == BankParts(ram, order)
           l == Len(order)
<1>1. n \in 0..8 /\ l \in Nat /\ DOMAIN order = 1..l /\ \A i \in 1..l : order[i] \in 0..8 /\ order[i] < n
  BY DEF AreBanks
<1> HIDE DEF l
<1>2. s = [i \in 1..l |-> Bank(ram, order[i])]
  BY <1>1 DEF BankParts
<1>3. ASSUME NEW i \in 1..l PROVE Bank(ram, order[i]) \in Seq(R8) /\ Len(Bank(ram, order[i])) = PageBytes
  <2> DEFINE b == order[i]
  <2>1. b \in 0..8 /\ b < n
    BY <1>1
  <2> HIDE DEF b
  <2>2. Bank(ram, b) \in Seq(R8) /\ Len(Bank(ram, b)) = PageBytes
    BY <1>1, <2>1, BankIs
  <2> QED BY <2>2 DEF b
<1> HIDE DEF s
<1>4. s \in Seq(Seq(R8)) /\ Len(s) = l
  BY <1>1, <1>2, <1>3
<1>5. \A i \in 1..l : s[i] = Bank(ram, order[i])
  BY <1>2
<1> QED BY <1>3, <1>4, <1>5 DEF s, l

\* Each bank is held at its place.
BanksHeld(f, pos, order, ram) ==
  \A i \in 1..Len(order) : Holds(f, pos + Size(i - 1), Bank(ram, order[i]))

LEMMA BanksAreHeld ==
  ASSUME NEW n, NEW order, AreBanks(order, n), NEW ram, IsRam(ram, n),
         NEW f \in Seq(R8), NEW pos \in Nat, Holds(f, pos, BanksOf(ram, order))
  PROVE  BanksHeld(f, pos, order, ram) /\ Len(BanksOf(ram, order)) = Size(Len(order))
<1> DEFINE s == BankParts(ram, order)
           l == Len(order)
<1>1. l \in 1..8 /\ l \in 0..8 /\ l \in Nat
  BY DEF AreBanks
<1>2. s \in Seq(Seq(R8)) /\ Len(s) = l
      /\ \A i \in 1..l : s[i] = Bank(ram, order[i]) /\ Len(s[i]) = PageBytes
  BY BankPartsAre
<1>3. BanksOf(ram, order) = FlattenSeq(s)
  BY DEF BanksOf, BankParts
<1> HIDE DEF s, l
<1>4. PICK at : Laid(f, pos, s, at) /\ at[Len(s) + 1] = pos + Len(FlattenSeq(s))
  <2>1. Len(s) > 0
    BY <1>1, <1>2
  <2> QED BY <1>2, <1>3, <2>1, PartsLaid
<1>5. at[1] = pos /\ \A i \in 1..l : Holds(f, at[i], Bank(ram, order[i])) /\ at[i + 1] = at[i] + PageBytes
  <2>1. at[1] = pos /\ \A i \in 1..l : Holds(f, at[i], s[i]) /\ at[i + 1] = at[i] + Len(s[i])
    BY <1>2, <1>4 DEF Laid
  <2> QED BY <1>2, <2>1
<1> DEFINE T == {k \in 0..l : at[k + 1] # pos + Size(k)}
<1>6. T = {}
  <2>1. T \in SUBSET Nat /\ \A k : k \in T <=> k \in 0..l /\ at[k + 1] # pos + Size(k)
    OBVIOUS
  <2> HIDE DEF T
  <2> SUFFICES ASSUME T # {} PROVE FALSE
    OBVIOUS
  <2>2. PICK k \in T : \A j \in T : k <= j
    BY <2>1, Least
  <2>3. k \in 0..l /\ at[k + 1] # pos + Size(k)
    BY <2>1
  <2>4. k # 0
    <3>1. Size(0) = 0
      BY PageBytesIs DEF Size
    <3> QED BY <1>5, <2>3, <3>1
  <2> DEFINE j == k - 1
  <2>5. k \in 1..l /\ j \in 0..l /\ j \in 0..8 /\ ~(k <= j) /\ j + 1 = k
    BY <1>1, <2>3, <2>4
  <2> HIDE DEF j
  <2>6. at[j + 1] = pos + Size(j)
    BY <2>1, <2>2, <2>5
  <2>7. at[k + 1] = (pos + Size(j)) + PageBytes
    BY <1>5, <2>5, <2>6
  <2>8. Size(j) \in Nat /\ Size(k) = Size(j) + PageBytes /\ PageBytes \in Nat
    <3>1. Size(j) \in Nat /\ Size(j + 1) = Size(j) + PageBytes
      BY <2>5, SizeIs
    <3> QED BY <2>5, <3>1, PageBytesIs
  <2> QED BY <2>3, <2>7, <2>8
<1>7. \A k \in 0..l : at[k + 1] = pos + Size(k)
  BY <1>6
<1>8. BanksHeld(f, pos, order, ram)
  <2> SUFFICES ASSUME NEW i \in 1..l PROVE Holds(f, pos + Size(i - 1), Bank(ram, order[i]))
    BY DEF BanksHeld, l
  <2> DEFINE j == i - 1
  <2>1. j \in 0..l /\ j + 1 = i
    BY <1>1
  <2> HIDE DEF j
  <2>2. at[i] = pos + Size(j)
    BY <1>7, <2>1
  <2> QED BY <1>5, <2>2 DEF j
<1>9. Len(BanksOf(ram, order)) = Size(l)
  <2>1. at[l + 1] = pos + Len(FlattenSeq(s)) /\ l \in 0..l
    BY <1>1, <1>2, <1>4
  <2>2. FlattenSeq(s) \in Seq(R8)
    BY <1>1, <1>2, FlattenType
  <2> DEFINE x == Len(FlattenSeq(s))
             y == Size(l)
  <2>3. x \in Nat /\ y \in Nat
    <3>1. y \in Nat
      BY <1>1, SizeIs
    <3> HIDE DEF y
    <3> QED BY <2>2, <3>1
  <2>4. pos + x = pos + y
    BY <1>7, <2>1
  <2> HIDE DEF x, y
  <2>5. x = y
    BY <2>3, <2>4
  <2> QED BY <1>3, <2>5 DEF x, y
<1> QED BY <1>8, <1>9 DEF l

LEMMA BanksOfType ==
  ASSUME NEW n, NEW order, AreBanks(order, n), NEW ram, IsRam(ram, n)
  PROVE  BanksOf(ram, order) \in Seq(R8) /\ Len(BanksOf(ram, order)) = Size(Len(order))
<1> DEFINE s == BankParts(ram, order)
           f == BanksOf(ram, order)
           pos == 0
<1>1. s \in Seq(Seq(R8)) /\ Len(s) > 0
  <2>1. s \in Seq(Seq(R8)) /\ Len(s) = Len(order)
    BY BankPartsAre
  <2>2. Len(order) \in 1..8
    BY DEF AreBanks
  <2> QED BY <2>1, <2>2
<1>2. f = FlattenSeq(s)
  BY DEF BanksOf, BankParts
<1> HIDE DEF s
<1>3. f \in Seq(R8) /\ pos \in Nat
  BY <1>1, <1>2, FlattenType
<1> HIDE DEF f
<1>4. Holds(f, pos, f)
  BY <1>3 DEF Holds
<1> HIDE DEF pos
<1>5. Holds(f, pos, BanksOf(ram, order))
  BY <1>4 DEF f
<1>6. Len(BanksOf(ram, order)) = Size(Len(order))
  BY <1>3, <1>5, BanksAreHeld
<1> QED BY <1>3, <1>6 DEF f

\* Reading them.
ReadBanksStep(ram, f, pos, order, g, i) ==
  IF i = 0 THEN ram
  ELSE Stored(g[i - 1], order[i] * PageBytes, Bytes(f, pos + ((i - 1) * PageBytes), PageBytes))
IsBankReading(ram, f, pos, order, g) ==
  g = [i \in 0..Len(order) |-> ReadBanksStep(ram, f, pos, order, g, i)]
BanksIn(order, i) == {order[j] : j \in 1..i}

LEMMA BanksAreRead ==
  ASSUME NEW n, NEW order, AreBanks(order, n), NEW old, IsRam(old, n), NEW new, IsRam(new, n),
         NEW banks, NEW f \in Seq(R8), NEW pos \in Nat, BanksHeld(f, pos, order, new)
  PROVE  ReadBanks(Mixed(n, banks, old, new), f, pos, order)
           = Mixed(n, banks \cup BanksIn(order, Len(order)), old, new)
<1> DEFINE l == Len(order)
           ram == Mixed(n, banks, old, new)
           w == [i \in 0..l |-> Mixed(n, banks \cup BanksIn(order, i), old, new)]
           g == CHOOSE h : IsBankReading(ram, f, pos, order, h)
<1>1. n \in 0..8 /\ l \in 1..8 /\ l \in Nat /\ \A i \in 1..l : order[i] \in 0..8 /\ order[i] < n
  BY DEF AreBanks
<1>2. ReadBanks(ram, f, pos, order) = g[l]
  <2> HIDE DEF ram
  <2> QED BY DEF ReadBanks, IsBankReading, ReadBanksStep
<1> HIDE DEF g, l
<1>3. w[0] = ram
  <2>1. BanksIn(order, 0) = {}
    BY DEF BanksIn
  <2>2. banks \cup {} = banks /\ 0 \in 0..l
    BY <1>1
  <2> QED BY <2>1, <2>2
<1>4. ASSUME NEW i \in 1..l
      PROVE  w[i] = Stored(w[i - 1], order[i] * PageBytes,
                           Bytes(f, pos + ((i - 1) * PageBytes), PageBytes))
  <2> DEFINE b == order[i]
             j == i - 1
             more == banks \cup BanksIn(order, j)
             p == pos + Size(j)
             page == Bank(new, b)
  <2>1. j \in 0..l /\ i \in 0..l /\ j \in 0..8 /\ b \in 0..8 /\ b < n
    BY <1>1
  <2>2. w[j] = Mixed(n, more, old, new) /\ w[i] = Mixed(n, banks \cup BanksIn(order, i), old, new)
    BY <2>1
  <2>3. banks \cup BanksIn(order, i) = more \cup {b}
    <3>1. \A k : k \in 1..i <=> k \in 1..j \/ k = i
      BY <1>1
    <3> QED BY <3>1 DEF BanksIn
  <2>4. Holds(f, p, page)
    BY DEF BanksHeld, l
  <2>5. p \in Nat /\ Size(j) = (i - 1) * PageBytes /\ Size(b) = order[i] * PageBytes
    <3>1. Size(j) \in Nat
      BY <2>1, SizeIs
    <3> QED BY <3>1 DEF Size
  <2>9. p = pos + ((i - 1) * PageBytes)
    BY <2>5
  <2> HIDE DEF w, b, j, more, p
  <2>6. page \in Seq(R8) /\ PageBytes = Len(page)
    BY <1>1, <2>1, BankIs
  <2> HIDE DEF page
  <2>7. Bytes(f, p, PageBytes) = page
    BY <2>4, <2>5, <2>6, BytesHeld
  <2>8. Stored(Mixed(n, more, old, new), Size(b), page) = Mixed(n, more \cup {b}, old, new)
    <3>1. BankIsStored(n, more, old, new, b)
      BY <1>1, <2>1, BankStored
    <3> QED BY <3>1 DEF BankIsStored, page
  <2>10. w[i] = Stored(w[j], Size(b), Bytes(f, p, PageBytes))
    BY <2>2, <2>3, <2>7, <2>8
  <2> QED BY <2>5, <2>9, <2>10 DEF j
<1>5. w = [i \in 0..l |-> w[i]]
  OBVIOUS
<1>6. w[l] = Mixed(n, banks \cup BanksIn(order, l), old, new)
  BY <1>1
<1> HIDE DEF w, ram
<1>7. IsBankReading(ram, f, pos, order, w)
  <2>1. \A i \in 0..l : w[i] = ReadBanksStep(ram, f, pos, order, w, i)
    <3>1. \A i \in 0..l : i # 0 => i \in 1..l
      BY <1>1
    <3> QED BY <1>3, <1>4, <3>1 DEF ReadBanksStep
  <2> QED BY <1>5, <2>1 DEF IsBankReading, l
<1>8. IsBankReading(ram, f, pos, order, g)
  BY <1>7 DEF g
<1>9. \A i \in 0..l : g[i] = ReadBanksStep(ram, f, pos, order, g, i)
  BY <1>8 DEF IsBankReading, l
<1> DEFINE T == {i \in 0..l : g[i] # w[i]}
<1>10. T = {}
  <2>1. T \in SUBSET Nat /\ \A i : i \in T <=> i \in 0..l /\ g[i] # w[i]
    OBVIOUS
  <2> HIDE DEF T
  <2> SUFFICES ASSUME T # {} PROVE FALSE
    OBVIOUS
  <2>2. PICK i \in T : \A j \in T : i <= j
    BY <2>1, Least
  <2>3. i \in 0..l /\ g[i] # w[i]
    BY <2>1
  <2>4. i # 0
    BY <1>1, <1>3, <1>9, <2>3 DEF ReadBanksStep
  <2> DEFINE j == i - 1
  <2>5. i \in 1..l /\ j \in 0..l /\ ~(i <= j)
    BY <1>1, <2>3, <2>4
  <2> HIDE DEF j
  <2>6. g[j] = w[j]
    BY <2>1, <2>2, <2>5
  <2>7. g[i - 1] = w[i - 1]
    BY <2>6 DEF j
  <2> QED BY <1>4, <1>9, <2>3, <2>4, <2>5, <2>7 DEF ReadBanksStep
<1>11. g[l] = w[l]
  BY <1>1, <1>10
<1> QED BY <1>2, <1>6, <1>11 DEF ram, l

(***************************************************************************)
(* The banks that are not among the first three of a 128K .sna file.        *)
(***************************************************************************)
OthersStep(page, g, n) ==
  IF n = 0 THEN <<>>
  ELSE IF n - 1 \in {2, 5, page % 8} THEN g[n - 1]
  ELSE Append(g[n - 1], n - 1)
IsOthers(page, g) == g = [n \in 0..8 |-> OthersStep(page, g, n)]

LEMMA OthersExist ==
  ASSUME NEW page
  PROVE  \E g \in [0..8 -> Seq(0..8)] : IsOthers(page, g)
<1> DEFINE S == 0..8
           V == Seq(0..8)
           mu == [n \in S |-> n]
           F == [n \in S |-> [g \in [S -> V] |-> OthersStep(page, g, n)]]
<1>0. \A n \in S : n # 0 => n - 1 \in S /\ n - 1 < n /\ n - 1 \in 0..8
  OBVIOUS
<1>1. mu \in [S -> Nat] /\ \A n \in S : mu[n] = n
  OBVIOUS
<1>2. \A n \in S : \A g \in [S -> V] : F[n][g] = OthersStep(page, g, n)
  OBVIOUS
<1>3. <<>> \in V /\ \A s \in V : \A b \in 0..8 : Append(s, b) \in V
  OBVIOUS
<1>4. F \in [S -> [[S -> V] -> V]]
  <2>1. ASSUME NEW n \in S, NEW g \in [S -> V] PROVE OthersStep(page, g, n) \in V
    <3>1. CASE n = 0
      BY <1>3, <3>1 DEF OthersStep
    <3>2. CASE n # 0
      <4>1. g[n - 1] \in V /\ n - 1 \in 0..8
        BY <1>0, <3>2
      <4> HIDE DEF V, S
      <4> QED BY <1>3, <3>2, <4>1 DEF OthersStep
    <3> QED BY <3>1, <3>2
  <2> QED BY <2>1
<1> HIDE DEF V, mu, F, S
<1>5. ASSUME NEW n \in S, NEW g \in [S -> V], NEW h \in [S -> V],
             \A j \in S : mu[j] < mu[n] => g[j] = h[j]
      PROVE  F[n][g] = F[n][h]
  <2>1. CASE n = 0
    BY <1>2, <2>1 DEF OthersStep
  <2>2. CASE n # 0
    <3>1. g[n - 1] = h[n - 1]
      BY <1>0, <1>1, <1>5, <2>2
    <3> QED BY <1>2, <2>2, <3>1 DEF OthersStep
  <2> QED BY <2>1, <2>2
<1>6. Descends(S, V, F, mu)
  BY <1>1, <1>3, <1>4, <1>5 DEF Descends
<1>7. PICK g \in [S -> V] : \A n \in S : g[n] = F[n][g]
  BY <1>6, Recursion
<1>8. g = [n \in S |-> OthersStep(page, g, n)]
  <2>1. g = [n \in S |-> g[n]] /\ \A n \in S : g[n] = OthersStep(page, g, n)
    BY <1>2, <1>7
  <2> QED BY <2>1
<1> QED BY <1>8 DEF IsOthers, S, V

\* The banks below k but three.
OthersBelow(s, k, q) ==
  /\ s \in Seq(0..8)
  /\ Len(s) = k - (IF k > 2 THEN 1 ELSE 0) - (IF k > 5 THEN 1 ELSE 0)
                - (IF q \notin {2, 5} /\ k > q THEN 1 ELSE 0)
  /\ \A i \in 1..Len(s) : s[i] < k
  /\ \A b \in 0..8 : b < k /\ b \notin {2, 5, q} => \E i \in 1..Len(s) : s[i] = b

LEMMA OthersGrow ==
  ASSUME NEW q \in 0..7, NEW k \in 0..7, NEW s, OthersBelow(s, k, q)
  PROVE  /\ k \in {2, 5, q} => OthersBelow(s, k + 1, q)
         /\ k \notin {2, 5, q} => OthersBelow(Append(s, k), k + 1, q)
<1> DEFINE l == Len(s)
<1>1. /\ s \in Seq(0..8) /\ l \in Nat
      /\ l = k - (IF k > 2 THEN 1 ELSE 0) - (IF k > 5 THEN 1 ELSE 0)
               - (IF q \notin {2, 5} /\ k > q THEN 1 ELSE 0)
      /\ \A i \in 1..l : s[i] \in 0..8 /\ s[i] < k
      /\ \A b \in 0..8 : b < k /\ b \notin {2, 5, q} => \E i \in 1..l : s[i] = b
  <2>1. s \in Seq(0..8) /\ \A i \in 1..l : s[i] < k
    BY DEF OthersBelow
  <2>2. l = k - (IF k > 2 THEN 1 ELSE 0) - (IF k > 5 THEN 1 ELSE 0)
               - (IF q \notin {2, 5} /\ k > q THEN 1 ELSE 0)
    BY DEF OthersBelow
  <2>3. \A b \in 0..8 : b < k /\ b \notin {2, 5, q} => \E i \in 1..l : s[i] = b
    BY DEF OthersBelow
  <2>4. l \in Nat /\ \A i \in 1..l : s[i] \in 0..8
    BY <2>1
  <2> HIDE DEF l
  <2> QED BY <2>1, <2>2, <2>3, <2>4
<1>2. /\ k \in Nat /\ k + 1 \in Nat /\ \A x \in 0..8 : x < k => x < k + 1
      /\ \A b \in 0..8 : b < k + 1 => b < k \/ b = k
  OBVIOUS
<1>3. CASE k \in {2, 5, q}
  <2>1. l = (k + 1) - (IF k + 1 > 2 THEN 1 ELSE 0) - (IF k + 1 > 5 THEN 1 ELSE 0)
               - (IF q \notin {2, 5} /\ k + 1 > q THEN 1 ELSE 0)
    <3> HIDE DEF l
    <3> QED BY <1>1, <1>3
  <2> HIDE DEF l
  <2>2. \A i \in 1..l : s[i] < k + 1
    BY <1>1, <1>2
  <2>3. \A b \in 0..8 : b < k + 1 /\ b \notin {2, 5, q} => \E i \in 1..l : s[i] = b
    BY <1>1, <1>2, <1>3
  <2> QED BY <1>1, <1>3, <2>1, <2>2, <2>3 DEF OthersBelow, l
<1>4. CASE k \notin {2, 5, q}
  <2> DEFINE t == Append(s, k)
             n == Len(t)
  <2>1. t \in Seq(0..8) /\ n = l + 1 /\ n \in Nat /\ t[n] = k /\ \A i \in 1..l : t[i] = s[i]
    <3>1. s \in Seq(0..8) /\ k \in 0..8
      BY <1>1
    <3>2. t \in Seq(0..8) /\ n = l + 1
      BY <3>1
    <3>3. t[n] = k
      BY <3>1
    <3>4. \A i \in 1..l : t[i] = s[i]
      BY <3>1
    <3> QED BY <3>2, <3>3, <3>4, <1>1
  <2>2. n = (k + 1) - (IF k + 1 > 2 THEN 1 ELSE 0) - (IF k + 1 > 5 THEN 1 ELSE 0)
               - (IF q \notin {2, 5} /\ k + 1 > q THEN 1 ELSE 0)
    <3> HIDE DEF l, n
    <3> QED BY <1>1, <1>4, <2>1
  <2> HIDE DEF l, t, n
  <2>3. \A i \in 1..n : i \in 1..l \/ i = n
    BY <1>1, <2>1
  <2>4. \A i \in 1..n : t[i] < k + 1
    <3>1. \A i \in 1..l : t[i] < k + 1
      BY <1>1, <1>2, <2>1
    <3>2. t[n] < k + 1
      BY <1>2, <2>1
    <3> QED BY <2>3, <3>1, <3>2
  <2>5. \A i \in 1..l : i \in 1..n
    BY <1>1, <2>1
  <2>6. n \in 1..n
    BY <1>1, <2>1
  <2>7. \A b \in 0..8 : b < k + 1 /\ b \notin {2, 5, q} => \E i \in 1..n : t[i] = b
    BY <1>1, <1>2, <2>1, <2>5, <2>6
  <2> QED BY <1>4, <2>1, <2>2, <2>4, <2>7 DEF OthersBelow, t, n
<1> QED BY <1>3, <1>4

LEMMA OtherBanksAre ==
  ASSUME NEW page \in R8
  PROVE  OthersBelow(OtherBanks(page), 8, page % 8) /\ page % 8 \in 0..7
<1> DEFINE q == page % 8
           g == CHOOSE h : IsOthers(page, h)
<1>1. q \in 0..7
  <2>1. page \in Nat
    BY DEF R8
  <2> QED BY <2>1
<1>2. IsOthers(page, g)
  BY OthersExist
<1>3. OtherBanks(page) = g[8]
  BY DEF OtherBanks, IsOthers, OthersStep
<1> HIDE DEF g
<1>4. \A n \in 0..8 : g[n] = OthersStep(page, g, n)
  BY <1>2 DEF IsOthers
<1>5. g[0] = <<>> /\ \A k \in 0..7 : g[k + 1] = IF k \in {2, 5, q} THEN g[k] ELSE Append(g[k], k)
  <2>1. 0 \in 0..8 /\ \A k \in 0..7 : k + 1 \in 0..8 /\ k + 1 # 0 /\ (k + 1) - 1 = k
    OBVIOUS
  <2>2. g[0] = <<>>
    BY <1>4, <2>1 DEF OthersStep
  <2>3. ASSUME NEW k \in 0..7 PROVE g[k + 1] = IF k \in {2, 5, q} THEN g[k] ELSE Append(g[k], k)
    <3> DEFINE n == k + 1
    <3>1. n \in 0..8 /\ n # 0 /\ n - 1 = k
      OBVIOUS
    <3> HIDE DEF n
    <3> QED BY <1>4, <3>1 DEF OthersStep, n
  <2> QED BY <2>2, <2>3
<1> HIDE DEF q
<1> DEFINE T == {k \in 0..8 : ~OthersBelow(g[k], k, q)}
<1>6. T = {}
  <2>1. T \in SUBSET Nat /\ \A k : k \in T <=> k \in 0..8 /\ ~OthersBelow(g[k], k, q)
    OBVIOUS
  <2> HIDE DEF T
  <2> SUFFICES ASSUME T # {} PROVE FALSE
    OBVIOUS
  <2>2. PICK k \in T : \A j \in T : k <= j
    BY <2>1, Least
  <2>3. k \in 0..8 /\ ~OthersBelow(g[k], k, q)
    BY <2>1
  <2>4. k # 0
    <3>1. OthersBelow(<<>>, 0, q)
      <4> DEFINE s == <<>>
      <4>1. s \in Seq(0..8) /\ Len(s) = 0
        OBVIOUS
      <4> HIDE DEF s
      <4>2. Len(s) = 0 - (IF 0 > 2 THEN 1 ELSE 0) - (IF 0 > 5 THEN 1 ELSE 0)
                       - (IF q \notin {2, 5} /\ 0 > q THEN 1 ELSE 0)
        <5>1. ~(0 > 2) /\ ~(0 > 5) /\ ~(0 > q)
          BY <1>1
        <5> DEFINE x == IF 0 > 2 THEN 1 ELSE 0
                   y == IF 0 > 5 THEN 1 ELSE 0
                   z == IF q \notin {2, 5} /\ 0 > q THEN 1 ELSE 0
        <5>2. x = 0 /\ y = 0
          OBVIOUS
        <5>3. z = 0
          BY <5>1
        <5> HIDE DEF x, y, z
        <5>4. Len(s) = 0 - x - y - z
          BY <4>1, <5>2, <5>3
        <5> QED BY <5>4 DEF x, y, z
      <4>4. (\A b \in 0..8 : ~(b < 0)) /\ \A i \in 1..Len(s) : FALSE
        BY <4>1
      <4>3. OthersBelow(s, 0, q)
        BY ONLY <4>1, <4>2, <4>4 DEF OthersBelow
      <4> QED BY <4>3 DEF s
    <3> QED BY <1>5, <2>3, <3>1
  <2> DEFINE j == k - 1
  <2>5. j \in 0..7 /\ j \in 0..8 /\ ~(k <= j) /\ j + 1 = k
    BY <2>3, <2>4
  <2> HIDE DEF j
  <2>6. OthersBelow(g[j], j, q)
    BY <2>1, <2>2, <2>5
  <2>7. /\ j \in {2, 5, q} => OthersBelow(g[j], k, q)
        /\ j \notin {2, 5, q} => OthersBelow(Append(g[j], j), k, q)
    BY <1>1, <2>5, <2>6, OthersGrow
  <2>8. g[k] = IF j \in {2, 5, q} THEN g[j] ELSE Append(g[j], j)
    BY <1>5, <2>5
  <2> QED BY <2>3, <2>7, <2>8
<1>7. OthersBelow(g[8], 8, q)
  BY <1>6
<1> QED BY <1>1, <1>3, <1>7 DEF q

\* The two lists together.
LEMMA BankLists ==
  ASSUME NEW page \in R8
  PROVE  LET first == FirstBanks(page)
             other == OtherBanks(page)
         IN  /\ AreBanks(first, 8) /\ Len(first) = 3
             /\ AreBanks(other, 8) /\ Len(other) \in {5, 6}
             /\ Covers(8, BanksIn(first, Len(first)) \cup BanksIn(other, Len(other)))
<1> DEFINE q == page % 8
           first == FirstBanks(page)
           other == OtherBanks(page)
           l == Len(other)
<1>1. OthersBelow(other, 8, q) /\ q \in 0..7
  BY OtherBanksAre
<1>2. first = <<5, 2, q>>
  BY DEF FirstBanks
<1> HIDE DEF other, first, q
<1>3. Len(first) = 3 /\ first \in Seq(0..8) /\ first[1] = 5 /\ first[2] = 2 /\ first[3] = q
  BY <1>1, <1>2
<1>4. AreBanks(first, 8)
  <2>1. \A i \in 1..3 : first[i] < 8
    <3>1. \A i \in 1..3 : i = 1 \/ i = 2 \/ i = 3
      OBVIOUS
    <3> QED BY <1>1, <1>3, <3>1
  <2> QED BY <1>3, <2>1 DEF AreBanks
<1>5. l \in {5, 6}
  <2>1. l = 8 - (IF 8 > 2 THEN 1 ELSE 0) - (IF 8 > 5 THEN 1 ELSE 0)
              - (IF q \notin {2, 5} /\ 8 > q THEN 1 ELSE 0)
    BY <1>1 DEF OthersBelow
  <2> HIDE DEF l
  <2> QED BY <2>1
<1>6. AreBanks(other, 8)
  <2>1. other \in Seq(0..8) /\ \A i \in 1..l : other[i] < 8
    BY <1>1 DEF OthersBelow
  <2> QED BY <1>5, <2>1 DEF AreBanks
<1>7. Covers(8, BanksIn(first, Len(first)) \cup BanksIn(other, Len(other)))
  <2>1. ASSUME NEW b \in 0..8, b < 8
        PROVE  b \in BanksIn(first, 3) \cup BanksIn(other, l)
    <3>1. CASE b \in {2, 5, q}
      <4>1. 1 \in 1..3 /\ 2 \in 1..3 /\ 3 \in 1..3
        OBVIOUS
      <4>2. b \in BanksIn(first, 3)
        BY <1>3, <3>1, <4>1 DEF BanksIn
      <4> QED BY <4>2
    <3>2. CASE b \notin {2, 5, q}
      <4>1. \E i \in 1..l : other[i] = b
        BY <1>1, <2>1, <3>2 DEF OthersBelow
      <4> QED BY <4>1 DEF BanksIn
    <3> QED BY <3>1, <3>2
  <2> QED BY <1>3, <2>1 DEF Covers
<1> QED BY <1>3, <1>4, <1>5, <1>6, <1>7 DEF first, other

\* A load of a .sna file that goes on where a machine was.
SnaContinues(res, mm, ram) ==
  /\ res.rc = 0 /\ res.over = FALSE /\ HasFields(res.m)
  /\ res.m.model = mm.model /\ res.m.cpu = Loaded(OneIFF(mm.cpu), mm.cpu.PC)
  /\ res.m.border = mm.border /\ res.m.ram = ram
  /\ mm.model # "48K" => res.m.page = mm.page /\ res.m.locked = mm.locked

\* The machine whose head has been read.
SnaHeadIs(f, tmp, n, mm) ==
  /\ SnaCpu(f, tmp) = Loaded(OneIFF(n.cpu), 0)
  /\ SnaCpu(f, tmp).IM \in 0..2 /\ SnaCpu(f, tmp).SP = n.cpu.SP
  /\ LET r == CpuBorder(Reset(mm), SnaCpu(f, tmp), U8(f, tmp, 26) % 8) IN
     HasFields(r) /\ r.cpu = SnaCpu(f, tmp) /\ r.border = n.border /\ r.locked = FALSE

LEMMA SnaHeadRead ==
  ASSUME NEW f \in Seq(R8), NEW tmp, NEW n, n.cpu \in CpuState, n.border \in 0..7,
         Holds(f, 0, SnaHead(n)), NEW mm, HasFields(mm)
  PROVE  SnaHeadIs(f, tmp, n, mm)
<1> DEFINE c == n.cpu
           d == OneIFF(c)
           iff == 4 * c.IFF1
           z == 0
           cpu == SnaCpu(f, tmp)
           b == U8(f, tmp, 26) % 8
           r == Reset(mm)
<1>1. SnaAre(f, tmp, c, iff, n.border)
  BY SnaHeld
<1>2. c \in CpuState
  OBVIOUS
<1>8. iff = 4 * c.IFF1
  OBVIOUS
<1> HIDE DEF c, iff
<1>3. d \in CpuState /\ d.IFF2 = d.IFF1 /\ d.IFF1 = c.IFF1 /\ d.SP = c.SP
      /\ SnaAre(f, tmp, d, iff, n.border)
  BY <1>1, <1>2, OneIFFIs
<1> HIDE DEF d
<1>4. cpu = Loaded(d, z)
  <2>1. SnaAre(f, tmp, d, 4 * d.IFF1, n.border)
    BY <1>3, <1>8
  <2> QED BY <1>3, <2>1, SnaCpuRead
<1>5. cpu.IM \in 0..2 /\ cpu.SP = c.SP
  <2>1. z \in R16
    BY DEF R16
  <2> HIDE DEF z
  <2>2. Loaded(d, z).SP = d.SP /\ Loaded(d, z).IM = d.IM
    BY <1>3, <2>1, LoadedIs
  <2>3. d.IM \in 0..2
    BY <1>3, CpuFields
  <2> QED BY <1>3, <1>4, <2>2, <2>3
<1>6. b = n.border
  <2>1. U8(f, tmp, 26) = n.border
    BY <1>1 DEF SnaAre
  <2> HIDE DEF c
  <2> QED BY <2>1
<1>7. HasFields(r) /\ r.locked = FALSE
  BY ResetFields
<1> HIDE DEF cpu, b, r
<1>9. LET q == CpuBorder(r, cpu, b) IN
      HasFields(q) /\ q.cpu = cpu /\ q.border = n.border /\ q.locked = FALSE
  BY <1>6, <1>7, CpuFieldsSet
<1> QED BY <1>4, <1>5, <1>9 DEF c, d, z, cpu, b, r, SnaHeadIs

LEMMA Sna128Restores ==
  ASSUME NEW mm, HasFields(mm), NEW tmp \in R8, NEW fill \in R8, NEW n, Savable(n),
         n.model = "128K"
  PROVE  SnaContinues(LoadSna(mm, OtherSna128(n), tmp, fill), n, n.ram)
<1> DEFINE f == OtherSna128(n)
           first == FirstBanks(n.page)
           other == OtherBanks(n.page)
           t1 == SnaHead(n)
           t2 == BanksOf(n.ram, first)
           t3 == Le(n.cpu.PC)
           t4 == <<n.page, 0>>
           t5 == BanksOf(n.ram, other)
           s1 == t1 \o t2
           s2 == s1 \o t3
           s3 == s2 \o t4
           s4 == s3 \o t5
           k == 27 + (3 * PageBytes)
           cpu == SnaCpu(f, tmp)
           m2 == [[Reset(mm) EXCEPT !.cpu = cpu] EXCEPT !.border = U8(f, tmp, 26) % 8]
           m2b == [m2 EXCEPT !.cpu.PC = U16(f, tmp, Sna48Length)]
           m2c == SelectModel(m2b, "128K", fill)
           page == U8(f, tmp, Sna48Length + 2)
           m128 == PageSelect(m2c, page)
           ram1 == ReadBanks(m128.ram, f, 27, FirstBanks(page))
           ram2 == ReadBanks(ram1, f, Sna48Length + 4, OtherBanks(page))
           done == Result([m128 EXCEPT !.ram = ram2], 0, FALSE)
<1>1. f = s4
  BY DEF OtherSna128
<1>2. /\ n.cpu \in CpuState /\ n.cpu.PC \in R16 /\ n.page \in R8
      /\ n.border \in 0..7 /\ n.locked = LockBit(n.page)
  BY SavableIs
<1>3. IsRam(n.ram, 8)
  BY SavableIs DEF RamBanks
<1>4. /\ AreBanks(first, 8) /\ Len(first) = 3 /\ AreBanks(other, 8) /\ Len(other) \in {5, 6}
      /\ Covers(8, BanksIn(first, Len(first)) \cup BanksIn(other, Len(other)))
  BY <1>2, BankLists
<1>5. \A g \in Seq(R8) : /\ t1 \in Seq(R8) /\ Len(t1) = 27
  BY <1>2, SnaHeld
<1>6. t1 \in Seq(R8) /\ Len(t1) = 27
  <2>1. <<>> \in Seq(R8)
    OBVIOUS
  <2> HIDE DEF t1
  <2> QED BY <1>5, <2>1
<1>7. k \in Nat /\ Sna48Length = k /\ Size(3) = 3 * PageBytes /\ Size(3) \in Nat
  BY PageBytesIs DEF Sna48Length, Size
<1>8. t2 \in Seq(R8) /\ Len(t2) = 3 * PageBytes
  <2>1. t2 \in Seq(R8) /\ Len(t2) = Size(Len(first))
    <3> HIDE DEF first
    <3> QED BY <1>3, <1>4, BanksOfType
  <2> QED BY <1>4, <1>7, <2>1
<1>9. t5 \in Seq(R8) /\ Len(t5) \in {5 * PageBytes, 6 * PageBytes}
  <2>1. t5 \in Seq(R8) /\ Len(t5) = Size(Len(other))
    <3> HIDE DEF other
    <3> QED BY <1>3, <1>4, BanksOfType
  <2>2. Size(5) = 5 * PageBytes /\ Size(6) = 6 * PageBytes
    BY DEF Size
  <2> QED BY <1>4, <2>1, <2>2
<1>10. t3 \in Seq(R8) /\ Len(t3) = 2
  BY <1>2, LeType
<1>11. t4 \in Seq(R8) /\ Len(t4) = 2 /\ t4[1] = n.page
  <2>1. 0 \in R8
    BY DEF R8
  <2> QED BY <1>2, <2>1
<1> HIDE DEF f, first, other, t1, t2, t3, t4, t5, s1, s2, s3, s4, k
<1>12. s1 \in Seq(R8) /\ Len(s1) = k
  <2>1. s1 \in Seq(R8) /\ Len(s1) = Len(t1) + Len(t2)
    BY <1>6, <1>8, ConcatType DEF s1
  <2> QED BY <1>6, <1>8, <2>1 DEF k
<1>13. s2 \in Seq(R8) /\ Len(s2) = k + 2
  <2>1. s2 \in Seq(R8) /\ Len(s2) = Len(s1) + Len(t3)
    BY <1>10, <1>12, ConcatType DEF s2
  <2> QED BY <1>10, <1>12, <2>1
<1>14. s3 \in Seq(R8) /\ Len(s3) = k + 4
  <2>1. s3 \in Seq(R8) /\ Len(s3) = Len(s2) + Len(t4)
    BY <1>11, <1>13, ConcatType DEF s3
  <2> QED BY <1>7, <1>11, <1>13, <2>1
<1>15. /\ f \in Seq(R8) /\ Holds(f, 0, s3) /\ Holds(f, k + 4, t5)
       /\ Len(f) = k + 4 + Len(t5)
  <2>1. f = s3 \o t5
    BY <1>1 DEF s4
  <2> QED BY <1>9, <1>14, <2>1, OneConcat, ZenonT(40)
<1>16. Holds(f, 0, s2) /\ Holds(f, k + 2, t4)
  BY <1>11, <1>13, <1>15, Peel DEF s3
<1>17. Holds(f, 0, s1) /\ Holds(f, k, t3)
  BY <1>10, <1>12, <1>15, <1>16, Peel DEF s2
<1>18. Holds(f, 0, t1) /\ Holds(f, 27, t2)
  BY <1>6, <1>8, <1>15, <1>17, Peel DEF s1
<1>19. ~(Len(f) = Sna48Length) /\ Len(f) \in Sna128Lengths
  <2>1. PageBytes \in Nat
    BY PageBytesIs
  <2>2. Sna48Length = 27 + (3 * PageBytes)
        /\ Sna128Lengths = {27 + (8 * PageBytes) + 4, 27 + (9 * PageBytes) + 4}
    BY DEF Sna48Length, Sna128Lengths
  <2>3. Len(f) = 27 + (3 * PageBytes) + 4 + Len(t5)
    BY <1>15 DEF k
  <2>4. Len(f) = 27 + (8 * PageBytes) + 4 \/ Len(f) = 27 + (9 * PageBytes) + 4
    BY <1>9, <2>1, <2>3
  <2> QED BY <2>1, <2>2, <2>4
<1>20. page = n.page /\ U16(f, tmp, Sna48Length) = n.cpu.PC
  <2> DEFINE q == k + 2
  <2>1. q \in Nat /\ Holds(f, q, t4) /\ Sna48Length + 2 = q
    BY <1>7, <1>16
  <2> HIDE DEF q
  <2>2. HeldAre(f, tmp, q, t4)
    BY <1>11, <1>15, <2>1, HeldBytes
  <2>3. U8(f, tmp, q) = n.page
    BY <1>11, <2>2 DEF HeldAre
  <2>4. U16(f, tmp, k) = n.cpu.PC
    BY <1>2, <1>7, <1>15, <1>17, HeldWord DEF t3
  <2> QED BY <1>7, <2>1, <2>3, <2>4
<1> DEFINE d == OneIFF(n.cpu)
<1>21. /\ cpu = Loaded(d, 0) /\ cpu.IM \in 0..2
       /\ HasFields(m2) /\ m2.cpu = cpu /\ m2.border = n.border /\ m2.locked = FALSE
  <2>1. Holds(f, 0, SnaHead(n))
    BY <1>18 DEF t1
  <2> DEFINE r == CpuBorder(Reset(mm), cpu, U8(f, tmp, 26) % 8)
  <2>2. /\ cpu = Loaded(d, 0) /\ cpu.IM \in 0..2
        /\ HasFields(r) /\ r.cpu = cpu /\ r.border = n.border /\ r.locked = FALSE
    <3>1. SnaHeadIs(f, tmp, n, mm)
      BY <1>2, <1>15, <2>1, SnaHeadRead
    <3> QED BY <3>1 DEF SnaHeadIs
  <2>3. m2 = r
    <3> DEFINE x == Reset(mm)
               y == U8(f, tmp, 26) % 8
    <3>1. HasFields(x)
      BY ResetFields
    <3> HIDE DEF x, y, cpu
    <3>2. [[x EXCEPT !.cpu = cpu] EXCEPT !.border = y] = [x EXCEPT !.cpu = cpu, !.border = y]
      BY <3>1 DEF HasFields, IsFunction, MachineFields
    <3> QED BY <3>2 DEF CpuBorder, x, y
  <2> QED BY <2>2, <2>3
<1>22. LoadSna(mm, f, tmp, fill) = done
  BY <1>19, <1>21 DEF LoadSna
<1> HIDE DEF cpu, page, m2
<1>23. /\ HasFields(m2b) /\ m2b.cpu = Loaded(d, n.cpu.PC) /\ m2b.border = n.border
       /\ m2b.locked = FALSE
  <2> DEFINE z == 0
  <2>1. z \in R16 /\ d \in CpuState
    <3>1. z \in R16
      BY DEF R16
    <3>2. d \in CpuState
      BY <1>2, OneIFFIs
    <3> QED BY <3>1, <3>2
  <2> HIDE DEF z, d
  <2>2. \A x : [Loaded(d, z) EXCEPT !.PC = x] = Loaded(d, x)
    BY <2>1, LoadedIs
  <2>3. [m2.cpu EXCEPT !.PC = U16(f, tmp, Sna48Length)] = Loaded(d, n.cpu.PC)
    BY <1>20, <1>21, <2>2 DEF z
  <2> QED BY <1>21, <2>3, PcFields
<1> HIDE DEF m2b, d
<1>24. /\ HasFields(m2c) /\ m2c.model = "128K" /\ m2c.ram = Filled("128K", fill)
       /\ m2c.cpu = Loaded(d, n.cpu.PC) /\ m2c.border = n.border /\ m2c.locked = FALSE
  BY <1>23, ModelFields
<1> HIDE DEF m2c
<1>25. /\ HasFields(m128) /\ m128.model = "128K" /\ m128.ram = Filled("128K", fill)
       /\ m128.cpu = Loaded(d, n.cpu.PC) /\ m128.border = n.border
       /\ m128.page = n.page /\ m128.locked = n.locked
  <2>1. PageIsSet(m2c, n.page, PageSelect(m2c, n.page))
    BY <1>24, PageFields
  <2>2. PageIsSet(m2c, n.page, m128)
    BY <1>20, <2>1
  <2> HIDE DEF m128
  <2>3. /\ HasFields(m128) /\ m128.model = m2c.model /\ m128.ram = m2c.ram
        /\ m128.cpu = m2c.cpu /\ m128.border = m2c.border
        /\ m128.page = n.page /\ (m128.locked <=> LockBit(n.page)) /\ m128.locked \in BOOLEAN
    BY <2>2 DEF PageIsSet
  <2>4. m128.locked = n.locked
    BY <1>2, <2>3 DEF LockBit
  <2> QED BY <1>24, <2>3, <2>4
<1> HIDE DEF m128
<1>26. ram2 = n.ram
  <2> DEFINE e == 8
             old == m128.ram
             new == n.ram
             p == 27
             q == k + 4
             none == {}
             b1 == BanksIn(first, Len(first))
             b2 == BanksIn(other, Len(other))
  <2>1. IsRam(old, e) /\ IsRam(new, e) /\ p \in Nat /\ q \in Nat
        /\ AreBanks(first, e) /\ AreBanks(other, e) /\ Covers(e, b1 \cup b2) /\ e \in 0..8
    <3>1. IsRam(old, e)
      BY <1>25, FilledIs DEF RamBanks
    <3>2. q \in Nat
      BY <1>7
    <3> QED BY <1>3, <1>4, <3>1, <3>2
  <2>2. Holds(f, p, BanksOf(new, first)) /\ Holds(f, q, BanksOf(new, other))
    BY <1>15, <1>18 DEF t2, t5
  <2>3. ram1 = ReadBanks(old, f, p, first) /\ ram2 = ReadBanks(ram1, f, q, other)
    BY <1>7, <1>20 DEF first, other
  <2> HIDE DEF e, old, new, p, q, ram1, ram2
  <2>4. BanksHeld(f, p, first, new) /\ BanksHeld(f, q, other, new)
    BY <1>15, <2>1, <2>2, BanksAreHeld
  <2>5. old = Mixed(e, none, old, new)
    BY <2>1, MixedNone
  <2> HIDE DEF none, b1, b2
  <2>6. ReadBanks(Mixed(e, none, old, new), f, p, first) = Mixed(e, none \cup b1, old, new)
    BY <1>15, <2>1, <2>4, BanksAreRead DEF b1
  <2> DEFINE b3 == none \cup b1
  <2>7. ram1 = Mixed(e, b3, old, new)
    BY <2>3, <2>5, <2>6
  <2>9. b3 \cup b2 = b1 \cup b2
    BY DEF none
  <2> HIDE DEF b3
  <2>8. ReadBanks(Mixed(e, b3, old, new), f, q, other) = Mixed(e, b3 \cup b2, old, new)
    BY <1>15, <2>1, <2>4, BanksAreRead DEF b2
  <2>10. ram2 = Mixed(e, b1 \cup b2, old, new)
    BY <2>3, <2>7, <2>8, <2>9
  <2> DEFINE b4 == b1 \cup b2
  <2>11. Covers(e, b4)
    BY <2>1
  <2> HIDE DEF b4
  <2>12. Mixed(e, b4, old, new) = new
    BY <2>1, <2>11, MixedAll
  <2> QED BY <2>10, <2>12 DEF b4, new
<1> HIDE DEF ram2, ram1
<1>27. SnaContinues(done, n, n.ram)
  <2> DEFINE last == WithRam(m128, ram2)
  <2>1. /\ HasFields(last) /\ last.ram = n.ram /\ last.model = m128.model /\ last.cpu = m128.cpu
        /\ last.border = m128.border /\ last.page = m128.page /\ last.locked = m128.locked
    BY <1>25, <1>26, RamFields
  <2>2. done.m = last /\ done.rc = 0 /\ done.over = FALSE
    BY DEF Result, WithRam
  <2> HIDE DEF last, done
  <2> QED BY <1>25, <2>1, <2>2 DEF SnaContinues, d
<1> QED BY <1>22, <1>27 DEF f

(***************************************************************************)
(* PC on the stack of a 48K.                                                *)
(***************************************************************************)
\* The word at an address is in the RAM.
IsWordAt(a) == a \in R16 /\ a >= 16384 /\ Word(a + 1) >= 16384

LEMMA WordAtIs ==
  ASSUME NEW a, IsWordAt(a)
  PROVE  /\ a \in Nat /\ Word(a + 1) = a + 1 /\ a \div 16384 \in {1, 2, 3}
         /\ (a + 1) \div 16384 \in {1, 2, 3}
         /\ \/ (a + 1) \div 16384 = (a \div 16384) + 1
            \/ (a + 1) \div 16384 = a \div 16384 /\ (a + 1) % 16384 = (a % 16384) + 1
<1>1. a \in Nat /\ a >= 16384 /\ a < 65536
  BY DEF IsWordAt, R16
<1>2. a < 65535
  <2>1. CASE a = 65535
    <3>1. Word(a + 1) = 0
      BY <2>1 DEF Word
    <3> QED BY <3>1 DEF IsWordAt
  <2> QED BY <1>1, <2>1
<1>3. Word(a + 1) = a + 1
  BY <1>1, <1>2 DEF Word
<1>4. a \div 16384 \in {1, 2, 3} /\ (a + 1) \div 16384 \in {1, 2, 3}
  BY <1>1, <1>2
<1>5. \/ (a + 1) \div 16384 = (a \div 16384) + 1
      \/ (a + 1) \div 16384 = a \div 16384 /\ (a + 1) % 16384 = (a % 16384) + 1
  BY <1>1
<1> QED BY <1>1, <1>3, <1>4, <1>5, SMTT(30)

LEMMA InPageIs ==
  ASSUME NEW r \in Nat
  PROVE  /\ r % PageBytes \in Nat /\ r % PageBytes < PageBytes
         /\ (r + 1) % PageBytes # r % PageBytes
<1> DEFINE P == PageBytes
           q == r \div P
           u == r % P
           x == (r + 1) \div P
           v == (r + 1) % P
<1>1. P \in Nat /\ P >= 2
  BY PageBytesIs
<1> HIDE DEF P
<1>2. r = P * q + u /\ u \in Nat /\ u < P /\ q \in Int
  BY <1>1
<1>3. r + 1 = P * x + v /\ x \in Int
  BY <1>1
<1>4. ASSUME u = v PROVE FALSE
  <2> HIDE DEF q, u, x, v
  <2> DEFINE d == x - q
  <2>1. d \in Int /\ x = q + d
    BY <1>2, <1>3
  <2> HIDE DEF d
  <2>2. P * (q + d) = P * q + P * d
    BY <1>1, <1>2, <2>1
  <2>3. P * d = 1
    <3> DEFINE s == P * q
               t == P * d
    <3>1. s \in Int /\ t \in Int /\ P * x = s + t
      BY <1>1, <1>2, <2>1, <2>2
    <3> HIDE DEF s, t
    <3>2. r = s + u /\ r + 1 = s + t + u /\ u \in Int
      BY <1>2, <1>3, <1>4, <3>1 DEF s
    <3> QED BY <3>1, <3>2 DEF t
  <2>4. CASE d <= 0
    BY <1>1, <2>1, <2>3, <2>4
  <2>5. CASE d >= 1
    BY <1>1, <2>1, <2>3, <2>5
  <2> QED BY <2>1, <2>4, <2>5
<1> QED BY <1>2, <1>4 DEF P

\* The place of a byte in the RAM of a 48K.
Spot(a) == Size((a \div 16384) - 1) + ((a % 16384) % PageBytes) + 1

LEMMA SpotIs ==
  /\ \A mm, a : mm.model = "48K" => RamIndex(mm, a) = Spot(a)
  /\ \A a : IsWordAt(a) =>
       /\ Spot(a) \in 1..Size(3) /\ Spot(Word(a + 1)) \in 1..Size(3)
       /\ Spot(a) # Spot(Word(a + 1))
<1>1. \A mm, a : mm.model = "48K" => RamIndex(mm, a) = Spot(a)
  BY DEF RamIndex, Spot, BankIn, Size
<1>2. ASSUME NEW a, IsWordAt(a)
      PROVE  /\ Spot(a) \in 1..Size(3) /\ Spot(Word(a + 1)) \in 1..Size(3)
             /\ Spot(a) # Spot(Word(a + 1))
  <2> DEFINE P == PageBytes
             e == a + 1
             r == a % 16384
             s == e % 16384
             u == r % P
             v == s % P
             x == a \div 16384
             y == e \div 16384
  <2>1. a \in Nat /\ Word(a + 1) = e /\ x \in {1, 2, 3} /\ y \in {1, 2, 3}
        /\ (y = x + 1 \/ (y = x /\ s = r + 1))
    BY <1>2, WordAtIs
  <2>2. r \in Nat /\ s \in Nat
    BY <2>1
  <2>3. P \in Nat /\ P >= 2
    BY PageBytesIs
  <2> HIDE DEF e, r, s, x, y
  <2>4. u \in Nat /\ u < P /\ v \in Nat /\ v < P
    BY <2>2, InPageIs
  <2>5. s = r + 1 => v # u
    BY <2>2, InPageIs
  <2> HIDE DEF u, v
  <2>6. Size(0) = 0 /\ Size(1) = P /\ Size(2) = 2 * P /\ Size(3) = 3 * P
    BY <2>3 DEF Size
  <2>7. Spot(a) = Size(x - 1) + u + 1 /\ Spot(e) = Size(y - 1) + v + 1
    BY DEF Spot, r, s, u, v, x, y
  <2> HIDE DEF P
  <2>8. Spot(a) \in 1..Size(3)
    BY <2>1, <2>3, <2>4, <2>6, <2>7
  <2>9. Spot(e) \in 1..Size(3)
    BY <2>1, <2>3, <2>4, <2>6, <2>7
  <2>10. ASSUME y = x + 1 PROVE Spot(a) # Spot(e)
    <3>1. (x = 1 /\ y = 2) \/ (x = 2 /\ y = 3)
      BY <2>1, <2>10
    <3>2. CASE x = 1 /\ y = 2
      <4>1. Spot(a) = u + 1 /\ Spot(e) = P + v + 1
        BY <2>3, <2>4, <2>6, <2>7, <3>2
      <4> QED BY <2>1, <2>3, <2>4, <4>1
    <3>3. CASE x = 2 /\ y = 3
      <4>1. Spot(a) = P + u + 1 /\ Spot(e) = (2 * P) + v + 1
        BY <2>3, <2>4, <2>6, <2>7, <3>3
      <4> QED BY <2>1, <2>3, <2>4, <4>1
    <3> QED BY <3>1, <3>2, <3>3
  <2>11. ASSUME y = x, s = r + 1 PROVE Spot(a) # Spot(e)
    <3>1. Size(x - 1) \in Nat
      BY <2>1, <2>3, <2>6
    <3> DEFINE z == Size(x - 1)
    <3>2. Spot(a) = z + u + 1 /\ Spot(e) = z + v + 1 /\ u # v
      BY <2>5, <2>7, <2>11
    <3> HIDE DEF z
    <3> QED BY <2>1, <2>4, <3>1, <3>2 DEF z
  <2> QED BY <2>1, <2>8, <2>9, <2>10, <2>11
<1> QED BY <1>1, <1>2

\* A word is put into the RAM of a 48K and read back.
LEMMA R16IsNat == \A w \in R16 : w \in Nat /\ w < 65536
BY DEF R16

LEMMA PutRead ==
  ASSUME NEW mm, mm.model = "48K", NEW ram, IsRam(ram, 3), NEW a, IsWordAt(a), NEW w \in R16
  PROVE  /\ IsRam(Put16(mm, ram, a, w), 3)
         /\ \A q : q.model = "48K" /\ q.ram = Put16(mm, ram, a, w) => Peek16(q, a) = w
         /\ \A q, s, v : q.model = "48K" => Put16(q, s, a, v) = Put16(mm, s, a, v)
<1> DEFINE i == Spot(a)
           e == Word(a + 1)
           j == Spot(e)
           lo == w % 256
           hi == w \div 256
           new == [[ram EXCEPT ![i] = lo] EXCEPT ![j] = hi]
<1>1. i \in 1..Size(3) /\ j \in 1..Size(3) /\ i # j
  BY SpotIs
<1>2. lo \in R8 /\ hi \in R8 /\ lo + (256 * hi) = w
  <2>1. w \in Nat /\ w < 65536
    BY R16IsNat
  <2>2. lo \in Nat /\ lo <= 255 /\ hi \in Nat /\ hi <= 255 /\ lo + (256 * hi) = w
    BY <2>1
  <2> HIDE DEF lo, hi
  <2> QED BY <2>2, R8Is, SMTT(30)
<1>3. ~(a < 16384) /\ ~(e < 16384)
  <2>1. a \in Nat /\ a >= 16384 /\ e = a + 1
    BY WordAtIs DEF IsWordAt
  <2> HIDE DEF e
  <2> QED BY <2>1
<1>4. \A q : q.model = "48K" => RamIndex(q, a) = i /\ RamIndex(q, e) = j
  BY SpotIs
<1>9. \A q, r, v : Put16(q, r, a, v) = Put(q, Put(q, r, a, v % 256), e, v \div 256)
  BY DEF Put16
<1> HIDE DEF e, i, j
<1>5. Put16(mm, ram, a, w) = new
  <2>1. RamIndex(mm, a) = i /\ RamIndex(mm, e) = j
    BY <1>4
  <2>2. Put(mm, ram, a, lo) = [ram EXCEPT ![i] = lo]
    BY <1>3, <2>1 DEF Put
  <2>3. Put(mm, [ram EXCEPT ![i] = lo], e, hi) = new
    BY <1>3, <2>1 DEF Put
  <2> QED BY <1>9, <2>2, <2>3
<1> HIDE DEF lo, hi
<1>6. IsRam(new, 3) /\ new[i] = lo /\ new[j] = hi
  BY <1>1, <1>2 DEF IsRam
<1> HIDE DEF new
<1>7. ASSUME NEW q, q.model = "48K", q.ram = new PROVE Peek16(q, a) = w
  <2>1. Peek(q, a) = lo /\ Peek(q, e) = hi
    BY <1>3, <1>4, <1>6, <1>7 DEF Peek
  <2> QED BY <1>2, <2>1 DEF Peek16, e
<1>8. ASSUME NEW q, NEW s, NEW v, q.model = "48K" PROVE Put16(q, s, a, v) = Put16(mm, s, a, v)
  <2>1. RamIndex(mm, a) = RamIndex(q, a) /\ RamIndex(mm, e) = RamIndex(q, e)
    BY <1>4, <1>8
  <2>2. \A r, b : Put(q, r, a, b) = Put(mm, r, a, b)
    BY <2>1 DEF Put
  <2>3. \A r, b : Put(q, r, e, b) = Put(mm, r, e, b)
    BY <2>1 DEF Put
  <2> QED BY <1>9, <2>2, <2>3
<1> QED BY <1>5, <1>6, <1>7, <1>8

\* PC and SP come back.
LEMMA StackedCpu ==
  ASSUME NEW c \in CpuState, NEW sp \in R16
  PROVE  LET d == Loaded(OneIFF(CpuOn(c, sp)), 0) IN
         /\ d \in CpuState /\ d.SP = sp
         /\ CpuOn(CpuAt(d, c.PC), c.SP) = Loaded(OneIFF(c), c.PC)
         /\ Loaded(OneIFF(c), c.PC) \in CpuState
<1> DEFINE z == 0
           b == CpuOn(c, sp)
           d == Loaded(OneIFF(b), z)
           no == FALSE
<1>1. z \in R16 /\ no \in BOOLEAN /\ c.PC \in R16
  <2>1. z \in R16
    BY DEF R16
  <2>2. c.PC \in R16
    BY CpuFields
  <2> QED BY <2>1, <2>2
<1> HIDE DEF z
<1>2. b \in CpuState /\ b.SP = sp /\ [b EXCEPT !.SP = c.SP] = c
  BY CpuSP DEF CpuOn
<1> HIDE DEF b
<1>3. OneIFF(b) \in CpuState /\ OneIFF(b).SP = sp
  BY <1>2, OneIFFIs
<1>4. d \in CpuState /\ d.SP = sp
  <2> DEFINE e == OneIFF(b)
  <2>1. e \in CpuState /\ e.SP = sp
    BY <1>3
  <2> HIDE DEF e
  <2>2. Loaded(e, z) \in CpuState /\ Loaded(e, z).SP = e.SP
    BY <1>1, <2>1, LoadedIs
  <2> QED BY <2>1, <2>2 DEF e
<1>5. Loaded(OneIFF(c), c.PC) \in CpuState
  <2> DEFINE e == OneIFF(c)
  <2>1. e \in CpuState
    BY OneIFFIs
  <2> HIDE DEF e
  <2>2. Loaded(e, c.PC) \in CpuState
    BY <1>1, <2>1, LoadedIs
  <2> QED BY <2>2 DEF e
<1>6. CpuOn(CpuAt(d, c.PC), c.SP) = Loaded(OneIFF(c), c.PC)
  <2>1. CpuOn(CpuAt(Loaded(OneIFF([c EXCEPT !.SP = sp]), z), c.PC), c.SP)
          = Loaded(OneIFF(c), c.PC)
    BY DEF CpuOn, CpuAt, Loaded, OneIFF, CpuState
  <2> QED BY <2>1 DEF b, CpuOn
<1> QED BY <1>4, <1>5, <1>6 DEF z, b

\* What is pushed.
Pushed(p, c, ram, n) ==
  /\ n.cpu = c /\ n.ram = ram /\ n.border = p.border /\ n.model = p.model

LEMMA PushIs ==
  ASSUME NEW p, IsMachine(p), p.model = "48K", NEW sp, sp = Word(p.cpu.SP - 2)
  PROVE  Pushed(p, CpuOn(p.cpu, sp), Put16(p, p.ram, sp, p.cpu.PC), PushPC(p))
<1> DEFINE c == CpuOn(p.cpu, sp)
           ram == Put16(p, p.ram, sp, p.cpu.PC)
           q == With(p, c, ram)
<1>1. p.cpu \in CpuState /\ IsFunction(p.ram) /\ p = With(p, p.cpu, p.ram)
  BY WithFields DEF IsMachine
<1>2. sp \in R16
  <2>1. p.cpu.SP \in R16
    BY <1>1, CpuFields
  <2>2. p.cpu.SP - 2 \in Int
    BY <2>1, R16Int
  <2> QED BY <2>2, WordType
<1>3. c \in CpuState
  BY <1>1, <1>2, CpuSP DEF CpuOn
<1>4. SetSP(p, sp) = With(p, c, p.ram)
  <2> DEFINE k == p.cpu
             r == p.ram
  <2>1. p = With(p, k, r)
    BY <1>1
  <2> HIDE DEF k, r
  <2>2. SetSP(With(p, k, r), sp) = With(p, CpuOn(k, sp), r)
    BY WithCpu
  <2> QED BY <2>1, <2>2 DEF k, r
<1>5. PushPC(p) = Poke16(SetSP(p, sp), sp, p.cpu.PC)
  BY DEF PushPC, SetSP
<1> HIDE DEF c
<1>6. PushPC(p) = q
  BY <1>1, <1>3, <1>4, <1>5, PokeWith
<1> HIDE DEF ram
<1>7. q.cpu = c /\ q.ram = ram /\ q.border = p.border /\ q.model = p.model
  BY DEF With, IsMachine, IsFunction, MachineFields
<1> HIDE DEF q
<1> QED BY <1>6, <1>7 DEF Pushed, c, ram

LEMMA PopIs ==
  ASSUME NEW q, IsMachine(q), q.model = "48K", NEW pc, Peek16(q, q.cpu.SP) = pc,
         NEW c \in CpuState, NEW sp, sp = Word(q.cpu.SP + 2), c = CpuOn(CpuAt(q.cpu, pc), sp)
  PROVE  LET r == PopPC(q) IN
         /\ HasFields(r) /\ r.model = "48K" /\ r.cpu = c /\ r.border = q.border
         /\ r.ram = Put16(q, q.ram, q.cpu.SP, 0)
<1> DEFINE at == q.cpu.SP
           q1 == [q EXCEPT !.cpu.PC = pc, !.cpu.SP = sp]
           ram == Put16(q, q.ram, at, 0)
           r == With(q, c, ram)
<1>1. IsFunction(q.ram) /\ q = With(q, q.cpu, q.ram)
  BY WithFields DEF IsMachine
<1>2. PopPC(q) = Poke16(q1, at, 0)
  BY DEF PopPC
<1>3. q1 = With(q, c, q.ram)
  BY DEF IsMachine, IsFunction, MachineFields, With, CpuOn, CpuAt
<1> HIDE DEF at, q1
<1>4. PopPC(q) = r
  BY <1>1, <1>2, <1>3, PokeWith
<1> HIDE DEF ram
<1>5. r.cpu = c /\ r.ram = ram /\ r.border = q.border /\ r.model = q.model /\ HasFields(r)
  BY DEF With, IsMachine, IsFunction, MachineFields, HasFields
<1> HIDE DEF r
<1> QED BY <1>4, <1>5 DEF ram, at

LEMMA Sna48Restores ==
  ASSUME NEW mm, HasFields(mm), NEW tmp \in R8, NEW fill \in R8, NEW p, Savable(p),
         p.model = "48K", NEW sp, sp = Word(p.cpu.SP - 2), IsWordAt(sp)
  PROVE  SnaContinues(LoadSna(mm, SnaBytes(PushPC(p)), tmp, fill), p,
                      Put16(p, p.ram, sp, 0))
<1> DEFINE n == PushPC(p)
           c1 == CpuOn(p.cpu, sp)
           ram1 == Put16(p, p.ram, sp, p.cpu.PC)
           zeros == Put16(p, p.ram, sp, 0)
           t1 == SnaHead(n)
           f == t1 \o n.ram
           cpu == SnaCpu(f, tmp)
           m2 == [[Reset(mm) EXCEPT !.cpu = cpu] EXCEPT !.border = U8(f, tmp, 26) % 8]
           m3 == SelectModel(m2, "48K", fill)
           whole == Bytes(f, 27, 3 * PageBytes)
           m48 == [m3 EXCEPT !.ram = Stored(@, 0, whole)]
           done == Result(PopPC(m48), 0, FALSE)
           k == 3
<1>1. /\ p.cpu \in CpuState /\ p.border \in 0..7 /\ IsMachine(p)
      /\ p.cpu.PC \in R16 /\ p.cpu.SP \in R16 /\ IsFunction(p.ram)
  <2>1. p.cpu \in CpuState /\ p.border \in 0..7 /\ IsMachine(p) /\ IsFunction(p.ram)
    BY DEF Savable, Sound, IsMachine
  <2> QED BY <2>1, CpuFields
<1>2. k \in 0..8 /\ IsRam(p.ram, k) /\ Size(k) = 3 * PageBytes /\ RamBanks("48K") = k
  <2>1. RamBanks("48K") = k /\ k \in 0..8
    BY DEF RamBanks
  <2>2. IsRam(p.ram, RamBanks(p.model))
    BY SavableIs
  <2> QED BY <2>1, <2>2 DEF Size
<1>3. /\ n.cpu = c1 /\ n.ram = ram1 /\ n.border = p.border /\ n.model = "48K"
  <2>1. Pushed(p, c1, ram1, n)
    BY <1>1, PushIs
  <2> QED BY <2>1 DEF Pushed
<1>4. /\ IsRam(ram1, k)
      /\ \A q : q.model = "48K" /\ q.ram = ram1 => Peek16(q, sp) = p.cpu.PC
      /\ \A q, s : q.model = "48K" => Put16(q, s, sp, 0) = Put16(p, s, sp, 0)
  BY <1>1, <1>2, PutRead
<1>5. c1 \in CpuState /\ sp \in R16
  <2>1. sp \in R16
    BY DEF IsWordAt
  <2> QED BY <1>1, <2>1, CpuSP DEF CpuOn
<1>6. SnaBytes(n) = f
  BY <1>3 DEF SnaBytes
<1> HIDE DEF n, c1, k
<1>7. t1 \in Seq(R8) /\ Len(t1) = 27
  <2> DEFINE e == <<>>
  <2>1. e \in Seq(R8) /\ n.cpu \in CpuState /\ n.border \in 0..7
    BY <1>1, <1>3, <1>5
  <2> HIDE DEF e
  <2> QED BY <2>1, SnaHeld
<1> HIDE DEF ram1, t1
<1>8. n.ram \in Seq(R8) /\ Len(n.ram) = 3 * PageBytes
  BY <1>2, <1>3, <1>4, RamIs
<1> DEFINE at == 27
<1>9. f \in Seq(R8) /\ Len(f) = at + Len(n.ram) /\ Holds(f, 0, t1) /\ Holds(f, at, n.ram)
  <2>1. f = t1 \o n.ram /\ Len(t1) = at
    BY <1>7
  <2> DEFINE ram == n.ram
  <2>2. ram \in Seq(R8) /\ f = t1 \o ram /\ t1 \in Seq(R8) /\ Len(t1) = at
    BY <1>7, <1>8, <2>1
  <2> HIDE DEF f, at, ram
  <2>3. f \in Seq(R8) /\ Holds(f, 0, t1) /\ Holds(f, at, ram)
    BY <2>2, OneConcat
  <2>4. Len(f) = Len(t1) + Len(ram)
    BY <2>2, ConcatType
  <2> QED BY <2>2, <2>3, <2>4 DEF ram
<1>10. Len(f) = Sna48Length /\ Len(f) \notin Sna128Lengths
  <2>1. PageBytes \in Nat
    BY PageBytesIs
  <2>2. Len(f) = 27 + (3 * PageBytes)
    BY <1>8, <1>9
  <2> HIDE DEF f
  <2> QED BY <2>1, <2>2 DEF Sna48Length, Sna128Lengths
<1>11. /\ cpu = Loaded(OneIFF(c1), 0) /\ cpu.IM \in 0..2
       /\ HasFields(m2) /\ m2.cpu = cpu /\ m2.border = p.border
  <2> HIDE DEF f
  <2> DEFINE r == CpuBorder(Reset(mm), cpu, U8(f, tmp, 26) % 8)
  <2>1. Holds(f, 0, SnaHead(n)) /\ n.cpu \in CpuState /\ n.border \in 0..7
    BY <1>1, <1>3, <1>5, <1>9 DEF t1
  <2>2. /\ cpu = Loaded(OneIFF(n.cpu), 0) /\ cpu.IM \in 0..2
        /\ HasFields(r) /\ r.cpu = cpu /\ r.border = n.border
    <3>1. SnaHeadIs(f, tmp, n, mm)
      BY <1>9, <2>1, SnaHeadRead
    <3> QED BY <3>1 DEF SnaHeadIs
  <2>3. m2 = r
    <3> DEFINE x == Reset(mm)
               y == U8(f, tmp, 26) % 8
    <3>1. HasFields(x)
      BY ResetFields
    <3> HIDE DEF x, y, cpu
    <3>2. [[x EXCEPT !.cpu = cpu] EXCEPT !.border = y] = [x EXCEPT !.cpu = cpu, !.border = y]
      BY <3>1 DEF HasFields, IsFunction, MachineFields
    <3> QED BY <3>2 DEF CpuBorder, x, y
  <2> QED BY <1>3, <2>2, <2>3
<1>12. LoadSna(mm, f, tmp, fill) = done
  BY <1>10, <1>11 DEF LoadSna
<1>13. whole = n.ram
  <2> HIDE DEF f
  <2> DEFINE l == 3 * PageBytes
  <2>1. l = Len(n.ram) /\ at \in Nat
    BY <1>8
  <2> HIDE DEF l, at
  <2>2. Bytes(f, at, l) = n.ram
    BY <1>8, <1>9, <2>1, BytesHeld
  <2> QED BY <2>2 DEF l, at
<1> HIDE DEF f, cpu, m2, whole
<1>14. /\ HasFields(m3) /\ m3.model = "48K" /\ m3.ram = Filled("48K", fill)
       /\ m3.cpu = cpu /\ m3.border = p.border
  BY <1>11, ModelFields
<1> HIDE DEF m3
<1>15. /\ HasFields(m48) /\ m48.model = "48K" /\ m48.ram = ram1
       /\ m48.cpu = cpu /\ m48.border = p.border
  <2> DEFINE old == m3.ram
  <2>1. IsRam(old, k)
    BY <1>2, <1>14, FilledIs
  <2> HIDE DEF old
  <2>2. Stored(old, 0, whole) = ram1
    BY <1>2, <1>3, <1>4, <1>13, <2>1, StoredWhole
  <2>3. m48 = WithRam(m3, ram1)
    BY <2>2 DEF WithRam, old
  <2> HIDE DEF m48
  <2> QED BY <1>14, <2>3, RamFields
<1> HIDE DEF m48
<1>16. /\ cpu \in CpuState /\ cpu.SP = sp
       /\ CpuOn(CpuAt(cpu, p.cpu.PC), p.cpu.SP) = Loaded(OneIFF(p.cpu), p.cpu.PC)
       /\ Loaded(OneIFF(p.cpu), p.cpu.PC) \in CpuState
  <2> DEFINE c == p.cpu
  <2>1. c \in CpuState
    BY <1>1
  <2> HIDE DEF c
  <2>2. LET d == Loaded(OneIFF(CpuOn(c, sp)), 0) IN
        /\ d \in CpuState /\ d.SP = sp
        /\ CpuOn(CpuAt(d, c.PC), c.SP) = Loaded(OneIFF(c), c.PC)
        /\ Loaded(OneIFF(c), c.PC) \in CpuState
    BY <1>5, <2>1, StackedCpu
  <2> QED BY <1>11, <2>2 DEF c, c1
<1>17. IsMachine(m48)
  <2>1. IsFunction(ram1)
    BY <1>4 DEF IsRam, IsFunction
  <2> QED BY <1>15, <1>16, <2>1 DEF HasFields, IsMachine
<1>18. Peek16(m48, sp) = p.cpu.PC
  BY <1>4, <1>15
<1>19. Word(sp + 2) = p.cpu.SP
  BY <1>1, WordBack
<1>20. LET r == PopPC(m48) IN
       /\ HasFields(r) /\ r.model = "48K" /\ r.cpu = Loaded(OneIFF(p.cpu), p.cpu.PC)
       /\ r.border = p.border /\ r.ram = zeros
  <2> DEFINE c == Loaded(OneIFF(p.cpu), p.cpu.PC)
             pc == p.cpu.PC
             back1 == p.cpu.SP
             r == PopPC(m48)
  <2>1. /\ Peek16(m48, m48.cpu.SP) = pc /\ c \in CpuState /\ back1 = Word(m48.cpu.SP + 2)
        /\ c = CpuOn(CpuAt(m48.cpu, pc), back1) /\ m48.model = "48K"
    BY <1>15, <1>16, <1>18, <1>19
  <2> HIDE DEF c, pc, back1, r
  <2>2. /\ HasFields(r) /\ r.model = "48K" /\ r.cpu = c /\ r.border = m48.border
        /\ r.ram = Put16(m48, m48.ram, m48.cpu.SP, 0)
    BY <1>17, <2>1, PopIs DEF r
  <2>3. Put16(m48, m48.ram, m48.cpu.SP, 0) = Put16(p, ram1, sp, 0)
    BY <1>4, <1>15, <1>16
  <2>4. Put16(p, ram1, sp, 0) = zeros
    BY <1>1, PutTwice DEF ram1
  <2> QED BY <1>15, <2>2, <2>3, <2>4 DEF c, r
<1> HIDE DEF zeros
<1>21. SnaContinues(done, p, zeros)
  <2> DEFINE r == PopPC(m48)
  <2>1. done.m = r /\ done.rc = 0 /\ done.over = FALSE
    BY DEF Result
  <2> HIDE DEF done, r
  <2> QED BY <1>20, <2>1 DEF SnaContinues, r
<1> QED BY <1>6, <1>12, <1>21 DEF n, zeros

(***************************************************************************)
(* The machine is sound until a file is loaded.                             *)
(***************************************************************************)
SoundInv == did \notin Loads => Sound(m)

Ram(model) == [1..(RamBanks(model) * PageBytes) -> R8]

LEMMA FilledType == ASSUME NEW model, NEW b \in R8 PROVE Filled(model, b) \in Ram(model)
BY DEF Filled, Times, Ram

LEMMA SoundWith ==
  ASSUME NEW mm, Sound(mm), NEW c \in CpuState, NEW ram \in Ram(mm.model)
  PROVE  Sound(With(mm, c, ram))
<1> DEFINE r == With(mm, c, ram)
<1>1. IsMachine(mm) /\ IsFunction(ram)
  BY DEF Sound, Ram, IsFunction
<1>2. IsMachine(r) /\ r.model = mm.model /\ r.ram = ram
  BY <1>1, WithFields
<1>3. r.border = mm.border /\ r.page = mm.page /\ r.ay = mm.ay /\ r.locked = mm.locked
  BY <1>1 DEF IsMachine, IsFunction, MachineFields, With
<1> HIDE DEF r
<1>4. r.ram \in [1..(RamBanks(r.model) * PageBytes) -> R8]
  BY <1>2 DEF Ram
<1>5. r.border \in 0..7 /\ r.page \in R8 /\ IsAy(r.ay)
  BY <1>3 DEF Sound
<1>6. r.model # "48K" => r.locked = LockBit(r.page)
  BY <1>2, <1>3 DEF Sound
<1>7. Sound(r)
  BY <1>2, <1>4, <1>5, <1>6 DEF Sound
<1> QED BY <1>7 DEF r

LEMMA SoundPut ==
  ASSUME NEW mm, NEW model, NEW ram \in Ram(model), NEW a, NEW w \in R16
  PROVE  Put16(mm, ram, a, w) \in Ram(model)
<1> DEFINE lo == w % 256
           hi == w \div 256
<1>1. lo \in R8 /\ hi \in R8
  <2>1. w \in Nat /\ w < 65536
    BY DEF R16
  <2>2. lo \in Nat /\ lo <= 255 /\ hi \in Nat /\ hi <= 255
    BY <2>1
  <2> HIDE DEF lo, hi
  <2> QED BY <2>2, R8Is, SMTT(30)
<1>2. ASSUME NEW s \in Ram(model), NEW b \in R8, NEW e PROVE Put(mm, s, e, b) \in Ram(model)
  <2> DEFINE D == 1..(RamBanks(model) * PageBytes)
  <2>1. s \in [D -> R8]
    BY DEF Ram
  <2> HIDE DEF D
  <2>2. \A i : [s EXCEPT ![i] = b] \in [D -> R8]
    BY <2>1
  <2>3. Put(mm, s, e, b) \in [D -> R8]
    BY <2>1, <2>2 DEF Put
  <2> QED BY <2>3 DEF D, Ram
<1> HIDE DEF lo, hi
<1>3. Put(mm, Put(mm, ram, a, lo), Word(a + 1), hi) \in Ram(model)
  BY <1>1, <1>2
<1> QED BY <1>3 DEF Put16, lo, hi

LEMMA SoundPage ==
  ASSUME NEW mm, Sound(mm), NEW v \in R8
  PROVE  Sound(PageSelect(mm, v))
<1> DEFINE lock == LockBit(v)
           r == [mm EXCEPT !.page = v, !.locked = lock]
<1>1. CASE mm.model = "48K" \/ mm.locked
  BY <1>1 DEF PageSelect
<1>2. CASE ~(mm.model = "48K" \/ mm.locked)
  <2>1. PageSelect(mm, v) = r
    BY <1>2 DEF PageSelect, LockBit
  <2>2. IsMachine(PageSelect(mm, v))
    BY PageSelectType DEF Sound
  <2> HIDE DEF lock
  <2>3. /\ r.page = v /\ r.locked = lock /\ r.border = mm.border /\ r.ay = mm.ay
        /\ r.ram = mm.ram /\ r.model = mm.model
    BY DEF Sound, IsMachine, IsFunction, MachineFields
  <2> HIDE DEF r
  <2> QED BY <2>1, <2>2, <2>3 DEF Sound, lock
<1> QED BY <1>1, <1>2

\* All that is reset, before the page is.
ResetBut(mm) == [mm EXCEPT !.cpu = ResetCpu, !.ay.reg[7] = 63, !.locked = FALSE]

\* A machine that lacks the page only.
Unpaged(r) ==
  /\ IsMachine(r) /\ r.locked = FALSE /\ r.border \in 0..7 /\ r.page \in R8 /\ IsAy(r.ay)
  /\ r.ram \in Ram(r.model)

LEMMA SoundPaged ==
  ASSUME NEW r, Unpaged(r)
  PROVE  Sound(PageSelect(r, 7))
<1> DEFINE v == 7
           lock == LockBit(v)
           q == [r EXCEPT !.page = v, !.locked = lock]
<1>1. v \in R8 /\ lock = FALSE
  BY DEF R8, LockBit
<1>2. CASE r.model = "48K"
  <2>1. PageSelect(r, v) = r
    BY <1>2 DEF PageSelect
  <2> QED BY <1>2, <2>1 DEF Unpaged, Sound, Ram
<1>3. CASE r.model # "48K"
  <2>1. PageSelect(r, v) = q
    BY <1>3 DEF PageSelect, LockBit, Unpaged
  <2> HIDE DEF v, lock
  <2>2. IsMachine(PageSelect(r, v))
    BY PageSelectType DEF Unpaged
  <2>3. /\ q.page = v /\ q.locked = lock /\ q.border = r.border /\ q.ay = r.ay
        /\ q.ram = r.ram /\ q.model = r.model
    BY DEF Unpaged, IsMachine, IsFunction, MachineFields
  <2> HIDE DEF q
  <2>4. q.ram \in [1..(RamBanks(q.model) * PageBytes) -> R8]
    BY <2>3 DEF Unpaged, Ram
  <2>5. q.border \in 0..7 /\ q.page \in R8 /\ IsAy(q.ay)
    BY <1>1, <2>3 DEF Unpaged
  <2>6. Sound(q)
    BY <2>1, <2>2, <2>3, <2>4, <2>5 DEF Sound, lock
  <2> QED BY <2>1, <2>6 DEF v
<1> QED BY <1>2, <1>3

LEMMA SoundChosen ==
  ASSUME NEW mm, Sound(mm), NEW model
  PROVE  Sound(Reset(SelectModel(mm, model, 0)))
<1> DEFINE z == 0
           k == 7
           x == 63
           ram == Filled(model, z)
           regs == [mm.ay.reg EXCEPT ![k] = x]
           ay == [sel |-> mm.ay.sel, reg |-> regs]
           q == SelectModel(mm, model, z)
           r == ResetBut(q)
<1>1. z \in R8 /\ x \in R8 /\ k \in AyRegs
  BY DEF R8, AyRegs
<1>2. ram \in Ram(model)
  BY <1>1, FilledType
<1>3. IsMachine(mm) /\ mm.ay \in [sel : AyRegs, reg : [AyRegs -> R8]] /\ mm.border \in 0..7
      /\ mm.page \in R8
  BY DEF Sound, IsAy
<1> HIDE DEF z
<1>4. q = [mm EXCEPT !.model = model, !.ram = ram]
  BY DEF SelectModel
<1> HIDE DEF k, x, ram
<1>5. [mm.ay EXCEPT !.reg[k] = x] = ay /\ IsAy(ay)
  BY <1>1, <1>3 DEF IsAy
<1>6. /\ IsFunction(q) /\ DOMAIN q = MachineFields /\ q.ay = mm.ay /\ q.border = mm.border
      /\ q.page = mm.page /\ q.model = model /\ q.ram = ram
  BY <1>3, <1>4 DEF IsMachine, IsFunction, MachineFields
<1> HIDE DEF q, ay
<1>7. r = [q EXCEPT !.cpu = ResetCpu, !.ay = ay, !.locked = FALSE]
  <2>1. [q EXCEPT !.ay.reg[k] = x] = [q EXCEPT !.ay = [q.ay EXCEPT !.reg[k] = x]]
    OBVIOUS
  <2>2. r = [q EXCEPT !.cpu = ResetCpu, !.ay = [q.ay EXCEPT !.reg[k] = x], !.locked = FALSE]
    BY <1>6 DEF ResetBut, k, x, IsFunction, MachineFields
  <2> QED BY <1>5, <1>6, <2>2
<1> HIDE DEF r
<1>8. /\ IsFunction(r) /\ DOMAIN r = MachineFields /\ r.cpu = ResetCpu /\ r.ay = ay
      /\ r.locked = FALSE /\ r.border = mm.border /\ r.page = mm.page /\ r.model = model
      /\ r.ram = ram
  BY <1>6, <1>7 DEF IsFunction, MachineFields
<1>9. Unpaged(r)
  <2>1. IsFunction(ram)
    BY <1>2 DEF Ram, IsFunction
  <2> QED BY <1>2, <1>3, <1>5, <1>8, <2>1, ResetCpuType DEF Unpaged, IsMachine
<1>10. Reset(q) = PageSelect(r, 7)
  BY DEF Reset, r, ResetBut
<1> QED BY <1>9, <1>10, SoundPaged DEF q, z

(***************************************************************************)
(* A whole file is one of the machine that it is of.                        *)
(***************************************************************************)
\* The same CPU but for what no file keeps.
CpuAlike(c, d) ==
  /\ c.A = d.A /\ c.F = d.F /\ c.B = d.B /\ c.C = d.C /\ c.D = d.D /\ c.E = d.E
  /\ c.H = d.H /\ c.L = d.L /\ c.A_ = d.A_ /\ c.F_ = d.F_ /\ c.B_ = d.B_ /\ c.C_ = d.C_
  /\ c.D_ = d.D_ /\ c.E_ = d.E_ /\ c.H_ = d.H_ /\ c.L_ = d.L_ /\ c.IX = d.IX /\ c.IY = d.IY
  /\ c.SP = d.SP /\ c.PC = d.PC /\ c.I = d.I /\ c.R = d.R
  /\ c.IFF1 = d.IFF1 /\ c.IFF2 = d.IFF2 /\ c.IM = d.IM

Alike(p, q) ==
  /\ CpuAlike(p.cpu, q.cpu) /\ p.model = q.model /\ p.border = q.border /\ p.page = q.page
  /\ p.ay = q.ay /\ p.ram = q.ram

LEMMA HeadsAlike ==
  ASSUME NEW c, NEW d, CpuAlike(c, d)
  PROVE  /\ \A pc, flags : Z80Registers(c, pc, flags) = Z80Registers(d, pc, flags)
         /\ \A p, q : p.cpu = c /\ q.cpu = d /\ p.border = q.border => SnaHead(p) = SnaHead(q)
<1>1. ASSUME NEW pc, NEW flags PROVE Z80Registers(c, pc, flags) = Z80Registers(d, pc, flags)
  BY DEF Z80Registers, CpuAlike
<1>2. ASSUME NEW p, NEW q, p.cpu = c, q.cpu = d, p.border = q.border
      PROVE  SnaHead(p) = SnaHead(q)
  BY <1>2 DEF SnaHead, CpuAlike
<1> QED BY <1>1, <1>2

SameFiles(p, q) ==
  /\ Z80Bytes(p) = Z80Bytes(q) /\ OtherSna128(p) = OtherSna128(q)
  /\ \A compressed : OtherZ80(p, compressed) = OtherZ80(q, compressed)

LEMMA FilesAlike ==
  ASSUME NEW p, NEW q, Alike(p, q)
  PROVE  SameFiles(p, q)
<1> DEFINE c == p.cpu
           d == q.cpu
<1>1. CpuAlike(c, d) /\ c.PC = d.PC /\ c.R = d.R
  BY DEF Alike, CpuAlike
<1> HIDE DEF c, d
<1>2. /\ \A pc, flags : Z80Registers(c, pc, flags) = Z80Registers(d, pc, flags)
      /\ \A x, y : x.cpu = c /\ y.cpu = d /\ x.border = y.border => SnaHead(x) = SnaHead(y)
  BY <1>1, HeadsAlike
<1>3. Z80Flags(p) = Z80Flags(q)
  BY <1>1 DEF Z80Flags, Alike, c, d
<1>4. SnaHead(p) = SnaHead(q)
  BY <1>2 DEF Alike, c, d
<1>5. Z80Bytes(p) = Z80Bytes(q)
  <2>1. Z80Pages(p) = Z80Pages(q)
    BY DEF Z80Pages, Alike
  <2>2. Z80Registers(c, 0, Z80Flags(p)) = Z80Registers(d, 0, Z80Flags(q))
    BY <1>2, <1>3, SMTT(30)
  <2>3. Z80Head(p) = Z80Head(q)
    BY <1>1, <2>2 DEF Z80Head, Alike, c, d
  <2> QED BY <2>1, <2>3 DEF Z80Bytes
<1>6. OtherSna128(p) = OtherSna128(q)
  BY <1>1, <1>4 DEF OtherSna128, Alike, c, d
<1>7. ASSUME NEW compressed PROVE OtherZ80(p, compressed) = OtherZ80(q, compressed)
  <2> DEFINE flags == Z80Flags(p) - (IF compressed THEN 0 ELSE 32)
  <2>1. flags = Z80Flags(q) - (IF compressed THEN 0 ELSE 32)
    BY <1>3
  <2>2. Z80Registers(c, c.PC, flags) = Z80Registers(d, d.PC, flags)
    BY <1>1, <1>2
  <2> HIDE DEF flags
  <2>3. p.ram = q.ram
    BY DEF Alike
  <2> QED BY <2>1, <2>2, <2>3 DEF OtherZ80, c, d, flags
<1> QED BY <1>5, <1>6, <1>7 DEF SameFiles

\* What is left of a machine when it goes on.
Settled(c) == ~c.modifier /\ ~c.halted /\ ~c.lock

SettledAs(mm, p, r) ==
  /\ Sound(p) /\ Sound(r) /\ Alike(p, r) /\ Settled(r.cpu)
  /\ p.model = mm.model /\ r.model = mm.model

LEMMA ResumedWith ==
  ASSUME NEW mm, IsMachine(mm)
  PROVE  \E c \in CpuState : /\ PrepareCpu(mm) = With(mm, c, mm.ram)
                             /\ Resumed(mm, 0) = With(mm, Loaded(c, c.PC), mm.ram)
<1> DEFINE a == mm.cpu
           y == IF a.modifier THEN Word(a.PC - 1) ELSE a.PC
           c == CpuAt(a, y)
           no == FALSE
           d == [a EXCEPT !.PC = y, !.modifier = no, !.halted = no, !.lock = no]
<1>1. IsFunction(mm) /\ DOMAIN mm = MachineFields /\ a \in CpuState /\ a.PC \in R16
  BY CpuFields DEF IsMachine
<1>2. y \in R16
  <2>1. a.PC - 1 \in Int
    BY <1>1, R16Int
  <2>2. Word(a.PC - 1) \in R16
    BY <2>1, WordType
  <2> QED BY <1>1, <2>2
<1>3. c \in CpuState /\ c.PC = y
  BY <1>1, <1>2, CpuPC DEF CpuAt
<1>4. PrepareCpu(mm) = With(mm, c, mm.ram)
  <2>1. mm = With(mm, a, mm.ram)
    BY WithFields
  <2>2. CASE a.modifier
    <3>1. PrepareCpu(mm) = SetPC(mm, y)
      BY <2>2 DEF PrepareCpu, SetPC
    <3> HIDE DEF a, y
    <3>2. SetPC(With(mm, a, mm.ram), y) = With(mm, CpuAt(a, y), mm.ram)
      BY WithCpu
    <3> QED BY <2>1, <3>1, <3>2
  <2>3. CASE ~a.modifier
    <3>1. PrepareCpu(mm) = mm
      BY <2>3 DEF PrepareCpu
    <3>2. c = a
      BY <1>1, <2>3 DEF CpuState, CpuAt
    <3> QED BY <2>1, <3>1, <3>2
  <2> QED BY <2>2, <2>3
<1>5. Resumed(mm, 0) = With(mm, d, mm.ram)
  <2>1. a.PC - 1 + 0 = a.PC - 1
    BY <1>1, R16Int
  <2>2. (IF mm.cpu.modifier THEN Word(mm.cpu.PC - 1 + 0) ELSE mm.cpu.PC) = y
    BY <2>1
  <2>3. Resumed(mm, 0) =
          [mm EXCEPT !.cpu.PC = y, !.cpu.modifier = no, !.cpu.halted = no, !.cpu.lock = no]
    BY <2>2 DEF Resumed
  <2> HIDE DEF y
  <2>4. [mm EXCEPT !.cpu.PC = y, !.cpu.modifier = no, !.cpu.halted = no, !.cpu.lock = no]
          = With(mm, d, mm.ram)
    BY <1>1 DEF With, IsFunction, MachineFields
  <2> QED BY <2>3, <2>4
<1> HIDE DEF y
<1>6. d = Loaded(c, y)
  BY <1>1, <1>2 DEF Loaded, CpuAt, CpuState
<1> QED BY <1>3, <1>4, <1>5, <1>6

LEMMA ResumedSettled ==
  ASSUME NEW mm, Sound(mm)
  PROVE  SettledAs(mm, PrepareCpu(mm), Resumed(mm, 0))
<1>1. IsMachine(mm) /\ mm.ram \in Ram(mm.model)
  BY DEF Sound, Ram
<1>2. PICK c \in CpuState : /\ PrepareCpu(mm) = With(mm, c, mm.ram)
                            /\ Resumed(mm, 0) = With(mm, Loaded(c, c.PC), mm.ram)
  BY <1>1, ResumedWith
<1> DEFINE d == Loaded(c, c.PC)
           p == With(mm, c, mm.ram)
           r == With(mm, d, mm.ram)
<1>3. d \in CpuState /\ CpuAlike(c, d) /\ Settled(d)
  <2>1. d \in CpuState
    BY DEF CpuState, Loaded
  <2>2. CpuAlike(c, d)
    BY DEF CpuState, Loaded, CpuAlike
  <2>3. Settled(d)
    BY DEF CpuState, Loaded, Settled
  <2> QED BY <2>1, <2>2, <2>3
<1> HIDE DEF d
<1>4. Sound(p) /\ Sound(r)
  BY <1>1, <1>3, SoundWith
<1>5. /\ p.cpu = c /\ r.cpu = d /\ p.model = mm.model /\ r.model = mm.model
      /\ p.border = mm.border /\ r.border = mm.border /\ p.page = mm.page /\ r.page = mm.page
      /\ p.ay = mm.ay /\ r.ay = mm.ay /\ p.ram = mm.ram /\ r.ram = mm.ram
  BY <1>1 DEF IsMachine, IsFunction, MachineFields, With
<1> HIDE DEF p, r
<1>6. SettledAs(mm, p, r)
  BY <1>3, <1>4, <1>5 DEF SettledAs, Alike
<1> QED BY <1>2, <1>6 DEF p, r, d

LEMMA PushedAlike ==
  ASSUME NEW p, NEW q, IsMachine(p), IsMachine(q), p.model = "48K", Alike(p, q)
  PROVE  SnaBytes(PushPC(p)) = SnaBytes(PushPC(q))
<1> DEFINE sp == Word(p.cpu.SP - 2)
           c == CpuOn(p.cpu, sp)
           d == CpuOn(q.cpu, sp)
           x == PushPC(p)
           y == PushPC(q)
           r == Put16(p, p.ram, sp, p.cpu.PC)
<1>1. /\ p.cpu \in CpuState /\ q.cpu \in CpuState /\ CpuAlike(p.cpu, q.cpu)
      /\ q.model = "48K" /\ p.border = q.border /\ p.ram = q.ram
      /\ p.cpu.SP = q.cpu.SP /\ p.cpu.PC = q.cpu.PC
  BY DEF IsMachine, Alike, CpuAlike
<1>2. sp = Word(q.cpu.SP - 2)
  BY <1>1
<1> HIDE DEF sp
<1>3. Pushed(p, c, r, x)
  BY PushIs DEF sp
<1>4. Pushed(q, d, Put16(q, q.ram, sp, q.cpu.PC), y)
  BY <1>1, <1>2, PushIs
<1>5. Put16(q, q.ram, sp, q.cpu.PC) = r
  <2>1. \A a : RamIndex(q, a) = RamIndex(p, a)
    BY <1>1, SpotIs
  <2>2. ASSUME NEW s, NEW a, NEW b PROVE Put(q, s, a, b) = Put(p, s, a, b)
    <3>1. RamIndex(q, a) = RamIndex(p, a)
      BY <2>1
    <3> QED BY <3>1 DEF Put
  <2> QED BY <1>1, <2>2 DEF Put16
<1>6. CpuAlike(c, d)
  BY <1>1 DEF CpuAlike, CpuState, CpuOn
<1> HIDE DEF c, d, r, x, y
<1>7. /\ x.cpu = c /\ y.cpu = d /\ x.border = y.border /\ x.ram = y.ram
      /\ x.model = "48K" /\ y.model = "48K"
  BY <1>1, <1>3, <1>4, <1>5 DEF Pushed
<1>8. SnaHead(x) = SnaHead(y)
  BY <1>6, <1>7, HeadsAlike
<1>9. SnaBytes(x) = SnaBytes(y)
  BY <1>7, <1>8 DEF SnaBytes
<1> QED BY <1>9 DEF x, y

\* The bytes of a whole file, for those that who wrote it can load again.
IsWhole(ext, bytes, of, by) ==
  /\ Sound(of) /\ of.model \in {"48K", "128K"} /\ Settled(of.cpu)
  /\ \/ ext = "z80" /\ by = "gzx" /\ bytes = Z80Bytes(of)
     \/ ext = "sna" /\ by = "gzx" /\ of.model = "48K" /\ bytes = SnaBytes(PushPC(of))
     \/ ext = "sna" /\ by = "gzx" /\ of.model = "128K"
     \/ ext = "sna" /\ by = "other" /\ of.model = "128K" /\ bytes = OtherSna128(of)
     \/ /\ ext = "z80" /\ by = "other" /\ of.model = "48K" /\ of.cpu.PC # 0
        /\ \E compressed \in BOOLEAN : bytes = OtherZ80(of, compressed)

FileInv ==
  /\ IsFunction(file) /\ "whole" \in DOMAIN file
  /\ file.whole => IsWhole(file.ext, file.bytes, file.of, file.by)

LEMMA WholeIs ==
  ASSUME NEW mm, Sound(mm), mm.model \in {"48K", "128K"}
  PROVE  LET p == PrepareCpu(mm)
             r == Resumed(mm, 0)
         IN  /\ IsWhole("z80", Z80Bytes(p), r, "gzx")
             /\ IsWhole("sna", SnaBytes(PushPC(p)), r, "gzx")
             /\ mm.model = "128K" => IsWhole("sna", OtherSna128(p), r, "other")
             /\ mm.model = "48K" /\ p.cpu.PC # 0 =>
                  \A compressed \in BOOLEAN : IsWhole("z80", OtherZ80(p, compressed), r, "other")
<1> DEFINE p == PrepareCpu(mm)
           r == Resumed(mm, 0)
<1>1. SettledAs(mm, p, r)
  BY ResumedSettled
<1> HIDE DEF p, r
<1>2. /\ Sound(p) /\ Sound(r) /\ Alike(p, r) /\ Settled(r.cpu)
      /\ p.model = mm.model /\ r.model = mm.model /\ p.cpu.PC = r.cpu.PC
  BY <1>1 DEF SettledAs, Alike, CpuAlike
<1>3. SameFiles(p, r)
  BY <1>2, FilesAlike
<1>4. mm.model = "48K" => SnaBytes(PushPC(p)) = SnaBytes(PushPC(r))
  BY <1>2, PushedAlike DEF Sound
<1>5. IsWhole("z80", Z80Bytes(p), r, "gzx")
  BY <1>2, <1>3 DEF IsWhole, SameFiles
<1>6. IsWhole("sna", SnaBytes(PushPC(p)), r, "gzx")
  BY <1>2, <1>4 DEF IsWhole
<1>7. mm.model = "128K" => IsWhole("sna", OtherSna128(p), r, "other")
  BY <1>2, <1>3 DEF IsWhole, SameFiles
<1>8. ASSUME mm.model = "48K", p.cpu.PC # 0, NEW compressed \in BOOLEAN
      PROVE  IsWhole("z80", OtherZ80(p, compressed), r, "other")
  BY <1>2, <1>3, <1>8 DEF IsWhole, SameFiles
<1> QED BY <1>5, <1>6, <1>7, <1>8 DEF p, r

LEMMA InitSound == Init => SoundInv /\ FileInv
<1> SUFFICES ASSUME Init PROVE SoundInv /\ FileInv
  OBVIOUS
<1>1. PICK model \in Models : m = PowerOn(model)
  BY DEF Init
<1> DEFINE z == 0
           b == 7
           r == [x \in AyRegs |-> z]
           ay == [sel |-> z, reg |-> r]
           no == FALSE
           ram == Filled(model, z)
           mm == [model |-> model, cpu |-> ResetCpu, border |-> b, page |-> b, locked |-> no,
                  ay |-> ay, ram |-> ram]
<1>2. z \in R8 /\ b \in R8 /\ b \in 0..7 /\ z \in AyRegs /\ no = LockBit(b)
  BY DEF R8, AyRegs, LockBit
<1>3. PowerOn(model) = mm
  BY DEF PowerOn
<1> HIDE DEF z, b, no
<1>4. ram \in Ram(model)
  BY <1>2, FilledType
<1>5. IsAy(ay)
  BY <1>2 DEF IsAy
<1>6. IsFunction(ram)
  BY <1>4 DEF Ram, IsFunction
<1> HIDE DEF ram, ay
<1>7. /\ IsFunction(mm) /\ DOMAIN mm = MachineFields /\ mm.cpu = ResetCpu /\ mm.ram = ram
      /\ mm.model = model /\ mm.border = b /\ mm.page = b /\ mm.locked = no /\ mm.ay = ay
  BY DEF IsFunction, MachineFields
<1> HIDE DEF mm
<1>8. IsMachine(mm)
  BY <1>6, <1>7, ResetCpuType DEF IsMachine
<1>9. Sound(mm)
  <2>1. mm.ram \in [1..(RamBanks(mm.model) * PageBytes) -> R8]
    BY <1>4, <1>7 DEF Ram
  <2> QED BY <1>2, <1>5, <1>7, <1>8, <2>1 DEF Sound
<1>10. FileInv
  <2>1. file = NoFile
    BY DEF Init
  <2>2. IsFunction(NoFile) /\ "whole" \in DOMAIN NoFile /\ NoFile.whole = FALSE
    BY DEF NoFile, IsFunction
  <2> QED BY <2>1, <2>2 DEF FileInv
<1> QED BY <1>1, <1>3, <1>9, <1>10 DEF SoundInv

LEMMA SaveSound ==
  ASSUME NEW mm, Sound(mm)
  PROVE  Sound(PrepareCpu(mm)) /\ Sound(UnpushPC(PushPC(PrepareCpu(mm))))
<1>1. IsMachine(mm) /\ mm.ram \in Ram(mm.model)
  BY DEF Sound, Ram
<1>2. PICK c \in CpuState : PrepareCpu(mm) = With(mm, c, mm.ram)
  BY <1>1, ResumedWith
<1> DEFINE sp == Word(c.SP - 2)
           zeros == Put16(mm, mm.ram, sp, 0)
           ram == IF mm.model = "48K" THEN zeros ELSE mm.ram
<1>3. UnpushPC(PushPC(With(mm, c, mm.ram))) = With(mm, c, ram)
  BY <1>1, UnpushWith
<1>4. ram \in Ram(mm.model)
  <2> DEFINE z == 0
  <2>1. z \in R16
    BY DEF R16
  <2> HIDE DEF z, sp
  <2>2. Put16(mm, mm.ram, sp, z) \in Ram(mm.model)
    BY <1>1, <2>1, SoundPut
  <2> QED BY <1>1, <2>2 DEF z
<1> HIDE DEF ram
<1>5. Sound(With(mm, c, ram)) /\ Sound(With(mm, c, mm.ram))
  BY <1>1, <1>4, SoundWith
<1> QED BY <1>2, <1>3, <1>5

LEMMA SoundWritten ==
  ASSUME NEW mm, Sound(mm), NEW at, NEW page \in Pages
  PROVE  Sound([mm EXCEPT !.ram = Stored(@, at, page)])
<1> DEFINE D == 1..(RamBanks(mm.model) * PageBytes)
           ram == Stored(mm.ram, at, page)
<1>1. mm.ram \in [D -> R8] /\ mm.cpu \in CpuState /\ IsMachine(mm)
  BY DEF Sound, IsMachine
<1>2. page \in [1..PageBytes -> R8]
  BY BytesAssumption
<1> HIDE DEF D
<1>3. ram \in [D -> R8]
  BY <1>1, <1>2 DEF Stored
<1>4. ram \in Ram(mm.model)
  BY <1>3 DEF Ram, D
<1> HIDE DEF ram
<1>5. Sound(With(mm, mm.cpu, ram))
  BY <1>1, <1>4, SoundWith
<1>6. With(mm, mm.cpu, ram) = [mm EXCEPT !.ram = ram]
  BY <1>1 DEF With, IsMachine, IsFunction, MachineFields
<1>7. Sound([mm EXCEPT !.ram = ram])
  BY <1>5, <1>6
<1> QED BY <1>7 DEF ram

LEMMA SoundStep == SoundInv /\ [Next]_vars => SoundInv'
<1> SUFFICES ASSUME SoundInv, [Next]_vars PROVE SoundInv'
  OBVIOUS
<1>1. CASE Execute
  <2>1. PICK c \in Cpus : Work([m EXCEPT !.cpu = c], 1)
    BY <1>1 DEF Execute
  <2>2. Sound(m) /\ m' = [m EXCEPT !.cpu = c] /\ c \in CpuState
    BY <2>1, CpusAssumption DEF Work, Costs, SoundInv
  <2>3. IsMachine(m) /\ m.ram \in Ram(m.model)
    BY <2>2 DEF Sound, Ram
  <2>4. Sound(With(m, c, m.ram))
    BY <2>2, <2>3, SoundWith
  <2>5. With(m, c, m.ram) = [m EXCEPT !.cpu = c]
    BY <2>3 DEF With, IsMachine, IsFunction, MachineFields
  <2>6. Sound(m')
    BY <2>2, <2>4, <2>5
  <2> QED BY <2>6 DEF SoundInv
<1>2. CASE Write
  <2>1. PICK n \in Banks, page \in Pages :
          Work([m EXCEPT !.ram = Stored(@, n * PageBytes, page)], 2)
    BY <1>2 DEF Write
  <2>2. Sound(m) /\ m' = [m EXCEPT !.ram = Stored(@, n * PageBytes, page)]
    BY <2>1 DEF Work, Costs, SoundInv
  <2>3. Sound([m EXCEPT !.ram = Stored(@, n * PageBytes, page)])
    BY <2>2, SoundWritten
  <2>4. Sound(m')
    BY <2>2, <2>3
  <2> QED BY <2>4 DEF SoundInv
<1>3. CASE Select
  <2>1. PICK v \in Selects : Work(PageSelect(m, v), 1)
    BY <1>3 DEF Select
  <2>2. Sound(m) /\ m' = PageSelect(m, v) /\ v \in R8
    BY <2>1, BytesAssumption DEF Work, Costs, SoundInv
  <2> QED BY <2>2, SoundPage DEF SoundInv
<1>4. CASE ChooseModel
  <2>1. PICK model \in Models : Work(Reset(SelectModel(m, model, 0)), 1)
    BY <1>4 DEF ChooseModel
  <2>2. Sound(m) /\ m' = Reset(SelectModel(m, model, 0))
    BY <2>1 DEF Work, Costs, SoundInv
  <2> QED BY <2>2, SoundChosen DEF SoundInv
<1>5. CASE SaveInvalid \/ SaveZ80 \/ SaveSna
  <2>1. Sound(m)
    BY <1>5 DEF SaveInvalid, SaveZ80, SaveSna, Saved, Costs, SoundInv
  <2>2. m' \in {m, PrepareCpu(m), UnpushPC(PushPC(PrepareCpu(m)))}
    BY <1>5 DEF SaveInvalid, SaveZ80, SaveSna, Saved
  <2> QED BY <2>1, <2>2, SaveSound DEF SoundInv
<1>6. CASE OtherWrites
  BY <1>6 DEF OtherWrites, Other, Loads, SoundInv
<1>7. CASE Edit
  BY <1>7 DEF Edit, Loads, SoundInv
<1>8. CASE Load \/ LoadUnopened
  BY <1>8 DEF Load, LoadUnopened, Loads, SoundInv
<1>9. CASE UNCHANGED vars
  BY <1>9 DEF vars, SoundInv
<1> QED BY <1>1, <1>2, <1>3, <1>4, <1>5, <1>6, <1>7, <1>8, <1>9 DEF Next

\* What is written is whole if nothing was cut off.
LEMMA WroteWhole ==
  ASSUME NEW ext, NEW bytes \in Seq(R8), NEW cut \in Cuts, Wrote(ext, bytes, cut),
         IsWhole(ext, bytes, Resumed(m, 0), "gzx")
  PROVE  FileInv'
<1> DEFINE b == IF cut < Len(bytes) THEN SubSeq(bytes, 1, cut) ELSE bytes
           of == Resumed(m, back)
           whole == cut >= Len(bytes) /\ back = 0
           new == [bytes |-> b, ext |-> ext, of |-> of, whole |-> whole, by |-> "gzx"]
<1>1. file' = new
  BY DEF Wrote
<1>2. whole => b = bytes /\ of = Resumed(m, 0)
  <2>1. cut \in Nat /\ Len(bytes) \in Nat
    BY CutsAssumption
  <2> QED BY <2>1
<1> HIDE DEF b, of, whole
<1>3. /\ IsFunction(new) /\ "whole" \in DOMAIN new
      /\ new.bytes = b /\ new.ext = ext /\ new.of = of /\ new.whole = whole /\ new.by = "gzx"
  BY DEF IsFunction
<1> HIDE DEF new
<1>4. new.whole => IsWhole(new.ext, new.bytes, new.of, new.by)
  BY <1>2, <1>3
<1> QED BY <1>1, <1>3, <1>4 DEF FileInv

LEMMA OtherWhole ==
  ASSUME NEW ext, NEW bytes, Other(ext, bytes, m), IsWhole(ext, bytes, Resumed(m, 0), "other")
  PROVE  FileInv'
<1> DEFINE of == Resumed(m, 0)
           new == [bytes |-> bytes, ext |-> ext, of |-> of, whole |-> TRUE, by |-> "other"]
<1>1. file' = new
  BY DEF Other
<1> HIDE DEF of
<1>2. /\ IsFunction(new) /\ "whole" \in DOMAIN new
      /\ new.bytes = bytes /\ new.ext = ext /\ new.of = of /\ new.by = "other"
  BY DEF IsFunction
<1> HIDE DEF new
<1>3. IsWhole(new.ext, new.bytes, new.of, new.by)
  BY <1>2 DEF of
<1> QED BY <1>1, <1>2, <1>3 DEF FileInv

LEMMA SnaBytesType ==
  ASSUME NEW p, Savable(p)
  PROVE  SnaBytes(PushPC(p)) \in Seq(R8)
<1> DEFINE n == PushPC(p)
           head == SnaHead(n)
<1>1. /\ p.cpu \in CpuState /\ p.border \in 0..7 /\ IsMachine(p) /\ p.page \in R8
      /\ p.cpu.PC \in R16 /\ p.cpu.SP \in R16 /\ p.ram \in Ram(p.model)
  <2>1. /\ p.cpu \in CpuState /\ p.border \in 0..7 /\ IsMachine(p) /\ p.page \in R8
        /\ p.ram \in Ram(p.model)
    BY DEF Savable, Sound, IsMachine, Ram
  <2> QED BY <2>1, CpuFields
<1>2. ASSUME n.cpu \in CpuState, n.border \in 0..7 PROVE head \in Seq(R8)
  <2> DEFINE e == <<>>
  <2>1. e \in Seq(R8)
    OBVIOUS
  <2> HIDE DEF e, n
  <2> QED BY <1>2, <2>1, SnaHeld
<1>3. CASE p.model = "48K"
  <2> DEFINE sp == Word(p.cpu.SP - 2)
             c == CpuOn(p.cpu, sp)
             ram == Put16(p, p.ram, sp, p.cpu.PC)
             k == 3
  <2>1. Pushed(p, c, ram, n)
    BY <1>1, <1>3, PushIs
  <2>2. c \in CpuState
    <3>1. p.cpu.SP - 2 \in Int
      BY <1>1, R16Int
    <3>2. sp \in R16
      BY <3>1, WordType
    <3> HIDE DEF sp
    <3> QED BY <1>1, <3>2, CpuSP DEF CpuOn
  <2>3. ram \in Ram(p.model) /\ k \in 0..8
    BY <1>1, SoundPut
  <2>4. IsRam(ram, k)
    BY <1>3, <2>3 DEF Ram, IsRam, Size, RamBanks
  <2> HIDE DEF c, ram, k, n
  <2>5. ram \in Seq(R8)
    BY <2>3, <2>4, RamIs
  <2>6. n.cpu \in CpuState /\ n.border \in 0..7 /\ n.ram = ram /\ n.model = "48K"
    BY <1>1, <1>3, <2>1, <2>2 DEF Pushed
  <2>7. head \in Seq(R8)
    BY <1>2, <2>6
  <2>8. SnaBytes(n) = head \o n.ram
    BY <2>6 DEF SnaBytes
  <2> HIDE DEF head
  <2>9. SnaBytes(n) \in Seq(R8)
    BY <2>5, <2>6, <2>7, <2>8, ConcatType
  <2> QED BY <2>9 DEF n
<1>4. CASE p.model = "128K"
  <2> DEFINE k == 8
             first == FirstBanks(p.page)
             other == OtherBanks(p.page)
             t2 == BanksOf(p.ram, first)
             t3 == BanksOf(p.ram, other)
             t4 == Le(p.cpu.PC)
             t5 == <<p.page, 0>>
  <2>1. n = p
    BY <1>4 DEF PushPC
  <2>2. head \in Seq(R8)
    BY <1>1, <1>2, <2>1
  <2>3. IsRam(p.ram, k)
    BY <1>1, <1>4 DEF Ram, IsRam, Size, RamBanks
  <2>4. AreBanks(first, k) /\ AreBanks(other, k)
    BY <1>1, BankLists
  <2> HIDE DEF first, other, k
  <2>5. t2 \in Seq(R8) /\ t3 \in Seq(R8)
    BY <2>3, <2>4, BanksOfType
  <2>6. t4 \in Seq(R8) /\ t5 \in Seq(R8)
    <3>1. 0 \in R8
      BY DEF R8
    <3> QED BY <1>1, <3>1, LeType
  <2>7. SnaBytes(p) = head \o t2 \o t3 \o t4 \o t5
    BY <1>4, <2>1 DEF SnaBytes, first, other
  <2> HIDE DEF head, t2, t3, t4, t5
  <2>8. SnaBytes(p) \in Seq(R8)
    BY <2>2, <2>5, <2>6, <2>7, ConcatType
  <2> QED BY <2>1, <2>8
<1> QED BY <1>3, <1>4 DEF Savable

LEMMA FileStep == SoundInv /\ FileInv /\ [Next]_vars => FileInv'
<1> SUFFICES ASSUME SoundInv, FileInv, [Next]_vars PROVE FileInv'
  OBVIOUS
<1>1. CASE UNCHANGED file
  BY <1>1 DEF FileInv
<1>2. CASE SaveZ80
  <2>1. Sound(m) /\ m.model \in {"48K", "128K"}
    BY <1>2 DEF SaveZ80, Saved, Costs, SoundInv
  <2> DEFINE p == PrepareCpu(m)
             bytes == Z80Bytes(p)
  <2>2. IsWhole("z80", bytes, Resumed(m, 0), "gzx")
    BY <2>1, WholeIs
  <2>3. Savable(p)
    <3>1. SettledAs(m, p, Resumed(m, 0))
      BY <2>1, ResumedSettled
    <3> QED BY <2>1, <3>1 DEF SettledAs, Savable
  <2>4. bytes \in Seq(R8)
    <3> HIDE DEF p
    <3> QED BY <2>3, HeadAndPages
  <2>5. CASE UNCHANGED file
    BY <1>1, <2>5
  <2>6. CASE \E cut \in Cuts : Wrote("z80", bytes, cut)
    <3> HIDE DEF bytes
    <3> QED BY <2>2, <2>4, <2>6, WroteWhole
  <2> QED BY <1>2, <2>5, <2>6 DEF SaveZ80
<1>3. CASE SaveSna
  <2>1. Sound(m) /\ m.model \in {"48K", "128K"}
    BY <1>3 DEF SaveSna, Saved, Costs, SoundInv
  <2> DEFINE p == PrepareCpu(m)
             bytes == SnaBytes(PushPC(p))
  <2>2. IsWhole("sna", bytes, Resumed(m, 0), "gzx")
    BY <2>1, WholeIs
  <2>3. Savable(p)
    <3>1. SettledAs(m, p, Resumed(m, 0))
      BY <2>1, ResumedSettled
    <3> QED BY <2>1, <3>1 DEF SettledAs, Savable
  <2>4. bytes \in Seq(R8)
    <3> HIDE DEF p
    <3> QED BY <2>3, SnaBytesType
  <2>5. CASE UNCHANGED file
    BY <1>1, <2>5
  <2>6. CASE \E cut \in Cuts : Wrote("sna", bytes, cut)
    <3> HIDE DEF bytes
    <3> QED BY <2>2, <2>4, <2>6, WroteWhole
  <2> QED BY <1>3, <2>5, <2>6 DEF SaveSna
<1>4. CASE OtherWrites
  <2>1. Sound(m)
    BY <1>4 DEF OtherWrites, Other, Loads, SoundInv
  <2> DEFINE p == PrepareCpu(m)
  <2>2. CASE m.model = "128K" /\ Other("sna", OtherSna128(p), m)
    <3>1. IsWhole("sna", OtherSna128(p), Resumed(m, 0), "other")
      BY <2>1, <2>2, WholeIs
    <3> HIDE DEF p
    <3> QED BY <2>2, <3>1, OtherWhole
  <2>3. CASE /\ m.model = "48K" /\ p.cpu.PC # 0
             /\ \E compressed \in BOOLEAN : Other("z80", OtherZ80(p, compressed), m)
    <3>1. \A compressed \in BOOLEAN :
            IsWhole("z80", OtherZ80(p, compressed), Resumed(m, 0), "other")
      BY <2>1, <2>3, WholeIs
    <3>2. PICK compressed \in BOOLEAN : Other("z80", OtherZ80(p, compressed), m)
      BY <2>3
    <3> HIDE DEF p
    <3>3. IsWhole("z80", OtherZ80(p, compressed), Resumed(m, 0), "other")
      BY <3>1
    <3> QED BY <3>2, <3>3, OtherWhole
  <2> QED BY <1>4, <2>2, <2>3 DEF OtherWrites
<1>5. CASE Edit
  <2>1. PICK e \in Edits : file' = [file EXCEPT !.bytes[e[1]] = e[2], !.whole = FALSE]
    BY <1>5 DEF Edit
  <2>2. IsFunction(file') /\ "whole" \in DOMAIN file' /\ ~file'.whole
    BY <2>1 DEF FileInv, IsFunction
  <2> QED BY <2>2 DEF FileInv
<1>6. CASE Execute \/ Write \/ Select \/ ChooseModel \/ SaveInvalid \/ Load \/ LoadUnopened
           \/ UNCHANGED vars
  <2>1. UNCHANGED file
    BY <1>6 DEF Execute, Write, Select, ChooseModel, Work, SaveInvalid, Load, LoadUnopened,
                vars
  <2> QED BY <1>1, <2>1
<1> QED BY <1>2, <1>3, <1>4, <1>5, <1>6 DEF Next

(***************************************************************************)
(* What is loaded is what was kept.                                         *)
(***************************************************************************)
Keeps(mm, ext) ==
  LET sp == Word(mm.cpu.SP - 2) IN
  IF ext = "z80" THEN mm
  ELSE IF mm.model = "48K" THEN [Poke16(mm, sp, 0) EXCEPT !.cpu.IFF2 = mm.cpu.IFF1]
  ELSE [mm EXCEPT !.cpu.IFF2 = mm.cpu.IFF1]

KeptOf(mm, ext, by) ==
  [model |-> mm.model, cpu |-> Keeps(mm, ext).cpu, ram |-> Keeps(mm, ext).ram,
   border |-> mm.border,
   paging |-> IF mm.model = "48K" THEN <<>> ELSE <<mm.page, mm.locked>>,
   ay |-> IF ext = "z80" /\ by = "gzx" THEN <<mm.ay>> ELSE <<>>]

LEMMA SettledIs ==
  ASSUME NEW c \in CpuState, Settled(c)
  PROVE  /\ Loaded(c, c.PC) = c
         /\ Loaded(OneIFF(c), c.PC) = OneIFF(c) /\ OneIFF(OneIFF(c)) = OneIFF(c)
<1> DEFINE no == FALSE
<1>1. c.modifier = no /\ c.halted = no /\ c.lock = no
  BY DEF Settled, CpuState
<1>2. ASSUME NEW d \in CpuState, d.modifier = no, d.halted = no, d.lock = no
      PROVE  [d EXCEPT !.PC = d.PC, !.modifier = no, !.halted = no, !.lock = no] = d
  <2> HIDE DEF no
  <2> QED BY <1>2 DEF CpuState
<1> HIDE DEF no
<1>3. \A d : Loaded(d, d.PC) = [d EXCEPT !.PC = d.PC, !.modifier = no, !.halted = no, !.lock = no]
  BY DEF Loaded, no
<1>4. Loaded(c, c.PC) = c
  BY <1>1, <1>2, <1>3
<1> DEFINE b == OneIFF(c)
<1>5. b \in CpuState /\ b.modifier = no /\ b.halted = no /\ b.lock = no /\ b.PC = c.PC
  BY <1>1 DEF OneIFF, CpuState
<1>6. OneIFF(b) = b
  BY DEF OneIFF, CpuState
<1> HIDE DEF b
<1>7. Loaded(b, c.PC) = b
  BY <1>2, <1>3, <1>5
<1> QED BY <1>4, <1>6, <1>7 DEF b

LEMMA KeptZ80 ==
  ASSUME NEW n, Savable(n), Settled(n.cpu), NEW res, Continues(res, n), NEW by,
         by = "gzx" => res.m.ay = n.ay
  PROVE  KeptOf(res.m, "z80", by) = KeptOf(n, "z80", by)
<1> DEFINE c == n.cpu
           r == res.m
<1>1. c \in CpuState
  BY DEF Savable, Sound, IsMachine
<1>2. Loaded(c, c.PC) = c
  BY <1>1, SettledIs
<1> HIDE DEF c, r
<1>3. /\ r.model = n.model /\ r.cpu = n.cpu /\ r.border = n.border /\ r.ram = n.ram
      /\ n.model # "48K" => r.page = n.page /\ r.locked = n.locked
      /\ by = "gzx" => r.ay = n.ay
  BY <1>2 DEF Continues, c, r
<1>4. KeptOf(r, "z80", by) = KeptOf(n, "z80", by)
  BY <1>3 DEF KeptOf, Keeps
<1> QED BY <1>4 DEF r

\* The part of a machine that a .sna file keeps.
SnaKeeps(mm, c, ram) == Keeps(mm, "sna").cpu = c /\ Keeps(mm, "sna").ram = ram

LEMMA SnaKeepsIs ==
  ASSUME NEW mm, IsMachine(mm)
  PROVE  LET sp == Word(mm.cpu.SP - 2) IN
         SnaKeeps(mm, OneIFF(mm.cpu), IF mm.model = "48K" THEN Put16(mm, mm.ram, sp, 0) ELSE mm.ram)
<1> DEFINE sp == Word(mm.cpu.SP - 2)
           zeros == Put16(mm, mm.ram, sp, 0)
           ram == IF mm.model = "48K" THEN zeros ELSE mm.ram
           q == With(mm, mm.cpu, ram)
<1>1. mm.cpu \in CpuState /\ IsFunction(mm.ram) /\ mm = With(mm, mm.cpu, mm.ram)
  BY WithFields DEF IsMachine
<1>2. CASE mm.model = "48K"
  <2>1. Poke16(mm, sp, 0) = With(mm, mm.cpu, zeros)
    <3> HIDE DEF sp
    <3> QED BY <1>1, PokeWith
  <2>2. Keeps(mm, "sna") = [q EXCEPT !.cpu.IFF2 = mm.cpu.IFF1]
    BY <1>2, <2>1 DEF Keeps
  <2> HIDE DEF ram
  <2>3. [q EXCEPT !.cpu.IFF2 = mm.cpu.IFF1].cpu = OneIFF(mm.cpu)
        /\ [q EXCEPT !.cpu.IFF2 = mm.cpu.IFF1].ram = ram
    BY DEF IsMachine, IsFunction, MachineFields, With, OneIFF
  <2> HIDE DEF q
  <2> QED BY <2>2, <2>3 DEF SnaKeeps, ram
<1>3. CASE mm.model # "48K"
  <2>1. Keeps(mm, "sna") = [mm EXCEPT !.cpu.IFF2 = mm.cpu.IFF1]
    BY <1>3 DEF Keeps
  <2>2. [mm EXCEPT !.cpu.IFF2 = mm.cpu.IFF1].cpu = OneIFF(mm.cpu)
        /\ [mm EXCEPT !.cpu.IFF2 = mm.cpu.IFF1].ram = mm.ram
    BY DEF IsMachine, IsFunction, MachineFields, OneIFF
  <2> QED BY <1>3, <2>1, <2>2 DEF SnaKeeps
<1> QED BY <1>2, <1>3

LEMMA KeptSna ==
  ASSUME NEW n, Savable(n), Settled(n.cpu), NEW res, NEW ram, SnaContinues(res, n, ram),
         NEW sp, sp = Word(n.cpu.SP - 2),
         ram = IF n.model = "48K" THEN Put16(n, n.ram, sp, 0) ELSE n.ram, NEW by
  PROVE  KeptOf(res.m, "sna", by) = KeptOf(n, "sna", by)
<1> DEFINE c == n.cpu
           d == OneIFF(c)
           r == res.m
<1>1. c \in CpuState /\ IsMachine(n) /\ IsFunction(n.ram) /\ n.model \in {"48K", "128K"}
  BY DEF Savable, Sound, IsMachine
<1>2. d \in CpuState /\ Loaded(d, c.PC) = d /\ OneIFF(d) = d /\ d.SP = c.SP
  BY <1>1, SettledIs, OneIFFIs
<1>3. SnaKeeps(n, d, ram)
  BY <1>1, SnaKeepsIs
<1> HIDE DEF d, r
<1>4. /\ r.model = n.model /\ r.cpu = d /\ r.border = n.border /\ r.ram = ram /\ HasFields(r)
      /\ n.model # "48K" => r.page = n.page /\ r.locked = n.locked
  BY <1>2 DEF SnaContinues, d, r
<1>5. IsFunction(ram)
  <2>1. CASE n.model = "48K"
    BY <1>1, <2>1, PutFunction DEF Put16
  <2>2. CASE n.model # "48K"
    BY <1>1, <2>2
  <2> QED BY <2>1, <2>2
<1>6. IsMachine(r)
  BY <1>2, <1>4, <1>5 DEF IsMachine, HasFields
<1>7. SnaKeeps(r, d, ram)
  <2>1. SnaKeeps(r, OneIFF(r.cpu),
                 IF r.model = "48K" THEN Put16(r, r.ram, Word(r.cpu.SP - 2), 0) ELSE r.ram)
    BY <1>6, SnaKeepsIs
  <2>2. r.cpu = d /\ OneIFF(r.cpu) = d /\ Word(r.cpu.SP - 2) = sp
    BY <1>2, <1>4
  <2>3. CASE n.model = "48K"
    <3>1. Put16(r, ram, sp, 0) = Put16(n, ram, sp, 0)
      <4>1. ASSUME NEW s, NEW a, NEW b PROVE Put(r, s, a, b) = Put(n, s, a, b)
        <5>1. RamIndex(r, a) = RamIndex(n, a)
          BY <1>4, <2>3, SpotIs
        <5> QED BY <5>1 DEF Put
      <4> QED BY <4>1 DEF Put16
    <3>2. Put16(n, ram, sp, 0) = ram
      <4>1. ram = Put16(n, n.ram, sp, 0)
        BY <2>3
      <4>2. Put16(n, Put16(n, n.ram, sp, 0), sp, 0) = Put16(n, n.ram, sp, 0)
        BY <1>1, PutTwice
      <4> QED BY <4>1, <4>2
    <3>3. Put16(r, r.ram, Word(r.cpu.SP - 2), 0) = ram
      BY <1>4, <2>2, <3>1, <3>2
    <3> QED BY <1>4, <2>1, <2>2, <2>3, <3>3
  <2>4. CASE n.model # "48K"
    BY <1>4, <2>1, <2>2, <2>4
  <2> QED BY <2>3, <2>4
<1>8. KeptOf(r, "sna", by) = KeptOf(n, "sna", by)
  BY <1>3, <1>4, <1>7 DEF KeptOf, SnaKeeps
<1> QED BY <1>8 DEF r

\* What a file is apart from the exceptions.
Exact(ext, of, by) ==
  /\ ext = "z80" /\ by = "gzx" => ~Doubtful(of.ram, PageOrder(of.model))
  /\ ext = "sna" /\ of.model = "48K" => IsWordAt(Word(of.cpu.SP - 2))
  /\ ~(ext = "sna" /\ of.model = "128K" /\ by = "gzx")

LoadedFrom(mm, ext, bytes, junk) ==
  IF ext = "z80" THEN LoadZ80(mm, bytes, junk, junk) ELSE LoadSna(mm, bytes, junk, junk)

IsRestored(res, ext, of, by) ==
  /\ res.rc = 0 /\ res.over = FALSE
  /\ KeptOf(res.m, ext, by) = KeptOf(of, ext, by)

LEMMA WholeRestored ==
  ASSUME NEW mm, HasFields(mm), NEW junk \in R8, NEW ext, NEW bytes, NEW of, NEW by,
         IsWhole(ext, bytes, of, by), Exact(ext, of, by)
  PROVE  IsRestored(LoadedFrom(mm, ext, bytes, junk), ext, of, by)
<1> DEFINE res == LoadedFrom(mm, ext, bytes, junk)
           z80 == LoadZ80(mm, bytes, junk, junk)
           sna == LoadSna(mm, bytes, junk, junk)
<1>1. Savable(of) /\ Settled(of.cpu)
  BY DEF IsWhole, Savable
<1>2. ASSUME ext = "z80", Continues(z80, of), by = "gzx" => z80.m.ay = of.ay
      PROVE  IsRestored(res, ext, of, by)
  <2>1. res = z80
    BY <1>2 DEF LoadedFrom
  <2> HIDE DEF z80, res
  <2>2. KeptOf(z80.m, "z80", by) = KeptOf(of, "z80", by)
    BY <1>1, <1>2, KeptZ80
  <2> QED BY <1>2, <2>1, <2>2 DEF Continues, IsRestored
<1>3. ASSUME ext = "sna", NEW ram, SnaContinues(sna, of, ram), NEW sp, sp = Word(of.cpu.SP - 2),
             ram = IF of.model = "48K" THEN Put16(of, of.ram, sp, 0) ELSE of.ram
      PROVE  IsRestored(res, ext, of, by)
  <2>1. res = sna
    BY <1>3 DEF LoadedFrom
  <2> HIDE DEF sna, res
  <2>2. KeptOf(sna.m, "sna", by) = KeptOf(of, "sna", by)
    BY <1>1, <1>3, KeptSna
  <2> QED BY <1>3, <2>1, <2>2 DEF SnaContinues, IsRestored
<1> HIDE DEF res
<1>4. CASE ext = "z80" /\ by = "gzx" /\ bytes = Z80Bytes(of)
  <2>1. ~Doubtful(of.ram, PageOrder(of.model))
    BY <1>4 DEF Exact
  <2>2. Continues(z80, of) /\ z80.m.ay = of.ay
    BY <1>1, <1>4, <2>1, Z80Restores
  <2> QED BY <1>2, <1>4, <2>2 DEF res
<1>5. CASE /\ ext = "z80" /\ by = "other" /\ of.model = "48K" /\ of.cpu.PC # 0
           /\ \E compressed \in BOOLEAN : bytes = OtherZ80(of, compressed)
  <2>1. PICK compressed \in BOOLEAN : bytes = OtherZ80(of, compressed)
    BY <1>5
  <2>2. Continues(z80, of)
    BY <1>1, <1>5, <2>1, OlderZ80Restores
  <2> QED BY <1>2, <1>5, <2>2 DEF res
<1>6. CASE ext = "sna" /\ of.model = "48K" /\ bytes = SnaBytes(PushPC(of))
  <2> DEFINE sp == Word(of.cpu.SP - 2)
             ram == Put16(of, of.ram, sp, 0)
  <2>1. IsWordAt(sp)
    BY <1>6 DEF Exact
  <2>2. sp = Word(of.cpu.SP - 2)
    OBVIOUS
  <2> HIDE DEF sp
  <2>3. SnaContinues(sna, of, ram)
    BY <1>1, <1>6, <2>1, <2>2, Sna48Restores
  <2>4. ram = IF of.model = "48K" THEN Put16(of, of.ram, sp, 0) ELSE of.ram
    BY <1>6
  <2> HIDE DEF ram, sna
  <2>5. IsRestored(res, ext, of, by)
    BY <1>3, <1>6, <2>2, <2>3, <2>4
  <2> QED BY <2>5 DEF res
<1>7. CASE ext = "sna" /\ of.model = "128K" /\ bytes = OtherSna128(of)
  <2> DEFINE sp == Word(of.cpu.SP - 2)
             ram == of.ram
  <2>1. SnaContinues(sna, of, ram)
    BY <1>1, <1>7, Sna128Restores
  <2>2. sp = Word(of.cpu.SP - 2) /\ ram = IF of.model = "48K" THEN Put16(of, of.ram, sp, 0) ELSE of.ram
    BY <1>7
  <2> HIDE DEF ram, sna, sp
  <2>3. IsRestored(res, ext, of, by)
    BY <1>3, <1>7, <2>1, <2>2
  <2> QED BY <2>3 DEF res
<1>8. ~(ext = "sna" /\ of.model = "128K" /\ by = "gzx")
  BY DEF Exact
<1> QED BY <1>4, <1>5, <1>6, <1>7, <1>8 DEF IsWhole

LEMMA FileExact ==
  ASSUME file.of.cpu \in CpuState, ~Ambiguous, ~StackInRom, ~OwnSna128
  PROVE  Exact(file.ext, file.of, file.by)
<1> DEFINE of == file.of
           order == PageOrder(of.model)
<1>1. file.ext = "z80" /\ file.by = "gzx" => ~Doubtful(of.ram, order)
  BY DEF Ambiguous, Doubtful, BankAt
<1>2. ASSUME file.ext = "sna", of.model = "48K" PROVE IsWordAt(Word(of.cpu.SP - 2))
  <2> DEFINE w == of.cpu.SP
             x == Word(w - 1)
             sp == Word(w - 2)
  <2>1. ~(x < 16384) /\ ~(sp < 16384)
    BY <1>2, SMTT(30) DEF StackInRom
  <2>2. w \in Nat /\ w < 65536
    <3>1. w \in R16
      BY CpuFields
    <3> HIDE DEF w
    <3> QED BY <3>1, SMTT(30) DEF R16
  <2> HIDE DEF w
  <2>3. sp \in R16 /\ x \in R16
    <3>1. w - 2 \in Int /\ w - 1 \in Int
      BY <2>2
    <3> QED BY <3>1, WordType
  <2>4. Word(sp + 1) = x
    BY <2>2 DEF Word
  <2> HIDE DEF sp, x
  <2>5. sp \in Nat /\ x \in Nat
    <3>1. \A y \in R16 : y \in Nat
      BY DEF R16
    <3> QED BY <2>3, <3>1
  <2>6. IsWordAt(sp)
    BY <2>1, <2>3, <2>4, <2>5 DEF IsWordAt
  <2> QED BY <2>6 DEF sp, w
<1>3. ~(file.ext = "sna" /\ of.model = "128K" /\ file.by = "gzx")
  BY DEF OwnSna128
<1> QED BY <1>1, <1>2, <1>3 DEF Exact

LEMMA RestoreStep ==
  LoadRestores /\ SoundInv /\ FileInv /\ [Next]_vars => LoadRestores'
<1> SUFFICES ASSUME LoadRestores, SoundInv, FileInv, [Next]_vars PROVE LoadRestores'
  OBVIOUS
<1>1. CASE UNCHANGED vars
  BY <1>1 DEF vars, LoadRestores, Ambiguous, StackInRom, OwnSna128, Restores, Kept
<1>2. CASE Load
  <2> SUFFICES ASSUME file'.whole, ~Ambiguous', ~StackInRom', ~OwnSna128' PROVE Restores'
    BY DEF LoadRestores
  <2>1. file' = file /\ HasFields(m)
    BY <1>2 DEF Load, SoundInv, Sound, IsMachine, HasFields
  <2>2. ~Ambiguous /\ ~StackInRom /\ ~OwnSna128
    BY <2>1 DEF Ambiguous, StackInRom, OwnSna128
  <2>3. IsWhole(file.ext, file.bytes, file.of, file.by)
    BY <2>1 DEF FileInv
  <2>4. Exact(file.ext, file.of, file.by)
    <3>1. file.of.cpu \in CpuState
      BY <2>3 DEF IsWhole, Sound, IsMachine
    <3> QED BY <2>2, <3>1, FileExact
  <2>5. PICK junk \in Junk : LET res == LoadedFrom(m, file.ext, file.bytes, junk) IN
                             /\ m' = res.m /\ over' = res.over
                             /\ \/ did' = "load" /\ rc' = res.rc
                                \/ did' = "short" /\ rc' = -1
    BY <1>2 DEF Load, LoadedFrom
  <2> DEFINE res == LoadedFrom(m, file.ext, file.bytes, junk)
  <2>6. IsRestored(res, file.ext, file.of, file.by)
    <3>1. junk \in R8
      BY BytesAssumption
    <3> QED BY <2>1, <2>3, <2>4, <3>1, WholeRestored
  <2> HIDE DEF res
  <2>7. /\ rc' = (IF did' = "short" THEN -1 ELSE 0) /\ over' = FALSE
        /\ KeptOf(m', file.ext, file.by) = KeptOf(file.of, file.ext, file.by)
    BY <2>5, <2>6 DEF IsRestored, res
  <2>8. Kept(m, file.ext)' = KeptOf(m', file.ext, file.by)
    BY <2>1 DEF Kept, KeptOf, Keeps
  <2>9. Kept(file.of, file.ext)' = KeptOf(file.of, file.ext, file.by)
    BY <2>1 DEF Kept, KeptOf, Keeps
  <2> QED BY <2>7, <2>8, <2>9 DEF Restores
<1>3. CASE Execute \/ Write \/ Select \/ ChooseModel \/ SaveInvalid \/ SaveZ80 \/ SaveSna
           \/ OtherWrites \/ Edit \/ LoadUnopened
  <2>1. did' \notin {"load", "short"}
    BY <1>3 DEF Execute, Write, Select, ChooseModel, Work, SaveInvalid, SaveZ80, SaveSna, Saved,
                OtherWrites, Other, Edit, LoadUnopened
  <2> QED BY <2>1 DEF LoadRestores
<1> QED BY <1>1, <1>2, <1>3 DEF Next

(* A whole file is loaded as the machine that it is of (zx_load_snap_z80(), *)
(* zx_load_snap_sna()), for all states of the CPU, the paging and the AY,   *)
(* all contents of the memory, whatever the machine was that it is loaded   *)
(* into and whatever memory held: for the newer and the older .z80 files,   *)
(* packed or not, and the .sna files of both machines.                      *)
THEOREM LoadRestoresCorrect == Spec => []LoadRestores
<1>1. Init => LoadRestores
  BY DEF Init, LoadRestores
<1> QED BY InitSound, SoundStep, FileStep, RestoreStep, <1>1, PTL DEF Spec

=============================================================================
