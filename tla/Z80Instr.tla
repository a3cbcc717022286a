------------------------------ MODULE Z80Instr ------------------------------
(***************************************************************************)
(* The instruction set of the Z80 (z80.c, z80itab.c) and z80_execinstr().   *)
(*                                                                          *)
(* The tables of z80itab.c are regular: an opcode is 64 x + 8 y + z, y and  *)
(* z name an operation, a register or a condition, and a DD or FD prefix    *)
(* puts IX or IY in the place of HL.  Here one operator stands for all the  *)
(* functions of an operation, with the index register as its parameter ix.  *)
(* An instruction leads from a state of the CPU, the memory and the ports   *)
(* to the next; PC has already passed the opcode.                           *)
(***************************************************************************)
EXTENDS Z80Alu, Sequences

CONSTANTS Ram,          \* the addresses that can be written; others read 0
          In(_)         \* what is read from a port

ASSUME InAssumption == \A port \in Word : In(port) \in Byte

Pairs == {"BC", "DE", "HL", "IX", "IY", "SP"}

Machine ==
  [A : Byte, F : Flags, rp : [Pairs -> Word],
   A_ : Byte, F_ : Flags, rp_ : [{"BC", "DE", "HL"} -> Word],
   I : Byte, R : Byte, W : Byte, PC : Word,
   IFF1 : BOOLEAN, IFF2 : BOOLEAN, int_mode : 0 .. 2, int_lock : BOOLEAN,
   int_pending : BOOLEAN, nmi_pending : BOOLEAN, modifier : 0 .. 2,
   flags_aff : BOOLEAN, pflags_aff : BOOLEAN, halted : BOOLEAN,
   opcode : Byte, group : {"op", "ed", "cb"},
   mem : [Ram -> Byte], out : Seq(Word \X Byte), ticks : Nat]

-----------------------------------------------------------------------------
(* Memory, registers and operands.                                          *)

Read(s, a) == IF a \in Ram THEN s.mem[a] ELSE 0
Write(s, a, v) == IF a \in Ram THEN [s EXCEPT !.mem[a] = v] ELSE s

Read16(s, a) == Pair(Read(s, To16(a + 1)), Read(s, a))
Write16(s, a, v) == Write(Write(s, a, Lo(v)), To16(a + 1), Hi(v))

\* z80_iget8() and z80_iget16(): what is read, and PC behind it
Next8(s) == Read(s, s.PC)
Next16(s) == Read16(s, s.PC)
Skip(s, n) == [s EXCEPT !.PC = To16(@ + n)]

\* z80_clock_inc(), incr_R()
Spend(s, t) == [s EXCEPT !.ticks = @ + t]
IncrR(s, n) == [s EXCEPT !.R = 128 * (@ \div 128) + ((@ + n) % 128)]

SetF(s, F) == [s EXCEPT !.F = F, !.flags_aff = TRUE]
SetPair(s, p, w) == [s EXCEPT !.rp[p] = To16(w)]
B(s) == Hi(s.rp["BC"])

\* The registers by their codes: B, C, D, E, H, L, (HL), A.
RegPair(z, ix) == CASE z \in {0, 1} -> "BC" [] z \in {2, 3} -> "DE" [] z \in {4, 5} -> ix
Reg(s, z, ix) ==
  IF z = 7 THEN s.A
  ELSE LET w == s.rp[RegPair(z, ix)] IN IF z % 2 = 0 THEN Hi(w) ELSE Lo(w)
SetReg(s, z, ix, v) ==
  IF z = 7 THEN [s EXCEPT !.A = v]
  ELSE [s EXCEPT !.rp[RegPair(z, ix)] =
          IF z % 2 = 0 THEN Pair(v, Lo(@)) ELSE Pair(Hi(@), v)]

\* The operand (HL), (IX+d) or (IY+d), where d is the byte at PC.
Address(s, ix) ==
  IF ix = "HL" THEN s.rp["HL"] ELSE To16(s.rp[ix] + Signed8(Next8(s)))
Located(s, ix) ==
  IF ix = "HL" THEN s ELSE Skip([s EXCEPT !.W = Hi(Address(s, ix))], 1)

Get(s, z, ix) == IF z = 6 THEN Read(s, Address(s, ix)) ELSE Reg(s, z, ix)
Got(s, z, ix) == IF z = 6 THEN Located(s, ix) ELSE s
Put(s, z, ix, v) ==
  IF z = 6 THEN Write(Located(s, ix), Address(s, ix), v) ELSE SetReg(s, z, ix, v)
Time(z, ix, reg, hl, index) ==
  CASE z # 6 -> reg [] z = 6 /\ ix = "HL" -> hl [] OTHER -> index

\* The register pairs by their codes.
PairCode(p, ix) == <<"BC", "DE", ix, "SP">>[p + 1]

\* The conditions NZ, Z, NC, C, PO, PE, P, M.
Holds(y, F) == (<<fZ, fC, fPV, fS>>[y \div 2 + 1] \in F) = (y % 2 = 1)

-----------------------------------------------------------------------------
(* Loads and the stack.                                                     *)

\* _push16(), _pop16()
Push(s, w) ==
  LET sp == To16(s.rp["SP"] - 2) IN Write16(SetPair(s, "SP", sp), sp, w)
Top(s) == Read16(s, s.rp["SP"])
Popped(s) == SetPair(s, "SP", s.rp["SP"] + 2)

\* LD between registers and (HL): H and L are not replaced beside (IX+d).
Load(s, y, z, ix) ==
  LET reg == IF 6 \in {y, z} THEN "HL" ELSE ix
      t == Time(IF 6 \in {y, z} THEN 6 ELSE 0, ix, 4, 7, 15)
  IN  Spend(IF z = 6 THEN SetReg(Located(s, ix), y, reg, Get(s, 6, ix))
            ELSE IF y = 6 THEN Put(s, 6, ix, Reg(s, z, reg))
            ELSE SetReg(s, y, reg, Reg(s, z, reg)), t)

\* LD r,N: the byte is behind the displacement.
LoadImmediate(s, y, ix) ==
  LET behind == IF y = 6 /\ ix # "HL" THEN 1 ELSE 0
  IN  Spend(Skip(Put(s, y, ix, Read(s, To16(s.PC + behind))), 1),
            Time(y, ix, 7, 10, 15))

\* LD (BC),A, LD A,(BC), LD (NN),HL ... with y from the opcode
LoadIndirect(s, y, ix) ==
  LET nn == Next16(s)
      s2 == Skip(s, 2)
      bc == s.rp[IF y \in {0, 1} THEN "BC" ELSE "DE"]
  IN CASE y \in {0, 2} -> Spend(Write(s, bc, s.A), 7)
       [] y \in {1, 3} -> Spend([s EXCEPT !.A = Read(s, bc), !.W = Hi(bc)], 7)
       [] y = 4 -> Spend([Write16(s2, nn, s.rp[ix]) EXCEPT
                            !.W = IF ix = "HL" THEN Hi(nn) ELSE @], 16)
       [] y = 5 -> Spend([SetPair(s2, ix, Read16(s, nn)) EXCEPT
                            !.W = IF ix = "HL" THEN Hi(nn) ELSE @], 16)
       [] y = 6 -> Spend(Write(s2, nn, s.A), 13)
       [] y = 7 -> Spend([s2 EXCEPT !.A = Read(s, nn), !.W = Hi(nn)], 13)

\* PUSH and POP; AF stands in the place of SP
PushPair(s, p, ix) ==
  Spend(Push(s, IF p = 3 THEN Pair(s.A, Num(s.F)) ELSE s.rp[PairCode(p, ix)]), 11)
PopPair(s, p, ix) ==
  LET w == Top(s)
  IN  Spend(IF p = 3 THEN [Popped(s) EXCEPT !.A = Hi(w), !.F = Bits[Lo(w)]]
            ELSE SetPair(Popped(s), PairCode(p, ix), w), 10)

ExSp(s, ix) ==
  Spend(SetPair(Write16(s, s.rp["SP"], s.rp[ix]), ix, Top(s)), 19)
ExAf(s) == Spend([s EXCEPT !.A = s.A_, !.A_ = s.A, !.F = s.F_, !.F_ = s.F], 4)
ExDeHl(s) ==
  Spend([s EXCEPT !.rp["DE"] = s.rp["HL"], !.rp["HL"] = s.rp["DE"]], 4)
Exx(s) ==
  Spend([s EXCEPT !.rp = [p \in Pairs |-> IF p \in DOMAIN s.rp_ THEN s.rp_[p] ELSE @[p]],
                  !.rp_ = [p \in DOMAIN s.rp_ |-> s.rp[p]]], 4)

-----------------------------------------------------------------------------
(* Arithmetic.                                                              *)

Accumulate(s, r) == SetF([s EXCEPT !.A = r.v], r.F)

\* ADD, ADC, SUB, SBC, AND, XOR, OR, CP with a register or (HL), with N.  CP
\* with a half of an index register stores the difference: Ui_cp_IXh() ...
AluGet(s, y, z, ix) ==
  LET v == Get(s, z, ix)
      r == Alu(y, s.A, v, s.F)
      stores == y = 7 /\ ix # "HL" /\ z \in {4, 5}
  IN  Spend(Accumulate(Got(s, z, ix), [r EXCEPT !.v = IF stores THEN To8(s.A - v) ELSE @]),
            Time(z, ix, 4, 7, 15))
AluImmediate(s, y) ==
  Spend(Accumulate(Skip(s, 1), Alu(y, s.A, Next8(s), s.F)), 7)

\* INC r, DEC r
Step8(s, y, ix, dec) ==
  LET r == IF dec THEN Dec8(Get(s, y, ix), s.F) ELSE Inc8(Get(s, y, ix), s.F)
  IN  Spend(SetF(Put(s, y, ix, r.v), r.F), Time(y, ix, 4, 11, 19))
\* INC rr, DEC rr
Step16(s, p, ix, d) ==
  LET pair == PairCode(p, ix) IN Spend(SetPair(s, pair, s.rp[pair] + d), 6)

\* ADD HL,rr, ADC HL,rr, SBC HL,rr
Add16Pair(s, p, ix) ==
  LET w == s.rp[ix]
      r == Add16(w, s.rp[PairCode(p, ix)], s.F)
  IN  Spend(SetF(SetPair([s EXCEPT !.W = Hi(w)], ix, r.v), r.F), 11)
Carry16Pair(s, p, add) ==
  LET w == s.rp["HL"]
      v == s.rp[PairCode(p, "HL")]
      r == IF add THEN Adc16(w, v, Carry(s.F)) ELSE Sbc16(w, v, Carry(s.F))
  IN  Spend(SetF(SetPair([s EXCEPT !.W = Hi(w)], "HL", r.v), r.F), 15)

\* RLCA, RRCA, RLA, RRA, DAA, CPL, SCF, CCF
OnAccumulator(s, y) ==
  Spend(CASE y \in 0 .. 3 -> Accumulate(s, RotateA(y, s.A, s.F))
          [] y = 4 -> Accumulate(s, Daa(s.A, s.F))
          [] y = 5 -> Accumulate(s, Cpl(s.A, s.F))
          [] y = 6 -> SetF(s, Scf(s.A, s.F, s.pflags_aff))
          [] y = 7 -> SetF(s, Ccf(s.A, s.F, s.pflags_aff)), 4)

\* RLD, RRD: the lower digit of A and the two digits at (HL)
Digits(s, left) ==
  LET v == Read(s, s.rp["HL"])
      a == 16 * (s.A \div 16) + (IF left THEN v \div 16 ELSE v % 16)
      m == IF left THEN 16 * (v % 16) + (s.A % 16) ELSE (v \div 16) + 16 * (s.A % 16)
  IN  Spend(SetF(Write([s EXCEPT !.A = a], s.rp["HL"], m),
                 (s.F \cap {fC}) \cup LogicFlags(a)), 18)

-----------------------------------------------------------------------------
(* Jumps and calls.                                                         *)

Goto(s, a) == [s EXCEPT !.PC = a]

\* _jr8(), _call16()
Relative(s) ==
  LET a == To16(s.PC + 1 + Signed8(Next8(s))) IN [Goto(s, a) EXCEPT !.W = Hi(a)]
Call(s, a) == [Goto(Push(s, s.PC), a) EXCEPT !.W = Hi(a)]
Return(s) == Goto(Popped(s), Top(s))
ReturnW(s) == [Return(s) EXCEPT !.W = Hi(Top(s))]

Jr(s, taken) == IF taken THEN Spend(Relative(s), 12) ELSE Spend(Skip(s, 1), 7)

\* Mutant: B goes below 0.
Djnz_NoWrap(s) ==
  LET n == SetReg(s, 0, "HL", B(s) - 1)
  IN  IF B(n) # 0 THEN Spend(Relative(n), 13) ELSE Spend(Skip(n, 1), 8)

\* Mutant: B is tested but not stored.
Djnz_KeepsB(s) == IF B(s) # 1 THEN Spend(Relative(s), 13) ELSE Spend(Skip(s, 1), 8)

\* ei_djnz_N()
Djnz(s) ==
  LET n == SetReg(s, 0, "HL", To8(B(s) - 1))
  IN  IF B(n) # 0 THEN Spend(Relative(n), 13) ELSE Spend(Skip(n, 1), 8)
Jp(s, taken) ==
  LET a == Next16(s)
      n == [Skip(s, 2) EXCEPT !.W = Hi(a)]
  IN  Spend(IF taken THEN Goto(n, a) ELSE n, 10)
CallIf(s, taken) ==
  IF taken THEN Spend(Call(Skip(s, 2), Next16(s)), 17) ELSE Spend(Skip(s, 2), 10)
RetIf(s, taken) == IF taken THEN Spend(Return(s), 11) ELSE Spend(s, 5)

-----------------------------------------------------------------------------
(* Ports.                                                                   *)

Output(s, port, v) == [s EXCEPT !.out = Append(@, <<port, v>>)]

\* OUT (N),A, IN A,(N)
OutN(s) ==
  Spend(Output([Skip(s, 1) EXCEPT !.W = s.A], Pair(s.A, Next8(s)), s.A), 11)
InN(s) ==
  Spend([Skip(s, 1) EXCEPT !.W = s.A, !.A = In(Pair(s.A, Next8(s)))], 11)

\* IN r,(C), OUT (C),r; with the code of (HL) there is no register.
InC(s, y) ==
  LET v == In(s.rp["BC"])
      n == SetF([s EXCEPT !.W = B(s)], LoadFlags(v, EvenParity(v), s.F))
  IN  Spend(IF y = 6 THEN n ELSE SetReg(n, y, "HL", v), 12)
OutC(s, y) ==
  Spend(Output([s EXCEPT !.W = B(s)], s.rp["BC"],
               IF y = 6 THEN 0 ELSE Reg(s, y, "HL")), 12)

-----------------------------------------------------------------------------
(* Block instructions: d is 1 or -1, and each goes back to itself until     *)
(* Last holds.                                                              *)

Again(s, repeat, last) ==
  IF repeat /\ ~last THEN Spend([s EXCEPT !.PC = To16(@ - 2)], 21) ELSE Spend(s, 16)

Step(s, pair, d) == SetPair(s, pair, s.rp[pair] + d)

\* Mutant: the end is seen before BC is counted down.
Copy_OneMore(s, d, repeat) ==
  LET v == Read(s, s.rp["HL"])
      bc == To16(s.rp["BC"] - 1)
      n == Step(Step(Step(Write(s, s.rp["DE"], v), "HL", d), "DE", d), "BC", -1)
  IN  Again(SetF(n, CopyFlags(s.A, v, bc, s.F)), repeat, s.rp["BC"] = 0)

\* LDI, LDD, LDIR, LDDR
Copy(s, d, repeat) ==
  LET v == Read(s, s.rp["HL"])
      bc == To16(s.rp["BC"] - 1)
      n == Step(Step(Step(Write(s, s.rp["DE"], v), "HL", d), "DE", d), "BC", -1)
  IN  Again(SetF(n, CopyFlags(s.A, v, bc, s.F)), repeat, bc = 0)

\* CPI, CPD, CPIR, CPDR
Compare(s, d, repeat) ==
  LET v == Read(s, s.rp["HL"])
      bc == To16(s.rp["BC"] - 1)
      n == Step(Step([s EXCEPT !.W = B(s)], "HL", d), "BC", -1)
  IN  Again(SetF(n, CompareFlags(s.A, v, bc, s.F)), repeat, bc = 0 \/ s.A = v)

\* INI, IND, INIR, INDR
Input(s, d, repeat) ==
  LET v == In(s.rp["BC"])
      b == To8(B(s) - 1)
      c == To8(Lo(s.rp["BC"]) + d)
      n == Step(Write([s EXCEPT !.W = B(s)], s.rp["HL"], v), "HL", d)
  IN  Again(SetF(SetReg(n, 0, "HL", b), PortFlags(b, v, c)), repeat, b = 0)

\* OUTI, OUTD, OTIR, OTDR
Outp(s, d, repeat) ==
  LET v == Read(s, s.rp["HL"])
      b == To8(B(s) - 1)
      n == Step(Output([s EXCEPT !.W = b], Pair(b, Lo(s.rp["BC"])), v), "HL", d)
  IN  Again(SetF(SetReg(n, 0, "HL", b), PortFlags(b, v, Lo(n.rp["HL"]))), repeat, b = 0)

Block(s, y, z) ==
  LET d == IF y % 2 = 0 THEN 1 ELSE -1
      repeat == y \in {6, 7}
  IN CASE z = 0 -> Copy(s, d, repeat)
       [] z = 1 -> Compare(s, d, repeat)
       [] z = 2 -> Input(s, d, repeat)
       [] z = 3 -> Outp(s, d, repeat)

-----------------------------------------------------------------------------
(* The tables.                                                              *)

Nop(s) == Spend(s, 4)

\* Mutant: the instruction behind EI is not protected.
Enable_Unlocked(s, on) == Spend([s EXCEPT !.IFF1 = on, !.IFF2 = on], 4)

\* ei_ei(), ei_di()
Enable(s, on) == Spend([s EXCEPT !.IFF1 = on, !.IFF2 = on, !.int_lock = TRUE], 4)

\* Opcodes below 0x40
Quarter0(s, y, z, ix) ==
  CASE z = 0 /\ y = 0 -> Nop(s)
    [] z = 0 /\ y = 1 -> ExAf(s)
    [] z = 0 /\ y = 2 -> Djnz(s)
    [] z = 0 /\ y = 3 -> Jr(s, TRUE)
    [] z = 0 /\ y > 3 -> Jr(s, Holds(y - 4, s.F))
    [] z = 1 /\ y % 2 = 0 -> Spend(SetPair(Skip(s, 2), PairCode(y \div 2, ix), Next16(s)), 10)
    [] z = 1 /\ y % 2 = 1 -> Add16Pair(s, y \div 2, ix)
    [] z = 2 -> LoadIndirect(s, y, ix)
    [] z = 3 -> Step16(s, y \div 2, ix, IF y % 2 = 0 THEN 1 ELSE -1)
    [] z \in {4, 5} -> Step8(s, y, ix, z = 5)
    [] z = 6 -> LoadImmediate(s, y, ix)
    [] z = 7 -> OnAccumulator(s, y)

\* Opcodes from 0xC0
Quarter3(s, y, z, ix) ==
  CASE z = 0 -> RetIf(s, Holds(y, s.F))
    [] z = 1 /\ y % 2 = 0 -> PopPair(s, y \div 2, ix)
    [] z = 1 /\ y = 1 -> Spend(ReturnW(s), 10)
    [] z = 1 /\ y = 3 -> Exx(s)
    [] z = 1 /\ y = 5 -> Spend(Goto(s, s.rp[ix]), 4)
    [] z = 1 /\ y = 7 -> Spend(SetPair(s, "SP", s.rp[ix]), 6)
    [] z = 2 -> Jp(s, Holds(y, s.F))
    [] z = 3 /\ y = 0 -> Jp(s, TRUE)
    [] z = 3 /\ y = 2 -> OutN(s)
    [] z = 3 /\ y = 3 -> InN(s)
    [] z = 3 /\ y = 4 -> ExSp(s, ix)
    [] z = 3 /\ y = 5 -> ExDeHl(s)
    [] z = 3 /\ y \in {6, 7} -> Enable(s, y = 7)
    [] z = 4 -> CallIf(s, Holds(y, s.F))
    [] z = 5 /\ y % 2 = 0 -> PushPair(s, y \div 2, ix)
    [] z = 5 /\ y = 1 -> CallIf(s, TRUE)
    [] z = 5 /\ y \in {3, 7} ->
         Spend([s EXCEPT !.int_lock = TRUE, !.modifier = IF y = 3 THEN 1 ELSE 2], 4)
    [] z = 6 -> AluImmediate(s, y)
    [] z = 7 -> Spend(Call(s, 8 * y), 11)

\* ei_op, ei_ddop, ei_fdop
Main(s, op, ix) ==
  LET x == op \div 64
      y == (op \div 8) % 8
      z == op % 8
  IN CASE x = 0 -> Quarter0(s, y, z, ix)
       [] op = 118 -> Spend([s EXCEPT !.halted = TRUE], 4)
       [] x = 1 /\ op # 118 -> Load(s, y, z, ix)
       [] x = 2 -> AluGet(s, y, z, ix)
       [] x = 3 -> Quarter3(s, y, z, ix)

\* Rotations, RES and SET; only the rotations have flags.
Changed(s, x, y, v) ==
  CASE x = 0 -> Rotate(y, v, s.F).v [] x = 2 -> Res8(y, v) [] x = 3 -> Set8(y, v)
WithRotation(n, s, x, y, v) == IF x = 0 THEN SetF(n, Rotate(y, v, s.F).F) ELSE n

\* ei_cbop
BitGroup(s, op) ==
  LET x == op \div 64
      y == (op \div 8) % 8
      z == op % 8
      v == Get(s, z, "HL")
  IN  IF x = 1
      THEN Spend(SetF(s, BitTest(y, v, IF z = 6 THEN s.W ELSE v, s.F)),
                 IF z = 6 THEN 12 ELSE 8)
      ELSE Spend(WithRotation(Put(s, z, "HL", Changed(s, x, y, v)), s, x, y, v),
                 IF z = 6 THEN 15 ELSE 8)

\* ei_ddcbop, ei_fdcbop: the operand is always (IX+d), its displacement dsp was
\* read before the opcode, and the result goes to the opcode's register, too.
IndexedBits(s, op, ix, dsp) ==
  LET x == op \div 64
      y == (op \div 8) % 8
      z == op % 8
      a == To16(s.rp[ix] + Signed8(dsp))
      v == Read(s, a)
      n == [s EXCEPT !.W = Hi(a)]
      res == Changed(s, x, y, v)
      stored == Write(n, a, res)
  IN  IF x = 1 THEN Spend(SetF(n, BitTest(y, v, Hi(a), s.F)), 16)
      ELSE Spend(WithRotation(IF z = 6 THEN stored ELSE SetReg(stored, z, "HL", res),
                              s, x, y, v), 19)

\* LD I,A, LD R,A, LD A,I, LD A,R, RRD, RLD
Special(s, y) ==
  CASE y = 0 -> Spend([s EXCEPT !.I = s.A], 9)
    [] y = 1 -> Spend([s EXCEPT !.R = s.A], 9)
    [] y \in {2, 3} ->
         LET v == IF y = 2 THEN s.I ELSE s.R
         IN  Spend(SetF([s EXCEPT !.A = v], LoadFlags(v, s.IFF2, s.F)), 9)
    [] y \in {4, 5} -> Digits(s, y = 5)
    [] OTHER -> Spend(s, 8)

\* LD (NN),rr and LD rr,(NN) behind ED; 63 is the function of 22.
LoadPair(s, p, store) ==
  LET nn == Next16(s)
      pair == PairCode(p, "HL")
  IN  IF store /\ p = 2 THEN LoadIndirect(s, 4, "HL")
      ELSE IF store THEN Spend(Write16(Skip(s, 2), nn, s.rp[pair]), 20)
      ELSE Spend(SetPair(Skip(s, 2), pair, Read16(s, nn)), 20)

\* ei_edop
Extended(s, op) ==
  LET x == op \div 64
      y == (op \div 8) % 8
      z == op % 8
  IN CASE x = 1 /\ z = 0 -> InC(s, y)
       [] x = 1 /\ z = 1 -> OutC(s, y)
       [] x = 1 /\ z = 2 -> Carry16Pair(s, y \div 2, y % 2 = 1)
       [] x = 1 /\ z = 3 -> LoadPair(s, y \div 2, y % 2 = 0)
       [] x = 1 /\ z = 4 -> Spend(Accumulate(s, Neg(s.A)), 8)
       [] x = 1 /\ z = 5 -> Spend([ReturnW(s) EXCEPT !.IFF1 = s.IFF2], 14)
       [] x = 1 /\ z = 6 -> Spend([s EXCEPT !.int_mode = <<0, 0, 1, 2>>[(y % 4) + 1]], 8)
       [] x = 1 /\ z = 7 -> Special(s, y)
       [] x = 2 /\ y > 3 /\ z < 4 -> Block(s, y, z)
       [] OTHER -> Spend(s, 8)

-----------------------------------------------------------------------------
(* z80_execinstr()                                                          *)

\* z80_check_nmi()
CheckNmi(s) ==
  IF ~s.nmi_pending \/ s.int_lock THEN s
  ELSE Spend(IncrR(Goto(Push([s EXCEPT !.nmi_pending = FALSE, !.halted = FALSE,
                                       !.IFF1 = FALSE], s.PC), 102), 2), 11)

\* Mutant: HALT goes on behind the acceptance.
CheckInt_StaysHalted(s) ==
  IF ~s.int_pending \/ s.int_lock THEN s
  ELSE IF ~s.IFF1 THEN [s EXCEPT !.int_pending = FALSE]
  ELSE LET n == IncrR(Push([s EXCEPT !.int_pending = FALSE,
                                     !.IFF1 = FALSE, !.IFF2 = FALSE], s.PC), 2)
       IN  IF s.int_mode = 2
           THEN Spend(Goto(n, Read16(n, Pair(s.I, 255))), 19)
           ELSE Spend(Goto(n, 56), 13)

\* z80_check_int(); the byte on the bus is always 0xFF (z80_snoop8).
CheckInt(s) ==
  IF ~s.int_pending \/ s.int_lock THEN s
  ELSE IF ~s.IFF1 THEN [s EXCEPT !.int_pending = FALSE]
  ELSE LET n == IncrR(Push([s EXCEPT !.int_pending = FALSE, !.halted = FALSE,
                                     !.IFF1 = FALSE, !.IFF2 = FALSE], s.PC), 2)
       IN  IF s.int_mode = 2
           THEN Spend(Goto(n, Read16(n, Pair(s.I, 255))), 19)
           ELSE Spend(Goto(n, 56), 13)

\* z80_readinstr() and the instruction
Instruction(s) ==
  LET ix == <<"HL", "IX", "IY">>[s.modifier + 1]
      b == Next8(s)
      s1 == Skip(s, 1)
      dsp == Next8(s1)
      s2 == CASE b = 203 /\ ix # "HL" -> Skip(s1, 1)
              [] b \in {203, 237} /\ ~(b = 203 /\ ix # "HL") -> IncrR(s1, 1)
              [] OTHER -> s1
      op == IF b \in {203, 237} THEN Next8(s2) ELSE b
      group == CASE b = 203 -> "cb" [] b = 237 -> "ed" [] OTHER -> "op"
      s3 == [IF group = "op" THEN s2 ELSE Skip(s2, 1)
             EXCEPT !.opcode = op, !.group = group]
      done == CASE group = "op" -> Main(s3, op, ix)
                [] group = "ed" -> Extended(s3, op)
                [] group = "cb" /\ ix = "HL" -> BitGroup(s3, op)
                [] group = "cb" /\ ix # "HL" -> IndexedBits(s3, op, ix, dsp)
  IN  [IncrR(done, 1) EXCEPT !.modifier = IF op \in {221, 253} THEN @ ELSE 0]

Execinstr(s) ==
  LET s0 == [s EXCEPT !.pflags_aff = s.flags_aff, !.flags_aff = FALSE, !.ticks = 0]
      s1 == [CheckInt(CheckNmi(s0)) EXCEPT !.int_lock = FALSE]
  IN  IF s1.halted THEN IncrR(Spend(s1, 4), 1) ELSE Instruction(s1)
=============================================================================
