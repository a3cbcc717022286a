------------------------------- MODULE Z80Alu -------------------------------
(***************************************************************************)
(* The operations of the Z80 (z80.c): what each returns and the flags it    *)
(* leaves.  A byte is a number, the flag register a set of bit numbers;     *)
(* Bits and Num lead from one to the other.  An operation gives a record    *)
(* of the value v and the new flags F.                                      *)
(***************************************************************************)
EXTENDS Integers

Byte == 0 .. 2 ^ 8 - 1
Word == 0 .. 2 ^ 16 - 1

fC == 0
fN == 1
fPV == 2
fU1 == 3
fHC == 4
fU2 == 5
fZ == 6
fS == 7

Flags == SUBSET (0 .. 7)
Undoc == {fU1, fU2}

Bit(x, i) == (x \div 2 ^ i) % 2
Bits == [x \in Byte |-> {i \in 0 .. 7 : Bit(x, i) = 1}]
Weight(S, i) == IF i \in S THEN 2 ^ i ELSE 0
Num(S) == Weight(S, 0) + Weight(S, 1) + Weight(S, 2) + Weight(S, 3)
          + Weight(S, 4) + Weight(S, 5) + Weight(S, 6) + Weight(S, 7)

Hi(w) == w \div 256
Lo(w) == w % 256
Nib(v) == v % 16
Pair(h, l) == 256 * h + l
To8(x) == x % 256
To16(x) == x % 65536

\* u8sval(), u16sval()
Signed8(u) == IF u < 128 THEN u ELSE u - 256
Signed16(u) == IF u < 32768 THEN u ELSE u - 65536

Carry(F) == IF fC \in F THEN 1 ELSE 0
When(f, cond) == IF cond THEN {f} ELSE {}

\* The flags that every operation takes from a byte in the same way.
SignZero(v) == When(fS, v >= 128) \cup When(fZ, v = 0)
Undocumented(v) == Bits[v] \cap Undoc
EvenParity(v) ==
  (Bit(v, 0) + Bit(v, 1) + Bit(v, 2) + Bit(v, 3)
   + Bit(v, 4) + Bit(v, 5) + Bit(v, 6) + Bit(v, 7)) % 2 = 0
\* ox_tab
LogicFlags(v) == SignZero(v) \cup Undocumented(v) \cup When(fPV, EvenParity(v))

Outside8(x) == x < -128 \/ x > 127
Outside16(x) == x < -32768 \/ x > 32767

-----------------------------------------------------------------------------
(* Addition and subtraction.                                                *)

\* Mutant: the carry is left out of the half-carry.
Add8_HalfWithoutCarry(a, b, c) ==
  LET v == To8(a + b + c)
  IN  [v |-> v,
       F |-> SignZero(v) \cup Undocumented(v)
             \cup When(fHC, Nib(a) + Nib(b) > 15)
             \cup When(fPV, Outside8(Signed8(a) + Signed8(b) + c))
             \cup When(fC, a + b + c > 255)]

\* _add8(), _adc8(); c is the carry that is added
Add8(a, b, c) ==
  LET v == To8(a + b + c)
  IN  [v |-> v,
       F |-> SignZero(v) \cup Undocumented(v)
             \cup When(fHC, Nib(a) + Nib(b) + c > 15)
             \cup When(fPV, Outside8(Signed8(a) + Signed8(b) + c))
             \cup When(fC, a + b + c > 255)]

\* _sub8(), _sbc8()
Sub8(a, b, c) ==
  LET v == To8(a - b - c)
  IN  [v |-> v,
       F |-> {fN} \cup SignZero(v) \cup Undocumented(v)
             \cup When(fHC, Nib(a) - Nib(b) - c < 0)
             \cup When(fPV, Outside8(Signed8(a) - Signed8(b) - c))
             \cup When(fC, a - b - c < 0)]

\* _cp8(): the undocumented flags are those of the operand.
Cp8(a, b) ==
  [v |-> a, F |-> (Sub8(a, b, 0).F \ Undoc) \cup Undocumented(b)]

\* _inc8(), _dec8()
Inc8(a, F) == LET r == Add8(a, 1, 0) IN [r EXCEPT !.F = (@ \ {fC}) \cup (F \cap {fC})]
Dec8(a, F) == LET r == Sub8(a, 1, 0) IN [r EXCEPT !.F = (@ \ {fC}) \cup (F \cap {fC})]

\* The upper byte of a sum, to which the lower bytes carry c.
UpperSum(a, b, c) == Hi(a) + Hi(b) + (IF Lo(a) + Lo(b) + c > 255 THEN 1 ELSE 0)

\* _add16(): the half-carry is that of the upper bytes alone.
Add16(a, b, F) ==
  [v |-> To16(a + b),
   F |-> (F \cap {fS, fZ, fPV}) \cup Undocumented(Hi(To16(a + b)))
         \cup When(fHC, Nib(Hi(a)) + Nib(Hi(b)) > 15)
         \cup When(fC, a + b > 65535)]

\* _adc16(): as in _add16().
Adc16(a, b, c) ==
  LET v == To16(a + b + c)
  IN  [v |-> v,
       F |-> When(fS, v >= 32768) \cup When(fZ, v = 0) \cup Undocumented(Hi(v))
             \cup When(fHC, Nib(Hi(a)) + Nib(Hi(b)) > 15)
             \cup When(fPV, Outside16(Signed16(a) + Signed16(b) + c))
             \cup When(fC, a + b + c > 65535)]

\* _sbc16(): the half-carry is set whenever the lower bytes borrow.
Sbc16(a, b, c) ==
  LET v == To16(a - b - c)
      borrow == Lo(a) - Lo(b) - c < 0
  IN  [v |-> v,
       F |-> {fN} \cup When(fS, v >= 32768) \cup When(fZ, v = 0)
             \cup Undocumented(Hi(v))
             \cup When(fHC, Nib(Hi(a)) < Nib(Hi(b)) \/ borrow)
             \cup When(fPV, Outside16(Signed16(a) - Signed16(b) - c))
             \cup When(fC, a - b - c < 0)]

\* ei_neg()
Neg(a) ==
  LET v == To8(256 - a)
  IN  [v |-> v,
       F |-> {fN} \cup SignZero(v) \cup Undocumented(v)
             \cup When(fHC, Nib(a) # 0) \cup When(fPV, a = 128) \cup When(fC, a # 0)]

-----------------------------------------------------------------------------
(* Logic, rotations and single bits.                                        *)

\* _and8(), _or8(), _xor8()
And8(a, b) == LET v == Num(Bits[a] \cap Bits[b])
              IN  [v |-> v, F |-> LogicFlags(v) \cup {fHC}]
Or8(a, b) == LET v == Num(Bits[a] \cup Bits[b]) IN [v |-> v, F |-> LogicFlags(v)]
Xor8(a, b) == LET v == Num((Bits[a] \cup Bits[b]) \ (Bits[a] \cap Bits[b]))
              IN  [v |-> v, F |-> LogicFlags(v)]

\* The operations of ADD A to CP A, in the order of their opcodes.
Alu(y, a, b, F) ==
  CASE y = 0 -> Add8(a, b, 0)
    [] y = 1 -> Add8(a, b, Carry(F))
    [] y = 2 -> Sub8(a, b, 0)
    [] y = 3 -> Sub8(a, b, Carry(F))
    [] y = 4 -> And8(a, b)
    [] y = 5 -> Xor8(a, b)
    [] y = 6 -> Or8(a, b)
    [] y = 7 -> Cp8(a, b)

\* What moves in at the free end in RLC, RRC, RL, RR, SLA, SRA, SLL, SRL.
Left(y) == y \in {0, 2, 4, 6}
MovesOut(y, a) == IF Left(y) THEN a \div 128 ELSE a % 2
MovesIn(y, a, F) ==
  CASE y \in {0, 1} -> MovesOut(y, a)
    [] y \in {2, 3} -> Carry(F)
    [] y \in {4, 7} -> 0
    [] y = 5 -> a \div 128
    [] y = 6 -> 1

Rotated(y, a, F) ==
  IF Left(y) THEN To8(2 * a) + MovesIn(y, a, F) ELSE (a \div 2) + 128 * MovesIn(y, a, F)

\* _rlc8(), _rrc8(), _rl8(), _rr8(), _sla8(), _sra8(), _sll8(), _srl8()
Rotate(y, a, F) ==
  LET v == Rotated(y, a, F)
  IN  [v |-> v, F |-> LogicFlags(v) \cup When(fC, MovesOut(y, a) = 1)]

\* _rlca8(), _rrca8(), _rla8(), _rra8()
RotateA(y, a, F) ==
  LET v == Rotated(y, a, F)
  IN  [v |-> v,
       F |-> (F \cap {fS, fZ, fPV}) \cup Undocumented(v)
             \cup When(fC, MovesOut(y, a) = 1)]

\* _bit8(), with the byte u from which the opcode takes the undocumented flags
BitTest(b, v, u, F) ==
  (F \cap {fC}) \cup {fHC} \cup (LogicFlags(Num(Bits[v] \cap {b})) \ Undoc)
  \cup Undocumented(u)

\* _res8(), _set8()
Res8(b, v) == Num(Bits[v] \ {b})
Set8(b, v) == Num(Bits[v] \cup {b})

-----------------------------------------------------------------------------
(* Decimal adjustment and single operations on A.                           *)

\* ei_daa(): the lower digit of a does not change when 0x60 is added.
Daa(a, F) ==
  LET upper == fC \in F \/ a > 153
      lower == fHC \in F \/ Nib(a) > 9
      sum   == (IF upper THEN 96 ELSE 0) + (IF lower THEN 6 ELSE 0)
      v     == To8(IF fN \in F THEN a - sum ELSE a + sum)
      half  == IF fN \in F THEN fHC \in F /\ Nib(a) < 6 ELSE Nib(a) > 9
  IN  [v |-> v,
       F |-> (F \cap {fN}) \cup LogicFlags(v)
             \cup When(fC, upper) \cup When(fHC, half)]

\* ei_cpl()
Cpl(a, F) ==
  [v |-> 255 - a,
   F |-> (F \ Undoc) \cup {fHC, fN} \cup Undocumented(255 - a)]

\* ei_scf(), ei_ccf(): the undocumented flags are those of A, joined with the
\* old ones unless the instruction before has set the flags.
Scf(a, F, pflags_aff) ==
  LET old == IF pflags_aff THEN {} ELSE F \cap Undoc
  IN  (F \cap {fS, fZ, fPV}) \cup old \cup Undocumented(a) \cup {fC}
Ccf(a, F, pflags_aff) ==
  LET old == IF pflags_aff THEN {} ELSE F \cap Undoc
  IN  (F \cap {fS, fZ, fPV}) \cup old \cup Undocumented(a)
      \cup (IF fC \in F THEN {fHC} ELSE {fC})

-----------------------------------------------------------------------------
(* The flags of the block instructions and of input.                        *)

\* _in8(), LD A,I and LD A,R: no carry, and the given parity flag
LoadFlags(v, pv, F) ==
  (F \cap {fC}) \cup SignZero(v) \cup Undocumented(v) \cup When(fPV, pv)

\* Bits 1 and 3 of a sum are the undocumented flags.
Bits13(u) == When(fU2, Bit(u, 1) = 1) \cup When(fU1, Bit(u, 3) = 1)

\* ei_ldi() and the like: v was copied, bc is left
CopyFlags(a, v, bc, F) ==
  (F \cap {fS, fZ, fC}) \cup When(fPV, bc # 0) \cup Bits13(To8(v + a))

\* ei_cpi() and the like
CompareFlags(a, v, bc, F) ==
  LET half == Nib(a) < Nib(v)
      res  == To8(a - v)
  IN  (F \cap {fC}) \cup {fN} \cup SignZero(res)
      \cup When(fHC, half) \cup When(fPV, bc # 0)
      \cup Bits13(To8(IF half THEN res - 1 ELSE res))

\* ei_ini(), ei_outi() and the like: b is the new B, val the byte, k what the
\* instruction adds to it (C + 1 or C - 1 on input, L on output)
PortFlags(b, val, k) ==
  SignZero(b) \cup Undocumented(b)
  \cup When(fPV, EvenParity(Num(
         LET p == Bits[(val + k) % 8] IN (p \cup Bits[b]) \ (p \cap Bits[b]))))
  \cup When(fN, val >= 128)
  \cup When(fHC, val + k > 255) \cup When(fC, val + k > 255)
=============================================================================
