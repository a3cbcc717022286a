------------------------- MODULE Z80Machine_proofs -------------------------
(***************************************************************************)
(* For every program, every memory and every sequence of requests: no       *)
(* register and no byte leaves its width, and the instructions change the   *)
(* prefix, the interrupt flip-flops and HALT as Z80Control says.            *)
(*                                                                          *)
(* The argument: Keeps(m, n) says that n is a machine whose control part is *)
(* still that of m.  Each operator of Z80Instr but EI, DI, the prefixes,    *)
(* HALT and RETN keeps the control part of whatever led to it, so that a    *)
(* chain of them keeps that of the machine at the fetch.                    *)
(***************************************************************************)
EXTENDS Z80Machine, TLAPS

(***************************************************************************)
(* The operations of Z80Alu give bytes, words and flags.                    *)
(***************************************************************************)
Gives8(r) == r.v \in Byte /\ r.F \in Flags
Gives16(r) == r.v \in Word /\ r.F \in Flags

LEMMA BitsType == ASSUME NEW x \in Byte PROVE Bits[x] \in Flags
  BY DEF Bits, Flags

LEMMA ByteIs == \A x : x \in Byte <=> x \in Int /\ 0 <= x /\ x <= 255
  BY DEF Byte

LEMMA WordIs == \A x : x \in Word <=> x \in Int /\ 0 <= x /\ x <= 65535
  BY DEF Word

LEMMA NumType == ASSUME NEW S PROVE Num(S) \in Byte
  BY ByteIs DEF Num, Weight

LEMMA HalvesType ==
  /\ \A x \in Int : To8(x) \in Byte /\ To16(x) \in Word
  /\ \A w \in Word : Hi(w) \in Byte /\ Lo(w) \in Byte
  /\ \A h, l \in Byte : Pair(h, l) \in Word
<1>1. \A x \in Int : /\ x % 256 \in Int /\ 0 <= x % 256 /\ x % 256 <= 255
                     /\ x % 65536 \in Int /\ 0 <= x % 65536 /\ x % 65536 <= 65535
  OBVIOUS
<1>2. \A x \in Int : 0 <= x /\ x <= 65535 =>
         x \div 256 \in Int /\ 0 <= x \div 256 /\ x \div 256 <= 255
  OBVIOUS
<1>3. \A x, y \in Int : 0 <= x /\ x <= 255 /\ 0 <= y /\ y <= 255 =>
         256 * x + y \in Int /\ 0 <= 256 * x + y /\ 256 * x + y <= 65535
  OBVIOUS
<1>4. \A x \in Int : To8(x) \in Byte
  BY <1>1, ByteIs DEF To8
<1>5. \A x \in Int : To16(x) \in Word
  BY <1>1, WordIs DEF To16
<1>6. \A w \in Word : Hi(w) \in Byte
  BY <1>2, ByteIs, WordIs DEF Hi
<1>7. \A w \in Word : Lo(w) \in Byte
  BY <1>1, ByteIs, WordIs DEF Lo
<1>8. \A h, l \in Byte : Pair(h, l) \in Word
  BY <1>3, ByteIs, WordIs DEF Pair
<1> QED BY <1>4, <1>5, <1>6, <1>7, <1>8

LEMMA SignedType ==
  /\ \A u \in Byte : Signed8(u) \in Int
  /\ \A u \in Word : Signed16(u) \in Int
  BY ByteIs, WordIs DEF Signed8, Signed16

LEMMA FlagParts ==
  ASSUME NEW v
  PROVE  SignZero(v) \in Flags /\ Undocumented(v) \in Flags /\ LogicFlags(v) \in Flags
  BY DEF SignZero, Undocumented, LogicFlags, When, Undoc, Flags, fS, fZ, fU1, fU2, fPV

LEMMA WhenType == \A f \in 0 .. 7 : \A cond : When(f, cond) \in Flags
  BY DEF When, Flags

LEMMA FlagUnion ==
  /\ \A X, Y \in Flags : X \cup Y \in Flags
  /\ \A X \in Flags : \A Y : X \cap Y \in Flags /\ X \ Y \in Flags
  /\ \A i \in 0 .. 7 : {i} \in Flags
  /\ {} \in Flags
  BY DEF Flags

LEMMA FlagNumbers ==
  /\ fC \in 0 .. 7 /\ fN \in 0 .. 7 /\ fPV \in 0 .. 7 /\ fU1 \in 0 .. 7
  /\ fHC \in 0 .. 7 /\ fU2 \in 0 .. 7 /\ fZ \in 0 .. 7 /\ fS \in 0 .. 7
  BY DEF fC, fN, fPV, fU1, fHC, fU2, fZ, fS

LEMMA CarryType == \A F : Carry(F) \in {0, 1}
  BY DEF Carry

LEMMA AddType ==
  ASSUME NEW a \in Byte, NEW b \in Byte, NEW c \in {0, 1}
  PROVE  Gives8(Add8(a, b, c)) /\ Gives8(Sub8(a, b, c))
<1>1. a + b + c \in Int /\ a - b - c \in Int
  BY ByteIs
<1>2. Add8(a, b, c).v \in Byte /\ Sub8(a, b, c).v \in Byte
  BY <1>1, HalvesType DEF Add8, Sub8
<1>3. Add8(a, b, c).F \in Flags
  BY FlagParts, WhenType, FlagUnion, FlagNumbers DEF Add8
<1>4. Sub8(a, b, c).F \in Flags
  BY FlagParts, WhenType, FlagUnion, FlagNumbers DEF Sub8
<1> QED BY <1>2, <1>3, <1>4 DEF Gives8

LEMMA StepType ==
  ASSUME NEW a \in Byte, NEW F \in Flags
  PROVE  Gives8(Inc8(a, F)) /\ Gives8(Dec8(a, F))
<1>1. Gives8(Add8(a, 1, 0)) /\ Gives8(Sub8(a, 1, 0))
  BY AddType, ByteIs
<1>2. Add8(a, 1, 0) = [v |-> Add8(a, 1, 0).v, F |-> Add8(a, 1, 0).F]
  BY DEF Add8
<1>3. Sub8(a, 1, 0) = [v |-> Sub8(a, 1, 0).v, F |-> Sub8(a, 1, 0).F]
  BY DEF Sub8
<1> QED BY <1>1, <1>2, <1>3 DEF Gives8, Inc8, Dec8, Flags

LEMMA CpType ==
  ASSUME NEW a \in Byte, NEW b \in Byte
  PROVE  Gives8(Cp8(a, b)) /\ Gives8(Neg(a))
<1>1. Gives8(Cp8(a, b))
  BY AddType, FlagParts, FlagUnion DEF Gives8, Cp8
<1>2. Neg(a).v \in Byte
  BY HalvesType, ByteIs DEF Neg
<1>3. Neg(a).F \in Flags
  BY FlagParts, FlagNumbers DEF Neg, When, Flags
<1> QED BY <1>1, <1>2, <1>3 DEF Gives8

LEMMA Sum16Type ==
  ASSUME NEW a \in Word, NEW b \in Word, NEW c \in {0, 1}, NEW F \in Flags
  PROVE  /\ Gives16(Add16(a, b, F))
         /\ Gives16(Adc16(a, b, c)) /\ Gives16(Sbc16(a, b, c))
<1>1. a + b \in Int /\ a + b + c \in Int /\ a - b - c \in Int
  BY WordIs
<1>2. Add16(a, b, F).v \in Word /\ Adc16(a, b, c).v \in Word /\ Sbc16(a, b, c).v \in Word
  BY <1>1, HalvesType DEF Add16, Adc16, Sbc16
<1>3. Add16(a, b, F).F \in Flags
  BY FlagParts, FlagNumbers DEF Add16, When, Flags
<1>4. Adc16(a, b, c).F \in Flags
  BY FlagParts, FlagNumbers DEF Adc16, When, Flags
<1>5. Sbc16(a, b, c).F \in Flags
  BY FlagParts, FlagNumbers DEF Sbc16, When, Flags
<1> QED BY <1>2, <1>3, <1>4, <1>5 DEF Gives16

LEMMA LogicType ==
  ASSUME NEW a, NEW b
  PROVE  Gives8(And8(a, b)) /\ Gives8(Or8(a, b)) /\ Gives8(Xor8(a, b))
  BY NumType, FlagParts DEF Gives8, And8, Or8, Xor8, Flags, fHC

LEMMA AluType ==
  ASSUME NEW y \in 0 .. 7, NEW a \in Byte, NEW b \in Byte, NEW F \in Flags
  PROVE  /\ Gives8(Alu(y, a, b, F))
         /\ Alu(y, a, b, F) = [v |-> Alu(y, a, b, F).v, F |-> Alu(y, a, b, F).F]
<1> DEFINE IsResult(r) == r = [v |-> r.v, F |-> r.F]
<1>1. Gives8(Alu(y, a, b, F))
  BY AddType, CpType, LogicType, CarryType DEF Alu
<1>2. \A c : IsResult(Add8(a, b, c)) /\ IsResult(Sub8(a, b, c))
  BY DEF Add8, Sub8
<1>3. IsResult(And8(a, b)) /\ IsResult(Or8(a, b)) /\ IsResult(Xor8(a, b))
      /\ IsResult(Cp8(a, b))
  BY DEF And8, Or8, Xor8, Cp8
<1> HIDE DEF IsResult
<1>4. IsResult(Alu(y, a, b, F))
  BY <1>2, <1>3 DEF Alu
<1> QED BY <1>1, <1>4 DEF IsResult

LEMMA RotateType ==
  ASSUME NEW y \in 0 .. 7, NEW a \in Byte, NEW F \in Flags
  PROVE  Gives8(Rotate(y, a, F)) /\ Gives8(RotateA(y, a, F))
<1>1. MovesIn(y, a, F) \in {0, 1}
  BY CarryType, ByteIs DEF MovesIn, MovesOut
<1>2. Rotated(y, a, F) \in Byte
  <2>1. CASE Left(y)
    <3>1. Left(y) /\ y \in {0, 2, 4, 6}
      BY <2>1 DEF Left
    <3> HIDE DEF Left
    <3> QED BY <1>1, <3>1, ByteIs DEF Rotated, To8
  <2>2. CASE ~Left(y)
    BY <1>1, <2>2, ByteIs DEF Rotated
  <2> QED BY <2>1, <2>2
<1>3. Rotate(y, a, F).F \in Flags
  BY FlagParts, WhenType, FlagUnion, FlagNumbers DEF Rotate
<1>4. RotateA(y, a, F).F \in Flags
  BY FlagParts, WhenType, FlagUnion, FlagNumbers DEF RotateA
<1> QED BY <1>2, <1>3, <1>4 DEF Gives8, Rotate, RotateA

LEMMA ResultType ==
  ASSUME NEW a \in Byte, NEW F \in Flags
  PROVE  Gives8(Daa(a, F)) /\ Gives8(Cpl(a, F))
<1>1. Daa(a, F).v \in Byte
  <2>1. \A n \in {0, 6, 96, 102} : To8(a - n) \in Byte /\ To8(a + n) \in Byte
    <3>1. \A n \in {0, 6, 96, 102} : a - n \in Int /\ a + n \in Int
      BY ByteIs
    <3> QED BY <3>1, HalvesType
  <2> QED BY <2>1 DEF Daa
<1>2. Daa(a, F).F \in Flags
  BY FlagParts, FlagNumbers DEF Daa, When, Flags
<1>3. Cpl(a, F).v \in Byte
  BY ByteIs DEF Cpl
<1>4. Cpl(a, F).F \in Flags
  <2>1. {fHC, fN} \in Flags
    BY FlagNumbers DEF Flags
  <2> QED BY <2>1, FlagParts, FlagUnion DEF Cpl
<1> QED BY <1>1, <1>2, <1>3, <1>4 DEF Gives8

LEMMA FlagsType ==
  ASSUME NEW F \in Flags, NEW a, NEW b, NEW v, NEW u, NEW c
  PROVE  /\ BitTest(b, v, u, F) \in Flags
         /\ Scf(a, F, c) \in Flags /\ Ccf(a, F, c) \in Flags
         /\ LoadFlags(v, c, F) \in Flags
         /\ CopyFlags(a, v, c, F) \in Flags /\ CompareFlags(a, v, c, F) \in Flags
         /\ PortFlags(b, v, u) \in Flags
<1>1. BitTest(b, v, u, F) \in Flags
  BY FlagParts, FlagNumbers DEF BitTest, Flags
<1>2. Scf(a, F, c) \in Flags /\ Ccf(a, F, c) \in Flags
  BY FlagParts, FlagNumbers DEF Scf, Ccf, Flags
<1>3. LoadFlags(v, c, F) \in Flags
  BY FlagParts, FlagNumbers DEF LoadFlags, When, Flags
<1>4. CopyFlags(a, v, c, F) \in Flags
  BY FlagParts, FlagNumbers DEF CopyFlags, Bits13, When, Flags
<1>5. CompareFlags(a, v, c, F) \in Flags
  BY FlagParts, FlagNumbers DEF CompareFlags, Bits13, When, Flags
<1>6. PortFlags(b, v, u) \in Flags
  BY FlagParts, FlagNumbers DEF PortFlags, When, Flags
<1> QED BY <1>1, <1>2, <1>3, <1>4, <1>5, <1>6

-----------------------------------------------------------------------------
(***************************************************************************)
(* What an operator of Z80Instr keeps.                                      *)
(***************************************************************************)
SameControl(m, n) ==
  /\ n.IFF1 = m.IFF1 /\ n.IFF2 = m.IFF2 /\ n.int_lock = m.int_lock
  /\ n.modifier = m.modifier /\ n.halted = m.halted
  /\ n.int_pending = m.int_pending /\ n.nmi_pending = m.nmi_pending
  /\ n.opcode = m.opcode /\ n.group = m.group

Keeps(m, n) == n \in Machine /\ SameControl(m, n)

LEMMA KeepsItself == ASSUME NEW m \in Machine PROVE Keeps(m, m)
  BY DEF Keeps, SameControl

LEMMA KeepsChain ==
  ASSUME NEW m, NEW n, NEW k, Keeps(m, n), Keeps(n, k)
  PROVE  Keeps(m, k)
  BY DEF Keeps, SameControl

LEMMA FieldTypes ==
  ASSUME NEW m, NEW n, Keeps(m, n)
  PROVE  /\ n.A \in Byte /\ n.F \in Flags /\ n.A_ \in Byte /\ n.F_ \in Flags
         /\ n.I \in Byte /\ n.R \in Byte /\ n.W \in Byte /\ n.PC \in Word
         /\ n.rp \in [Pairs -> Word] /\ n.rp_ \in [{"BC", "DE", "HL"} -> Word]
         /\ n.int_mode \in 0 .. 2 /\ n.ticks \in Nat /\ n.out \in Seq(Word \X Byte)
         /\ n.mem \in [Ram -> Byte]
  BY DEF Keeps, Machine

\* The fields of which the control part does not know.
LEMMA SetByte ==
  ASSUME NEW m, NEW n, Keeps(m, n), NEW v \in Byte
  PROVE  /\ Keeps(m, [n EXCEPT !.A = v]) /\ Keeps(m, [n EXCEPT !.W = v])
         /\ Keeps(m, [n EXCEPT !.I = v]) /\ Keeps(m, [n EXCEPT !.R = v])
<1>1. Keeps(m, [n EXCEPT !.A = v])
  <2>1. [n EXCEPT !.A = v] \in Machine
    BY DEF Keeps, Machine
  <2>2. SameControl(m, [n EXCEPT !.A = v])
    BY DEF Keeps, SameControl, Machine
  <2> QED BY <2>1, <2>2 DEF Keeps
<1>2. Keeps(m, [n EXCEPT !.W = v])
  <2>1. [n EXCEPT !.W = v] \in Machine
    BY DEF Keeps, Machine
  <2>2. SameControl(m, [n EXCEPT !.W = v])
    BY DEF Keeps, SameControl, Machine
  <2> QED BY <2>1, <2>2 DEF Keeps
<1>3. Keeps(m, [n EXCEPT !.I = v])
  <2>1. [n EXCEPT !.I = v] \in Machine
    BY DEF Keeps, Machine
  <2>2. SameControl(m, [n EXCEPT !.I = v])
    BY DEF Keeps, SameControl, Machine
  <2> QED BY <2>1, <2>2 DEF Keeps
<1>4. Keeps(m, [n EXCEPT !.R = v])
  <2>1. [n EXCEPT !.R = v] \in Machine
    BY DEF Keeps, Machine
  <2>2. SameControl(m, [n EXCEPT !.R = v])
    BY DEF Keeps, SameControl, Machine
  <2> QED BY <2>1, <2>2 DEF Keeps
<1> QED BY <1>1, <1>2, <1>3, <1>4

LEMMA SetPc ==
  ASSUME NEW m, NEW n, Keeps(m, n), NEW v \in Word
  PROVE  Keeps(m, [n EXCEPT !.PC = v])
<1>1. [n EXCEPT !.PC = v] \in Machine
  BY DEF Keeps, Machine
<1>2. SameControl(m, [n EXCEPT !.PC = v])
  BY DEF Keeps, SameControl, Machine
<1> QED BY <1>1, <1>2 DEF Keeps

LEMMA SetFlags ==
  ASSUME NEW m, NEW n, Keeps(m, n), NEW F \in Flags
  PROVE  Keeps(m, [n EXCEPT !.F = F]) /\ Keeps(m, SetF(n, F))
<1>1. Keeps(m, [n EXCEPT !.F = F])
  <2>1. [n EXCEPT !.F = F] \in Machine
    BY DEF Keeps, Machine
  <2>2. SameControl(m, [n EXCEPT !.F = F])
    BY DEF Keeps, SameControl, Machine
  <2> QED BY <2>1, <2>2 DEF Keeps
<1>2. ASSUME NEW k, Keeps(m, k)
      PROVE  Keeps(m, [k EXCEPT !.flags_aff = TRUE])
  <2>1. [k EXCEPT !.flags_aff = TRUE] \in Machine
    BY <1>2 DEF Keeps, Machine
  <2>2. SameControl(m, [k EXCEPT !.flags_aff = TRUE])
    BY <1>2 DEF Keeps, SameControl, Machine
  <2> QED BY <2>1, <2>2 DEF Keeps
<1>3. Keeps(m, [[n EXCEPT !.F = F] EXCEPT !.flags_aff = TRUE])
  BY <1>1, <1>2
<1> QED BY <1>1, <1>3 DEF SetF

LEMMA SetWord ==
  ASSUME NEW m, NEW n, Keeps(m, n), NEW p \in Pairs, NEW w \in Word
  PROVE  Keeps(m, [n EXCEPT !.rp[p] = w])
<1>1. [n EXCEPT !.rp[p] = w] \in Machine
  BY DEF Keeps, Machine
<1>2. SameControl(m, [n EXCEPT !.rp[p] = w])
  BY DEF Keeps, SameControl, Machine
<1> QED BY <1>1, <1>2 DEF Keeps

LEMMA SetCell ==
  ASSUME NEW m, NEW n, Keeps(m, n), NEW a \in Ram, NEW v \in Byte
  PROVE  Keeps(m, [n EXCEPT !.mem[a] = v])
<1>1. [n EXCEPT !.mem[a] = v] \in Machine
  BY DEF Keeps, Machine
<1>2. SameControl(m, [n EXCEPT !.mem[a] = v])
  BY DEF Keeps, SameControl, Machine
<1> QED BY <1>1, <1>2 DEF Keeps

-----------------------------------------------------------------------------
(***************************************************************************)
(* Memory, registers and operands.                                          *)
(***************************************************************************)
LEMMA ReadType ==
  ASSUME NEW m, NEW n, Keeps(m, n), NEW a
  PROVE  Read(n, a) \in Byte /\ Next8(n) \in Byte
<1>1. 0 \in Byte
  BY ByteIs
<1>2. \A x : Read(n, x) \in Byte
  BY <1>1, FieldTypes DEF Read
<1> QED BY <1>2 DEF Next8

LEMMA Read16Type ==
  ASSUME NEW m, NEW n, Keeps(m, n), NEW a
  PROVE  Read16(n, a) \in Word /\ Next16(n) \in Word /\ Top(n) \in Word
<1>1. \A x : Read16(n, x) \in Word
  BY ReadType, HalvesType DEF Read16
<1> QED BY <1>1 DEF Next16, Top

LEMMA WriteKeeps ==
  ASSUME NEW m, NEW n, Keeps(m, n), NEW a, NEW v \in Byte
  PROVE  Keeps(m, Write(n, a, v))
  BY SetCell DEF Write

LEMMA Write16Keeps ==
  ASSUME NEW m, NEW n, Keeps(m, n), NEW a, NEW w \in Word
  PROVE  Keeps(m, Write16(n, a, w))
<1>1. Lo(w) \in Byte /\ Hi(w) \in Byte
  BY HalvesType
<1> QED BY <1>1, WriteKeeps DEF Write16

LEMMA SpendKeeps ==
  ASSUME NEW m, NEW n, Keeps(m, n), NEW t \in Nat
  PROVE  Keeps(m, Spend(n, t))
<1>1. n.ticks + t \in Nat
  BY FieldTypes
<1>2. \A x \in Nat : Keeps(m, [n EXCEPT !.ticks = x])
  BY DEF Keeps, SameControl, Machine
<1> QED BY <1>1, <1>2 DEF Spend

LEMMA SkipKeeps ==
  ASSUME NEW m, NEW n, Keeps(m, n), NEW k \in Int
  PROVE  Keeps(m, Skip(n, k))
<1>1. n.PC + k \in Int
  BY FieldTypes, WordIs
<1>2. To16(n.PC + k) \in Word
  BY <1>1, HalvesType
<1>3. Skip(n, k) = [n EXCEPT !.PC = To16(n.PC + k)]
  BY DEF Skip
<1> QED BY <1>2, <1>3, SetPc

LEMMA IncrRKeeps ==
  ASSUME NEW m, NEW n, Keeps(m, n), NEW k \in Nat
  PROVE  Keeps(m, IncrR(n, k))
<1>1. \A r, i \in Int : 0 <= r /\ r <= 255 /\ 0 <= i =>
        /\ 128 * (r \div 128) + ((r + i) % 128) \in Int
        /\ 0 <= 128 * (r \div 128) + ((r + i) % 128)
        /\ 128 * (r \div 128) + ((r + i) % 128) <= 255
  OBVIOUS
<1>2. 128 * (n.R \div 128) + ((n.R + k) % 128) \in Byte
  BY <1>1, FieldTypes, ByteIs
<1>3. \A v \in Byte : Keeps(m, [n EXCEPT !.R = v])
  BY SetByte
<1> QED BY <1>2, <1>3 DEF IncrR

LEMMA SetPairKeeps ==
  ASSUME NEW m, NEW n, Keeps(m, n), NEW p \in Pairs, NEW x \in Int
  PROVE  Keeps(m, SetPair(n, p, x))
  BY SetWord, HalvesType DEF SetPair

LEMMA PairType ==
  ASSUME NEW m, NEW n, Keeps(m, n), NEW p \in Pairs
  PROVE  n.rp[p] \in Word /\ n.rp[p] \in Int
  BY FieldTypes, WordIs

LEMMA BType ==
  ASSUME NEW m, NEW n, Keeps(m, n)
  PROVE  B(n) \in Byte
  BY PairType, HalvesType DEF B, Pairs

\* The register pair that takes the place of HL.
Index == {"HL", "IX", "IY"}

LEMMA RegPairType ==
  ASSUME NEW z \in 0 .. 5, NEW ix \in Index
  PROVE  RegPair(z, ix) \in Pairs
  BY DEF RegPair, Pairs, Index

LEMMA RegType ==
  ASSUME NEW m, NEW n, Keeps(m, n), NEW z \in 0 .. 7, z # 6, NEW ix \in Index
  PROVE  Reg(n, z, ix) \in Byte
<1>1. CASE z = 7
  BY <1>1, FieldTypes DEF Reg
<1>2. CASE z # 7
  <2>1. n.rp[RegPair(z, ix)] \in Word
    BY <1>2, RegPairType, PairType
  <2> QED BY <1>2, <2>1, HalvesType DEF Reg
<1> QED BY <1>1, <1>2

LEMMA SetRegKeeps ==
  ASSUME NEW m, NEW n, Keeps(m, n), NEW z \in 0 .. 7, z # 6, NEW ix \in Index,
         NEW v \in Byte
  PROVE  Keeps(m, SetReg(n, z, ix, v))
<1>1. CASE z = 7
  BY <1>1, SetByte DEF SetReg
<1>2. CASE z # 7
  <2> DEFINE p == RegPair(z, ix)
             w == IF z % 2 = 0 THEN Pair(v, Lo(n.rp[p])) ELSE Pair(Hi(n.rp[p]), v)
  <2>1. p \in Pairs
    BY <1>2, RegPairType
  <2>2. Lo(n.rp[p]) \in Byte /\ Hi(n.rp[p]) \in Byte
    BY <2>1, PairType, HalvesType
  <2>3. w \in Word
    BY <2>2, HalvesType
  <2>4. SetReg(n, z, ix, v) = [n EXCEPT !.rp[p] = w]
    BY <1>2 DEF SetReg
  <2> QED BY <2>1, <2>3, <2>4, SetWord
<1> QED BY <1>1, <1>2

LEMMA AddressType ==
  ASSUME NEW m, NEW n, Keeps(m, n), NEW ix \in Index
  PROVE  Address(n, ix) \in Word /\ Hi(Address(n, ix)) \in Byte
<1>1. ix \in Pairs /\ "HL" \in Pairs
  BY DEF Index, Pairs
<1>2. n.rp[ix] + Signed8(Next8(n)) \in Int
  BY <1>1, PairType, ReadType, SignedType
<1>3. Address(n, ix) \in Word
  BY <1>1, <1>2, PairType, HalvesType DEF Address
<1> QED BY <1>3, HalvesType

LEMMA LocatedKeeps ==
  ASSUME NEW m, NEW n, Keeps(m, n), NEW ix \in Index
  PROVE  Keeps(m, Located(n, ix))
<1>1. Keeps(m, [n EXCEPT !.W = Hi(Address(n, ix))])
  BY AddressType, SetByte
<1> QED BY <1>1, SkipKeeps DEF Located

LEMMA GetType ==
  ASSUME NEW m, NEW n, Keeps(m, n), NEW z \in 0 .. 7, NEW ix \in Index
  PROVE  Get(n, z, ix) \in Byte /\ Keeps(m, Got(n, z, ix))
<1>1. CASE z = 6
  BY <1>1, ReadType, LocatedKeeps DEF Get, Got
<1>2. CASE z # 6
  BY <1>2, RegType DEF Get, Got
<1> QED BY <1>1, <1>2

LEMMA PutKeeps ==
  ASSUME NEW m, NEW n, Keeps(m, n), NEW z \in 0 .. 7, NEW ix \in Index, NEW v \in Byte
  PROVE  Keeps(m, Put(n, z, ix, v))
<1>1. CASE z = 6
  BY <1>1, LocatedKeeps, WriteKeeps DEF Put
<1>2. CASE z # 6
  BY <1>2, SetRegKeeps DEF Put
<1> QED BY <1>1, <1>2

LEMMA PairCodeType ==
  ASSUME NEW p \in 0 .. 3, NEW ix \in Index
  PROVE  PairCode(p, ix) \in Pairs
<1>1. p \in {0, 1, 2, 3}
  OBVIOUS
<1> QED BY <1>1 DEF PairCode, Pairs, Index

-----------------------------------------------------------------------------
(***************************************************************************)
(* Loads and the stack.                                                     *)
(***************************************************************************)
LEMMA TimeType ==
  ASSUME NEW z, NEW ix, NEW r \in Nat, NEW h \in Nat, NEW i \in Nat
  PROVE  Time(z, ix, r, h, i) \in Nat
  BY DEF Time

LEMMA PushKeeps ==
  ASSUME NEW m, NEW n, Keeps(m, n), NEW w \in Word
  PROVE  Keeps(m, Push(n, w))
<1> DEFINE sp == To16(n.rp["SP"] - 2)
<1>1. "SP" \in Pairs
  BY DEF Pairs
<1>2. sp \in Int
  <2>1. n.rp["SP"] - 2 \in Int
    BY <1>1, PairType
  <2>2. sp \in Word
    BY <2>1, HalvesType
  <2> HIDE DEF sp
  <2> QED BY <2>2, WordIs
<1>3. Keeps(m, SetPair(n, "SP", sp))
  BY <1>1, <1>2, SetPairKeeps
<1> QED BY <1>3, Write16Keeps DEF Push

LEMMA PoppedKeeps ==
  ASSUME NEW m, NEW n, Keeps(m, n)
  PROVE  Keeps(m, Popped(n))
<1>1. "SP" \in Pairs
  BY DEF Pairs
<1>2. n.rp["SP"] + 2 \in Int
  BY <1>1, PairType
<1> QED BY <1>1, <1>2, SetPairKeeps DEF Popped

LEMMA LoadKeeps ==
  ASSUME NEW m, NEW n, Keeps(m, n), NEW y \in 0 .. 7, NEW z \in 0 .. 7, y # 6 \/ z # 6,
         NEW ix \in Index
  PROVE  Keeps(m, Load(n, y, z, ix))
<1> DEFINE reg == IF 6 \in {y, z} THEN "HL" ELSE ix
           t == Time(IF 6 \in {y, z} THEN 6 ELSE 0, ix, 4, 7, 15)
           k == IF z = 6 THEN SetReg(Located(n, ix), y, reg, Get(n, 6, ix))
                ELSE IF y = 6 THEN Put(n, 6, ix, Reg(n, z, reg))
                ELSE SetReg(n, y, reg, Reg(n, z, reg))
<1>1. reg \in Index
  BY DEF Index
<1>2. t \in Nat
  BY TimeType
<1>3. CASE z = 6
  <2>1. y # 6
    BY <1>3
  <2>2. Get(n, 6, ix) \in Byte
    BY GetType
  <2>3. Keeps(m, SetReg(Located(n, ix), y, reg, Get(n, 6, ix)))
    BY <1>1, <2>1, <2>2, LocatedKeeps, SetRegKeeps
  <2>4. Keeps(m, k)
    BY <1>3, <2>3
  <2> HIDE DEF k, t
  <2>5. Keeps(m, Spend(k, t))
    BY <1>2, <2>4, SpendKeeps
  <2> QED BY <2>5 DEF Load, k, t
<1>4. CASE z # 6 /\ y = 6
  <2>1. Reg(n, z, reg) \in Byte
    BY <1>1, <1>4, RegType
  <2>2. Keeps(m, Put(n, 6, ix, Reg(n, z, reg)))
    BY <2>1, PutKeeps
  <2>3. Keeps(m, k)
    BY <1>4, <2>2
  <2> HIDE DEF k, t
  <2>4. Keeps(m, Spend(k, t))
    BY <1>2, <2>3, SpendKeeps
  <2> QED BY <2>4 DEF Load, k, t
<1>5. CASE z # 6 /\ y # 6
  <2>1. Reg(n, z, reg) \in Byte
    BY <1>1, <1>5, RegType
  <2>2. Keeps(m, SetReg(n, y, reg, Reg(n, z, reg)))
    BY <1>1, <1>5, <2>1, SetRegKeeps
  <2>3. Keeps(m, k)
    BY <1>5, <2>2
  <2> HIDE DEF k, t
  <2>4. Keeps(m, Spend(k, t))
    BY <1>2, <2>3, SpendKeeps
  <2> QED BY <2>4 DEF Load, k, t
<1> QED BY <1>3, <1>4, <1>5

LEMMA LoadImmediateKeeps ==
  ASSUME NEW m, NEW n, Keeps(m, n), NEW y \in 0 .. 7, NEW ix \in Index
  PROVE  Keeps(m, LoadImmediate(n, y, ix))
<1> DEFINE behind == IF y = 6 /\ ix # "HL" THEN 1 ELSE 0
           k == Put(n, y, ix, Read(n, To16(n.PC + behind)))
<1>1. Keeps(m, k)
  BY ReadType, PutKeeps
<1>2. Time(y, ix, 7, 10, 15) \in Nat
  BY TimeType
<1> HIDE DEF k
<1>3. Keeps(m, Spend(Skip(k, 1), Time(y, ix, 7, 10, 15)))
  BY <1>1, <1>2, SkipKeeps, SpendKeeps
<1> QED BY <1>3 DEF LoadImmediate, k

LEMMA LoadIndirectKeeps ==
  ASSUME NEW m, NEW n, Keeps(m, n), NEW y \in 0 .. 7, NEW ix \in Index
  PROVE  Keeps(m, LoadIndirect(n, y, ix))
<1> DEFINE nn == Next16(n)
           s2 == Skip(n, 2)
           bc == n.rp[IF y \in {0, 1} THEN "BC" ELSE "DE"]
<1>1. nn \in Word /\ Hi(nn) \in Byte
  BY Read16Type, HalvesType
<1>2. Keeps(m, s2)
  BY SkipKeeps
<1>3. bc \in Word /\ Hi(bc) \in Byte
  BY PairType, HalvesType DEF Pairs
<1>4. ix \in Pairs
  BY DEF Index, Pairs
<1>5. n.A \in Byte /\ n.rp[ix] \in Word
  BY <1>4, FieldTypes, PairType
<1>6. \A k, f : Keeps(m, k) => Keeps(m, [k EXCEPT !.W = IF f THEN Hi(nn) ELSE @])
  <2> SUFFICES ASSUME NEW k, NEW f, Keeps(m, k)
               PROVE  Keeps(m, [k EXCEPT !.W = IF f THEN Hi(nn) ELSE k.W])
    OBVIOUS
  <2>1. (IF f THEN Hi(nn) ELSE k.W) \in Byte
    BY <1>1, FieldTypes
  <2> HIDE DEF nn
  <2> QED BY <2>1, SetByte
<1> HIDE DEF nn, s2, bc
<1>7. Keeps(m, Write(n, bc, n.A)) /\ Keeps(m, Write(s2, nn, n.A))
  BY <1>2, <1>5, WriteKeeps
<1>8. Keeps(m, [n EXCEPT !.A = Read(n, bc), !.W = Hi(bc)])
  BY <1>3, ReadType, SetByte
<1>9. Keeps(m, [s2 EXCEPT !.A = Read(n, nn), !.W = Hi(nn)])
  BY <1>1, <1>2, ReadType, SetByte
<1>10. Keeps(m, Write16(s2, nn, n.rp[ix]))
  BY <1>2, <1>5, Write16Keeps
<1>11. Keeps(m, SetPair(s2, ix, Read16(n, nn)))
  BY <1>2, <1>4, Read16Type, SetPairKeeps, WordIs
<1>12. Keeps(m, [Write16(s2, nn, n.rp[ix]) EXCEPT !.W = IF ix = "HL" THEN Hi(nn) ELSE @])
  BY <1>6, <1>10
<1>13. Keeps(m, [SetPair(s2, ix, Read16(n, nn)) EXCEPT !.W = IF ix = "HL" THEN Hi(nn) ELSE @])
  BY <1>6, <1>11
<1>14. CASE y \in {0, 2}
  BY <1>7, <1>14, SpendKeeps DEF LoadIndirect, bc
<1>15. CASE y \in {1, 3}
  BY <1>8, <1>15, SpendKeeps DEF LoadIndirect, bc
<1>16. CASE y = 4
  BY <1>12, <1>16, SpendKeeps DEF LoadIndirect, nn, s2
<1>17. CASE y = 5
  BY <1>13, <1>17, SpendKeeps DEF LoadIndirect, nn, s2
<1>18. CASE y = 6
  BY <1>7, <1>18, SpendKeeps DEF LoadIndirect, nn, s2
<1>19. CASE y = 7
  BY <1>9, <1>19, SpendKeeps DEF LoadIndirect, nn, s2
<1> QED BY <1>14, <1>15, <1>16, <1>17, <1>18, <1>19

LEMMA StackPairKeeps ==
  ASSUME NEW m, NEW n, Keeps(m, n), NEW p \in 0 .. 3, NEW ix \in Index
  PROVE  Keeps(m, PushPair(n, p, ix)) /\ Keeps(m, PopPair(n, p, ix))
<1>1. Keeps(m, PushPair(n, p, ix))
  <2> DEFINE w == IF p = 3 THEN Pair(n.A, Num(n.F)) ELSE n.rp[PairCode(p, ix)]
  <2>1. Pair(n.A, Num(n.F)) \in Word
    BY FieldTypes, NumType, HalvesType
  <2>2. w \in Word
    BY <2>1, PairCodeType, PairType
  <2> HIDE DEF w
  <2>3. Keeps(m, Spend(Push(n, w), 11))
    BY <2>2, PushKeeps, SpendKeeps
  <2> QED BY <2>3 DEF PushPair, w
<1>2. Keeps(m, PopPair(n, p, ix))
  <2> DEFINE w == Top(n)
  <2>1. w \in Word /\ Hi(w) \in Byte /\ Lo(w) \in Byte /\ Bits[Lo(w)] \in Flags /\ w \in Int
    BY Read16Type, HalvesType, BitsType, WordIs
  <2> HIDE DEF w
  <2>2. Keeps(m, [Popped(n) EXCEPT !.A = Hi(w)])
    BY <2>1, PoppedKeeps, SetByte
  <2>3. Keeps(m, [[Popped(n) EXCEPT !.A = Hi(w)] EXCEPT !.F = Bits[Lo(w)]])
    BY <2>1, <2>2, SetFlags
  <2>4. Keeps(m, SetPair(Popped(n), PairCode(p, ix), w))
    BY <2>1, PoppedKeeps, PairCodeType, SetPairKeeps
  <2> QED BY <2>3, <2>4, SpendKeeps DEF PopPair, w
<1> QED BY <1>1, <1>2

LEMMA ExchangeKeeps ==
  ASSUME NEW m, NEW n, Keeps(m, n), NEW ix \in Index
  PROVE  /\ Keeps(m, ExSp(n, ix)) /\ Keeps(m, ExAf(n))
         /\ Keeps(m, ExDeHl(n)) /\ Keeps(m, Exx(n))
<1>1. Keeps(m, ExSp(n, ix))
  <2>1. ix \in Pairs /\ "SP" \in Pairs
    BY DEF Index, Pairs
  <2>2. Keeps(m, Write16(n, n.rp["SP"], n.rp[ix]))
    BY <2>1, PairType, Write16Keeps
  <2>3. Top(n) \in Int
    BY Read16Type, WordIs
  <2>4. Keeps(m, SetPair(Write16(n, n.rp["SP"], n.rp[ix]), ix, Top(n)))
    BY <2>1, <2>2, <2>3, SetPairKeeps
  <2> QED BY <2>4, SpendKeeps DEF ExSp
<1>2. Keeps(m, ExAf(n))
  <2> DEFINE k == [n EXCEPT !.A = n.A_, !.A_ = n.A, !.F = n.F_, !.F_ = n.F]
  <2>1. n.A \in Byte /\ n.F \in Flags /\ n.A_ \in Byte /\ n.F_ \in Flags
    BY FieldTypes
  <2>2. k \in Machine
    BY <2>1 DEF Keeps, Machine
  <2>3. SameControl(m, k)
    BY DEF Keeps, SameControl, Machine
  <2>4. Keeps(m, k)
    BY <2>2, <2>3 DEF Keeps
  <2> HIDE DEF k
  <2> QED BY <2>4, SpendKeeps DEF ExAf, k
<1>3. Keeps(m, ExDeHl(n))
  <2>1. "DE" \in Pairs /\ "HL" \in Pairs
    BY DEF Pairs
  <2>2. n.rp["DE"] \in Word /\ n.rp["HL"] \in Word
    BY <2>1, PairType
  <2>3. Keeps(m, [[n EXCEPT !.rp["DE"] = n.rp["HL"]] EXCEPT !.rp["HL"] = n.rp["DE"]])
    BY <2>1, <2>2, SetWord
  <2> QED BY <2>3, SpendKeeps DEF ExDeHl
<1>4. Keeps(m, Exx(n))
  <2> DEFINE rp == [p \in Pairs |-> IF p \in DOMAIN n.rp_ THEN n.rp_[p] ELSE n.rp[p]]
             rp_ == [p \in DOMAIN n.rp_ |-> n.rp[p]]
  <2>1. /\ n.rp \in [Pairs -> Word] /\ n.rp_ \in [{"BC", "DE", "HL"} -> Word]
        /\ DOMAIN n.rp_ = {"BC", "DE", "HL"}
    BY FieldTypes
  <2>2. rp \in [Pairs -> Word]
    BY <2>1
  <2>3. rp_ \in [{"BC", "DE", "HL"} -> Word]
    BY <2>1 DEF Pairs
  <2> HIDE DEF rp, rp_
  <2>4. [n EXCEPT !.rp = rp, !.rp_ = rp_] \in Machine
    BY <2>2, <2>3 DEF Keeps, Machine
  <2>5. SameControl(m, [n EXCEPT !.rp = rp, !.rp_ = rp_])
    BY DEF Keeps, SameControl, Machine
  <2>6. Keeps(m, Spend([n EXCEPT !.rp = rp, !.rp_ = rp_], 4))
    BY <2>4, <2>5, SpendKeeps DEF Keeps
  <2>7. Exx(n) = Spend([n EXCEPT !.rp = rp, !.rp_ = rp_], 4)
    BY DEF Exx, rp, rp_
  <2> QED BY <2>6, <2>7
<1> QED BY <1>1, <1>2, <1>3, <1>4

-----------------------------------------------------------------------------
(***************************************************************************)
(* Arithmetic.                                                              *)
(***************************************************************************)
LEMMA AccumulateKeeps ==
  ASSUME NEW m, NEW n, Keeps(m, n), NEW r, Gives8(r)
  PROVE  Keeps(m, Accumulate(n, r))
<1>1. Keeps(m, [n EXCEPT !.A = r.v])
  BY SetByte DEF Gives8
<1> QED BY <1>1, SetFlags DEF Gives8, Accumulate

LEMMA AluGetKeeps ==
  ASSUME NEW m, NEW n, Keeps(m, n), NEW y \in 0 .. 7, NEW z \in 0 .. 7, NEW ix \in Index
  PROVE  Keeps(m, AluGet(n, y, z, ix))
<1> DEFINE v == Get(n, z, ix)
           r == Alu(y, n.A, v, n.F)
           stores == y = 7 /\ ix # "HL" /\ z \in {4, 5}
           q == [r EXCEPT !.v = IF stores THEN To8(n.A - v) ELSE @]
<1>1. v \in Byte /\ n.A \in Byte /\ n.F \in Flags
  BY GetType, FieldTypes
<1>2. Gives8(r) /\ r = [v |-> r.v, F |-> r.F]
  BY <1>1, AluType
<1>3. n.A - v \in Int
  BY <1>1, ByteIs
<1>4. To8(n.A - v) \in Byte
  BY <1>3, HalvesType
<1> HIDE DEF v, r
<1>5. Gives8(q)
  BY <1>2, <1>4 DEF Gives8
<1> HIDE DEF q
<1>6. Keeps(m, Spend(Accumulate(Got(n, z, ix), q), Time(z, ix, 4, 7, 15)))
  BY <1>5, GetType, AccumulateKeeps, TimeType, SpendKeeps
<1> QED BY <1>6 DEF AluGet, q, r, v

LEMMA AluImmediateKeeps ==
  ASSUME NEW m, NEW n, Keeps(m, n), NEW y \in 0 .. 7
  PROVE  Keeps(m, AluImmediate(n, y))
<1>1. Gives8(Alu(y, n.A, Next8(n), n.F))
  BY FieldTypes, ReadType, AluType
<1> QED BY <1>1, SkipKeeps, AccumulateKeeps, SpendKeeps DEF AluImmediate

LEMMA Step8Keeps ==
  ASSUME NEW m, NEW n, Keeps(m, n), NEW y \in 0 .. 7, NEW ix \in Index, NEW dec
  PROVE  Keeps(m, Step8(n, y, ix, dec))
<1> DEFINE r == IF dec THEN Dec8(Get(n, y, ix), n.F) ELSE Inc8(Get(n, y, ix), n.F)
<1>1. Gives8(r)
  BY GetType, FieldTypes, StepType
<1> HIDE DEF r
<1>2. Keeps(m, Put(n, y, ix, r.v))
  BY <1>1, PutKeeps DEF Gives8
<1>3. Keeps(m, Spend(SetF(Put(n, y, ix, r.v), r.F), Time(y, ix, 4, 11, 19)))
  BY <1>1, <1>2, SetFlags, TimeType, SpendKeeps DEF Gives8
<1> QED BY <1>3 DEF Step8, r

LEMMA Step16Keeps ==
  ASSUME NEW m, NEW n, Keeps(m, n), NEW p \in 0 .. 3, NEW ix \in Index, NEW d \in {1, -1}
  PROVE  Keeps(m, Step16(n, p, ix, d))
<1> DEFINE pair == PairCode(p, ix)
<1>1. pair \in Pairs
  BY PairCodeType
<1>2. n.rp[pair] + d \in Int
  BY <1>1, PairType
<1>3. Keeps(m, SetPair(n, pair, n.rp[pair] + d))
  BY <1>1, <1>2, SetPairKeeps
<1> QED BY <1>3, SpendKeeps DEF Step16

LEMMA Set16Keeps ==
  ASSUME NEW m, NEW n, Keeps(m, n), NEW w \in Word, NEW ix \in Index, NEW r, Gives16(r),
         NEW t \in Nat
  PROVE  Keeps(m, Spend(SetF(SetPair([n EXCEPT !.W = Hi(w)], ix, r.v), r.F), t))
<1>1. ix \in Pairs /\ r.v \in Int /\ r.F \in Flags
  BY WordIs DEF Gives16, Index, Pairs
<1>2. Keeps(m, [n EXCEPT !.W = Hi(w)])
  BY HalvesType, SetByte
<1> QED BY <1>1, <1>2, SetPairKeeps, SetFlags, SpendKeeps

LEMMA Add16PairKeeps ==
  ASSUME NEW m, NEW n, Keeps(m, n), NEW p \in 0 .. 3, NEW ix \in Index, NEW add
  PROVE  Keeps(m, Add16Pair(n, p, ix)) /\ Keeps(m, Carry16Pair(n, p, add))
<1>1. ix \in Pairs /\ "HL" \in Pairs /\ "HL" \in Index
  BY DEF Index, Pairs
<1>2. PairCode(p, ix) \in Pairs /\ PairCode(p, "HL") \in Pairs
  BY <1>1, PairCodeType
<1>3. /\ n.rp[ix] \in Word /\ n.rp["HL"] \in Word
      /\ n.rp[PairCode(p, ix)] \in Word /\ n.rp[PairCode(p, "HL")] \in Word
  BY <1>1, <1>2, PairType
<1>4. n.F \in Flags /\ Carry(n.F) \in {0, 1}
  BY FieldTypes, CarryType
<1>5. Keeps(m, Add16Pair(n, p, ix))
  <2> DEFINE r == Add16(n.rp[ix], n.rp[PairCode(p, ix)], n.F)
  <2>1. Gives16(r)
    BY <1>3, <1>4, Sum16Type
  <2> HIDE DEF r
  <2>2. Keeps(m, Spend(SetF(SetPair([n EXCEPT !.W = Hi(n.rp[ix])], ix, r.v), r.F), 11))
    BY <1>3, <2>1, Set16Keeps
  <2> QED BY <2>2 DEF Add16Pair, r
<1>6. Keeps(m, Carry16Pair(n, p, add))
  <2> DEFINE v == n.rp[PairCode(p, "HL")]
             r == IF add THEN Adc16(n.rp["HL"], v, Carry(n.F))
                  ELSE Sbc16(n.rp["HL"], v, Carry(n.F))
  <2>1. Gives16(r)
    BY <1>3, <1>4, Sum16Type
  <2> HIDE DEF r
  <2>2. Keeps(m, Spend(SetF(SetPair([n EXCEPT !.W = Hi(n.rp["HL"])], "HL", r.v), r.F), 15))
    BY <1>1, <1>3, <2>1, Set16Keeps
  <2> QED BY <2>2 DEF Carry16Pair, r
<1> QED BY <1>5, <1>6

LEMMA OnAccumulatorKeeps ==
  ASSUME NEW m, NEW n, Keeps(m, n), NEW y \in 0 .. 7
  PROVE  Keeps(m, OnAccumulator(n, y))
<1>1. n.A \in Byte /\ n.F \in Flags
  BY FieldTypes
<1>2. CASE y \in 0 .. 3
  <2>1. OnAccumulator(n, y) = Spend(Accumulate(n, RotateA(y, n.A, n.F)), 4)
    BY <1>2 DEF OnAccumulator
  <2>2. Gives8(RotateA(y, n.A, n.F))
    BY <1>1, RotateType
  <2> QED BY <2>1, <2>2, AccumulateKeeps, SpendKeeps
<1>3. CASE y = 4
  BY <1>1, <1>3, ResultType, AccumulateKeeps, SpendKeeps DEF OnAccumulator
<1>4. CASE y = 5
  BY <1>1, <1>4, ResultType, AccumulateKeeps, SpendKeeps DEF OnAccumulator
<1>5. CASE y = 6
  <2> DEFINE F == Scf(n.A, n.F, n.pflags_aff)
  <2>1. F \in Flags
    BY <1>1, FlagsType
  <2> HIDE DEF F
  <2>2. Keeps(m, Spend(SetF(n, F), 4))
    BY <2>1, SetFlags, SpendKeeps
  <2> QED BY <1>5, <2>2 DEF OnAccumulator, F
<1>6. CASE y = 7
  <2> DEFINE F == Ccf(n.A, n.F, n.pflags_aff)
  <2>1. F \in Flags
    BY <1>1, FlagsType
  <2> HIDE DEF F
  <2>2. Keeps(m, Spend(SetF(n, F), 4))
    BY <2>1, SetFlags, SpendKeeps
  <2> QED BY <1>6, <2>2 DEF OnAccumulator, F
<1> QED BY <1>2, <1>3, <1>4, <1>5, <1>6

LEMMA DigitsKeeps ==
  ASSUME NEW m, NEW n, Keeps(m, n), NEW toLeft
  PROVE  Keeps(m, Digits(n, toLeft))
<1> DEFINE v == Read(n, n.rp["HL"])
           a == 16 * (n.A \div 16) + (IF toLeft THEN v \div 16 ELSE v % 16)
           k == IF toLeft THEN 16 * (v % 16) + (n.A % 16) ELSE (v \div 16) + 16 * (n.A % 16)
<1>1. \A x \in Int : 0 <= x /\ x <= 255 =>
        /\ x \div 16 \in Int /\ 0 <= x \div 16 /\ x \div 16 <= 15
        /\ x % 16 \in Int /\ 0 <= x % 16 /\ x % 16 <= 15
  OBVIOUS
<1>2. v \in Byte /\ n.A \in Byte
  BY ReadType, FieldTypes
<1> HIDE DEF v
<1>3. /\ v \div 16 \in Int /\ 0 <= v \div 16 /\ v \div 16 <= 15
      /\ v % 16 \in Int /\ 0 <= v % 16 /\ v % 16 <= 15
      /\ n.A \div 16 \in Int /\ 0 <= n.A \div 16 /\ n.A \div 16 <= 15
      /\ n.A % 16 \in Int /\ 0 <= n.A % 16 /\ n.A % 16 <= 15
  BY <1>1, <1>2, ByteIs
<1>4. \A i, j \in Int : 0 <= i /\ i <= 15 /\ 0 <= j /\ j <= 15 =>
        16 * i + j \in Byte /\ j + 16 * i \in Byte
  BY ByteIs
<1>5. a \in Byte /\ k \in Byte
  BY <1>3, <1>4
<1> HIDE DEF a, k
<1>6. Keeps(m, Write([n EXCEPT !.A = a], n.rp["HL"], k))
  BY <1>5, SetByte, WriteKeeps
<1>7. (n.F \cap {fC}) \cup LogicFlags(a) \in Flags
  BY FieldTypes, FlagParts, FlagUnion
<1>8. Keeps(m, Spend(SetF(Write([n EXCEPT !.A = a], n.rp["HL"], k),
                          (n.F \cap {fC}) \cup LogicFlags(a)), 18))
  BY <1>6, <1>7, SetFlags, SpendKeeps
<1> QED BY <1>8 DEF Digits, v, a, k

-----------------------------------------------------------------------------
(***************************************************************************)
(* Jumps, ports and block instructions.                                     *)
(***************************************************************************)
LEMMA GotoKeeps ==
  ASSUME NEW m, NEW n, Keeps(m, n), NEW a \in Word
  PROVE  /\ Keeps(m, Goto(n, a))
         /\ Keeps(m, [Goto(n, a) EXCEPT !.W = Hi(a)])
<1>1. Keeps(m, Goto(n, a))
  BY SetPc DEF Goto
<1> QED BY <1>1, HalvesType, SetByte

LEMMA RelativeKeeps ==
  ASSUME NEW m, NEW n, Keeps(m, n)
  PROVE  Keeps(m, Relative(n))
<1>1. n.PC + 1 + Signed8(Next8(n)) \in Int
  <2>1. n.PC \in Int
    BY FieldTypes, WordIs
  <2>2. Signed8(Next8(n)) \in Int
    BY ReadType, SignedType
  <2> QED BY <2>1, <2>2
<1>2. To16(n.PC + 1 + Signed8(Next8(n))) \in Word
  BY <1>1, HalvesType
<1> QED BY <1>2, GotoKeeps DEF Relative

LEMMA CallKeeps ==
  ASSUME NEW m, NEW n, Keeps(m, n), NEW a \in Word
  PROVE  Keeps(m, Call(n, a))
<1>1. Keeps(m, Push(n, n.PC))
  BY FieldTypes, PushKeeps
<1> QED BY <1>1, GotoKeeps DEF Call

LEMMA ReturnKeeps ==
  ASSUME NEW m, NEW n, Keeps(m, n)
  PROVE  Keeps(m, Return(n)) /\ Keeps(m, ReturnW(n))
<1>1. Keeps(m, Return(n))
  BY Read16Type, PoppedKeeps, GotoKeeps DEF Return
<1>2. Hi(Top(n)) \in Byte
  BY Read16Type, HalvesType
<1> QED BY <1>1, <1>2, SetByte DEF ReturnW

LEMMA JumpKeeps ==
  ASSUME NEW m, NEW n, Keeps(m, n), NEW jumps
  PROVE  /\ Keeps(m, Jr(n, jumps)) /\ Keeps(m, Jp(n, jumps))
         /\ Keeps(m, CallIf(n, jumps)) /\ Keeps(m, RetIf(n, jumps))
<1> DEFINE a == Next16(n)
           k == [Skip(n, 2) EXCEPT !.W = Hi(a)]
<1>1. a \in Word /\ Hi(a) \in Byte
  BY Read16Type, HalvesType
<1>2. Keeps(m, Skip(n, 1)) /\ Keeps(m, Skip(n, 2))
  BY SkipKeeps
<1>3. Keeps(m, k)
  BY <1>1, <1>2, SetByte
<1> HIDE DEF a, k
<1>4. Keeps(m, Goto(k, a)) /\ Keeps(m, Call(Skip(n, 2), a))
  BY <1>1, <1>2, <1>3, GotoKeeps, CallKeeps
<1>5. Keeps(m, Jr(n, jumps))
  BY <1>2, RelativeKeeps, SpendKeeps DEF Jr
<1>6. Keeps(m, Jp(n, jumps))
  BY <1>3, <1>4, SpendKeeps DEF Jp, k, a
<1>7. Keeps(m, CallIf(n, jumps))
  BY <1>2, <1>4, SpendKeeps DEF CallIf, a
<1>8. Keeps(m, RetIf(n, jumps))
  BY ReturnKeeps, SpendKeeps DEF RetIf
<1> QED BY <1>5, <1>6, <1>7, <1>8

LEMMA DjnzKeeps ==
  ASSUME NEW m, NEW n, Keeps(m, n)
  PROVE  Keeps(m, Djnz(n))
<1> DEFINE k == SetReg(n, 0, "HL", To8(B(n) - 1))
<1>1. B(n) - 1 \in Int
  BY BType, ByteIs
<1>2. To8(B(n) - 1) \in Byte
  BY <1>1, HalvesType
<1>3. Keeps(m, k)
  BY <1>2, SetRegKeeps DEF Index
<1> HIDE DEF k
<1>4. Keeps(m, Spend(Relative(k), 13))
  BY <1>3, RelativeKeeps, SpendKeeps
<1>5. Keeps(m, Skip(k, 1))
  BY <1>3, SkipKeeps
<1>6. Keeps(m, Spend(Skip(k, 1), 8))
  BY <1>5, SpendKeeps
<1> QED BY <1>4, <1>6 DEF Djnz, k

LEMMA OutputKeeps ==
  ASSUME NEW m, NEW n, Keeps(m, n), NEW port \in Word, NEW v \in Byte
  PROVE  Keeps(m, Output(n, port, v))
<1> DEFINE out == Append(n.out, <<port, v>>)
<1>1. out \in Seq(Word \X Byte)
  BY FieldTypes
<1> HIDE DEF out
<1>2. Keeps(m, [n EXCEPT !.out = out])
  BY <1>1 DEF Keeps, SameControl, Machine
<1> QED BY <1>2 DEF Output, out

LEMMA InType == ASSUME NEW w \in Word PROVE In(w) \in Byte
  BY InAssumption

LEMMA PortKeeps ==
  ASSUME NEW m, NEW n, Keeps(m, n), NEW y \in 0 .. 7
  PROVE  /\ Keeps(m, OutN(n)) /\ Keeps(m, InN(n))
         /\ Keeps(m, InC(n, y)) /\ Keeps(m, OutC(n, y))
<1> DEFINE port == Pair(n.A, Next8(n))
           bc == n.rp["BC"]
<1>1. port \in Word /\ n.A \in Byte /\ n.F \in Flags
  BY FieldTypes, ReadType, HalvesType
<1>2. bc \in Word /\ B(n) \in Byte
  BY PairType, BType DEF Pairs
<1>3. Keeps(m, [Skip(n, 1) EXCEPT !.W = n.A])
  <2>1. Keeps(m, Skip(n, 1))
    BY SkipKeeps
  <2> QED BY <1>1, <2>1, SetByte
<1>4. Keeps(m, [n EXCEPT !.W = B(n)])
  BY <1>2, SetByte
<1> HIDE DEF port, bc
<1>5. Keeps(m, OutN(n))
  BY <1>1, <1>3, OutputKeeps, SpendKeeps DEF OutN, port
<1>6. Keeps(m, InN(n))
  <2>1. Keeps(m, [[Skip(n, 1) EXCEPT !.W = n.A] EXCEPT !.A = In(port)])
    BY <1>1, <1>3, InType, SetByte
  <2> QED BY <2>1, SpendKeeps DEF InN, port
<1>7. Keeps(m, InC(n, y))
  <2> DEFINE v == In(bc)
             k == SetF([n EXCEPT !.W = B(n)], LoadFlags(v, EvenParity(v), n.F))
  <2>1. v \in Byte
    BY <1>2, InType
  <2>2. LoadFlags(v, EvenParity(v), n.F) \in Flags
    BY <1>1, FlagParts, FlagNumbers DEF LoadFlags, When, Flags
  <2>3. Keeps(m, k)
    BY <1>4, <2>2, SetFlags
  <2> HIDE DEF v, k
  <2>4. y # 6 => Keeps(m, SetReg(k, y, "HL", v))
    BY <2>1, <2>3, SetRegKeeps DEF Index
  <2> QED BY <2>3, <2>4, SpendKeeps DEF InC, k, v, bc
<1>8. Keeps(m, OutC(n, y))
  <2> DEFINE v == IF y = 6 THEN 0 ELSE Reg(n, y, "HL")
  <2>1. v \in Byte
    BY RegType, ByteIs DEF Index
  <2> HIDE DEF v
  <2>2. Keeps(m, Spend(Output([n EXCEPT !.W = B(n)], bc, v), 12))
    BY <1>2, <1>4, <2>1, OutputKeeps, SpendKeeps
  <2> QED BY <2>2 DEF OutC, v, bc
<1> QED BY <1>5, <1>6, <1>7, <1>8

LEMMA AgainKeeps ==
  ASSUME NEW m, NEW n, Keeps(m, n), NEW repeat, NEW last
  PROVE  Keeps(m, Again(n, repeat, last))
<1>1. n.PC - 2 \in Int
  BY FieldTypes, WordIs
<1>2. Keeps(m, [n EXCEPT !.PC = To16(n.PC - 2)])
  BY <1>1, HalvesType, SetPc
<1> QED BY <1>2, SpendKeeps DEF Again

LEMMA StepKeeps ==
  ASSUME NEW m, NEW n, Keeps(m, n), NEW p \in Pairs, NEW d \in {1, -1}
  PROVE  Keeps(m, Step(n, p, d))
<1>1. n.rp[p] + d \in Int
  BY PairType
<1> QED BY <1>1, SetPairKeeps DEF Step

LEMMA CopyKeeps ==
  ASSUME NEW m, NEW n, Keeps(m, n), NEW d \in {1, -1}, NEW repeat
  PROVE  Keeps(m, Copy(n, d, repeat)) /\ Keeps(m, Compare(n, d, repeat))
<1> DEFINE v == Read(n, n.rp["HL"])
           bc == To16(n.rp["BC"] - 1)
<1>1. "HL" \in Pairs /\ "DE" \in Pairs /\ "BC" \in Pairs /\ -1 \in {1, -1}
  BY DEF Pairs
<1>2. v \in Byte /\ n.F \in Flags /\ B(n) \in Byte
  BY ReadType, FieldTypes, BType
<1> HIDE DEF v, bc
<1>3. Keeps(m, Copy(n, d, repeat))
  <2> DEFINE k == Step(Step(Step(Write(n, n.rp["DE"], v), "HL", d), "DE", d), "BC", -1)
             F == CopyFlags(n.A, v, bc, n.F)
  <2>1. Keeps(m, Step(Step(Write(n, n.rp["DE"], v), "HL", d), "DE", d))
    BY <1>1, <1>2, WriteKeeps, StepKeeps
  <2>2. Keeps(m, k)
    BY <1>1, <2>1, StepKeeps
  <2>3. F \in Flags
    BY <1>2, FlagsType
  <2> HIDE DEF k, F
  <2>4. Keeps(m, SetF(k, F))
    BY <2>2, <2>3, SetFlags
  <2>5. Keeps(m, Again(SetF(k, F), repeat, bc = 0))
    BY <2>4, AgainKeeps
  <2> QED BY <2>5 DEF Copy, k, F, v, bc
<1>4. Keeps(m, Compare(n, d, repeat))
  <2> DEFINE k == Step(Step([n EXCEPT !.W = B(n)], "HL", d), "BC", -1)
             F == CompareFlags(n.A, v, bc, n.F)
  <2>1. Keeps(m, [n EXCEPT !.W = B(n)])
    BY <1>2, SetByte
  <2>2. Keeps(m, k)
    BY <1>1, <2>1, StepKeeps
  <2>3. F \in Flags
    BY <1>2, FlagsType
  <2> HIDE DEF k, F
  <2>4. Keeps(m, SetF(k, F))
    BY <2>2, <2>3, SetFlags
  <2>5. Keeps(m, Again(SetF(k, F), repeat, bc = 0 \/ n.A = v))
    BY <2>4, AgainKeeps
  <2> QED BY <2>5 DEF Compare, k, F, v, bc
<1> QED BY <1>3, <1>4

LEMMA InputKeeps ==
  ASSUME NEW m, NEW n, Keeps(m, n), NEW d \in {1, -1}, NEW repeat
  PROVE  Keeps(m, Input(n, d, repeat)) /\ Keeps(m, Outp(n, d, repeat))
<1> DEFINE b == To8(B(n) - 1)
<1>1. "HL" \in Pairs /\ "BC" \in Pairs /\ "HL" \in Index
  BY DEF Pairs, Index
<1>2. B(n) \in Byte /\ n.rp["BC"] \in Word /\ Lo(n.rp["BC"]) \in Byte
  BY <1>1, BType, PairType, HalvesType
<1>3. b \in Byte
  <2>1. B(n) - 1 \in Int
    BY <1>2, ByteIs
  <2> QED BY <2>1, HalvesType
<1> HIDE DEF b
<1>4. Keeps(m, Input(n, d, repeat))
  <2> DEFINE v == In(n.rp["BC"])
             k == Step(Write([n EXCEPT !.W = B(n)], n.rp["HL"], v), "HL", d)
             F == PortFlags(b, v, To8(Lo(n.rp["BC"]) + d))
  <2>1. v \in Byte
    BY <1>2, InType
  <2>2. Keeps(m, k)
    BY <1>1, <1>2, <2>1, SetByte, WriteKeeps, StepKeeps
  <2>3. F \in Flags
    BY FlagParts, FlagNumbers DEF PortFlags, When, Flags
  <2> HIDE DEF v, k, F
  <2>4. Keeps(m, SetReg(k, 0, "HL", b))
    BY <1>1, <1>3, <2>2, SetRegKeeps
  <2>5. Keeps(m, SetF(SetReg(k, 0, "HL", b), F))
    BY <2>3, <2>4, SetFlags
  <2>6. Keeps(m, Again(SetF(SetReg(k, 0, "HL", b), F), repeat, b = 0))
    BY <2>5, AgainKeeps
  <2> QED BY <2>6 DEF Input, k, F, v, b
<1>5. Keeps(m, Outp(n, d, repeat))
  <2> DEFINE v == Read(n, n.rp["HL"])
             port == Pair(b, Lo(n.rp["BC"]))
             k == Step(Output([n EXCEPT !.W = b], port, v), "HL", d)
             F == PortFlags(b, v, Lo(k.rp["HL"]))
  <2>1. v \in Byte /\ port \in Word
    BY <1>2, <1>3, ReadType, HalvesType
  <2>2. Keeps(m, k)
    BY <1>1, <1>3, <2>1, SetByte, OutputKeeps, StepKeeps
  <2> HIDE DEF v, port, k
  <2>3. F \in Flags
    BY FlagParts, FlagNumbers DEF PortFlags, When, Flags
  <2> HIDE DEF F
  <2>4. Keeps(m, SetReg(k, 0, "HL", b))
    BY <1>1, <1>3, <2>2, SetRegKeeps
  <2>5. Keeps(m, SetF(SetReg(k, 0, "HL", b), F))
    BY <2>3, <2>4, SetFlags
  <2>6. Keeps(m, Again(SetF(SetReg(k, 0, "HL", b), F), repeat, b = 0))
    BY <2>5, AgainKeeps
  <2> QED BY <2>6 DEF Outp, k, F, v, port, b
<1> QED BY <1>4, <1>5

LEMMA BlockKeeps ==
  ASSUME NEW m, NEW n, Keeps(m, n), NEW y \in 0 .. 7, NEW z \in 0 .. 3
  PROVE  Keeps(m, Block(n, y, z))
<1> DEFINE d == IF y % 2 = 0 THEN 1 ELSE -1
           repeat == y \in {6, 7}
<1>1. d \in {1, -1}
  OBVIOUS
<1> HIDE DEF d
<1>2. /\ Keeps(m, Copy(n, d, repeat)) /\ Keeps(m, Compare(n, d, repeat))
      /\ Keeps(m, Input(n, d, repeat)) /\ Keeps(m, Outp(n, d, repeat))
  BY <1>1, CopyKeeps, InputKeeps
<1>3. z \in {0, 1, 2, 3}
  OBVIOUS
<1> QED BY <1>2, <1>3 DEF Block, d

-----------------------------------------------------------------------------
(***************************************************************************)
(* The tables: which opcodes change the control part, and how.              *)
(***************************************************************************)
LEMMA OpcodeParts ==
  ASSUME NEW op \in Byte
  PROVE  /\ op \div 64 \in {0, 1, 2, 3}
         /\ (op \div 8) % 8 \in 0 .. 7 /\ op % 8 \in 0 .. 7
<1>1. \A i \in Int : 0 <= i /\ i <= 255 =>
        /\ i \div 64 \in Int /\ 0 <= i \div 64 /\ i \div 64 <= 3
        /\ (i \div 8) % 8 \in Int /\ 0 <= (i \div 8) % 8 /\ (i \div 8) % 8 <= 7
        /\ i % 8 \in Int /\ 0 <= i % 8 /\ i % 8 <= 7
  OBVIOUS
<1>2. /\ op \div 64 \in Int /\ 0 <= op \div 64 /\ op \div 64 <= 3
      /\ (op \div 8) % 8 \in Int /\ 0 <= (op \div 8) % 8 /\ (op \div 8) % 8 <= 7
      /\ op % 8 \in Int /\ 0 <= op % 8 /\ op % 8 <= 7
  BY <1>1, ByteIs
<1>3. \A i \in Int : 0 <= i /\ i <= 3 => i \in {0, 1, 2, 3}
  OBVIOUS
<1>4. \A i \in Int : 0 <= i /\ i <= 7 => i \in 0 .. 7
  OBVIOUS
<1> QED BY <1>2, <1>3, <1>4

LEMMA HalfCode ==
  ASSUME NEW y \in 0 .. 7
  PROVE  y \div 2 \in 0 .. 3 /\ y % 2 \in {0, 1}
  OBVIOUS

LEMMA Quarter0Keeps ==
  ASSUME NEW m, NEW n, Keeps(m, n), NEW y \in 0 .. 7, NEW z \in 0 .. 7, NEW ix \in Index
  PROVE  Keeps(m, Quarter0(n, y, z, ix))
<1> DEFINE r == Quarter0(n, y, z, ix)
<1>1. y \div 2 \in 0 .. 3 /\ y % 2 \in {0, 1}
  BY HalfCode
<1>2. CASE z = 0
  <2>1. Keeps(m, Nop(n)) /\ Keeps(m, ExAf(n)) /\ Keeps(m, Djnz(n))
    BY SpendKeeps, ExchangeKeeps, DjnzKeeps DEF Nop
  <2>2. \A jumps : Keeps(m, Jr(n, jumps))
    BY JumpKeeps
  <2>3. CASE y = 0
    BY <1>2, <2>1, <2>3 DEF Quarter0
  <2>4. CASE y = 1
    BY <1>2, <2>1, <2>4 DEF Quarter0
  <2>5. CASE y = 2
    BY <1>2, <2>1, <2>5 DEF Quarter0
  <2>6. CASE y = 3
    <3>1. r = Jr(n, TRUE)
      BY <1>2, <2>6 DEF Quarter0
    <3> HIDE DEF r
    <3>2. Keeps(m, Jr(n, TRUE))
      BY JumpKeeps, Zenon
    <3> QED BY <3>1, <3>2, Zenon DEF r
  <2>7. CASE y > 3
    <3>1. r = Jr(n, Holds(y - 4, n.F))
      BY <1>2, <2>7 DEF Quarter0
    <3> HIDE DEF r
    <3>2. Keeps(m, Jr(n, Holds(y - 4, n.F)))
      BY JumpKeeps, Zenon
    <3> QED BY <3>1, <3>2, Zenon DEF r
  <2> QED BY <2>3, <2>4, <2>5, <2>6, <2>7
<1>3. CASE z = 1 /\ y % 2 = 0
  <2>1. r = Spend(SetPair(Skip(n, 2), PairCode(y \div 2, ix), Next16(n)), 10)
    BY <1>3 DEF Quarter0
  <2>2. PairCode(y \div 2, ix) \in Pairs /\ Next16(n) \in Int
    BY <1>1, PairCodeType, Read16Type, WordIs
  <2>3. Keeps(m, Skip(n, 2))
    BY SkipKeeps
  <2>4. Keeps(m, SetPair(Skip(n, 2), PairCode(y \div 2, ix), Next16(n)))
    BY <2>2, <2>3, SetPairKeeps
  <2>5. Keeps(m, Spend(SetPair(Skip(n, 2), PairCode(y \div 2, ix), Next16(n)), 10))
    BY <2>4, SpendKeeps
  <2> QED BY <2>1, <2>5
<1>4. CASE z = 1 /\ y % 2 = 1
  <2>1. r = Add16Pair(n, y \div 2, ix)
    BY <1>4 DEF Quarter0
  <2> QED BY <1>1, <2>1, Add16PairKeeps
<1>5. CASE z = 2
  <2>1. r = LoadIndirect(n, y, ix)
    BY <1>5 DEF Quarter0
  <2> QED BY <2>1, LoadIndirectKeeps
<1>6. CASE z = 3
  <2>1. r = Step16(n, y \div 2, ix, IF y % 2 = 0 THEN 1 ELSE -1)
    BY <1>6 DEF Quarter0
  <2>2. (IF y % 2 = 0 THEN 1 ELSE -1) \in {1, -1}
    OBVIOUS
  <2> QED BY <1>1, <2>1, <2>2, Step16Keeps
<1>7. CASE z \in {4, 5}
  <2>1. \A dec : Keeps(m, Step8(n, y, ix, dec))
    BY Step8Keeps
  <2>2. r = Step8(n, y, ix, z = 5)
    BY <1>7 DEF Quarter0
  <2> HIDE DEF r
  <2>3. Keeps(m, Step8(n, y, ix, z = 5))
    BY <2>1, Zenon
  <2> QED BY <2>2, <2>3, Zenon DEF r
<1>8. CASE z = 6
  <2>1. r = LoadImmediate(n, y, ix)
    BY <1>8 DEF Quarter0
  <2> QED BY <2>1, LoadImmediateKeeps
<1>9. CASE z = 7
  <2>1. r = OnAccumulator(n, y)
    BY <1>9 DEF Quarter0
  <2> QED BY <2>1, OnAccumulatorKeeps
<1> QED BY <1>1, <1>2, <1>3, <1>4, <1>5, <1>6, <1>7, <1>8, <1>9

\* The four ways to change the control part.
Enabled(m, on) == [m EXCEPT !.IFF1 = on, !.IFF2 = on, !.int_lock = TRUE]
Prefixed(m, k) == [m EXCEPT !.int_lock = TRUE, !.modifier = k]
Halting(m) == [m EXCEPT !.halted = TRUE]
Restored(m) == [m EXCEPT !.IFF1 = m.IFF2]

LEMMA EnableKeeps ==
  ASSUME NEW m \in Machine, NEW n, Keeps(m, n), NEW on \in BOOLEAN
  PROVE  Keeps(Enabled(m, on), Enable(n, on))
<1>1. TRUE \in BOOLEAN
  OBVIOUS
<1>2. Enabled(n, on) \in Machine
  BY <1>1, Zenon DEF Keeps, Enabled, Machine
<1>3. SameControl(Enabled(m, on), Enabled(n, on))
  BY DEF Keeps, SameControl, Enabled, Machine
<1>4. Keeps(Enabled(m, on), Enabled(n, on))
  BY <1>2, <1>3 DEF Keeps
<1>5. Keeps(Enabled(m, on), Spend(Enabled(n, on), 4))
  BY <1>4, SpendKeeps
<1> QED BY <1>5 DEF Enable, Enabled

LEMMA PrefixKeeps ==
  ASSUME NEW m \in Machine, NEW n, Keeps(m, n), NEW k \in {1, 2}
  PROVE  Keeps(Prefixed(m, k), Spend(Prefixed(n, k), 4))
<1>1. TRUE \in BOOLEAN /\ k \in 0 .. 2
  OBVIOUS
<1>2. Prefixed(n, k) \in Machine
  BY <1>1, Zenon DEF Keeps, Prefixed, Machine
<1>3. SameControl(Prefixed(m, k), Prefixed(n, k))
  BY DEF Keeps, SameControl, Prefixed, Machine
<1>4. Keeps(Prefixed(m, k), Prefixed(n, k))
  BY <1>2, <1>3 DEF Keeps
<1> QED BY <1>4, SpendKeeps

LEMMA HaltKeeps ==
  ASSUME NEW m \in Machine, NEW n, Keeps(m, n)
  PROVE  Keeps(Halting(m), Spend(Halting(n), 4))
<1>1. TRUE \in BOOLEAN
  OBVIOUS
<1>2. Halting(n) \in Machine
  BY <1>1, Zenon DEF Keeps, Halting, Machine
<1>3. SameControl(Halting(m), Halting(n))
  BY DEF Keeps, SameControl, Halting, Machine
<1>4. Keeps(Halting(m), Halting(n))
  BY <1>2, <1>3 DEF Keeps
<1> QED BY <1>4, SpendKeeps

LEMMA RetnKeeps ==
  ASSUME NEW m \in Machine, NEW n, Keeps(m, n)
  PROVE  Keeps(Restored(m), Spend([ReturnW(n) EXCEPT !.IFF1 = n.IFF2], 14))
<1> DEFINE k == ReturnW(n)
<1>1. Keeps(m, k)
  BY ReturnKeeps
<1> HIDE DEF k
<1>2. n.IFF2 = m.IFF2 /\ m.IFF2 \in BOOLEAN
  BY DEF Keeps, SameControl, Machine
<1>3. [k EXCEPT !.IFF1 = m.IFF2] \in Machine
  BY <1>1, <1>2, Zenon DEF Keeps, Machine
<1>4. SameControl(Restored(m), [k EXCEPT !.IFF1 = m.IFF2])
  BY <1>1 DEF Keeps, SameControl, Restored, Machine
<1>5. Keeps(Restored(m), [k EXCEPT !.IFF1 = n.IFF2])
  BY <1>2, <1>3, <1>4 DEF Keeps
<1> QED BY <1>5, SpendKeeps DEF k

LEMMA Quarter3Keeps ==
  ASSUME NEW m \in Machine, NEW n, Keeps(m, n),
         NEW y \in 0 .. 7, NEW z \in 0 .. 7, NEW ix \in Index,
         ~(z = 3 /\ y = 1), ~(z = 5 /\ y = 5)
  PROVE  /\ z = 3 /\ y = 6 => Keeps(Enabled(m, FALSE), Quarter3(n, y, z, ix))
         /\ z = 3 /\ y = 7 => Keeps(Enabled(m, TRUE), Quarter3(n, y, z, ix))
         /\ z = 5 /\ y = 3 => Keeps(Prefixed(m, 1), Quarter3(n, y, z, ix))
         /\ z = 5 /\ y = 7 => Keeps(Prefixed(m, 2), Quarter3(n, y, z, ix))
         /\ ~(z = 3 /\ y \in {6, 7}) /\ ~(z = 5 /\ y \in {3, 7}) =>
              Keeps(m, Quarter3(n, y, z, ix))
<1> DEFINE r == Quarter3(n, y, z, ix)
<1>1. y \div 2 \in 0 .. 3 /\ y % 2 \in {0, 1} /\ y \in {0, 1, 2, 3, 4, 5, 6, 7}
  BY HalfCode
<1>0. y % 2 = 0 \/ y \in {1, 3, 5, 7}
  BY <1>1
<1>2. ix \in Pairs /\ "SP" \in Pairs
  BY DEF Index, Pairs
<1>3. n.rp[ix] \in Word /\ n.rp[ix] \in Int
  BY <1>2, PairType
<1>4. CASE z = 0
  <2>1. r = RetIf(n, Holds(y, n.F))
    BY <1>4 DEF Quarter3
  <2>2. Keeps(m, RetIf(n, Holds(y, n.F)))
    BY JumpKeeps, Zenon
  <2> HIDE DEF r
  <2>3. Keeps(m, r)
    BY <2>1, <2>2, Zenon
  <2> QED BY <1>4, <2>3 DEF r
<1>5. CASE z = 1
  <2>1. CASE y % 2 = 0
    <3>1. r = PopPair(n, y \div 2, ix)
      BY <1>5, <2>1 DEF Quarter3
    <3>2. Keeps(m, r)
      BY <1>1, <3>1, StackPairKeeps
    <3> QED BY <1>5, <3>2
  <2>2. CASE y = 1
    <3>1. r = Spend(ReturnW(n), 10)
      BY <1>5, <2>2 DEF Quarter3
    <3>2. Keeps(m, r)
      BY <3>1, ReturnKeeps, SpendKeeps
    <3> QED BY <1>5, <3>2
  <2>3. CASE y = 3
    <3>1. r = Exx(n)
      BY <1>5, <2>3 DEF Quarter3
    <3>2. Keeps(m, r)
      BY <3>1, ExchangeKeeps
    <3> QED BY <1>5, <3>2
  <2>4. CASE y = 5
    <3>1. r = Spend(Goto(n, n.rp[ix]), 4)
      BY <1>5, <2>4 DEF Quarter3
    <3>2. Keeps(m, Goto(n, n.rp[ix]))
      BY <1>3, GotoKeeps
    <3>3. Keeps(m, Spend(Goto(n, n.rp[ix]), 4))
      BY <3>2, SpendKeeps
    <3> QED BY <1>5, <3>1, <3>3
  <2>5. CASE y = 7
    <3>1. r = Spend(SetPair(n, "SP", n.rp[ix]), 6)
      BY <1>5, <2>5 DEF Quarter3
    <3>2. Keeps(m, SetPair(n, "SP", n.rp[ix]))
      BY <1>2, <1>3, SetPairKeeps
    <3>3. Keeps(m, r)
      BY <3>1, <3>2, SpendKeeps
    <3> QED BY <1>5, <3>3
  <2> QED BY <1>0, <2>1, <2>2, <2>3, <2>4, <2>5
<1>6. CASE z = 2
  <2>1. r = Jp(n, Holds(y, n.F))
    BY <1>6 DEF Quarter3
  <2>2. Keeps(m, Jp(n, Holds(y, n.F)))
    BY JumpKeeps, Zenon
  <2> HIDE DEF r
  <2>3. Keeps(m, r)
    BY <2>1, <2>2, Zenon
  <2> QED BY <1>6, <2>3 DEF r
<1>7. CASE z = 3
  <2>1. CASE y = 0
    <3>1. r = Jp(n, TRUE)
      BY <1>7, <2>1 DEF Quarter3
    <3>2. Keeps(m, Jp(n, TRUE))
      BY JumpKeeps, Zenon
    <3> HIDE DEF r
    <3>3. Keeps(m, r)
      BY <3>1, <3>2, Zenon
    <3> QED BY <1>7, <2>1, <3>3 DEF r
  <2>2. CASE y = 1
    BY <1>7, <2>2
  <2>3. CASE y = 2
    <3>1. r = OutN(n)
      BY <1>7, <2>3 DEF Quarter3
    <3>2. Keeps(m, r)
      BY <3>1, PortKeeps
    <3> QED BY <1>7, <2>3, <3>2
  <2>4. CASE y = 3
    <3>1. r = InN(n)
      BY <1>7, <2>4 DEF Quarter3
    <3>2. Keeps(m, r)
      BY <3>1, PortKeeps
    <3> QED BY <1>7, <2>4, <3>2
  <2>5. CASE y = 4
    <3>1. r = ExSp(n, ix)
      BY <1>7, <2>5 DEF Quarter3
    <3>2. Keeps(m, r)
      BY <3>1, ExchangeKeeps
    <3> QED BY <1>7, <2>5, <3>2
  <2>6. CASE y = 5
    <3>1. r = ExDeHl(n)
      BY <1>7, <2>6 DEF Quarter3
    <3>2. Keeps(m, r)
      BY <3>1, ExchangeKeeps
    <3> QED BY <1>7, <2>6, <3>2
  <2>7. CASE y \in {6, 7}
    <3>3. Keeps(Enabled(m, FALSE), Enable(n, FALSE)) /\ Keeps(Enabled(m, TRUE), Enable(n, TRUE))
      BY EnableKeeps, Zenon
    <3> HIDE DEF r
    <3>1. r = Enable(n, y = 7)
      BY <1>7, <2>7 DEF Quarter3, r
    <3>4. y = 6 => r = Enable(n, FALSE)
      <4>1. y = 6 => (y = 7) = FALSE
        OBVIOUS
      <4> QED BY <3>1, <4>1, Zenon
    <3>5. y = 7 => r = Enable(n, TRUE)
      <4>1. y = 7 => (y = 7) = TRUE
        OBVIOUS
      <4> QED BY <3>1, <4>1, Zenon
    <3>6. y = 6 => Keeps(Enabled(m, FALSE), r)
      BY <3>3, <3>4, Zenon
    <3>7. y = 7 => Keeps(Enabled(m, TRUE), r)
      BY <3>3, <3>5, Zenon
    <3>8. z # 5
      BY <1>7
    <3> QED BY <1>7, <2>7, <3>6, <3>7, <3>8 DEF r
  <2> QED BY <1>1, <2>1, <2>2, <2>3, <2>4, <2>5, <2>6, <2>7
<1>8. CASE z = 4
  <2>1. r = CallIf(n, Holds(y, n.F))
    BY <1>8 DEF Quarter3
  <2>2. Keeps(m, CallIf(n, Holds(y, n.F)))
    BY JumpKeeps, Zenon
  <2> HIDE DEF r
  <2>3. Keeps(m, r)
    BY <2>1, <2>2, Zenon
  <2> QED BY <1>8, <2>3 DEF r
<1>9. CASE z = 5
  <2>1. CASE y % 2 = 0
    <3>1. r = PushPair(n, y \div 2, ix)
      <4>1. y \notin {1, 3, 5, 7}
        BY <2>1
      <4>2. z # 0 /\ z # 1 /\ z # 2 /\ z # 3 /\ z # 4 /\ z # 6 /\ z # 7 /\ z = 5
        BY <1>9
      <4> QED BY <2>1, <4>1, <4>2 DEF Quarter3
    <3>2. Keeps(m, r)
      BY <1>1, <3>1, StackPairKeeps
    <3> QED BY <1>9, <2>1, <3>2
  <2>2. CASE y = 1
    <3>1. r = CallIf(n, TRUE)
      BY <1>9, <2>2 DEF Quarter3
    <3>2. Keeps(m, CallIf(n, TRUE))
      BY JumpKeeps, Zenon
    <3> HIDE DEF r
    <3>3. Keeps(m, r)
      BY <3>1, <3>2, Zenon
    <3> QED BY <1>9, <2>2, <3>3 DEF r
  <2>3. CASE y = 3
    <3>1. r = Spend(Prefixed(n, 1), 4)
      BY <1>9, <2>3 DEF Quarter3, Prefixed
    <3>2. Keeps(Prefixed(m, 1), r)
      BY <3>1, PrefixKeeps
    <3> QED BY <1>9, <2>3, <3>2
  <2>4. CASE y = 7
    <3>1. r = Spend(Prefixed(n, 2), 4)
      BY <1>9, <2>4 DEF Quarter3, Prefixed
    <3>2. Keeps(Prefixed(m, 2), r)
      BY <3>1, PrefixKeeps
    <3> QED BY <1>9, <2>4, <3>2
  <2>5. CASE y = 5
    BY <1>9, <2>5
  <2> QED BY <1>0, <2>1, <2>2, <2>3, <2>4, <2>5
<1>10. CASE z = 6
  <2>1. r = AluImmediate(n, y)
    BY <1>10 DEF Quarter3
  <2>2. Keeps(m, r)
    BY <2>1, AluImmediateKeeps
  <2> QED BY <1>10, <2>2
<1>11. CASE z = 7
  <2>1. r = Spend(Call(n, 8 * y), 11)
    BY <1>11 DEF Quarter3
  <2>2. 8 * y \in Word
    BY WordIs
  <2>3. Keeps(m, r)
    BY <2>1, <2>2, CallKeeps, SpendKeeps
  <2> QED BY <1>11, <2>3
<1>12. z \in {0, 1, 2, 3, 4, 5, 6, 7}
  OBVIOUS
<1> QED BY <1>4, <1>5, <1>6, <1>7, <1>8, <1>9, <1>10, <1>11, <1>12

LEMMA MainKeeps ==
  ASSUME NEW m \in Machine, NEW n, Keeps(m, n), NEW op \in Byte, op # 203, op # 237,
         NEW ix \in Index
  PROVE  /\ op = 118 => Keeps(Halting(m), Main(n, op, ix))
         /\ op = 243 => Keeps(Enabled(m, FALSE), Main(n, op, ix))
         /\ op = 251 => Keeps(Enabled(m, TRUE), Main(n, op, ix))
         /\ op = 221 => Keeps(Prefixed(m, 1), Main(n, op, ix))
         /\ op = 253 => Keeps(Prefixed(m, 2), Main(n, op, ix))
         /\ op \notin {118, 243, 251, 221, 253} => Keeps(m, Main(n, op, ix))
<1> DEFINE x == op \div 64
           y == (op \div 8) % 8
           z == op % 8
           r == Main(n, op, ix)
<1>1. x \in {0, 1, 2, 3} /\ y \in 0 .. 7 /\ z \in 0 .. 7
  BY OpcodeParts
<1>2. op \in Int /\ 0 <= op /\ op <= 255
  BY ByteIs
<1>3. /\ op = 118 <=> x = 1 /\ y = 6 /\ z = 6
      /\ op = 203 <=> x = 3 /\ y = 1 /\ z = 3
      /\ op = 221 <=> x = 3 /\ y = 3 /\ z = 5
      /\ op = 237 <=> x = 3 /\ y = 5 /\ z = 5
      /\ op = 243 <=> x = 3 /\ y = 6 /\ z = 3
      /\ op = 251 <=> x = 3 /\ y = 7 /\ z = 3
      /\ op = 253 <=> x = 3 /\ y = 7 /\ z = 5
  BY <1>2
<1>4. /\ x = 0 => r = Quarter0(n, y, z, ix)
      /\ op = 118 => r = Spend(Halting(n), 4)
      /\ x = 1 /\ op # 118 => r = Load(n, y, z, ix)
      /\ x = 2 => r = AluGet(n, y, z, ix)
      /\ x = 3 => r = Quarter3(n, y, z, ix)
  BY <1>3 DEF Main, Halting
<1> HIDE DEF x, y, z, r
<1>5. CASE x = 0
  <2>1. r = Quarter0(n, y, z, ix)
    BY <1>4, <1>5
  <2>2. Keeps(m, Quarter0(n, y, z, ix))
    BY <1>1, Quarter0Keeps
  <2>3. Keeps(m, r)
    BY <2>1, <2>2
  <2>4. op \notin {118, 243, 251, 221, 253}
    BY <1>3, <1>5
  <2> QED BY <2>3, <2>4 DEF r
<1>6. CASE op = 118
  <2>1. Keeps(Halting(m), Spend(Halting(n), 4))
    BY HaltKeeps
  <2>2. Keeps(Halting(m), r)
    BY <1>4, <1>6, <2>1
  <2> QED BY <1>6, <2>2 DEF r
<1>7. CASE x = 1 /\ op # 118
  <2>1. y # 6 \/ z # 6
    BY <1>3, <1>7
  <2>2. r = Load(n, y, z, ix)
    BY <1>4, <1>7
  <2>3. Keeps(m, Load(n, y, z, ix))
    BY <1>1, <2>1, LoadKeeps
  <2>4. Keeps(m, r)
    BY <2>2, <2>3
  <2>5. op \notin {118, 243, 251, 221, 253}
    BY <1>3, <1>7
  <2> QED BY <2>4, <2>5 DEF r
<1>8. CASE x = 2
  <2>1. r = AluGet(n, y, z, ix)
    BY <1>4, <1>8
  <2>2. Keeps(m, AluGet(n, y, z, ix))
    BY <1>1, AluGetKeeps
  <2>3. Keeps(m, r)
    BY <2>1, <2>2
  <2>4. op \notin {118, 243, 251, 221, 253}
    BY <1>3, <1>8
  <2> QED BY <2>3, <2>4 DEF r
<1>9. CASE x = 3
  <2> DEFINE q == Quarter3(n, y, z, ix)
  <2>1. ~(z = 3 /\ y = 1) /\ ~(z = 5 /\ y = 5)
    BY <1>3, <1>9
  <2>2. /\ z = 3 /\ y = 6 => Keeps(Enabled(m, FALSE), q)
        /\ z = 3 /\ y = 7 => Keeps(Enabled(m, TRUE), q)
        /\ z = 5 /\ y = 3 => Keeps(Prefixed(m, 1), q)
        /\ z = 5 /\ y = 7 => Keeps(Prefixed(m, 2), q)
        /\ ~(z = 3 /\ y \in {6, 7}) /\ ~(z = 5 /\ y \in {3, 7}) => Keeps(m, q)
    BY <1>1, <2>1, Quarter3Keeps, Zenon
  <2>3. r = q
    BY <1>4, <1>9
  <2> HIDE DEF q
  <2>4. op # 118
    BY <1>3, <1>9
  <2>5. op = 243 => Keeps(Enabled(m, FALSE), r)
    BY <1>3, <2>2, <2>3
  <2>6. op = 251 => Keeps(Enabled(m, TRUE), r)
    BY <1>3, <2>2, <2>3
  <2>7. op = 221 => Keeps(Prefixed(m, 1), r)
    BY <1>3, <2>2, <2>3
  <2>8. op = 253 => Keeps(Prefixed(m, 2), r)
    BY <1>3, <2>2, <2>3
  <2>9. op \notin {118, 243, 251, 221, 253} => Keeps(m, r)
    BY <1>3, <1>9, <2>2, <2>3
  <2> QED BY <2>4, <2>5, <2>6, <2>7, <2>8, <2>9 DEF r
<1> QED BY <1>1, <1>5, <1>6, <1>7, <1>8, <1>9

LEMMA ChangedType ==
  ASSUME NEW m, NEW n, Keeps(m, n), NEW x \in {0, 2, 3}, NEW y \in 0 .. 7, NEW v \in Byte
  PROVE  Changed(n, x, y, v) \in Byte
<1>1. Rotate(y, v, n.F).v \in Byte
  BY FieldTypes, RotateType DEF Gives8
<1>2. Res8(y, v) \in Byte /\ Set8(y, v) \in Byte
  BY NumType DEF Res8, Set8
<1> QED BY <1>1, <1>2 DEF Changed

LEMMA WithRotationKeeps ==
  ASSUME NEW m, NEW n, Keeps(m, n), NEW k, Keeps(m, k), NEW x, NEW y \in 0 .. 7,
         NEW v \in Byte
  PROVE  Keeps(m, WithRotation(k, n, x, y, v))
<1>1. Rotate(y, v, n.F).F \in Flags
  BY FieldTypes, RotateType DEF Gives8
<1>2. Keeps(m, SetF(k, Rotate(y, v, n.F).F))
  BY <1>1, SetFlags
<1> QED BY <1>2 DEF WithRotation

LEMMA BitGroupKeeps ==
  ASSUME NEW m, NEW n, Keeps(m, n), NEW op \in Byte
  PROVE  Keeps(m, BitGroup(n, op))
<1> DEFINE x == op \div 64
           y == (op \div 8) % 8
           z == op % 8
           v == Get(n, z, "HL")
           F == BitTest(y, v, IF z = 6 THEN n.W ELSE v, n.F)
           k == Put(n, z, "HL", Changed(n, x, y, v))
<1>1. x \in {0, 1, 2, 3} /\ y \in 0 .. 7 /\ z \in 0 .. 7
  BY OpcodeParts
<1>2. "HL" \in Index
  BY DEF Index
<1> HIDE DEF x, y, z
<1>3. v \in Byte
  BY <1>1, <1>2, GetType
<1> HIDE DEF v
<1>4. F \in Flags
  BY FieldTypes, FlagsType
<1>5. x # 1 => Keeps(m, k)
  BY <1>1, <1>2, <1>3, ChangedType, PutKeeps
<1> HIDE DEF F, k
<1>6. x = 1 => Keeps(m, Spend(SetF(n, F), IF z = 6 THEN 12 ELSE 8))
  BY <1>4, SetFlags, SpendKeeps
<1>7. x # 1 => Keeps(m, Spend(WithRotation(k, n, x, y, v), IF z = 6 THEN 15 ELSE 8))
  BY <1>1, <1>3, <1>5, WithRotationKeeps, SpendKeeps
<1> QED BY <1>6, <1>7 DEF BitGroup, x, y, z, v, F, k

LEMMA IndexedBitsKeeps ==
  ASSUME NEW m, NEW n, Keeps(m, n), NEW op \in Byte, NEW ix \in Index, NEW dsp \in Byte
  PROVE  Keeps(m, IndexedBits(n, op, ix, dsp))
<1> DEFINE x == op \div 64
           y == (op \div 8) % 8
           z == op % 8
           a == To16(n.rp[ix] + Signed8(dsp))
           v == Read(n, a)
           w == [n EXCEPT !.W = Hi(a)]
           res == Changed(n, x, y, v)
           stored == Write(w, a, res)
           F == BitTest(y, v, Hi(a), n.F)
           k == IF z = 6 THEN stored ELSE SetReg(stored, z, "HL", res)
<1>1. x \in {0, 1, 2, 3} /\ y \in 0 .. 7 /\ z \in 0 .. 7
  BY OpcodeParts
<1>2. "HL" \in Index /\ ix \in Pairs
  BY DEF Index, Pairs
<1> HIDE DEF x, y, z
<1>3. Hi(a) \in Byte
  <2>1. n.rp[ix] + Signed8(dsp) \in Int
    BY <1>2, PairType, SignedType
  <2> QED BY <2>1, HalvesType
<1> HIDE DEF a
<1>4. v \in Byte
  BY ReadType
<1> HIDE DEF v
<1>5. Keeps(m, w)
  BY <1>3, SetByte
<1>6. F \in Flags
  BY FieldTypes, FlagsType
<1> HIDE DEF w, F
<1>7. x # 1 => res \in Byte
  BY <1>1, <1>4, ChangedType
<1> HIDE DEF res
<1>8. x # 1 => Keeps(m, stored)
  BY <1>5, <1>7, WriteKeeps
<1> HIDE DEF stored
<1>9. x # 1 => Keeps(m, k)
  BY <1>1, <1>2, <1>7, <1>8, SetRegKeeps
<1> HIDE DEF k
<1>10. Keeps(m, Spend(SetF(w, F), 16))
  BY <1>5, <1>6, SetFlags, SpendKeeps
<1>11. x # 1 => Keeps(m, Spend(WithRotation(k, n, x, y, v), 19))
  BY <1>1, <1>4, <1>9, WithRotationKeeps, SpendKeeps
<1> QED BY <1>10, <1>11 DEF IndexedBits, x, y, z, a, v, w, res, stored, F, k

LEMMA SpecialKeeps ==
  ASSUME NEW m, NEW n, Keeps(m, n), NEW y \in 0 .. 7
  PROVE  Keeps(m, Special(n, y))
<1>1. n.A \in Byte /\ n.I \in Byte /\ n.R \in Byte /\ n.F \in Flags
  BY FieldTypes
<1>2. CASE y = 0
  <2>1. Keeps(m, [n EXCEPT !.I = n.A])
    BY <1>1, SetByte
  <2>2. Keeps(m, Spend([n EXCEPT !.I = n.A], 9))
    BY <2>1, SpendKeeps
  <2> QED BY <1>2, <2>2 DEF Special
<1>3. CASE y = 1
  <2>1. Keeps(m, [n EXCEPT !.R = n.A])
    BY <1>1, SetByte
  <2>2. Keeps(m, Spend([n EXCEPT !.R = n.A], 9))
    BY <2>1, SpendKeeps
  <2> QED BY <1>3, <2>2 DEF Special
<1>4. CASE y \in {2, 3}
  <2> DEFINE v == IF y = 2 THEN n.I ELSE n.R
             F == LoadFlags(v, n.IFF2, n.F)
  <2>1. v \in Byte
    BY <1>1
  <2>2. F \in Flags
    BY <1>1, FlagsType
  <2> HIDE DEF v, F
  <2>3. Keeps(m, [n EXCEPT !.A = v])
    BY <2>1, SetByte
  <2>4. Keeps(m, Spend(SetF([n EXCEPT !.A = v], F), 9))
    BY <2>2, <2>3, SetFlags, SpendKeeps
  <2> QED BY <1>4, <2>4 DEF Special, v, F
<1>5. CASE y \in {4, 5}
  <2>1. \A toLeft : Keeps(m, Digits(n, toLeft))
    BY DigitsKeeps
  <2>2. Keeps(m, Digits(n, y = 5))
    BY <2>1, Zenon
  <2>3. Special(n, y) = Digits(n, y = 5)
    BY <1>5 DEF Special
  <2> QED BY <2>2, <2>3, Zenon
<1>6. CASE y \in {6, 7}
  <2>1. Special(n, y) = Spend(n, 8)
    BY <1>6 DEF Special
  <2> QED BY <2>1, SpendKeeps
<1> QED BY <1>2, <1>3, <1>4, <1>5, <1>6

LEMMA LoadPairKeeps ==
  ASSUME NEW m, NEW n, Keeps(m, n), NEW p \in 0 .. 3, NEW store
  PROVE  Keeps(m, LoadPair(n, p, store))
<1> DEFINE nn == Next16(n)
           pair == PairCode(p, "HL")
<1>1. "HL" \in Index
  BY DEF Index
<1>2. pair \in Pairs /\ n.rp[pair] \in Word
  BY <1>1, PairCodeType, PairType
<1>3. Keeps(m, Skip(n, 2))
  BY SkipKeeps
<1>4. Read16(n, nn) \in Int
  BY Read16Type, WordIs
<1> HIDE DEF nn, pair
<1>5. Keeps(m, LoadIndirect(n, 4, "HL"))
  BY <1>1, LoadIndirectKeeps
<1>6. Keeps(m, Spend(Write16(Skip(n, 2), nn, n.rp[pair]), 20))
  BY <1>2, <1>3, Write16Keeps, SpendKeeps
<1>7. Keeps(m, Spend(SetPair(Skip(n, 2), pair, Read16(n, nn)), 20))
  BY <1>2, <1>3, <1>4, SetPairKeeps, SpendKeeps
<1> QED BY <1>5, <1>6, <1>7 DEF LoadPair, nn, pair

LEMMA ExtendedKeeps ==
  ASSUME NEW m \in Machine, NEW n, Keeps(m, n), NEW op \in Byte
  PROVE  /\ op \div 64 = 1 /\ op % 8 = 5 => Keeps(Restored(m), Extended(n, op))
         /\ ~(op \div 64 = 1 /\ op % 8 = 5) => Keeps(m, Extended(n, op))
<1> DEFINE x == op \div 64
           y == (op \div 8) % 8
           z == op % 8
           r == Extended(n, op)
<1>1. x \in {0, 1, 2, 3} /\ y \in 0 .. 7 /\ z \in 0 .. 7 /\ z \in {0, 1, 2, 3, 4, 5, 6, 7}
  BY OpcodeParts
<1>2. /\ x = 1 /\ z = 0 => r = InC(n, y)
      /\ x = 1 /\ z = 1 => r = OutC(n, y)
      /\ x = 1 /\ z = 2 => r = Carry16Pair(n, y \div 2, y % 2 = 1)
      /\ x = 1 /\ z = 3 => r = LoadPair(n, y \div 2, y % 2 = 0)
      /\ x = 1 /\ z = 4 => r = Spend(Accumulate(n, Neg(n.A)), 8)
      /\ x = 1 /\ z = 5 => r = Spend([ReturnW(n) EXCEPT !.IFF1 = n.IFF2], 14)
      /\ x = 1 /\ z = 6 => r = Spend([n EXCEPT !.int_mode = <<0, 0, 1, 2>>[(y % 4) + 1]], 8)
      /\ x = 1 /\ z = 7 => r = Special(n, y)
      /\ x = 2 /\ y > 3 /\ z < 4 => r = Block(n, y, z)
      /\ x # 1 /\ ~(x = 2 /\ y > 3 /\ z < 4) => r = Spend(n, 8)
  BY DEF Extended
<1> HIDE DEF x, y, z, r
<1>3. y \div 2 \in 0 .. 3
  BY <1>1, HalfCode
<1>4. x = 1 /\ z = 0 => Keeps(m, r)
  BY <1>1, <1>2, PortKeeps
<1>5. x = 1 /\ z = 1 => Keeps(m, r)
  BY <1>1, <1>2, PortKeeps
<1>6. x = 1 /\ z = 2 => Keeps(m, r)
  <2>1. "HL" \in Index
    BY DEF Index
  <2>2. \A add : Keeps(m, Carry16Pair(n, y \div 2, add))
    BY <1>3, <2>1, Add16PairKeeps
  <2> QED BY <1>2, <2>2, Zenon
<1>7. x = 1 /\ z = 3 => Keeps(m, r)
  <2>1. \A store : Keeps(m, LoadPair(n, y \div 2, store))
    BY <1>3, LoadPairKeeps
  <2> QED BY <1>2, <2>1, Zenon
<1>8. x = 1 /\ z = 4 => Keeps(m, r)
  <2>1. Gives8(Neg(n.A))
    BY FieldTypes, CpType
  <2>2. Keeps(m, Spend(Accumulate(n, Neg(n.A)), 8))
    BY <2>1, AccumulateKeeps, SpendKeeps
  <2> QED BY <1>2, <2>2
<1>9. x = 1 /\ z = 5 => Keeps(Restored(m), r)
  BY <1>2, RetnKeeps
<1>10. x = 1 /\ z = 6 => Keeps(m, r)
  <2> DEFINE im == <<0, 0, 1, 2>>[(y % 4) + 1]
  <2>1. y % 4 \in {0, 1, 2, 3}
    BY <1>1
  <2>2. im \in 0 .. 2
    BY <2>1
  <2> HIDE DEF im
  <2>3. [n EXCEPT !.int_mode = im] \in Machine
    BY <2>2 DEF Keeps, Machine
  <2>4. SameControl(m, [n EXCEPT !.int_mode = im])
    BY DEF Keeps, SameControl, Machine
  <2>5. Keeps(m, Spend([n EXCEPT !.int_mode = im], 8))
    BY <2>3, <2>4, SpendKeeps DEF Keeps
  <2> QED BY <1>2, <2>5 DEF im
<1>11. x = 1 /\ z = 7 => Keeps(m, r)
  BY <1>1, <1>2, SpecialKeeps
<1>12. x = 2 /\ y > 3 /\ z < 4 => Keeps(m, r)
  <2>1. z < 4 => z \in 0 .. 3
    BY <1>1
  <2> QED BY <1>1, <1>2, <2>1, BlockKeeps
<1>13. x # 1 /\ ~(x = 2 /\ y > 3 /\ z < 4) => Keeps(m, r)
  BY <1>2, SpendKeeps
<1>14. x = 1 /\ z # 5 => Keeps(m, r)
  BY <1>1, <1>4, <1>5, <1>6, <1>7, <1>8, <1>10, <1>11
<1>15. ~(x = 1 /\ z = 5) => Keeps(m, r)
  BY <1>12, <1>13, <1>14
<1> QED BY <1>9, <1>15 DEF x, z, r

-----------------------------------------------------------------------------
(***************************************************************************)
(* What Z80Control sees of a machine.                                       *)
(***************************************************************************)
Fields(a, b, c, d, e, f, g) ==
  [iff1 |-> a, iff2 |-> b, lock |-> c, modifier |-> d,
   halted |-> e, int |-> f, nmi |-> g]

Seen(m) ==
  Fields(m.IFF1, m.IFF2, m.int_lock, m.modifier, m.halted, m.int_pending, m.nmi_pending)

Kind(op, g) ==
  CASE op = 221 -> "dd"
    [] op = 253 -> "fd"
    [] g = "op" /\ op = 251 -> "ei"
    [] g = "op" /\ op = 243 -> "di"
    [] g = "op" /\ op = 118 -> "halt"
    [] g = "ed" /\ op \div 64 = 1 /\ op % 8 = 5 -> "retn"
    [] OTHER -> "op"

LEMMA KindCases ==
  ASSUME NEW op, NEW g
  PROVE  /\ op = 221 => Kind(op, g) = "dd"
         /\ op = 253 => Kind(op, g) = "fd"
         /\ g = "op" /\ op = 251 => Kind(op, g) = "ei"
         /\ g = "op" /\ op = 243 => Kind(op, g) = "di"
         /\ g = "op" /\ op = 118 => Kind(op, g) = "halt"
         /\ g = "op" /\ op \notin {118, 243, 251, 221, 253} => Kind(op, g) = "op"
         /\ g = "cb" /\ op \notin {221, 253} => Kind(op, g) = "op"
         /\ g = "ed" /\ op \notin {221, 253} =>
              Kind(op, g) = IF op \div 64 = 1 /\ op % 8 = 5 THEN "retn" ELSE "op"
  BY DEF Kind

LEMMA SeenSame ==
  ASSUME NEW m, NEW n, Keeps(m, n)
  PROVE  Seen(n) = Seen(m) /\ n.opcode = m.opcode /\ n.group = m.group /\ n \in Machine
  BY DEF Keeps, SameControl, Seen

\* The control part after each change, whatever its fields are.
LEMMA ExceptIff1 ==
  ASSUME NEW a, NEW b, NEW c, NEW d, NEW e, NEW f, NEW g, NEW x
  PROVE  [Fields(a, b, c, d, e, f, g) EXCEPT !.iff1 = x] =
           Fields(x, b, c, d, e, f, g)
  BY DEF Fields

LEMMA ExceptHalted ==
  ASSUME NEW a, NEW b, NEW c, NEW d, NEW e, NEW f, NEW g, NEW x
  PROVE  [Fields(a, b, c, d, e, f, g) EXCEPT !.halted = x] =
           Fields(a, b, c, d, x, f, g)
  BY DEF Fields

LEMMA ExceptModifier ==
  ASSUME NEW a, NEW b, NEW c, NEW d, NEW e, NEW f, NEW g, NEW x
  PROVE  [Fields(a, b, c, d, e, f, g) EXCEPT !.modifier = x] =
           Fields(a, b, c, x, e, f, g)
  BY DEF Fields

LEMMA ExceptLock ==
  ASSUME NEW a, NEW b, NEW c, NEW d, NEW e, NEW f, NEW g, NEW x
  PROVE  [Fields(a, b, c, d, e, f, g) EXCEPT !.lock = x] =
           Fields(a, b, x, d, e, f, g)
  BY DEF Fields

LEMMA ExceptNmi ==
  ASSUME NEW a, NEW b, NEW c, NEW d, NEW e, NEW f, NEW g, NEW x
  PROVE  [Fields(a, b, c, d, e, f, g) EXCEPT !.nmi = x] =
           Fields(a, b, c, d, e, f, x)
  BY DEF Fields

LEMMA ExceptInt ==
  ASSUME NEW a, NEW b, NEW c, NEW d, NEW e, NEW f, NEW g, NEW x
  PROVE  [Fields(a, b, c, d, e, f, g) EXCEPT !.int = x] =
           Fields(a, b, c, d, e, x, g)
  BY DEF Fields

LEMMA SeenIff1 ==
  ASSUME NEW m, NEW x
  PROVE  [Seen(m) EXCEPT !.iff1 = x] =
           Fields(x, m.IFF2, m.int_lock, m.modifier, m.halted, m.int_pending, m.nmi_pending)
<1> DEFINE a == m.IFF1  b == m.IFF2  c == m.int_lock  d == m.modifier
           e == m.halted  f == m.int_pending  g == m.nmi_pending
<1>1. Seen(m) = Fields(a, b, c, d, e, f, g)
  BY DEF Seen
<1> HIDE DEF a, b, c, d, e, f, g
<1>2. [Seen(m) EXCEPT !.iff1 = x] = Fields(x, b, c, d, e, f, g)
  BY <1>1, ExceptIff1
<1> QED BY <1>2 DEF a, b, c, d, e, f, g

LEMMA SeenHalted ==
  ASSUME NEW m, NEW x
  PROVE  [Seen(m) EXCEPT !.halted = x] =
           Fields(m.IFF1, m.IFF2, m.int_lock, m.modifier, x, m.int_pending, m.nmi_pending)
<1> DEFINE a == m.IFF1  b == m.IFF2  c == m.int_lock  d == m.modifier
           e == m.halted  f == m.int_pending  g == m.nmi_pending
<1>1. Seen(m) = Fields(a, b, c, d, e, f, g)
  BY DEF Seen
<1> HIDE DEF a, b, c, d, e, f, g
<1>2. [Seen(m) EXCEPT !.halted = x] = Fields(a, b, c, d, x, f, g)
  BY <1>1, ExceptHalted
<1> QED BY <1>2 DEF a, b, c, d, e, f, g

LEMMA SeenModifier ==
  ASSUME NEW m, NEW x
  PROVE  [Seen(m) EXCEPT !.modifier = x] =
           Fields(m.IFF1, m.IFF2, m.int_lock, x, m.halted, m.int_pending, m.nmi_pending)
<1> DEFINE a == m.IFF1  b == m.IFF2  c == m.int_lock  d == m.modifier
           e == m.halted  f == m.int_pending  g == m.nmi_pending
<1>1. Seen(m) = Fields(a, b, c, d, e, f, g)
  BY DEF Seen
<1> HIDE DEF a, b, c, d, e, f, g
<1>2. [Seen(m) EXCEPT !.modifier = x] = Fields(a, b, c, x, e, f, g)
  BY <1>1, ExceptModifier
<1> QED BY <1>2 DEF a, b, c, d, e, f, g

LEMMA SeenLock ==
  ASSUME NEW m, NEW x
  PROVE  [Seen(m) EXCEPT !.lock = x] =
           Fields(m.IFF1, m.IFF2, x, m.modifier, m.halted, m.int_pending, m.nmi_pending)
<1> DEFINE a == m.IFF1  b == m.IFF2  c == m.int_lock  d == m.modifier
           e == m.halted  f == m.int_pending  g == m.nmi_pending
<1>1. Seen(m) = Fields(a, b, c, d, e, f, g)
  BY DEF Seen
<1> HIDE DEF a, b, c, d, e, f, g
<1>2. [Seen(m) EXCEPT !.lock = x] = Fields(a, b, x, d, e, f, g)
  BY <1>1, ExceptLock
<1> QED BY <1>2 DEF a, b, c, d, e, f, g

LEMMA SeenInt ==
  ASSUME NEW m, NEW x
  PROVE  [Seen(m) EXCEPT !.int = x] =
           Fields(m.IFF1, m.IFF2, m.int_lock, m.modifier, m.halted, x, m.nmi_pending)
<1> DEFINE a == m.IFF1  b == m.IFF2  c == m.int_lock  d == m.modifier
           e == m.halted  f == m.int_pending  g == m.nmi_pending
<1>1. Seen(m) = Fields(a, b, c, d, e, f, g)
  BY DEF Seen
<1> HIDE DEF a, b, c, d, e, f, g
<1>2. [Seen(m) EXCEPT !.int = x] = Fields(a, b, c, d, e, x, g)
  BY <1>1, ExceptInt
<1> QED BY <1>2 DEF a, b, c, d, e, f, g

LEMMA SeenOneNmi ==
  ASSUME NEW m, NEW x
  PROVE  [Seen(m) EXCEPT !.nmi = x] =
           Fields(m.IFF1, m.IFF2, m.int_lock, m.modifier, m.halted, m.int_pending, x)
<1> DEFINE a == m.IFF1  b == m.IFF2  c == m.int_lock  d == m.modifier
           e == m.halted  f == m.int_pending  g == m.nmi_pending
<1>1. Seen(m) = Fields(a, b, c, d, e, f, g)
  BY DEF Seen
<1> HIDE DEF a, b, c, d, e, f, g
<1>2. [Seen(m) EXCEPT !.nmi = x] = Fields(a, b, c, d, e, f, x)
  BY <1>1, ExceptNmi
<1> QED BY <1>2 DEF a, b, c, d, e, f, g

LEMMA SeenPrefix ==
  ASSUME NEW m, NEW x, NEW y
  PROVE  [Seen(m) EXCEPT !.lock = x, !.modifier = y] =
           Fields(m.IFF1, m.IFF2, x, y, m.halted, m.int_pending, m.nmi_pending)
<1> DEFINE a == m.IFF1  b == m.IFF2  c == m.int_lock  d == m.modifier
           e == m.halted  f == m.int_pending  g == m.nmi_pending
<1>1. Seen(m) = Fields(a, b, c, d, e, f, g)
  BY DEF Seen
<1> HIDE DEF a, b, c, d, e, f, g
<1>2. [Seen(m) EXCEPT !.lock = x, !.modifier = y] = Fields(a, b, x, y, e, f, g)
  <2>1. [Seen(m) EXCEPT !.lock = x] = Fields(a, b, x, d, e, f, g)
    BY <1>1, ExceptLock
  <2>2. [Fields(a, b, x, d, e, f, g) EXCEPT !.modifier = y] = Fields(a, b, x, y, e, f, g)
    BY DEF Fields
  <2> QED BY <2>1, <2>2
<1> QED BY <1>2 DEF a, b, c, d, e, f, g

LEMMA SeenEnable ==
  ASSUME NEW m, NEW x, NEW y, NEW z
  PROVE  [Seen(m) EXCEPT !.iff1 = x, !.iff2 = y, !.lock = z] =
           Fields(x, y, z, m.modifier, m.halted, m.int_pending, m.nmi_pending)
<1> DEFINE a == m.IFF1  b == m.IFF2  c == m.int_lock  d == m.modifier
           e == m.halted  f == m.int_pending  g == m.nmi_pending
<1>1. Seen(m) = Fields(a, b, c, d, e, f, g)
  BY DEF Seen
<1> HIDE DEF a, b, c, d, e, f, g
<1>2. [Seen(m) EXCEPT !.iff1 = x, !.iff2 = y, !.lock = z] = Fields(x, y, z, d, e, f, g)
  <2>1. [Seen(m) EXCEPT !.iff1 = x] = Fields(x, b, c, d, e, f, g)
    BY <1>1, ExceptIff1
  <2>2. [Fields(x, b, c, d, e, f, g) EXCEPT !.iff2 = y] = Fields(x, y, c, d, e, f, g)
    BY DEF Fields
  <2>3. [Fields(x, y, c, d, e, f, g) EXCEPT !.lock = z] = Fields(x, y, z, d, e, f, g)
    BY DEF Fields
  <2> QED BY <2>1, <2>2, <2>3
<1> QED BY <1>2 DEF a, b, c, d, e, f, g

LEMMA SeenNmi ==
  ASSUME NEW m, NEW x, NEW y, NEW z
  PROVE  [Seen(m) EXCEPT !.nmi = x, !.halted = y, !.iff1 = z] =
           Fields(z, m.IFF2, m.int_lock, m.modifier, y, m.int_pending, x)
<1> DEFINE a == m.IFF1  b == m.IFF2  c == m.int_lock  d == m.modifier
           e == m.halted  f == m.int_pending  g == m.nmi_pending
<1>1. Seen(m) = Fields(a, b, c, d, e, f, g)
  BY DEF Seen
<1> HIDE DEF a, b, c, d, e, f, g
<1>2. [Seen(m) EXCEPT !.nmi = x, !.halted = y, !.iff1 = z] = Fields(z, b, c, d, y, f, x)
  <2>1. [Seen(m) EXCEPT !.nmi = x] = Fields(a, b, c, d, e, f, x)
    BY <1>1, ExceptNmi
  <2>2. [Fields(a, b, c, d, e, f, x) EXCEPT !.halted = y] = Fields(a, b, c, d, y, f, x)
    BY DEF Fields
  <2>3. [Fields(a, b, c, d, y, f, x) EXCEPT !.iff1 = z] = Fields(z, b, c, d, y, f, x)
    BY DEF Fields
  <2> QED BY <2>1, <2>2, <2>3
<1> QED BY <1>2 DEF a, b, c, d, e, f, g

LEMMA SeenTaken ==
  ASSUME NEW m, NEW x
  PROVE  [Seen(m) EXCEPT !.int = x, !.halted = x, !.iff1 = x, !.iff2 = x] =
           Fields(x, x, m.int_lock, m.modifier, x, x, m.nmi_pending)
<1> DEFINE a == m.IFF1  b == m.IFF2  c == m.int_lock  d == m.modifier
           e == m.halted  f == m.int_pending  g == m.nmi_pending
<1>1. Seen(m) = Fields(a, b, c, d, e, f, g)
  BY DEF Seen
<1> HIDE DEF a, b, c, d, e, f, g
<1>2. [Seen(m) EXCEPT !.int = x, !.halted = x, !.iff1 = x, !.iff2 = x] = Fields(x, x, c, d, x, x, g)
  <2>1. [Seen(m) EXCEPT !.int = x] = Fields(a, b, c, d, e, x, g)
    BY <1>1, ExceptInt
  <2>2. [Fields(a, b, c, d, e, x, g) EXCEPT !.halted = x] = Fields(a, b, c, d, x, x, g)
    BY DEF Fields
  <2>3. [Fields(a, b, c, d, x, x, g) EXCEPT !.iff1 = x] = Fields(x, b, c, d, x, x, g)
    BY DEF Fields
  <2>4. [Fields(x, b, c, d, x, x, g) EXCEPT !.iff2 = x] = Fields(x, x, c, d, x, x, g)
    BY DEF Fields
  <2> QED BY <2>1, <2>2, <2>3, <2>4
<1> QED BY <1>2 DEF a, b, c, d, e, f, g

\* What a machine shows that keeps one of the four changes.
LEMMA SeenEnabled ==
  ASSUME NEW m \in Machine, NEW on \in BOOLEAN, NEW r, Keeps(Enabled(m, on), r)
  PROVE  /\ r \in Machine /\ r.opcode = m.opcode /\ r.group = m.group
         /\ Seen(r) = [Seen(m) EXCEPT !.iff1 = on, !.iff2 = on, !.lock = TRUE]
<1> DEFINE k == Enabled(m, on)
           rec == Fields(on, on, TRUE, m.modifier, m.halted, m.int_pending, m.nmi_pending)
<1>1. k.opcode = m.opcode /\ k.group = m.group
  BY DEF Enabled, Machine
<1>2. /\ k.IFF1 = on
      /\ k.IFF2 = on
      /\ k.int_lock = TRUE
      /\ k.modifier = m.modifier
      /\ k.halted = m.halted
      /\ k.int_pending = m.int_pending
      /\ k.nmi_pending = m.nmi_pending
  BY DEF Enabled, Machine
<1> HIDE DEF k
<1>3. Seen(k) = rec
  BY <1>2 DEF Seen
<1>4. [Seen(m) EXCEPT !.iff1 = on, !.iff2 = on, !.lock = TRUE] = rec
  <2> DEFINE t == TRUE
  <2> HIDE DEF t
  <2>1. [Seen(m) EXCEPT !.iff1 = on, !.iff2 = on, !.lock = t] =
          Fields(on, on, t, m.modifier, m.halted, m.int_pending, m.nmi_pending)
    BY SeenEnable, Zenon
  <2> QED BY <2>1 DEF t
<1>5. r \in Machine /\ Seen(r) = Seen(k) /\ r.opcode = k.opcode /\ r.group = k.group
  BY SeenSame DEF k
<1> HIDE DEF rec
<1> QED BY <1>1, <1>3, <1>4, <1>5, Zenon

LEMMA SeenPrefixed ==
  ASSUME NEW m \in Machine, NEW b \in {1, 2}, NEW r, Keeps(Prefixed(m, b), r)
  PROVE  /\ r \in Machine /\ r.opcode = m.opcode /\ r.group = m.group
         /\ Seen(r) = [Seen(m) EXCEPT !.lock = TRUE, !.modifier = b]
<1> DEFINE k == Prefixed(m, b)
           rec == Fields(m.IFF1, m.IFF2, TRUE, b, m.halted, m.int_pending, m.nmi_pending)
<1>1. k.opcode = m.opcode /\ k.group = m.group
  BY DEF Prefixed, Machine
<1>2. /\ k.IFF1 = m.IFF1
      /\ k.IFF2 = m.IFF2
      /\ k.int_lock = TRUE
      /\ k.modifier = b
      /\ k.halted = m.halted
      /\ k.int_pending = m.int_pending
      /\ k.nmi_pending = m.nmi_pending
  BY DEF Prefixed, Machine
<1> HIDE DEF k
<1>3. Seen(k) = rec
  BY <1>2 DEF Seen
<1>4. [Seen(m) EXCEPT !.lock = TRUE, !.modifier = b] = rec
  <2> DEFINE t == TRUE
  <2> HIDE DEF t
  <2>1. [Seen(m) EXCEPT !.lock = t, !.modifier = b] =
          Fields(m.IFF1, m.IFF2, t, b, m.halted, m.int_pending, m.nmi_pending)
    BY SeenPrefix, Zenon
  <2> QED BY <2>1 DEF t
<1>5. r \in Machine /\ Seen(r) = Seen(k) /\ r.opcode = k.opcode /\ r.group = k.group
  BY SeenSame DEF k
<1> HIDE DEF rec
<1> QED BY <1>1, <1>3, <1>4, <1>5, Zenon

LEMMA SeenHalting ==
  ASSUME NEW m \in Machine, NEW r, Keeps(Halting(m), r)
  PROVE  /\ r \in Machine /\ r.opcode = m.opcode /\ r.group = m.group
         /\ Seen(r) = [Seen(m) EXCEPT !.halted = TRUE]
<1> DEFINE k == Halting(m)
           rec == Fields(m.IFF1, m.IFF2, m.int_lock, m.modifier, TRUE, m.int_pending, m.nmi_pending)
<1>1. k.opcode = m.opcode /\ k.group = m.group
  BY DEF Halting, Machine
<1>2. /\ k.IFF1 = m.IFF1
      /\ k.IFF2 = m.IFF2
      /\ k.int_lock = m.int_lock
      /\ k.modifier = m.modifier
      /\ k.halted = TRUE
      /\ k.int_pending = m.int_pending
      /\ k.nmi_pending = m.nmi_pending
  BY DEF Halting, Machine
<1> HIDE DEF k
<1>3. Seen(k) = rec
  BY <1>2 DEF Seen
<1>4. [Seen(m) EXCEPT !.halted = TRUE] = rec
  <2> DEFINE t == TRUE
  <2> HIDE DEF t
  <2>1. [Seen(m) EXCEPT !.halted = t] =
          Fields(m.IFF1, m.IFF2, m.int_lock, m.modifier, t, m.int_pending, m.nmi_pending)
    BY SeenHalted, Zenon
  <2> QED BY <2>1 DEF t
<1>5. r \in Machine /\ Seen(r) = Seen(k) /\ r.opcode = k.opcode /\ r.group = k.group
  BY SeenSame DEF k
<1> HIDE DEF rec
<1> QED BY <1>1, <1>3, <1>4, <1>5, Zenon

LEMMA SeenRestored ==
  ASSUME NEW m \in Machine, NEW r, Keeps(Restored(m), r)
  PROVE  /\ r \in Machine /\ r.opcode = m.opcode /\ r.group = m.group
         /\ Seen(r) = [Seen(m) EXCEPT !.iff1 = m.IFF2]
<1> DEFINE k == Restored(m)
           rec == Fields(m.IFF2, m.IFF2, m.int_lock, m.modifier, m.halted, m.int_pending, m.nmi_pending)
<1>1. k.opcode = m.opcode /\ k.group = m.group
  BY DEF Restored, Machine
<1>2. /\ k.IFF1 = m.IFF2
      /\ k.IFF2 = m.IFF2
      /\ k.int_lock = m.int_lock
      /\ k.modifier = m.modifier
      /\ k.halted = m.halted
      /\ k.int_pending = m.int_pending
      /\ k.nmi_pending = m.nmi_pending
  BY DEF Restored, Machine
<1> HIDE DEF k
<1>3. Seen(k) = rec
  BY <1>2 DEF Seen
<1>4. [Seen(m) EXCEPT !.iff1 = m.IFF2] = rec
  BY SeenIff1, Zenon
<1>5. r \in Machine /\ Seen(r) = Seen(k) /\ r.opcode = k.opcode /\ r.group = k.group
  BY SeenSame DEF k
<1> HIDE DEF rec
<1> QED BY <1>1, <1>3, <1>4, <1>5, Zenon

\* The end of z80_execinstr(), behind an instruction that has led to done.
LEMMA ModifierEnds ==
  ASSUME NEW done \in Machine, NEW op \in Byte, NEW g \in {"op", "cb", "ed"}
  PROVE  LET r == [IncrR(done, 1) EXCEPT !.modifier = IF op \in {221, 253} THEN @ ELSE 0]
         IN  /\ r \in Machine
             /\ Seen(r) = Control!TurnOffModifier(Seen(done), Kind(op, g))
             /\ r.opcode = done.opcode /\ r.group = done.group
<1> DEFINE k == IncrR(done, 1)
           x == IF op \in {221, 253} THEN k.modifier ELSE 0
           r == [k EXCEPT !.modifier = x]
<1>1. Keeps(done, k)
  BY KeepsItself, IncrRKeeps
<1>2. k \in Machine /\ Seen(k) = Seen(done) /\ k.opcode = done.opcode /\ k.group = done.group
  BY <1>1, SeenSame
<1> HIDE DEF k
<1>3. k.modifier \in 0 .. 2
  BY <1>2 DEF Machine
<1>4. x \in 0 .. 2
  BY <1>3
<1>5. op \in {221, 253} => x = k.modifier
  OBVIOUS
<1>6. op \notin {221, 253} => x = 0
  OBVIOUS
<1> HIDE DEF x
<1>7. r \in Machine
  BY <1>2, <1>4 DEF Machine
<1>8. Seen(r) = [Seen(k) EXCEPT !.modifier = x]
  <2>1. Seen(r) = Fields(k.IFF1, k.IFF2, k.int_lock, x, k.halted, k.int_pending, k.nmi_pending)
    BY <1>2 DEF Seen, Machine
  <2> QED BY <2>1, SeenModifier, Zenon
<1>9. r.opcode = k.opcode /\ r.group = k.group
  BY <1>2 DEF Machine
<1>10. x = k.modifier => [Seen(k) EXCEPT !.modifier = x] = Seen(k)
  BY SeenModifier, Zenon DEF Seen
<1>11. Kind(op, g) \in {"dd", "fd"} <=> op \in {221, 253}
  BY DEF Kind
<1>12. Seen(r) = Control!TurnOffModifier(Seen(k), Kind(op, g))
  BY <1>5, <1>6, <1>8, <1>10, <1>11 DEF Control!TurnOffModifier
<1> QED BY <1>2, <1>7, <1>9, <1>12 DEF x, k

\* z80_readinstr(): the machine with its opcode, and the operand's register.
Fetched(m, op, g) == [m EXCEPT !.opcode = op, !.group = g]

LEMMA FetchedKeeps ==
  ASSUME NEW m \in Machine, NEW n, Keeps(m, n), NEW op \in Byte, NEW g \in {"op", "cb", "ed"}
  PROVE  /\ Keeps(Fetched(m, op, g), Fetched(n, op, g))
         /\ Fetched(m, op, g) \in Machine
         /\ Seen(Fetched(m, op, g)) = Seen(m)
         /\ Fetched(m, op, g).opcode = op /\ Fetched(m, op, g).group = g
         /\ Fetched(m, op, g).IFF2 = m.IFF2
<1>1. Fetched(n, op, g) \in Machine /\ Fetched(m, op, g) \in Machine
  BY DEF Keeps, Fetched, Machine
<1>2. SameControl(Fetched(m, op, g), Fetched(n, op, g))
  BY DEF Keeps, SameControl, Fetched, Machine
<1>3. /\ Seen(Fetched(m, op, g)) = Seen(m)
      /\ Fetched(m, op, g).opcode = op /\ Fetched(m, op, g).group = g
      /\ Fetched(m, op, g).IFF2 = m.IFF2
  BY DEF Seen, Fetched, Machine
<1> QED BY <1>1, <1>2, <1>3 DEF Keeps

\* What the control part makes of the opcode op of the group g.
Effect(cpu, op, g) ==
  IF g = "op" THEN Control!MainOp(cpu, Kind(op, g))
  ELSE IF g = "ed" THEN Control!EdOp(cpu, Kind(op, g))
  ELSE cpu

LEMMA MainEffect ==
  ASSUME NEW m \in Machine, NEW n, Keeps(m, n), NEW op \in Byte, op # 203, op # 237,
         NEW ix \in Index
  PROVE  LET r == Main(n, op, ix) IN
         /\ r \in Machine /\ r.opcode = m.opcode /\ r.group = m.group
         /\ Seen(r) = Effect(Seen(m), op, "op")
<1> DEFINE r == Main(n, op, ix)
           k == Kind(op, "op")
<1>1. /\ op = 118 => Keeps(Halting(m), r)
      /\ op = 243 => Keeps(Enabled(m, FALSE), r)
      /\ op = 251 => Keeps(Enabled(m, TRUE), r)
      /\ op = 221 => Keeps(Prefixed(m, 1), r)
      /\ op = 253 => Keeps(Prefixed(m, 2), r)
      /\ op \notin {118, 243, 251, 221, 253} => Keeps(m, r)
  BY MainKeeps, Zenon
<1>2. Effect(Seen(m), op, "op") = Control!MainOp(Seen(m), k)
  BY DEF Effect
<1> HIDE DEF r, k
<1>3. TRUE \in BOOLEAN /\ FALSE \in BOOLEAN /\ 1 \in {1, 2} /\ 2 \in {1, 2}
  OBVIOUS
<1>4. CASE op = 118
  <2>1. /\ r \in Machine /\ r.opcode = m.opcode /\ r.group = m.group
        /\ Seen(r) = [Seen(m) EXCEPT !.halted = TRUE]
    BY <1>1, <1>3, <1>4, SeenHalting
  <2>3. k = "halt"
    BY <1>4, KindCases DEF k
  <2>4. Control!MainOp(Seen(m), k) = [Seen(m) EXCEPT !.halted = TRUE]
    BY <2>3 DEF Control!MainOp
  <2> QED BY <1>2, <2>1, <2>4 DEF r
<1>5. CASE op = 243
  <2>1. /\ r \in Machine /\ r.opcode = m.opcode /\ r.group = m.group
        /\ Seen(r) = [Seen(m) EXCEPT !.iff1 = FALSE, !.iff2 = FALSE, !.lock = TRUE]
    <3>1. Keeps(Enabled(m, FALSE), r)
      BY <1>1, <1>5, Zenon
    <3> QED BY <1>3, <3>1, SeenEnabled, Zenon
  <2>3. k = "di"
    BY <1>5, KindCases DEF k
  <2>4. Control!MainOp(Seen(m), k) =
          [Seen(m) EXCEPT !.iff1 = FALSE, !.iff2 = FALSE, !.lock = TRUE]
    BY <2>3 DEF Control!MainOp
  <2> QED BY <1>2, <2>1, <2>4 DEF r
<1>6. CASE op = 251
  <2>1. /\ r \in Machine /\ r.opcode = m.opcode /\ r.group = m.group
        /\ Seen(r) = [Seen(m) EXCEPT !.iff1 = TRUE, !.iff2 = TRUE, !.lock = TRUE]
    <3>1. Keeps(Enabled(m, TRUE), r)
      BY <1>1, <1>6, Zenon
    <3> QED BY <1>3, <3>1, SeenEnabled, Zenon
  <2>3. k = "ei"
    BY <1>6, KindCases DEF k
  <2>4. Control!MainOp(Seen(m), k) =
          [Seen(m) EXCEPT !.iff1 = TRUE, !.iff2 = TRUE, !.lock = TRUE]
    BY <2>3 DEF Control!MainOp
  <2> QED BY <1>2, <2>1, <2>4 DEF r
<1>7. CASE op = 221
  <2>1. /\ r \in Machine /\ r.opcode = m.opcode /\ r.group = m.group
        /\ Seen(r) = [Seen(m) EXCEPT !.lock = TRUE, !.modifier = 1]
    <3>1. Keeps(Prefixed(m, 1), r)
      BY <1>1, <1>7, Zenon
    <3> QED BY <1>3, <3>1, SeenPrefixed, Zenon
  <2>3. k = "dd"
    BY <1>7, KindCases DEF k
  <2>4. Control!MainOp(Seen(m), k) = [Seen(m) EXCEPT !.lock = TRUE, !.modifier = 1]
    BY <2>3 DEF Control!MainOp
  <2> QED BY <1>2, <2>1, <2>4 DEF r
<1>8. CASE op = 253
  <2>1. /\ r \in Machine /\ r.opcode = m.opcode /\ r.group = m.group
        /\ Seen(r) = [Seen(m) EXCEPT !.lock = TRUE, !.modifier = 2]
    <3>1. Keeps(Prefixed(m, 2), r)
      BY <1>1, <1>8, Zenon
    <3> QED BY <1>3, <3>1, SeenPrefixed, Zenon
  <2>3. k = "fd"
    BY <1>8, KindCases DEF k
  <2>4. Control!MainOp(Seen(m), k) = [Seen(m) EXCEPT !.lock = TRUE, !.modifier = 2]
    BY <2>3 DEF Control!MainOp
  <2> QED BY <1>2, <2>1, <2>4 DEF r
<1>9. CASE op \notin {118, 243, 251, 221, 253}
  <2>1. Keeps(m, r)
    BY <1>1, <1>9
  <2>2. k = "op"
    BY <1>9, KindCases DEF k
  <2>3. Control!MainOp(Seen(m), k) = Seen(m)
    BY <2>2 DEF Control!MainOp
  <2> QED BY <1>2, <2>1, <2>3, SeenSame DEF r
<1> QED BY <1>4, <1>5, <1>6, <1>7, <1>8, <1>9

LEMMA ExtendedEffect ==
  ASSUME NEW m \in Machine, NEW n, Keeps(m, n), NEW op \in Byte
  PROVE  LET r == Extended(n, op) IN
         /\ r \in Machine /\ r.opcode = m.opcode /\ r.group = m.group
         /\ Seen(r) = Effect(Seen(m), op, "ed")
<1> DEFINE r == Extended(n, op)
           k == Kind(op, "ed")
           retn == op \div 64 = 1 /\ op % 8 = 5
<1>1. /\ retn => Keeps(Restored(m), r)
      /\ ~retn => Keeps(m, r)
  BY ExtendedKeeps, Zenon
<1>2. Effect(Seen(m), op, "ed") = Control!EdOp(Seen(m), k)
  BY DEF Effect
<1>3. retn => op \notin {221, 253}
  OBVIOUS
<1>4. Seen(m).iff2 = m.IFF2
  BY DEF Seen, Fields
<1>5. k = "retn" <=> retn
  <2>1. op \in {221, 253} => k # "retn"
    BY KindCases
  <2>2. op \notin {221, 253} => (k = IF retn THEN "retn" ELSE "op")
    BY KindCases
  <2> HIDE DEF k, retn
  <2> QED BY <1>3, <2>1, <2>2
<1> HIDE DEF r, k, retn
<1>6. CASE retn
  <2>1. /\ r \in Machine /\ r.opcode = m.opcode /\ r.group = m.group
        /\ Seen(r) = [Seen(m) EXCEPT !.iff1 = m.IFF2]
    BY <1>1, <1>6, SeenRestored
  <2>3. Control!EdOp(Seen(m), k) = [Seen(m) EXCEPT !.iff1 = m.IFF2]
    BY <1>4, <1>5, <1>6 DEF Control!EdOp
  <2> QED BY <1>2, <2>1, <2>3 DEF r
<1>7. CASE ~retn
  <2>1. Control!EdOp(Seen(m), k) = Seen(m)
    BY <1>5, <1>7 DEF Control!EdOp
  <2> QED BY <1>1, <1>2, <1>7, <2>1, SeenSame DEF r
<1> QED BY <1>6, <1>7

-----------------------------------------------------------------------------
(***************************************************************************)
(* The acceptance of a request and the whole instruction.                   *)
(***************************************************************************)
AcceptingNmi(m) == [m EXCEPT !.nmi_pending = FALSE, !.halted = FALSE, !.IFF1 = FALSE]
AcceptingInt(m) ==
  [m EXCEPT !.int_pending = FALSE, !.halted = FALSE, !.IFF1 = FALSE, !.IFF2 = FALSE]
Dropping(m) == [m EXCEPT !.int_pending = FALSE]
Unlocking(m) == [m EXCEPT !.int_lock = FALSE]

LEMMA SeenParts ==
  ASSUME NEW m
  PROVE  /\ Seen(m).iff1 = m.IFF1 /\ Seen(m).iff2 = m.IFF2 /\ Seen(m).lock = m.int_lock
         /\ Seen(m).modifier = m.modifier /\ Seen(m).halted = m.halted
         /\ Seen(m).int = m.int_pending /\ Seen(m).nmi = m.nmi_pending
  BY DEF Seen, Fields

LEMMA SeenAcceptingNmi ==
  ASSUME NEW m \in Machine, NEW r, Keeps(AcceptingNmi(m), r)
  PROVE  /\ r \in Machine /\ r.opcode = m.opcode /\ r.group = m.group
         /\ Seen(r) = [Seen(m) EXCEPT !.nmi = FALSE, !.halted = FALSE, !.iff1 = FALSE]
<1> DEFINE k == AcceptingNmi(m)
           rec == Fields(FALSE, m.IFF2, m.int_lock, m.modifier, FALSE, m.int_pending, FALSE)
<1>1. k.opcode = m.opcode /\ k.group = m.group
  BY DEF AcceptingNmi, Machine
<1>2. /\ k.IFF1 = FALSE
      /\ k.IFF2 = m.IFF2
      /\ k.int_lock = m.int_lock
      /\ k.modifier = m.modifier
      /\ k.halted = FALSE
      /\ k.int_pending = m.int_pending
      /\ k.nmi_pending = FALSE
  BY DEF AcceptingNmi, Machine
<1> HIDE DEF k
<1>3. Seen(k) = rec
  BY <1>2 DEF Seen
<1>4. [Seen(m) EXCEPT !.nmi = FALSE, !.halted = FALSE, !.iff1 = FALSE] = rec
  <2> DEFINE t == FALSE
  <2> HIDE DEF t
  <2>1. [Seen(m) EXCEPT !.nmi = t, !.halted = t, !.iff1 = t] =
          Fields(t, m.IFF2, m.int_lock, m.modifier, t, m.int_pending, t)
    BY SeenNmi, Zenon
  <2> QED BY <2>1 DEF t
<1>5. r \in Machine /\ Seen(r) = Seen(k) /\ r.opcode = k.opcode /\ r.group = k.group
  BY SeenSame DEF k
<1> HIDE DEF rec
<1> QED BY <1>1, <1>3, <1>4, <1>5, Zenon

LEMMA SeenAcceptingInt ==
  ASSUME NEW m \in Machine, NEW r, Keeps(AcceptingInt(m), r)
  PROVE  /\ r \in Machine /\ r.opcode = m.opcode /\ r.group = m.group
         /\ Seen(r) = [Seen(m) EXCEPT !.int = FALSE, !.halted = FALSE, !.iff1 = FALSE, !.iff2 = FALSE]
<1> DEFINE k == AcceptingInt(m)
           rec == Fields(FALSE, FALSE, m.int_lock, m.modifier, FALSE, FALSE, m.nmi_pending)
<1>1. k.opcode = m.opcode /\ k.group = m.group
  BY DEF AcceptingInt, Machine
<1>2. /\ k.IFF1 = FALSE
      /\ k.IFF2 = FALSE
      /\ k.int_lock = m.int_lock
      /\ k.modifier = m.modifier
      /\ k.halted = FALSE
      /\ k.int_pending = FALSE
      /\ k.nmi_pending = m.nmi_pending
  BY DEF AcceptingInt, Machine
<1> HIDE DEF k
<1>3. Seen(k) = rec
  BY <1>2 DEF Seen
<1>4. [Seen(m) EXCEPT !.int = FALSE, !.halted = FALSE, !.iff1 = FALSE, !.iff2 = FALSE] = rec
  <2> DEFINE t == FALSE
  <2> HIDE DEF t
  <2>1. [Seen(m) EXCEPT !.int = t, !.halted = t, !.iff1 = t, !.iff2 = t] =
          Fields(t, t, m.int_lock, m.modifier, t, t, m.nmi_pending)
    BY SeenTaken, Zenon
  <2> QED BY <2>1 DEF t
<1>5. r \in Machine /\ Seen(r) = Seen(k) /\ r.opcode = k.opcode /\ r.group = k.group
  BY SeenSame DEF k
<1> HIDE DEF rec
<1> QED BY <1>1, <1>3, <1>4, <1>5, Zenon

LEMMA SeenDropping ==
  ASSUME NEW m \in Machine, NEW r, Keeps(Dropping(m), r)
  PROVE  /\ r \in Machine /\ r.opcode = m.opcode /\ r.group = m.group
         /\ Seen(r) = [Seen(m) EXCEPT !.int = FALSE]
<1> DEFINE k == Dropping(m)
           rec == Fields(m.IFF1, m.IFF2, m.int_lock, m.modifier, m.halted, FALSE, m.nmi_pending)
<1>1. k.opcode = m.opcode /\ k.group = m.group
  BY DEF Dropping, Machine
<1>2. /\ k.IFF1 = m.IFF1
      /\ k.IFF2 = m.IFF2
      /\ k.int_lock = m.int_lock
      /\ k.modifier = m.modifier
      /\ k.halted = m.halted
      /\ k.int_pending = FALSE
      /\ k.nmi_pending = m.nmi_pending
  BY DEF Dropping, Machine
<1> HIDE DEF k
<1>3. Seen(k) = rec
  BY <1>2 DEF Seen
<1>4. [Seen(m) EXCEPT !.int = FALSE] = rec
  <2> DEFINE t == FALSE
  <2> HIDE DEF t
  <2>1. [Seen(m) EXCEPT !.int = t] =
          Fields(m.IFF1, m.IFF2, m.int_lock, m.modifier, m.halted, t, m.nmi_pending)
    BY SeenInt, Zenon
  <2> QED BY <2>1 DEF t
<1>5. r \in Machine /\ Seen(r) = Seen(k) /\ r.opcode = k.opcode /\ r.group = k.group
  BY SeenSame DEF k
<1> HIDE DEF rec
<1> QED BY <1>1, <1>3, <1>4, <1>5, Zenon

LEMMA SeenUnlocking ==
  ASSUME NEW m \in Machine, NEW r, Keeps(Unlocking(m), r)
  PROVE  /\ r \in Machine /\ r.opcode = m.opcode /\ r.group = m.group
         /\ Seen(r) = [Seen(m) EXCEPT !.lock = FALSE]
<1> DEFINE k == Unlocking(m)
           rec == Fields(m.IFF1, m.IFF2, FALSE, m.modifier, m.halted, m.int_pending, m.nmi_pending)
<1>1. k.opcode = m.opcode /\ k.group = m.group
  BY DEF Unlocking, Machine
<1>2. /\ k.IFF1 = m.IFF1
      /\ k.IFF2 = m.IFF2
      /\ k.int_lock = FALSE
      /\ k.modifier = m.modifier
      /\ k.halted = m.halted
      /\ k.int_pending = m.int_pending
      /\ k.nmi_pending = m.nmi_pending
  BY DEF Unlocking, Machine
<1> HIDE DEF k
<1>3. Seen(k) = rec
  BY <1>2 DEF Seen
<1>4. [Seen(m) EXCEPT !.lock = FALSE] = rec
  <2> DEFINE t == FALSE
  <2> HIDE DEF t
  <2>1. [Seen(m) EXCEPT !.lock = t] =
          Fields(m.IFF1, m.IFF2, t, m.modifier, m.halted, m.int_pending, m.nmi_pending)
    BY SeenLock, Zenon
  <2> QED BY <2>1 DEF t
<1>5. r \in Machine /\ Seen(r) = Seen(k) /\ r.opcode = k.opcode /\ r.group = k.group
  BY SeenSame DEF k
<1> HIDE DEF rec
<1> QED BY <1>1, <1>3, <1>4, <1>5, Zenon

LEMMA AcceptingTypes ==
  ASSUME NEW m \in Machine
  PROVE  /\ AcceptingNmi(m) \in Machine /\ AcceptingInt(m) \in Machine
         /\ Dropping(m) \in Machine /\ Unlocking(m) \in Machine
<1> DEFINE t == FALSE
<1>1. t \in BOOLEAN
  OBVIOUS
<1> HIDE DEF t
<1>2. [m EXCEPT !.nmi_pending = t, !.halted = t, !.IFF1 = t] \in Machine
  BY <1>1 DEF Machine
<1>3. [m EXCEPT !.int_pending = t, !.halted = t, !.IFF1 = t, !.IFF2 = t] \in Machine
  BY <1>1 DEF Machine
<1>4. [m EXCEPT !.int_pending = t] \in Machine
  BY <1>1 DEF Machine
<1>5. [m EXCEPT !.int_lock = t] \in Machine
  BY <1>1 DEF Machine
<1> QED BY <1>2, <1>3, <1>4, <1>5 DEF AcceptingNmi, AcceptingInt, Dropping, Unlocking, t

\* z80_check_nmi() and z80_check_int() do to the control part what Z80Control says.
LEMMA CheckNmiEffect ==
  ASSUME NEW m \in Machine
  PROVE  LET r == CheckNmi(m) IN
         /\ r \in Machine /\ r.opcode = m.opcode /\ r.group = m.group
         /\ Seen(r) = Control!CheckNmi(Seen(m))
<1> DEFINE r == CheckNmi(m)
           k == AcceptingNmi(m)
<1>1. CASE ~m.nmi_pending \/ m.int_lock
  <2>1. r = m
    BY <1>1 DEF CheckNmi
  <2>2. Control!CheckNmi(Seen(m)) = Seen(m)
    BY <1>1, SeenParts DEF Control!CheckNmi, Control!TakesNmi
  <2> QED BY <2>1, <2>2
<1>2. CASE m.nmi_pending /\ ~m.int_lock
  <2>1. r = Spend(IncrR(Goto(Push(k, m.PC), 102), 2), 11)
    BY <1>2 DEF CheckNmi, AcceptingNmi
  <2>2. m.PC \in Word /\ 102 \in Word
    <3>1. m.PC \in Word
      BY DEF Machine
    <3>2. 102 \in Word
      BY WordIs
    <3> QED BY <3>1, <3>2
  <2>3. Keeps(k, k)
    BY AcceptingTypes, KeepsItself
  <2> HIDE DEF r, k
  <2>4. Keeps(k, Goto(Push(k, m.PC), 102))
    BY <2>2, <2>3, PushKeeps, GotoKeeps
  <2>5. Keeps(k, r)
    BY <2>1, <2>4, IncrRKeeps, SpendKeeps
  <2>6. Control!CheckNmi(Seen(m)) =
          [Seen(m) EXCEPT !.nmi = FALSE, !.halted = FALSE, !.iff1 = FALSE]
    BY <1>2, SeenParts DEF Control!CheckNmi, Control!TakesNmi
  <2>7. /\ r \in Machine /\ r.opcode = m.opcode /\ r.group = m.group
        /\ Seen(r) = [Seen(m) EXCEPT !.nmi = FALSE, !.halted = FALSE, !.iff1 = FALSE]
    BY <2>5, SeenAcceptingNmi, Zenon DEF k
  <2> QED BY <2>6, <2>7 DEF r
<1> QED BY <1>1, <1>2

LEMMA CheckIntEffect ==
  ASSUME NEW m \in Machine
  PROVE  LET r == CheckInt(m) IN
         /\ r \in Machine /\ r.opcode = m.opcode /\ r.group = m.group
         /\ Seen(r) = Control!CheckInt(Seen(m))
<1> DEFINE r == CheckInt(m)
           k == AcceptingInt(m)
           d == Dropping(m)
<1>1. CASE ~m.int_pending \/ m.int_lock
  <2>1. r = m
    BY <1>1 DEF CheckInt
  <2>2. Control!CheckInt(Seen(m)) = Seen(m)
    BY <1>1, SeenParts DEF Control!CheckInt
  <2> QED BY <2>1, <2>2
<1>2. CASE m.int_pending /\ ~m.int_lock /\ ~m.IFF1
  <2>1. r = d
    BY <1>2 DEF CheckInt, Dropping
  <2>2. Keeps(d, d)
    BY AcceptingTypes, KeepsItself
  <2> HIDE DEF r, d
  <2>3. Control!CheckInt(Seen(m)) = [Seen(m) EXCEPT !.int = FALSE]
    BY <1>2, SeenParts DEF Control!CheckInt
  <2>4. /\ d \in Machine /\ d.opcode = m.opcode /\ d.group = m.group
        /\ Seen(d) = [Seen(m) EXCEPT !.int = FALSE]
    BY <2>2, SeenDropping, Zenon DEF d
  <2> QED BY <2>1, <2>3, <2>4 DEF r
<1>3. CASE m.int_pending /\ ~m.int_lock /\ m.IFF1
  <2> DEFINE n == IncrR(Push(k, m.PC), 2)
             w == Read16(n, Pair(m.I, 255))
  <2>1. r = IF m.int_mode = 2 THEN Spend(Goto(n, w), 19) ELSE Spend(Goto(n, 56), 13)
    BY <1>3 DEF CheckInt, AcceptingInt
  <2>2. m.PC \in Word /\ 56 \in Word
    <3>1. m.PC \in Word
      BY DEF Machine
    <3>2. 56 \in Word
      BY WordIs
    <3> QED BY <3>1, <3>2
  <2>3. Keeps(k, k)
    BY AcceptingTypes, KeepsItself
  <2> HIDE DEF r, k
  <2>4. Keeps(k, n)
    BY <2>2, <2>3, PushKeeps, IncrRKeeps
  <2>5. w \in Word
    BY <2>4, Read16Type
  <2> HIDE DEF n, w
  <2>6. Keeps(k, Goto(n, w)) /\ Keeps(k, Goto(n, 56))
    BY <2>2, <2>4, <2>5, GotoKeeps
  <2>7. Keeps(k, r)
    BY <2>1, <2>6, SpendKeeps
  <2>8. Control!CheckInt(Seen(m)) =
          [Seen(m) EXCEPT !.int = FALSE, !.halted = FALSE, !.iff1 = FALSE, !.iff2 = FALSE]
    BY <1>3, SeenParts DEF Control!CheckInt
  <2>9. /\ r \in Machine /\ r.opcode = m.opcode /\ r.group = m.group
        /\ Seen(r) =
             [Seen(m) EXCEPT !.int = FALSE, !.halted = FALSE, !.iff1 = FALSE, !.iff2 = FALSE]
    BY <2>7, SeenAcceptingInt, Zenon DEF k
  <2> QED BY <2>8, <2>9 DEF r
<1> QED BY <1>1, <1>2, <1>3

\* What z80_readinstr() has fetched, and the register that an index stands for.
LEMMA IndexType == ASSUME NEW m \in Machine PROVE <<"HL", "IX", "IY">>[m.modifier + 1] \in Index
<1>1. m.modifier = 0 \/ m.modifier = 1 \/ m.modifier = 2
  BY DEF Machine
<1> QED BY <1>1 DEF Index

LEMMA InstructionEffect ==
  ASSUME NEW m \in Machine
  PROVE  LET r == Instruction(m) IN
         \E op \in Byte, g \in {"op", "cb", "ed"} :
           /\ g = "op" => op \notin {203, 237}
           /\ r \in Machine /\ r.opcode = op /\ r.group = g
           /\ Seen(r) = Control!TurnOffModifier(Effect(Seen(m), op, g), Kind(op, g))
<1> DEFINE ix == <<"HL", "IX", "IY">>[m.modifier + 1]
           b == Next8(m)
           s1 == Skip(m, 1)
           dsp == Next8(s1)
           s2 == CASE b = 203 /\ ix # "HL" -> Skip(s1, 1)
                   [] b \in {203, 237} /\ ~(b = 203 /\ ix # "HL") -> IncrR(s1, 1)
                   [] OTHER -> s1
           op == IF b \in {203, 237} THEN Next8(s2) ELSE b
           g == CASE b = 203 -> "cb" [] b = 237 -> "ed" [] OTHER -> "op"
           n == IF g = "op" THEN s2 ELSE Skip(s2, 1)
           f == Fetched(n, op, g)
           k == Fetched(m, op, g)
           done == CASE g = "op" -> Main(f, op, ix)
                     [] g = "ed" -> Extended(f, op)
                     [] g = "cb" /\ ix = "HL" -> BitGroup(f, op)
                     [] g = "cb" /\ ix # "HL" -> IndexedBits(f, op, ix, dsp)
           r == [IncrR(done, 1) EXCEPT !.modifier = IF op \in {221, 253} THEN @ ELSE 0]
<1>1. Instruction(m) = r
  BY DEF Instruction, Fetched
<1>2. ix \in Index
  BY IndexType
<1> HIDE DEF ix
<1>3. Keeps(m, m)
  BY KeepsItself
<1>4. b \in Byte
  BY <1>3, ReadType
<1>5. Keeps(m, s1)
  BY <1>3, SkipKeeps
<1>6. dsp \in Byte
  BY <1>5, ReadType
<1> HIDE DEF b, s1, dsp
<1>7. Keeps(m, s2)
  <2>1. Keeps(m, Skip(s1, 1)) /\ Keeps(m, IncrR(s1, 1))
    BY <1>5, SkipKeeps, IncrRKeeps
  <2> QED BY <1>5, <2>1
<1> HIDE DEF s2
<1>8. op \in Byte
  BY <1>4, <1>7, ReadType
<1>9. g \in {"op", "cb", "ed"} /\ (g = "op" => op \notin {203, 237})
  OBVIOUS
<1> HIDE DEF op, g
<1>10. Keeps(m, n)
  BY <1>7, SkipKeeps
<1> HIDE DEF n
<1>11. /\ Keeps(k, f) /\ k \in Machine /\ Seen(k) = Seen(m)
       /\ k.opcode = op /\ k.group = g
  BY <1>8, <1>9, <1>10, FetchedKeeps
<1> HIDE DEF f, k
<1>12. /\ done \in Machine /\ done.opcode = op /\ done.group = g
       /\ Seen(done) = Effect(Seen(m), op, g)
  <2>1. CASE g = "op"
    <3>1. done = Main(f, op, ix)
      BY <2>1
    <3>2. op # 203 /\ op # 237
      BY <1>9, <2>1
    <3> HIDE DEF done
    <3>3. /\ Main(f, op, ix) \in Machine /\ Main(f, op, ix).opcode = k.opcode
          /\ Main(f, op, ix).group = k.group
          /\ Seen(Main(f, op, ix)) = Effect(Seen(k), op, "op")
      BY <1>2, <1>8, <1>11, <3>2, MainEffect
    <3> QED BY <1>11, <2>1, <3>1, <3>3
  <2>2. CASE g = "ed"
    <3>1. done = Extended(f, op)
      BY <2>2
    <3> HIDE DEF done
    <3>3. /\ Extended(f, op) \in Machine /\ Extended(f, op).opcode = k.opcode
          /\ Extended(f, op).group = k.group
          /\ Seen(Extended(f, op)) = Effect(Seen(k), op, "ed")
      BY <1>8, <1>11, ExtendedEffect, Zenon
    <3> QED BY <1>11, <2>2, <3>1, <3>3
  <2>3. CASE g = "cb"
    <3>1. done = BitGroup(f, op) \/ done = IndexedBits(f, op, ix, dsp)
      BY <2>3
    <3> HIDE DEF done
    <3>2. Keeps(k, done)
      BY <1>2, <1>6, <1>8, <1>11, <3>1, BitGroupKeeps, IndexedBitsKeeps
    <3>3. Effect(Seen(m), op, g) = Seen(m)
      BY <2>3 DEF Effect
    <3> QED BY <1>11, <3>2, <3>3, SeenSame
  <2> QED BY <1>9, <2>1, <2>2, <2>3
<1> HIDE DEF done
<1>13. /\ r \in Machine
       /\ Seen(r) = Control!TurnOffModifier(Seen(done), Kind(op, g))
       /\ r.opcode = done.opcode /\ r.group = done.group
  BY <1>8, <1>9, <1>12, ModifierEnds
<1> HIDE DEF r
<1>14. /\ r \in Machine /\ r.opcode = op /\ r.group = g
       /\ Seen(r) = Control!TurnOffModifier(Effect(Seen(m), op, g), Kind(op, g))
  BY <1>12, <1>13
<1> QED BY <1>1, <1>8, <1>9, <1>14, Zenon

\* z80_execinstr(): the machine as the acceptance has left it.
Beginning(m) ==
  [m EXCEPT !.pflags_aff = m.flags_aff, !.flags_aff = FALSE, !.ticks = 0]
Accepting(m) == Unlocking(CheckInt(CheckNmi(Beginning(m))))

LEMMA BeginningKeeps == ASSUME NEW m \in Machine PROVE Keeps(m, Beginning(m))
<1>1. Beginning(m) \in Machine
  <2> DEFINE t == FALSE  x == m.flags_aff
  <2>1. t \in BOOLEAN /\ x \in BOOLEAN
    BY DEF Machine
  <2> HIDE DEF t, x
  <2>2. [m EXCEPT !.pflags_aff = x, !.flags_aff = t, !.ticks = 0] \in Machine
    BY <2>1 DEF Machine
  <2> QED BY <2>2 DEF Beginning, t, x
<1>2. SameControl(m, Beginning(m))
  BY DEF SameControl, Beginning, Machine
<1> QED BY <1>1, <1>2 DEF Keeps

\* What z80_check_nmi() and z80_check_int() accept, to Z80Control.
How(cpu) ==
  IF Control!TakesInt(Control!CheckNmi(cpu)) THEN "int"
  ELSE IF Control!TakesNmi(cpu) THEN "nmi" ELSE "none"

LEMMA AcceptingEffect ==
  ASSUME NEW m \in Machine
  PROVE  LET r == Accepting(m) IN
         /\ r \in Machine /\ r.opcode = m.opcode /\ r.group = m.group
         /\ Seen(r) = [Control!CheckInt(Control!CheckNmi(Seen(m))) EXCEPT !.lock = FALSE]
<1> DEFINE k == Beginning(m)
           n == CheckNmi(k)
           i == CheckInt(n)
           r == Unlocking(i)
<1>1. k \in Machine /\ Seen(k) = Seen(m) /\ k.opcode = m.opcode /\ k.group = m.group
  BY BeginningKeeps, SeenSame
<1> HIDE DEF k
<1>2. /\ n \in Machine /\ n.opcode = m.opcode /\ n.group = m.group
      /\ Seen(n) = Control!CheckNmi(Seen(m))
  BY <1>1, CheckNmiEffect
<1> HIDE DEF n
<1>3. /\ i \in Machine /\ i.opcode = m.opcode /\ i.group = m.group
      /\ Seen(i) = Control!CheckInt(Control!CheckNmi(Seen(m)))
  BY <1>2, CheckIntEffect
<1> HIDE DEF i
<1>4. Keeps(r, r)
  BY <1>3, AcceptingTypes, KeepsItself
<1>5. /\ r \in Machine /\ r.opcode = i.opcode /\ r.group = i.group
      /\ Seen(r) = [Seen(i) EXCEPT !.lock = FALSE]
  BY <1>3, <1>4, SeenUnlocking, Zenon
<1> QED BY <1>3, <1>5 DEF Accepting, k, n, i

-----------------------------------------------------------------------------
(***************************************************************************)
(* The steps of the machine are steps of Z80Control.                        *)
(***************************************************************************)
Meaning(op, g) == IF g # "op" \/ Kind(op, g) = "retn" THEN "op" ELSE Kind(op, g)
Accepts(cpu) == [Control!CheckInt(Control!CheckNmi(cpu)) EXCEPT !.lock = FALSE]

LEMMA ClassKind ==
  /\ Class = Kind(s.opcode, s.group)
  /\ Class' = Kind(s'.opcode, s'.group)
  BY DEF Class, Kind

LEMMA KindRange ==
  ASSUME NEW op, NEW g \in {"op", "cb", "ed"}
  PROVE  /\ Kind(op, g) \in {"dd", "fd", "ei", "di", "halt", "retn", "op"}
         /\ g = "op" => Kind(op, g) # "retn"
         /\ g # "op" => Kind(op, g) \in {"dd", "fd", "retn", "op"}
  BY DEF Kind

\* Execinstr of Z80Control, in the terms of this module.
LEMMA ControlExecinstr ==
  ASSUME served' = How(Seen(s)),
         \/ /\ Accepts(Seen(s)).halted
            /\ Seen(s') = Accepts(Seen(s))
            /\ s'.opcode = s.opcode /\ s'.group = s.group
         \/ /\ ~Accepts(Seen(s)).halted
            /\ \E op \in Byte, g \in {"op", "cb", "ed"} :
                 /\ g = "op" => op \notin {203, 237}
                 /\ s'.opcode = op /\ s'.group = g
                 /\ Seen(s') =
                      Control!TurnOffModifier(Effect(Accepts(Seen(s)), op, g), Kind(op, g))
  PROVE  Control!Execinstr
<1> DEFINE c0 == Seen(s)
           c1 == Seen(s')
           k0 == Class
           k1 == Class'
           l0 == IF s.group # "op" \/ k0 = "retn" THEN "op" ELSE k0
           l1 == IF s'.group # "op" \/ k1 = "retn" THEN "op" ELSE k1
           e == Accepts(c0)
           again == 0 = 1 /\ How(c0) = "none" /\ l0 # "ay"
           Fetch(b) ==
             \/ /\ b \notin {"cb", "ed"}
                /\ k1 = b
                /\ c1 = Control!TurnOffModifier(Control!MainOp(e, b), b)
                /\ l1 = Control!MainMeaning(b)
             \/ /\ b \in {"cb", "ed"}
                /\ l1 = "op"
                /\ \E t \in {"dd", "fd", "retn", "op"} :
                     /\ k1 = t
                     /\ c1 = Control!TurnOffModifier(
                               IF b = "ed" THEN Control!EdOp(e, t) ELSE e, t)
           Stepped ==
             /\ served' = How(c0)
             /\ IF e.halted
                THEN /\ c1 = e
                     /\ 0 = IF How(c0) = "none" THEN 0 ELSE 0
                     /\ k1 = k0 /\ l1 = l0
                ELSE /\ 0 = 0
                     /\ \E b \in IF again THEN {k0} ELSE Control!Bytes : Fetch(b)
<1>1. Stepped => Control!Execinstr
  BY DEF Control!Execinstr, Seen, Fields, Accepts, How
<1>2. k0 = Kind(s.opcode, s.group) /\ k1 = Kind(s'.opcode, s'.group)
  BY ClassKind
<1>3. ~again
  OBVIOUS
<1> HIDE DEF c0, c1, k0, k1
<1>4. CASE e.halted
  <2>1. c1 = e /\ s'.opcode = s.opcode /\ s'.group = s.group
    BY <1>4 DEF c0, c1
  <2>2. k1 = k0 /\ l1 = l0
    BY <1>2, <2>1
  <2>3. served' = How(c0)
    BY DEF c0
  <2> HIDE DEF e, l0, l1
  <2> QED BY <1>1, <1>4, <2>1, <2>2, <2>3
<1>5. CASE ~e.halted
  <2>1. PICK op \in Byte, g \in {"op", "cb", "ed"} :
           /\ s'.opcode = op /\ s'.group = g
           /\ c1 = Control!TurnOffModifier(Effect(e, op, g), Kind(op, g))
    BY <1>5 DEF c0, c1
  <2>2. k1 = Kind(op, g)
    BY <1>2, <2>1
  <2>3. CASE g = "op"
    <3>1. k1 \in {"dd", "fd", "ei", "di", "halt", "op"}
      BY <2>2, <2>3, KindRange
    <3>2. l1 = k1
      BY <2>1, <2>3, <3>1
    <3>3. Control!MainMeaning(k1) = k1 /\ k1 \in Control!Bytes /\ k1 \notin {"cb", "ed"}
      BY <3>1 DEF Control!MainMeaning, Control!Bytes
    <3>4. c1 = Control!TurnOffModifier(Control!MainOp(e, k1), k1)
      BY <2>1, <2>2, <2>3 DEF Effect
    <3> HIDE DEF e, l1
    <3>5. Fetch(k1)
      BY <3>2, <3>3, <3>4
    <3> QED BY <1>1, <1>3, <1>5, <3>3, <3>5 DEF c0
  <2>4. CASE g # "op"
    <3>1. k1 \in {"dd", "fd", "retn", "op"}
      BY <2>2, <2>4, KindRange
    <3>2. l1 = "op"
      BY <2>1, <2>4
    <3>3. g \in Control!Bytes /\ g \in {"cb", "ed"}
      BY <2>4 DEF Control!Bytes
    <3>4. c1 = Control!TurnOffModifier(IF g = "ed" THEN Control!EdOp(e, k1) ELSE e, k1)
      BY <2>1, <2>2, <2>4 DEF Effect
    <3> HIDE DEF e, l1
    <3>5. Fetch(g)
      BY <3>1, <3>2, <3>3, <3>4
    <3> QED BY <1>1, <1>3, <1>5, <3>3, <3>5 DEF c0
  <2> QED BY <2>3, <2>4
<1> QED BY <1>4, <1>5

LEMMA AcceptedHow == ASSUME s \in Machine PROVE Accepted = How(Seen(s))
<1> DEFINE n == CheckNmi(s)
           c0 == Seen(s)
           takesInt == n.int_pending /\ ~n.int_lock /\ n.IFF1
           takesNmi == n.nmi_pending # s.nmi_pending
<1>1. n \in Machine /\ Seen(n) = Control!CheckNmi(c0)
  BY CheckNmiEffect
<1>2. /\ n.IFF1 \in BOOLEAN /\ n.int_pending \in BOOLEAN /\ n.int_lock \in BOOLEAN
      /\ s.nmi_pending \in BOOLEAN /\ s.int_lock \in BOOLEAN
  BY <1>1 DEF Machine
<1>3. /\ Seen(n).iff1 = n.IFF1 /\ Seen(n).lock = n.int_lock
      /\ Seen(n).int = n.int_pending /\ Seen(n).nmi = n.nmi_pending
      /\ c0.nmi = s.nmi_pending /\ c0.lock = s.int_lock
  BY SeenParts
<1>4. takesInt <=> Control!TakesInt(Control!CheckNmi(c0))
  BY <1>1, <1>3 DEF Control!TakesInt
<1>5. ~Control!TakesNmi(c0) => n = s
  BY <1>3 DEF Control!TakesNmi, CheckNmi
<1>6. Control!TakesNmi(c0) => n.nmi_pending = FALSE /\ n.IFF1 = FALSE /\ s.nmi_pending = TRUE
  <2> SUFFICES ASSUME Control!TakesNmi(c0)
               PROVE  n.nmi_pending = FALSE /\ n.IFF1 = FALSE /\ s.nmi_pending = TRUE
    OBVIOUS
  <2>1. Control!CheckNmi(c0) = [c0 EXCEPT !.nmi = FALSE, !.halted = FALSE, !.iff1 = FALSE]
    BY DEF Control!CheckNmi
  <2>2. [c0 EXCEPT !.nmi = FALSE, !.halted = FALSE, !.iff1 = FALSE].nmi = FALSE
    BY DEF Seen, Fields
  <2>3. [c0 EXCEPT !.nmi = FALSE, !.halted = FALSE, !.iff1 = FALSE].iff1 = FALSE
    BY DEF Seen, Fields
  <2>4. s.nmi_pending = TRUE
    BY <1>2, <1>3 DEF Control!TakesNmi
  <2> HIDE DEF n, c0
  <2> QED BY <1>1, <1>3, <2>1, <2>2, <2>3, <2>4
<1>7. Accepted = CASE takesInt -> "int" [] takesNmi -> "nmi" [] OTHER -> "none"
  BY DEF Accepted
<1> HIDE DEF n, c0
<1>8. takesNmi <=> Control!TakesNmi(c0)
  BY <1>5, <1>6
<1>9. ~(takesInt /\ takesNmi)
  BY <1>6, <1>8
<1> QED BY <1>4, <1>7, <1>8, <1>9 DEF How, c0

LEMMA ExecinstrEffect ==
  ASSUME NEW m \in Machine
  PROVE  LET r == Execinstr(m)
             e == Accepts(Seen(m))
         IN  /\ r \in Machine
             /\ \/ /\ e.halted
                   /\ Seen(r) = e
                   /\ r.opcode = m.opcode /\ r.group = m.group
                \/ /\ ~e.halted
                   /\ \E op \in Byte, g \in {"op", "cb", "ed"} :
                        /\ g = "op" => op \notin {203, 237}
                        /\ r.opcode = op /\ r.group = g
                        /\ Seen(r) = Control!TurnOffModifier(Effect(e, op, g), Kind(op, g))
<1> DEFINE r == Execinstr(m)
           e == Accepts(Seen(m))
           a == Accepting(m)
<1>1. a \in Machine /\ a.opcode = m.opcode /\ a.group = m.group /\ Seen(a) = e
  BY AcceptingEffect DEF Accepts
<1>2. r = IF a.halted THEN IncrR(Spend(a, 4), 1) ELSE Instruction(a)
  BY DEF Execinstr, Accepting, Unlocking, Beginning
<1>3. e.halted = a.halted
  BY <1>1, SeenParts
<1> HIDE DEF r, e, a
<1>4. CASE a.halted
  <2>1. r = IncrR(Spend(a, 4), 1)
    BY <1>2, <1>4
  <2>2. Keeps(a, a)
    BY <1>1, KeepsItself
  <2>3. Keeps(a, IncrR(Spend(a, 4), 1))
    BY <2>2, SpendKeeps, IncrRKeeps
  <2>4. r \in Machine /\ Seen(r) = Seen(a) /\ r.opcode = a.opcode /\ r.group = a.group
    BY <2>1, <2>3, SeenSame
  <2> QED BY <1>1, <1>3, <1>4, <2>4 DEF r, e
<1>5. CASE ~a.halted
  <2>1. r = Instruction(a)
    BY <1>2, <1>5
  <2>2. \E op \in Byte, g \in {"op", "cb", "ed"} :
          /\ g = "op" => op \notin {203, 237}
          /\ r \in Machine /\ r.opcode = op /\ r.group = g
          /\ Seen(r) = Control!TurnOffModifier(Effect(Seen(a), op, g), Kind(op, g))
    BY <1>1, <2>1, InstructionEffect, Zenon
  <2> QED BY <1>1, <1>3, <1>5, <2>2 DEF r, e
<1> QED BY <1>4, <1>5

LEMMA TickStep ==
  ASSUME s \in Machine, Tick
  PROVE  s' \in Machine /\ Control!Execinstr /\ served' \in Kinds \cup {"none"}
<1>1. s' = Execinstr(s) /\ served' = Accepted
  BY DEF Tick
<1>2. served' = How(Seen(s))
  BY <1>1, AcceptedHow
<1>3. s' \in Machine
  BY <1>1, ExecinstrEffect
<1>4. Control!Execinstr
  BY <1>1, <1>2, ExecinstrEffect, ControlExecinstr
<1>5. How(Seen(s)) \in Kinds \cup {"none"}
  BY DEF How, Kinds
<1> QED BY <1>2, <1>3, <1>4, <1>5

LEMMA RequestStep ==
  ASSUME s \in Machine, RequestInt \/ RequestNmi
  PROVE  s' \in Machine /\ (Control!Int \/ Control!Nmi)
<1> DEFINE t == TRUE
<1>1. s' = [s EXCEPT !.int_pending = t] \/ s' = [s EXCEPT !.nmi_pending = t]
  BY DEF RequestInt, RequestNmi, Request
<1>2. t \in BOOLEAN
  OBVIOUS
<1>3. served' = "none"
  BY DEF RequestInt, RequestNmi, Request
<1> HIDE DEF t
<1>4. CASE s' = [s EXCEPT !.int_pending = t]
  <2>1. s' \in Machine
    BY <1>2, <1>4 DEF Machine
  <2>2. /\ s'.IFF1 = s.IFF1 /\ s'.IFF2 = s.IFF2 /\ s'.int_lock = s.int_lock
        /\ s'.modifier = s.modifier /\ s'.halted = s.halted /\ s'.int_pending = t
        /\ s'.nmi_pending = s.nmi_pending /\ s'.opcode = s.opcode /\ s'.group = s.group
    BY <1>4 DEF Machine
  <2>3. Seen(s') = Fields(s.IFF1, s.IFF2, s.int_lock, s.modifier, s.halted, t, s.nmi_pending)
    BY <2>2 DEF Seen
  <2>4. Seen(s') = [Seen(s) EXCEPT !.int = TRUE]
    BY <2>3, SeenInt, Zenon DEF t
  <2>5. Class' = Class /\ s'.group = s.group
    BY <2>2, ClassKind
  <2>6. Control!Int
    BY <1>3, <2>4, <2>5 DEF Control!Int, Seen, Fields
  <2> QED BY <2>1, <2>6
<1>5. CASE s' = [s EXCEPT !.nmi_pending = t]
  <2>1. s' \in Machine
    BY <1>2, <1>5 DEF Machine
  <2>2. /\ s'.IFF1 = s.IFF1 /\ s'.IFF2 = s.IFF2 /\ s'.int_lock = s.int_lock
        /\ s'.modifier = s.modifier /\ s'.halted = s.halted /\ s'.nmi_pending = t
        /\ s'.int_pending = s.int_pending /\ s'.opcode = s.opcode /\ s'.group = s.group
    BY <1>5 DEF Machine
  <2>3. Seen(s') = Fields(s.IFF1, s.IFF2, s.int_lock, s.modifier, s.halted, s.int_pending, t)
    BY <2>2 DEF Seen
  <2>4. Seen(s') = [Seen(s) EXCEPT !.nmi = TRUE]
    BY <2>3, SeenOneNmi, Zenon DEF t
  <2>5. Class' = Class /\ s'.group = s.group
    BY <2>2, ClassKind
  <2>6. Control!Nmi
    BY <1>3, <2>4, <2>5 DEF Control!Nmi, Seen, Fields
  <2> QED BY <2>1, <2>6
<1> QED BY <1>1, <1>4, <1>5

-----------------------------------------------------------------------------
\* The machine keeps its types: whatever is fetched, executed and interrupted, no
\* register, flag or byte of the memory leaves its width, PC and SP wrap, and the
\* displacement of (IX+d) and of a jump wraps with them.
THEOREM TypeCorrect == Spec => []TypeOK
<1>1. Init => TypeOK
  <2> SUFFICES ASSUME Init PROVE TypeOK
    OBVIOUS
  <2>1. s \in Machine /\ Requests(job) \in Nat
    BY JobsAssumption DEF Init
  <2>2. taken \in [Kinds -> Nat]
    BY DEF Init
  <2> QED BY <2>1, <2>2 DEF Init, TypeOK
<1>2. TypeOK /\ [Next]_vars => TypeOK'
  <2> SUFFICES ASSUME TypeOK, [Next]_vars PROVE TypeOK'
    OBVIOUS
  <2>1. s \in Machine /\ Requests(job) \in Nat
    BY JobsAssumption DEF TypeOK
  <2>2. CASE Tick
    <3>1. s' \in Machine /\ served' \in Kinds \cup {"none"}
      BY <2>1, <2>2, TickStep
    <3>2. taken' \in [Kinds -> Nat]
      <4>1. CASE served' = "none"
        BY <2>2, <4>1 DEF Tick, TypeOK
      <4>2. CASE served' # "none"
        <5>1. served' \in Kinds
          BY <3>1, <4>2
        <5>2. taken' = [taken EXCEPT ![served'] = @ + 1]
          BY <2>2, <4>2 DEF Tick
        <5> QED BY <5>1, <5>2 DEF TypeOK
      <4> QED BY <4>1, <4>2
    <3>3. job' = job /\ left' = left
      BY <2>2 DEF Tick
    <3> QED BY <3>1, <3>2, <3>3 DEF TypeOK
  <2>3. CASE RequestInt \/ RequestNmi
    <3>1. s' \in Machine
      BY <2>1, <2>3, RequestStep
    <3>2. left > 0 /\ left' = left - 1 /\ served' = "none" /\ job' = job /\ taken' = taken
      BY <2>3 DEF RequestInt, RequestNmi, Request
    <3>3. left' \in 0 .. Requests(job)
      BY <2>1, <3>2 DEF TypeOK
    <3> QED BY <3>1, <3>2, <3>3 DEF TypeOK
  <2>4. CASE UNCHANGED vars
    BY <2>4 DEF vars, TypeOK
  <2> QED BY <2>2, <2>3, <2>4 DEF Next
<1> QED BY <1>1, <1>2, PTL DEF Spec

\* The instruction set implements Z80Control: each byte that is really fetched,
\* behind any prefix and with any request pending, changes the modifier, HALT, the
\* interrupt flip-flops and the lock as one step of Z80Control does, so that what is
\* proved of Z80Control holds of the machine that executes whole programs.
THEOREM ControlCorrect == Spec => ImplementsControl
<1>1. TypeOK /\ [Next]_vars => [Control!Execinstr \/ Control!Int \/ Control!Nmi]_vars
  <2> SUFFICES ASSUME TypeOK, [Next]_vars
               PROVE  [Control!Execinstr \/ Control!Int \/ Control!Nmi]_vars
    OBVIOUS
  <2>1. s \in Machine
    BY DEF TypeOK
  <2>2. CASE Tick
    BY <2>1, <2>2, TickStep
  <2>3. CASE RequestInt \/ RequestNmi
    BY <2>1, <2>3, RequestStep
  <2>4. CASE UNCHANGED vars
    BY <2>4
  <2> QED BY <2>2, <2>3, <2>4 DEF Next
<1> QED BY <1>1, TypeCorrect, PTL DEF Spec, ImplementsControl
=============================================================================
