---------------------------- MODULE MCZ80Machine ----------------------------
(***************************************************************************)
(* Programs for Z80Machine, with what they are to compute.  The references  *)
(* are written without the operators of Z80Alu, where they are not about    *)
(* the representation of a byte: sums are added bit by bit, products and    *)
(* quotients are those of the integers.                                     *)
(***************************************************************************)
EXTENDS Z80Machine, FiniteSetsExt, SequencesExt

Org == 114
Data == 152
SP0 == 188
MCStack == 160 .. 187
MCIntCount == 188
MCNmiCount == 189
MCRam == (56 .. 189) \cup {255, 256}

\* A port gives the sum of both halves of its address.
MCIn(port) == (port \div 256 + 3 * (port % 256)) % 256

\* PUSH AF; PUSH HL; LD HL,count; INC (HL); POP HL; POP AF; EI; RET
IntHandler == <<\hF5, \hE5, \h21, MCIntCount, 0, \h34, \hE1, \hF1, \hFB, \hC9>>
\* PUSH AF; PUSH HL; LD HL,count; INC (HL); POP HL; POP AF; RETN
NmiHandler == <<\hF5, \hE5, \h21, MCNmiCount, 0, \h34, \hE1, \hF1, \hED, \h45>>
\* HALT; JR to it
End == <<\h76, \h18, \hFD>>

-----------------------------------------------------------------------------
(* The programs.                                                            *)

AluCode(y) == <<128 + 8 * y>>                       \* op A,B
WordCode(k) ==                                      \* ADD, ADC, SBC HL,BC
  CASE k = "add" -> <<\h09>> [] k = "adc" -> <<\hED, \h4A>> [] k = "sbc" -> <<\hED, \h42>>

Code(j) ==
  CASE j.prog = "alu"    -> AluCode(j.y)
    [] j.prog = "half"   -> <<\hDD, 132 + 8 * j.y>>          \* op A,IXh
    [] j.prog = "word"   -> WordCode(j.k)
    [] j.prog = "step"   -> <<IF j.up THEN \h3C ELSE \h3D>>  \* INC A, DEC A
    [] j.prog = "bcd"    -> <<IF j.add THEN \h88 ELSE \h98, \h27>>
    [] j.prog = "rotate" -> [i \in 1 .. 2 * j.n |->          \* RLC B ... n times
                              IF i % 2 = 1 THEN \hCB ELSE 8 * j.y]
    [] j.prog = "shift"  -> (CASE j.k = "srl" -> <<\hCB, \h3C, \hCB, \h1D>>
                              [] j.k = "sra" -> <<\hCB, \h2C, \hCB, \h1D>>
                              [] j.k = "sla" -> <<\hCB, \h25, \hCB, \h14>>)
    [] j.prog = "signed" -> \* SUB B; JP PO,+2; XOR 80; JP M,..; XOR A; JR; LD A,1
         <<\h90, \hE2, Org + 6, 0, \hEE, \h80, \hFA, Org + 12, 0, \hAF, \h18, \h02,
           \h3E, \h01>>
    [] j.prog = "mul" -> \* LD HL,0; LD D,H; LD B,8; ADD HL,HL; RLCA; JR NC; ADD HL,DE; DJNZ
         <<\h21, 0, 0, \h54, \h06, 8, \h29, \h07, \h30, 1, \h19, \h10, \hF9>>
    [] j.prog = "div" -> \* XOR A; LD B,8; SLA D; RLA; CP E; JR C; SUB E; INC D; DJNZ
         <<\hAF, \h06, 8, \hCB, \h22, \h17, \hBB, \h38, 2, \h93, \h14, \h10, \hF6>>
    [] j.prog = "copy" -> <<\hED, IF j.up THEN \hB0 ELSE \hB8>>
    [] j.prog = "find" -> <<\hED, IF j.up THEN \hB1 ELSE \hB9>>
    [] j.prog = "ports" -> \* INIR; DEC HL; LD B,n; OTDR
         <<\hED, \hB2, \h2B, \h06, j.n, \hED, \hBB>>
    [] j.prog = "sum" -> \* CALL f; (end); f: OR A; RET Z; PUSH AF; DEC A; CALL f; POP BC; ADD A,B; RET
         <<\hCD, Org + 6, 0>> \o End
         \o <<\hB7, \hC8, \hF5, \h3D, \hCD, Org + 6, 0, \hC1, \h80, \hC9>>
    [] j.prog = "index" -> \* LD IX,Data+3; SET 7,(IX-3); INC (IX+1); LD A,(IX-1); ADD A,(IX+1);
                           \* LD (IX+2),A; PUSH IX; POP IY; LD (IY-2),42
         <<\hDD, \h21, Data + 3, 0, \hDD, \hCB, \hFD, \hFE, \hDD, \h34, 1, \hDD, \h7E, \hFF,
           \hDD, \h86, 1, \hDD, \h77, 2, \hDD, \hE5, \hFD, \hE1, \hFD, \h36, \hFE, 42>>
    [] j.prog = "digits" -> <<\hED, \h6F, \h2B, \hED, \h6F, \h23, \hED, \h67>> \* RLD; DEC HL; RLD; INC HL; RRD
    [] j.prog = "flags"  -> <<\hF5, \hC1, \h08, \hC5, \hF1>> \* PUSH AF; POP BC; EX AF,AF'; PUSH BC; POP AF
    [] j.prog = "swap"   -> \* PUSH DE; PUSH HL; EXX; POP HL; EX (SP),HL; POP BC; EXX; EX DE,HL
         <<\hD5, \hE5, \hD9, \hE1, \hE3, \hC1, \hD9, \hEB>>
    [] j.prog = "atomic" -> \* DI; LD A,(count); LD B,A; LD A,(count); EI; SUB B
         <<\hF3, \h3A, MCIntCount, 0, \h47, \h3A, MCIntCount, 0, \hFB, \h90>>
    [] j.prog = "negate" -> \* LD B,A; NEG; LD C,A; LD A,B; CPL; INC A; SUB C
         <<\h47, \hED, \h44, \h4F, \h78, \h2F, \h3C, \h91>>
    [] j.prog = "store" -> \* LD (Data),HL; LD (Data+2),DE; LD BC,(Data); LD IX,(Data+2)
         <<\h22, Data, 0, \hED, \h53, Data + 2, 0, \hED, \h4B, Data, 0,
           \hDD, \h2A, Data + 2, 0>>
    [] j.prog = "iff" -> \* LD A,I; LD A,0; JP PO,..; LD A,1; OUT (7),A
         <<\hED, \h57, \h3E, 0, \hE2, Org + 9, 0, \h3E, 1, \hD3, 7>>
    [] j.prog = "branch" -> \* SCF; CALL NC; LD B,1; CCF; CALL NC,f; (end); f: INC B; RET C; RET NC
         <<\h37, \hD4, Org + 13, 0, \h06, 1, \h3F, \hD4, Org + 13, 0>> \o End
         \o <<\h04, \hD8, \hD0>>
    [] j.prog = "count"  -> <<\h06, 0, \h0C, \h10, \hFD>>    \* LD B,0; INC C; DJNZ

Edges == {0, 1, 15, 16, 127, 128, 153, 255}
Edges16 == {0, 1, 255, 256, 4095, 32767, 32768, 65535}
Digits2 == {0, 1, 5, 9, 10, 49, 50, 90, 99}
Bcd(n) == 16 * (n \div 10) + (n % 10)

MCJobs ==
  [prog : {"alu"}, y : 0 .. 7, a : Edges, b : Edges, c : {0, 1}]
  \cup [prog : {"half"}, y : 0 .. 6, a : {15, 200}, b : {1, 128}, c : {1}]
  \cup [prog : {"word"}, k : {"add", "adc", "sbc"}, a : Edges16, b : Edges16, c : {0, 1}]
  \cup [prog : {"step"}, up : BOOLEAN, a : Edges, c : {0, 1}]
  \cup [prog : {"bcd"}, add : BOOLEAN, a : Digits2, b : Digits2, c : {0, 1}]
  \cup [prog : {"rotate"}, y : 0 .. 3, n : {7, 8}, a : Edges, c : {0, 1}]
  \cup [prog : {"shift"}, k : {"srl", "sra", "sla"}, a : Edges16]
  \cup [prog : {"signed"}, a : Edges, b : Edges]
  \cup [prog : {"mul"}, a : {0, 3, 255}, b : {7, 255}]
  \cup [prog : {"div"}, a : {5, 255}, b : {1, 7, 128}]
  \cup [prog : {"copy"}, up : BOOLEAN, from : {2, 3}, to : {2, 3, 4}, n : {1, 3}, im : {1, 2}]
  \cup [prog : {"find"}, up : BOOLEAN, from : {2, 4}, a : {10, 12, 99}, n : {1, 3}]
  \cup [prog : {"ports"}, n : {1, 3}]
  \cup [prog : {"sum"}, a : {0, 2}]
  \cup [prog : {"index", "flags", "swap", "digits", "negate"}, a : {0, 170}, c : {0, 1}]
  \cup [prog : {"atomic", "store", "iff", "branch"}]
  \cup [prog : {"count"}, a : {5}]

\* The comparison with a half of an index register.
CompareJobs == [prog : {"half"}, y : {7}, a : {15, 200}, b : {1, 128}, c : {1}]

\* Each program but the shortest is interrupted, once or twice.
MCRequests(j) ==
  CASE j.prog \in {"alu", "word", "step", "bcd", "rotate", "count"} -> 0
    [] j.prog \in {"copy", "find", "swap", "atomic", "digits", "sum", "iff"} -> 2
    [] OTHER -> 1

-----------------------------------------------------------------------------
(* The machine at the start: data 10, 11, 12 ... from Data on.              *)

Cells(j) == [a \in MCRam |->
  LET code == Code(j) \o End
      at(seq, base) == a - base + 1 \in DOMAIN seq
  IN CASE at(IntHandler, 56) -> IntHandler[a - 56 + 1]
       [] at(NmiHandler, 102) -> NmiHandler[a - 102 + 1]
       [] at(code, Org) -> code[a - Org + 1]
       [] a \in Data .. Data + 7 ->
            IF j.prog = "digits" THEN (165 + 17 * (a - Data)) % 256 ELSE a - Data + 10
       [] a = 255 -> 56
       [] OTHER -> 0]

Words(bc, de, hl, ix) ==
  [p \in Pairs |-> CASE p = "BC" -> bc [] p = "DE" -> de [] p = "HL" -> hl
                     [] p = "IX" -> ix [] p = "IY" -> 4660 [] p = "SP" -> SP0]

Registers(j) ==
  CASE j.prog \in {"alu", "bcd"} ->
         Words(256 * (IF j.prog = "bcd" THEN Bcd(j.b) ELSE j.b), 1, 2, 3)
    [] j.prog = "half" -> Words(1, 2, 3, 256 * j.b + 77)
    [] j.prog = "word" -> Words(j.b, 1, j.a, 2)
    [] j.prog = "rotate" -> Words(256 * j.a, 1, 2, 3)
    [] j.prog = "shift" -> Words(1, 2, j.a, 3)
    [] j.prog = "signed" -> Words(256 * j.b, 1, 2, 3)
    [] j.prog = "mul" -> Words(1, j.b, 2, 3)
    [] j.prog = "div" -> Words(1, 256 * j.a + j.b, 2, 3)
    [] j.prog = "copy" -> Words(j.n, Data + j.to, Data + j.from, 3)
    [] j.prog = "find" -> Words(j.n, 1, Data + j.from, 3)
    [] j.prog = "ports" -> Words(256 * j.n + 9, 1, Data, 3)
    [] j.prog = "digits" -> Words(1, 2, Data + 1, 3)
    [] OTHER -> Words(1027, 2040, 3061, 3)

Field(j, f, else) == IF f \in DOMAIN j THEN j[f] ELSE else

Machine0(j) ==
  LET a == Field(j, "a", 0)
  IN [A |-> CASE j.prog \in {"word", "shift"} -> 0 [] j.prog = "bcd" -> Bcd(a) [] OTHER -> a,
      F |-> IF Field(j, "c", 0) = 1 THEN {fC} ELSE {},
      rp |-> Registers(j), A_ |-> 85, F_ |-> {fZ},
      rp_ |-> [p \in {"BC", "DE", "HL"} |-> 513],
      I |-> 0, R |-> 126, W |-> 0, PC |-> Org, IFF1 |-> TRUE, IFF2 |-> TRUE,
      int_mode |-> Field(j, "im", 1), int_lock |-> FALSE, int_pending |-> FALSE,
      nmi_pending |-> FALSE, modifier |-> 0, flags_aff |-> FALSE, pflags_aff |-> FALSE,
      halted |-> FALSE, opcode |-> 0, group |-> "op",
      mem |-> Cells(j), out |-> <<>>, ticks |-> 0]

Machines == [j \in MCJobs \cup CompareJobs |-> Machine0(j)]
MCStart(j) == Machines[j]

MCWrites(j) ==
  CASE j.prog = "copy" -> IF j.up THEN Data + j.to .. Data + j.to + j.n - 1
                          ELSE Data + j.to - j.n + 1 .. Data + j.to
    [] j.prog = "ports" -> Data .. Data + j.n - 1
    [] j.prog = "index" -> {Data, Data + 1, Data + 4, Data + 5}
    [] j.prog = "digits" -> {Data, Data + 1}
    [] j.prog = "store" -> Data .. Data + 3
    [] OTHER -> {}

-----------------------------------------------------------------------------
(* References.                                                              *)

\* The carries of a sum of w bits, from the lowest bit up.
Ripple(a, b, c, w) ==
  LET carry[i \in 0 .. w] ==
        IF i = 0 THEN c
        ELSE IF Bit(a, i - 1) + Bit(b, i - 1) + carry[i - 1] >= 2 THEN 1 ELSE 0
  IN  carry
SumOf(a, b, c, w) ==
  LET carry == Ripple(a, b, c, w)
  IN  SumSet({2 ^ i : i \in {k \in 0 .. w - 1 :
                               (Bit(a, k) + Bit(b, k) + carry[k]) % 2 = 1}})

\* Flags of a sum or, with the complement of b and of the carry, a difference.
SumFlags(a, b, c, w, sub) ==
  LET bb == IF sub THEN 2 ^ w - 1 - b ELSE b
      cc == IF sub THEN 1 - c ELSE c
      carry == Ripple(a, bb, cc, w)
      v == SumOf(a, bb, cc, w)
  IN  [v |-> v,
       F |-> (IF sub THEN {fN} ELSE {})
             \cup (IF (carry[w] = 1) # sub THEN {fC} ELSE {})
             \cup (IF (carry[w - 4] = 1) # sub THEN {fHC} ELSE {})
             \cup (IF carry[w] # carry[w - 1] THEN {fPV} ELSE {})
             \cup (IF v = 0 THEN {fZ} ELSE {})
             \cup (IF Bit(v, w - 1) = 1 THEN {fS} ELSE {})]

\* A value that is built from its bits.
FromBits(bit(_)) == SumSet({2 ^ i : i \in {k \in 0 .. 7 : bit(k) = 1}})
Logic(v, half) ==
  [v |-> v,
   F |-> (IF v = 0 THEN {fZ} ELSE {}) \cup (IF v > 127 THEN {fS} ELSE {})
         \cup (IF Cardinality({i \in 0 .. 7 : Bit(v, i) = 1}) % 2 = 0 THEN {fPV} ELSE {})
         \cup half]

AluReference(y, a, b, c) ==
  CASE y \in {0, 1} -> SumFlags(a, b, y * c, 8, FALSE)
    [] y \in {2, 3} -> SumFlags(a, b, (y - 2) * c, 8, TRUE)
    [] y = 4 -> Logic(FromBits(LAMBDA i : Bit(a, i) * Bit(b, i)), {fHC})
    [] y = 5 -> Logic(FromBits(LAMBDA i : (Bit(a, i) + Bit(b, i)) % 2), {})
    [] y = 6 -> Logic(FromBits(LAMBDA i : IF Bit(a, i) + Bit(b, i) > 0 THEN 1 ELSE 0), {})
    [] y = 7 -> [SumFlags(a, b, 0, 8, TRUE) EXCEPT !.v = a]

Documented(F) == F \ {fU1, fU2}
Leaves(m, r) == m.A = r.v /\ Documented(m.F) = r.F

\* The bits of B and the carry after n rotations, the carry as bit 8.
Turned(j) ==
  LET w == IF j.y \in {0, 1} THEN 8 ELSE 9
      up == IF j.y \in {0, 2} THEN j.n ELSE w - j.n
      x == j.a + 256 * j.c
  IN  SumSet({2 ^ ((i + up) % w) : i \in {k \in 0 .. w - 1 : Bit(x, k) = 1}})

\* The bytes that a copy moves, one after the other.
Copied(j) ==
  LET d == IF j.up THEN 1 ELSE -1
      cell[k \in 0 .. j.n] ==
        IF k = 0 THEN MCStart(j).mem
        ELSE [cell[k - 1] EXCEPT ![Data + j.to + d * (k - 1)] =
                cell[k - 1][Data + j.from + d * (k - 1)]]
  IN  cell[j.n]

MCResult(j, m) ==
  LET a == Field(j, "a", 0)
      b == Field(j, "b", 0)
      cell == [i \in 0 .. 7 |-> m.mem[Data + i]]
  IN
  CASE j.prog \in {"alu", "half"} -> Leaves(m, AluReference(j.y, a, b, j.c))
    [] j.prog = "word" ->
         LET r == SumFlags(a, b, IF j.k = "add" THEN 0 ELSE j.c, 16, j.k = "sbc")
             seen == IF j.k = "add" THEN {fC, fN} ELSE {fC, fN, fPV, fZ, fS}
         IN  m.rp["HL"] = r.v /\ m.F \cap seen = r.F \cap seen
    [] j.prog = "step" ->
         LET r == SumFlags(a, 1, 0, 8, ~j.up)
         IN  Leaves(m, [r EXCEPT !.F = (@ \ {fC}) \cup (IF j.c = 1 THEN {fC} ELSE {})])
    [] j.prog = "bcd" ->
         LET r == IF j.add THEN a + b + j.c ELSE a - b - j.c
         IN  m.A = Bcd(r % 100) /\ (fC \in m.F) = (r \notin 0 .. 99)
    [] j.prog = "rotate" ->
         /\ m.rp["BC"] = 256 * (Turned(j) % 256)
         /\ j.y \in {2, 3} => (fC \in m.F) = (Turned(j) > 255)
    [] j.prog = "shift" ->
         m.rp["HL"] = (CASE j.k = "srl" -> a \div 2
                         [] j.k = "sra" -> (a \div 2) + (IF a > 32767 THEN 32768 ELSE 0)
                         [] j.k = "sla" -> (2 * a) % 65536)
    [] j.prog = "signed" ->
         (m.A = 1) = ((IF a > 127 THEN a - 256 ELSE a) < (IF b > 127 THEN b - 256 ELSE b))
    [] j.prog = "mul" -> m.rp["HL"] = a * b
    [] j.prog = "div" -> m.A = a % b /\ m.rp["DE"] = 256 * (a \div b) + b
    [] j.prog = "copy" ->
         /\ m.rp["BC"] = 0
         /\ \A x \in Data .. Data + 7 : m.mem[x] = Copied(j)[x]
    [] j.prog = "find" ->
         LET d == IF j.up THEN 1 ELSE -1
             hits == {k \in 1 .. j.n : a = 10 + j.from + d * (k - 1)}
             steps == IF hits = {} THEN j.n ELSE Min(hits)
         IN  /\ m.rp["BC"] = j.n - steps
             /\ m.rp["HL"] = Data + j.from + d * steps
             /\ (fZ \in m.F) = (hits # {})
    [] j.prog = "ports" ->
         /\ \A k \in 0 .. j.n - 1 : cell[k] = (j.n - k) + 27
         /\ m.out = [k \in 1 .. j.n |-> <<256 * (j.n - k) + 9, cell[j.n - k]>>]
    [] j.prog = "sum" -> m.A = (a * (a + 1)) \div 2
    [] j.prog = "index" ->
         /\ cell[0] = 138 /\ cell[1] = 42 /\ cell[4] = 15 /\ cell[5] = 12 + 15
         /\ m.A = 27 /\ m.rp["IX"] = Data + 3 /\ m.rp["IY"] = Data + 3
    [] j.prog = "digits" ->
         \* A5 B6 moves up by a digit, from A and to A; then the last byte moves
         \* down again.
         cell[0] = \h5B /\ cell[1] = \hA6 /\ m.A = a
    [] j.prog = "flags" -> m.A = a /\ m.F = MCStart(j).F /\ m.A_ = a /\ m.rp["BC"] = 256 * a + j.c
    [] j.prog = "swap" ->
         /\ m.rp_ = [p \in {"BC", "DE", "HL"} |->
                     CASE p = "BC" -> 3061 [] p = "DE" -> 513 [] p = "HL" -> 2040]
         /\ m.rp["DE"] = 3061 /\ m.rp["HL"] = 2040 /\ m.rp["BC"] = 1027
    [] j.prog = "atomic" -> m.A = 0
    [] j.prog = "negate" -> m.A = 0 /\ m.rp["BC"] = 256 * a + ((256 - a) % 256)
    [] j.prog = "store" -> m.rp["BC"] = 3061 /\ m.rp["IX"] = 2040
    \* An NMI handler does not change what the program sees of its own IFF2.
    [] j.prog = "iff" -> m.A = 1 /\ m.out = <<<<256 + 7, 1>>>>
    [] j.prog = "branch" -> m.rp["BC"] = 512 + 3
    [] j.prog = "count" -> m.rp["BC"] = (1027 % 256)
=============================================================================
