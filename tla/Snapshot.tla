------------------------------ MODULE Snapshot ------------------------------
(***************************************************************************)
(* Snapshots (snap.c): what .z80 and .sna files keep of the machine, and    *)
(* what loading makes of them.  A program runs, the user saves and loads.   *)
(* A file may be cut, since no write is checked, or it may have been        *)
(* written by another program.                                              *)
(*                                                                          *)
(*   m      the machine                                                     *)
(*   file   the snapshot file: its bytes, its extension and, for the        *)
(*          properties, the machine it is of, whether it is whole, and who  *)
(*          wrote it                                                        *)
(*   back   how often saving has moved PC back since the last instruction   *)
(*   did    what was done last, rc what it returned, over whether it stored *)
(*          bytes outside of the RAM; a load may have been "short" of the   *)
(*          memory that it needs behind the file, or the file "unopened"    *)
(*   work   how much was done; it ends when a file has been loaded          *)
(***************************************************************************)
EXTENDS SnapRle, Integers, SequencesExt, FiniteSets

CONSTANTS Models,    \* the machines there are
          Cpus,      \* the states of the CPU that a program reaches
          Pages,     \* the contents of a page
          Banks,     \* the banks that a program changes
          Selects,   \* the values that it writes to the page select port
          Junk,      \* what uninitialized bytes may hold
          Cuts,      \* the lengths that a file may be cut to
          Edits,     \* bytes of a file that other programs write
          MaxWork    \* a bound on what is done before a file is loaded

VARIABLES m, file, back, did, rc, over, work

vars == <<m, file, back, did, rc, over, work>>

Word(w) == w % 65536

RamBanks(model) == IF model = "48K" THEN 3 ELSE 8
Filled(model, b) == Times(RamBanks(model) * PageBytes, b)
Bank(ram, n) == SubSeq(ram, (n * PageBytes) + 1, (n + 1) * PageBytes)

(* fread(): n bytes from a position on, or as many as there are.            *)
Bytes(f, from, n) == SubSeq(f, from + 1, IF from + n < Len(f) THEN from + n ELSE Len(f))

(* Bytes are stored from the address `at' of the RAM on.                    *)
Stored(ram, at, bytes) ==
  [k \in DOMAIN ram |-> IF k - at \in DOMAIN bytes THEN bytes[k - at] ELSE ram[k]]
Overruns(ram, at, bytes) == at + Len(bytes) > Len(ram)

(***************************************************************************)
(* Memory as the CPU sees it: the bank in a slot, and zx_memset16() and     *)
(* zx_memget16().  The ROM cannot be written; it reads as zeros here.       *)
(***************************************************************************)
BankIn(mm, slot) ==
  IF mm.model = "48K" THEN slot - 1
  ELSE CASE slot = 1 -> 5 [] slot = 2 -> 2 [] slot = 3 -> mm.page % 8
RamIndex(mm, addr) ==
  (BankIn(mm, addr \div 16384) * PageBytes) + ((addr % 16384) % PageBytes) + 1
Peek(mm, addr) == IF addr < 16384 THEN 0 ELSE mm.ram[RamIndex(mm, addr)]
Poke(mm, addr, b) == IF addr < 16384 THEN mm ELSE [mm EXCEPT !.ram[RamIndex(mm, addr)] = b]
Peek16(mm, addr) == Peek(mm, addr) + (256 * Peek(mm, Word(addr + 1)))
Poke16(mm, addr, w) == Poke(Poke(mm, addr, w % 256), Word(addr + 1), w \div 256)

(***************************************************************************)
(* What the CPU keeps between two instructions; the lock holds off          *)
(* interrupts for one of them.                                              *)
(***************************************************************************)
R8 == 0..255
R16 == 0..65535

CpuState ==
  [A : R8, F : R8, B : R8, C : R8, D : R8, E : R8, H : R8, L : R8,
   A_ : R8, F_ : R8, B_ : R8, C_ : R8, D_ : R8, E_ : R8, H_ : R8, L_ : R8,
   IX : R16, IY : R16, SP : R16, PC : R16, I : R8, R : R8,
   IFF1 : 0..1, IFF2 : 0..1, IM : 0..2, modifier : BOOLEAN, halted : BOOLEAN,
   lock : BOOLEAN]

ASSUME CpusAssumption == Cpus \subseteq CpuState
ASSUME BytesAssumption ==
  Pages \subseteq [1..PageBytes -> R8] /\ Selects \subseteq R8 /\ Junk \subseteq R8
ASSUME CutsAssumption == Cuts \subseteq Nat

(***************************************************************************)
(* zx_reset(), zx_select_memmodel(), zx_mem_page_select() and the AY.       *)
(***************************************************************************)
ResetCpu ==
  [A |-> 0, F |-> 0, B |-> 0, C |-> 0, D |-> 0, E |-> 0, H |-> 0, L |-> 0,
   A_ |-> 0, F_ |-> 0, B_ |-> 0, C_ |-> 0, D_ |-> 0, E_ |-> 0, H_ |-> 0, L_ |-> 0,
   IX |-> 0, IY |-> 0, SP |-> 0, PC |-> 0, I |-> 0, R |-> 0,
   IFF1 |-> 0, IFF2 |-> 0, IM |-> 0, modifier |-> FALSE, halted |-> FALSE, lock |-> FALSE]

PageSelect(mm, v) ==
  IF mm.model = "48K" \/ mm.locked THEN mm
  ELSE [mm EXCEPT !.page = v, !.locked = (v \div 32) % 2 = 1]

Reset_ClearsRam(mm) ==
  PageSelect([mm EXCEPT !.cpu = ResetCpu, !.ay.reg[7] = 63, !.locked = FALSE,
                        !.ram = Filled(mm.model, 255)], 7)
Reset(mm) ==
  PageSelect([mm EXCEPT !.cpu = ResetCpu, !.ay.reg[7] = 63, !.locked = FALSE], 7)

(* The RAM is filled with random bytes: all of them `fill' here.            *)
SelectModel(mm, model, fill) == [mm EXCEPT !.model = model, !.ram = Filled(model, fill)]

AyRegs == 0..15
AyLoaded(mm, sel, regs) == [mm EXCEPT !.ay = [sel |-> sel % 16, reg |-> regs]]

PowerOn(model) ==
  [model |-> model, cpu |-> ResetCpu, border |-> 7, page |-> 7, locked |-> FALSE,
   ay |-> [sel |-> 0, reg |-> [r \in AyRegs |-> 0]], ram |-> Filled(model, 0)]

(***************************************************************************)
(* Saving.                                                                  *)
(***************************************************************************)
PrepareCpu(mm) ==
  IF mm.cpu.modifier THEN [mm EXCEPT !.cpu.PC = Word(@ - 1)] ELSE mm

WritePage(ram, n, number) ==
  LET data == Packed(Bank(ram, n)) IN Le(Len(data)) \o <<number>> \o data

HwNumber(model) == IF model = "48K" THEN 0 ELSE 3

(* The pages of a .z80 file in order: the bank and the number it is given.  *)
PageOrder(model) ==
  IF model = "48K" THEN <<<<1, 4>>, <<2, 5>>, <<0, 8>>>>
  ELSE [i \in 1..8 |-> <<i - 1, i + 2>>]

Z80Flags(mm) == (mm.cpu.R \div 128) + (2 * mm.border) + 32

(* The registers, which older files have as well, the rest of the head, and *)
(* the pages.                                                               *)
Z80Registers(c, pc, flags) ==
  <<c.A, c.F, c.C, c.B, c.L, c.H>> \o Le(pc) \o Le(c.SP) \o <<c.I, c.R, flags, c.E, c.D>>
    \o <<c.C_, c.B_, c.E_, c.D_, c.L_, c.H_, c.A_, c.F_>> \o Le(c.IY) \o Le(c.IX)
    \o <<c.IFF1, c.IFF2, c.IM>>

Z80Head(mm) ==
  Z80Registers(mm.cpu, 0, Z80Flags(mm)) \o Le(23) \o Le(mm.cpu.PC)
    \o <<HwNumber(mm.model), mm.page, 0, 7, mm.ay.sel>> \o [i \in 1..16 |-> mm.ay.reg[i - 1]]

Z80Pages(mm) ==
  LET order == PageOrder(mm.model) IN
  FlattenSeq([i \in DOMAIN order |-> WritePage(mm.ram, order[i][1], order[i][2])])

Z80Bytes(mm) == Z80Head(mm) \o Z80Pages(mm)

(* The 48K .sna file has PC on the stack, and no room for IFF2.             *)
PushPC(mm) ==
  IF mm.model # "48K" THEN mm
  ELSE LET sp == Word(mm.cpu.SP - 2) IN
       Poke16([mm EXCEPT !.cpu.SP = sp], sp, mm.cpu.PC)
UnpushPC_LeavesSP(mm) == IF mm.model # "48K" THEN mm ELSE Poke16(mm, mm.cpu.SP, 0)
UnpushPC(mm) ==
  IF mm.model # "48K" THEN mm
  ELSE Poke16([mm EXCEPT !.cpu.SP = Word(@ + 2)], mm.cpu.SP, 0)

SnaHead(mm) ==
  LET c == mm.cpu IN
  <<c.I, c.L_, c.H_, c.E_, c.D_, c.C_, c.B_, c.F_, c.A_>>
    \o <<c.L, c.H, c.E, c.D, c.C, c.B>> \o Le(c.IY) \o Le(c.IX)
    \o <<4 * c.IFF1, c.R, c.F, c.A>> \o Le(c.SP) \o <<c.IM, mm.border>>

FirstBanks(page) == <<5, 2, page % 8>>
OtherBanks(page) ==
  LET others[n \in 0..8] ==
        IF n = 0 THEN <<>>
        ELSE IF n - 1 \in {2, 5, page % 8} THEN others[n - 1]
        ELSE Append(others[n - 1], n - 1)
  IN  others[8]
BanksOf(ram, order) == FlattenSeq([i \in DOMAIN order |-> Bank(ram, order[i])])

SnaBytes(mm) ==
  IF mm.model = "48K" THEN SnaHead(mm) \o mm.ram
  ELSE SnaHead(mm) \o BanksOf(mm.ram, FirstBanks(mm.page))
         \o BanksOf(mm.ram, OtherBanks(mm.page))
         \o Le(mm.cpu.PC) \o <<mm.page, 0>>

(***************************************************************************)
(* Loading.  The result of a load is the machine, what is returned, and     *)
(* whether bytes were stored behind the end of the RAM.                     *)
(***************************************************************************)
Result(mm, code, out) == [m |-> mm, rc |-> code, over |-> out]

(* The pages of a newer .z80 file, each with its length and number.         *)
BankOfPage(model, number) ==
  IF model = "48K" THEN CASE number = 8 -> 0 [] number = 4 -> 1 [] number = 5 -> 2 [] OTHER -> -1
  ELSE IF number \in 3..10 THEN number - 3 ELSE -1

ReadPage(res, f, tmp, pos) ==
  LET n == BankOfPage(res.m.model, U8(f, tmp, pos + 2))
      bytes == Unpacked(f, tmp, pos + 3, PageBytes)
      at == n * PageBytes
  IN  IF n < 0 THEN res
      ELSE [m |-> [res.m EXCEPT !.ram = Stored(@, at, bytes)],
            over |-> res.over \/ Overruns(res.m.ram, at, bytes)]

ReadPages(mm, f, tmp, pos) ==
  LET read[i \in 0..RamBanks(mm.model)] ==
        IF i = 0 THEN [res |-> [m |-> mm, over |-> FALSE], pos |-> pos]
        ELSE LET r == read[i - 1] IN
             [res |-> ReadPage(r.res, f, tmp, r.pos),
              pos |-> r.pos + 3 + U16(f, tmp, r.pos)]
      last == read[RamBanks(mm.model)].res
  IN  Result(last.m, 0, last.over)

(* An older one has the RAM of a 48K in one piece.                          *)
ReadWhole(mm, f, tmp, pos, compressed) ==
  LET n == 3 * PageBytes
      bytes == IF compressed THEN Unpacked(f, tmp, pos, n)
               ELSE Bytes(f, pos, n)
  IN  Result([mm EXCEPT !.ram = Stored(@, 0, bytes)], 0, Overruns(mm.ram, 0, bytes))

Flag(b) == IF b # 0 THEN 1 ELSE 0

Flags1(f, tmp) == LET b == U8(f, tmp, 12) IN IF b = 255 THEN 1 ELSE b

(* The registers in the head; PC is zero in newer files, which have another *)
(* one behind.                                                              *)
Z80Cpu(f, tmp) ==
  LET u8(p) == U8(f, tmp, p)
      u16(p) == U16(f, tmp, p)
  IN  [A |-> u8(0), F |-> u8(1), C |-> u8(2), B |-> u8(3), L |-> u8(4), H |-> u8(5),
       PC |-> u16(6), SP |-> u16(8), I |-> u8(10),
       R |-> (u8(11) % 128) + (128 * (Flags1(f, tmp) % 2)), E |-> u8(13), D |-> u8(14),
       C_ |-> u8(15), B_ |-> u8(16), E_ |-> u8(17), D_ |-> u8(18), L_ |-> u8(19),
       H_ |-> u8(20), A_ |-> u8(21), F_ |-> u8(22), IY |-> u16(23), IX |-> u16(25),
       IFF1 |-> Flag(u8(27)), IFF2 |-> Flag(u8(28)), IM |-> u8(29) % 4,
       modifier |-> FALSE, halted |-> FALSE, lock |-> FALSE]

LoadZ80(mm, f, tmp, fill) ==
  LET u8(p) == U8(f, tmp, p)
      u16(p) == U16(f, tmp, p)
      cpu == Z80Cpu(f, tmp)
      flags1 == Flags1(f, tmp)
      m1 == [Reset(mm) EXCEPT !.cpu = cpu, !.border = (flags1 \div 2) % 8]
      hw == u8(34)
      m2 == SelectModel([m1 EXCEPT !.cpu.PC = u16(32)], IF hw < 2 THEN "48K" ELSE "128K", fill)
      m3 == IF hw < 2 THEN m2 ELSE PageSelect(m2, u8(35))
      m4 == AyLoaded(m3, u8(38), [r \in AyRegs |-> u8(39 + r)])
  IN  CASE cpu.IM = 3 -> Result(m1, -1, FALSE)
        [] cpu.IM # 3 /\ cpu.PC # 0 ->
             ReadWhole(SelectModel(m1, "48K", fill), f, tmp, 30, (flags1 \div 32) % 2 = 1)
        [] cpu.IM # 3 /\ cpu.PC = 0 /\ hw \notin {0, 1, 3, 4} ->
             Result([m1 EXCEPT !.cpu.PC = u16(32)], -1, FALSE)
        [] cpu.IM # 3 /\ cpu.PC = 0 /\ hw \in {0, 1, 3, 4} ->
             ReadPages(m4, f, tmp, 32 + u16(30))

(* Whole banks are read one after the other, as far as the file goes.       *)
ReadBanks(ram, f, pos, order) ==
  LET read[i \in 0..Len(order)] ==
        IF i = 0 THEN ram
        ELSE Stored(read[i - 1], order[i] * PageBytes,
                    Bytes(f, pos + ((i - 1) * PageBytes), PageBytes))
  IN  read[Len(order)]

Sna48Length == 27 + (3 * PageBytes)
Sna128Lengths == {27 + (8 * PageBytes) + 4, 27 + (9 * PageBytes) + 4}

PopPC(mm) ==
  LET c == mm.cpu IN
  Poke16([mm EXCEPT !.cpu.PC = Peek16(mm, c.SP), !.cpu.SP = Word(c.SP + 2)], c.SP, 0)

SnaCpu(f, tmp) ==
  LET u8(p) == U8(f, tmp, p)
      u16(p) == U16(f, tmp, p)
  IN  [I |-> u8(0), L_ |-> u8(1), H_ |-> u8(2), E_ |-> u8(3), D_ |-> u8(4), C_ |-> u8(5),
       B_ |-> u8(6), F_ |-> u8(7), A_ |-> u8(8), L |-> u8(9), H |-> u8(10), E |-> u8(11),
       D |-> u8(12), C |-> u8(13), B |-> u8(14), IY |-> u16(15), IX |-> u16(17),
       IFF2 |-> Flag(u8(19)), IFF1 |-> Flag(u8(19)), R |-> u8(20), F |-> u8(21),
       A |-> u8(22), SP |-> u16(23), IM |-> u8(25), PC |-> 0,
       modifier |-> FALSE, halted |-> FALSE, lock |-> FALSE]

LoadSna(mm, f, tmp, fill) ==
  LET u8(p) == U8(f, tmp, p)
      u16(p) == U16(f, tmp, p)
      cpu == SnaCpu(f, tmp)
      m1 == [Reset(mm) EXCEPT !.cpu = cpu]
      m2 == [m1 EXCEPT !.border = u8(26) % 8]
      m48 == [SelectModel(m2, "48K", fill) EXCEPT !.ram = Stored(@, 0, Bytes(f, 27, 3 * PageBytes))]
      page == u8(Sna48Length + 2)
      m128 == PageSelect(SelectModel([m2 EXCEPT !.cpu.PC = u16(Sna48Length)], "128K", fill), page)
      ram1 == ReadBanks(m128.ram, f, 27, FirstBanks(page))
      ram2 == ReadBanks(ram1, f, Sna48Length + 4, OtherBanks(page))
      is48 == Len(f) = Sna48Length
      is128 == Len(f) \in Sna128Lengths
      known == cpu.IM \in 0..2
  IN  CASE ~is48 /\ ~is128 -> Result(mm, -1, FALSE)
        [] (is48 \/ is128) /\ ~known -> Result(m1, -1, FALSE)
        [] is48 /\ known -> Result(PopPC(m48), 0, FALSE)
        [] is128 /\ known -> Result([m128 EXCEPT !.ram = ram2], 0, FALSE)

(***************************************************************************)
(* What other programs write: a .sna file of a 128K with PC and the page    *)
(* register behind the first banks, and the older .z80 files.               *)
(***************************************************************************)
OtherSna128(mm) ==
  SnaHead(mm) \o BanksOf(mm.ram, FirstBanks(mm.page)) \o Le(mm.cpu.PC) \o <<mm.page, 0>>
    \o BanksOf(mm.ram, OtherBanks(mm.page))
OtherZ80(mm, compressed) ==
  Z80Registers(mm.cpu, mm.cpu.PC, Z80Flags(mm) - (IF compressed THEN 0 ELSE 32))
    \o (IF compressed THEN Packed(mm.ram) \o <<0, Esc, Esc, 0>> ELSE mm.ram)

(***************************************************************************)
(* The machine that goes on where m was.                                    *)
(***************************************************************************)
Resumed(mm, moved) ==
  [mm EXCEPT !.cpu.PC = IF mm.cpu.modifier THEN Word(@ - 1 + moved) ELSE @,
             !.cpu.modifier = FALSE, !.cpu.halted = FALSE, !.cpu.lock = FALSE]

NoFile == [bytes |-> <<>>, ext |-> "none", of |-> PowerOn("48K"), whole |-> FALSE, by |-> "gzx"]

Init ==
  /\ m \in {PowerOn(model) : model \in Models}
  /\ file = NoFile
  /\ back = 0 /\ did = "start" /\ rc = 0 /\ over = FALSE /\ work = 0

Loads == {"load", "short", "unopened"}

(* The program reaches another state of the CPU or writes to a page or to   *)
(* the page select port.                                                    *)
Costs(n) == did \notin Loads /\ work + n <= MaxWork /\ work' = work + n
Work(mm, cost) ==
  /\ Costs(cost)
  /\ m' = mm
  /\ back' = 0 /\ did' = "work"
  /\ UNCHANGED <<file, rc, over>>
Execute == \E c \in Cpus : Work([m EXCEPT !.cpu = c], 1)
Write == \E n \in Banks, page \in Pages :
           n < RamBanks(m.model) /\ Work([m EXCEPT !.ram = Stored(@, n * PageBytes, page)], 2)
Select == \E v \in Selects : Work(PageSelect(m, v), 1)

(* The user chooses another machine.                                        *)
ChooseModel == \E model \in Models : Work(Reset(SelectModel(m, model, 0)), 1)

(* zx_save_snap().  The file cannot be opened, or it is cut, or it is       *)
(* whole; the result is the same in the last two cases.                     *)
Saved(mm, code) ==
  /\ Costs(1)
  /\ m' = mm
  /\ rc' = code /\ did' = "save"
  /\ UNCHANGED over
Wrote(ext, bytes, cut) ==
  file' = [bytes |-> IF cut < Len(bytes) THEN SubSeq(bytes, 1, cut) ELSE bytes, ext |-> ext,
           of |-> Resumed(m, back), whole |-> cut >= Len(bytes) /\ back = 0, by |-> "gzx"]
Moves == IF m.cpu.modifier THEN back + 1 ELSE back

SaveInvalid == m.model \notin {"48K", "128K"} /\ Saved(m, -1) /\ UNCHANGED <<file, back>>

SaveZ80 ==
  /\ m.model \in {"48K", "128K"}
  /\ back' = Moves
  /\ \/ Saved(PrepareCpu(m), -1) /\ UNCHANGED file
     \/ /\ Saved(PrepareCpu(m), 0)
        /\ \E cut \in Cuts : Wrote("z80", Z80Bytes(PrepareCpu(m)), cut)

SaveSna ==
  /\ m.model \in {"48K", "128K"}
  /\ \/ Saved(m, -1) /\ UNCHANGED <<file, back>>
     \/ LET pushed == PushPC(PrepareCpu(m)) IN
        /\ Saved(UnpushPC(pushed), 0)
        /\ back' = Moves
        /\ \E cut \in Cuts : Wrote("sna", SnaBytes(pushed), cut)

(* Another program writes a file of the same machine, or an unusual one.    *)
Other(ext, bytes, of) ==
  /\ did = "work"
  /\ back = 0
  /\ file' = [bytes |-> bytes, ext |-> ext, of |-> Resumed(of, 0), whole |-> TRUE, by |-> "other"]
  /\ did' = "other"
  /\ UNCHANGED <<m, back, rc, over, work>>
OtherWrites ==
  LET mm == PrepareCpu(m) IN
  \/ m.model = "128K" /\ Other("sna", OtherSna128(mm), m)
  \/ /\ m.model = "48K" /\ mm.cpu.PC # 0
     /\ \E compressed \in BOOLEAN : Other("z80", OtherZ80(mm, compressed), m)
Edit ==
  /\ did = "save" /\ file.whole
  /\ \E e \in Edits : e[1] <= Len(file.bytes)
                     /\ file' = [file EXCEPT !.bytes[e[1]] = e[2], !.whole = FALSE]
  /\ did' = "other"
  /\ UNCHANGED <<m, back, rc, over, work>>

(* zx_load_snap().  When the loader has succeeded, memory is allocated for   *)
(* the name of the file with the pictures; if there is none, -1 is returned *)
(* (snap.c:713).                                                            *)
Load ==
  /\ did \notin Loads
  /\ file.ext # "none"
  /\ \E junk \in Junk :
       LET res == IF file.ext = "z80" THEN LoadZ80(m, file.bytes, junk, junk)
                  ELSE LoadSna(m, file.bytes, junk, junk)
       IN  /\ m' = res.m /\ over' = res.over
           /\ \/ did' = "load" /\ rc' = res.rc
              \/ did' = "short" /\ res.rc = 0 /\ rc' = -1
  /\ back' = 0
  /\ UNCHANGED <<file, work>>

(* Both loaders open the file before they reset the machine.                *)
LoadUnopened ==
  /\ did \notin Loads
  /\ file.ext # "none"
  /\ did' = "unopened" /\ rc' = -1
  /\ UNCHANGED <<m, file, back, over, work>>

Next ==
  \/ Execute \/ Write \/ Select \/ ChooseModel
  \/ SaveInvalid \/ SaveZ80 \/ SaveSna
  \/ OtherWrites \/ Edit
  \/ Load \/ LoadUnopened

Spec == Init /\ [][Next]_vars

(***************************************************************************)
(* Properties.                                                              *)
(***************************************************************************)

(* What a file of each kind keeps: a .sna file has neither the AY's         *)
(* registers nor IFF2, and has zeros under the stack; a 48K has no page     *)
(* register.                                                                *)
Kept(mm, ext) ==
  LET c == mm.cpu
      sp == Word(c.SP - 2)
      keeps == IF ext = "z80" THEN mm
               ELSE IF mm.model = "48K" THEN [Poke16(mm, sp, 0) EXCEPT !.cpu.IFF2 = c.IFF1]
               ELSE [mm EXCEPT !.cpu.IFF2 = c.IFF1]
  IN  [model |-> mm.model, cpu |-> keeps.cpu, ram |-> keeps.ram, border |-> mm.border,
       paging |-> IF mm.model = "48K" THEN <<>> ELSE <<mm.page, mm.locked>>,
       ay |-> IF ext = "z80" /\ file.by = "gzx" THEN <<mm.ay>> ELSE <<>>]

(* A .z80 page whose last byte is an Esc that stands for itself, before     *)
(* another one, the length of the next page, or at the end of the file,     *)
(* where the byte that is read is not initialized.                          *)
Ambiguous ==
  /\ file.ext = "z80" /\ file.by = "gzx"
  /\ LET order == PageOrder(file.of.model)
         page(i) == Bank(file.of.ram, order[i][1])
     IN  \E i \in DOMAIN order :
           /\ EndsOpen(page(i))
           /\ i = Len(order) \/ Len(Packed(page(i + 1))) % 256 = Esc

(* PC cannot be put on a stack in ROM.                                      *)
StackInRom ==
  /\ file.ext = "sna" /\ file.of.model = "48K"
  /\ \E a \in {1, 2} : Word(file.of.cpu.SP - a) < 16384

OwnSna128 == file.ext = "sna" /\ file.of.model = "128K" /\ file.by = "gzx"

Restores ==
  /\ rc = IF did = "short" THEN -1 ELSE 0
  /\ ~over /\ Kept(m, file.ext) = Kept(file.of, file.ext)

(* A whole file loads as the machine that it is of, going on at the         *)
(* instruction, prefixes included, that it was saved before, whatever the   *)
(* machine was and whatever memory held; no byte is stored outside of RAM.  *)
(* So does one that is reported as an error because memory is short.        *)
(* (zx_load_snap_z80(), zx_load_snap_sna(), zx_save_snap_z80(),             *)
(* zx_save_snap_sna(); the exceptions are in the README.)                   *)
LoadRestores ==
  did \in {"load", "short"} /\ file.whole /\ ~Ambiguous /\ ~StackInRom /\ ~OwnSna128
    => Restores

(* Saving is invisible to the program that goes on: a save that follows     *)
(* another without an instruction in between excepted, it goes on behind the *)
(* prefix or at it, with the same registers and memory, but for the two     *)
(* bytes under the stack (zx_save_snap_sna()).                              *)
SaveIsInvisible ==
  [][did' = "save" /\ back = 0 =>
       LET sp == Word(m.cpu.SP - 2) IN
       /\ m'.cpu.PC \in {m.cpu.PC, Resumed(m, 0).cpu.PC}
       /\ [m' EXCEPT !.cpu.PC = m.cpu.PC] \in {m, Poke16(m, sp, 0)}]_vars

(* A load that returns -1 has left the memory and the kind of the machine   *)
(* alone, though not the registers (snap.c:134, 184, 204, 215, 464, 474,    *)
(* 513), but for one return: when memory is short behind a load that has    *)
(* succeeded, -1 comes with the machine replaced (snap.c:715), and by       *)
(* LoadRestores it is the machine of the file.  Nothing lies in between: no *)
(* load that fails leaves part of a file in the memory.                     *)
FailedLoadKeepsMemory ==
  [][did' \in Loads /\ rc' = -1 =>
       did' = "short" \/ (m'.model = m.model /\ m'.ram = m.ram)]_vars

(* F2 saves a snapshot and F3 loads it (README.md:59), also in a .sna file  *)
(* of a 128K.                                                               *)
OwnSnaLoads == did = "load" /\ file.whole /\ OwnSna128 => Restores
=============================================================================
