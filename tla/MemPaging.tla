----------------------------- MODULE MemPaging -----------------------------
(***************************************************************************)
(* Memory paging (memio.c): the map of the four 16K slots of the Z80's      *)
(* address space, the paging ports of the 128K, +2 and +2A, the 48K lock,   *)
(* the choice of the machine and the reset.                                 *)
(*                                                                          *)
(* The machine is a record `m'.  C functions are operators on it, so that   *)
(* an action is all that one key, menu line, snapshot or OUT instruction    *)
(* does.  A byte written to a paging port is a record of its bits: `ram' is *)
(* bits 0-2, the enhanced paging port reads the same bits as `all' (bit 0)  *)
(* and `mode' (bits 1-2).  The +3 and the ZX81 cannot be chosen and are     *)
(* left out.                                                                *)
(***************************************************************************)
EXTENDS Naturals

CONSTANT Models         \* the machines that may be chosen

ASSUME ModelsAssumption == Models \subseteq {"48K", "128K", "PLUS2", "PLUS2A"}

VARIABLE m

vars == m

-----------------------------------------------------------------------------
(* Registers and banks.                                                     *)

Page == [ram : 0 .. 7, scr : BOOLEAN, rom : BOOLEAN, lock : BOOLEAN]
Epg == [all : BOOLEAN, mode : 0 .. 3]

DefaultPage == [ram |-> 7, scr |-> FALSE, rom |-> FALSE, lock |-> FALSE]
NoEpg == [all |-> FALSE, mode |-> 0]

RAM(n) == [kind |-> "ram", n |-> n]
ROM(n) == [kind |-> "rom", n |-> n]
\* A pointer into memory that has been reallocated.
Stale == [kind |-> "stale", n |-> 0]

Slot == 0 .. 3
Bank == [kind : {"ram", "rom", "stale"}, n : 0 .. 7]

HasBanks(model) == model # "48K"
HasEpg(model) == model = "PLUS2A"

\* intact: the last choice of a machine succeeded.
Machine ==
  [model : {"48K", "128K", "PLUS2", "PLUS2A"}, page : Page, epg : Epg, lock : BOOLEAN,
   bank : [Slot -> Bank], scr : 0 .. 7, mode48k : BOOLEAN, intact : BOOLEAN]

\* The map of the 48K; `zxram' has three banks there.
Map48 == [s \in Slot |-> IF s = 0 THEN ROM(0) ELSE RAM(s - 1)]

\* The map that the others start with.
Map128 ==
  [s \in Slot |-> CASE s = 0 -> ROM(0) [] s = 1 -> RAM(5)
                    [] s = 2 -> RAM(2) [] s = 3 -> RAM(7)]

\* All RAM: the bank in each slot, by mode.
SpecialMap(mode) ==
  [s \in Slot |->
     IF mode = 0 THEN RAM(s)
     ELSE CASE s = 0 -> RAM(4)
            [] s = 1 -> RAM(IF mode = 3 THEN 7 ELSE 5)
            [] s = 2 -> RAM(6)
            [] s = 3 -> RAM(IF mode = 1 THEN 7 ELSE 3)]

RomNumber(mm) ==
  (IF mm.page.rom THEN 1 ELSE 0)
    + (IF HasEpg(mm.model) /\ mm.epg.mode >= 2 THEN 2 ELSE 0)

EpgOf_NoMask(v) == [all |-> v.ram % 2 = 1, mode |-> v.ram]

EpgOf(v) == [all |-> v.ram % 2 = 1, mode |-> v.ram \div 2]

-----------------------------------------------------------------------------
(* The functions.                                                           *)

\* zx_epg_write()
EpgWrite(mm, v) ==
  IF v.all THEN [mm EXCEPT !.epg = v, !.bank = SpecialMap(v.mode)]
  ELSE [mm EXCEPT !.epg = v, !.bank = [@ EXCEPT ![1] = RAM(5), ![2] = RAM(2)]]

Refresh_NoNotify(mm) ==
  [mm EXCEPT !.bank    = [@ EXCEPT ![3] = RAM(mm.page.ram), ![0] = ROM(RomNumber(mm))],
             !.scr     = IF mm.page.scr THEN 7 ELSE 5,
             !.lock    = @ \/ mm.page.lock]

\* The end of zx_mem_page_select(): RAM, ROM and screen are what the registers
\* say; the lock is taken and the tape deck is told.
Refresh(mm) ==
  [mm EXCEPT !.bank    = [@ EXCEPT ![3] = RAM(mm.page.ram), ![0] = ROM(RomNumber(mm))],
             !.scr     = IF mm.page.scr THEN 7 ELSE 5,
             !.lock    = @ \/ mm.page.lock,
             !.mode48k = @ \/ mm.page.lock]

PageSelect_Unlocked(mm, port, v) ==
  IF ~HasBanks(mm.model) THEN mm
  ELSE IF ~HasEpg(mm.model) THEN Refresh([mm EXCEPT !.page = v])
  ELSE IF port = "epg"
       THEN IF EpgOf(v).all THEN EpgWrite(mm, EpgOf(v))
            ELSE Refresh(EpgWrite(mm, EpgOf(v)))
       ELSE Refresh(IF port = "pagesel" THEN [mm EXCEPT !.page = v] ELSE mm)

PageSelect_EpgReturns(mm, port, v) ==
  IF ~HasBanks(mm.model) \/ mm.lock THEN mm
  ELSE IF ~HasEpg(mm.model) THEN Refresh([mm EXCEPT !.page = v])
  ELSE IF port = "epg" THEN EpgWrite(mm, EpgOf(v))
  ELSE Refresh(IF port = "pagesel" THEN [mm EXCEPT !.page = v] ELSE mm)

\* zx_mem_page_select(): the 128K takes every port, the +2A is exact - but any
\* port refreshes its map.
PageSelect(mm, port, v) ==
  IF ~HasBanks(mm.model) \/ mm.lock THEN mm
  ELSE IF ~HasEpg(mm.model) THEN Refresh([mm EXCEPT !.page = v])
  ELSE IF port = "epg"
       THEN IF EpgOf(v).all THEN EpgWrite(mm, EpgOf(v))
            ELSE Refresh(EpgWrite(mm, EpgOf(v)))
       ELSE Refresh(IF port = "pagesel" THEN [mm EXCEPT !.page = v] ELSE mm)

\* zx_mem_page_reset()
PageReset(mm) ==
  PageSelect([mm EXCEPT !.lock = FALSE, !.epg = NoEpg], "pagesel", DefaultPage)

\* zx_select_memmodel() that succeeds; page_reg, epg_reg and the lock stay.
SelectModel(mm, model) ==
  [mm EXCEPT !.model   = model,
             !.bank    = IF HasBanks(model) THEN Map128 ELSE Map48,
             !.scr     = IF HasBanks(model) THEN 5 ELSE 0,
             !.mode48k = ~HasBanks(model),
             !.intact  = TRUE]

\* zx_select_memmodel() when memory runs out or a ROM file is missing.
SelectModelFails(mm, model) ==
  [mm EXCEPT !.model = model, !.bank = [s \in Slot |-> Stale], !.intact = FALSE]

\* No caller looks at the result.
Selected(mm, model) == {SelectModel(mm, model), SelectModelFails(mm, model)}

IsBasicRom_AnyMode(mm) ==
  \/ ~HasBanks(mm.model)
  \/ HasEpg(mm.model) /\ mm.page.rom /\ mm.epg.mode >= 2
  \/ HasBanks(mm.model) /\ ~HasEpg(mm.model) /\ mm.page.rom

\* zx_mem_is_48k_basic_rom()
IsBasicRom(mm) ==
  \/ ~HasBanks(mm.model)
  \/ HasEpg(mm.model) /\ ~mm.epg.all /\ mm.page.rom /\ mm.epg.mode >= 2
  \/ HasBanks(mm.model) /\ ~HasEpg(mm.model) /\ mm.page.rom

\* zx_memset8() stores the byte.
WriteStored(mm, slot) == slot # 0 \/ mm.epg.all

-----------------------------------------------------------------------------
(* The machine is switched on, and what happens to it.                      *)

PowerOn ==
  [model |-> "48K", epg |-> NoEpg, lock |-> FALSE,
   page |-> [ram |-> 0, scr |-> FALSE, rom |-> FALSE, lock |-> FALSE],
   bank |-> Map48, scr |-> 0, mode48k |-> TRUE, intact |-> TRUE]

Init == m = PageReset(PowerOn)

\* The Z80 writes to a port whose bits 1 and 15 are zero.
Out ==
  \E port \in {"epg", "pagesel", "other"}, v \in Page : m' = PageSelect(m, port, v)

\* F7, the main menu, and a snapshot that cannot be read.
Reset == m' = PageReset(m)

\* Another machine, from a menu.
ChooseModel ==
  \E model \in Models : \E mm \in Selected(m, model) : m' = PageReset(mm)

\* A .z80 or .sna snapshot of a 48K.
Load48 ==
  /\ "48K" \in Models
  /\ m' \in Selected(PageReset(m), "48K")

\* A .z80 or .sna snapshot of a 128K: the last byte sent to the port is in it.
Load128 ==
  /\ "128K" \in Models
  /\ \E mm \in Selected(PageReset(m), "128K"), v \in Page :
       m' = PageSelect(mm, "pagesel", v)

\* An .ay file: nothing is reset.
LoadAY ==
  /\ "48K" \in Models
  /\ m' \in Selected(m, "48K")

Next == Out \/ Reset \/ ChooseModel \/ Load48 \/ Load128 \/ LoadAY

Spec == Init /\ [][Next]_vars

-----------------------------------------------------------------------------
(* Properties                                                               *)

\* The types of the registers, the banks and the flags.
TypeOK == m \in Machine

\* The memory map and the screen are always what the paging registers say,
\* through any sequence of port writes, resets, machine changes and snapshots:
\* nothing left over from another machine is visible.  (In the all-RAM modes
\* of the +2A a write to another port changes slots 0 and 3, and a reset leaves
\* slots 1 and 2: they are not promised.)
MapFollowsRegisters ==
  m.intact =>
    /\ m.model = "48K" => m.bank = Map48 /\ m.scr = 0
    /\ HasBanks(m.model) => m.scr = (IF m.page.scr THEN 7 ELSE 5)
    /\ HasBanks(m.model) /\ ~m.epg.all =>
         m.bank[3] = RAM(m.page.ram) /\ m.bank[0] = ROM(RomNumber(m))
    /\ HasBanks(m.model) /\ ~HasEpg(m.model) =>
         ~m.epg.all /\ m.bank[1] = RAM(5) /\ m.bank[2] = RAM(2)

\* The BASIC ROM of a machine.
BasicRom(model) ==
  ROM(CASE model = "48K" -> 0 [] model \in {"128K", "PLUS2"} -> 1
        [] model = "PLUS2A" -> 3)

\* The tape traps are taken only where the bank of the 48K BASIC ROM is mapped:
\* quick load and save never replace a routine of another ROM or of a program in
\* RAM (zx_mem_is_48k_basic_rom()).  What the bank holds is not said: the player
\* of an .ay file is put there (snap_ay.c:187-226) and the traps stay.
TrapRomMapped == m.intact /\ IsBasicRom(m) => m.bank[0] = BasicRom(m.model)

\* A machine with banks is locked exactly when the lock bit is on in the last
\* byte of the paging port, which is what a snapshot saves: a locked machine is
\* locked again when it is loaded, and only a reset or another machine ends it.
LockInRegister == HasBanks(m.model) => (m.lock <=> m.page.lock)

\* The tape deck knows when a program can use 48K only: a Stop-in-48K-mode
\* block is never played over then.
LockIsNotified == m.intact /\ (~HasBanks(m.model) \/ m.lock) => m.mode48k

\* What the deck is told is exactly that (gzx.c:120-121).
Mode48kExact == m.intact => (m.mode48k <=> ~HasBanks(m.model) \/ m.lock)

\* RAM in slot 0 can be written: zx_memset8() protects the slot by a register
\* while the map is made of pointers.  (The converse does not hold: a PAGESEL
\* write in an all-RAM mode of the +2A, or an .ay file loaded in one, maps a ROM
\* in slot 0 that is then not protected.)
RamWritable == m.intact /\ m.bank[0].kind = "ram" => WriteStored(m, 0)

=============================================================================
