-------------------------- MODULE MemPaging_proofs --------------------------
(***************************************************************************)
(* Proofs about MemPaging, for every set of machines.                       *)
(***************************************************************************)
EXTENDS MemPaging, TLAPS

-----------------------------------------------------------------------------
(* Types.                                                                   *)

LEMMA EpgOfType == ASSUME NEW v \in Page PROVE EpgOf(v) \in Epg
  BY DEF EpgOf, Page, Epg

LEMMA MapTypes ==
  /\ Map48 \in [Slot -> Bank]
  /\ Map128 \in [Slot -> Bank]
  /\ \A mode \in 0 .. 3 : SpecialMap(mode) \in [Slot -> Bank]
<1>1. Map48 \in [Slot -> Bank]
  BY DEF Map48, Slot, Bank, RAM, ROM
<1>2. Map128 \in [Slot -> Bank]
  BY DEF Map128, Slot, Bank, RAM, ROM
<1>3. \A mode \in 0 .. 3 : SpecialMap(mode) \in [Slot -> Bank]
  BY DEF SpecialMap, Slot, Bank, RAM
<1> QED BY <1>1, <1>2, <1>3

LEMMA RomNumberType == ASSUME NEW mm \in Machine PROVE RomNumber(mm) \in 0 .. 3
  BY DEF RomNumber

LEMMA RefreshType == ASSUME NEW mm \in Machine PROVE Refresh(mm) \in Machine
<1>1. ROM(RomNumber(mm)) \in Bank
  BY RomNumberType DEF ROM, Bank
<1>2. RAM(mm.page.ram) \in Bank
  BY DEF RAM, Bank, Machine, Page
<1> DEFINE bank == [mm.bank EXCEPT ![3] = RAM(mm.page.ram), ![0] = ROM(RomNumber(mm))]
           scr == IF mm.page.scr THEN 7 ELSE 5
           lock == mm.lock \/ mm.page.lock
           mode48k == mm.mode48k \/ mm.page.lock
<1>3. scr \in 0 .. 7 /\ lock \in BOOLEAN /\ mode48k \in BOOLEAN
  OBVIOUS
<1>4. bank \in [Slot -> Bank]
  BY <1>1, <1>2 DEF Machine, Slot
<1>5. Refresh(mm) =
        [mm EXCEPT !.bank = bank, !.scr = scr, !.lock = lock, !.mode48k = mode48k]
  BY DEF Refresh
<1> HIDE DEF bank, scr, lock, mode48k
<1> QED BY <1>3, <1>4, <1>5 DEF Machine

LEMMA EpgWriteType ==
  ASSUME NEW mm \in Machine, NEW v \in Epg
  PROVE  EpgWrite(mm, v) \in Machine
<1>1. SpecialMap(v.mode) \in [Slot -> Bank]
  BY MapTypes DEF Epg
<1>2. RAM(5) \in Bank /\ RAM(2) \in Bank
  BY DEF RAM, Bank
<1>3. [mm.bank EXCEPT ![1] = RAM(5), ![2] = RAM(2)] \in [Slot -> Bank]
  BY <1>2 DEF Machine, Slot
<1> QED BY <1>1, <1>3 DEF EpgWrite, Machine

LEMMA PageSelectType ==
  ASSUME NEW mm \in Machine, NEW port, NEW v \in Page
  PROVE  PageSelect(mm, port, v) \in Machine
<1>1. [mm EXCEPT !.page = v] \in Machine
  BY DEF Machine
<1>2. EpgWrite(mm, EpgOf(v)) \in Machine
  BY EpgOfType, EpgWriteType
<1> QED BY <1>1, <1>2, RefreshType DEF PageSelect

LEMMA PageResetType == ASSUME NEW mm \in Machine PROVE PageReset(mm) \in Machine
<1>0. NoEpg \in Epg
  BY DEF NoEpg, Epg
<1>1. [mm EXCEPT !.lock = FALSE, !.epg = NoEpg] \in Machine
  BY <1>0 DEF Machine
<1>2. DefaultPage \in Page
  BY DEF DefaultPage, Page
<1> QED BY <1>1, <1>2, PageSelectType DEF PageReset

LEMMA SelectedType ==
  ASSUME NEW mm \in Machine, NEW model \in Models, NEW r \in Selected(mm, model)
  PROVE  r \in Machine
<1>1. model \in {"48K", "128K", "PLUS2", "PLUS2A"}
  BY ModelsAssumption
<1>2. [s \in Slot |-> Stale] \in [Slot -> Bank]
  BY DEF Stale, Bank
<1> DEFINE bank == IF HasBanks(model) THEN Map128 ELSE Map48
           scr == IF HasBanks(model) THEN 5 ELSE 0
           mode48k == ~HasBanks(model)
<1>3. SelectModel(mm, model) \in Machine
  <2>1. bank \in [Slot -> Bank]
    BY MapTypes
  <2>2. scr \in 0 .. 7 /\ mode48k \in BOOLEAN
    OBVIOUS
  <2>3. SelectModel(mm, model) =
          [mm EXCEPT !.model = model, !.bank = bank, !.scr = scr,
                     !.mode48k = mode48k, !.intact = TRUE]
    BY DEF SelectModel
  <2> HIDE DEF bank, scr, mode48k
  <2> QED BY <1>1, <2>1, <2>2, <2>3 DEF Machine
<1>4. SelectModelFails(mm, model) \in Machine
  BY <1>1, <1>2 DEF SelectModelFails, Machine
<1> QED BY <1>3, <1>4 DEF Selected

LEMMA PowerOnType == PowerOn \in Machine
<1>1. [ram |-> 0, scr |-> FALSE, rom |-> FALSE, lock |-> FALSE] \in Page
  BY DEF Page
<1>2. NoEpg \in Epg
  BY DEF NoEpg, Epg
<1> QED BY <1>1, <1>2, MapTypes DEF PowerOn, Machine

\* The machine keeps its type through every operation.
THEOREM TypeCorrect == Spec => []TypeOK
<1>1. Init => TypeOK
  BY PowerOnType, PageResetType DEF Init, TypeOK
<1>2. TypeOK /\ [Next]_vars => TypeOK'
  <2> SUFFICES ASSUME TypeOK, [Next]_vars PROVE TypeOK'
    OBVIOUS
  <2>1. CASE Out
    BY <2>1, PageSelectType DEF Out, TypeOK
  <2>2. CASE Reset
    BY <2>2, PageResetType DEF Reset, TypeOK
  <2>3. CASE ChooseModel
    BY <2>3, SelectedType, PageResetType DEF ChooseModel, TypeOK
  <2>4. CASE Load48
    BY <2>4, SelectedType, PageResetType DEF Load48, TypeOK
  <2>5. CASE Load128
    BY <2>5, SelectedType, PageResetType, PageSelectType DEF Load128, TypeOK
  <2>6. CASE LoadAY
    BY <2>6, SelectedType DEF LoadAY, TypeOK
  <2>7. CASE UNCHANGED vars
    BY <2>7 DEF vars, TypeOK
  <2> QED BY <2>1, <2>2, <2>3, <2>4, <2>5, <2>6, <2>7 DEF Next
<1> QED BY <1>1, <1>2, PTL DEF Spec

-----------------------------------------------------------------------------
(* What the functions do to each field.                                     *)

LEMMA RefreshFields ==
  ASSUME NEW mm \in Machine
  PROVE  LET r == Refresh(mm) IN
         /\ r.model = mm.model /\ r.page = mm.page /\ r.epg = mm.epg
         /\ r.intact = mm.intact
         /\ r.bank[0] = ROM(RomNumber(mm)) /\ r.bank[3] = RAM(mm.page.ram)
         /\ r.bank[1] = mm.bank[1] /\ r.bank[2] = mm.bank[2]
         /\ r.scr = (IF mm.page.scr THEN 7 ELSE 5)
         /\ r.lock = (mm.lock \/ mm.page.lock)
         /\ r.mode48k = (mm.mode48k \/ mm.page.lock)
  BY DEF Refresh, Machine, Slot

LEMMA EpgWriteFields ==
  ASSUME NEW mm \in Machine, NEW v \in Epg
  PROVE  LET r == EpgWrite(mm, v) IN
         /\ r.model = mm.model /\ r.page = mm.page /\ r.epg = v
         /\ r.intact = mm.intact /\ r.scr = mm.scr
         /\ r.lock = mm.lock /\ r.mode48k = mm.mode48k
  BY DEF EpgWrite, Machine, Slot

\* A reset ends the lock, whatever the machine was.
LEMMA PageResetFields ==
  ASSUME NEW mm \in Machine
  PROVE  LET r == PageReset(mm) IN
         /\ r.model = mm.model /\ r.intact = mm.intact /\ r.epg = NoEpg
         /\ ~r.lock /\ (r.mode48k <=> mm.mode48k)
         /\ HasBanks(mm.model) => r.page = DefaultPage
<1> DEFINE a == [mm EXCEPT !.lock = FALSE, !.epg = NoEpg]
           b == [a EXCEPT !.page = DefaultPage]
<1>1. NoEpg \in Epg /\ DefaultPage \in Page
  BY DEF NoEpg, Epg, DefaultPage, Page
<1>2. a \in Machine /\ b \in Machine
  BY <1>1 DEF Machine
<1>3. /\ a.model = mm.model /\ a.intact = mm.intact /\ a.epg = NoEpg
      /\ a.lock = FALSE /\ a.mode48k = mm.mode48k
  BY DEF Machine
<1>4. /\ b.model = mm.model /\ b.intact = mm.intact /\ b.epg = NoEpg
      /\ b.lock = FALSE /\ b.mode48k = mm.mode48k /\ b.page = DefaultPage
  BY <1>2, <1>3 DEF Machine
<1>5. PageReset(mm) = IF HasBanks(mm.model) THEN Refresh(b) ELSE a
  BY <1>3, <1>4 DEF PageReset, PageSelect
<1>6. DefaultPage.lock = FALSE
  BY DEF DefaultPage
<1> HIDE DEF a, b
<1>7. CASE HasBanks(mm.model)
  <2>1. PageReset(mm) = Refresh(b)
    BY <1>5, <1>7
  <2>2. /\ Refresh(b).lock = (b.lock \/ b.page.lock)
        /\ Refresh(b).mode48k = (b.mode48k \/ b.page.lock)
    BY <1>2, RefreshFields
  <2>3. ~Refresh(b).lock /\ (Refresh(b).mode48k <=> mm.mode48k)
    BY <2>2, <1>4, <1>6
  <2>4. /\ Refresh(b).model = mm.model /\ Refresh(b).intact = mm.intact
        /\ Refresh(b).epg = NoEpg /\ Refresh(b).page = DefaultPage
    BY <1>2, <1>4, RefreshFields
  <2> QED BY <2>1, <2>3, <2>4
<1>8. CASE ~HasBanks(mm.model)
  BY <1>3, <1>5, <1>8
<1> QED BY <1>7, <1>8

LEMMA SelectedFields ==
  ASSUME NEW mm \in Machine, NEW model \in Models, NEW r \in Selected(mm, model)
  PROVE  /\ r.model = model /\ r.page = mm.page /\ r.epg = mm.epg /\ r.lock = mm.lock
         /\ r.intact => /\ r.bank = IF HasBanks(model) THEN Map128 ELSE Map48
                        /\ r.scr = IF HasBanks(model) THEN 5 ELSE 0
                        /\ r.mode48k = ~HasBanks(model)
<1>1. CASE r = SelectModel(mm, model)
  BY <1>1 DEF SelectModel, Machine
<1>2. CASE r = SelectModelFails(mm, model)
  BY <1>2 DEF SelectModelFails, Machine
<1> QED BY <1>1, <1>2 DEF Selected

-----------------------------------------------------------------------------
(* The lock.                                                                *)

LockOK(mm) == HasBanks(mm.model) => (mm.lock <=> mm.page.lock)

-----------------------------------------------------------------------------
(* The map, and the notification of the tape deck.                          *)

NotifiedOK(mm) == mm.intact /\ (~HasBanks(mm.model) \/ mm.lock) => mm.mode48k

\* What holds of the fixed parts of the map, also between the choice of a
\* machine and the reset that follows.
FixedOK(mm) ==
  mm.intact =>
    /\ mm.model = "48K" => mm.bank = Map48 /\ mm.scr = 0 /\ mm.mode48k
    /\ HasBanks(mm.model) /\ ~HasEpg(mm.model) =>
         mm.bank[1] = RAM(5) /\ mm.bank[2] = RAM(2)

\* What the registers decide.
MovingOK(mm) ==
  HasBanks(mm.model) =>
    /\ ~HasEpg(mm.model) => ~mm.epg.all
    /\ mm.intact =>
         /\ mm.scr = (IF mm.page.scr THEN 7 ELSE 5)
         /\ ~mm.epg.all =>
              mm.bank[3] = RAM(mm.page.ram) /\ mm.bank[0] = ROM(RomNumber(mm))

\* The inductive invariant: what one operation must leave for the next.
IInv(mm) ==
  mm \in Machine /\ LockOK(mm) /\ NotifiedOK(mm) /\ FixedOK(mm) /\ MovingOK(mm)

\* An unlocked machine with banks is right once its map is refreshed.
LEMMA RefreshOK ==
  ASSUME NEW mm \in Machine, FixedOK(mm), HasBanks(mm.model), ~mm.lock,
         ~HasEpg(mm.model) => ~mm.epg.all
  PROVE  IInv(Refresh(mm))
<1> DEFINE r == Refresh(mm)
<1>1. r \in Machine
  BY RefreshType
<1>2. /\ r.model = mm.model /\ r.page = mm.page /\ r.epg = mm.epg
      /\ r.intact = mm.intact
      /\ r.bank[0] = ROM(RomNumber(mm)) /\ r.bank[3] = RAM(mm.page.ram)
      /\ r.bank[1] = mm.bank[1] /\ r.bank[2] = mm.bank[2]
      /\ r.scr = (IF mm.page.scr THEN 7 ELSE 5)
      /\ r.lock = (mm.lock \/ mm.page.lock)
      /\ r.mode48k = (mm.mode48k \/ mm.page.lock)
  BY RefreshFields
<1> HIDE DEF r
<1>3. RomNumber(r) = RomNumber(mm)
  BY <1>2 DEF RomNumber
<1>4. mm.model # "48K"
  BY DEF HasBanks
<1>5. LockOK(r)
  BY <1>2 DEF LockOK
<1>6. NotifiedOK(r)
  BY <1>2 DEF NotifiedOK
<1>7. FixedOK(r)
  BY <1>2, <1>4 DEF FixedOK
<1>8. MovingOK(r)
  BY <1>2, <1>3 DEF MovingOK
<1> QED BY <1>1, <1>5, <1>6, <1>7, <1>8 DEF IInv, r

LEMMA EpgWriteOK ==
  ASSUME NEW mm \in Machine, IInv(mm), HasEpg(mm.model), ~mm.lock, NEW v \in Epg
  PROVE  /\ FixedOK(EpgWrite(mm, v))
         /\ v.all => IInv(EpgWrite(mm, v))
<1> DEFINE r == EpgWrite(mm, v)
<1>1. /\ r \in Machine
      /\ r.model = mm.model /\ r.page = mm.page /\ r.epg = v
      /\ r.intact = mm.intact /\ r.scr = mm.scr
      /\ r.lock = mm.lock /\ r.mode48k = mm.mode48k
  BY EpgWriteType, EpgWriteFields
<1> HIDE DEF r
<1>2. mm.model # "48K"
  BY DEF HasEpg
<1>3. FixedOK(r)
  BY <1>1, <1>2 DEF FixedOK
<1>4. LockOK(r) /\ NotifiedOK(r)
  BY <1>1 DEF IInv, LockOK, NotifiedOK
<1>5. ASSUME v.all PROVE MovingOK(r)
  BY <1>1, <1>5 DEF IInv, MovingOK
<1> QED BY <1>1, <1>3, <1>4, <1>5 DEF IInv, r

LEMMA PageSelectOK ==
  ASSUME NEW mm \in Machine, IInv(mm), NEW port, NEW v \in Page
  PROVE  IInv(PageSelect(mm, port, v))
<1> DEFINE w == EpgWrite(mm, EpgOf(v))
           b == [mm EXCEPT !.page = v]
<1>1. CASE ~HasBanks(mm.model) \/ mm.lock
  BY <1>1 DEF PageSelect
<1>2. CASE HasBanks(mm.model) /\ ~mm.lock
  <2>1. /\ b \in Machine /\ b.model = mm.model /\ b.lock = mm.lock
        /\ b.epg = mm.epg /\ b.bank = mm.bank /\ b.intact = mm.intact
        /\ b.scr = mm.scr /\ b.mode48k = mm.mode48k
    BY DEF Machine
  <2>2. FixedOK(mm)
    BY DEF IInv
  <2>3. FixedOK(b)
    BY <2>1, <2>2 DEF FixedOK
  <2>4. CASE ~HasEpg(mm.model)
    <3>1. ~mm.epg.all
      BY <1>2, <2>4 DEF IInv, MovingOK
    <3>2. PageSelect(mm, port, v) = Refresh(b)
      BY <1>2, <2>4 DEF PageSelect
    <3> QED BY <1>2, <2>1, <2>3, <3>1, <3>2, RefreshOK
  <2>5. CASE HasEpg(mm.model)
    <3>1. /\ w \in Machine /\ w.model = mm.model /\ w.lock = mm.lock
          /\ FixedOK(w) /\ (EpgOf(v).all => IInv(w))
      BY <1>2, <2>5, EpgOfType, EpgWriteType, EpgWriteFields, EpgWriteOK
    <3>2. ~EpgOf(v).all => IInv(Refresh(w))
      BY <1>2, <2>5, <3>1, RefreshOK
    <3>3. IInv(Refresh(b)) /\ IInv(Refresh(mm))
      BY <1>2, <2>1, <2>2, <2>3, <2>5, RefreshOK
    <3> QED BY <1>2, <2>5, <3>1, <3>2, <3>3 DEF PageSelect
  <2> QED BY <2>4, <2>5
<1> QED BY <1>1, <1>2

\* A reset needs the fixed parts only.
LEMMA PageResetOK ==
  ASSUME NEW mm \in Machine, FixedOK(mm)
  PROVE  IInv(PageReset(mm))
<1> DEFINE a == [mm EXCEPT !.lock = FALSE, !.epg = NoEpg]
           b == [a EXCEPT !.page = DefaultPage]
<1>1. NoEpg \in Epg /\ DefaultPage \in Page /\ ~NoEpg.all
  BY DEF NoEpg, Epg, DefaultPage, Page
<1>2. a \in Machine /\ b \in Machine
  BY <1>1 DEF Machine
<1>3. /\ a.model = mm.model /\ a.intact = mm.intact /\ a.epg = NoEpg
      /\ a.lock = FALSE /\ a.mode48k = mm.mode48k /\ a.bank = mm.bank
      /\ a.scr = mm.scr
  BY DEF Machine
<1>4. /\ b.model = mm.model /\ b.intact = mm.intact /\ b.epg = NoEpg
      /\ b.lock = FALSE /\ b.mode48k = mm.mode48k /\ b.bank = mm.bank
      /\ b.scr = mm.scr
  BY <1>2, <1>3 DEF Machine
<1>5. PageReset(mm) = IF HasBanks(mm.model) THEN Refresh(b) ELSE a
  BY <1>3, <1>4 DEF PageReset, PageSelect
<1> HIDE DEF a, b
<1>6. FixedOK(a) /\ FixedOK(b)
  BY <1>3, <1>4 DEF FixedOK
<1>7. CASE HasBanks(mm.model)
  BY <1>1, <1>2, <1>4, <1>5, <1>6, <1>7, RefreshOK
<1>8. CASE ~HasBanks(mm.model)
  <2>1. LockOK(a) /\ MovingOK(a)
    BY <1>3, <1>8 DEF LockOK, MovingOK
  <2>2. mm.model = "48K"
    BY <1>8 DEF HasBanks
  <2>3. NotifiedOK(a)
    BY <1>3, <2>2 DEF FixedOK, NotifiedOK
  <2> QED BY <1>2, <1>5, <1>6, <1>8, <2>1, <2>3 DEF IInv
<1> QED BY <1>7, <1>8

LEMMA SelectedOK ==
  ASSUME NEW mm \in Machine, NEW model \in Models, NEW r \in Selected(mm, model)
  PROVE  FixedOK(r) /\ (model = "48K" => IInv(r))
<1>1. r \in Machine
  BY SelectedType
<1>2. /\ r.model = model
      /\ r.intact => /\ r.bank = IF HasBanks(model) THEN Map128 ELSE Map48
                     /\ r.scr = IF HasBanks(model) THEN 5 ELSE 0
                     /\ r.mode48k = ~HasBanks(model)
  BY SelectedFields
<1>3. Map128[1] = RAM(5) /\ Map128[2] = RAM(2)
  BY DEF Map128, Slot
<1>4. FixedOK(r)
  BY <1>2, <1>3 DEF FixedOK, HasBanks
<1>5. ASSUME model = "48K" PROVE LockOK(r) /\ NotifiedOK(r) /\ MovingOK(r)
  BY <1>2, <1>5 DEF LockOK, NotifiedOK, MovingOK, HasBanks
<1> QED BY <1>1, <1>4, <1>5 DEF IInv

\* The byte in a 128K snapshot is sent to a machine that has just been reset.
LEMMA Load128OK ==
  ASSUME NEW mm \in Machine, "128K" \in Models,
         NEW r \in Selected(PageReset(mm), "128K"), NEW v \in Page
  PROVE  IInv(PageSelect(r, "pagesel", v))
<1> DEFINE b == [r EXCEPT !.page = v]
<1>1. PageReset(mm) \in Machine /\ PageReset(mm).epg = NoEpg /\ ~PageReset(mm).lock
  BY PageResetType, PageResetFields
<1>2. r \in Machine /\ r.model = "128K" /\ r.epg = NoEpg /\ ~r.lock /\ FixedOK(r)
  BY <1>1, SelectedType, SelectedFields, SelectedOK
<1>3. /\ b \in Machine /\ b.model = r.model /\ b.lock = r.lock /\ b.epg = r.epg
      /\ b.bank = r.bank /\ b.intact = r.intact /\ b.scr = r.scr
      /\ b.mode48k = r.mode48k
  BY <1>2 DEF Machine
<1>4. HasBanks("128K") /\ ~HasEpg("128K")
  BY DEF HasBanks, HasEpg
<1>5. PageSelect(r, "pagesel", v) = Refresh(b)
  BY <1>2, <1>4 DEF PageSelect
<1> HIDE DEF b
<1>6. FixedOK(b)
  BY <1>2, <1>3 DEF FixedOK
<1>7. ~NoEpg.all
  BY DEF NoEpg
<1> QED BY <1>2, <1>3, <1>4, <1>5, <1>6, <1>7, RefreshOK

-----------------------------------------------------------------------------
(* The theorems.                                                            *)

\* The inductive invariant holds: it is established by switching the machine
\* on and kept by every operation.
THEOREM Inductive == Spec => []IInv(m)
<1>1. Init => IInv(m)
  <2>1. FixedOK(PowerOn)
    BY DEF FixedOK, PowerOn, HasBanks
  <2> QED BY <2>1, PowerOnType, PageResetOK DEF Init
<1>2. IInv(m) /\ [Next]_vars => IInv(m)'
  <2> SUFFICES ASSUME IInv(m), [Next]_vars PROVE IInv(m')
    OBVIOUS
  <2>0. m \in Machine /\ FixedOK(m)
    BY DEF IInv
  <2>1. CASE Out
    BY <2>0, <2>1, PageSelectOK DEF Out
  <2>2. CASE Reset
    BY <2>0, <2>2, PageResetOK DEF Reset
  <2>3. CASE ChooseModel
    BY <2>0, <2>3, SelectedType, SelectedOK, PageResetOK DEF ChooseModel
  <2>4. CASE Load48
    BY <2>0, <2>4, PageResetType, SelectedOK DEF Load48
  <2>5. CASE Load128
    BY <2>0, <2>5, Load128OK DEF Load128
  <2>6. CASE LoadAY
    BY <2>0, <2>6, SelectedOK DEF LoadAY
  <2>7. CASE UNCHANGED vars
    BY <2>7 DEF vars
  <2> QED BY <2>1, <2>2, <2>3, <2>4, <2>5, <2>6, <2>7 DEF Next
<1> QED BY <1>1, <1>2, PTL DEF Spec

\* The memory map and the screen are what the paging registers say, after any
\* sequence of port writes, resets, machine changes and snapshots.
THEOREM MapCorrect == Spec => []MapFollowsRegisters
<1>1. IInv(m) => MapFollowsRegisters
  BY DEF IInv, FixedOK, MovingOK, MapFollowsRegisters, HasBanks, HasEpg
<1> QED BY <1>1, Inductive, PTL

\* The tape traps are taken only where the 48K BASIC ROM is mapped.
THEOREM TrapsCorrect == Spec => []TrapRomMapped
<1>1. IInv(m) => TrapRomMapped
  <2> SUFFICES ASSUME IInv(m), m.intact, IsBasicRom(m)
               PROVE  m.bank[0] = BasicRom(m.model)
    BY DEF TrapRomMapped
  <2>1. m.model \in {"48K", "128K", "PLUS2", "PLUS2A"}
    BY DEF IInv, Machine
  <2>2. CASE m.model = "48K"
    BY <2>2 DEF IInv, FixedOK, Map48, Slot, BasicRom
  <2>3. CASE m.model \in {"128K", "PLUS2"}
    <3>1. m.bank[0] = ROM(RomNumber(m)) /\ m.page.rom
      BY <2>3 DEF IInv, MovingOK, IsBasicRom, HasBanks, HasEpg
    <3> QED BY <2>3, <3>1 DEF RomNumber, HasEpg, BasicRom
  <2>4. CASE m.model = "PLUS2A"
    <3>1. m.bank[0] = ROM(RomNumber(m)) /\ m.page.rom /\ m.epg.mode >= 2
      BY <2>4 DEF IInv, MovingOK, IsBasicRom, HasBanks, HasEpg
    <3> QED BY <2>4, <3>1 DEF RomNumber, HasEpg, BasicRom
  <2> QED BY <2>1, <2>2, <2>3, <2>4
<1> QED BY <1>1, Inductive, PTL

\* The machine is locked exactly when the byte that a snapshot saves says so.
THEOREM LockCorrect == Spec => []LockInRegister
<1>1. IInv(m) => LockInRegister
  BY DEF IInv, LockOK, LockInRegister
<1> QED BY <1>1, Inductive, PTL

\* The tape deck is told whenever a program can use 48K only.
THEOREM NotificationCorrect == Spec => []LockIsNotified
<1>1. IInv(m) => LockIsNotified
  BY DEF IInv, NotifiedOK, LockIsNotified
<1> QED BY <1>1, Inductive, PTL

\* A program in RAM at address 0 can write there: RAM is mapped in slot 0 only
\* in the modes that zx_memset8() goes by.
THEOREM RamCorrect == Spec => []RamWritable
<1>1. IInv(m) => RamWritable
  <2> SUFFICES ASSUME IInv(m), m.intact, ~m.epg.all
               PROVE  m.bank[0].kind # "ram"
    BY DEF RamWritable, WriteStored
  <2>1. CASE HasBanks(m.model)
    <3>1. m.bank[0] = ROM(RomNumber(m))
      BY <2>1 DEF IInv, MovingOK
    <3> QED BY <3>1 DEF ROM
  <2>2. CASE ~HasBanks(m.model)
    BY <2>2 DEF IInv, FixedOK, HasBanks, Map48, Slot, ROM
  <2> QED BY <2>1, <2>2
<1> QED BY <1>1, Inductive, PTL

=============================================================================
