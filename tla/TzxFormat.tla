------------------------------ MODULE TzxFormat -------------------------------
(***************************************************************************)
(* tape/tzx.c: a tape as a TZX file and back.  For each kind of block, the *)
(* packed header of types/tape/tzx.h, the function that loads the block    *)
(* and the function that saves it; then the whole file.                    *)
(***************************************************************************)
EXTENDS TapeFile

W(name) == <<name, 2>>
B(name) == <<name, 1>>

(***************************************************************************)
(* Blocks with data.                                                       *)
(***************************************************************************)
DataHead == <<W("pause_after"), W("data_len")>>
LoadData(r) ==
  LET h == Header(r, DataHead)
  IN  Loaded(r, DataHead, DataObjects, h.data_len,
             [btype |-> "data", pause_after |-> h.pause_after, data |-> Body(r, DataHead, h.data_len)])
SaveData(b) == Packed(DataHead, b @@ [data_len |-> Len(b.data)]) \o b.data

TurboDataHead ==
  <<W("pilot_len"), W("sync1_len"), W("sync2_len"), W("zero_len"), W("one_len"), W("pilot_pulses"),
    B("lb_bits"), W("pause_after"), <<"data_len", 3>>>>
LoadTurboData(r) ==
  LET h == Header(r, TurboDataHead)
  IN  Loaded(r, TurboDataHead, TurboDataObjects, h.data_len,
             [btype |-> "turbo_data", pilot_len |-> h.pilot_len, sync1_len |-> h.sync1_len,
              sync2_len |-> h.sync2_len, zero_len |-> h.zero_len, one_len |-> h.one_len,
              pilot_pulses |-> h.pilot_pulses, lb_bits |-> h.lb_bits,
              pause_after |-> h.pause_after, data |-> Body(r, TurboDataHead, h.data_len)])
SaveTurboData(b) == Packed(TurboDataHead, b @@ [data_len |-> Len(b.data)]) \o b.data

PureDataHead == <<W("zero_len"), W("one_len"), B("lb_bits"), W("pause_after"), <<"data_len", 3>>>>
LoadPureData(r) ==
  LET h == Header(r, PureDataHead)
  IN  Loaded(r, PureDataHead, PureDataObjects, h.data_len,
             [btype |-> "pure_data", zero_len |-> h.zero_len, one_len |-> h.one_len,
              lb_bits |-> h.lb_bits, pause_after |-> h.pause_after, data |-> Body(r, PureDataHead, h.data_len)])
SavePureData(b) == Packed(PureDataHead, b @@ [data_len |-> Len(b.data)]) \o b.data

DirectRecHead == <<W("smp_dur"), W("pause_after"), B("lb_bits"), <<"data_len", 3>>>>
LoadDirectRec(r) ==
  LET h == Header(r, DirectRecHead)
  IN  Loaded(r, DirectRecHead, DirectRecObjects, h.data_len,
             [btype |-> "direct_rec", smp_dur |-> h.smp_dur, pause_after |-> h.pause_after,
              lb_bits |-> h.lb_bits, data |-> Body(r, DirectRecHead, h.data_len)])
SaveDirectRec(b) == Packed(DirectRecHead, b @@ [data_len |-> Len(b.data)]) \o b.data

(***************************************************************************)
(* Tones and pulses.                                                       *)
(***************************************************************************)
ToneHead == <<W("pulse_len"), W("num_pulses")>>
LoadTone(r) ==
  LET h == Header(r, ToneHead)
  IN  Loaded(r, ToneHead, ToneObjects, 0,
             [btype |-> "tone", pulse_len |-> h.pulse_len, num_pulses |-> h.num_pulses])
SaveTone(b) == Packed(ToneHead, b)

PulsesHead == <<B("num_pulses")>>
LoadPulses(r) ==
  LET n == Header(r, PulsesHead).num_pulses
  IN  Loaded(r, PulsesHead, PulsesObjects, 2 * n,
             [btype |-> "pulses", pulse_len |-> [i \in 1..n |-> Value(Bytes(r, (2 * i) - 1, 2))]])
SavePulses(b) == <<Len(b.pulse_len)>> \o FlattenSeq([i \in DOMAIN b.pulse_len |-> Le(b.pulse_len[i], 2)])

(***************************************************************************)
(* Control blocks.  A pause of no length is the Stop block.                *)
(***************************************************************************)
PauseHead == <<W("pause_len")>>
LoadPauseStop(r) ==
  LET len == Header(r, PauseHead).pause_len
  IN  Loaded(r, PauseHead, PauseObjects, 0,
             IF len # 0 THEN [btype |-> "pause", pause_len |-> len] ELSE [btype |-> "stop"])
SavePause(b) == Le(b.pause_len, 2)
SaveStop(b) == Le(0, 2)

GroupStartHead == <<B("name_len")>>
LoadGroupStart(r) ==
  LET len == Header(r, GroupStartHead).name_len
  IN  Loaded(r, GroupStartHead, GroupStartObjects, len,
             [btype |-> "group_start", name |-> CString(Body(r, GroupStartHead, len))])
SaveGroupStart(b) == <<Len(b.name)>> \o b.name

LoadGroupEnd(r) == Loaded(r, <<>>, GroupEndObjects, 0, [btype |-> "group_end"])

LoopStartHead == <<W("num_rep")>>
LoadLoopStart(r) ==
  Loaded(r, LoopStartHead, LoopStartObjects, 0,
         [btype |-> "loop_start", num_rep |-> Header(r, LoopStartHead).num_rep])
SaveLoopStart(b) == Packed(LoopStartHead, b)

LoadLoopEnd(r) == Loaded(r, <<>>, LoopEndObjects, 0, [btype |-> "loop_end"])

Stop48kHead == <<<<"block_len", 4>>>>
LoadStop48k(r) ==
  IF Left(r) >= 4 /\ Header(r, Stop48kHead).block_len # 0 THEN Failed(r, "EIO")
  ELSE Loaded(r, Stop48kHead, Stop48kObjects, 0, [btype |-> "stop_48k"])
SaveStop48k(b) == Le(0, 4)

(***************************************************************************)
(* Texts.  When the file ends within a text, the functions that read it go *)
(* to their error path with the return code of the last call, which is     *)
(* zero: a description is dropped, and the caller of tzx_load_text() goes  *)
(* on with a pointer that is null or already in the list.                  *)
(***************************************************************************)
TextDescHead == <<B("text_len")>>
LoadTextDesc_KeepsRest(r) ==
  LET n == IF Header(r, TextDescHead).text_len < Left(r) THEN Header(r, TextDescHead).text_len ELSE Left(r) - 1
  IN  Loaded(r, TextDescHead, TextDescObjects, n,
             [btype |-> "text_desc", text |-> CString(Body(r, TextDescHead, n))])
LoadTextDesc(r) ==
  LET len == Header(r, TextDescHead).text_len
  IN  IF Left(r) > 0 /\ Left(r) <= len /\ r.mem >= Len(TextDescObjects) THEN Skip(r, Left(r))
      ELSE Loaded(r, TextDescHead, TextDescObjects, len,
                  [btype |-> "text_desc", text |-> CString(Body(r, TextDescHead, len))])
SaveTextDesc(b) == <<Len(b.text)>> \o b.text

TextHead == <<B("text_type"), B("text_len")>>
LoadText(r) ==
  LET h == Header(r, TextHead)
  IN  CASE r.remain < 2 \/ Left(r) < 2 -> Failed(r, "EIO")
        [] r.mem < Len(TextObjects) -> Failed(r, "ENOMEM")
        [] r.remain < 2 + h.text_len -> Failed(r, "EIO")
        [] Left(r) < 2 + h.text_len -> Dead(r)
        [] OTHER -> [Skip(Create(r, TextObjects), 2 + h.text_len) EXCEPT
                       !.remain = @ - 2 - h.text_len,
                       !.items = Append(@, [text_type |-> h.text_type,
                                            text |-> CString(Body(r, TextHead, h.text_len))])]
SaveText(t) == <<t.text_type, Len(t.text)>> \o t.text

(* A block that ends in a list: its items, or on failure the destruction   *)
(* of the block with the items that it has by then.                        *)
Listed(r, s, b) ==
  CASE s.dead -> Dead(r)
    [] s.rc # "ok" -> [Failed(r, s.rc) EXCEPT !.heap = Free(s.heap, Objects(b))]
    [] OTHER -> [r EXCEPT !.pos = s.pos, !.mem = s.mem, !.heap = s.heap, !.blocks = TapeAppend(@, b)]

ArchiveInfoHead == <<W("block_len"), B("nstrings")>>
LoadArchiveInfo(r) ==
  LET h == Header(r, ArchiveInfoHead)
      s == Repeat(h.nstrings, LoadText,
                  Create(Skip(r, 3), ArchiveInfoObjects) @@ [remain |-> h.block_len, items |-> <<>>])
  IN  CASE Left(r) < 3 -> Failed(r, "EIO")
        [] r.mem < Len(ArchiveInfoObjects) -> Failed(r, "ENOMEM")
        [] OTHER -> Listed(r, s, [btype |-> "archive_info", texts |-> s.items])
SaveArchiveInfo(b) ==
  LET texts == FlattenSeq([i \in DOMAIN b.texts |-> SaveText(b.texts[i])])
  IN  Le(1 + Len(texts), 2) \o <<Len(b.texts)>> \o texts

(***************************************************************************)
(* Hardware types and blocks of other kinds.                               *)
(***************************************************************************)
HwInfoHead == <<B("hwtype"), B("hwid"), B("hwinfo")>>
LoadHwInfo_Swapped(r) ==
  LET h == Header(r, HwInfoHead)
  IN  CASE Left(r) < 3 -> Failed(r, "EIO")
        [] r.mem < 1 -> Failed(r, "ENOMEM")
        [] OTHER -> [Skip(Create(r, HwInfoObjects), 3) EXCEPT
                       !.items = Append(@, [hwtype |-> h.hwtype, hwid |-> h.hwinfo, hwinfo |-> h.hwid])]
LoadHwInfo(r) ==
  LET h == Header(r, HwInfoHead)
  IN  CASE Left(r) < 3 -> Failed(r, "EIO")
        [] r.mem < 1 -> Failed(r, "ENOMEM")
        [] OTHER -> [Skip(Create(r, HwInfoObjects), 3) EXCEPT
                       !.items = Append(@, [hwtype |-> h.hwtype, hwid |-> h.hwid, hwinfo |-> h.hwinfo])]
SaveHwInfo(i) == Packed(HwInfoHead, i)

HwTypeHead == <<B("ninfos")>>
LoadHwType(r) ==
  LET s == Repeat(Header(r, HwTypeHead).ninfos, LoadHwInfo,
                  Create(Skip(r, 1), HwTypeObjects) @@ [items |-> <<>>])
  IN  CASE Left(r) < 1 -> Failed(r, "EIO")
        [] r.mem < Len(HwTypeObjects) -> Failed(r, "ENOMEM")
        [] OTHER -> Listed(r, s, [btype |-> "hw_type", hwinfos |-> s.items])
SaveHwType(b) == <<Len(b.hwinfos)>> \o FlattenSeq([i \in DOMAIN b.hwinfos |-> SaveHwInfo(b.hwinfos[i])])

(* The payload is read before the block is created, and the length is      *)
(* written through a conversion to 16 bits.                                *)
UnknownHead == <<<<"block_len", 4>>>>
LoadUnknown(r, id) ==
  LET len == Header(r, UnknownHead).block_len
  IN  CASE Left(r) < 4 -> Failed(r, "EIO")
        [] r.mem < 1 -> Failed(r, "ENOMEM")
        [] Left(r) < 4 + len -> Failed(r, "EIO")
        [] OTHER -> Loaded(r, UnknownHead, UnknownObjects, len,
                           [btype |-> "unknown", block_type |-> id, udata |-> Body(r, UnknownHead, len)])
SaveUnknown(b) == Le(Len(b.udata) % 65536, 4) \o b.udata

(***************************************************************************)
(* The file.                                                               *)
(***************************************************************************)
Ids == [data |-> 16, turbo_data |-> 17, tone |-> 18, pulses |-> 19, pure_data |-> 20, direct_rec |-> 21,
        pause |-> 32, stop |-> 32, group_start |-> 33, group_end |-> 34, loop_start |-> 36,
        loop_end |-> 37, stop_48k |-> 42, text_desc |-> 48, archive_info |-> 50, hw_type |-> 51]
BlockType(b) == IF b.btype = "unknown" THEN b.block_type ELSE Ids[b.btype]

Signature == <<90, 88, 84, 97, 112, 101, 33>>
EofMark == 26
HeaderValid(file) ==
  /\ SubSeq(file, 1, 8) = Append(Signature, EofMark)
  /\ file[9] = 1
HeaderInit(tape) == Append(Signature, EofMark) \o tape.version

LoadBlock(r, id) ==
  CASE id = 16 -> LoadData(r)
    [] id = 17 -> LoadTurboData(r)
    [] id = 18 -> LoadTone(r)
    [] id = 19 -> LoadPulses(r)
    [] id = 20 -> LoadPureData(r)
    [] id = 21 -> LoadDirectRec(r)
    [] id = 32 -> LoadPauseStop(r)
    [] id = 33 -> LoadGroupStart(r)
    [] id = 34 -> LoadGroupEnd(r)
    [] id = 36 -> LoadLoopStart(r)
    [] id = 37 -> LoadLoopEnd(r)
    [] id = 42 -> LoadStop48k(r)
    [] id = 48 -> LoadTextDesc(r)
    [] id = 50 -> LoadArchiveInfo(r)
    [] id = 51 -> LoadHwType(r)
    [] OTHER -> LoadUnknown(r, id)

RECURSIVE LoadBlocks(_)
LoadBlocks(r) ==
  IF Stopped(r) \/ Left(r) = 0 THEN r ELSE LoadBlocks(LoadBlock(Skip(r, 1), r.file[r.pos + 1]))

TzxLoad(r) ==
  LET t == Create(r, <<"tape">>)
  IN  IF Stopped(t) THEN t
      ELSE Ended(IF Left(t) < 10 \/ ~HeaderValid(t.file) THEN Failed(t, "EIO") ELSE LoadBlocks(Skip(t, 10)))

TooLong(b) ==
  \/ b.btype = "group_start" /\ Len(b.name) > 255
  \/ b.btype = "text_desc" /\ Len(b.text) > 255
  \/ b.btype = "hw_type" /\ Len(b.hwinfos) > 255
  \/ /\ b.btype = "archive_info"
     /\ \/ Len(b.texts) > 255
        \/ \E i \in DOMAIN b.texts : Len(b.texts[i].text) > 255
        \/ Len(SaveArchiveInfo(b)) - 2 > 65535

SaveBlock(b) ==
  CASE b.btype = "data" -> SaveData(b)
    [] b.btype = "turbo_data" -> SaveTurboData(b)
    [] b.btype = "tone" -> SaveTone(b)
    [] b.btype = "pulses" -> SavePulses(b)
    [] b.btype = "pure_data" -> SavePureData(b)
    [] b.btype = "direct_rec" -> SaveDirectRec(b)
    [] b.btype = "pause" -> SavePause(b)
    [] b.btype = "stop" -> SaveStop(b)
    [] b.btype = "group_start" -> SaveGroupStart(b)
    [] b.btype \in {"group_end", "loop_end"} -> <<>>
    [] b.btype = "loop_start" -> SaveLoopStart(b)
    [] b.btype = "stop_48k" -> SaveStop48k(b)
    [] b.btype = "text_desc" -> SaveTextDesc(b)
    [] b.btype = "archive_info" -> SaveArchiveInfo(b)
    [] b.btype = "hw_type" -> SaveHwType(b)
    [] OTHER -> SaveUnknown(b)

(* What tzx_tape_save() writes, and its return code, when no write fails.  *)
TzxSave(tape) ==
  FoldLeft(LAMBDA w, b : IF w.rc # "ok" THEN w
                         ELSE IF TooLong(b) THEN [bytes |-> Append(w.bytes, BlockType(b)), rc |-> "EINVAL"]
                         ELSE [w EXCEPT !.bytes = (@ \o <<BlockType(b)>>) \o SaveBlock(b)],
           [bytes |-> HeaderInit(tape), rc |-> "ok"], tape.blocks)
===============================================================================
