------------------------------ MODULE TapeBlocks ------------------------------
(***************************************************************************)
(* The tape in memory: the blocks of types/tape/tape.h as records, and the *)
(* objects that the *_create() functions of tape/tape.c allocate for them  *)
(* in the order of allocation.  A string is the sequence of its characters *)
(* without the terminator, and the length of an array is the length of its *)
(* sequence.  Blocks that no function of the program creates (jumps,       *)
(* calls, CSW and so on) are left out.                                     *)
(***************************************************************************)
EXTENDS Integers, Sequences, SequencesExt

Byte == 0..255
Word == 0..65535

(***************************************************************************)
(* The blocks.                                                             *)
(***************************************************************************)
Data == [btype : {"data"}, pause_after : Word, data : Seq(Byte)]
TurboData == [btype : {"turbo_data"}, pilot_len : Word, sync1_len : Word, sync2_len : Word,
              zero_len : Word, one_len : Word, pilot_pulses : Word, lb_bits : Byte,
              pause_after : Word, data : Seq(Byte)]
Tone == [btype : {"tone"}, pulse_len : Word, num_pulses : Word]
Pulses == [btype : {"pulses"}, pulse_len : Seq(Word)]
PureData == [btype : {"pure_data"}, zero_len : Word, one_len : Word, lb_bits : Byte,
             pause_after : Word, data : Seq(Byte)]
DirectRec == [btype : {"direct_rec"}, smp_dur : Word, pause_after : Word, lb_bits : Byte,
              data : Seq(Byte)]
Pause == [btype : {"pause"}, pause_len : Word \ {0}]
Stop == [btype : {"stop"}]
GroupStart == [btype : {"group_start"}, name : Seq(Byte \ {0})]
GroupEnd == [btype : {"group_end"}]
LoopStart == [btype : {"loop_start"}, num_rep : Word]
LoopEnd == [btype : {"loop_end"}]
Stop48k == [btype : {"stop_48k"}]
TextDesc == [btype : {"text_desc"}, text : Seq(Byte \ {0})]
TapeText == [text_type : Byte, text : Seq(Byte \ {0})]
ArchiveInfo == [btype : {"archive_info"}, texts : Seq(TapeText)]
HwInfo == [hwtype : Byte, hwid : Byte, hwinfo : Byte]
HwType == [btype : {"hw_type"}, hwinfos : Seq(HwInfo)]
Unknown == [btype : {"unknown"}, block_type : Byte, udata : Seq(Byte)]

IsBlock(b) == \/ b \in Data \/ b \in TurboData \/ b \in Tone \/ b \in Pulses \/ b \in PureData
              \/ b \in DirectRec \/ b \in Pause \/ b \in Stop \/ b \in GroupStart \/ b \in GroupEnd
              \/ b \in LoopStart \/ b \in LoopEnd \/ b \in Stop48k \/ b \in TextDesc
              \/ b \in ArchiveInfo \/ b \in HwType \/ b \in Unknown

(***************************************************************************)
(* The objects behind a block.  "ext" is the structure of its kind,        *)
(* "block" the tape_block_t that links it into the tape.                   *)
(***************************************************************************)
DataObjects == <<"ext", "block", "data">>
TurboDataObjects == <<"ext", "block", "data">>
ToneObjects == <<"ext", "block">>
PulsesObjects == <<"ext", "block", "pulse_len">>
PureDataObjects == <<"ext", "block", "data">>
DirectRecObjects == <<"ext", "block", "data">>
PauseObjects == <<"ext", "block">>
StopObjects == <<"ext", "block">>
GroupStartObjects == <<"ext", "block", "name">>
GroupEndObjects == <<"ext", "block">>
LoopStartObjects == <<"ext", "block">>
LoopEndObjects == <<"ext", "block">>
Stop48kObjects == <<"ext", "block">>
TextDescObjects == <<"ext", "block", "text">>
ArchiveInfoObjects == <<"ext", "block">>
TextObjects == <<"tape_text", "text">>
HwTypeObjects == <<"ext", "block">>
HwInfoObjects == <<"tape_hwinfo">>
UnknownObjects == <<"udata", "ext", "block">>

ObjectKinds == {"tape", "ext", "block", "data", "pulse_len", "name", "text", "tape_text",
                "tape_hwinfo", "udata"}

(* Every object that hangs on a block. *)
Objects(b) ==
  CASE b.btype = "data" -> DataObjects
    [] b.btype = "turbo_data" -> TurboDataObjects
    [] b.btype = "tone" -> ToneObjects
    [] b.btype = "pulses" -> PulsesObjects
    [] b.btype = "pure_data" -> PureDataObjects
    [] b.btype = "direct_rec" -> DirectRecObjects
    [] b.btype = "pause" -> PauseObjects
    [] b.btype = "stop" -> StopObjects
    [] b.btype = "group_start" -> GroupStartObjects
    [] b.btype = "group_end" -> GroupEndObjects
    [] b.btype = "loop_start" -> LoopStartObjects
    [] b.btype = "loop_end" -> LoopEndObjects
    [] b.btype = "stop_48k" -> Stop48kObjects
    [] b.btype = "text_desc" -> TextDescObjects
    [] b.btype = "archive_info" -> ArchiveInfoObjects \o FlattenSeq([i \in DOMAIN b.texts |-> TextObjects])
    [] b.btype = "hw_type" -> HwTypeObjects \o FlattenSeq([i \in DOMAIN b.hwinfos |-> HwInfoObjects])
    [] b.btype = "unknown" -> UnknownObjects

(* tape_destroy() with the destroy functions of the blocks: the payload of *)
(* an unknown block stays behind.                                          *)
Freed_KeepsNames(blocks) ==
  <<"tape">> \o FlattenSeq([i \in DOMAIN blocks |->
                  SelectSeq(Objects(blocks[i]), LAMBDA k : k \notin {"udata", "name"})])
Freed(blocks) ==
  <<"tape">> \o FlattenSeq([i \in DOMAIN blocks |-> SelectSeq(Objects(blocks[i]), LAMBDA k : k # "udata")])

(* The objects that a tape holds on to. *)
Owned(blocks) == <<"tape">> \o FlattenSeq([i \in DOMAIN blocks |-> Objects(blocks[i])])

(***************************************************************************)
(* The heap counts the objects of each kind.                               *)
(***************************************************************************)
Occurs(k, objects) == Len(SelectSeq(objects, LAMBDA o : o = k))
Allocate(heap, objects) == [k \in ObjectKinds |-> heap[k] + Occurs(k, objects)]
Free(heap, objects) == [k \in ObjectKinds |-> heap[k] - Occurs(k, objects)]

(***************************************************************************)
(* The list of blocks: a new tape is empty, a new block goes to its end.   *)
(***************************************************************************)
NewTape == [version |-> <<1, 1>>, blocks |-> <<>>]
TapeAppend(blocks, b) == Append(blocks, b)
===============================================================================
