------------------------------ MODULE TapeStore -------------------------------
(***************************************************************************)
(* The tape deck and a tape file on disk (tape/deck.c): a new tape,        *)
(* opening, saving under any name, recording by quick save, with           *)
(* allocations, writes and closes that fail.                               *)
(*                                                                         *)
(*   deck    the tape in the deck (its version and its blocks) or none,    *)
(*           and the format that the extension of its file name stands     *)
(*           for, "none" without a name                                    *)
(*   disk    the file: its format and bytes; and, remembered for the       *)
(*           properties, the tape it was written from and whether the      *)
(*           whole of it was written ("whole", "part") or another program  *)
(*           wrote it ("foreign")                                          *)
(*   rc      the return code of the last call                              *)
(*   heap    how many objects of each kind are allocated for tapes         *)
(*   leaked  the objects of tapes that were lost because their file name   *)
(*           could not be copied                                           *)
(*   dead    the program died: an assertion or a pointer that is null or   *)
(*           was never set                                                 *)
(*   faults  how many calls of the system failed                           *)
(***************************************************************************)
EXTENDS TzxFormat, TapFormat, WavFormat, FiniteSets

CONSTANTS Files,      \* files that other programs wrote
          Recordings, \* blocks that quick save records
          Mems,       \* numbers of allocations that succeed before one fails
          Enough,     \* as many as any call makes
          Resampled,  \* samples that playing a tape into a WAVE file may give
          MaxBlocks,  \* a bound on the length of a tape
          MaxFaults,  \* a bound on the calls of the system that fail
          MaxLost     \* a bound on the objects lost before a call

ASSUME FilesAssumption ==
  /\ \A file \in Files : \A i \in DOMAIN file.tape.blocks : IsBlock(file.tape.blocks[i])
  /\ Recordings \subseteq Data
  /\ Enough \in Nat /\ \A mem \in Mems : mem < Enough

VARIABLES deck, disk, rc, heap, leaked, dead, faults

vars == <<deck, disk, rc, heap, leaked, dead, faults>>

Formats == {"tap", "tzx", "wav"}
NoTape == [version |-> <<0, 0>>, blocks |-> <<>>]
Empty == [tape |-> NoTape, name |-> "none"]
HasTape == deck.tape # NoTape
NoObjects == [k \in ObjectKinds |-> 0]
Total(h) == FoldSet(LAMBDA k, n : h[k] + n, 0, ObjectKinds)

Init ==
  /\ disk \in Files
  /\ deck = [tape |-> NewTape, name |-> "tzx"]
  /\ rc = "ok"
  /\ heap = Allocate(NoObjects, Owned(<<>>))
  /\ leaked = NoObjects
  /\ dead = FALSE
  /\ faults = 0

(***************************************************************************)
(* tape_deck_new(), with tape_deck_close() for the tape that goes.         *)
(***************************************************************************)
ClosedHeap == IF HasTape THEN Free(heap, Freed(deck.tape.blocks)) ELSE heap
Lost == Total(heap) - (IF HasTape THEN Len(Owned(deck.tape.blocks)) ELSE 0)
Alive == ~dead /\ Lost <= MaxLost

(* A failure counts.                                                       *)
Fault(failed) == IF failed THEN faults < MaxFaults /\ faults' = faults + 1 ELSE UNCHANGED faults

New(mem) ==
  /\ Alive
  /\ Fault(mem < 2)
  /\ UNCHANGED <<disk, leaked, dead>>
  /\ CASE mem = 0 -> rc' = "ENOMEM" /\ UNCHANGED <<deck, heap>>
       [] mem = 1 -> rc' = "ENOMEM" /\ deck' = Empty /\ heap' = ClosedHeap
       [] OTHER -> /\ rc' = "ok"
                   /\ deck' = [tape |-> NewTape, name |-> "tzx"]
                   /\ heap' = Allocate(ClosedHeap, Owned(<<>>))

(***************************************************************************)
(* tape_deck_open(): the old tape goes first.  When the name cannot be     *)
(* copied, the tape just loaded is lost and the return code is zero.       *)
(***************************************************************************)
Load(file, mem, h, lucky) ==
  LET r == Reader(file.bytes, mem, h)
  IN  CASE file.fmt = "tzx" -> TzxLoad(r)
        [] file.fmt = "tap" -> TapLoad(r, lucky)
        [] file.fmt = "wav" -> WavLoad(r, lucky)
VersionOf(file) == IF file.fmt = "tzx" THEN SubSeq(file.bytes, 9, 10) ELSE <<1, 1>>

Open(mem, lucky) ==
  /\ Alive
  /\ UNCHANGED disk
  /\ \E r \in {Load(disk, mem, ClosedHeap, lucky)} :
       /\ Fault(mem < Enough)
       /\ dead' = r.dead
       /\ rc' = r.rc
       /\ heap' = r.heap
       /\ IF r.rc = "ok" /\ ~r.dead /\ r.mem = 0
          THEN deck' = Empty /\ leaked' = Allocate(leaked, Owned(r.blocks))
          ELSE /\ deck' = IF r.rc # "ok" \/ r.dead THEN Empty
                          ELSE [tape |-> [version |-> VersionOf(disk), blocks |-> r.blocks], name |-> disk.fmt]
               /\ UNCHANGED leaked

(***************************************************************************)
(* Saving.  What each format writes, and the return code, when every write *)
(* succeeds.                                                               *)
(***************************************************************************)
Outputs(fmt) ==
  CASE fmt = "tzx" -> {TzxSave(deck.tape)}
    [] fmt = "tap" -> {TapSave(deck.tape)}
    [] fmt = "wav" ->
         {[bytes |-> Closed(WavParams(deck.tape), s), rc |-> "ok"] :
            s \in IF Direct(deck.tape) THEN {DirectSamples(deck.tape)} ELSE Resampled}

Written(fmt, bytes, how) == [fmt |-> fmt, bytes |-> bytes, tape |-> deck.tape, how |-> how]

(* A failed write leaves a prefix of the file.  A WAVE file is closed with *)
(* the sizes of what was written, if that write succeeds.                  *)
Remains(fmt, bytes) ==
  {SubSeq(bytes, 1, n) : n \in 0..(Len(bytes) - 1)}
    \cup IF fmt # "wav" THEN {}
         ELSE UNION {LET s == SubSeq(bytes, 45, 44 + n) IN
                       {Opened(WavParams(deck.tape)) \o s, Closed(WavParams(deck.tape), s)}
                     : n \in 0..(Len(bytes) - 44)}

Save(fmt) ==
  /\ Alive /\ HasTape
  /\ UNCHANGED <<heap, leaked>>
  /\ \E out \in Outputs(fmt) :
       \/ /\ disk' = Written(fmt, out.bytes, IF out.rc = "ok" THEN "whole" ELSE "part")
          /\ rc' = out.rc
          /\ dead' = FALSE
          /\ Fault(FALSE)
       \/ /\ rc' \in IF fmt = "wav" THEN {"EIO", "ENOMEM"} ELSE {"ENOENT"}    \* no file is opened
          /\ UNCHANGED <<disk, dead>>
          /\ Fault(TRUE)
       \/ \E bytes \in Remains(fmt, out.bytes) :
            /\ disk' = Written(fmt, bytes, "part")
            /\ Fault(TRUE)
            /\ \/ rc' = "EIO" /\ dead' = FALSE         \* a write failed
               \/ /\ fmt = "wav" /\ Len(bytes) = 44      \* no memory for the player
                  /\ rc' = "ENOMEM" /\ dead' = FALSE
               \/ /\ out.rc = "ok"                    \* fclose() failed, and is called again
                  /\ IF fmt = "wav" THEN rc' = "ok" /\ dead' = FALSE
                     ELSE rc' = "EIO" /\ dead' = TRUE

(* tape_deck_save_as(): the name is copied first and taken after success.  *)
SaveAs(fmt) ==
  \/ /\ Save(fmt)
     /\ deck' = IF rc' = "ok" THEN [deck EXCEPT !.name = fmt] ELSE deck
  \/ /\ Alive
     /\ rc' = "ENOMEM"
     /\ Fault(TRUE)
     /\ UNCHANGED <<deck, disk, heap, leaked, dead>>

(* tape_deck_save().                                                       *)
SaveAgain == Save(deck.name) /\ UNCHANGED deck

(* sabytes() puts a block before the deck's current one, wherever that is. *)
Record(b, at) ==
  /\ Alive /\ HasTape
  /\ Len(deck.tape.blocks) < MaxBlocks
  /\ deck' = [deck EXCEPT !.tape.blocks = InsertAt(@, at, b)]
  /\ heap' = Allocate(heap, DataObjects)
  /\ UNCHANGED <<disk, rc, leaked, dead, faults>>

(* After a failure to open a tape the deck has none: saving and recording  *)
(* look into it all the same.  The file to save to is open by then.        *)
WithoutTape ==
  /\ Alive /\ ~HasTape
  /\ dead' = TRUE
  /\ disk' \in {disk} \cup {[fmt |-> f, bytes |-> <<>>, tape |-> NoTape, how |-> "part"] : f \in {"tap", "tzx"}}
  /\ UNCHANGED <<deck, rc, heap, leaked, faults>>

(* The program ends, or is dead, and is started again.                     *)
Restart ==
  /\ UNCHANGED <<disk, faults>>
  /\ deck' = [tape |-> NewTape, name |-> "tzx"]
  /\ rc' = "ok"
  /\ heap' = Allocate(NoObjects, Owned(<<>>))
  /\ leaked' = NoObjects
  /\ dead' = FALSE

Next ==
  \/ \E mem \in Mems \cup {Enough} : New(mem) \/ \E lucky \in BOOLEAN : Open(mem, lucky)
  \/ \E fmt \in Formats : SaveAs(fmt)
  \/ SaveAgain
  \/ \E b \in Recordings, at \in 1..(MaxBlocks + 1) : at <= Len(deck.tape.blocks) + 1 /\ Record(b, at)
  \/ WithoutTape
  \/ Restart

Spec == Init /\ [][Next]_vars

(***************************************************************************)
(* Properties.  Opened gives what a load without a failed allocation makes *)
(* of the file on disk.                                                    *)
(***************************************************************************)
OnDisk == Load(disk, Enough, NoObjects, TRUE)
Truncated(b) == b.btype = "unknown" /\ Len(b.udata) > 65535

(* What a block is after it went through a format: a TAP file keeps no      *)
(* pauses.                                                                 *)
Kept(fmt, b) == IF fmt = "tap" /\ b.btype = "data" THEN [b EXCEPT !.pause_after = RomPauseLenMs] ELSE b
KeptTape(fmt, blocks) == [i \in DOMAIN blocks |-> Kept(fmt, blocks[i])]
LoadedAs(r, blocks) == r.rc = "ok" /\ ~r.dead /\ r.blocks = blocks
LoadedAsPrefix(r, blocks) == (r.rc = "ok" /\ ~r.dead) => IsPrefix(r.blocks, blocks)

(* A TZX or TAP file that was written to its end, or that another program  *)
(* wrote, opens as the very tape it was written from: every kind of block, *)
(* every field at its width (tzx_tape_save() and tzx_tape_load(), tape.h:33 *)
(* "able to perfectly represent any TZX file").                            *)
RoundTrip ==
  (disk.how # "part" /\ disk.fmt # "wav" /\ \A i \in DOMAIN disk.tape.blocks : ~Truncated(disk.tape.blocks[i])) =>
    /\ LoadedAs(OnDisk, KeptTape(disk.fmt, disk.tape.blocks))
    /\ VersionOf(disk) = disk.tape.version \/ disk.fmt = "tap"

(* A file cut short by a failed write either does not open or opens as the *)
(* first blocks of the tape: no block appears that was not saved, and none *)
(* with half of its data (the length checks of every loader).              *)
PartIsPrefix ==
  (disk.how = "part" /\ disk.fmt # "wav") =>
    LoadedAsPrefix(OnDisk, KeptTape(disk.fmt, disk.tape.blocks))

(* Every object allocated for a tape belongs to the tape in the deck,      *)
(* whatever call failed at whatever allocation: none is freed twice and    *)
(* none lost, but the payloads of unknown blocks (tblock_unknown_destroy()) *)
(* and tapes whose name could not be copied (tape_deck_open()).            *)
NothingLost ==
  ~dead => \A k \in ObjectKinds :
    LET owned == IF HasTape THEN Occurs(k, Owned(deck.tape.blocks)) ELSE 0
    IN  IF k = "udata" THEN heap[k] >= owned + leaked[k] ELSE heap[k] = owned + leaked[k]

(* The samples of the file as levels, and the part of them that a recording *)
(* of the largest size holds.                                              *)
FileSamples ==
  LET r == Reader(disk.bytes, 0, NoObjects)
      s == Bits(Bytes(r, DataAt(r) + 8, Left(r) - DataAt(r) - 8), Params(r).bits_smp \div 8)
  IN  [i \in DOMAIN s |-> 255 * s[i]]
Part(s, k) == SubSeq(s, (8 * DrecMax * (k - 1)) + 1, IF 8 * DrecMax * k < Len(s) THEN 8 * DrecMax * k ELSE Len(s))

(* The blocks play the samples in their order, each the first of its part   *)
(* of a whole file, short of eight at most.                                *)
PlayedInOrder(r, s) ==
  (r.rc = "ok" /\ ~r.dead) =>
    /\ \A k \in DOMAIN r.blocks :
         \E played \in {Unpacked(r.blocks[k])}, part \in {Part(s, k)} :
           IsPrefix(played, part) /\ (disk.how = "part" \/ Len(part) <= Len(played) + 8)
    /\ disk.how = "part" \/ Len(s) < (8 * DrecMax * Len(r.blocks)) + 8

(* A WAVE file opens as blocks of its samples in their order, each block   *)
(* the first samples of its part of the file, short of eight at most: the  *)
(* bits of the last byte are not counted (wav_load_direct_rec()).          *)
WavInOrder == disk.fmt = "wav" => PlayedInOrder(OnDisk, FileSamples)
===============================================================================
