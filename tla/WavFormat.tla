------------------------------ MODULE WavFormat -------------------------------
(***************************************************************************)
(* tape/wav.c with wav/rwave.c and wav/chunk.c: a tape of direct           *)
(* recordings as the samples of a RIFF WAVE file, and a WAVE file as one   *)
(* or more direct recordings.                                              *)
(***************************************************************************)
EXTENDS TapeFile

CONSTANTS WavBufSize, \* 4096 in the code
          DrecMax     \* tb_drec_data_len_max, 2^24 - 1 in the code

ASSUME WavSizes == /\ WavBufSize \in Nat \ {0} /\ WavBufSize % 16 = 0
                   /\ DrecMax \in Nat \ {0}

Z80Clock == 3500000
WavVersion == <<1, 1>>

(***************************************************************************)
(* The RIFF container: chunks of an identifier, a size and data.           *)
(***************************************************************************)
RiffId == 1179011410
WaveId == 1163280727
FmtId == 544501094
DataId == 1635017060

ChunkHead == <<<<"ckid", 4>>, <<"cksize", 4>>>>
Chunk(id, size) == Packed(ChunkHead, [ckid |-> id, cksize |-> size])
FmtHead == <<<<"format_tag", 2>>, <<"channels", 2>>, <<"smp_sec", 4>>, <<"avg_bytes_sec", 4>>,
             <<"block_align", 2>>, <<"bits_smp", 2>>>>
EncodeFmt(p) ==
  LET bytes_smp == (p.bits_smp + 7) \div 8
  IN  [format_tag |-> 1, channels |-> p.channels, smp_sec |-> p.smp_freq,
       avg_bytes_sec |-> bytes_smp * p.smp_freq * p.channels, block_align |-> bytes_smp,
       bits_smp |-> p.bits_smp]

(* What rwave_wopen() writes: the sizes of the outer chunk and of the      *)
(* sample data are still zero.  rwave_wclose() fills them in.              *)
Opened(p) == Chunk(RiffId, 0) \o Le(WaveId, 4) \o Chunk(FmtId, 16) \o Packed(FmtHead, EncodeFmt(p)) \o Chunk(DataId, 0)
Closed(p, samples) ==
  Chunk(RiffId, 36 + Len(samples)) \o Le(WaveId, 4) \o Chunk(FmtId, 16) \o Packed(FmtHead, EncodeFmt(p))
    \o Chunk(DataId, Len(samples)) \o samples

(* rwave_ropen(): the position of the first sample and the parameters, or  *)
(* a failure.  The chunk of the parameters may be longer than they are.    *)
Padded(n) == n + (n % 2)
ChunkAt(r, at) == Header(Skip(r, at), ChunkHead)
IsWave(r) ==
  /\ Left(r) >= 36
  /\ Value(Bytes(r, 8, 4)) = WaveId
  /\ ChunkAt(r, 12).ckid = FmtId
  /\ ChunkAt(r, 12).cksize >= 16
  /\ Header(Skip(r, 20), FmtHead).format_tag = 1
  /\ LET at == Padded(20 + ChunkAt(r, 12).cksize)
     IN  Left(r) >= at + 8 /\ ChunkAt(r, at).ckid = DataId
DataAt(r) == Padded(20 + ChunkAt(r, 12).cksize)
Params(r) ==
  LET h == Header(Skip(r, 20), FmtHead)
  IN  [channels |-> h.channels, smp_freq |-> h.smp_sec, bits_smp |-> h.bits_smp]

(***************************************************************************)
(* Loading: samples become bits.  A recording w in the making has the      *)
(* position in the file, the number of whole bytes, the bits beyond them   *)
(* and all bits read.                                                      *)
(***************************************************************************)
Supported(p) == /\ p.channels = 1
                /\ p.bits_smp \in {8, 16}
                /\ p.smp_freq >= Z80Clock \div 65535
                /\ Z80Clock \div p.smp_freq >= 1

ToRead(w, bytes_smp) ==
  IF w.data_len + (((WavBufSize \div bytes_smp) + 7) \div 8) <= DrecMax THEN WavBufSize
  ELSE (DrecMax - w.data_len) * 8 * bytes_smp

(* riff_rchunk_read(): less at the end of the chunk, an error at that of   *)
(* the file.                                                               *)
ReadSamples(r, bytes, end) ==
  LET n == IF bytes < end - r.pos THEN bytes ELSE end - r.pos
  IN  IF n > 0 /\ Left(r) = 0 THEN [rc |-> "EIO", buf |-> <<>>]
      ELSE [rc |-> "ok", buf |-> SubSeq(r.file, r.pos + 1, IF n < Left(r) THEN r.pos + n ELSE Len(r.file))]

(* One bit for each whole sample: above the middle, or positive.           *)
Bits(buf, bytes_smp) ==
  [i \in 1..(Len(buf) \div bytes_smp) |->
     IF bytes_smp = 1 THEN IF buf[i] > 127 THEN 1 ELSE 0
     ELSE LET v == Value(SubSeq(buf, (2 * i) - 1, 2 * i)) IN IF v \in 1..32767 THEN 1 ELSE 0]

Pack(bits) == FoldLeft(LAMBDA v, b : (2 * v) + b, 0, bits)
PackBits(bits, bytes) == [i \in 1..bytes |-> Pack(SubSeq(bits, (8 * i) - 7, 8 * i))]

(* Another buffer: its whole bytes are counted, the samples left over go   *)
(* to lb_bits only, and the data grow to the whole bytes.                  *)
Grown_Restarts(w, bits) ==
  [w EXCEPT !.data_len = Len(bits) \div 8, !.lb_bits = Len(bits) % 8, !.bits = @ \o bits]
Grown(w, bits) ==
  LET over == w.lb_bits + (Len(bits) % 8)
  IN  [w EXCEPT !.data_len = @ + (Len(bits) \div 8) + (IF over > 8 THEN 1 ELSE 0),
                !.lb_bits = IF over > 8 THEN over - 8 ELSE over,
                !.bits = @ \o bits]

RECURSIVE ReadAll(_, _, _, _)
ReadAll(r, w, bytes_smp, end) ==
  LET g == ReadSamples(r, ToRead(w, bytes_smp), end)
  IN  CASE g.rc # "ok" -> [r |-> Failed(r, g.rc), w |-> w]
        [] g.rc = "ok" /\ g.buf = <<>> -> [r |-> r, w |-> w]
        [] g.buf # <<>> /\ r.mem = 0 -> [r |-> Failed(r, "ENOMEM"), w |-> w]
        [] OTHER -> ReadAll([Skip(r, Len(g.buf)) EXCEPT !.mem = @ - 1], Grown(w, Bits(g.buf, bytes_smp)), bytes_smp, end)

(* wav_load_direct_rec(): a buffer and the block, the samples, the end of  *)
(* the tape if there was not a whole byte of them.  When the buffer or the *)
(* block cannot be created, the error path looks at a pointer that was     *)
(* never set.                                                              *)
WavLoadDirectRec(r, p, end, lucky) ==
  LET bytes_smp == p.bits_smp \div 8
      s == ReadAll([r EXCEPT !.mem = @ - 3], [data_len |-> 0, lb_bits |-> 0, bits |-> <<>>], bytes_smp, end)
      b == [btype |-> "direct_rec", smp_dur |-> Z80Clock \div p.smp_freq, pause_after |-> 0,
            lb_bits |-> s.w.lb_bits, data |-> PackBits(s.w.bits, s.w.data_len)]
  IN  CASE r.mem < 3 /\ ~lucky -> Dead(r)
        [] r.mem < 3 /\ lucky -> Failed(r, "ENOMEM")
        [] r.mem >= 3 /\ s.r.rc # "ok" -> Failed(r, s.r.rc)
        [] r.mem >= 3 /\ s.r.rc = "ok" /\ s.w.data_len = 0 -> Failed(r, "ENOENT")
        [] OTHER -> [s.r EXCEPT !.heap = Allocate(@, DirectRecObjects), !.blocks = TapeAppend(@, b)]

RECURSIVE WavBlocks(_, _, _, _)
WavBlocks(r, p, end, lucky) == IF Stopped(r) THEN r ELSE WavBlocks(WavLoadDirectRec(r, p, end, lucky), p, end, lucky)

(* wav_tape_load(): when the file cannot be opened as a WAVE file, its     *)
(* error path closes a reader that was never set.                          *)
WavLoad(r, lucky) ==
  LET t == Create(Skip([r EXCEPT !.mem = @ - 2], DataAt(r) + 8), <<"tape">>)
      end == DataAt(r) + 8 + ChunkAt(r, DataAt(r)).cksize
      s == IF Supported(Params(r)) THEN WavBlocks(t, Params(r), end, lucky) ELSE Failed(t, "ENOTSUP")
  IN  CASE r.mem < 2 \/ ~IsWave(r) -> IF lucky THEN Failed(r, IF r.mem < 2 THEN "ENOMEM" ELSE "EIO") ELSE Dead(r)
        [] r.mem = 2 -> Failed(r, "ENOMEM")
        [] OTHER -> Ended(IF s.rc = "ENOENT" THEN [s EXCEPT !.rc = "ok"] ELSE s)

(***************************************************************************)
(* Saving: bits become samples.                                            *)
(***************************************************************************)
BitOf(byte, i) == (byte \div (2 ^ (8 - i))) % 2
UsedBits(b, k) == IF k < Len(b.data) THEN 8 ELSE b.lb_bits
Unpacked(b) ==
  FlattenSeq([k \in DOMAIN b.data |-> [i \in 1..UsedBits(b, k) |-> IF BitOf(b.data[k], i) = 1 THEN 255 ELSE 0]])

(* wav_tape_save_drec(): the sample duration that all blocks share; zero   *)
(* on an empty tape, and the next block's when it is zero.                 *)
Mixed == 65536
SmpDur(tape) ==
  FoldLeft(LAMBDA d, b : CASE d = Mixed \/ b.btype # "direct_rec" -> Mixed
                           [] d = 0 -> b.smp_dur
                           [] OTHER -> IF b.smp_dur = d THEN d ELSE Mixed,
           0, tape.blocks)
Direct(tape) == SmpDur(tape) # Mixed
DirectParams(tape) ==
  [channels |-> 1, bits_smp |-> 8, smp_freq |-> IF SmpDur(tape) = 0 THEN 44100 ELSE Z80Clock \div SmpDur(tape)]
DirectSamples(tape) == FlattenSeq([k \in DOMAIN tape.blocks |-> Unpacked(tape.blocks[k])])

(* A tape with other blocks is played into the file at 79 T states to a    *)
(* sample.                                                                 *)
ResampledParams == [channels |-> 1, bits_smp |-> 8, smp_freq |-> Z80Clock \div 79]
WavParams(tape) == IF Direct(tape) THEN DirectParams(tape) ELSE ResampledParams
===============================================================================
