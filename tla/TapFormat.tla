------------------------------ MODULE TapFormat -------------------------------
(***************************************************************************)
(* tape/tap.c: standard blocks only, each a length and its bytes.          *)
(***************************************************************************)
EXTENDS TapeFile

RomPauseLenMs == 1000
TapVersion == <<1, 1>>
TapHead == <<<<"data_len", 2>>>>

(* The end of the file is where no length is left, also after one byte of  *)
(* it.  When the block cannot be created the error path looks at a pointer *)
(* that was never set: "lucky" is the outcome that it is null.             *)
TapLoadData(r, lucky) ==
  LET len == Header(r, TapHead).data_len
  IN  CASE Left(r) < 2 -> Failed(r, "ENOENT")
        [] Left(r) >= 2 /\ r.mem < 2 /\ ~lucky -> Dead(r)
        [] OTHER -> Loaded(r, TapHead, DataObjects, len,
                           [btype |-> "data", pause_after |-> RomPauseLenMs, data |-> Body(r, TapHead, len)])

RECURSIVE TapBlocks(_, _)
TapBlocks(r, lucky) == IF Stopped(r) THEN r ELSE TapBlocks(TapLoadData(r, lucky), lucky)

TapLoad(r, lucky) ==
  LET t == Create(r, <<"tape">>)
      s == TapBlocks(t, lucky)
  IN  IF Stopped(t) THEN t ELSE Ended(IF s.rc = "ENOENT" THEN [s EXCEPT !.rc = "ok"] ELSE s)

TapSaveData(b) == Le(Len(b.data), 2) \o b.data

TapSave(tape) ==
  FoldLeft(LAMBDA w, b : IF w.rc # "ok" THEN w
                         ELSE IF b.btype # "data" THEN [w EXCEPT !.rc = "ENOTSUP"]
                         ELSE [w EXCEPT !.bytes = @ \o TapSaveData(b)],
           [bytes |-> <<>>, rc |-> "ok"], tape.blocks)
===============================================================================
