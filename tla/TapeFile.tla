------------------------------- MODULE TapeFile -------------------------------
(***************************************************************************)
(* Reading and writing a tape file: the little-endian conversions of       *)
(* byteorder.h, the packed header structures, and the common course of the *)
(* functions that load one block.                                          *)
(*                                                                         *)
(* A reader is a record: the file, the number of bytes read from it, how   *)
(* many allocations still succeed, the heap, the blocks of the tape so     *)
(* far, the return code, and whether the program died on the way.          *)
(***************************************************************************)
EXTENDS TapeBlocks

Value(bytes) == FoldRight(LAMBDA b, v : b + (256 * v), bytes, 0)
Le(v, n) == [i \in 1..n |-> (v \div (256 ^ (i - 1))) % 256]

(* A header is a sequence of fields, each a name and a width in bytes. *)
Size(head) == FoldRight(LAMBDA f, n : f[2] + n, head, 0)
Offset(head, name) == Size(SubSeq(head, 1, SelectInSeq(head, LAMBDA f : f[1] = name) - 1))
Width(head, name) == head[SelectInSeq(head, LAMBDA f : f[1] = name)][2]
Names(head) == {head[i][1] : i \in DOMAIN head}
Packed(head, values) == FlattenSeq([i \in DOMAIN head |-> Le(values[head[i][1]], head[i][2])])

Left(r) == Len(r.file) - r.pos
Bytes(r, from, n) == SubSeq(r.file, r.pos + from + 1, r.pos + from + n)
Body(r, head, n) == Bytes(r, Size(head), n)
Header(r, head) == [name \in Names(head) |-> Value(Bytes(r, Offset(head, name), Width(head, name)))]

(* What fread() into a string followed by strlen() makes of n bytes. *)
CString(bytes) == SubSeq(bytes, 1, SelectInSeq(Append(bytes, 0), LAMBDA c : c = 0) - 1)

(***************************************************************************)
(* Going on, giving up and dying.                                          *)
(***************************************************************************)
Reader(file, mem, heap) ==
  [file |-> file, pos |-> 0, mem |-> mem, heap |-> heap, blocks |-> <<>>, rc |-> "ok", dead |-> FALSE]
Stopped(r) == r.rc # "ok" \/ r.dead
Failed(r, rc) == [r EXCEPT !.rc = rc]
Dead(r) == [r EXCEPT !.dead = TRUE]
Skip(r, n) == [r EXCEPT !.pos = @ + n]
Create(r, objects) ==
  IF r.mem < Len(objects) THEN Failed(r, "ENOMEM")
  ELSE [r EXCEPT !.mem = @ - Len(objects), !.heap = Allocate(@, objects)]

Repeat(n, Step(_), r) == FoldLeft(LAMBDA s, i : IF Stopped(s) THEN s ELSE Step(s), r, [i \in 1..n |-> i])

(* Header, allocations, the rest of the block, and the block at the end of *)
(* the tape: the course of the functions that load a block.  When one of   *)
(* the steps fails they destroy the objects created for the block.         *)
Loaded(r, head, objects, body, b) ==
  CASE Left(r) < Size(head) -> Failed(r, "EIO")
    [] r.mem < Len(objects) -> Failed(r, "ENOMEM")
    [] Left(r) < Size(head) + body -> Failed(r, "EIO")
    [] OTHER -> [Skip(Create(r, objects), Size(head) + body) EXCEPT !.blocks = TapeAppend(@, b)]

(* The end of a load: the tape, or after a failure what tape_destroy()     *)
(* leaves behind.                                                          *)
Ended(r) ==
  IF r.rc = "ok" \/ r.dead THEN r ELSE [r EXCEPT !.heap = Free(@, Freed(r.blocks)), !.blocks = <<>>]
===============================================================================
