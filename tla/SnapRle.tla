------------------------------ MODULE SnapRle ------------------------------
(***************************************************************************)
(* The run-length code of .z80 snapshots (snap.c) and the reading of bytes  *)
(* of a file that may have ended (fileutil.c).                              *)
(*                                                                          *)
(* A file is a sequence of bytes, a position the number of bytes before it. *)
(* Pages are PageBytes long for 0x4000; with them are scaled MaxRep, the    *)
(* largest count of a run (255), and Esc, the byte that announces a run     *)
(* (0xED), so that a run may be longer than MaxRep and the length of a      *)
(* packed page may be Esc.                                                  *)
(***************************************************************************)
EXTENDS Naturals, Sequences

CONSTANTS PageBytes, MaxRep, Esc

ASSUME RleAssumption ==
  PageBytes \in 2..16384 /\ MaxRep \in 5..255 /\ Esc \in 1..255

(* fgetu8() and fgetu16le().  At the end of the file fgetu8() returns what  *)
(* its variable holds: tmp.                                                 *)
U8(f, tmp, pos) == IF pos < Len(f) THEN f[pos + 1] ELSE tmp
U16(f, tmp, pos) == U8(f, tmp, pos) + (256 * U8(f, tmp, pos + 1))

(* fputu16le().                                                             *)
Le(w) == <<w % 256, (w \div 256) % 256>>

Times(n, b) == [j \in 1..n |-> b]

(***************************************************************************)
(* z80_write_page_data().  A run of cnt bytes b is put as run codes while   *)
(* it is worth one, and the rest as it is.  Behind a single Esc no run      *)
(* starts: two of them would announce one.                                  *)
(***************************************************************************)
WorthACode(b, cnt) == cnt >= 5 \/ (b = Esc /\ cnt >= 2)

Coded(b, cnt) ==
  LET code[n \in 0..cnt] ==
        IF WorthACode(b, n)
        THEN LET now == IF n > MaxRep THEN MaxRep ELSE n
                 rest == code[n - now]
             IN  [rest EXCEPT !.bytes = <<Esc, Esc, now, b>> \o @]
        ELSE [bytes |-> Times(n, b), left |-> n]
  IN  code[cnt]

RunLength(page, i) ==
  CHOOSE n \in 1..(Len(page) - i + 1) :
    /\ \A j \in i..(i + n - 1) : page[j] = page[i]
    /\ i + n <= Len(page) => page[i + n] # page[i]

Packed_RunsBehindEsc(page) ==
  LET pack[i \in 1..(Len(page) + 1)] ==
        IF i > Len(page) THEN <<>>
        ELSE Coded(page[i], RunLength(page, i)).bytes \o pack[i + RunLength(page, i)]
  IN  pack[1]

Packed(page) ==
  LET pack[x \in (1..(Len(page) + 1)) \X BOOLEAN] ==
        LET i == x[1]
            noRun == x[2]
            cnt == IF noRun THEN 1 ELSE RunLength(page, i)
            c == Coded(page[i], cnt)
        IN  IF i > Len(page) THEN <<>>
            ELSE c.bytes \o pack[<<i + cnt, page[i] = Esc /\ c.left > 0>>]
  IN  pack[<<1, FALSE>>]

(***************************************************************************)
(* snap_z80_read_mem_page(): the bytes that are stored from pos on until    *)
(* there are n; a run is stored whole.                                      *)
(***************************************************************************)
Unpacked(f, tmp, pos, n) ==
  LET unpack[x \in Nat \X Nat] ==
        LET p == x[1]
            cnt == x[2]
            nrep == U8(f, tmp, p + 2)
        IN  IF cnt >= n THEN <<>>
            ELSE IF U8(f, tmp, p) = Esc /\ U8(f, tmp, p + 1) = Esc
            THEN Times(nrep, U8(f, tmp, p + 3)) \o unpack[<<p + 4, cnt + nrep>>]
            ELSE <<U8(f, tmp, p)>> \o unpack[<<p + 1, cnt + 1>>]
  IN  unpack[<<pos, 0>>]

(* The page ends with an Esc that stands for itself.                        *)
EndsOpen(page) ==
  \E k \in 1..Len(page) :
    /\ k % MaxRep = 1
    /\ \A j \in (Len(page) - k + 1)..Len(page) : page[j] = Esc
    /\ k < Len(page) => page[Len(page) - k] # Esc
=============================================================================
