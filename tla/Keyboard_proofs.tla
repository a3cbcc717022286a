--------------------------- MODULE Keyboard_proofs ---------------------------
(***************************************************************************)
(* For a ring of every size and every set of keys: events are read in their *)
(* order, Alt is taken for held after its release only where a debugger     *)
(* that a stop or a step opened has read it, the lock of the user interface *)
(* holds, and the program sees the keys that are held.                      *)
(*                                                                          *)
(* Alt and the lock: what a key opens, be it a menu, a dialog or the        *)
(* debugger, needs Alt released or forgets it, and is never open while the  *)
(* interface is locked; so while Alt is held, or the lock is on, only the   *)
(* handler and a debugger that was stopped in read the queue.               *)
(*                                                                          *)
(* The queue: the ring after n of the host's events were put (Merged) is    *)
(* followed from put to put, by the least n that would refute it.  The keys *)
(* are followed by FollowInv: which event tells of a key, while it waits.   *)
(***************************************************************************)
EXTENDS Keyboard, NaturalsInduction, WellFoundedInduction, TLAPS

-----------------------------------------------------------------------------
(* The ring and the host's events as one sequence.                          *)

Count(h, t) == IF h >= t THEN h - t ELSE h + Size - t
Cell(t, i) == IF t + i - 1 < Size THEN t + i - 1 ELSE t + i - 1 - Size
Ring(w, h, t) == [i \in 1 .. Count(h, t) |-> w[Cell(t, i)]]

Index == 0 .. (Size - 1)

LEMMA SizeType == Size \in Nat /\ Size >= 2
BY KeyboardAssumption

LEMMA CountType ==
  ASSUME NEW h \in Index, NEW t \in Index
  PROVE  /\ Count(h, t) \in Nat /\ Count(h, t) < Size
         /\ h = t <=> Count(h, t) = 0
         /\ \A i \in 1 .. Count(h, t) : Cell(t, i) \in Index /\ Cell(t, i) # h
         /\ Cell(t, Count(h, t) + 1) = h
BY SizeType DEF Count, Cell, Index

LEMMA RingType ==
  ASSUME NEW w \in [Index -> Event], NEW h \in Index, NEW t \in Index
  PROVE  /\ Ring(w, h, t) \in Seq(Event)
         /\ Len(Ring(w, h, t)) = Count(h, t)
         /\ \A i \in 1 .. Count(h, t) : Ring(w, h, t)[i] = w[Cell(t, i)]
<1>1. \A i \in 1 .. Count(h, t) : w[Cell(t, i)] \in Event
  BY CountType
<1> DEFINE n == Count(h, t)
<1>2. n \in Nat
  BY CountType
<1> HIDE DEF n
<1>3. [i \in 1 .. n |-> w[Cell(t, i)]] \in Seq(Event)
  BY <1>1, <1>2 DEF n
<1> QED BY <1>2, <1>3 DEF Ring, n

LEMMA InRingIs == InRing = Ring(wbuf, wh, wt)
BY DEF InRing, Waiting, Place, Ring, Count, Cell

\* The ring behind Advanced, and the place that is written.
LEMMA AdvancedIs ==
  ASSUME NEW h \in Index, NEW t \in Index
  PROVE  /\ Advanced(h) \in Index
         /\ Advanced(h) = t <=> Count(h, t) = Size - 1
         /\ Count(h, t) < Size - 1 => Count(Advanced(h), t) = Count(h, t) + 1
         /\ Advanced(h) = t /\ Advanced(h) # 0 => Advanced(h) - 1 = h
         /\ Count(h, t) > 0 => /\ Count(h, Advanced(t)) = Count(h, t) - 1
                               /\ \A i \in 1 .. Count(h, t) - 1 :
                                    Cell(Advanced(t), i) = Cell(t, i + 1)
BY SizeType DEF Advanced, Count, Cell, Index

\* What is remembered of a ring: the record that PutKey works on.
Rings == [wbuf : [Index -> Event], wh : Index, wt : Index, lost : SUBSET Keys]

LEMMA PutKeyIs ==
  ASSUME NEW r \in Rings, NEW e \in Event
  PROVE  LET p == PutKey(r, e)
             n == Count(r.wh, r.wt)
         IN  /\ p.wt = r.wt
             /\ n < Size - 1 =>
                  /\ p \in Rings
                  /\ Count(p.wh, p.wt) = n + 1
                  /\ \A i \in 1 .. n : p.wbuf[Cell(r.wt, i)] = r.wbuf[Cell(r.wt, i)]
                  /\ p.wbuf[Cell(r.wt, n + 1)] = e
                  /\ p.lost = r.lost \ {e.key}
             /\ n >= Size - 1 =>
                  \/ p.wh = -1
                  \/ /\ p \in Rings
                     /\ p.wh = r.wh
                     /\ \A i \in 1 .. n : p.wbuf[Cell(r.wt, i)] = r.wbuf[Cell(r.wt, i)]
                     /\ p.lost = r.lost \cup {e.key}
<1> DEFINE p == PutKey(r, e)
           h == r.wh
           t == r.wt
           n == Count(h, t)
           a == Advanced(h)
           w == [r.wbuf EXCEPT ![h] = e]
<1>1. h \in Index /\ t \in Index /\ r.wbuf \in [Index -> Event] /\ r.lost \in SUBSET Keys
  BY DEF Rings
<1>2. n \in Nat /\ n < Size /\ (\A i \in 1 .. n : Cell(t, i) \in Index /\ Cell(t, i) # h)
      /\ Cell(t, n + 1) = h
  BY <1>1, CountType
<1>3. /\ a \in Index
      /\ a = t <=> n = Size - 1
      /\ n < Size - 1 => Count(a, t) = n + 1
      /\ a = t /\ a # 0 => a - 1 = h
  BY <1>1, AdvancedIs
<1>4. p = [wbuf |-> w, wh |-> IF a = t THEN a - 1 ELSE a, wt |-> t,
           lost |-> IF a = t THEN r.lost \cup {e.key} ELSE r.lost \ {e.key}]
  <2>1. ~(r.wh < 0)
    BY <1>1, SizeType DEF Index
  <2> QED BY <2>1 DEF PutKey
<1>5. e.key \in Keys
  BY DEF Event
<1>6. w \in [Index -> Event] /\ w[h] = e /\ \A i \in Index : i # h => w[i] = r.wbuf[i]
  BY <1>1
<1> HIDE DEF p, h, t, n, a, w
<1>7. p.wt = t /\ p.wbuf = w
  BY <1>4
<1>8. ASSUME n < Size - 1
      PROVE  /\ p \in Rings
             /\ Count(p.wh, p.wt) = n + 1
             /\ \A i \in 1 .. n : p.wbuf[Cell(t, i)] = r.wbuf[Cell(t, i)]
             /\ p.wbuf[Cell(t, n + 1)] = e
             /\ p.lost = r.lost \ {e.key}
  <2>1. a # t
    BY <1>2, <1>3, <1>8, SizeType
  <2>2. p = [wbuf |-> w, wh |-> a, wt |-> t, lost |-> r.lost \ {e.key}]
    BY <1>4, <2>1
  <2>3. p \in Rings
    BY <1>1, <1>3, <1>6, <2>2 DEF Rings
  <2>4. Count(p.wh, p.wt) = n + 1
    BY <1>3, <1>8, <2>2
  <2> QED BY <1>2, <1>6, <2>2, <2>3, <2>4
<1>9. ASSUME n >= Size - 1, p.wh # -1
      PROVE  /\ p \in Rings
             /\ p.wh = r.wh
             /\ \A i \in 1 .. n : p.wbuf[Cell(t, i)] = r.wbuf[Cell(t, i)]
             /\ p.lost = r.lost \cup {e.key}
  <2>1. a = t
    BY <1>2, <1>3, <1>9, SizeType
  <2>2. p = [wbuf |-> w, wh |-> a - 1, wt |-> t, lost |-> r.lost \cup {e.key}]
    BY <1>4, <2>1
  <2>3. a # 0
    BY <1>9, <2>2
  <2>4. a - 1 = h
    BY <1>3, <2>1, <2>3
  <2>5. p \in Rings
    BY <1>1, <1>5, <1>6, <2>2, <2>4 DEF Rings
  <2> QED BY <1>2, <1>6, <2>2, <2>4, <2>5 DEF h
<1> QED BY <1>7, <1>8, <1>9 DEF p, h, t, n

-----------------------------------------------------------------------------
(* mgfx_input_update() puts one event after the other.                      *)

LEMMA Least ==
  ASSUME NEW T \in SUBSET Nat, T # {}
  PROVE  \E x \in T : \A y \in T : x <= y
<1>1. PICK x \in T : \A y \in T : ~(<<y, x>> \in OpToRel(<, Nat))
  BY NatLessThanWellFounded, WFMin
<1>2. \A y \in T : ~(y < x)
  BY <1>1 DEF OpToRel
<1> QED BY <1>2

FirstRing == [wbuf |-> wbuf, wh |-> wh, wt |-> wt, lost |-> lost]

\* The puts of the first n events, one ring for each.
IsPuts(f, n) ==
  f = [i \in 0 .. n |-> IF i = 0 THEN FirstRing ELSE PutKey(f[i - 1], host[i])]

LEMMA PutsExist == ASSUME NEW n \in Nat PROVE \E f : IsPuts(f, n)
<1> DEFINE T == {m \in Nat : ~\E f : IsPuts(f, m)}
<1> SUFFICES ASSUME T # {} PROVE FALSE
  OBVIOUS
<1>1. PICK m \in T : \A k \in T : m <= k
  BY Least
<1>2. m \in Nat /\ ~\E f : IsPuts(f, m)
  OBVIOUS
<1>3. CASE m = 0
  <2> DEFINE f == [i \in 0 .. 0 |-> FirstRing]
  <2>1. \A i \in 0 .. 0 : i = 0
    OBVIOUS
  <2> HIDE DEF T
  <2>2. f = [i \in 0 .. 0 |-> IF i = 0 THEN FirstRing ELSE PutKey(f[i - 1], host[i])]
    BY <2>1
  <2>3. IsPuts(f, 0)
    BY <2>2 DEF IsPuts
  <2> QED BY <1>2, <1>3, <2>3
<1>4. CASE m # 0
  <2>1. m - 1 \in Nat /\ m - 1 \notin T
    BY <1>1, <1>2, <1>4
  <2>2. PICK f : IsPuts(f, m - 1)
    BY <2>1
  <2> DEFINE g == [i \in 0 .. m |-> IF i = m THEN PutKey(f[m - 1], host[m]) ELSE f[i]]
             G(i) == IF i = 0 THEN FirstRing ELSE PutKey(g[i - 1], host[i])
  <2>3. f = [i \in 0 .. (m - 1) |-> IF i = 0 THEN FirstRing ELSE PutKey(f[i - 1], host[i])]
    BY <2>2 DEF IsPuts
  <2> HIDE DEF T
  <2>4. \A i \in 0 .. m : g[i] = IF i = m THEN PutKey(f[m - 1], host[m]) ELSE f[i]
    OBVIOUS
  <2>5. DOMAIN g = 0 .. m
    OBVIOUS
  <2>6. g = [i \in 0 .. m |-> g[i]]
    OBVIOUS
  <2> HIDE DEF g
  <2>7. ASSUME NEW i \in 0 .. m PROVE g[i] = G(i)
    <3>1. CASE i = 0
      <4>1. g[0] = f[0]
        BY <1>2, <1>4, <2>4
      <4>2. f[0] = FirstRing
        BY <2>1, <2>3
      <4> QED BY <3>1, <4>1, <4>2
    <3>2. CASE i # 0 /\ i # m
      <4>1. i \in 0 .. (m - 1) /\ i - 1 \in 0 .. m /\ i - 1 # m
        BY <1>2, <3>2
      <4>2. f[i] = PutKey(f[i - 1], host[i])
        BY <2>3, <3>2, <4>1
      <4>3. g[i] = f[i] /\ g[i - 1] = f[i - 1]
        BY <2>4, <3>2, <4>1
      <4> QED BY <3>2, <4>2, <4>3
    <3>3. CASE i = m
      <4>1. m - 1 \in 0 .. m /\ m - 1 # m
        BY <1>2, <1>4
      <4>2. g[m - 1] = f[m - 1]
        BY <2>4, <4>1
      <4>3. g[m] = PutKey(f[m - 1], host[m])
        BY <2>4, <3>3
      <4> QED BY <1>4, <3>3, <4>2, <4>3
    <3> QED BY <3>1, <3>2, <3>3
  <2>8. [i \in 0 .. m |-> g[i]] = [i \in 0 .. m |-> G(i)]
    BY <2>7
  <2>9. g = [i \in 0 .. m |-> G(i)]
    BY <2>6, <2>8
  <2>10. IsPuts(g, m)
    BY <2>9 DEF IsPuts
  <2> QED BY <1>2, <2>10
<1> QED BY <1>3, <1>4

LEMMA PutsAre ==
  ASSUME Len(host) \in Nat
  PROVE  /\ Puts[0] = FirstRing
         /\ \A n \in 1 .. Len(host) : Puts[n] = PutKey(Puts[n - 1], host[n])
<1>1. PICK f : IsPuts(f, Len(host))
  BY PutsExist
<1>2. IsPuts(Puts, Len(host))
  <2>1. Puts = CHOOSE p : IsPuts(p, Len(host))
    BY DEF Puts, IsPuts, FirstRing
  <2> QED BY <1>1, <2>1
<1>3. Puts = [i \in 0 .. Len(host) |->
                IF i = 0 THEN FirstRing ELSE PutKey(Puts[i - 1], host[i])]
  BY <1>2 DEF IsPuts
<1> DEFINE p == Puts  n == Len(host)
<1>4. p = [i \in 0 .. n |-> IF i = 0 THEN FirstRing ELSE PutKey(p[i - 1], host[i])]
  BY <1>3
<1> HIDE DEF p, n
<1>5. n \in Nat
  BY DEF n
<1>6. p[0] = FirstRing /\ \A i \in 1 .. n : p[i] = PutKey(p[i - 1], host[i])
  BY <1>4, <1>5
<1> QED BY <1>6 DEF p, n

\* The ring r holds what the ring and the first n events of the host come to: the
\* first Size - 1 of them, and whoever is not lost has none of its events behind.
Merged(r, n) ==
  LET k == Count(wh, wt) IN
  \/ r.wh = -1
  \/ /\ r \in Rings
     /\ r.wt = wt
     /\ Count(r.wh, wt) = IF k + n < Size THEN k + n ELSE Size - 1
     /\ \A i \in 1 .. Count(r.wh, wt) :
          r.wbuf[Cell(wt, i)] = IF i <= k THEN wbuf[Cell(wt, i)] ELSE host[i - k]
     /\ \A x \in Keys \ r.lost :
          /\ \A i \in 1 .. n : host[i].key = x => k + i < Size
          /\ (\A i \in 1 .. n : host[i].key # x) => x \notin lost

LEMMA MergedStep ==
  ASSUME TypeOK, NEW n \in Nat, n + 1 <= Len(host), NEW r, Merged(r, n)
  PROVE  Merged(PutKey(r, host[n + 1]), n + 1)
<1> DEFINE k == Count(wh, wt)
           e == host[n + 1]
           p == PutKey(r, e)
           c == Count(r.wh, wt)
           In(i) == IF i <= k THEN wbuf[Cell(wt, i)] ELSE host[i - k]
<1>1. wh \in Index /\ wt \in Index /\ k \in Nat /\ k < Size
  BY CountType DEF TypeOK, Index
<1>2. e \in Event /\ \A i \in 1 .. n + 1 : host[i] \in Event
  BY DEF TypeOK
<1>3. CASE r.wh = -1
  BY <1>3 DEF PutKey, Merged
<1>4. CASE r.wh # -1
  <2>1. /\ r \in Rings
        /\ r.wt = wt
        /\ c = IF k + n < Size THEN k + n ELSE Size - 1
        /\ \A i \in 1 .. c : r.wbuf[Cell(wt, i)] = In(i)
        /\ \A x \in Keys \ r.lost :
             /\ \A i \in 1 .. n : host[i].key = x => k + i < Size
             /\ (\A i \in 1 .. n : host[i].key # x) => x \notin lost
    BY <1>4 DEF Merged
  <2>2. /\ p.wt = wt
        /\ c < Size - 1 =>
             /\ p \in Rings
             /\ Count(p.wh, wt) = c + 1
             /\ \A i \in 1 .. c : p.wbuf[Cell(wt, i)] = r.wbuf[Cell(wt, i)]
             /\ p.wbuf[Cell(wt, c + 1)] = e
             /\ p.lost = r.lost \ {e.key}
        /\ c >= Size - 1 =>
             \/ p.wh = -1
             \/ /\ p \in Rings
                /\ p.wh = r.wh
                /\ \A i \in 1 .. c : p.wbuf[Cell(wt, i)] = r.wbuf[Cell(wt, i)]
                /\ p.lost = r.lost \cup {e.key}
    BY <1>2, <2>1, PutKeyIs
  <2>3. e.key \in Keys /\ host[n + 1] = e
    BY <1>2 DEF Event
  <2> HIDE DEF p, c, k, In, e
  <2>4. CASE c < Size - 1
    <3>1. c = k + n /\ k + n + 1 < Size
      BY <1>1, <2>1, <2>4, SizeType
    <3>2. In(c + 1) = e
      BY <1>1, <2>3, <3>1 DEF In
    <3>3. \A i \in 1 .. c + 1 : p.wbuf[Cell(wt, i)] = In(i)
      <4> TAKE i \in 1 .. c + 1
      <4>1. CASE i \in 1 .. c
        BY <2>1, <2>2, <2>4, <4>1
      <4>2. CASE i = c + 1
        BY <2>2, <2>4, <3>2, <4>2
      <4> QED BY <1>1, <3>1, <4>1, <4>2
    <3>4. ASSUME NEW x \in Keys \ p.lost
          PROVE  /\ \A i \in 1 .. n + 1 : host[i].key = x => k + i < Size
                 /\ (\A i \in 1 .. n + 1 : host[i].key # x) => x \notin lost
      <4>1. \A i \in 1 .. n + 1 : k + i < Size
        BY <1>1, <3>1, SizeType
      <4>2. ASSUME \A i \in 1 .. n + 1 : host[i].key # x PROVE x \notin lost
        <5>1. x # e.key
          BY <2>3, <4>2
        <5>2. x \in Keys \ r.lost
          BY <2>2, <2>4, <5>1
        <5> QED BY <2>1, <4>2, <5>2
      <4> QED BY <4>1, <4>2
    <3>5. Count(p.wh, wt) = IF k + (n + 1) < Size THEN k + (n + 1) ELSE Size - 1
      BY <1>1, <2>2, <2>4, <3>1, SizeType
    <3>6. \A i \in 1 .. Count(p.wh, wt) : p.wbuf[Cell(wt, i)] = In(i)
      BY <2>2, <2>4, <3>3
    <3> QED BY <2>2, <2>4, <3>4, <3>5, <3>6 DEF Merged, In, p, e, k
  <2>5. CASE c >= Size - 1 /\ p.wh # -1
    <3>1. c = Size - 1 /\ k + n + 1 >= Size
      BY <1>1, <2>1, <2>5, SizeType
    <3>2. /\ p \in Rings /\ p.wh = r.wh
          /\ \A i \in 1 .. c : p.wbuf[Cell(wt, i)] = r.wbuf[Cell(wt, i)]
          /\ p.lost = r.lost \cup {e.key}
      BY <2>2, <2>5
    <3>3. Count(p.wh, wt) = Size - 1
      BY <3>1, <3>2 DEF c
    <3>4. ASSUME NEW x \in Keys \ p.lost
          PROVE  /\ \A i \in 1 .. n + 1 : host[i].key = x => k + i < Size
                 /\ (\A i \in 1 .. n + 1 : host[i].key # x) => x \notin lost
      <4>1. x \in Keys \ r.lost /\ x # e.key
        BY <3>2
      <4>2. \A i \in 1 .. n + 1 : i \in 1 .. n \/ i = n + 1
        OBVIOUS
      <4> QED BY <2>1, <2>3, <4>1, <4>2
    <3>5. \A i \in 1 .. c : p.wbuf[Cell(wt, i)] = In(i)
      BY <2>1, <3>2
    <3>6. Count(p.wh, wt) = IF k + (n + 1) < Size THEN k + (n + 1) ELSE Size - 1
      BY <1>1, <3>1, <3>3, SizeType
    <3>7. \A i \in 1 .. Count(p.wh, wt) : p.wbuf[Cell(wt, i)] = In(i)
      BY <3>1, <3>3, <3>5
    <3>8. p \in Rings /\ p.wt = wt
      BY <2>2, <3>2
    <3> QED BY <3>4, <3>6, <3>7, <3>8 DEF Merged, In, p, e, k
  <2>6. CASE c >= Size - 1 /\ p.wh = -1
    BY <2>6 DEF Merged, p, e
  <2>7. c \in Nat
    BY <1>1, <2>1, SizeType
  <2> QED BY <2>4, <2>5, <2>6, <2>7, SizeType
<1> QED BY <1>3, <1>4

LEMMA UpdatedIs == ASSUME TypeOK PROVE Merged(Updated, Len(host))
<1> DEFINE T == {n \in Nat : n <= Len(host) /\ ~Merged(Puts[n], n)}
<1>1. Len(host) \in Nat
  BY DEF TypeOK
<1>2. Puts[0] = FirstRing /\ \A n \in 1 .. Len(host) : Puts[n] = PutKey(Puts[n - 1], host[n])
  BY <1>1, PutsAre
<1>3. SUFFICES ASSUME T # {} PROVE FALSE
  BY <1>1 DEF Updated
<1>4. PICK m \in T : \A k \in T : m <= k
  <2>1. T \in SUBSET Nat
    OBVIOUS
  <2> HIDE DEF T
  <2> QED BY <1>3, <2>1, Least
<1>5. m \in Nat /\ m <= Len(host) /\ ~Merged(Puts[m], m)
  OBVIOUS
<1>6. CASE m = 0
  <2>1. /\ wh \in Index /\ wt \in Index /\ wbuf \in [Index -> Event] /\ lost \in SUBSET Keys
    BY DEF TypeOK, Index
  <2>2. FirstRing \in Rings
    BY <2>1 DEF FirstRing, Rings
  <2>3. /\ FirstRing.wh = wh /\ FirstRing.wt = wt
        /\ FirstRing.wbuf = wbuf /\ FirstRing.lost = lost
    BY DEF FirstRing
  <2>4. Count(wh, wt) \in Nat /\ Count(wh, wt) < Size
    BY <2>1, CountType
  <2> HIDE DEF T
  <2>5. Merged(FirstRing, 0)
    <3> DEFINE r == FirstRing
    <3> HIDE DEF r
    <3>1. /\ r \in Rings /\ r.wh = wh /\ r.wt = wt /\ r.wbuf = wbuf /\ r.lost = lost
      BY <2>2, <2>3 DEF r
    <3>2. Merged(r, 0)
      BY <2>4, <3>1 DEF Merged
    <3> QED BY <3>2 DEF r
  <2> QED BY <1>2, <1>5, <1>6, <2>5
<1>7. CASE m # 0
  <2>1. m - 1 \in Nat /\ m - 1 + 1 = m /\ m - 1 \notin T /\ m \in 1 .. Len(host)
    BY <1>1, <1>4, <1>5, <1>7
  <2>2. Merged(Puts[m - 1], m - 1)
    BY <1>1, <1>5, <2>1
  <2>3. Merged(PutKey(Puts[m - 1], host[m]), m)
    <3> DEFINE q == m - 1
    <3>1. q \in Nat /\ q + 1 = m /\ q + 1 <= Len(host) /\ Merged(Puts[q], q)
      BY <1>5, <2>1, <2>2
    <3> HIDE DEF q, T
    <3>2. Merged(PutKey(Puts[q], host[q + 1]), q + 1)
      BY <3>1, MergedStep
    <3> QED BY <3>1, <3>2 DEF q
  <2> QED BY <1>2, <1>5, <2>1, <2>3
<1> QED BY <1>6, <1>7

-----------------------------------------------------------------------------
(* The queue.                                                               *)

LEMMA TypesOf ==
  ASSUME TypeOK
  PROVE  /\ wh \in Index /\ wt \in Index /\ wbuf \in [Index -> Event] /\ host \in Seq(Event)
         /\ InRing \in Seq(Event) /\ Len(InRing) = Count(wh, wt)
         /\ \A i \in 1 .. Len(InRing) : InRing[i] = wbuf[Cell(wt, i)]
         /\ Len(InRing) \in Nat /\ Len(InRing) < Size /\ Len(host) \in Nat
<1>1. /\ wh \in Index /\ wt \in Index /\ wbuf \in [Index -> Event] /\ host \in Seq(Event)
  BY DEF TypeOK, Index
<1>2. Count(wh, wt) \in Nat /\ Count(wh, wt) < Size
  BY <1>1, CountType
<1>3. /\ Ring(wbuf, wh, wt) \in Seq(Event) /\ Len(Ring(wbuf, wh, wt)) = Count(wh, wt)
      /\ \A i \in 1 .. Count(wh, wt) : Ring(wbuf, wh, wt)[i] = wbuf[Cell(wt, i)]
  BY <1>1, RingType
<1> QED BY <1>1, <1>2, <1>3, InRingIs

\* The ring that an event is read from, as the sequence that it holds.
Full == LET r == Updated IN Ring(r.wbuf, r.wh, r.wt)

\* It holds the first Size - 1 events of the queue.
LEMMA FullIs ==
  ASSUME TypeOK, Updated.wh # -1
  PROVE  LET r == Updated
             k == Len(InRing)
             n == Len(host)
         IN  /\ r \in Rings /\ r.wt = wt
             /\ Full \in Seq(Event)
             /\ Len(Full) = IF k + n < Size THEN k + n ELSE Size - 1
             /\ Len(Full) = Count(r.wh, wt)
             /\ \A i \in 1 .. Len(Full) :
                  /\ i <= k => Full[i] = InRing[i]
                  /\ i > k => Full[i] = host[i - k]
             /\ \A x \in Keys \ r.lost :
                  /\ \A i \in 1 .. n : host[i].key = x => k + i < Size
                  /\ (\A i \in 1 .. n : host[i].key # x) => x \notin lost
<1> DEFINE r == Updated
           k == Len(InRing)
           n == Len(host)
           w == r.wbuf
           h == r.wh
<1>1. Merged(r, n)
  BY UpdatedIs
<1>2. /\ wh \in Index /\ wt \in Index /\ k = Count(wh, wt)
      /\ k \in Nat /\ k < Size /\ n \in Nat
      /\ \A i \in 1 .. k : InRing[i] = wbuf[Cell(wt, i)]
  BY TypesOf
<1>3. h # -1
  OBVIOUS
<1>4. Full = Ring(w, h, r.wt)
  BY DEF Full
<1> HIDE DEF r, n, k
<1>5. /\ r \in Rings /\ r.wt = wt
      /\ Count(h, wt) = IF k + n < Size THEN k + n ELSE Size - 1
      /\ \A i \in 1 .. Count(h, wt) :
           w[Cell(wt, i)] = IF i <= k THEN wbuf[Cell(wt, i)] ELSE host[i - k]
      /\ \A x \in Keys \ r.lost :
           /\ \A i \in 1 .. n : host[i].key = x => k + i < Size
           /\ (\A i \in 1 .. n : host[i].key # x) => x \notin lost
  BY <1>1, <1>2, <1>3 DEF Merged
<1>6. w \in [Index -> Event] /\ h \in Index
  BY <1>5 DEF Rings
<1> HIDE DEF w, h
<1>7. /\ Full \in Seq(Event) /\ Len(Full) = Count(h, wt)
      /\ \A i \in 1 .. Count(h, wt) : Full[i] = w[Cell(wt, i)]
  BY <1>2, <1>4, <1>5, <1>6, RingType
<1>8. ASSUME NEW i \in 1 .. Len(Full)
      PROVE  (i <= k => Full[i] = InRing[i]) /\ (i > k => Full[i] = host[i - k])
  <2>1. Full[i] = IF i <= k THEN wbuf[Cell(wt, i)] ELSE host[i - k]
    BY <1>5, <1>7
  <2>2. i <= k => i \in 1 .. k
    BY <1>2
  <2>3. Count(h, wt) \in Nat
    BY <1>2, <1>6, CountType
  <2> QED BY <1>2, <1>7, <2>1, <2>2, <2>3
<1> QED BY <1>5, <1>7, <1>8 DEF r, n, k, h, w

\* What is done with an event, and what is remembered of it.
Handled(e) == KeyHandler(e) \/ MenuKey(e) \/ DialogKey(e) \/ DebuggerKey(e)
SeenIn(e) ==
  /\ altSeen' = IF e.key = Alt THEN Seen(e, {"stop"}) ELSE altSeen
  /\ shiftSeen' = IF e.key = Shift
                  THEN Seen(e, {"menu", "dialog", "debugger", "stop"}) ELSE shiftSeen

\* A reading takes the first of them and leaves the others.
LEMMA ReadIs ==
  ASSUME TypeOK, Read
  PROVE  /\ Updated.wh # -1
         /\ host' = <<>> /\ lost' = Updated.lost
         /\ wbuf' \in [Index -> Event] /\ wh' \in Index /\ wt' \in Index
         /\ wt' # wt
         /\ Len(Full) > 0
         /\ InRing' = Tail(Full)
         /\ Handled(Full[1])
         /\ got' = <<Full[1]>>
         /\ SeenIn(Full[1])
         /\ astray' = IF Diverted(Full[1]) THEN astray \cup {Full[1].key}
                      ELSE astray \ {Full[1].key}
         /\ down' = down
<1> DEFINE r == Updated
           n == Count(r.wh, wt)
           t == Advanced(wt)
<1>1. /\ r.wh >= 0 /\ r.wh # r.wt
      /\ host' = <<>> /\ wbuf' = r.wbuf /\ wh' = r.wh /\ wt' = Advanced(r.wt)
      /\ lost' = r.lost
      /\ Handled(r.wbuf[r.wt])
      /\ got' = <<r.wbuf[r.wt]>>
      /\ SeenIn(r.wbuf[r.wt])
      /\ astray' = IF Diverted(r.wbuf[r.wt]) THEN astray \cup {r.wbuf[r.wt].key}
                   ELSE astray \ {r.wbuf[r.wt].key}
      /\ down' = down
  BY DEF Read, Handled, SeenIn
<1>2. r = Updated
  OBVIOUS
<1> HIDE DEF r
<1>3. r.wh # -1
  BY <1>1
<1>4. /\ r \in Rings /\ r.wt = wt
      /\ Full \in Seq(Event) /\ Len(Full) = n
  BY <1>2, <1>3, FullIs
<1>5. r.wh \in Index /\ r.wbuf \in [Index -> Event] /\ wt \in Index
  BY <1>4, TypesOf DEF Rings
<1>6. n \in Nat /\ n > 0 /\ n < Size
  BY <1>1, <1>4, <1>5, CountType
<1>7. Full = Ring(r.wbuf, r.wh, wt) /\ \A i \in 1 .. n : Full[i] = r.wbuf[Cell(wt, i)]
  <2>1. Full = Ring(r.wbuf, r.wh, wt)
    BY <1>2, <1>4 DEF Full
  <2>2. \A i \in 1 .. n : Ring(r.wbuf, r.wh, wt)[i] = r.wbuf[Cell(wt, i)]
    BY <1>5, RingType
  <2> QED BY <2>1, <2>2
<1>8. Full[1] = r.wbuf[r.wt]
  <2>1. Cell(wt, 1) = wt
    BY <1>5, SizeType DEF Cell, Index
  <2> QED BY <1>4, <1>6, <1>7, <2>1
<1>9. /\ t \in Index /\ Count(r.wh, t) = n - 1
      /\ \A i \in 1 .. n - 1 : Cell(t, i) = Cell(wt, i + 1)
      /\ t # wt
  <2>1. t # wt
    BY <1>5, SizeType DEF Advanced, Index
  <2> QED BY <1>5, <1>6, <2>1, AdvancedIs
<1>10. InRing' = Ring(r.wbuf, r.wh, t)
  <2>1. InRing' = Ring(wbuf', wh', wt')
    BY DEF InRing, Waiting, Place, Ring, Count, Cell
  <2> QED BY <1>1, <1>4, <2>1
<1> HIDE DEF n, t
<1>11. /\ Ring(r.wbuf, r.wh, t) \in Seq(Event)
       /\ Len(Ring(r.wbuf, r.wh, t)) = n - 1
       /\ \A i \in 1 .. n - 1 : Ring(r.wbuf, r.wh, t)[i] = Full[i + 1]
  <2>1. /\ Ring(r.wbuf, r.wh, t) \in Seq(Event)
        /\ Len(Ring(r.wbuf, r.wh, t)) = n - 1
        /\ \A i \in 1 .. n - 1 : Ring(r.wbuf, r.wh, t)[i] = r.wbuf[Cell(t, i)]
    <3>1. LET c == Count(r.wh, t) IN
            /\ Ring(r.wbuf, r.wh, t) \in Seq(Event)
            /\ Len(Ring(r.wbuf, r.wh, t)) = c
            /\ \A i \in 1 .. c : Ring(r.wbuf, r.wh, t)[i] = r.wbuf[Cell(t, i)]
      BY <1>5, <1>9, RingType
    <3> QED BY <1>9, <3>1
  <2>2. \A i \in 1 .. n - 1 : i + 1 \in 1 .. n
    BY <1>6
  <2> QED BY <1>7, <1>9, <2>1, <2>2
<1>12. Ring(r.wbuf, r.wh, t) = Tail(Full)
  BY <1>4, <1>6, <1>11
<1> QED BY <1>1, <1>2, <1>3, <1>4, <1>5, <1>6, <1>8, <1>9, <1>10, <1>12 DEF t

-----------------------------------------------------------------------------
(* Types.                                                                   *)

LEMMA HandledTypes ==
  ASSUME TypeOK, NEW e \in Event, Handled(e)
  PROVE  /\ lalt' \in BOOLEAN /\ lshift' \in BOOLEAN /\ ui_lock' \in BOOLEAN
         /\ pressed' \subseteq Keys /\ joy' \subseteq Cursor
         /\ ui' \in {"main", "menu", "dialog", "debugger", "stop", "quit", "wild"}
         /\ armed' \in BOOLEAN
<1>1. /\ lalt \in BOOLEAN /\ lshift \in BOOLEAN /\ ui_lock \in BOOLEAN
      /\ pressed \subseteq Keys /\ joy \subseteq Cursor
      /\ ui \in {"main", "menu", "dialog", "debugger", "stop", "quit", "wild"}
      /\ armed \in BOOLEAN
      /\ e.key \in Keys /\ e.press \in BOOLEAN
  BY DEF TypeOK, Event
<1>2. ShiftHeld(e) \in BOOLEAN
  BY <1>1 DEF ShiftHeld
<1>3. CASE HandleAlt(e)
  BY <1>1, <1>3 DEF HandleAlt, program
<1>4. CASE HandleBoth(e)
  <2>1. ui_lock' \in BOOLEAN
    BY <1>1, <1>4 DEF HandleBoth
  <2> QED BY <1>1, <1>2, <1>4, <2>1 DEF HandleBoth, program
<1>5. CASE HandleWithAlt(e)
  BY <1>1, <1>2, <1>5 DEF HandleWithAlt, Dialog, program
<1>6. CASE HandleKey(e)
  <2>1. pressed' \subseteq Keys /\ joy' \subseteq Cursor
    BY <1>1, <1>6 DEF HandleKey, StateSet, JoyStateSet
  <2>2. ui' \in {"main", "menu", "dialog", "debugger", "stop", "quit", "wild"}
    BY <1>1, <1>6 DEF HandleKey, Opened
  <2>3. armed' \in BOOLEAN
    BY <1>6 DEF HandleKey
  <2> QED BY <1>1, <1>2, <1>6, <2>1, <2>2, <2>3 DEF HandleKey
<1>7. CASE MenuKey(e)
  BY <1>1, <1>7 DEF MenuKey, held, program
<1>8. CASE DialogKey(e)
  BY <1>1, <1>8 DEF DialogKey, held, program
<1>9. CASE DebuggerKey(e)
  BY <1>1, <1>9 DEF DebuggerKey, held, program
<1> QED BY <1>3, <1>4, <1>5, <1>6, <1>7, <1>8, <1>9 DEF KeyHandler, Handled

LEMMA FirstOfFull ==
  ASSUME TypeOK, Read
  PROVE  Full \in Seq(Event) /\ Full[1] \in Event /\ lost' \in SUBSET Keys
<1>1. Updated.wh # -1 /\ Len(Full) > 0 /\ lost' = Updated.lost
  BY ReadIs
<1>2. Full \in Seq(Event) /\ Updated \in Rings
  BY <1>1, FullIs
<1> QED BY <1>1, <1>2 DEF Rings

LEMMA TypesInitially == Init => TypeOK
<1> SUFFICES ASSUME Init PROVE TypeOK
  OBVIOUS
<1>1. [key |-> "Esc", press |-> FALSE] \in Event
  BY DEF Event, Keys
<1>2. wbuf \in [0 .. (Size - 1) -> Event]
  BY <1>1 DEF Init
<1> QED BY <1>2, SizeType DEF Init, TypeOK

LEMMA TypesStep == TypeOK /\ [Next]_vars => TypeOK'
<1> SUFFICES ASSUME TypeOK, [Next]_vars PROVE TypeOK'
  OBVIOUS
<1>1. CASE User
  <2>1. PICK k \in Keys :
          /\ down' = IF k \in down THEN down \ {k} ELSE down \cup {k}
          /\ host' = Append(host, [key |-> k, press |-> k \notin down])
    BY <1>1 DEF User
  <2>2. host' \in Seq(Event)
    <3>1. [key |-> k, press |-> k \notin down] \in Event
      BY DEF Event
    <3> QED BY <2>1, <3>1 DEF TypeOK
  <2>3. down' \subseteq Keys
    BY <2>1 DEF TypeOK
  <2> QED BY <1>1, <2>2, <2>3 DEF User, ring, held, program, ghosts, TypeOK
<1>2. CASE Read
  <2>1. /\ host' = <<>> /\ wbuf' \in [Index -> Event] /\ wh' \in Index /\ wt' \in Index
        /\ Handled(Full[1])
        /\ SeenIn(Full[1])
        /\ astray' = IF Diverted(Full[1]) THEN astray \cup {Full[1].key}
                     ELSE astray \ {Full[1].key}
        /\ down' = down
    BY <1>2, ReadIs
  <2>2. Full[1] \in Event /\ lost' \in SUBSET Keys
    BY <1>2, FirstOfFull
  <2>3. Full[1].key \in Keys /\ Full[1].press \in BOOLEAN
    BY <2>2 DEF Event
  <2>4. /\ altSeen' \in {"up", "down", "stray"} /\ shiftSeen' \in {"up", "down", "stray"}
        /\ astray' \subseteq Keys
    BY <2>1, <2>3 DEF TypeOK, SeenIn, Seen
  <2>5. /\ lalt' \in BOOLEAN /\ lshift' \in BOOLEAN /\ ui_lock' \in BOOLEAN
        /\ pressed' \subseteq Keys /\ joy' \subseteq Cursor
        /\ ui' \in {"main", "menu", "dialog", "debugger", "stop", "quit", "wild"}
        /\ armed' \in BOOLEAN
    BY <2>1, <2>2, HandledTypes
  <2> QED BY <2>1, <2>2, <2>4, <2>5 DEF TypeOK, Index
<1>3. CASE Overrun
  BY <1>3 DEF Overrun, ring, held, program, ghosts, TypeOK
<1>4. CASE Quit
  BY <1>4 DEF Quit, ring, held, program, ghosts, TypeOK
<1>5. CASE Stop
  BY <1>5 DEF Stop, ring, held, program, ghosts, TypeOK
<1>6. CASE UNCHANGED vars
  BY <1>6 DEF vars, ring, held, program, ghosts, TypeOK
<1> QED BY <1>1, <1>2, <1>3, <1>4, <1>5, <1>6 DEF Next

(* The ring's indices stay within the ring, and every place of it and of the *)
(* host's queue holds an event (w_putkey(), w_getkey()).                     *)
THEOREM TypeCorrect == Spec => []TypeOK
BY TypesInitially, TypesStep, PTL DEF Spec

-----------------------------------------------------------------------------
(* Alt and the lock.                                                        *)

(* What a key has opened finds Alt forgotten and the interface unlocked.    *)
AltAtHome == ui \in {"menu", "dialog", "debugger"} => ~lalt
LockAtHome == ui_lock => ui \in {"main", "stop", "wild"}
ShiftIsReal == lshift => shiftSeen # "up"

HeldInv == AltIsReal /\ AltAtHome /\ ShiftIsReal /\ LockAtHome

(* An event that key_handler() gets keeps what is known of Alt and Shift.   *)
LEMMA HandlerKeepsHeld ==
  ASSUME HeldInv, NEW e \in Event, KeyHandler(e), SeenIn(e)
  PROVE  HeldInv'
<1>1. ui = "main" /\ (e.key = Alt => shiftSeen' = shiftSeen) /\ e.press \in BOOLEAN
  BY DEF KeyHandler, SeenIn, Alt, Shift, Event
<1>2. CASE HandleAlt(e)
  BY <1>1, <1>2 DEF HandleAlt, SeenIn, Seen, HeldInv, AltIsReal, AltAtHome, ShiftIsReal,
                    LockAtHome
<1>3. CASE ~HandleAlt(e)
  <2>1. e.key # Alt /\ (lalt' => lalt) /\ lshift' = ShiftHeld(e)
    <3>1. HandleBoth(e) \/ HandleWithAlt(e) \/ HandleKey(e)
      BY <1>3 DEF KeyHandler
    <3>2. CASE HandleBoth(e)
      BY <3>2 DEF HandleBoth
    <3>3. CASE HandleWithAlt(e)
      BY <3>3 DEF HandleWithAlt, Dialog
    <3>4. CASE HandleKey(e)
      BY <3>4 DEF HandleKey
    <3> QED BY <3>1, <3>2, <3>3, <3>4
  <2>2. AltIsReal'
    BY <2>1 DEF SeenIn, HeldInv, AltIsReal
  <2>3. ShiftIsReal'
    BY <1>1, <2>1 DEF ShiftHeld, SeenIn, Seen, HeldInv, ShiftIsReal
  <2>4. CASE HandleBoth(e)
    <3>1. ui' = "main"
      BY <1>1, <2>4 DEF HandleBoth
    <3> QED BY <2>2, <2>3, <3>1 DEF HeldInv, AltAtHome, LockAtHome
  <2>5. CASE HandleWithAlt(e)
    <3>1. ui' \in {"menu", "dialog", "debugger"} => ~lalt'
      BY <1>1, <2>5 DEF HandleWithAlt, Dialog
    <3>2. ~ui_lock'
      BY <2>5 DEF HandleWithAlt, AltHeld
    <3> QED BY <2>2, <2>3, <3>1, <3>2 DEF HeldInv, AltAtHome, LockAtHome
  <2>6. CASE HandleKey(e)
    <3>1. ui' # "main" => e.press /\ ~ui_lock
      BY <1>1, <2>6 DEF HandleKey
    <3>2. lalt' = lalt /\ ui_lock' = ui_lock /\ ~AltHeld(e)
      BY <2>6 DEF HandleKey
    <3> QED BY <2>2, <2>3, <3>1, <3>2 DEF AltHeld, HeldInv, AltAtHome, LockAtHome
  <2> QED BY <1>3, <2>4, <2>5, <2>6 DEF KeyHandler
<1> QED BY <1>2, <1>3

(* So does one that a menu, a dialog or the debugger gets.                  *)
LEMMA OthersKeepHeld ==
  ASSUME HeldInv, NEW e \in Event, MenuKey(e) \/ DialogKey(e) \/ DebuggerKey(e), SeenIn(e)
  PROVE  HeldInv'
<1>1. /\ ui \in {"menu", "dialog", "debugger", "stop"}
      /\ lalt' = lalt /\ lshift' = lshift
  BY DEF MenuKey, DialogKey, DebuggerKey, held
<1>2. AltIsReal'
  BY <1>1 DEF SeenIn, Seen, HeldInv, AltIsReal, AltAtHome
<1>3. ShiftIsReal'
  BY <1>1 DEF SeenIn, Seen, HeldInv, ShiftIsReal
<1>4. AltAtHome'
  BY <1>1 DEF MenuKey, DialogKey, DebuggerKey, HeldInv, AltAtHome
<1>5. LockAtHome'
  BY <1>1 DEF MenuKey, DialogKey, DebuggerKey, HeldInv, LockAtHome
<1> QED BY <1>2, <1>3, <1>4, <1>5 DEF HeldInv

LEMMA HeldInitially == Init => HeldInv
BY DEF Init, HeldInv, AltIsReal, AltAtHome, ShiftIsReal, LockAtHome

LEMMA HeldStep == TypeOK /\ HeldInv /\ [Next]_vars => HeldInv'
<1> SUFFICES ASSUME TypeOK, HeldInv, [Next]_vars PROVE HeldInv'
  OBVIOUS
<1> USE DEF HeldInv, AltIsReal, AltAtHome, ShiftIsReal, LockAtHome
<1>1. CASE User
  BY <1>1 DEF User, held, ghosts
<1>2. CASE Read
  <2>1. Handled(Full[1]) /\ SeenIn(Full[1]) /\ Full[1] \in Event
    BY <1>2, ReadIs, FirstOfFull
  <2> DEFINE e == Full[1]
  <2> HIDE DEF e
  <2>2. Handled(e) /\ SeenIn(e) /\ e \in Event
    BY <2>1 DEF e
  <2> QED BY <2>2, HandlerKeepsHeld, OthersKeepHeld DEF Handled
<1>3. CASE Stop
  BY <1>3 DEF Stop, held, ghosts
<1>4. CASE Overrun
  BY <1>4 DEF Overrun, held, ghosts
<1>5. CASE Quit
  BY <1>5 DEF Quit, held, ghosts
<1>6. CASE UNCHANGED vars
  BY <1>6 DEF vars, held, ghosts
<1> QED BY <1>1, <1>2, <1>3, <1>4, <1>5, <1>6 DEF Next

(* The handler takes Alt for held only after a press of it, or after a      *)
(* release that a debugger which a stop address or a step had opened has    *)
(* read (key_handler(), key_lalt(), zx_proc_instr()).                       *)
THEOREM AltCorrect == Spec => []AltIsReal
<1>1. HeldInv => AltIsReal
  BY DEF HeldInv
<1> QED BY TypesInitially, TypesStep, HeldInitially, HeldStep, <1>1, PTL DEF Spec

(* An event that key_handler() gets while the interface is locked.          *)
LEMMA LockedHandler ==
  ASSUME HeldInv, ui_lock, NEW e \in Event, KeyHandler(e), SeenIn(e), got' = <<e>>, wt' # wt
  PROVE  LockKept
<1>1. ui = "main" /\ got'[1] = e /\ e.press \in BOOLEAN
  BY DEF KeyHandler, Event
<1>2. CASE HandleAlt(e)
  BY <1>1, <1>2 DEF HandleAlt, program, LockKept
<1>3. CASE HandleBoth(e)
  <2>1. /\ ui' = "main" /\ armed' = armed /\ pressed' = pressed
        /\ lalt /\ e.press /\ e.key # Alt /\ ShiftHeld(e)
        /\ ~ui_lock' => e.key = "U"
    BY <1>1, <1>3 DEF HandleBoth, BothHeld, program
  <2>2. altSeen # "up"
    BY <2>1 DEF HeldInv, AltIsReal
  <2>3. shiftSeen' # "up"
    BY <2>1 DEF ShiftHeld, SeenIn, Seen, HeldInv, ShiftIsReal
  <2> QED BY <1>1, <2>1, <2>2, <2>3 DEF LockKept, WithAltAndShift
<1>4. CASE HandleWithAlt(e)
  BY <1>4 DEF HandleWithAlt, AltHeld
<1>5. CASE HandleKey(e)
  <2>1. /\ ui' = "main" /\ ui_lock' = ui_lock /\ e.key # Alt
        /\ pressed' = StateSet(pressed, e)
        /\ armed' => armed
    BY <1>1, <1>5 DEF HandleKey
  <2> QED BY <1>1, <2>1 DEF LockKept
<1> QED BY <1>2, <1>3, <1>4, <1>5 DEF KeyHandler

LEMMA LockStep == TypeOK /\ HeldInv /\ [Next]_vars => [ui_lock => LockKept]_vars
<1> SUFFICES ASSUME TypeOK, HeldInv, Next, ui_lock PROVE LockKept
  OBVIOUS
<1>1. ui \in {"main", "stop", "wild"}
  BY DEF HeldInv, LockAtHome
<1>2. CASE User
  BY <1>1, <1>2 DEF User, ring, program, LockKept
<1>3. CASE Read
  <2> DEFINE e == Full[1]
  <2>1. Handled(e) /\ SeenIn(e) /\ got' = <<e>> /\ wt' # wt /\ e \in Event
    BY <1>3, ReadIs, FirstOfFull
  <2> HIDE DEF e
  <2>2. CASE KeyHandler(e)
    BY <2>1, <2>2, LockedHandler
  <2>3. CASE DebuggerKey(e)
    BY <1>1, <2>3 DEF DebuggerKey, program, LockKept
  <2> QED BY <1>1, <2>1, <2>2, <2>3 DEF Handled, MenuKey, DialogKey
<1>4. CASE Stop
  BY <1>4 DEF Stop, ring, program, LockKept
<1>5. CASE Overrun
  BY <1>5 DEF Overrun, ring, program, LockKept
<1>6. CASE Quit
  BY <1>6 DEF Quit
<1> QED BY <1>2, <1>3, <1>4, <1>5, <1>6 DEF Next

(* While the user interface is locked the keys go to the program, nothing   *)
(* but the debugger opens, and that only for a stop address or a step, and  *)
(* what unlocks is U, pressed with Alt and Shift taken for held             *)
(* (key_handler(), key_lalt_lshift(), key_unmod(), zx_proc_instr()).        *)
THEOREM LockCorrect == Spec => LockHolds
BY TypesInitially, TypesStep, HeldInitially, HeldStep, LockStep, PTL DEF Spec, LockHolds

-----------------------------------------------------------------------------
(* The queue that is promised.                                              *)

LEMMA QueueStep == TypeOK /\ [Next]_vars => [Queue!Next]_<<InRing \o host, got>>
<1> SUFFICES ASSUME TypeOK, [Next]_vars
             PROVE  [Queue!Next]_<<InRing \o host, got>>
  OBVIOUS
<1>1. CASE User
  <2>1. PICK k \in Keys : host' = Append(host, [key |-> k, press |-> k \notin down])
    BY <1>1 DEF User
  <2> DEFINE e == [key |-> k, press |-> k \notin down]
  <2>2. e \in Event
    BY DEF Event
  <2>3. InRing' = InRing /\ got' = got
    BY <1>1 DEF User, ring, ghosts, InRing, Waiting, Place
  <2> HIDE DEF e
  <2>4. InRing \o Append(host, e) = Append(InRing \o host, e)
    BY <2>2, TypesOf
  <2>5. (InRing \o host)' = Append(InRing \o host, e)
    BY <2>1, <2>3, <2>4 DEF e
  <2>6. Queue!Happens
    BY <2>2, <2>3, <2>5 DEF Queue!Happens
  <2> QED BY <2>6 DEF Queue!Next
<1>2. CASE Read
  <2> DEFINE q == InRing \o host
  <2>1. /\ Updated.wh # -1 /\ Len(Full) > 0
        /\ host' = <<>> /\ InRing' = Tail(Full) /\ got' = <<Full[1]>>
    BY <1>2, ReadIs
  <2>2. /\ InRing \in Seq(Event) /\ host \in Seq(Event)
        /\ Len(InRing) < Size /\ Len(InRing) \in Nat /\ Len(host) \in Nat
    BY TypesOf
  <2>3. /\ Full \in Seq(Event)
        /\ Len(Full) = IF Len(InRing) + Len(host) < Size THEN Len(InRing) + Len(host)
                       ELSE Size - 1
        /\ \A i \in 1 .. Len(Full) :
             /\ i <= Len(InRing) => Full[i] = InRing[i]
             /\ i > Len(InRing) => Full[i] = host[i - Len(InRing)]
    BY <2>1, FullIs
  <2>4. q \in Seq(Event) /\ Len(q) = Len(InRing) + Len(host)
    BY <2>2
  <2>5. \A i \in 1 .. Len(q) : q[i] = IF i <= Len(InRing) THEN InRing[i]
                                      ELSE host[i - Len(InRing)]
    BY <2>2
  <2> HIDE DEF q
  <2>6. \A i \in 1 .. Len(Full) : i \in 1 .. Len(q) /\ Full[i] = q[i]
    <3> TAKE i \in 1 .. Len(Full)
    <3>1. i \in 1 .. Len(q)
      BY <2>2, <2>3, <2>4, SizeType
    <3> QED BY <2>2, <2>3, <2>5, <3>1
  <2>7. Full = IF Len(q) <= Size - 1 THEN q ELSE SubSeq(q, 1, Size - 1)
    <3>1. CASE Len(q) <= Size - 1
      <4>1. Len(Full) = Len(q)
        BY <2>2, <2>3, <2>4, <3>1, SizeType
      <4> QED BY <2>3, <2>4, <2>6, <3>1, <4>1
    <3>2. CASE ~(Len(q) <= Size - 1)
      <4>1. Len(Full) = Size - 1
        BY <2>2, <2>3, <2>4, <3>2, SizeType
      <4>2. Size - 1 \in Nat /\ Size - 1 <= Len(q)
        BY <2>2, <2>4, <3>2, SizeType
      <4>3. Full = SubSeq(q, 1, Size - 1)
        BY <2>3, <2>4, <2>6, <4>1, <4>2
      <4> QED BY <3>2, <4>3
    <3> QED BY <3>1, <3>2
  <2>8. Full = Queue!Kept
    BY <2>7 DEF Queue!Kept, q
  <2>9. (InRing \o host)' = Tail(Full)
    <3>1. Tail(Full) \in Seq(Event)
      BY <2>1, <2>3
    <3>2. Tail(Full) \o <<>> = Tail(Full)
      BY <3>1
    <3> QED BY <2>1, <3>2
  <2>10. Full # <<>>
    BY <2>1
  <2>11. Queue!Read
    BY <2>1, <2>8, <2>9, <2>10 DEF Queue!Read
  <2> QED BY <2>11 DEF Queue!Next
<1>3. CASE Overrun
  BY <1>3 DEF Overrun, ring, ghosts, InRing, Waiting, Place
<1>4. CASE Quit
  BY <1>4 DEF Quit, ring, ghosts, InRing, Waiting, Place
<1>5. CASE Stop
  BY <1>5 DEF Stop, ring, ghosts, InRing, Waiting, Place
<1>6. CASE UNCHANGED vars
  BY <1>6 DEF vars, ring, ghosts, InRing, Waiting, Place
<1> QED BY <1>1, <1>2, <1>3, <1>4, <1>5, <1>6 DEF Next

LEMMA QueueInitially == Init => Queue!Init
<1> SUFFICES ASSUME Init PROVE Queue!Init
  OBVIOUS
<1>1. InRing = <<>>
  BY SizeType DEF Init, InRing, Waiting
<1> QED BY <1>1 DEF Init, Queue!Init

(* The ring and the host's events are one queue, for a ring of every size:  *)
(* each event is read once and in its order, but for those that happen      *)
(* while Size - 1 wait, which are lost (w_putkey(), w_getkey()).            *)
THEOREM OrderCorrect == Spec => InOrder
BY QueueInitially, QueueStep, TypeCorrect, PTL DEF Spec, InOrder, Queue!Spec

-----------------------------------------------------------------------------
(***************************************************************************)
(* What is known of a key: its last event among those that wait at the host *)
(* says whether it is held down; if none waits there, its last event in the *)
(* ring does, unless it is lost; and if none waits at all, the program has  *)
(* seen it, unless it is astray.                                            *)
(***************************************************************************)
Absent(sq, k) == \A i \in 1 .. Len(sq) : sq[i].key # k
IsLast(sq, k, i) == sq[i].key = k /\ \A j \in (i + 1) .. Len(sq) : sq[j].key # k
Tells(sq, k) == \A i \in 1 .. Len(sq) : IsLast(sq, k, i) => (sq[i].press <=> k \in down)
Shown(k) == k \in pressed <=> k \in down /\ k # Alt

HostTells == \A k \in Keys : Tells(host, k)
RingTells == \A k \in Keys \ lost : Absent(host, k) => Tells(InRing, k)
ProgramTells ==
  \A k \in Keys \ (lost \cup astray) : Absent(host, k) /\ Absent(InRing, k) => Shown(k)
JoyTells == joy = pressed \cap Cursor /\ Alt \notin pressed

FollowInv == HostTells /\ RingTells /\ ProgramTells /\ JoyTells

\* A key that is not lost has all its events in the ring that is read from.
LEMMA FullTells ==
  ASSUME TypeOK, FollowInv, Updated.wh # -1, NEW k \in Keys \ Updated.lost
  PROVE  /\ Tells(Full, k)
         /\ Absent(Full, k) => Absent(host, k) /\ Absent(InRing, k) /\ k \notin lost
<1> DEFINE l == Len(InRing)
           n == Len(host)
           c == Len(Full)
<1>1. /\ c = IF l + n < Size THEN l + n ELSE Size - 1
      /\ \A i \in 1 .. c : (i <= l => Full[i] = InRing[i]) /\ (i > l => Full[i] = host[i - l])
      /\ \A i \in 1 .. n : host[i].key = k => l + i < Size
      /\ (\A i \in 1 .. n : host[i].key # k) => k \notin lost
  BY FullIs
<1>2. l \in Nat /\ l < Size /\ n \in Nat
  BY TypesOf
<1>3. Absent(host, k) <=> \A i \in 1 .. n : host[i].key # k
  BY DEF Absent
<1>4. Absent(InRing, k) <=> \A i \in 1 .. l : InRing[i].key # k
  BY DEF Absent
<1>5. Absent(Full, k) <=> \A i \in 1 .. c : Full[i].key # k
  BY DEF Absent
<1> HIDE DEF l, n, c
<1>6. c \in Nat /\ l <= c
  BY <1>1, <1>2, SizeType
<1>7. \A i \in 1 .. n : host[i].key = k => l + i \in 1 .. c /\ Full[l + i] = host[i]
  <2> SUFFICES ASSUME NEW i \in 1 .. n, host[i].key = k
               PROVE  l + i \in 1 .. c /\ Full[l + i] = host[i]
    OBVIOUS
  <2>1. l + i < Size
    BY <1>1
  <2> DEFINE j == l + i
  <2>2. j \in 1 .. c /\ j > l /\ j - l = i
    BY <1>1, <1>2, <2>1, SizeType
  <2> HIDE DEF j
  <2>3. Full[j] = host[j - l]
    BY <1>1, <2>2
  <2> QED BY <2>2, <2>3 DEF j
<1>8. Absent(Full, k) => Absent(host, k) /\ Absent(InRing, k) /\ k \notin lost
  <2> SUFFICES ASSUME \A i \in 1 .. c : Full[i].key # k
               PROVE  Absent(host, k) /\ Absent(InRing, k) /\ k \notin lost
    BY <1>5
  <2>1. \A i \in 1 .. n : host[i].key # k
    BY <1>7
  <2>2. \A i \in 1 .. l : InRing[i].key # k
    BY <1>1, <1>2, <1>6
  <2> QED BY <1>1, <1>3, <1>4, <2>1, <2>2
<1>9. Tells(Full, k)
  <2> SUFFICES ASSUME NEW i \in 1 .. c, Full[i].key = k,
                      \A j \in (i + 1) .. c : Full[j].key # k
               PROVE  Full[i].press <=> k \in down
    BY DEF Tells, IsLast, c
  <2>1. CASE i > l
    <3> DEFINE h == i - l
    <3>1. h \in 1 .. n /\ Full[i] = host[h] /\ h + l = i
      BY <1>1, <1>2, <2>1, SizeType
    <3> HIDE DEF h
    <3>2. ASSUME NEW j \in (h + 1) .. n PROVE host[j].key # k
      <4> SUFFICES ASSUME host[j].key = k PROVE FALSE
        OBVIOUS
      <4>1. j \in 1 .. n
        BY <1>2, <3>1
      <4>2. l + j \in 1 .. c /\ Full[l + j].key = k
        BY <1>7, <4>1
      <4>3. l + j \in (i + 1) .. c
        BY <1>2, <1>6, <3>1, <4>1, <4>2
      <4> QED BY <4>2, <4>3
    <3>3. Tells(host, k)
      BY DEF FollowInv, HostTells
    <3>4. host[h].key = k
      BY <3>1
    <3> QED BY <3>1, <3>2, <3>3, <3>4 DEF Tells, IsLast, n
  <2>2. CASE i <= l
    <3>1. i \in 1 .. l /\ Full[i] = InRing[i]
      BY <1>1, <1>2, <2>2
    <3>2. \A j \in 1 .. n : host[j].key # k
      <4> SUFFICES ASSUME NEW j \in 1 .. n, host[j].key = k PROVE FALSE
        OBVIOUS
      <4>1. l + j \in 1 .. c /\ Full[l + j].key = k
        BY <1>7
      <4>2. l + j \in (i + 1) .. c
        BY <1>2, <1>6, <3>1, <4>1
      <4> QED BY <4>1, <4>2
    <3>3. Tells(InRing, k)
      BY <1>1, <1>3, <3>2 DEF FollowInv, RingTells
    <3>4. \A j \in (i + 1) .. l : InRing[j].key # k
      <4> TAKE j \in (i + 1) .. l
      <4>1. j \in (i + 1) .. c /\ j \in 1 .. c /\ j <= l
        BY <1>2, <1>6, <3>1
      <4> QED BY <1>1, <4>1
    <3>5. InRing[i].key = k
      BY <3>1
    <3> QED BY <3>1, <3>3, <3>4, <3>5 DEF Tells, IsLast, l
  <2> QED BY <1>2, <2>1, <2>2
<1> QED BY <1>8, <1>9

\* An event that is not diverted comes to the program; any other leaves it alone.
LEMMA HandledShows ==
  ASSUME TypeOK, JoyTells, NEW e \in Event, Handled(e)
  PROVE  /\ \A k \in Keys : k # e.key => (k \in pressed' <=> k \in pressed)
         /\ ~Diverted(e) /\ e.key # Alt => (e.key \in pressed' <=> e.press)
         /\ JoyTells'
<1>1. e.press \in BOOLEAN /\ ui \in {"main", "menu", "dialog", "debugger", "stop", "quit", "wild"}
  BY DEF Event, TypeOK
<1>2. CASE HandleKey(e)
  <2>1. pressed' = IF e.press THEN pressed \cup {e.key} ELSE pressed \ {e.key}
    BY <1>2 DEF HandleKey, StateSet
  <2>2. joy' = IF e.key \in Cursor
               THEN IF e.press THEN joy \cup {e.key} ELSE joy \ {e.key} ELSE joy
    BY <1>2 DEF HandleKey, JoyStateSet, StateSet
  <2>3. e.key # Alt
    BY <1>2 DEF HandleKey
  <2>4. joy' = pressed' \cap Cursor
    BY <2>1, <2>2 DEF JoyTells
  <2> QED BY <2>1, <2>3, <2>4 DEF JoyTells
<1>3. CASE ~HandleKey(e)
  <2>1. \/ HandleAlt(e) \/ HandleBoth(e) \/ HandleWithAlt(e)
        \/ MenuKey(e) \/ DialogKey(e) \/ DebuggerKey(e)
    BY <1>3 DEF KeyHandler, Handled
  <2>2. pressed' = pressed /\ joy' = joy
    BY <2>1 DEF HandleAlt, HandleBoth, HandleWithAlt, MenuKey, DialogKey, DebuggerKey, program
  <2>3. ~Diverted(e) => e.key = Alt
    <3>1. CASE HandleAlt(e)
      BY <3>1 DEF HandleAlt
    <3>2. CASE HandleBoth(e) \/ HandleWithAlt(e)
      BY <3>2 DEF HandleBoth, HandleWithAlt, BothHeld, AltHeld, Diverted
    <3>3. CASE MenuKey(e) \/ DialogKey(e) \/ DebuggerKey(e)
      BY <3>3 DEF MenuKey, DialogKey, DebuggerKey, Diverted
    <3> QED BY <2>1, <3>1, <3>2, <3>3
  <2> QED BY <2>2, <2>3 DEF JoyTells
<1> QED BY <1>2, <1>3

LEMMA FollowRead == ASSUME TypeOK, FollowInv, Read PROVE FollowInv'
<1> DEFINE e == Full[1]
           r == InRing'
<1>1. /\ Updated.wh # -1
      /\ host' = <<>> /\ lost' = Updated.lost
      /\ Len(Full) > 0
      /\ r = Tail(Full)
      /\ Handled(e)
      /\ astray' = IF Diverted(e) THEN astray \cup {e.key} ELSE astray \ {e.key}
      /\ down' = down
  BY ReadIs
<1>2. Full \in Seq(Event) /\ e \in Event
  BY FirstOfFull
<1>3. /\ \A k \in Keys : k # e.key => (k \in pressed' <=> k \in pressed)
      /\ ~Diverted(e) /\ e.key # Alt => (e.key \in pressed' <=> e.press)
      /\ JoyTells'
  BY <1>1, <1>2, HandledShows DEF FollowInv
<1> HIDE DEF e, r
<1>4. Len(r) = Len(Full) - 1 /\ \A i \in 1 .. Len(r) : r[i] = Full[i + 1]
  BY <1>1, <1>2
<1>5. Len(Full) \in Nat
  BY <1>2
<1>6. HostTells'
  BY <1>1 DEF HostTells, Tells
<1>7. ASSUME NEW k \in Keys \ lost'
      PROVE  \A i \in 1 .. Len(r) :
               r[i].key = k /\ (\A j \in (i + 1) .. Len(r) : r[j].key # k)
                 => (r[i].press <=> k \in down)
  <2> SUFFICES ASSUME NEW i \in 1 .. Len(r), r[i].key = k,
                      \A j \in (i + 1) .. Len(r) : r[j].key # k
               PROVE  r[i].press <=> k \in down
    OBVIOUS
  <2>1. Tells(Full, k)
    BY <1>1, <1>7, FullTells
  <2>2. i + 1 \in 1 .. Len(Full) /\ Full[i + 1] = r[i]
    BY <1>4, <1>5
  <2>3. \A j \in (i + 1 + 1) .. Len(Full) : Full[j].key # k
    <3> TAKE j \in (i + 1 + 1) .. Len(Full)
    <3> DEFINE h == j - 1
    <3>1. h \in (i + 1) .. Len(r) /\ h \in 1 .. Len(r) /\ h + 1 = j
      BY <1>4, <1>5
    <3> HIDE DEF h
    <3>2. r[h] = Full[h + 1]
      BY <1>4, <3>1
    <3> QED BY <3>1, <3>2
  <2> QED BY <2>1, <2>2, <2>3 DEF Tells, IsLast
<1>8. RingTells'
  BY <1>1, <1>7 DEF RingTells, Tells, IsLast, r
<1>9. ASSUME NEW k \in Keys \ (lost' \cup astray'), \A i \in 1 .. Len(r) : r[i].key # k
      PROVE  k \in pressed' <=> k \in down /\ k # Alt
  <2>1. CASE k = e.key
    <3>1. ~Diverted(e)
      BY <1>1, <1>9, <2>1
    <3>2. IsLast(Full, k, 1)
      <4>1. \A j \in 2 .. Len(Full) : Full[j].key # k
        <5> TAKE j \in 2 .. Len(Full)
        <5> DEFINE h == j - 1
        <5>1. h \in 1 .. Len(r) /\ h + 1 = j
          BY <1>4, <1>5
        <5> HIDE DEF h
        <5>2. r[h] = Full[h + 1]
          BY <1>4, <5>1
        <5> QED BY <1>9, <5>1, <5>2
      <4> QED BY <2>1, <4>1 DEF IsLast, e
    <3>3. Tells(Full, k)
      BY <1>1, <1>9, FullTells
    <3>4. e.press <=> k \in down
      BY <1>1, <1>5, <3>2, <3>3 DEF Tells, e
    <3>5. CASE k = Alt
      BY <1>3, <3>5 DEF JoyTells
    <3>6. CASE k # Alt
      BY <1>3, <2>1, <3>1, <3>4, <3>6
    <3> QED BY <3>5, <3>6
  <2>2. CASE k # e.key
    <3>1. Absent(Full, k)
      <4> SUFFICES ASSUME NEW j \in 1 .. Len(Full) PROVE Full[j].key # k
        BY DEF Absent
      <4>1. CASE j = 1
        BY <2>2, <4>1 DEF e
      <4>2. CASE j # 1
        <5> DEFINE h == j - 1
        <5>1. h \in 1 .. Len(r) /\ h + 1 = j
          BY <1>4, <1>5, <4>2
        <5> HIDE DEF h
        <5>2. r[h] = Full[h + 1]
          BY <1>4, <5>1
        <5> QED BY <1>9, <5>1, <5>2
      <4> QED BY <4>1, <4>2
    <3>2. Absent(host, k) /\ Absent(InRing, k) /\ k \notin lost
      BY <1>1, <1>9, <3>1, FullTells
    <3>3. k \notin astray
      BY <1>1, <1>9, <2>2
    <3>4. Shown(k)
      BY <3>2, <3>3 DEF FollowInv, ProgramTells
    <3> QED BY <1>3, <2>2, <3>4 DEF Shown
  <2> QED BY <2>1, <2>2
<1>10. ProgramTells'
  BY <1>1, <1>9 DEF ProgramTells, Absent, Shown, r
<1> QED BY <1>3, <1>6, <1>8, <1>10 DEF FollowInv

LEMMA FollowUser == ASSUME TypeOK, FollowInv, User PROVE FollowInv'
<1>1. PICK k \in Keys : /\ down' = IF k \in down THEN down \ {k} ELSE down \cup {k}
                        /\ host' = Append(host, [key |-> k, press |-> k \notin down])
  BY DEF User
<1> DEFINE e == [key |-> k, press |-> k \notin down]
           n == Len(host)
<1>2. e \in Event /\ e.key = k /\ (e.press <=> k \notin down)
  BY DEF Event
<1>3. n \in Nat /\ host \in Seq(Event)
  BY TypesOf
<1> HIDE DEF e
<1>4. /\ Len(host') = n + 1 /\ host'[n + 1] = e
      /\ \A i \in 1 .. n : host'[i] = host[i]
  BY <1>1, <1>2, <1>3 DEF e
<1> HIDE DEF n
<1>5. InRing' = InRing
  BY DEF User, ring, InRing, Waiting, Place
<1>6. lost' = lost /\ astray' = astray /\ pressed' = pressed /\ joy' = joy
  BY DEF User, ghosts, program
<1>7. \A x \in Keys \ {k} : x \in down' <=> x \in down
  BY <1>1
<1>8. HostTells'
  <2> SUFFICES ASSUME NEW x \in Keys, NEW i \in 1 .. n + 1, host'[i].key = x,
                      \A j \in (i + 1) .. (n + 1) : host'[j].key # x
               PROVE  host'[i].press <=> x \in down'
    BY <1>4 DEF HostTells, Tells, IsLast
  <2>1. CASE x = k
    <3>1. i = n + 1
      <4>1. host'[n + 1].key = x
        BY <1>2, <1>4, <2>1
      <4> QED BY <1>3, <4>1 DEF n
    <3>2. k \in down' <=> k \notin down
      BY <1>1
    <3> QED BY <1>2, <1>4, <2>1, <3>1, <3>2
  <2>2. CASE x # k
    <3>1. i \in 1 .. n
      BY <1>2, <1>3, <1>4, <2>2 DEF n
    <3>2. \A j \in (i + 1) .. n : j \in (i + 1) .. (n + 1) /\ j \in 1 .. n
      BY <1>3, <3>1 DEF n
    <3>3. \A j \in (i + 1) .. n : host[j].key # x
      BY <1>4, <3>2
    <3>4. host[i].key = x /\ host'[i] = host[i]
      BY <1>4, <3>1
    <3>5. host[i].press <=> x \in down
      BY <3>1, <3>3, <3>4 DEF FollowInv, HostTells, Tells, IsLast, n
    <3> QED BY <1>7, <2>2, <3>4, <3>5
  <2> QED BY <2>1, <2>2
<1>9. ASSUME NEW x \in Keys, Absent(host, x)'
      PROVE  Absent(host, x) /\ x # k
  <2>1. \A i \in 1 .. n + 1 : host'[i].key # x
    BY <1>4, <1>9 DEF Absent
  <2>2. \A i \in 1 .. n : i \in 1 .. n + 1
    BY <1>3 DEF n
  <2>3. n + 1 \in 1 .. n + 1
    BY <1>3 DEF n
  <2>4. \A i \in 1 .. n : host[i].key # x
    BY <1>4, <2>1, <2>2
  <2>5. x # k
    BY <1>2, <1>4, <2>1, <2>3
  <2> QED BY <2>4, <2>5 DEF Absent, n
<1>10. RingTells'
  <2> SUFFICES ASSUME NEW x \in Keys \ lost, Absent(host, x)' PROVE Tells(InRing, x)'
    BY <1>6 DEF RingTells
  <2>1. Absent(host, x) /\ x # k
    BY <1>9
  <2>2. Tells(InRing, x)
    BY <2>1 DEF FollowInv, RingTells
  <2> QED BY <1>5, <1>7, <2>1, <2>2 DEF Tells, IsLast
<1>11. ProgramTells'
  <2> SUFFICES ASSUME NEW x \in Keys \ (lost \cup astray), Absent(host, x)', Absent(InRing, x)'
               PROVE  Shown(x)'
    BY <1>6 DEF ProgramTells
  <2>1. Absent(host, x) /\ x # k
    BY <1>9
  <2>2. Absent(InRing, x)
    BY <1>5 DEF Absent
  <2>3. Shown(x)
    BY <2>1, <2>2 DEF FollowInv, ProgramTells
  <2> QED BY <1>6, <1>7, <2>1, <2>3 DEF Shown
<1>12. JoyTells'
  BY <1>6 DEF FollowInv, JoyTells
<1> QED BY <1>8, <1>10, <1>11, <1>12 DEF FollowInv

LEMMA FollowInitially == Init => FollowInv
<1> SUFFICES ASSUME Init PROVE FollowInv
  OBVIOUS
<1>1. host = <<>> /\ pressed = {} /\ joy = {} /\ down = {}
  BY DEF Init
<1>2. InRing = <<>>
  BY SizeType DEF Init, InRing, Waiting
<1>3. HostTells /\ RingTells
  BY <1>1, <1>2 DEF HostTells, RingTells, Tells
<1> QED BY <1>1, <1>3 DEF ProgramTells, Shown, JoyTells, FollowInv

LEMMA FollowStep == TypeOK /\ FollowInv /\ [Next]_vars => FollowInv'
<1> SUFFICES ASSUME TypeOK, FollowInv, [Next]_vars PROVE FollowInv'
  OBVIOUS
<1>1. CASE User
  BY <1>1, FollowUser
<1>2. CASE Read
  BY <1>2, FollowRead
<1>3. CASE Stop \/ Overrun \/ Quit \/ UNCHANGED vars
  <2>1. UNCHANGED <<host, ring, program, down, ghosts>>
    BY <1>3 DEF Stop, Overrun, Quit, vars
  <2>2. InRing' = InRing
    BY <2>1 DEF ring, InRing, Waiting, Place
  <2> QED BY <2>1, <2>2 DEF program, ghosts, FollowInv, HostTells, RingTells,
                            ProgramTells, JoyTells, Tells, IsLast, Absent, Shown
<1> QED BY <1>1, <1>2, <1>3 DEF Next

(* When all events have been read the program sees the keys that are held   *)
(* down, but for those that were lost, read by a menu or pressed with Alt,  *)
(* and the joystick those of them that are its own (key_handler()): for a   *)
(* ring of every size, every set of keys and events without a bound.        *)
THEOREM KeysCorrect == Spec => []KeysFollow
<1>1. TypeOK /\ FollowInv => KeysFollow
  <2> SUFFICES ASSUME TypeOK, FollowInv, host = <<>>, wh = wt
               PROVE  /\ pressed \ (astray \cup lost) = down \ (astray \cup lost \cup {Alt})
                      /\ joy = pressed \cap Cursor
    BY DEF KeysFollow
  <2>1. InRing = <<>>
    <3>1. wh - wt = 0
      BY DEF TypeOK
    <3> QED BY <3>1 DEF InRing, Waiting, TypeOK
  <2>2. \A k \in Keys \ (lost \cup astray) : k \in pressed <=> k \in down /\ k # Alt
    BY <2>1 DEF FollowInv, ProgramTells, Absent, Shown
  <2>3. pressed \subseteq Keys /\ down \subseteq Keys
    BY DEF TypeOK
  <2>4. Alt \notin pressed /\ joy = pressed \cap Cursor
    BY DEF FollowInv, JoyTells
  <2> QED BY <2>2, <2>3, <2>4
<1> QED BY <1>1, TypesInitially, TypesStep, FollowInitially, FollowStep, PTL DEF Spec
=============================================================================
