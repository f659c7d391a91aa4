-------------------------- MODULE WriteQuery_proofs --------------------------
(***************************************************************************)
(* Proofs about WriteInput and WriteQuery.  The first part follows each    *)
(* kind of value through its provider and back: which parts its input has, *)
(* and that the C library reads the value's own cells in it.  The second   *)
(* is about the query: its types, that registered memory is alive, what a  *)
(* fragment is read from and why a write is refused.                       *)
(***************************************************************************)
EXTENDS WriteQuery, WellFoundedInduction, SequenceTheorems, TLAPS

(***************************************************************************)
(* Induction over an interval, from the least element of a set.            *)
(***************************************************************************)
LEMMA Induction ==
    ASSUME NEW n \in Nat, NEW S, 0 \in S, \A k \in 0..(n - 1) : k \in S => k + 1 \in S
    PROVE  \A k \in 0..n : k \in S
<1> DEFINE bad == {k \in 0..n : k \notin S}
<1>1. SUFFICES ASSUME bad # {} PROVE FALSE
  OBVIOUS
<1>2. IsWellFoundedOn(OpToRel(<, Nat), Nat)
  BY NatLessThanWellFounded
<1>3. bad \subseteq Nat
  OBVIOUS
<1>4. PICK x \in bad : \A y \in bad : ~ (<<y, x>> \in OpToRel(<, Nat))
  BY <1>1, <1>2, <1>3, WFMin
<1>5. \A y \in bad : ~ (y < x)
  BY <1>3, <1>4 DEF OpToRel
<1>6. x \in 0..n /\ x \notin S
  OBVIOUS
<1>7. x - 1 \in 0..(n - 1) /\ (x - 1) + 1 = x
  BY <1>6
<1>8. x - 1 \in S
  BY <1>5, <1>7
<1> QED
  BY <1>6, <1>7, <1>8

(***************************************************************************)
(* A value that goes through n steps.                                      *)
(***************************************************************************)
Runs(f, T, base, step, n) ==
    f \in [0..n -> T] /\ f[0] = base /\ \A i \in 1..n : f[i] = step[i][f[i - 1]]

LEMMA RunsOn ==
    ASSUME NEW n \in Nat, NEW T, NEW base \in T, NEW step \in [1..n -> [T -> T]]
    PROVE  \E f : Runs(f, T, base, step, n)
<1> DEFINE S == {k \in 0..n : \E f : Runs(f, T, base, step, k)}
<1>1. 0 \in S
  <2> DEFINE f == [i \in 0..0 |-> base]
  <2>1. Runs(f, T, base, step, 0)
    BY DEF Runs
  <2> QED
    BY <2>1
<1>2. ASSUME NEW k \in 0..(n - 1), k \in S PROVE k + 1 \in S
  <2>1. PICK f : Runs(f, T, base, step, k)
    BY <1>2
  <2> DEFINE g == [i \in 0..(k + 1) |-> IF i = k + 1 THEN step[k + 1][f[k]] ELSE f[i]]
  <2>2. k + 1 \in 1..n /\ k \in 0..k /\ f[k] \in T /\ step[k + 1] \in [T -> T]
    BY <2>1 DEF Runs
  <2>3. g \in [0..(k + 1) -> T] /\ g[0] = base
    BY <2>1, <2>2 DEF Runs
  <2>4. ASSUME NEW i \in 1..(k + 1) PROVE g[i] = step[i][g[i - 1]]
    <3>1. CASE i = k + 1
      BY <3>1
    <3>2. CASE i # k + 1
      BY <2>1, <3>2 DEF Runs
    <3> QED
      BY <3>1, <3>2
  <2> HIDE DEF g
  <2>5. Runs(g, T, base, step, k + 1)
    BY <2>3, <2>4 DEF Runs
  <2> QED
    BY <2>2, <2>5
<1> HIDE DEF S
<1>3. \A k \in 0..(n - 1) : k \in S => k + 1 \in S
  BY <1>2
<1>4. \A k \in 0..n : k \in S
  BY <1>1, <1>3, Induction
<1>5. n \in S
  BY <1>4
<1> QED
  BY <1>5 DEF S
-----------------------------------------------------------------------------
(***************************************************************************)
(* Where the cells of a value are in its memory.                           *)
(***************************************************************************)
Cells == Seq(Seq(Nat))

LEMMA EndsAre ==
    ASSUME NEW cells \in Cells, NEW first \in Nat
    PROVE  /\ Ends(first, cells) \in [0..Len(cells) -> Nat]
           /\ Ends(first, cells)[0] = first
           /\ \A i \in 1..Len(cells) :
                 Ends(first, cells)[i] = Ends(first, cells)[i - 1] + Len(cells[i])
<1> DEFINE n == Len(cells)
           step == [i \in 1..n |-> [x \in Nat |-> x + Len(cells[i])]]
           Is(f) == f = [i \in 0..n |-> IF i = 0 THEN first ELSE f[i - 1] + Len(cells[i])]
           e == CHOOSE f : Is(f)
<1>1. n \in Nat /\ \A i \in 1..n : Len(cells[i]) \in Nat
  BY DEF Cells
<1>8. Ends(first, cells) = e
  BY Zenon DEF Ends
<1> HIDE DEF n
<1>2. step \in [1..n -> [Nat -> Nat]]
  BY <1>1
<1>3. PICK f : Runs(f, Nat, first, step, n)
  <2> HIDE DEF step
  <2> QED
    BY <1>1, <1>2, RunsOn
<1>4. ASSUME NEW i \in 0..n
      PROVE  f[i] = IF i = 0 THEN first ELSE f[i - 1] + Len(cells[i])
  <2>1. CASE i = 0
    BY <1>3, <2>1 DEF Runs
  <2>2. CASE i # 0
    <3>1. i \in 1..n /\ i - 1 \in 0..n
      BY <1>1, <2>2
    <3>2. f[i] = step[i][f[i - 1]] /\ f[i - 1] \in Nat
      BY <1>3, <3>1, Zenon DEF Runs
    <3> QED
      BY <2>2, <3>1, <3>2
  <2> QED
    BY <2>1, <2>2
<1>5. f = [i \in 0..n |-> f[i]]
  BY <1>3 DEF Runs
<1>6. Is(f)
  BY <1>4, <1>5, Zenon
<1>7. Is(e)
  BY <1>6, Zenon
<1> HIDE DEF e
<1>13. e = [i \in 0..n |-> e[i]] /\ \A i \in 0..n : e[i] = IF i = 0 THEN first ELSE e[i - 1] + Len(cells[i])
  BY <1>7, Zenon
<1>11. e[0] = first /\ \A i \in 1..n : e[i] = e[i - 1] + Len(cells[i])
  <2>1. 0 \in 0..n /\ \A i \in 1..n : i \in 0..n /\ i # 0
    BY <1>1
  <2> QED
    BY <1>13, <2>1, Zenon
<1>9. ASSUME NEW i \in 1..n, e[i - 1] \in Nat PROVE e[i] \in Nat
  <2>1. e[i] = e[i - 1] + Len(cells[i]) /\ Len(cells[i]) \in Nat
    BY <1>1, <1>11, Zenon
  <2> QED
    BY <1>9, <2>1
<1>10. \A i \in 0..n : e[i] \in Nat
  <2> DEFINE S == {k \in 0..n : e[k] \in Nat}
  <2>1. 0 \in S
    BY <1>1, <1>11
  <2>2. ASSUME NEW k \in 0..(n - 1), k \in S PROVE k + 1 \in S
    <3>1. k + 1 \in 1..n /\ k + 1 \in 0..n /\ (k + 1) - 1 = k /\ e[k] \in Nat
      BY <1>1, <2>2
    <3>2. e[k + 1] \in Nat
      BY <1>9, <3>1
    <3> QED
      BY <3>1, <3>2
  <2> HIDE DEF S
  <2>3. \A k \in 0..n : k \in S
    BY <1>1, <2>1, <2>2, Induction
  <2> QED
    BY <2>3 DEF S
<1>12. e \in [0..n -> Nat]
  BY <1>10, <1>13
<1> QED
  BY <1>8, <1>11, <1>12 DEF n

LEMMA FlatIs ==
    ASSUME NEW cells \in Cells
    PROVE  \E row \in [0..Len(cells) -> Seq(Nat)] :
              /\ row[0] = <<>> /\ FlattenSeq(cells) = row[Len(cells)]
              /\ \A i \in 1..Len(cells) : row[i] = row[i - 1] \o cells[i]
<1> DEFINE n == Len(cells)
           step == [i \in 1..n |-> [s \in Seq(Nat) |-> s \o cells[i]]]
           Is(f) == f = [i \in 1..n |-> IF i = 1 THEN cells[i] ELSE f[i - 1] \o cells[i]]
           e == CHOOSE f : Is(f)
<1>1. n \in Nat /\ \A i \in 1..n : cells[i] \in Seq(Nat)
  BY DEF Cells
<1>2. step \in [1..n -> [Seq(Nat) -> Seq(Nat)]] /\ <<>> \in Seq(Nat)
  BY <1>1
<1>7. n = 0 => FlattenSeq(cells) = <<>>
  BY DEF FlattenSeq, Cells
<1>8. n # 0 => FlattenSeq(cells) = e[n]
  BY Zenon DEF FlattenSeq
<1> HIDE DEF n
<1>3. PICK row : Runs(row, Seq(Nat), <<>>, step, n)
  <2> HIDE DEF step
  <2> QED
    BY <1>1, <1>2, RunsOn
<1>4. /\ row \in [0..n -> Seq(Nat)] /\ row[0] = <<>>
      /\ \A i \in 1..n : row[i] = row[i - 1] \o cells[i]
  <2>1. row \in [0..n -> Seq(Nat)] /\ row[0] = <<>> /\ \A i \in 1..n : row[i] = step[i][row[i - 1]]
    BY <1>3 DEF Runs
  <2>2. ASSUME NEW i \in 1..n PROVE row[i - 1] \in Seq(Nat)
    <3>1. i - 1 \in 0..n
      BY <1>1
    <3> QED
      BY <2>1, <3>1, Zenon
  <2>3. \A i \in 1..n : step[i][row[i - 1]] = row[i - 1] \o cells[i]
    BY <2>2
  <2> QED
    BY <2>1, <2>3
<1>5. CASE n = 0
  BY <1>1, <1>4, <1>5, <1>7 DEF n
<1>6. CASE n # 0
  <2> DEFINE f == [i \in 1..n |-> row[i]]
  <2>1. \A i \in 1..n : f[i] = IF i = 1 THEN cells[i] ELSE f[i - 1] \o cells[i]
    <3> SUFFICES ASSUME NEW i \in 1..n
                 PROVE  row[i] = IF i = 1 THEN cells[i] ELSE f[i - 1] \o cells[i]
      OBVIOUS
    <3>1. CASE i = 1
      <4>1. row[i] = row[i - 1] \o cells[i] /\ cells[i] \in Seq(Nat) /\ i - 1 = 0
        <5>1. row[i] = row[i - 1] \o cells[i] /\ cells[i] \in Seq(Nat)
          BY <1>1, <1>4, Zenon
        <5> QED
          BY <3>1, <5>1
      <4>2. row[i - 1] = <<>>
        BY <1>4, <4>1
      <4>3. row[i] = cells[i]
        BY <4>1, <4>2, ConcatEmptySeq
      <4> QED
        BY ONLY <3>1, <4>3
    <3>2. CASE i # 1
      <4>1. row[i] = row[i - 1] \o cells[i]
        BY <1>4, Zenon
      <4>2. i - 1 \in 1..n
        BY <1>1, <3>2
      <4>3. f[i - 1] = row[i - 1]
        BY <4>2, Zenon
      <4> QED
        BY ONLY <3>2, <4>1, <4>3
    <3> QED
      BY <3>1, <3>2
  <2>2. Is(f)
    <3>1. f = [i \in 1..n |-> f[i]]
      OBVIOUS
    <3> HIDE DEF f
    <3> QED
      BY <2>1, <3>1, Zenon
  <2>3. Is(e)
    BY <2>2, Zenon
  <2>4. FlattenSeq(cells) = e[n]
    BY <1>6, <1>8
  <2> HIDE DEF e
  <2>5. e[n] = row[n]
    <3> DEFINE S == {k \in 0..n : k = 0 \/ e[k] = row[k]}
    <3>1. 0 \in S
      BY <1>1
    <3>2. \A k \in 0..(n - 1) : k \in S => k + 1 \in S
      <4> SUFFICES ASSUME NEW k \in 0..(n - 1), k \in S PROVE k + 1 \in S
        OBVIOUS
      <4>1. k + 1 \in 1..n /\ (k + 1) - 1 = k
        BY <1>1
      <4>2. e[k + 1] = IF k + 1 = 1 THEN cells[k + 1] ELSE e[k] \o cells[k + 1]
        BY <2>3, <4>1
      <4>3. row[k + 1] = row[k] \o cells[k + 1]
        BY <1>4, <4>1
      <4>4. k = 0 => row[k + 1] = cells[k + 1]
        <5>1. k = 0 => row[k] = <<>>
          BY <1>4
        <5>2. cells[k + 1] \in Seq(Nat)
          BY <1>1, <4>1, Zenon
        <5> QED
          BY <4>3, <5>1, <5>2, ConcatEmptySeq
      <4>5. e[k + 1] = row[k + 1]
        <5>1. k = 0 <=> k + 1 = 1
          OBVIOUS
        <5>2. k = 0 \/ e[k] = row[k]
          OBVIOUS
        <5> QED
          BY <4>2, <4>3, <4>4, <5>1, <5>2
      <4> QED
        BY <4>1, <4>5
    <3> HIDE DEF S
    <3>3. \A k \in 0..n : k \in S
      BY <1>1, <3>1, <3>2, Induction
    <3> QED
      BY <1>1, <1>6, <3>3 DEF S
  <2> QED
    BY <1>4, <2>4, <2>5 DEF n
<1> QED
  BY <1>5, <1>6

\* The cell c is between lo and hi.
Placed(s, c, lo, hi) == hi <= Len(s) /\ \A j \in 1..Len(c) : s[lo + j] = c[j]

LEMMA PlacedStays ==
    ASSUME NEW c \in Seq(Nat), NEW lo \in Nat, NEW hi \in Nat, hi = lo + Len(c),
           NEW s \in Seq(Nat), NEW t \in Seq(Nat), Placed(s, c, lo, hi)
    PROVE  Placed(s \o t, c, lo, hi)
<1>1. Len(c) \in Nat /\ Len(s) \in Nat /\ Len(t) \in Nat
  OBVIOUS
<1>2. hi <= Len(s) /\ \A j \in 1..Len(c) : s[lo + j] = c[j]
  BY Zenon DEF Placed
<1>3. Len(s \o t) = Len(s) + Len(t)
      /\ \A k \in 1..Len(s) + Len(t) : (s \o t)[k] = IF k <= Len(s) THEN s[k] ELSE t[k - Len(s)]
  BY ConcatProperties
<1>4. ASSUME NEW j \in 1..Len(c) PROVE (s \o t)[lo + j] = c[j]
  <2>1. lo + j \in 1..Len(s) + Len(t) /\ lo + j <= Len(s)
    BY <1>1, <1>2
  <2> QED
    BY <1>2, <1>3, <2>1, Zenon
<1>5. hi <= Len(s \o t)
  BY <1>1, <1>2, <1>3
<1> QED
  BY <1>4, <1>5, Zenon DEF Placed

LEMMA PlacedLast ==
    ASSUME NEW c \in Seq(Nat), NEW s \in Seq(Nat)
    PROVE  /\ Len(s \o c) = Len(s) + Len(c)
           /\ Placed(s \o c, c, Len(s), Len(s) + Len(c))
<1>1. Len(c) \in Nat /\ Len(s) \in Nat
  OBVIOUS
<1>3. /\ Len(s \o c) = Len(s) + Len(c)
      /\ \A k \in 1..Len(s) + Len(c) : (s \o c)[k] = IF k <= Len(s) THEN s[k] ELSE c[k - Len(s)]
  BY ConcatProperties
<1>4. ASSUME NEW j \in 1..Len(c) PROVE (s \o c)[Len(s) + j] = c[j]
  <2>1. /\ Len(s) + j \in 1..Len(s) + Len(c) /\ ~(Len(s) + j <= Len(s))
        /\ (Len(s) + j) - Len(s) = j
    BY <1>1
  <2>2. (s \o c)[Len(s) + j] = c[(Len(s) + j) - Len(s)]
    BY <1>3, <2>1, Zenon
  <2> QED
    BY <2>1, <2>2
<1>5. Len(s) + Len(c) <= Len(s \o c)
  BY <1>1, <1>3
<1> QED
  BY <1>3, <1>4, <1>5, Zenon DEF Placed

LEMMA PlacedSlice ==
    ASSUME NEW c \in Seq(Nat), NEW data \in Seq(Nat), NEW lo \in Nat, NEW hi \in Nat,
           hi = lo + Len(c), hi <= Len(data), \A j \in 1..Len(c) : data[lo + j] = c[j]
    PROVE  SubSeq(data, lo + 1, hi) = c
<1> DEFINE t == SubSeq(data, lo + 1, hi)
<1>1. Len(c) \in Nat /\ Len(data) \in Nat
  OBVIOUS
<1>2. \A j \in (lo + 1)..hi : data[j] \in Nat
  BY <1>1
<1>3. /\ t \in Seq(Nat) /\ Len(t) = IF lo + 1 <= hi THEN hi - (lo + 1) + 1 ELSE 0
      /\ \A j \in 1..hi - (lo + 1) + 1 : t[j] = data[lo + 1 + j - 1]
  BY <1>2, SubSeqProperties
<1> HIDE DEF t
<1>4. Len(t) = Len(c) /\ 1..hi - (lo + 1) + 1 = 1..Len(c)
  BY <1>1, <1>3
<1>5. ASSUME NEW j \in 1..Len(c) PROVE t[j] = c[j]
  <2>1. t[j] = data[lo + 1 + j - 1] /\ data[lo + j] = c[j]
    BY <1>3, <1>4, Zenon
  <2>2. lo + 1 + j - 1 = lo + j
    OBVIOUS
  <2> QED
    BY <2>1, <2>2
<1> QED
  BY <1>3, <1>4, <1>5, SeqEqual DEF t

(***************************************************************************)
(* The values of a value lie in its memory one cell after the other,       *)
(* between those around a slice: each offset is where a cell begins.       *)
(***************************************************************************)
Slices(data, cells, end) ==
    \A i \in 1..Len(cells) : /\ end[i - 1] <= end[i] /\ end[i] <= Len(data)
                             /\ SubSeq(data, end[i - 1] + 1, end[i]) = cells[i]

LEMMA CellsInMemory ==
    ASSUME NEW cells \in Cells, NEW before \in Seq(Nat), NEW after \in Seq(Nat)
    PROVE  /\ before \o FlattenSeq(cells) \o after \in Seq(Nat)
           /\ Len(before \o FlattenSeq(cells) \o after)
                 = Ends(Len(before), cells)[Len(cells)] + Len(after)
           /\ Slices(before \o FlattenSeq(cells) \o after, cells, Ends(Len(before), cells))
<1> DEFINE n == Len(cells)
           end == Ends(Len(before), cells)
           At(s, i) == Placed(s, cells[i], end[i - 1], end[i])
<1>1. n \in Nat /\ Len(before) \in Nat /\ Len(after) \in Nat
  BY DEF Cells
<1>2. /\ end \in [0..n -> Nat] /\ end[0] = Len(before)
      /\ \A i \in 1..n : end[i] = end[i - 1] + Len(cells[i])
  BY <1>1, EndsAre
<1>3. PICK row \in [0..n -> Seq(Nat)] :
         /\ row[0] = <<>> /\ FlattenSeq(cells) = row[n]
         /\ \A i \in 1..n : row[i] = row[i - 1] \o cells[i]
  BY FlatIs
<1>4. \A i \in 1..n : cells[i] \in Seq(Nat) /\ Len(cells[i]) \in Nat
  BY DEF Cells
<1> HIDE DEF end, n
<1>11. ASSUME NEW i \in 1..n
       PROVE  /\ cells[i] \in Seq(Nat) /\ end[i - 1] \in Nat /\ end[i] \in Nat
              /\ end[i] = end[i - 1] + Len(cells[i]) /\ end[i - 1] <= end[i]
  <2>1. i - 1 \in 0..n /\ i \in 0..n
    BY <1>1
  <2>2. end[i - 1] \in Nat /\ end[i] \in Nat /\ end[i] = end[i - 1] + Len(cells[i])
    BY <1>2, <2>1, Zenon
  <2>3. cells[i] \in Seq(Nat) /\ Len(cells[i]) \in Nat
    BY <1>4, Zenon
  <2> QED
    BY <2>2, <2>3
<1> DEFINE S == {k \in 0..n : /\ Len(before \o row[k]) = end[k]
                             /\ \A i \in 1..k : At(before \o row[k], i)}
<1>5. 0 \in S
  <2>1. before \o row[0] = before
    BY <1>3, ConcatEmptySeq
  <2>2. 0 \in 0..n /\ \A i \in 1..0 : At(before \o row[0], i)
    BY <1>1
  <2> QED
    BY <1>2, <2>1, <2>2
<1>6. ASSUME NEW k \in 0..(n - 1), k \in S PROVE k + 1 \in S
  <2> DEFINE s == before \o row[k]
             c == cells[k + 1]
  <2>1. k + 1 \in 1..n /\ (k + 1) - 1 = k /\ k \in 0..n /\ k + 1 \in 0..n
    BY <1>1
  <2>2. row[k] \in Seq(Nat) /\ c \in Seq(Nat) /\ s \in Seq(Nat)
    BY <1>3, <1>4, <2>1, ConcatProperties
  <2>3. row[k + 1] = row[k] \o c /\ end[k + 1] = end[k] + Len(c)
    BY <1>2, <1>3, <2>1, Zenon
  <2>4. before \o row[k + 1] = s \o c
    <3> DEFINE r == row[k]
    <3>1. r \in Seq(Nat) /\ c \in Seq(Nat)
      BY <2>2
    <3> HIDE DEF c, r
    <3>3. before \in Seq(Nat)
      OBVIOUS
    <3>2. (before \o r) \o c = before \o (r \o c)
      BY ONLY <3>1, <3>3, ConcatAssociative, SMTT(60)
    <3> QED
      BY <2>3, <3>2 DEF r
  <2>5. Len(s) = end[k] /\ \A i \in 1..k : At(s, i)
    BY <1>6, Zenon
  <2>6. Len(s \o c) = end[k + 1] /\ At(s \o c, k + 1)
    <3> HIDE DEF c, s
    <3>1. Len(s \o c) = Len(s) + Len(c) /\ Placed(s \o c, c, Len(s), Len(s) + Len(c))
      BY <2>2, PlacedLast
    <3> QED
      BY <2>1, <2>3, <2>5, <3>1 DEF c
  <2>7. ASSUME NEW i \in 1..k PROVE At(s \o c, i)
    <3>1. i \in 1..n
      BY <1>1, <2>1
    <3>2. /\ cells[i] \in Seq(Nat) /\ end[i - 1] \in Nat /\ end[i] \in Nat
          /\ end[i] = end[i - 1] + Len(cells[i]) /\ At(s, i)
      BY <1>11, <2>5, <3>1, Zenon
    <3> HIDE DEF c, s
    <3> QED
      BY <2>2, <3>2, PlacedStays
  <2> HIDE DEF c, s, At
  <2>8. \A i \in 1..k + 1 : At(s \o c, i)
    <3>1. \A i \in 1..k + 1 : i \in 1..k \/ i = k + 1
      BY <2>1
    <3> QED
      BY <2>6, <2>7, <3>1, Zenon
  <2> QED
    BY <2>1, <2>4, <2>6, <2>8
<1> DEFINE flat == before \o FlattenSeq(cells)
<1>7. Len(flat) = end[n] /\ \A i \in 1..n : At(flat, i)
  <2> HIDE DEF S
  <2>1. \A k \in 0..n : k \in S
    BY <1>1, <1>5, <1>6, Induction
  <2>2. n \in S
    BY <1>1, <2>1
  <2> HIDE DEF At
  <2> QED
    BY <1>3, <2>2 DEF S
<1>8. flat \in Seq(Nat)
  BY <1>1, <1>3, ConcatProperties
<1> DEFINE data == flat \o after
<1>9. data \in Seq(Nat) /\ Len(data) = end[n] + Len(after)
  BY <1>7, <1>8, ConcatProperties
<1>10. ASSUME NEW i \in 1..n
       PROVE  /\ end[i - 1] <= end[i] /\ end[i] <= Len(data)
              /\ SubSeq(data, end[i - 1] + 1, end[i]) = cells[i]
  <2> DEFINE c == cells[i]
             lo == end[i - 1]
             hi == end[i]
  <2>1. /\ c \in Seq(Nat) /\ lo \in Nat /\ hi \in Nat /\ hi = lo + Len(c) /\ lo <= hi
        /\ Placed(flat, c, lo, hi)
    BY <1>7, <1>11, Zenon
  <2> HIDE DEF c, lo, hi, flat, data
  <2>2. Placed(data, c, lo, hi)
    BY <1>8, <2>1, PlacedStays DEF data
  <2>3. hi <= Len(data) /\ \A j \in 1..Len(c) : data[lo + j] = c[j]
    BY <2>2, Zenon DEF Placed
  <2>4. SubSeq(data, lo + 1, hi) = c
    BY <1>9, <2>1, <2>3, PlacedSlice
  <2> QED
    BY <2>1, <2>3, <2>4 DEF c, lo, hi
<1>12. Slices(data, cells, end)
  BY <1>10, Zenon DEF Slices, n
<1> QED
  BY <1>9, <1>12 DEF end, n

LEMMA WholeCells ==
    ASSUME NEW n \in Nat, NEW k \in Nat \ {0}
    PROVE  /\ n * k \in Nat /\ (n * k) \div k = n /\ (n * k) % k = 0
           /\ \A i \in 1..n : (i - 1) * k + k = i * k /\ (i - 1) * k \in Nat
<1>1. n * k \in Nat /\ \A i \in 1..n : (i - 1) * k + k = i * k /\ (i - 1) * k \in Nat
  OBVIOUS
<1>2. (n * k) \div k = n
  OBVIOUS
<1>3. (n * k) % k = 0
  OBVIOUS
<1> QED
  BY <1>1, <1>2, <1>3

\* All cells have k values.
Uniform(cells, k) == \A i \in DOMAIN cells : Len(cells[i]) = k

LEMMA UniformEnds ==
    ASSUME NEW cells \in Cells, NEW k \in Nat, Uniform(cells, k), NEW first \in Nat
    PROVE  \A i \in 0..Len(cells) : Ends(first, cells)[i] = first + i * k
<1> DEFINE n == Len(cells)
           e == Ends(first, cells)
           S == {i \in 0..n : e[i] = first + i * k}
<1>1. n \in Nat /\ \A i \in 1..n : Len(cells[i]) = k
  BY DEF Cells, Uniform
<1>2. e[0] = first /\ \A i \in 1..n : e[i] = e[i - 1] + Len(cells[i])
  BY EndsAre
<1> HIDE DEF n, e
<1>3. 0 \in S
  BY <1>1, <1>2
<1>4. ASSUME NEW i \in 0..(n - 1), i \in S PROVE i + 1 \in S
  <2>1. i + 1 \in 1..n /\ (i + 1) - 1 = i /\ i + 1 \in 0..n /\ i \in Nat
    BY <1>1
  <2>2. e[i + 1] = e[i] + k
    BY <1>1, <1>2, <2>1, Zenon
  <2>3. e[i] = first + i * k
    BY <1>4
  <2>4. i * k + k = (i + 1) * k
    BY <2>1
  <2>5. e[i + 1] = first + (i + 1) * k
    BY <2>1, <2>2, <2>3, <2>4
  <2> QED
    BY <2>1, <2>5
<1> HIDE DEF S
<1>5. \A i \in 0..n : i \in S
  BY <1>1, <1>3, <1>4, Induction
<1> QED
  BY <1>5 DEF S, n, e

(***************************************************************************)
(* What the C library reads: by the offsets, the cells of any value; by    *)
(* the number of values per cell, those of a value that has as many.       *)
(***************************************************************************)
LEMMA ByOffsets ==
    ASSUME NEW cells \in Cells, NEW before \in Seq(Nat), NEW after \in Seq(Nat), NEW in,
           in["data"] = before \o FlattenSeq(cells) \o after,
           in["offsets"] = OffsetsFrom(Len(before), cells)
    PROVE  /\ in["offsets"] \in Seq(Nat) /\ in["offsets"] # <<>>
           /\ ReadOffsets(in) = cells
           /\ Len(in["data"]) = Last(in["offsets"]) + Len(after)
<1> DEFINE n == Len(cells)
           e == Ends(Len(before), cells)
           o == in["offsets"]
           data == in["data"]
<1>1. n \in Nat /\ Len(before) \in Nat /\ cells = [i \in 1..n |-> cells[i]]
  BY DEF Cells
<1>2. e \in [0..n -> Nat]
  BY <1>1, EndsAre
<1>3. o = [i \in 1..n + 1 |-> e[i - 1]]
  BY DEF OffsetsFrom
<1>4. Len(data) = e[n] + Len(after) /\ Slices(data, cells, e)
  BY CellsInMemory
<1>5. ReadOffsets(in) = [i \in 1..Len(o) - 1 |-> SubSeq(data, o[i] + 1, o[i + 1])]
  BY DEF ReadOffsets
<1>6. Slices(data, cells, e) =>
        \A i \in 1..n : SubSeq(data, e[i - 1] + 1, e[i]) = cells[i]
  BY DEF Slices
<1> HIDE DEF n, e, o, data
<1>7. o \in [1..n + 1 -> Nat] /\ n + 1 \in Nat
  BY <1>1, <1>2, <1>3
<1>8. o \in Seq(Nat) /\ Len(o) = n + 1
  <2> DEFINE m == n + 1
  <2>1. o \in [1..m -> Nat] /\ m \in Nat
    BY <1>7
  <2> HIDE DEF m
  <2>2. o \in Seq(Nat)
    BY <2>1
  <2> QED
    BY <2>1, <2>2 DEF m
<1>9. o # <<>> /\ Last(o) = e[n]
  BY <1>1, <1>3, <1>8 DEF Last
<1>10. ASSUME NEW i \in 1..n PROVE SubSeq(data, o[i] + 1, o[i + 1]) = cells[i]
  <2>1. i \in 1..n + 1 /\ i + 1 \in 1..n + 1 /\ (i + 1) - 1 = i
    BY <1>1
  <2>2. o[i] = e[i - 1] /\ o[i + 1] = e[i]
    BY <1>3, <2>1
  <2> QED
    BY <1>4, <1>6, <2>2
<1>11. ReadOffsets(in) = cells
  <2>1. 1..Len(o) - 1 = 1..n
    BY <1>1, <1>8
  <2> QED
    BY <1>1, <1>5, <1>10, <2>1, Zenon
<1> QED
  BY <1>4, <1>8, <1>9, <1>11 DEF o, data

LEMMA ByNumber ==
    ASSUME NEW cells \in Cells, NEW k \in Nat \ {0}, Uniform(cells, k), NEW in,
           in["data"] = <<>> \o FlattenSeq(cells) \o <<>>
    PROVE  /\ Len(in["data"]) = Len(cells) * k /\ Len(in["data"]) % k = 0
           /\ Len(in["data"]) \div k = Len(cells)
           /\ ReadFixed(in, k) = cells
<1> DEFINE n == Len(cells)
           e == Ends(0, cells)
           data == in["data"]
<1>1. n \in Nat /\ cells = [i \in 1..n |-> cells[i]]
  BY DEF Cells
<1>2. <<>> \in Seq(Nat) /\ Len(<<>>) = 0
  OBVIOUS
<1>3. Len(data) = e[n] + 0 /\ Slices(data, cells, e)
  BY <1>2, CellsInMemory
<1>4. \A i \in 0..n : e[i] = 0 + i * k
  BY UniformEnds
<1>5. ReadFixed(in, k) = [i \in 1..Len(data) \div k |-> SubSeq(data, (i - 1) * k + 1, i * k)]
  BY DEF ReadFixed
<1>6. Slices(data, cells, e) =>
        \A i \in 1..n : SubSeq(data, e[i - 1] + 1, e[i]) = cells[i]
  BY DEF Slices
<1> HIDE DEF n, e, data
<1>7. Len(data) = n * k /\ (n * k) \div k = n /\ (n * k) % k = 0
  <2>1. n * k \in Nat /\ (n * k) \div k = n /\ (n * k) % k = 0
    BY <1>1, WholeCells
  <2>2. e[n] = 0 + n * k
    BY <1>1, <1>4
  <2> QED
    BY <1>3, <2>1, <2>2
<1>8. ASSUME NEW i \in 1..n PROVE SubSeq(data, (i - 1) * k + 1, i * k) = cells[i]
  <2>1. i - 1 \in 0..n /\ i \in 0..n
    BY <1>1
  <2>2. e[i - 1] = (i - 1) * k /\ e[i] = i * k
    BY <1>4, <2>1
  <2> QED
    BY <1>3, <1>6, <2>2
<1>9. ReadFixed(in, k) = cells
  BY <1>1, <1>5, <1>7, <1>8, Zenon
<1> QED
  BY <1>7, <1>9 DEF data, n

-----------------------------------------------------------------------------
(***************************************************************************)
(* What the providers make of a value.                                     *)
(***************************************************************************)
Made(in, f, data, offsets, validity) ==
    /\ in \in [NeededParts(f) -> Seq(Int)]
    /\ in["data"] = data
    /\ CellValNum[f] = Var => in["offsets"] = offsets
    /\ f \in Nullable => in["validity"] = validity

LEMMA InputMade ==
    ASSUME NEW f \in Fields, NEW data \in Seq(Int), NEW o \in Seq(Int), NEW w \in Seq(Int),
           NEW os, os = IF CellValNum[f] = Var THEN {o} ELSE {},
           NEW ws, ws = IF f \in Nullable THEN {w} ELSE {}
    PROVE  Made(Input(data, os, ws), f, data, o, w)
<1> DEFINE in == Input(data, os, ws)
           D == {"data"} \cup {q \in {"offsets"} : os # {}} \cup {q \in {"validity"} : ws # {}}
<1>1. D = NeededParts(f)
  BY DEF NeededParts
<1>2. in = [p \in D |-> CASE p = "data"     -> data
                         [] p = "offsets"  -> CHOOSE x \in os : TRUE
                         [] p = "validity" -> CHOOSE x \in ws : TRUE]
  BY DEF Input
<1>3. "data" \in D /\ in["data"] = data
  BY <1>2
<1>4. CellValNum[f] = Var => "offsets" \in D /\ in["offsets"] = o
  <2> SUFFICES ASSUME CellValNum[f] = Var PROVE "offsets" \in D /\ in["offsets"] = o
    OBVIOUS
  <2>1. os = {o}
    OBVIOUS
  <2>2. (CHOOSE x \in os : TRUE) = o
    BY <2>1
  <2>3. "offsets" \in D
    BY <2>1
  <2> QED
    BY <1>2, <2>2, <2>3
<1>5. f \in Nullable => "validity" \in D /\ in["validity"] = w
  <2> SUFFICES ASSUME f \in Nullable PROVE "validity" \in D /\ in["validity"] = w
    OBVIOUS
  <2>1. ws = {w}
    OBVIOUS
  <2>2. (CHOOSE x \in ws : TRUE) = w
    BY <2>1
  <2>3. "validity" \in D
    BY <2>1
  <2> QED
    BY <1>2, <2>2, <2>3
<1>6. ASSUME NEW p \in D
      PROVE  \/ p = "data"
             \/ p = "offsets" /\ CellValNum[f] = Var
             \/ p = "validity" /\ f \in Nullable
  BY <1>1 DEF NeededParts
<1>7. \A p \in D : in[p] \in Seq(Int)
  BY <1>3, <1>4, <1>5, <1>6, Zenon
<1>8. in = [p \in D |-> in[p]]
  BY <1>2
<1> HIDE DEF in, D
<1>9. in \in [D -> Seq(Int)]
  BY <1>7, <1>8
<1> QED
  BY <1>1, <1>3, <1>4, <1>5, <1>9, Zenon DEF Made, in

\* A validity for each cell; nothing, if there are no nulls to tell of.
LEMMA ValidityMade ==
    ASSUME NEW v, IsValue(v), NEW f \in Fields
    PROVE  /\ ValidityOf(v) \in Seq(Int) /\ Len(ValidityOf(v)) = Len(v.cells)
           /\ v.nulls = {} => ValidityOf(v) = AllValid(Len(v.cells))
           /\ \A b \in validity_buffer(v, f) :
                 /\ b = IF f \in Nullable THEN {ValidityOf(v)} ELSE {}
                 /\ f \notin Nullable => v.nulls = {}
<1> DEFINE n == Len(v.cells)
<1>1. n \in Nat /\ DOMAIN v.cells = 1..n
  BY DEF IsValue
<1> HIDE DEF n
<1>2. ValidityOf(v) \in [1..n -> Int]
  BY <1>1 DEF ValidityOf
<1>3. ValidityOf(v) \in Seq(Int) /\ Len(ValidityOf(v)) = n
  BY <1>1, <1>2
<1>4. v.nulls = {} => ValidityOf(v) = AllValid(n)
  BY <1>1 DEF ValidityOf, AllValid
<1>5. \A b \in validity_buffer(v, f) :
         /\ b = IF f \in Nullable THEN {ValidityOf(v)} ELSE {}
         /\ f \notin Nullable => v.nulls = {}
  BY DEF validity_buffer, ValidityOf
<1> QED
  BY <1>3, <1>4, <1>5 DEF n

LEMMA MemoryOf ==
    ASSUME NEW v, IsValue(v)
    PROVE  /\ v.cells \in Cells /\ Len(v.cells) \in Nat /\ DOMAIN v.cells = 1..Len(v.cells)
           /\ v.before \in Seq(Nat) /\ v.after \in Seq(Nat)
           /\ ValuesOf(v) \in Seq(Nat) /\ ValuesOf(v) \in Seq(Int)
           /\ Len(ValuesOf(v)) = Ends(Len(v.before), v.cells)[Len(v.cells)] + Len(v.after)
<1>1. v.cells \in Cells /\ v.before \in Seq(Nat) /\ v.after \in Seq(Nat)
  BY DEF IsValue, Cells
<1>2. Len(v.cells) \in Nat /\ DOMAIN v.cells = 1..Len(v.cells)
  BY <1>1 DEF Cells
<1>3. /\ v.before \o FlattenSeq(v.cells) \o v.after \in Seq(Nat)
      /\ Len(v.before \o FlattenSeq(v.cells) \o v.after)
            = Ends(Len(v.before), v.cells)[Len(v.cells)] + Len(v.after)
  BY <1>1, CellsInMemory
<1>4. ValuesOf(v) \in Seq(Nat)
  BY <1>3 DEF ValuesOf
<1>5. ValuesOf(v) \in Seq(Int)
  <2>1. Nat \subseteq Int
    OBVIOUS
  <2> QED
    BY <1>4, <2>1, SeqMonotonic
<1> QED
  BY <1>1, <1>2, <1>3, <1>4, <1>5 DEF ValuesOf

LEMMA OffsetsMade ==
    ASSUME NEW cells \in Cells, NEW first \in Nat, NEW f \in Fields
    PROVE  /\ OffsetsFrom(first, cells) \in Seq(Int)
           /\ \A o \in cell_structure(first, cells, f) :
                 /\ o = IF CellValNum[f] = Var THEN {OffsetsFrom(first, cells)} ELSE {}
                 /\ CellValNum[f] # Var => Uniform(cells, CellValNum[f])
<1>1. OffsetsFrom(first, cells) \in Seq(Int)
  <2> DEFINE m == Len(cells) + 1
             o == OffsetsFrom(first, cells)
  <2>1. Ends(first, cells) \in [0..Len(cells) -> Nat] /\ Len(cells) \in Nat /\ m \in Nat
    BY EndsAre DEF Cells
  <2>2. \A i \in 1..m : i - 1 \in 0..Len(cells)
    BY <2>1
  <2>3. o \in [1..m -> Int]
    BY <2>1, <2>2 DEF OffsetsFrom
  <2> HIDE DEF m, o
  <2>4. o \in Seq(Int)
    BY <2>1, <2>3
  <2> QED
    BY <2>4 DEF o
<1>2. \A o \in cell_structure(first, cells, f) :
         /\ o = IF CellValNum[f] = Var THEN {OffsetsFrom(first, cells)} ELSE {}
         /\ CellValNum[f] # Var => Uniform(cells, CellValNum[f])
  BY DEF cell_structure, Uniform
<1> QED
  BY <1>1, <1>2

\* A null of a field that is not nullable is refused.
NullsFit(v, f) == f \notin Nullable => v.nulls = {}

SizesFit(v, f) == CellValNum[f] # Var => Uniform(v.cells, CellValNum[f])

LEMMA SliceMade ==
    ASSUME NEW v, IsValue(v), NEW f \in Fields, CellValNum[f] # Var, NEW in \in SliceInput(v, f)
    PROVE  Made(in, f, ValuesOf(v), <<>>, AllValid(Len(ValuesOf(v))))
<1> DEFINE data == ValuesOf(v)
           w == AllValid(Len(data))
           ws == NoNulls(Len(data), f)
<1>1. data \in Seq(Int) /\ Len(data) \in Nat
  BY MemoryOf
<1>2. in = Input(data, {}, ws)
  BY DEF SliceInput
<1> HIDE DEF data
<1>3. w \in Seq(Int)
  BY <1>1 DEF AllValid
<1>4. ws = IF f \in Nullable THEN {w} ELSE {}
  BY DEF NoNulls
<1> HIDE DEF w, ws
<1>5. <<>> \in Seq(Int)
  OBVIOUS
<1>6. Made(Input(data, {}, ws), f, data, <<>>, w)
  BY <1>1, <1>3, <1>4, <1>5, InputMade
<1> QED
  BY <1>2, <1>6 DEF data, w

LEMMA NestedMade ==
    ASSUME NEW v, IsValue(v), v.kind = "nested", NEW f \in Fields, NEW in \in NestedInput(v, f)
    PROVE  /\ Made(in, f, ValuesOf(v), OffsetsFrom(Len(v.before), v.cells), ValidityOf(v))
           /\ SizesFit(v, f) /\ NullsFit(v, f)
<1> DEFINE data == ValuesOf(v)
           o == OffsetsFrom(0, v.cells)
           w == ValidityOf(v)
           ws == NoNulls(Len(v.cells), f)
<1>1. data \in Seq(Int) /\ v.cells \in Cells
  BY MemoryOf
<1>2. v.nulls = {} /\ Len(v.before) = 0
  BY DEF IsValue
<1>3. PICK os \in cell_structure(0, v.cells, f) : in = Input(data, os, ws)
  BY DEF NestedInput
<1>4. o \in Seq(Int) /\ os = IF CellValNum[f] = Var THEN {o} ELSE {}
  BY <1>1, <1>3, OffsetsMade
<1>5. CellValNum[f] # Var => Uniform(v.cells, CellValNum[f])
  BY <1>1, <1>3, OffsetsMade
<1>6. w \in Seq(Int) /\ w = AllValid(Len(v.cells))
  BY <1>2, ValidityMade
<1>7. ws = IF f \in Nullable THEN {w} ELSE {}
  BY <1>6 DEF NoNulls
<1> HIDE DEF data, o, w, ws
<1>8. Made(Input(data, os, ws), f, data, o, w)
  BY <1>1, <1>4, <1>6, <1>7, InputMade
<1> QED
  BY <1>2, <1>3, <1>5, <1>8 DEF data, o, w, SizesFit, NullsFit

LEMMA ListMade ==
    ASSUME NEW v, IsValue(v), NEW f \in Fields, NEW in \in ListInput(v, f)
    PROVE  /\ Made(in, f, ValuesOf(v), OffsetsFrom(Len(v.before), v.cells), ValidityOf(v))
           /\ SizesFit(v, f) /\ NullsFit(v, f)
<1> DEFINE data == ValuesOf(v)
           first == Len(v.before)
           o == OffsetsFrom(first, v.cells)
           w == ValidityOf(v)
<1>1. data \in Seq(Int) /\ v.cells \in Cells /\ v.before \in Seq(Nat)
  BY MemoryOf
<1>2. first \in Nat
  BY <1>1
<1>3. PICK os \in cell_structure(first, v.cells, f), ws \in validity_buffer(v, f) :
         in = Input(data, os, ws)
  BY DEF ListInput
<1> HIDE DEF first
<1>4. o \in Seq(Int) /\ os = IF CellValNum[f] = Var THEN {o} ELSE {}
  BY <1>1, <1>2, <1>3, OffsetsMade
<1>5. CellValNum[f] # Var => Uniform(v.cells, CellValNum[f])
  BY <1>1, <1>2, <1>3, OffsetsMade
<1>6. w \in Seq(Int)
  BY ValidityMade
<1>7. ws = IF f \in Nullable THEN {w} ELSE {}
  BY <1>3, ValidityMade
<1>8. f \notin Nullable => v.nulls = {}
  BY <1>3, ValidityMade
<1> HIDE DEF data, o, w
<1>9. Made(Input(data, os, ws), f, data, o, w)
  BY <1>1, <1>4, <1>6, <1>7, InputMade
<1> QED
  BY <1>3, <1>5, <1>8, <1>9 DEF data, o, w, first, SizesFit, NullsFit

LEMMA PrimitiveMade ==
    ASSUME NEW v, IsValue(v), NEW f \in Fields, NEW in \in PrimitiveInput(v, f),
           CellValNum[f] = 1 \/ f \notin Nullable
    PROVE  /\ Made(in, f, ValuesOf(v), <<>>, ValidityOf(v)) /\ NullsFit(v, f)
           /\ CellValNum[f] # Var
           /\ CellValNum[f] # 1 => Len(ValuesOf(v)) % CellValNum[f] # 0
<1> DEFINE data == ValuesOf(v)
           w == ValidityOf(v)
<1>1. data \in Seq(Int) /\ <<>> \in Seq(Int)
  BY MemoryOf
<1>2. w \in Seq(Int)
  BY ValidityMade
<1>3. CellValNum[f] # Var
  BY DEF PrimitiveInput, Var
<1>4. CASE CellValNum[f] = 1
  <2>1. PICK ws \in validity_buffer(v, f) : in = Input(data, {}, ws)
    BY <1>4 DEF PrimitiveInput
  <2>2. ws = IF f \in Nullable THEN {w} ELSE {}
    BY <2>1, ValidityMade
  <2>3. f \notin Nullable => v.nulls = {}
    BY <2>1, ValidityMade
  <2> HIDE DEF data, w
  <2>4. Made(Input(data, {}, ws), f, data, <<>>, w)
    BY <1>1, <1>2, <1>3, <2>2, InputMade
  <2> QED
    BY <1>3, <1>4, <2>1, <2>3, <2>4 DEF data, w, NullsFit
<1>5. CASE CellValNum[f] # 1
  <2>1. in = Input(data, {}, {}) /\ v.nulls = {} /\ Len(data) % CellValNum[f] # 0
    BY <1>5 DEF PrimitiveInput
  <2>2. f \notin Nullable
    BY <1>5
  <2> HIDE DEF data, w
  <2>4. Made(Input(data, {}, {}), f, data, <<>>, w)
    BY <1>1, <1>2, <1>3, <2>2, InputMade
  <2> QED
    BY <1>3, <2>1, <2>4 DEF data, w, NullsFit
<1> QED
  BY <1>4, <1>5

LEMMA FixedSizeMade ==
    ASSUME NEW v, IsValue(v), NEW f \in Fields, NEW in \in FixedSizeInput(v, f)
    PROVE  /\ Made(in, f, ValuesOf(v), [i \in 1..Len(v.cells) |-> (i - 1) * v.width], ValidityOf(v))
           /\ NullsFit(v, f)
           /\ CellValNum[f] # Var => v.width = CellValNum[f]
<1> DEFINE data == ValuesOf(v)
           n == Len(v.cells)
           o == [i \in 1..n |-> (i - 1) * v.width]
           w == ValidityOf(v)
<1>1. data \in Seq(Int) /\ n \in Nat
  BY MemoryOf
<1>2. v.width \in Nat
  BY DEF IsValue
<1>3. PICK os \in cell_structure_fixed(v.width, n, f), ws \in validity_buffer(v, f) :
         in = Input(data, os, ws)
  BY DEF FixedSizeInput
<1> HIDE DEF n
<1>4. o \in Seq(Int)
  <2>1. \A i \in 1..n : (i - 1) * v.width \in Int
    BY <1>1, <1>2
  <2>2. o \in [1..n -> Int]
    BY <2>1
  <2> HIDE DEF o
  <2> QED
    BY <1>1, <2>2
<1>5. /\ os = IF CellValNum[f] = Var THEN {o} ELSE {}
      /\ CellValNum[f] # Var => v.width = CellValNum[f]
  BY <1>3 DEF cell_structure_fixed
<1>6. w \in Seq(Int)
  BY ValidityMade
<1>7. ws = IF f \in Nullable THEN {w} ELSE {}
  BY <1>3, ValidityMade
<1>8. f \notin Nullable => v.nulls = {}
  BY <1>3, ValidityMade
<1> HIDE DEF data, o, w
<1>9. Made(Input(data, os, ws), f, data, o, w)
  BY <1>1, <1>4, <1>5, <1>6, <1>7, InputMade
<1> QED
  BY <1>3, <1>5, <1>8, <1>9 DEF data, o, w, n, NullsFit

\* A buffer is read as long as its enum is large.
AsEnum(v) == [i \in 1..BufferSize |-> IF i \in DOMAIN ValuesOf(v) THEN ValuesOf(v)[i] ELSE Beyond]

\* Buffers that have the parts the field needs, and no other.
LEMMA BuffersMade ==
    ASSUME NEW v, IsValue(v), v.kind = "buffers", NEW f \in Fields, NEW in \in BuffersInput(v),
           DOMAIN in = NeededParts(f)
    PROVE  /\ Made(in, f, AsEnum(v), OffsetsFrom(0, v.cells), ValidityOf(v))
           /\ NullsFit(v, f)
           /\ CellValNum[f] # Var => Uniform(v.cells, v.width)
           /\ Len(AsEnum(v)) = BufferSize
           /\ Len(ValuesOf(v)) = BufferSize => AsEnum(v) = ValuesOf(v)
<1> DEFINE data == ValuesOf(v)
           padded == AsEnum(v)
           o == OffsetsFrom(0, v.cells)
           w == ValidityOf(v)
           os == {o : p \in v.own \cap {"offsets"}}
           ws == {w : p \in v.own \cap {"validity"}}
<1>1. data \in Seq(Int) /\ v.cells \in Cells /\ Len(data) \in Nat /\ DOMAIN data = 1..Len(data)
  BY MemoryOf
<1>2. in = Input(padded, os, ws)
  BY DEF BuffersInput, AsEnum
<1> HIDE DEF data
<1>3. padded = [i \in 1..BufferSize |-> IF i \in DOMAIN data THEN data[i] ELSE Beyond]
  BY DEF AsEnum, data
<1>4. padded \in Seq(Int) /\ Len(padded) = BufferSize
  <2>1. padded \in [1..BufferSize -> Int]
    BY <1>1, <1>3 DEF Beyond
  <2>2. BufferSize \in Nat
    BY SchemaAssumption
  <2> HIDE DEF padded
  <2> QED
    BY <2>1, <2>2
<1>5. Len(data) = BufferSize => padded = data
  <2> SUFFICES ASSUME Len(data) = BufferSize PROVE padded = data
    OBVIOUS
  <2>1. padded = [i \in 1..Len(data) |-> data[i]]
    BY <1>1, <1>3
  <2> QED
    BY <1>1, <2>1
<1>6. o \in Seq(Int) /\ w \in Seq(Int)
  BY <1>1, OffsetsMade, ValidityMade
<1>7. NeededParts(f) = {"data"} \cup {q \in {"offsets"} : os # {}} \cup {q \in {"validity"} : ws # {}}
  <2> HIDE DEF os, ws
  <2> QED
    BY <1>2 DEF Input
<1>8. ("offsets" \in v.own <=> CellValNum[f] = Var) /\ ("validity" \in v.own <=> f \in Nullable)
  <2>1. ("offsets" \in v.own <=> os # {}) /\ ("validity" \in v.own <=> ws # {})
    OBVIOUS
  <2> HIDE DEF os, ws
  <2> QED
    BY <1>7, <2>1 DEF NeededParts
<1>9. os = IF CellValNum[f] = Var THEN {o} ELSE {}
  BY <1>8
<1>10. ws = IF f \in Nullable THEN {w} ELSE {}
  BY <1>8
<1>11. /\ "offsets" \in v.own \/ Uniform(v.cells, v.width)
       /\ "validity" \in v.own \/ v.nulls = {}
  BY DEF IsValue, Uniform
<1> HIDE DEF padded, o, w, os, ws
<1>12. Made(Input(padded, os, ws), f, padded, o, w)
  BY <1>4, <1>6, <1>9, <1>10, InputMade
<1> QED
  BY <1>2, <1>4, <1>5, <1>8, <1>11, <1>12 DEF padded, data, o, w, NullsFit

-----------------------------------------------------------------------------
(***************************************************************************)
(* What the C library reads of it.                                         *)
(***************************************************************************)

\* The records of cells which are v's own.
Shown(v) == [i \in DOMAIN v.cells |-> IF i \in v.nulls THEN Null ELSE v.cells[i]]

LEMMA RecordsShown ==
    ASSUME NEW v, IsValue(v), NEW f \in Fields, NullsFit(v, f), NEW in, CellsIn(in, f) = v.cells,
           f \in Nullable => in["validity"] = ValidityOf(v)
    PROVE  RecordsIn(in, f) = Shown(v)
<1>1. ASSUME NEW i \in DOMAIN v.cells
      PROVE  (IF f \in Nullable /\ in["validity"][i] = 0 THEN Null ELSE v.cells[i])
                = (IF i \in v.nulls THEN Null ELSE v.cells[i])
  <2>1. CASE f \in Nullable
    <3>1. in["validity"][i] = IF i \in v.nulls THEN 0 ELSE 1
      BY <2>1 DEF ValidityOf
    <3> QED
      BY <2>1, <3>1
  <2>2. CASE f \notin Nullable
    BY <2>2 DEF NullsFit
  <2> QED
    BY <2>1, <2>2
<1> QED
  BY <1>1, Zenon DEF RecordsIn, Shown

LEMMA DivisionIs ==
    ASSUME NEW len \in Nat, NEW k \in Nat \ {0}
    PROVE  len \div k \in Nat /\ len % k = len - k * (len \div k)
OBVIOUS

\* Whole cells of k values.
LEMMA CountOf ==
    ASSUME NEW len \in Nat, NEW k \in Nat \ {0}, NEW count, len % k = 0, len \div k = count
    PROVE  count \in Nat /\ len = count * k
<1>1. count \in Nat /\ 0 = len - k * count
  BY DivisionIs, Zenon
<1> QED
  BY ONLY <1>1, len \in Nat, k \in Nat

(***************************************************************************)
(* Values which a provider accepts although the C library reads count      *)
(* cells of the field in them that are not theirs: the offsets of empty    *)
(* cells of a fixed size lack the last one; the values around a slice fill *)
(* up the missing cells, and so does the memory beyond a buffer; and the   *)
(* cells of buffers may have another size than the field's.                *)
(***************************************************************************)
Misread(v, f, count) ==
    \/ /\ v.kind = "fixed_size" /\ CellValNum[f] = Var /\ f \notin Nullable
       /\ v.width = 0 /\ Len(v.cells) = count + 1
    \/ /\ v.kind = "list" /\ CellValNum[f] # Var /\ f \notin Nullable
       /\ v.before # <<>> \/ v.after # <<>>
       /\ Len(ValuesOf(v)) = count * CellValNum[f]
    \/ /\ v.kind = "buffers" /\ CellValNum[f] # Var
       /\ BufferSize = count * CellValNum[f]
       /\ \/ f \notin Nullable /\ Len(ValuesOf(v)) # BufferSize
          \/ v.width # CellValNum[f] /\ (f \in Nullable => Len(v.cells) = count)

\* If the C library reads count cells, it reads the records of the value.
Right(in, v, f, count) ==
    Readable(in, f) /\ Len(CellsIn(in, f)) = count => RecordsIn(in, f) = RecordsOf(v, f)

\* Cells that carry their lengths are read by them.
LEMMA VarRight ==
    ASSUME NEW v, IsValue(v), NEW f \in Fields, CellValNum[f] = Var, NullsFit(v, f), NEW in,
           Made(in, f, ValuesOf(v), OffsetsFrom(Len(v.before), v.cells), ValidityOf(v))
    PROVE  /\ CellsIn(in, f) = v.cells
           /\ RecordsIn(in, f) = Shown(v)
           /\ v.after = <<>> => Readable(in, f)
<1>1. v.cells \in Cells /\ v.before \in Seq(Nat) /\ v.after \in Seq(Nat)
  BY MemoryOf
<1>2. /\ in["data"] = v.before \o FlattenSeq(v.cells) \o v.after
      /\ in["offsets"] = OffsetsFrom(Len(v.before), v.cells)
      /\ f \in Nullable => in["validity"] = ValidityOf(v)
      /\ NeededParts(f) = DOMAIN in
  BY DEF Made, ValuesOf
<1>3. /\ in["offsets"] \in Seq(Nat) /\ in["offsets"] # <<>>
      /\ ReadOffsets(in) = v.cells
      /\ Len(in["data"]) = Last(in["offsets"]) + Len(v.after)
  BY <1>1, <1>2, ByOffsets
<1>4. CellsIn(in, f) = v.cells
  BY <1>3 DEF CellsIn
<1>5. RecordsIn(in, f) = Shown(v)
  BY <1>2, <1>4, RecordsShown
<1>6. v.after = <<>> => Readable(in, f)
  <2> SUFFICES ASSUME v.after = <<>> PROVE Readable(in, f)
    OBVIOUS
  <2>1. Len(in["offsets"]) \in Nat \ {0} /\ Last(in["offsets"]) \in Nat
    <3> DEFINE o == in["offsets"]
    <3>1. o \in Seq(Nat) /\ o # <<>>
      BY <1>3
    <3> HIDE DEF o
    <3>2. Len(o) \in Nat \ {0} /\ o[Len(o)] \in Nat
      BY <3>1
    <3> QED
      BY <3>2 DEF Last, o
  <2>2. Last(in["offsets"]) = Len(in["data"])
    BY <1>3, <2>1
  <2>3. f \in Nullable => Len(in["validity"]) = Len(CellsIn(in, f))
    BY <1>2, <1>4, ValidityMade
  <2> QED
    BY <1>2, <1>3, <2>2, <2>3 DEF Readable
<1> QED
  BY <1>4, <1>5, <1>6

\* Cells of as many values as the field has are read by their number.
LEMMA FixedRight ==
    ASSUME NEW v, IsValue(v), NEW f \in Fields, CellValNum[f] # Var,
           SizesFit(v, f), NullsFit(v, f), v.before = <<>>, v.after = <<>>, NEW in, NEW o,
           Made(in, f, ValuesOf(v), o, ValidityOf(v))
    PROVE  /\ CellsIn(in, f) = v.cells
           /\ RecordsIn(in, f) = Shown(v)
           /\ Readable(in, f)
<1> DEFINE k == CellValNum[f]
<1>1. v.cells \in Cells
  BY MemoryOf
<1>2. k \in Nat \ {0} /\ Uniform(v.cells, k)
  BY SchemaAssumption DEF Var, SizesFit
<1>3. /\ in["data"] = <<>> \o FlattenSeq(v.cells) \o <<>>
      /\ f \in Nullable => in["validity"] = ValidityOf(v)
      /\ NeededParts(f) = DOMAIN in
  BY DEF Made, ValuesOf
<1>4. Len(in["data"]) % k = 0 /\ ReadFixed(in, k) = v.cells
  <2> HIDE DEF k
  <2> QED
    BY <1>1, <1>2, <1>3, ByNumber
<1>5. CellsIn(in, f) = v.cells
  BY <1>4 DEF CellsIn
<1>6. RecordsIn(in, f) = Shown(v)
  BY <1>3, <1>5, RecordsShown
<1>7. f \in Nullable => Len(in["validity"]) = Len(CellsIn(in, f))
  BY <1>3, <1>5, ValidityMade
<1> QED
  BY <1>3, <1>4, <1>5, <1>6, <1>7 DEF Readable

LEMMA ListRight ==
    ASSUME NEW v, IsValue(v), v.kind = "list", NEW f \in Fields, NEW count \in Nat,
           ~Misread(v, f, count), NEW in \in ListInput(v, f)
    PROVE  Right(in, v, f, count)
<1>1. /\ Made(in, f, ValuesOf(v), OffsetsFrom(Len(v.before), v.cells), ValidityOf(v))
      /\ SizesFit(v, f) /\ NullsFit(v, f)
  BY ListMade
<1>2. RecordsOf(v, f) = Shown(v)
  BY DEF RecordsOf, Shown
<1>3. CASE CellValNum[f] = Var
  BY <1>1, <1>2, <1>3, VarRight DEF Right
<1>4. CASE CellValNum[f] # Var /\ v.before = <<>> /\ v.after = <<>>
  BY <1>1, <1>2, <1>4, FixedRight DEF Right
<1>5. CASE CellValNum[f] # Var /\ (v.before # <<>> \/ v.after # <<>>)
  <2> DEFINE k == CellValNum[f]
             data == ValuesOf(v)
             n == Len(v.cells)
  <2>. SUFFICES ASSUME Readable(in, f), Len(CellsIn(in, f)) = count PROVE FALSE
    BY DEF Right
  <2>1. k \in Nat \ {0}
    BY <1>5, SchemaAssumption DEF Var
  <2>2. /\ v.cells \in Cells /\ n \in Nat /\ v.before \in Seq(Nat) /\ v.after \in Seq(Nat)
        /\ data \in Seq(Nat) /\ Len(data) \in Nat
        /\ Len(data) = Ends(Len(v.before), v.cells)[n] + Len(v.after)
    BY MemoryOf
  <2>3. Len(v.before) \in Nat /\ Len(v.after) \in Nat /\ Len(v.before) + Len(v.after) # 0
    <3>1. v.before # <<>> => Len(v.before) \in Nat \ {0}
      BY <2>2, EmptySeq
    <3>2. v.after # <<>> => Len(v.after) \in Nat \ {0}
      BY <2>2, EmptySeq
    <3>3. Len(v.before) \in Nat /\ Len(v.after) \in Nat
      BY <2>2
    <3> DEFINE a == Len(v.before)
               b == Len(v.after)
    <3>4. a \in Nat \ {0} \/ b \in Nat \ {0}
      BY <1>5, <3>1, <3>2, Zenon
    <3>5. a \in Nat /\ b \in Nat
      BY <3>3
    <3> HIDE DEF a, b
    <3>6. a + b # 0
      BY <3>4, <3>5
    <3> QED
      BY <3>5, <3>6 DEF a, b
  <2>4. in["data"] = data /\ (f \in Nullable => in["validity"] = ValidityOf(v))
    BY <1>1 DEF Made
  <2>5. Len(data) % k = 0 /\ (f \in Nullable => Len(in["validity"]) = count)
    BY <1>5, <2>4 DEF Readable
  <2>6. Len(data) \div k = count
    <3>1. Len(data) \div k \in Nat
      BY <2>1, <2>2, DivisionIs
    <3>2. CellsIn(in, f) = [i \in 1..Len(data) \div k |-> SubSeq(data, (i - 1) * k + 1, i * k)]
      BY <1>5, <2>4 DEF CellsIn, ReadFixed
    <3> QED
      BY <3>1, <3>2
  <2> HIDE DEF k, data, n
  <2>7. Len(data) = count * k
    BY <2>1, <2>2, <2>5, <2>6, CountOf
  <2>8. Len(data) = Len(v.before) + n * k + Len(v.after)
    <3>1. Uniform(v.cells, k)
      BY <1>1, <1>5 DEF SizesFit, k
    <3>2. \A i \in 0..n : Ends(Len(v.before), v.cells)[i] = Len(v.before) + i * k
      BY <2>1, <2>2, <2>3, <3>1, UniformEnds DEF n
    <3> QED
      BY <2>2, <3>2
  <2>9. CASE f \in Nullable
    <3>1. n = count
      BY <2>4, <2>5, <2>9, ValidityMade DEF n
    <3> DEFINE m == n * k
    <3>2. m \in Nat
      BY <2>1, <2>2
    <3>3. m = Len(v.before) + m + Len(v.after)
      BY <2>7, <2>8, <3>1
    <3> HIDE DEF m
    <3> DEFINE a == Len(v.before)
               b == Len(v.after)
    <3>4. a \in Nat /\ b \in Nat /\ a + b # 0 /\ m = a + m + b
      BY <2>3, <3>3
    <3> HIDE DEF a, b
    <3> QED
      BY <3>2, <3>4
  <2>10. CASE f \notin Nullable
    BY <1>5, <2>7, <2>10 DEF Misread, k, data
  <2> QED
    BY <2>9, <2>10
<1> QED
  BY <1>3, <1>4, <1>5

LEMMA NestedRight ==
    ASSUME NEW v, IsValue(v), v.kind = "nested", NEW f \in Fields, NEW in \in NestedInput(v, f)
    PROVE  RecordsIn(in, f) = RecordsOf(v, f)
<1>1. /\ Made(in, f, ValuesOf(v), OffsetsFrom(Len(v.before), v.cells), ValidityOf(v))
      /\ SizesFit(v, f) /\ NullsFit(v, f)
  BY NestedMade
<1>2. RecordsOf(v, f) = Shown(v)
  BY DEF RecordsOf, Shown
<1>3. v.before = <<>> /\ v.after = <<>>
  BY DEF IsValue
<1>4. CASE CellValNum[f] = Var
  BY <1>1, <1>2, <1>4, VarRight
<1>5. CASE CellValNum[f] # Var
  BY <1>1, <1>2, <1>3, <1>5, FixedRight
<1> QED
  BY <1>4, <1>5

\* A flat row of values has the cells that the C library reads in it.
LEMMA RowRecords ==
    ASSUME NEW v, IsValue(v), v.kind \in {"slice", "primitive"}, NEW f \in Fields,
           CellValNum[f] # Var, NEW in, in["data"] = ValuesOf(v)
    PROVE  RecordsOf(v, f) = [i \in DOMAIN CellsIn(in, f) |->
                                 IF i \in v.nulls THEN Null ELSE CellsIn(in, f)[i]]
<1> DEFINE row == [p \in {"data"} |-> ValuesOf(v)]
<1>1. row["data"] = in["data"]
  OBVIOUS
<1>2. ReadFixed(row, CellValNum[f]) = ReadFixed(in, CellValNum[f])
  BY <1>1 DEF ReadFixed
<1>3. CellsIn(in, f) = ReadFixed(row, CellValNum[f])
  BY <1>2 DEF CellsIn
<1> QED
  BY <1>3 DEF RecordsOf

LEMMA SliceRight ==
    ASSUME NEW v, IsValue(v), v.kind = "slice", NEW f \in Fields, CellValNum[f] # Var,
           NEW in \in SliceInput(v, f), Readable(in, f)
    PROVE  RecordsIn(in, f) = RecordsOf(v, f)
<1> DEFINE cells == CellsIn(in, f)
           n == Len(ValuesOf(v))
<1>1. /\ in["data"] = ValuesOf(v)
      /\ f \in Nullable => in["validity"] = AllValid(n)
  BY SliceMade DEF Made
<1>2. RecordsOf(v, f) = [i \in DOMAIN cells |-> IF i \in v.nulls THEN Null ELSE cells[i]]
  BY <1>1, RowRecords
<1>3. v.nulls = {}
  BY DEF IsValue
<1>4. n \in Nat /\ CellValNum[f] \in Nat \ {0}
  BY MemoryOf, SchemaAssumption DEF Var
<1>5. n \div CellValNum[f] \in Nat
  BY <1>4, DivisionIs
<1>6. DOMAIN cells = 1..Len(cells)
  <2>1. cells = [i \in 1..n \div CellValNum[f] |->
                   SubSeq(ValuesOf(v), (i - 1) * CellValNum[f] + 1, i * CellValNum[f])]
    BY <1>1 DEF CellsIn, ReadFixed
  <2> QED
    BY <1>5, <2>1
<1>7. f \in Nullable => Len(AllValid(n)) = Len(cells)
  BY <1>1 DEF Readable
<1>8. Len(AllValid(n)) = n /\ \A i \in 1..n : AllValid(n)[i] # 0
  BY <1>4 DEF AllValid
<1> HIDE DEF cells, n
<1>9. ASSUME NEW i \in DOMAIN cells PROVE ~(f \in Nullable /\ in["validity"][i] = 0)
  BY <1>1, <1>6, <1>7, <1>8
<1>10. RecordsIn(in, f) = [i \in DOMAIN cells |-> cells[i]]
  BY <1>9, Zenon DEF RecordsIn, cells
<1> QED
  BY <1>2, <1>3, <1>10

LEMMA PrimitiveRight ==
    ASSUME NEW v, IsValue(v), v.kind = "primitive", NEW f \in Fields,
           CellValNum[f] = 1 \/ f \notin Nullable, NEW in \in PrimitiveInput(v, f)
    PROVE  /\ CellValNum[f] = 1 => /\ RecordsIn(in, f) = RecordsOf(v, f)
                                   /\ Readable(in, f)
           /\ CellValNum[f] # 1 => ~Readable(in, f)
<1>1. /\ Made(in, f, ValuesOf(v), <<>>, ValidityOf(v)) /\ NullsFit(v, f)
      /\ CellValNum[f] # Var
      /\ CellValNum[f] # 1 => Len(ValuesOf(v)) % CellValNum[f] # 0
  BY PrimitiveMade
<1>2. CellValNum[f] # 1 => ~Readable(in, f)
  BY <1>1 DEF Made, Readable
<1>3. CASE CellValNum[f] = 1
  <2>1. SizesFit(v, f) /\ v.before = <<>> /\ v.after = <<>>
    BY <1>3 DEF IsValue, SizesFit, Uniform
  <2>2. CellsIn(in, f) = v.cells /\ RecordsIn(in, f) = Shown(v) /\ Readable(in, f)
    BY <1>1, <2>1, FixedRight
  <2>3. RecordsOf(v, f) = Shown(v)
    <3>1. in["data"] = ValuesOf(v)
      BY <1>1 DEF Made
    <3> QED
      BY <1>1, <2>2, <3>1, RowRecords DEF Shown
  <2> QED
    BY <1>3, <2>2, <2>3
<1> QED
  BY <1>2, <1>3

LEMMA FixedSizeRight ==
    ASSUME NEW v, IsValue(v), v.kind = "fixed_size", NEW f \in Fields, NEW count \in Nat,
           ~Misread(v, f, count), NEW in \in FixedSizeInput(v, f)
    PROVE  /\ Right(in, v, f, count)
           /\ CellValNum[f] # Var => Readable(in, f) /\ RecordsIn(in, f) = RecordsOf(v, f)
<1> DEFINE n == Len(v.cells)
           o == [i \in 1..n |-> (i - 1) * v.width]
<1>1. /\ Made(in, f, ValuesOf(v), o, ValidityOf(v)) /\ NullsFit(v, f)
      /\ CellValNum[f] # Var => v.width = CellValNum[f]
  BY FixedSizeMade
<1>2. v.before = <<>> /\ v.after = <<>> /\ Uniform(v.cells, v.width) /\ v.width \in Nat
  BY DEF IsValue, Uniform
<1>3. RecordsOf(v, f) = Shown(v)
  BY DEF RecordsOf, Shown
<1>4. CASE CellValNum[f] # Var
  <2>1. SizesFit(v, f)
    BY <1>1, <1>2, <1>4 DEF SizesFit
  <2> HIDE DEF o
  <2>2. Readable(in, f) /\ RecordsIn(in, f) = Shown(v)
    BY <1>1, <1>2, <1>4, <2>1, FixedRight
  <2> QED
    BY <1>3, <1>4, <2>2 DEF Right
<1>5. CASE CellValNum[f] = Var
  <2>. SUFFICES ASSUME Readable(in, f), Len(CellsIn(in, f)) = count PROVE FALSE
    BY <1>5 DEF Right
  <2>1. /\ in["data"] = ValuesOf(v) /\ in["offsets"] = o
        /\ f \in Nullable => in["validity"] = ValidityOf(v)
    BY <1>1, <1>5 DEF Made
  <2>2. o # <<>> /\ Last(o) = Len(ValuesOf(v)) /\ (f \in Nullable => Len(ValidityOf(v)) = count)
    BY <1>5, <2>1 DEF Readable
  <2>3. n \in Nat /\ v.cells \in Cells
    BY MemoryOf
  <2>4. Len(o) = n
    BY <2>3
  <2>5. n # 0
    BY <2>2
  <2>6. Last(o) = (n - 1) * v.width
    BY <2>3, <2>4, <2>5 DEF Last
  <2>7. Len(ValuesOf(v)) = n * v.width
    <3>1. \A i \in 0..n : Ends(0, v.cells)[i] = 0 + i * v.width
      BY <1>2, <2>3, UniformEnds
    <3>2. Len(ValuesOf(v)) = Ends(0, v.cells)[n] + 0
      BY <1>2, MemoryOf
    <3>3. n * v.width \in Nat
      BY <1>2, <2>3
    <3> HIDE DEF n
    <3> QED
      BY <2>3, <3>1, <3>2, <3>3
  <2>8. v.width = 0
    <3> HIDE DEF n, o
    <3>1. (n - 1) * v.width = n * v.width
      BY <2>2, <2>6, <2>7
    <3>2. (n - 1) * v.width = n * v.width - v.width
      BY <1>2, <2>3
    <3>3. n * v.width \in Nat
      BY <1>2, <2>3
    <3> QED
      BY <1>2, <3>1, <3>2, <3>3
  <2>9. count = n - 1
    <3>1. CellsIn(in, f) = [i \in 1..n - 1 |-> SubSeq(in["data"], o[i] + 1, o[i + 1])]
      BY <1>5, <2>1, <2>4 DEF CellsIn, ReadOffsets
    <3>2. n - 1 \in Nat
      BY <2>3, <2>5
    <3> QED
      BY <3>1, <3>2
  <2>10. f \notin Nullable
    BY <2>2, <2>3, <2>9, ValidityMade
  <2> QED
    BY <1>5, <2>3, <2>8, <2>9, <2>10 DEF Misread
<1> QED
  BY <1>4, <1>5

LEMMA BuffersRight ==
    ASSUME NEW v, IsValue(v), v.kind = "buffers", NEW f \in Fields, NEW count \in Nat,
           ~Misread(v, f, count), NEW in \in BuffersInput(v)
    PROVE  Right(in, v, f, count)
<1> DEFINE n == Len(v.cells)
           k == CellValNum[f]
           o == OffsetsFrom(0, v.cells)
           data == ValuesOf(v)
<1>. SUFFICES ASSUME Readable(in, f), Len(CellsIn(in, f)) = count
              PROVE  RecordsIn(in, f) = RecordsOf(v, f)
  BY DEF Right
<1>1. /\ Made(in, f, AsEnum(v), o, ValidityOf(v)) /\ NullsFit(v, f)
      /\ k # Var => Uniform(v.cells, v.width)
      /\ Len(AsEnum(v)) = BufferSize
      /\ Len(data) = BufferSize => AsEnum(v) = data
  <2>1. DOMAIN in = NeededParts(f)
    BY DEF Readable
  <2> QED
    BY <2>1, BuffersMade
<1>2. v.before = <<>> /\ v.after = <<>> /\ Len(v.before) = 0
  BY DEF IsValue
<1>3. RecordsOf(v, f) = Shown(v)
  BY DEF RecordsOf, Shown
<1>4. in["data"] = AsEnum(v) /\ (f \in Nullable => in["validity"] = ValidityOf(v))
      /\ (k = Var => in["offsets"] = o)
  BY <1>1 DEF Made
<1>5. v.cells \in Cells /\ n \in Nat /\ data \in Seq(Nat) /\ Len(data) \in Nat
  BY MemoryOf
<1>6. <<>> \in Seq(Nat) /\ Len(<<>>) = 0
  OBVIOUS
<1> DEFINE own == [p \in {"data", "offsets"} |-> IF p = "data" THEN data ELSE o]
<1>7. own["data"] = <<>> \o FlattenSeq(v.cells) \o <<>> /\ own["offsets"] = OffsetsFrom(Len(<<>>), v.cells)
  BY <1>2, <1>6 DEF ValuesOf
<1>8. CASE k = Var
  <2>1. Last(o) = BufferSize
    BY <1>1, <1>4, <1>8 DEF Readable
  <2>2. Len(own["data"]) = Last(own["offsets"]) + 0
    <3> HIDE DEF own
    <3> QED
      BY <1>5, <1>6, <1>7, ByOffsets
  <2>3. Len(data) = BufferSize
    BY <2>1, <2>2, SchemaAssumption
  <2>4. Made(in, f, ValuesOf(v), OffsetsFrom(Len(v.before), v.cells), ValidityOf(v))
    BY <1>1, <1>2, <2>3
  <2> QED
    BY <1>1, <1>3, <1>8, <2>4, VarRight
<1>9. CASE k # Var
  <2>1. k \in Nat \ {0} /\ BufferSize \in Nat
    BY <1>9, SchemaAssumption DEF Var
  <2>2. BufferSize % k = 0 /\ (f \in Nullable => Len(ValidityOf(v)) = count)
    BY <1>1, <1>4, <1>9 DEF Readable
  <2>3. BufferSize \div k = count
    <3>1. BufferSize \div k \in Nat
      BY <2>1, DivisionIs
    <3>2. CellsIn(in, f) = [i \in 1..BufferSize \div k |-> SubSeq(in["data"], (i - 1) * k + 1, i * k)]
      BY <1>1, <1>4, <1>9 DEF CellsIn, ReadFixed
    <3> QED
      BY <3>1, <3>2
  <2>4. BufferSize = count * k
    <3> HIDE DEF k
    <3> QED
      BY <2>1, <2>2, <2>3, CountOf
  <2>5. f \in Nullable => n = count
    BY <2>2, ValidityMade
  <2>6. Uniform(v.cells, k)
    BY <1>1, <1>9, <2>4, <2>5 DEF Misread
  <2>7. Len(data) = n * k
    <3> HIDE DEF own, k, n
    <3>1. Len(own["data"]) = Len(v.cells) * k
      BY <1>5, <1>7, <2>1, <2>6, ByNumber
    <3> QED
      BY <3>1 DEF own, n
  <2>8. Len(data) = BufferSize
    <3>1. CASE f \in Nullable
      BY <2>4, <2>5, <2>7, <3>1
    <3>2. CASE f \notin Nullable
      BY <1>9, <2>4, <3>2 DEF Misread
    <3> QED
      BY <3>1, <3>2
  <2>9. Made(in, f, ValuesOf(v), o, ValidityOf(v)) /\ SizesFit(v, f)
    BY <1>1, <2>6, <2>8 DEF SizesFit
  <2> QED
    <3> HIDE DEF o
    <3> QED
      BY <1>1, <1>2, <1>3, <1>9, <2>9, FixedRight
<1> QED
  BY <1>8, <1>9

(***************************************************************************)
(* All providers.                                                          *)
(***************************************************************************)
LEMMA NothingMissing ==
    ASSUME NEW v, NEW f, Missing(v, f) = {}
    PROVE  /\ v.kind = "slice" => CellValNum[f] # Var
           /\ v.kind = "primitive" => CellValNum[f] = 1 \/ f \notin Nullable
BY DEF Missing, NeededParts

LEMMA ByKind ==
    ASSUME NEW v, IsValue(v), NEW f, NEW in \in query_buffers(v, f)
    PROVE  \/ v.kind = "slice" /\ in \in SliceInput(v, f)
           \/ v.kind = "nested" /\ in \in NestedInput(v, f)
           \/ v.kind = "buffers" /\ in \in BuffersInput(v)
           \/ v.kind = "primitive" /\ in \in PrimitiveInput(v, f)
           \/ v.kind = "fixed_size" /\ in \in FixedSizeInput(v, f)
           \/ v.kind = "list" /\ in \in ListInput(v, f)
BY DEF query_buffers, IsValue

\* The parts of an input, but for those that buffers bring in vain.
HasParts(in, v, f) ==
    /\ in = [p \in DOMAIN in |-> in[p]] /\ DOMAIN in \subseteq Parts
    /\ DOMAIN in \cap NeededParts(f) = NeededParts(f) \ Missing(v, f)

LEMMA InputParts ==
    ASSUME NEW data, NEW os, NEW ws, NEW v, NEW f \in Fields,
           CellValNum[f] = Var => (os # {} <=> "offsets" \notin Missing(v, f)),
           f \in Nullable => (ws # {} <=> "validity" \notin Missing(v, f)),
           "data" \notin Missing(v, f)
    PROVE  HasParts(Input(data, os, ws), v, f)
<1> DEFINE in == Input(data, os, ws)
<1>1. DOMAIN in = {"data"} \cup {q \in {"offsets"} : os # {}} \cup {q \in {"validity"} : ws # {}}
  BY DEF Input
<1>2. in = [p \in DOMAIN in |-> in[p]]
  BY DEF Input
<1> HIDE DEF in
<1>3. DOMAIN in \subseteq Parts
  BY <1>1 DEF Parts
<1>4. DOMAIN in \cap NeededParts(f) = NeededParts(f) \ Missing(v, f)
  BY <1>1 DEF NeededParts
<1> QED
  BY <1>2, <1>3, <1>4 DEF HasParts, in

\* An input has the parts its field needs that are not known to be missing.
LEMMA AllParts ==
    ASSUME NEW v, IsValue(v), NEW f \in Fields, NEW in \in query_buffers(v, f)
    PROVE  HasParts(in, v, f)
<1> DEFINE missing == Missing(v, f)
<1>1. /\ "data" \notin missing
      /\ CellValNum[f] = Var =>
           ("offsets" \in missing <=> v.kind = "slice" \/ (v.kind = "buffers" /\ "offsets" \notin v.own))
      /\ f \in Nullable =>
           ("validity" \in missing <=> \/ v.kind = "primitive" /\ CellValNum[f] # 1
                                       \/ v.kind = "buffers" /\ "validity" \notin v.own)
  BY DEF Missing, NeededParts
<1>2. \A n : NoNulls(n, f) # {} <=> f \in Nullable
  BY DEF NoNulls
<1>3. \A b \in validity_buffer(v, f) : b # {} <=> f \in Nullable
  BY DEF validity_buffer
<1>4. \A first, o : o \in cell_structure(first, v.cells, f) => (o # {} <=> CellValNum[f] = Var)
  BY DEF cell_structure
<1> HIDE DEF missing
<1>5. CASE v.kind = "slice" /\ in \in SliceInput(v, f)
  <2>1. in = Input(ValuesOf(v), {}, NoNulls(Len(ValuesOf(v)), f))
    BY <1>5 DEF SliceInput
  <2> QED
    BY <1>1, <1>2, <1>5, <2>1, InputParts DEF missing
<1>6. CASE v.kind = "nested" /\ in \in NestedInput(v, f)
  <2>1. PICK os \in cell_structure(0, v.cells, f) :
           in = Input(ValuesOf(v), os, NoNulls(Len(v.cells), f))
    BY <1>6 DEF NestedInput
  <2> QED
    BY <1>1, <1>2, <1>4, <1>6, <2>1, InputParts DEF missing
<1>7. CASE v.kind = "buffers" /\ in \in BuffersInput(v)
  <2> DEFINE os == {OffsetsFrom(0, v.cells) : p \in v.own \cap {"offsets"}}
             ws == {ValidityOf(v) : p \in v.own \cap {"validity"}}
  <2>1. in = Input(AsEnum(v), os, ws)
    BY <1>7 DEF BuffersInput, AsEnum
  <2>2. (os # {} <=> "offsets" \in v.own) /\ (ws # {} <=> "validity" \in v.own)
    OBVIOUS
  <2> HIDE DEF os, ws
  <2> QED
    BY <1>1, <1>7, <2>1, <2>2, InputParts DEF missing
<1>8. CASE v.kind = "primitive" /\ in \in PrimitiveInput(v, f)
  <2>1. CASE CellValNum[f] = 1
    <3>1. PICK ws \in validity_buffer(v, f) : in = Input(ValuesOf(v), {}, ws)
      BY <1>8, <2>1 DEF PrimitiveInput
    <3> QED
      BY <1>1, <1>3, <1>8, <2>1, <3>1, InputParts DEF missing, Var
  <2>2. CASE CellValNum[f] # 1
    <3>1. in = Input(ValuesOf(v), {}, {}) /\ CellValNum[f] # Var
      BY <1>8, <2>2 DEF PrimitiveInput
    <3> QED
      BY <1>1, <1>8, <2>2, <3>1, InputParts DEF missing
  <2> QED
    BY <2>1, <2>2
<1>9. CASE v.kind = "fixed_size" /\ in \in FixedSizeInput(v, f)
  <2>1. PICK os \in cell_structure_fixed(v.width, Len(v.cells), f), ws \in validity_buffer(v, f) :
           in = Input(ValuesOf(v), os, ws)
    BY <1>9 DEF FixedSizeInput
  <2>2. os # {} <=> CellValNum[f] = Var
    BY <2>1 DEF cell_structure_fixed
  <2> QED
    BY <1>1, <1>3, <1>9, <2>1, <2>2, InputParts DEF missing
<1>10. CASE v.kind = "list" /\ in \in ListInput(v, f)
  <2>1. PICK os \in cell_structure(Len(v.before), v.cells, f), ws \in validity_buffer(v, f) :
           in = Input(ValuesOf(v), os, ws)
    BY <1>10 DEF ListInput
  <2> QED
    BY <1>1, <1>3, <1>4, <1>10, <2>1, InputParts DEF missing
<1> QED
  BY <1>5, <1>6, <1>7, <1>8, <1>9, <1>10, ByKind

\* What there is in the parts, if they are all there.
LEMMA AllComplete ==
    ASSUME NEW v, IsValue(v), v.kind # "buffers", NEW f \in Fields, Missing(v, f) = {},
           NEW in \in query_buffers(v, f)
    PROVE  in \in [NeededParts(f) -> Seq(Int)]
<1>1. SUFFICES \E data, o, w : Made(in, f, data, o, w)
  BY DEF Made
<1>2. CASE v.kind = "slice" /\ in \in SliceInput(v, f)
  BY <1>2, NothingMissing, SliceMade
<1>3. CASE v.kind = "nested" /\ in \in NestedInput(v, f)
  BY <1>3, NestedMade
<1>5. CASE v.kind = "primitive" /\ in \in PrimitiveInput(v, f)
  BY <1>5, NothingMissing, PrimitiveMade
<1>6. CASE v.kind = "fixed_size" /\ in \in FixedSizeInput(v, f)
  BY <1>6, FixedSizeMade
<1>7. CASE v.kind = "list" /\ in \in ListInput(v, f)
  BY <1>7, ListMade
<1> QED
  BY <1>2, <1>3, <1>5, <1>6, <1>7, ByKind

\* What the C library reads in an input is the value's, unless it is Misread.
LEMMA AllRight ==
    ASSUME NEW v, IsValue(v), NEW f \in Fields, NEW count \in Nat, ~Misread(v, f, count),
           NEW in \in query_buffers(v, f)
    PROVE  Right(in, v, f, count)
<1>1. CASE Missing(v, f) # {}
  <2>1. Missing(v, f) \subseteq NeededParts(f)
    BY DEF Missing
  <2>2. DOMAIN in # NeededParts(f)
    BY <1>1, <2>1, AllParts DEF HasParts
  <2> QED
    BY <2>2 DEF Right, Readable
<1>2. CASE Missing(v, f) = {}
  <2>2. CASE v.kind = "slice" /\ in \in SliceInput(v, f)
    <3>1. CellValNum[f] # Var
      BY <1>2, <2>2, NothingMissing
    <3> QED
      BY <2>2, <3>1, SliceRight DEF Right
  <2>3. CASE v.kind = "nested" /\ in \in NestedInput(v, f)
    BY <2>3, NestedRight DEF Right
  <2>4. CASE v.kind = "buffers" /\ in \in BuffersInput(v)
    BY <2>4, BuffersRight
  <2>5. CASE v.kind = "primitive" /\ in \in PrimitiveInput(v, f)
    <3>1. CellValNum[f] = 1 \/ f \notin Nullable
      BY <1>2, <2>5, NothingMissing
    <3> QED
      BY <2>5, <3>1, PrimitiveRight DEF Right
  <2>6. CASE v.kind = "fixed_size" /\ in \in FixedSizeInput(v, f)
    BY <2>6, FixedSizeRight
  <2>7. CASE v.kind = "list" /\ in \in ListInput(v, f)
    BY <2>7, ListRight
  <2> QED
    BY <2>2, <2>3, <2>4, <2>5, <2>6, <2>7, ByKind
<1> QED
  BY <1>1, <1>2

LEMMA RecordsCounted ==
    ASSUME NEW f \in Fields, NEW in \in [NeededParts(f) -> Seq(Int)], Readable(in, f)
    PROVE  Len(RecordsIn(in, f)) = Len(CellsIn(in, f)) /\ Len(CellsIn(in, f)) \in Nat
<1>1. \E m \in Nat : DOMAIN CellsIn(in, f) = 1..m
  <2>1. CASE CellValNum[f] = Var
    <3> DEFINE o == in["offsets"]
    <3>1. o \in Seq(Int) /\ o # <<>>
      BY <2>1 DEF Readable, NeededParts
    <3>2. DOMAIN CellsIn(in, f) = 1..Len(o) - 1
      BY <2>1 DEF CellsIn, ReadOffsets
    <3> HIDE DEF o
    <3>3. Len(o) - 1 \in Nat
      BY <3>1, EmptySeq
    <3> QED
      BY <3>2, <3>3
  <2>2. CASE CellValNum[f] # Var
    <3> DEFINE k == CellValNum[f]
               data == in["data"]
    <3>1. data \in Seq(Int)
      BY DEF NeededParts
    <3>2. k \in Nat \ {0}
      BY <2>2, SchemaAssumption DEF Var
    <3>3. DOMAIN CellsIn(in, f) = 1..Len(data) \div k
      BY <2>2 DEF CellsIn, ReadFixed
    <3> HIDE DEF k, data
    <3>4. Len(data) \in Nat
      BY <3>1
    <3>5. Len(data) \div k \in Nat
      BY <3>2, <3>4, DivisionIs
    <3> QED
      BY <3>3, <3>5
  <2> QED
    BY <2>1, <2>2
<1>2. DOMAIN RecordsIn(in, f) = DOMAIN CellsIn(in, f)
  BY DEF RecordsIn
<1> QED
  BY <1>1, <1>2

\* What a provider accepts can be read, with as many records, unless it is a Misfit.
LEMMA AllReadable ==
    ASSUME NEW v, IsValue(v), NEW f \in Fields, ~Misfit(v, f), NEW in \in query_buffers(v, f)
    PROVE  Readable(in, f) /\ Len(CellsIn(in, f)) = Len(RecordsOf(v, f))
<1>0. Missing(v, f) = {} /\ v.kind # "buffers"
  BY DEF Misfit
<1>1. Readable(in, f)
  <2>2. CASE v.kind = "slice" /\ in \in SliceInput(v, f)
    <3> DEFINE k == CellValNum[f]
               data == ValuesOf(v)
               n == Len(data)
    <3>1. k \in Nat \ {0} /\ k # Var
      BY <1>0, <2>2, NothingMissing, SchemaAssumption DEF Var
    <3>2. Made(in, f, data, <<>>, AllValid(n))
      BY <2>2, <3>1, SliceMade
    <3>3. n \in Nat /\ AllValid(n) = [i \in 1..n |-> 1]
      BY MemoryOf DEF AllValid
    <3>4. n = Len(v.cells)
      <4>1. Uniform(v.cells, 1) /\ Len(v.before) = 0 /\ Len(v.after) = 0
        BY <2>2 DEF IsValue, Uniform
      <4>2. v.cells \in Cells /\ Len(v.cells) \in Nat
        BY MemoryOf
      <4>3. n = Ends(0, v.cells)[Len(v.cells)] + 0
        BY <4>1, MemoryOf
      <4>4. \A i \in 0..Len(v.cells) : Ends(0, v.cells)[i] = 0 + i * 1
        BY <4>1, <4>2, UniformEnds
      <4> QED
        BY <4>2, <4>3, <4>4
    <3>5. n % k = 0 /\ (f \in Nullable => k = 1)
      BY <2>2, <3>1, <3>4 DEF Misfit
    <3>6. f \in Nullable => Len(AllValid(n)) = Len(CellsIn(in, f))
      <4>. SUFFICES ASSUME f \in Nullable PROVE Len(AllValid(n)) = Len(CellsIn(in, f))
        OBVIOUS
      <4>1. in["data"] = data
        BY <3>2 DEF Made
      <4>2. DOMAIN CellsIn(in, f) = 1..n \div k
        BY <3>1, <4>1 DEF CellsIn, ReadFixed
      <4>3. n \div k = n
        <5> HIDE DEF n, k
        <5>1. k = 1
          BY <3>5
        <5>2. n = n * 1 /\ (n * 1) \div 1 = n
          BY <3>3, WholeCells
        <5> QED
          BY <5>1, <5>2
      <4> HIDE DEF n, k
      <4> QED
        BY <3>3, <4>2, <4>3
    <3> QED
      BY <3>1, <3>2, <3>5, <3>6 DEF Made, Readable
  <2>3. CASE v.kind = "nested" /\ in \in NestedInput(v, f)
    <3>1. /\ Made(in, f, ValuesOf(v), OffsetsFrom(Len(v.before), v.cells), ValidityOf(v))
          /\ SizesFit(v, f) /\ NullsFit(v, f)
      BY <2>3, NestedMade
    <3>2. v.before = <<>> /\ v.after = <<>>
      BY <2>3 DEF IsValue
    <3> QED
      BY <3>1, <3>2, VarRight, FixedRight
  <2>5. CASE v.kind = "primitive" /\ in \in PrimitiveInput(v, f)
    <3>1. CellValNum[f] # Var
      BY <2>5 DEF PrimitiveInput, Var
    <3>2. CellValNum[f] = 1
      BY <2>5, <3>1, SchemaAssumption DEF Misfit, Var
    <3> QED
      BY <2>5, <3>2, PrimitiveRight
  <2>6. CASE v.kind = "fixed_size" /\ in \in FixedSizeInput(v, f)
    <3>1. CellValNum[f] # Var
      BY <2>6 DEF Misfit
    <3>2. ~Misread(v, f, 0) /\ 0 \in Nat
      BY <2>6, <3>1 DEF Misread
    <3> QED
      BY <2>6, <3>1, <3>2, FixedSizeRight
  <2>7. CASE v.kind = "list" /\ in \in ListInput(v, f)
    <3>1. /\ Made(in, f, ValuesOf(v), OffsetsFrom(Len(v.before), v.cells), ValidityOf(v))
          /\ SizesFit(v, f) /\ NullsFit(v, f)
      BY <2>7, ListMade
    <3>2. v.after = <<>> /\ (CellValNum[f] # Var => v.before = <<>>)
      BY <2>7 DEF Misfit
    <3> QED
      BY <3>1, <3>2, VarRight, FixedRight
  <2> QED
    BY <2>2, <2>3, <2>5, <2>6, <2>7, ByKind DEF Misfit
<1>2. in \in [NeededParts(f) -> Seq(Int)]
  BY <1>0, AllComplete
<1>3. Len(RecordsIn(in, f)) = Len(CellsIn(in, f)) /\ Len(CellsIn(in, f)) \in Nat
  BY <1>1, <1>2, RecordsCounted
<1>4. ~Misread(v, f, Len(CellsIn(in, f)))
  BY DEF Misfit, Misread
<1>5. RecordsIn(in, f) = RecordsOf(v, f)
  BY <1>1, <1>3, <1>4, AllRight DEF Right
<1> QED
  BY <1>1, <1>3, <1>5
-----------------------------------------------------------------------------
(***************************************************************************)
(* A provider has no effect on which values there are: what records() gets *)
(* for a column is what data() would get.                                  *)
(***************************************************************************)
LEMMA ProvidedByKind ==
    ASSUME NEW item, NEW in \in Provided(item)
    PROVE  in \in query_buffers(item.value, item.field)
BY DEF Provided, batch_buffers

\* The next column and the ones after it.
LEMMA HeadAndTail ==
    ASSUME pending \in Seq(Items), pending # <<>>
    PROVE  /\ Head(pending).field \in Fields
           /\ Head(pending).value \in Values[Head(pending).field]
           /\ Tail(pending) \in Seq(Items)
<1>1. Head(pending) \in Items /\ Tail(pending) \in Seq(Items)
  OBVIOUS
<1>. QED
  BY <1>1 DEF Items

(***************************************************************************)
(* The variables keep their types, and an input stays with the value it    *)
(* was made of: TypeOK is an invariant.                                    *)
(***************************************************************************)
THEOREM WriteTypeCorrect == Spec => []TypeOK
<1>1. Init => TypeOK
  BY WriteAssumption DEF Init, TypeOK, Unregistered, Parts
<1>2. TypeOK /\ [Next]_vars => TypeOK'
  <2>. SUFFICES ASSUME TypeOK, [Next]_vars
                PROVE  TypeOK'
    OBVIOUS
  <2>. USE WriteAssumption
  <2>1. CASE Data
    <3>0. PICK f \in Fields : \E v \in Values[f] : pending' = <<Item(f, v, "data")>>
      BY <2>1 DEF Data
    <3>1. PICK v \in Values[f] : pending' = <<Item(f, v, "data")>>
      BY <3>0
    <3>2. Item(f, v, "data") \in Items
      BY DEF Item, Items
    <3>3. pending' \in Seq(Items) /\ pending' # <<>>
      BY <3>1, <3>2
    <3>. QED
      BY <2>1, <3>3 DEF Data, Idle, TypeOK, Parts
  <2>2. CASE Records
    <3>1. PICK b \in Batches :
            pending' = [i \in DOMAIN b |-> Item(b[i].field, b[i].value, "batch")]
      BY <2>2 DEF Records
    <3>2. b \in Seq(UNION {[field : {f}, value : Values[f]] : f \in Fields}) /\ b # <<>>
      OBVIOUS
    <3>3. ASSUME NEW i \in DOMAIN b
          PROVE  Item(b[i].field, b[i].value, "batch") \in Items
      <4>1. b[i] \in UNION {[field : {f}, value : Values[f]] : f \in Fields}
        BY <3>2
      <4>. QED
        BY <4>1 DEF Item, Items
    <3>4. DOMAIN b = 1..Len(b) /\ Len(b) \in Nat /\ Len(b) # 0
      BY <3>2
    <3>5. pending' \in Seq(Items) /\ Len(pending') = Len(b)
      BY <3>1, <3>3, <3>4
    <3>6. pending' # <<>>
      BY <3>4, <3>5
    <3>. QED
      BY <2>2, <3>5, <3>6 DEF Records, Idle, TypeOK, Parts
  <2>3. CASE Provide
    <3>1. pending # <<>> /\ pending \in Seq(Items) /\ phase = "builder"
      BY <2>3 DEF Provide, TypeOK
    <3>2. /\ Head(pending).field \in Fields
          /\ Head(pending).value \in Values[Head(pending).field]
          /\ Tail(pending) \in Seq(Items)
      BY <3>1, HeadAndTail
    <3>3. PICK in \in Provided(Head(pending)) :
            call' = {[field |-> Head(pending).field, value |-> Head(pending).value,
                      input |-> in, id |-> made + 1]}
      BY <2>3 DEF Provide
    <3>4. in \in query_buffers(Head(pending).value, Head(pending).field)
      BY ProvidedByKind
    <3>5. made \in Nat /\ made' = made + 1 /\ made' # 0
      BY <2>3 DEF Provide, TypeOK
    <3>6. /\ call' # {}
          /\ \A c \in call' : /\ c.field \in Fields /\ c.value \in Values[c.field]
                              /\ c.input \in query_buffers(c.value, c.field)
                              /\ c.id = made' /\ c.id # 0
      BY <3>2, <3>3, <3>4, <3>5
    <3>7. /\ reg' \in [Fields -> [Parts -> 0..made']]
          /\ \A f \in DOMAIN inputs : inputs[f].id \in 1..made'
      BY <2>3, <3>5 DEF Provide, TypeOK
    <3>. QED
      BY <2>3, <3>1, <3>2, <3>5, <3>6, <3>7 DEF Provide, TypeOK, Parts
  <2>4. CASE ProvideFails
    BY <2>4 DEF ProvideFails, FreeQuery, Unregistered, TypeOK, Parts
  <2>5. CASE Register
    <3>1. pc \in Parts /\ pc' \in {"offsets", "validity", "insert"}
      BY <2>5 DEF Register, AfterPart, Parts
    <3>2. reg' \in [Fields -> [Parts -> 0..made]]
      BY <2>5, <3>1 DEF Register, SetBuffer, TypeOK
    <3>. QED
      BY <2>5, <3>1, <3>2 DEF Register, TypeOK, Parts
  <2>6. CASE RegisterFails
    BY <2>6 DEF RegisterFails, FreeQuery, Unregistered, TypeOK, Parts
  <2>15. CASE RegisterRefused
    BY <2>15 DEF RegisterRefused, FreeQuery, Unregistered, TypeOK, Parts
  <2>7. CASE Insert
    <3>1. PICK c \in call : inputs' = Held(c) /\ given' = With(given, c.field, c.value)
      BY <2>7 DEF Insert
    <3>2. /\ c.field \in Fields /\ c.value \in Values[c.field]
          /\ c.input \in query_buffers(c.value, c.field) /\ c.id = made /\ made \in 1..made
      BY DEF TypeOK
    <3>. QED
      BY <2>7, <3>1, <3>2 DEF Insert, Held, With, TypeOK, Parts
  <2>8. CASE Build
    BY <2>8 DEF Build, Idle, TypeOK, Parts
  <2>9. CASE SubmitWrites
    BY <2>9 DEF SubmitWrites, Idle, TypeOK
  <2>10. CASE SubmitRefused
    BY <2>10 DEF SubmitRefused, Idle, TypeOK
  <2>11. CASE SubmitFails
    BY <2>11 DEF SubmitFails, Idle, TypeOK
  <2>12. CASE FinalizeOrDrop
    BY <2>12 DEF FinalizeOrDrop, FreeQuery, Unregistered, TypeOK, Parts
  <2>13. CASE DropInputs
    BY <2>13 DEF DropInputs, TypeOK, Parts
  <2>14. CASE UNCHANGED vars
    BY <2>14 DEF vars, TypeOK, Live
  <2>. QED
    BY <2>1, <2>2, <2>3, <2>4, <2>5, <2>6, <2>7, <2>8, <2>9, <2>10, <2>11, <2>12,
       <2>13, <2>14, <2>15 DEF Next
<1>. QED
  BY <1>1, <1>2, PTL DEF Spec
-----------------------------------------------------------------------------
(***************************************************************************)
(* The inductive invariant.                                                *)
(***************************************************************************)

\* The parts of its input that a call of buffers() has registered so far.
Done == [idle |-> {}, provide |-> {}, data |-> {}, offsets |-> {"data"},
         validity |-> {"data", "offsets"}, insert |-> Parts]

Registered == \A c \in call : \A p \in Done[pc] \cap DOMAIN c.input : reg[c.field][p] = c.id

\* Nothing is registered that the C library has no buffer for: an input with such a
\* part does not get beyond it.
Accepted ==
    /\ \A f \in Fields : \A p \in Parts : reg[f][p] # 0 => p \in NeededParts(f)
    /\ \A f \in DOMAIN inputs : DOMAIN inputs[f].input \subseteq NeededParts(f)

\* A fragment is what the C library reads in the inputs of the query, which
\* nothing changes after the builder is gone.
FragmentIsRead == FragmentIsGiven /\ (outcome = "written" => phase # "builder")

(***************************************************************************)
(* What the providers make of the values on offer: inputs with all parts   *)
(* but those known to be missing, and in which the records of the value    *)
(* are read if any are; the latter is for values that are not Misread.     *)
(***************************************************************************)
NoneMisread == \A f \in Fields : \A v \in Values[f] : ~Misread(v, f, SubarrayCells)

OffersParts ==
    \A f \in Fields : \A v \in Values[f] : \A in \in query_buffers(v, f) : HasParts(in, v, f)

OffersFaithful ==
    \A f \in Fields : \A v \in Values[f] : \A in \in query_buffers(v, f) : Faithful(in, v, f)

\* What a provider accepts can be read, unless it is a Misfit.
OffersReadable ==
    \A f \in Fields : \A v \in Values[f] : \A in \in query_buffers(v, f) :
        ~Misfit(v, f) => Readable(in, f) /\ Len(CellsIn(in, f)) = Len(RecordsOf(v, f))

LEMMA Offers == OffersParts /\ OffersReadable /\ (NoneMisread => OffersFaithful)
<1>1. \A f \in Fields : \A v \in Values[f] : IsValue(v)
  BY WriteAssumption
<1>2. OffersParts
  BY <1>1, AllParts DEF OffersParts
<1>3. OffersReadable
  BY <1>1, AllReadable DEF OffersReadable
<1>4. NoneMisread => OffersFaithful
  BY <1>1, WriteAssumption, AllRight DEF NoneMisread, OffersFaithful, Faithful, Right
<1> QED
  BY <1>2, <1>3, <1>4

\* An input that is held has just the parts that the value brings.
LEMMA HeldComplete ==
    ASSUME TypeOK, Accepted
    PROVE  /\ CompleteInputs
           /\ \A f \in DOMAIN inputs : /\ f \in Fields /\ HasParts(inputs[f].input, given[f], f)
                                      /\ Missing(given[f], f) \subseteq NeededParts(f)
<1>1. ASSUME NEW f \in DOMAIN inputs
      PROVE  f \in Fields /\ HasParts(inputs[f].input, given[f], f)
  BY Offers DEF OffersParts, TypeOK
<1>2. ASSUME NEW f \in DOMAIN inputs
      PROVE  DOMAIN inputs[f].input = NeededParts(f) \ Missing(given[f], f)
  BY <1>1 DEF Accepted, HasParts
<1>3. \A f \in DOMAIN inputs : Missing(given[f], f) \subseteq NeededParts(f)
  BY DEF Missing
<1> QED
  BY <1>1, <1>2, <1>3 DEF CompleteInputs

(***************************************************************************)
(* If all parts of an input are registered, the C library reads just this  *)
(* input, whatever is left over in freed memory.                           *)
(***************************************************************************)
LEMMA MemoryIsInput ==
    ASSUME TypeOK, Accepted, StaleOnlyIfMissing, phase = "query",
           NEW f \in Fields, NEW x, NeededParts(f) \subseteq DOMAIN Memory(f, x)
    PROVE  /\ f \in DOMAIN inputs
           /\ Missing(given[f], f) = {} => Memory(f, x) = inputs[f].input
<1>1. call = {}
  BY DEF TypeOK, Parts
<1>2. \A p \in Parts :
         reg[f][p] # 0 => Live(f, p) \/ (f \in DOMAIN inputs /\ p \in Missing(given[f], f))
  BY <1>1 DEF StaleOnlyIfMissing
<1>3. DOMAIN Memory(f, x) = {q \in Parts : reg[f][q] # 0}
  BY DEF Memory
<1>4. f \in DOMAIN inputs
  BY <1>2, <1>3 DEF NeededParts, Live
<1>5. SUFFICES ASSUME Missing(given[f], f) = {} PROVE Memory(f, x) = inputs[f].input
  BY <1>4
<1>6. {q \in Parts : reg[f][q] # 0} = NeededParts(f)
  BY <1>3 DEF Accepted
<1>7. Memory(f, x) = [p \in NeededParts(f) |-> inputs[f].input[p]]
  BY <1>2, <1>5, <1>6 DEF Memory
<1>8. /\ inputs[f].input = [p \in DOMAIN inputs[f].input |-> inputs[f].input[p]]
      /\ DOMAIN inputs[f].input = NeededParts(f)
  BY <1>4, <1>5, HeldComplete DEF CompleteInputs, HasParts
<1>. QED
  BY <1>7, <1>8

\* Each step of buffers() registers one more part of its input.
LEMMA RegisteredNext ==
    ASSUME TypeOK, TypeOK', Registered, [Next]_vars
    PROVE  Registered'
<1>1. CASE Provide
  BY <1>1 DEF Provide, Registered, Done
<1>2. CASE Register
  <2>1. /\ call' = call /\ pc \in Parts /\ Done[pc'] = Done[pc] \cup {pc}
    BY <1>2 DEF Register, AfterPart, Parts, Done
  <2>2. \A c, d \in call : c = d
    BY DEF TypeOK
  <2>. SUFFICES ASSUME NEW c \in call, NEW p \in (Done[pc] \cup {pc}) \cap DOMAIN c.input
                PROVE  reg'[c.field][p] = c.id
    BY <2>1 DEF Registered
  <2>. QED
    BY <1>2, <2>1, <2>2 DEF Register, SetBuffer, Registered, TypeOK
<1>3. CASE ~(Provide \/ Register)
  BY <1>3 DEF Next, Data, Records, ProvideFails, RegisterRefused, RegisterFails, FreeQuery,
     Insert, Build, SubmitWrites, SubmitRefused, SubmitFails, FinalizeOrDrop, DropInputs, Idle, vars,
     Registered, TypeOK, Done, Parts
<1>. QED
  BY <1>1, <1>2, <1>3

\* A part without a buffer is not registered.
LEMMA AcceptedNext ==
    ASSUME TypeOK, Registered, Accepted, [Next]_vars
    PROVE  Accepted'
<1>1. CASE Register
  <2>1. PICK c \in call : ~Unwanted(c) /\ SetBuffer(c)
    BY <1>1 DEF Register
  <2>2. inputs' = inputs
    BY <1>1 DEF Register
  <2>3. ASSUME NEW f \in Fields, NEW p \in Parts, reg'[f][p] # 0
        PROVE  p \in NeededParts(f)
    <3>1. CASE reg'[f][p] = reg[f][p]
      BY <2>3, <3>1 DEF Accepted
    <3>2. CASE reg'[f][p] # reg[f][p]
      <4>1. f = c.field /\ p = pc /\ p \in DOMAIN c.input
        BY <2>1, <3>2 DEF SetBuffer, TypeOK
      <4>. QED
        BY <2>1, <4>1 DEF Unwanted
    <3>. QED
      BY <3>1, <3>2
  <2>. QED
    BY <2>2, <2>3 DEF Accepted
<1>2. CASE Insert
  <2>1. PICK c \in call : inputs' = Held(c)
    BY <1>2 DEF Insert
  <2>2. /\ c.field \in Fields /\ c.id # 0 /\ pc = "insert" /\ reg' = reg
        /\ HasParts(c.input, c.value, c.field)
    BY <1>2, Offers DEF Insert, TypeOK, OffersParts
  <2>3. \A p \in DOMAIN c.input : p \in Parts /\ reg[c.field][p] # 0
    BY <2>2 DEF Registered, Done, HasParts
  <2>4. DOMAIN c.input \subseteq NeededParts(c.field)
    BY <2>2, <2>3 DEF Accepted
  <2>. QED
    BY <2>1, <2>2, <2>4 DEF Accepted, Held, With
<1>3. CASE ProvideFails \/ RegisterRefused \/ RegisterFails \/ FinalizeOrDrop \/ DropInputs
  BY <1>3 DEF ProvideFails, RegisterRefused, RegisterFails, FinalizeOrDrop, DropInputs,
     FreeQuery, Unregistered, Accepted
<1>4. CASE Data \/ Records \/ Provide \/ Build \/ SubmitWrites \/ SubmitRefused
           \/ SubmitFails \/ UNCHANGED vars
  BY <1>4 DEF Data, Records, Provide, Build, SubmitWrites, SubmitRefused, SubmitFails,
     Idle, vars, Accepted
<1>. QED
  BY <1>1, <1>2, <1>3, <1>4 DEF Next

\* An input is freed only when another has taken over all its pointers that it can.
LEMMA StaleNext ==
    ASSUME TypeOK, Registered, Accepted, StaleOnlyIfMissing, [Next]_vars
    PROVE  StaleOnlyIfMissing'
<1>1. CASE Register
  <2>. SUFFICES ASSUME NEW f \in Fields, NEW p \in Parts, reg'[f][p] # 0
                PROVE  \/ Live(f, p)'
                       \/ \E c \in call : c.field = f /\ c.id = reg'[f][p] /\ p \in DOMAIN c.input
                       \/ f \in DOMAIN inputs /\ p \in Missing(given[f], f)
    BY <1>1 DEF Register, StaleOnlyIfMissing
  <2>1. PICK c \in call : SetBuffer(c)
    BY <1>1 DEF Register
  <2>2. CASE reg'[f][p] = reg[f][p]
    <3>1. phase = "builder"
      BY <1>1 DEF Register, TypeOK, Parts
    <3>. QED
      BY <1>1, <2>2, <3>1 DEF Register, StaleOnlyIfMissing, Live
  <2>3. CASE reg'[f][p] # reg[f][p]
    <3>1. f = c.field /\ p = pc /\ p \in DOMAIN c.input /\ reg'[f][p] = c.id
      BY <2>1, <2>3 DEF SetBuffer, TypeOK
    <3>. QED
      BY <3>1
  <2>. QED
    BY <2>2, <2>3
<1>2. CASE Insert
  <2>1. PICK c \in call : inputs' = Held(c) /\ given' = With(given, c.field, c.value)
    BY <1>2 DEF Insert
  <2>2. /\ c.field \in Fields /\ phase = "builder" /\ pc = "insert"
        /\ \A d \in call : c = d
        /\ HasParts(c.input, c.value, c.field)
        /\ reg' = reg
    BY <1>2, Offers DEF Insert, TypeOK, OffersParts
  <2>3. \A p \in Parts \cap DOMAIN c.input : reg[c.field][p] = c.id
    BY <2>2 DEF Registered, Done
  <2>. SUFFICES ASSUME NEW f \in Fields, NEW p \in Parts, reg[f][p] # 0
                PROVE  Live(f, p)' \/ (f \in DOMAIN inputs' /\ p \in Missing(given'[f], f))
    BY <2>2 DEF StaleOnlyIfMissing
  <2>4. CASE f # c.field
    <3>1. Live(f, p) \/ (f \in DOMAIN inputs /\ p \in Missing(given[f], f))
      BY <2>2, <2>4 DEF StaleOnlyIfMissing
    <3>2. /\ f \in DOMAIN inputs' <=> f \in DOMAIN inputs
          /\ f \in DOMAIN inputs => inputs'[f] = inputs[f] /\ given'[f] = given[f]
      BY <2>1, <2>4 DEF Held, With, TypeOK
    <3>. QED
      BY <2>2, <3>1, <3>2 DEF Live
  <2>5. CASE f = c.field
    <3>1. /\ f \in DOMAIN inputs' /\ given'[f] = c.value
          /\ inputs'[f].id = c.id /\ inputs'[f].input = c.input
      BY <2>1, <2>5 DEF Held, With
    <3>2. CASE p \in DOMAIN c.input
      BY <2>2, <2>3, <2>5, <3>1, <3>2 DEF Live
    \* Had the input that is replaced a part which this one has not, the query
    \* keeps a pointer to it.
    <3>3. CASE p \notin DOMAIN c.input
      BY <2>2, <2>5, <3>1, <3>3 DEF Accepted, HasParts
    <3>. QED
      BY <3>2, <3>3
  <2>. QED
    BY <2>4, <2>5
<1>3. CASE ProvideFails \/ RegisterRefused \/ RegisterFails \/ FinalizeOrDrop \/ DropInputs
  BY <1>3 DEF ProvideFails, RegisterRefused, RegisterFails, FinalizeOrDrop, DropInputs,
     FreeQuery, StaleOnlyIfMissing
<1>4. CASE Data \/ Records \/ Provide \/ Build \/ SubmitWrites \/ SubmitRefused
           \/ SubmitFails \/ UNCHANGED vars
  <2>1. call = {} \/ call' = call
    BY <1>4 DEF Data, Records, Provide, Build, SubmitWrites, SubmitRefused, SubmitFails,
       Idle, vars, TypeOK, Parts
  <2>2. /\ reg' = reg /\ inputs' = inputs /\ given' = given
        /\ phase' \in {"builder", "query"} => phase \in {"builder", "query"}
    BY <1>4 DEF Data, Records, Provide, Build, SubmitWrites, SubmitRefused, SubmitFails,
       Idle, vars
  <2>. QED
    BY <2>1, <2>2 DEF StaleOnlyIfMissing, Live
<1>. QED
  BY <1>1, <1>2, <1>3, <1>4 DEF Next

\* A fragment is read in the live inputs.
LEMMA FragmentNext ==
    ASSUME OffersFaithful, TypeOK, Accepted, StaleOnlyIfMissing, FragmentIsRead, [Next]_vars
    PROVE  FragmentIsRead'
<1>1. CASE SubmitWrites
  <2>1. PICK x \in Leftovers :
          /\ Writable(x)
          /\ fragment' = [f \in Fields |-> RecordsIn(Memory(f, x), f)]
    BY <1>1 DEF SubmitWrites
  <2>2. phase = "query" /\ UNCHANGED <<phase, given>>
    BY <1>1 DEF SubmitWrites, Idle
  <2>3. ASSUME NEW f \in Fields
        PROVE  /\ f \in DOMAIN given
               /\ Missing(given[f], f) = {} => RecordsIn(Memory(f, x), f) = RecordsOf(given[f], f)
    <3>1. Readable(Memory(f, x), f) /\ Len(CellsIn(Memory(f, x), f)) = SubarrayCells
      BY <2>1 DEF Writable
    <3>2. /\ f \in DOMAIN inputs
          /\ Missing(given[f], f) = {} => Memory(f, x) = inputs[f].input
      BY <2>2, <3>1, MemoryIsInput DEF Readable
    <3>3. /\ f \in DOMAIN given /\ given[f] \in Values[f]
          /\ inputs[f].input \in query_buffers(given[f], f)
      BY <3>2 DEF TypeOK
    <3>. QED
      BY <3>1, <3>2, <3>3 DEF OffersFaithful, Faithful
  <2>. QED
    BY <2>1, <2>2, <2>3 DEF FragmentIsRead, FragmentIsGiven
<1>2. CASE Insert
  BY <1>2 DEF Insert, FragmentIsRead, FragmentIsGiven, TypeOK
<1>3. CASE ~(SubmitWrites \/ Insert)
  BY <1>3 DEF Next, Data, Records, Provide, ProvideFails, Register, RegisterRefused,
     RegisterFails, FreeQuery, Build, SubmitRefused, SubmitFails, FinalizeOrDrop, DropInputs,
     Idle, vars, FragmentIsRead, FragmentIsGiven, TypeOK
<1>. QED
  BY <1>1, <1>2, <1>3

\* Nothing is registered or written to begin with.
LEMMA WriteInit == Init => Registered /\ Accepted /\ StaleOnlyIfMissing /\ FragmentIsRead
BY DEF Init, Registered, Accepted, StaleOnlyIfMissing, FragmentIsRead, FragmentIsGiven,
   Unregistered

\* No part is registered that the C library has no buffer for, and every other is.
LEMMA PartsAccepted == Spec => [](Registered /\ Accepted)
<1>1. Init => Registered /\ Accepted
  BY WriteInit
<1>2. TypeOK /\ TypeOK' /\ Registered /\ Accepted /\ [Next]_vars => Registered' /\ Accepted'
  BY RegisteredNext, AcceptedNext
<1>. QED
  BY <1>1, <1>2, WriteTypeCorrect, PTL DEF Spec

(***************************************************************************)
(* An input that the query works with has the parts its field needs, for   *)
(* every value, of whatever parts and cells: the only ones it can lack are *)
(* the offsets of flat rows of Rust values, the validity of Arrow rows of  *)
(* several values per cell, and what query buffers do not have themselves; *)
(* query buffers with a part that the field has no use for do not get as   *)
(* far, and leave no half of an input behind.                              *)
(***************************************************************************)
THEOREM InputsAreComplete == Spec => []CompleteInputs
<1>1. TypeOK /\ Accepted => CompleteInputs
  BY HeldComplete
<1> QED
  BY <1>1, WriteTypeCorrect, PartsAccepted, PTL

(***************************************************************************)
(* Every input that buffers() gets holds the records of the value, in      *)
(* their order, with their lengths and nulls, if the C library reads as    *)
(* many as it needs: whatever the cells are and whichever parts query      *)
(* buffers have, but for a Misread value.                                  *)
(***************************************************************************)
THEOREM InputsAreFaithful == ASSUME NoneMisread PROVE Spec => []ProvidersFaithful
<1>1. TypeOK => ProvidersFaithful
  BY Offers DEF OffersFaithful, TypeOK, ProvidersFaithful
<1> QED
  BY <1>1, WriteTypeCorrect, PTL

(***************************************************************************)
(* Registered memory is alive as long as there is a C query, whatever      *)
(* inputs are replaced and whichever calls fail, except for the parts that *)
(* the last value of a field is known not to bring.                        *)
(***************************************************************************)
THEOREM InputsLiveLongEnough == Spec => []StaleOnlyIfMissing
<1>1. Init => StaleOnlyIfMissing
  BY WriteInit
<1>2. TypeOK /\ Registered /\ Accepted /\ StaleOnlyIfMissing /\ [Next]_vars
        => StaleOnlyIfMissing'
  BY StaleNext
<1>. QED
  BY <1>1, <1>2, WriteTypeCorrect, PartsAccepted, PTL DEF Spec

(***************************************************************************)
(* A fragment holds the values that were given last: no order of calls and *)
(* no failure mixes two inputs of a field, unless the last lacks a part.   *)
(***************************************************************************)
THEOREM FragmentsAreGiven == ASSUME NoneMisread PROVE Spec => []FragmentIsGiven
<1>0. OffersFaithful
  BY Offers
<1>1. Init => FragmentIsRead
  BY WriteInit
<1>2. TypeOK /\ Accepted /\ StaleOnlyIfMissing /\ FragmentIsRead /\ [Next]_vars
        => FragmentIsRead'
  BY <1>0, FragmentNext
<1>3. FragmentIsRead => FragmentIsGiven
  BY DEF FragmentIsRead
<1>. QED
  BY <1>1, <1>2, <1>3, WriteTypeCorrect, PartsAccepted, InputsLiveLongEnough, PTL DEF Spec
-----------------------------------------------------------------------------
(***************************************************************************)
(* The other way round: the C library finds every field it needs.          *)
(***************************************************************************)

\* A field that was given a value has a pointer for each part of its input.
Pointed ==
    phase \in {"builder", "query"} =>
        /\ DOMAIN inputs = DOMAIN given
        /\ \A f \in DOMAIN inputs : \A p \in DOMAIN inputs[f].input : reg[f][p] # 0

RefusedForCause ==
    /\ outcome # "none" => phase # "builder"
    /\ AcceptedIsWritten

\* insert() comes after the last of the set_*_buffer calls.
LEMMA PointedNext ==
    ASSUME TypeOK, Registered, Accepted, Pointed, [Next]_vars
    PROVE  Pointed'
<1>1. CASE Register
  <2>1. PICK c \in call : SetBuffer(c)
    BY <1>1 DEF Register
  <2>2. c.id # 0 /\ c.field \in Fields /\ pc \in Parts
    BY <1>1 DEF Register, TypeOK
  <2>3. \A f \in Fields, p \in Parts : reg[f][p] # 0 => reg'[f][p] # 0
    BY <2>1, <2>2 DEF SetBuffer, TypeOK
  <2>4. /\ UNCHANGED <<phase, inputs, given>>
        /\ \A f \in DOMAIN inputs : f \in Fields /\ DOMAIN inputs[f].input \subseteq Parts
    <3>1. UNCHANGED <<phase, inputs, given>>
      BY <1>1 DEF Register
    <3>2. ASSUME NEW f \in DOMAIN inputs
          PROVE  f \in Fields /\ DOMAIN inputs[f].input \subseteq Parts
      BY HeldComplete DEF HasParts
    <3> QED
      BY <3>1, <3>2
  <2> QED
    BY <2>3, <2>4 DEF Pointed
<1>2. CASE Insert
  <2>1. PICK c \in call : inputs' = Held(c) /\ given' = With(given, c.field, c.value)
    BY <1>2 DEF Insert
  <2>2. /\ c.field \in Fields /\ phase = "builder" /\ pc = "insert" /\ c.id # 0
        /\ DOMAIN c.input \subseteq Parts
    BY <1>2, Offers DEF Insert, TypeOK, OffersParts, HasParts
  <2>3. \A p \in DOMAIN c.input : reg[c.field][p] = c.id
    BY <2>2 DEF Registered, Done
  <2>4. UNCHANGED <<phase, reg>>
    BY <1>2 DEF Insert
  <2>5. DOMAIN inputs' = DOMAIN given'
    BY <2>1, <2>2 DEF Held, With, Pointed
  <2>6. ASSUME NEW f \in DOMAIN inputs', NEW p \in DOMAIN inputs'[f].input
        PROVE  reg[f][p] # 0
    <3>1. CASE f = c.field
      BY <2>1, <2>2, <2>3, <2>6, <3>1 DEF Held, With
    <3>2. CASE f # c.field
      BY <2>1, <2>2, <2>6, <3>2 DEF Held, With, Pointed
    <3> QED
      BY <3>1, <3>2
  <2> QED
    BY <2>4, <2>5, <2>6 DEF Pointed
<1>3. CASE ProvideFails \/ RegisterRefused \/ RegisterFails \/ FinalizeOrDrop \/ DropInputs
  BY <1>3 DEF ProvideFails, RegisterRefused, RegisterFails, FinalizeOrDrop, DropInputs,
     FreeQuery, Pointed
<1>4. CASE Data \/ Records \/ Provide \/ Build \/ SubmitWrites \/ SubmitRefused
           \/ SubmitFails \/ UNCHANGED vars
  BY <1>4 DEF Data, Records, Provide, Build, SubmitWrites, SubmitRefused, SubmitFails,
     Idle, vars, Pointed
<1> QED
  BY <1>1, <1>2, <1>3, <1>4 DEF Next

\* A field that the C library cannot use has been given no value, or the wrong one.
LEMMA UnwritableForCause ==
    ASSUME TypeOK, Accepted, StaleOnlyIfMissing, Pointed, phase = "query", NEW x, ~Writable(x)
    PROVE  \E f \in Fields : \/ f \notin DOMAIN given
                             \/ Len(RecordsOf(given[f], f)) # SubarrayCells
                             \/ Misfit(given[f], f)
<1>1. SUFFICES ASSUME NEW f \in Fields, f \in DOMAIN given, ~Misfit(given[f], f)
               PROVE  /\ Readable(Memory(f, x), f)
                      /\ Len(CellsIn(Memory(f, x), f)) = Len(RecordsOf(given[f], f))
  BY DEF Writable
<1>2. /\ f \in DOMAIN inputs /\ given[f] \in Values[f]
      /\ inputs[f].input \in query_buffers(given[f], f)
  BY <1>1 DEF Pointed, TypeOK
<1>3. DOMAIN inputs[f].input = NeededParts(f) /\ Missing(given[f], f) = {}
  BY <1>1, <1>2, HeldComplete DEF CompleteInputs, Misfit
<1>4. NeededParts(f) \subseteq DOMAIN Memory(f, x)
  <2>1. \A p \in NeededParts(f) : p \in Parts /\ reg[f][p] # 0
    BY <1>2, <1>3 DEF Pointed, NeededParts, Parts
  <2> QED
    BY <2>1 DEF Memory
<1>5. Memory(f, x) = inputs[f].input
  BY <1>3, <1>4, MemoryIsInput
<1> QED
  BY <1>1, <1>2, <1>5, Offers DEF OffersReadable

LEMMA RefusedNext ==
    ASSUME TypeOK, Accepted, StaleOnlyIfMissing, Pointed, RefusedForCause, [Next]_vars
    PROVE  RefusedForCause'
<1>1. CASE SubmitRefused
  <2>1. PICK x \in Leftovers : ~Writable(x)
    BY <1>1 DEF SubmitRefused
  <2>2. phase = "query" /\ UNCHANGED <<phase, given>>
    BY <1>1 DEF SubmitRefused, Idle
  <2> QED
    BY <2>1, <2>2, UnwritableForCause DEF RefusedForCause, AcceptedIsWritten
<1>2. CASE Insert
  <2>1. outcome = "none" /\ outcome' = outcome
    BY <1>2 DEF Insert, RefusedForCause, TypeOK
  <2> QED
    BY <2>1 DEF RefusedForCause, AcceptedIsWritten
<1>3. CASE SubmitWrites \/ SubmitFails
  BY <1>3 DEF SubmitWrites, SubmitFails, Idle, RefusedForCause, AcceptedIsWritten
<1>4. CASE ~(SubmitRefused \/ SubmitWrites \/ SubmitFails \/ Insert)
  BY <1>4 DEF Next, Data, Records, Provide, ProvideFails, Register, RegisterRefused,
     RegisterFails, FreeQuery, Build, FinalizeOrDrop, DropInputs, Idle, vars, RefusedForCause, AcceptedIsWritten, TypeOK
<1> QED
  BY <1>1, <1>2, <1>3, <1>4

(***************************************************************************)
(* A submission is refused only for a field without a value, of another    *)
(* length, or a Misfit: whatever else a provider accepts can be read, no   *)
(* pointer is missing and none is stale.                                   *)
(***************************************************************************)
THEOREM RefusalsHaveCause == Spec => []AcceptedIsWritten
<1>1. Init => Pointed /\ RefusedForCause
  BY DEF Init, Pointed, RefusedForCause, AcceptedIsWritten
<1>2. TypeOK /\ Registered /\ Accepted /\ Pointed /\ [Next]_vars => Pointed'
  BY PointedNext
<1>3. TypeOK /\ Accepted /\ StaleOnlyIfMissing /\ Pointed /\ RefusedForCause /\ [Next]_vars
        => RefusedForCause'
  BY RefusedNext
<1>4. RefusedForCause => AcceptedIsWritten
  BY DEF RefusedForCause
<1> QED
  BY <1>1, <1>2, <1>3, <1>4, WriteTypeCorrect, PartsAccepted, InputsLiveLongEnough, PTL DEF Spec
=============================================================================
