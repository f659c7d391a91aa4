-------------------------- MODULE Shrinking_proofs --------------------------
(***************************************************************************)
(* Proofs about Shrinking: what shrinking reports still fails, keeps the   *)
(* minimum of records and is the one culprit when there is one.            *)
(***************************************************************************)
EXTENDS Shrinking, FiniteSetTheorems, WellFoundedInduction, SequenceTheorems, TLAPS

(***************************************************************************)
(* The invariant.                                                          *)
(***************************************************************************)
Results == {"None", "failed", "passed"}

Trees(n) == [included : Seq(1..n), last : SUBSET Seq(1..n),
             search : {"None", "Explore", "Recur", "Done"}, chunk : Nat, results : Seq(Results)]

\* The test of an input fails on these records, filled up to the minimum.
FailsFilled(x, S) == Fails(x.test, FilledUp(S, x.n, x.min))

\* A level with one of its chunks left out, c from 1.
Without(t, c) == Elements(t.included) \ Elements(Chunk(t, c - 1, num_chunks(t)))

\* The results of a level so far are those of the tests.
Recorded(x, t, upto) ==
    \A c \in 1..upto : t.results[c] = IF FailsFilled(x, Without(t, c)) THEN "failed" ELSE "passed"

AtStart(x, t) ==
    /\ t.included = Ascending(x.n)
    /\ t.results = Nones(Lesser(x.n, ExploreChunks))
    /\ t.chunk = 0

\* The level as a whole fails, and so does every level before it.
AtLevel(x, t) ==
    /\ FailsFilled(x, Elements(t.included))
    /\ t.included = <<>> => t.chunk = 0
    /\ t.included # <<>> => t.chunk < num_chunks(t)
    /\ Recorded(x, t, t.chunk)

\* The last level fails; the new one does when a level in one chunk led to it.
AtRecur(x, t) ==
    /\ \E l \in Seq(1..x.n) : t.last = {l} /\ FailsFilled(x, Elements(l))
    /\ Len(t.results) = 1 => FailsFilled(x, Elements(t.included))

Searched(x, t) ==
    /\ t \in Trees(x.n)
    /\ t.search # "None" => Len(t.results) >= 1
    /\ t.search = "None" => AtStart(x, t)
    /\ t.search = "Explore" => AtLevel(x, t)
    /\ t.search = "Recur" => AtRecur(x, t)
    /\ t.search = "Done" => FailsFilled(x, Elements(t.included))

\* Where the runner can be in a search.
Searching(x, t, r) ==
    /\ t.search = "None" => r \in {"failed", "done"} /\ (r = "done" => x.n = 0)
    /\ t.search = "Explore" => (r = "done" => t.included = <<>>)
    /\ t.search = "Recur" => r # "done"
    /\ r # "giveup"

Cut(x, t) ==
    /\ t \in [bound : Nat, current : Nat]
    /\ t.current <= t.bound /\ t.bound <= x.n
    /\ Fails(x.test, 1..t.bound)

\* What the runner knows of the current value.
Tested ==
    /\ runner \in {"failed", "done"} => Fails(given.test, current)
    /\ runner = "passed" => ~ Fails(given.test, current)

ShrinkInv ==
    /\ given \in Inputs
    /\ runner \in {"failed", "passed", "test", "giveup", "done"}
    /\ IsRecords => Searched(given, tree)
    /\ IsRecords => Searching(given, tree, runner)
    /\ ~ IsRecords => Cut(given, tree)
    /\ Tested

\* One record decides the test.
Culprit(x, k) == \A S \in SUBSET (1..x.n) : Fails(x.test, S) <=> k \in S

Distinct(s) == \A i, j \in DOMAIN s : s[i] = s[j] => i = j

\* Where the search for that record stands: it is in every level, and alone at the end.
Hunt(x, t, k) ==
    /\ Distinct(t.included)
    /\ k \in Elements(t.included)
    /\ Len(t.results) = Lesser(x.n, ExploreChunks)
    /\ t.search = "Done" => Elements(t.included) = {k}

HuntInv ==
    IsRecords /\ given.min = 0 =>
        \A k \in 1..given.n : Culprit(given, k) =>
            Hunt(given, tree, k) /\ (runner = "done" => tree.search = "Done")

-----------------------------------------------------------------------------
(***************************************************************************)
(* The records a mask keeps.                                               *)
(***************************************************************************)
LEMMA InInterval ==
    ASSUME NEW n \in Nat, NEW S \in SUBSET (1..n)
    PROVE  IsFiniteSet(S) /\ Cardinality(S) \in Nat
<1>1. IsFiniteSet(1..n)
  BY FS_Interval
<1>2. IsFiniteSet(S)
  BY <1>1, FS_Subset
<1> QED
  BY <1>2, FS_CardinalityType

LEMMA FilledIn ==
    ASSUME NEW n \in Nat, NEW min \in Nat, NEW mask \in SUBSET (1..n)
    PROVE  /\ FilledUp(mask, n, min) \in SUBSET (1..n)
           /\ mask \subseteq FilledUp(mask, n, min)
           /\ min = 0 => FilledUp(mask, n, min) = mask
<1>1. IsFiniteSet(mask) /\ Cardinality(mask) \in Nat
  BY InInterval
<1>2. min = 0 => min - Cardinality(mask) <= 0
  BY <1>1
<1> QED
  BY <1>2 DEF FilledUp

\* One more record of an interval is outside of the mask, or not.
LEMMA OneMore ==
    ASSUME NEW n \in Nat, NEW mask \in SUBSET (1..n), NEW i \in 1..n
    PROVE  /\ Cardinality((1..i) \ mask) \in Nat
           /\ Cardinality((1..(i - 1)) \ mask) \in Nat
           /\ i \notin mask =>
                 Cardinality((1..i) \ mask) = Cardinality((1..(i - 1)) \ mask) + 1
<1>1. IsFiniteSet(1..i) /\ IsFiniteSet(1..(i - 1))
  BY FS_Interval
<1>2. IsFiniteSet((1..i) \ mask) /\ IsFiniteSet((1..(i - 1)) \ mask)
  BY <1>1, FS_Difference
<1>3. Cardinality((1..i) \ mask) \in Nat /\ Cardinality((1..(i - 1)) \ mask) \in Nat
  BY <1>2, FS_CardinalityType
<1>4. ASSUME i \notin mask
      PROVE  Cardinality((1..i) \ mask) = Cardinality((1..(i - 1)) \ mask) + 1
  <2>1. (1..i) \ mask = ((1..(i - 1)) \ mask) \cup {i}
    BY <1>4
  <2>2. i \notin (1..(i - 1)) \ mask
    OBVIOUS
  <2> QED
    BY <1>2, <2>1, <2>2, FS_AddElement
<1> QED
  BY <1>3, <1>4

\* A mask that is filled up keeps the minimum: the records before the first one that is
\* left out make up for what was lacking.
LEMMA FilledEnough ==
    ASSUME NEW n \in Nat, NEW min \in Nat, min <= n, NEW mask \in SUBSET (1..n)
    PROVE  Cardinality(FilledUp(mask, n, min)) >= min
<1> DEFINE lack == min - Cardinality(mask)
           out(i) == Cardinality((1..i) \ mask)
           fill == {i \in (1..n) \ mask : out(i) <= lack}
           late == {i \in (1..n) \ mask : ~ (out(i) <= lack)}
<1>1. IsFiniteSet(mask) /\ Cardinality(mask) \in Nat
  BY InInterval
<1>2. CASE lack <= 0
  BY <1>1, <1>2 DEF FilledUp
<1>3. ASSUME ~ (lack <= 0) PROVE Cardinality(mask \cup fill) >= min
  <2>1. mask \cup fill \in SUBSET (1..n)
    OBVIOUS
  <2>2. CASE late = {}
    <3>1. mask \cup fill = 1..n
      BY <2>2
    <3>2. Cardinality(1..n) = n
      BY FS_Interval
    <3> QED
      BY <3>1, <3>2
  <2>3. CASE late # {}
    <3>1. PICK i \in late : \A j \in late : ~ (j < i)
      <4>1. IsWellFoundedOn(OpToRel(<, Nat), Nat)
        BY NatLessThanWellFounded
      <4>2. late \subseteq Nat
        OBVIOUS
      <4>3. PICK i \in late : \A j \in late : ~ (<<j, i>> \in OpToRel(<, Nat))
        BY <2>3, <4>1, <4>2, WFMin
      <4> QED
        BY <4>2, <4>3 DEF OpToRel
    <3> DEFINE before == (1..(i - 1)) \ mask
    <3>2. i \in 1..n /\ i \notin mask /\ ~ (out(i) <= lack)
      OBVIOUS
    <3>3. before \subseteq fill
      BY <3>1, <3>2
    <3>4. Cardinality(before) \in Nat /\ out(i) = Cardinality(before) + 1
      BY <3>2, OneMore
    <3>5. Cardinality(before) >= lack
      BY <1>1, <3>2, <3>4
    <3>6. IsFiniteSet(before) /\ IsFiniteSet(mask \cup fill)
      <4>1. before \in SUBSET (1..n)
        OBVIOUS
      <4> HIDE DEF before, fill
      <4> QED
        BY <2>1, <4>1, InInterval
    <3>7. mask \cap before = {}
      OBVIOUS
    <3>8. Cardinality(mask \cup before) = Cardinality(mask) + Cardinality(before)
      <4> HIDE DEF before
      <4>1. Cardinality(mask \cup before)
            = Cardinality(mask) + Cardinality(before) - Cardinality(mask \cap before)
        BY <1>1, <3>6, FS_Union
      <4>2. Cardinality(mask \cap before) = 0
        BY <3>7, FS_EmptySet
      <4> QED
        BY <1>1, <3>4, <4>1, <4>2
    <3>9. mask \cup before \subseteq mask \cup fill
      BY <3>3
    <3>10. Cardinality(mask \cup before) <= Cardinality(mask \cup fill)
      <4> HIDE DEF before, fill
      <4> QED
        BY <3>6, <3>9, FS_Subset
    <3>11. Cardinality(mask \cup fill) \in Nat
      BY <3>6, FS_CardinalityType
    <3> QED
      BY <1>1, <3>4, <3>5, <3>8, <3>10, <3>11
  <2> QED
    BY <2>2, <2>3
<1>4. CASE ~ (lack <= 0)
  <2>1. FilledUp(mask, n, min) = mask \cup fill
    BY <1>4, Zenon DEF FilledUp
  <2> QED
    BY <1>3, <1>4, <2>1
<1> QED
  BY <1>2, <1>4

-----------------------------------------------------------------------------
(***************************************************************************)
(* The chunks of a level.  Chunk c holds the records after Before up to    *)
(* UpTo, and every record is in one chunk.                                 *)
(***************************************************************************)
Before(len, c, n) == c * (len \div n)

UpTo(len, c, n) == IF c + 1 = n THEN len ELSE (c + 1) * (len \div n)

LEMMA Quotient ==
    ASSUME NEW len \in Nat, NEW n \in Nat \ {0}
    PROVE  len \div n \in Nat /\ n * (len \div n) <= len /\ len < (len \div n + 1) * n
OBVIOUS

LEMMA Product ==
    ASSUME NEW a \in Nat, NEW b \in Nat, NEW q \in Nat, a <= b
    PROVE  a * q \in Nat /\ b * q \in Nat /\ a * q <= b * q
OBVIOUS

LEMMA Distributes ==
    ASSUME NEW a \in Nat, NEW q \in Nat
    PROVE  (a + 1) * q = a * q + q
OBVIOUS

LEMMA ChunkSize ==
    ASSUME NEW len \in Nat, NEW n \in 1..len
    PROVE  /\ len \div n \in Nat /\ len \div n >= 1
           /\ n * (len \div n) \in Nat /\ n * (len \div n) <= len
<1> DEFINE q == len \div n
<1>1. n \in Nat \ {0} /\ n \in Nat /\ n <= len
  OBVIOUS
<1>2. q \in Nat /\ n * q <= len /\ len < (q + 1) * n
  BY <1>1, Quotient
<1> HIDE DEF q
<1>3. CASE q = 0
  <2>1. (q + 1) * n = n
    BY <1>1, <1>3
  <2> QED
    BY <1>1, <1>2, <2>1
<1>4. n * q \in Nat
  BY <1>1, <1>2, Product
<1> QED
  BY <1>2, <1>3, <1>4 DEF q

LEMMA ChunkBounds ==
    ASSUME NEW len \in Nat, NEW n \in 1..len, NEW c \in 0..(n - 1)
    PROVE  /\ Before(len, c, n) \in Nat /\ UpTo(len, c, n) \in Nat
           /\ Before(len, c, n) < UpTo(len, c, n)
           /\ UpTo(len, c, n) <= len
<1> DEFINE q == len \div n
<1>1. c \in Nat /\ n \in Nat /\ c + 1 \in Nat /\ c + 1 <= n
  OBVIOUS
<1>2. q \in Nat /\ q >= 1 /\ n * q \in Nat /\ n * q <= len
  BY ChunkSize
<1> HIDE DEF q
<1>3. (c + 1) * q \in Nat /\ (c + 1) * q <= n * q
  BY <1>1, <1>2, Product
<1>4. c * q \in Nat /\ (c + 1) * q = c * q + q
  BY <1>1, <1>2, Product, Distributes
<1> DEFINE a == c * q
           b == (c + 1) * q
           m == n * q
<1>5. /\ Before(len, c, n) = a
      /\ UpTo(len, c, n) = IF c + 1 = n THEN len ELSE b
  BY DEF Before, UpTo, q
<1>6. a \in Nat /\ b \in Nat /\ b = a + q /\ b <= m /\ m <= len /\ m \in Nat
  BY <1>2, <1>3, <1>4
<1> HIDE DEF a, b, m
<1> QED
  BY <1>2, <1>5, <1>6

LEMMA ChunksApart ==
    ASSUME NEW len \in Nat, NEW n \in 1..len, NEW c \in 0..(n - 1), NEW d \in 0..(n - 1), c < d
    PROVE  UpTo(len, c, n) <= Before(len, d, n)
<1> DEFINE q == len \div n
<1>1. c + 1 \in Nat /\ d \in Nat /\ c + 1 <= d /\ c + 1 # n
  OBVIOUS
<1>2. q \in Nat
  BY ChunkSize
<1> HIDE DEF q
<1>3. (c + 1) * q <= d * q
  BY <1>1, <1>2, Product
<1>4. UpTo(len, c, n) = (c + 1) * q /\ Before(len, d, n) = d * q
  BY <1>1 DEF UpTo, Before, q
<1> QED
  BY <1>3, <1>4

LEMMA ChunksCover ==
    ASSUME NEW len \in Nat, NEW n \in 1..len, NEW p \in 1..len
    PROVE  \E c \in 0..(n - 1) : Before(len, c, n) < p /\ p <= UpTo(len, c, n)
<1> DEFINE q == len \div n
           d == (p - 1) \div q
<1>1. q \in Nat \ {0} /\ p - 1 \in Nat
  BY ChunkSize
<1> HIDE DEF q
<1>2. d \in Nat /\ q * d <= p - 1 /\ p - 1 < (d + 1) * q
  BY <1>1, Quotient
<1> HIDE DEF d
<1>3. d * q = q * d
  BY <1>1, <1>2
<1>4. CASE d < n - 1
  <2>1. d \in 0..(n - 1) /\ d + 1 # n
    BY <1>2, <1>4
  <2>2. Before(len, d, n) = d * q /\ UpTo(len, d, n) = (d + 1) * q
    BY <2>1 DEF Before, UpTo, q
  <2>3. Before(len, d, n) < p /\ p <= UpTo(len, d, n)
    <3> DEFINE a == d * q
               b == (d + 1) * q
    <3>1. a \in Nat /\ b \in Nat /\ a <= p - 1 /\ p - 1 < b
      <4>1. d + 1 \in Nat /\ d <= d + 1 /\ q \in Nat
        BY <1>1, <1>2
      <4> QED
        BY <1>2, <1>3, <4>1, Product
    <3> HIDE DEF a, b
    <3>2. a < p /\ p <= b
      BY <3>1
    <3> QED
      BY <2>2, <3>2 DEF a, b
  <2> QED
    BY <2>1, <2>3
<1>5. CASE ~ (d < n - 1)
  <2>1. n - 1 \in Nat /\ n - 1 <= d /\ n - 1 \in 0..(n - 1) /\ q \in Nat
    BY <1>1, <1>2, <1>5
  <2>2. (n - 1) * q \in Nat /\ (n - 1) * q <= d * q /\ d * q \in Nat
    BY <1>2, <2>1, Product
  <2>3. Before(len, n - 1, n) = (n - 1) * q /\ UpTo(len, n - 1, n) = len
    BY <2>1 DEF Before, UpTo, q
  <2>4. Before(len, n - 1, n) < p /\ p <= UpTo(len, n - 1, n)
    <3> DEFINE a == (n - 1) * q
               b == d * q
    <3>1. a \in Nat /\ b \in Nat /\ a <= b /\ b <= p - 1
      BY <1>2, <1>3, <2>2
    <3> HIDE DEF a, b
    <3>2. a < p
      BY <3>1
    <3> QED
      BY <2>3, <3>2 DEF a
  <2> QED
    BY <2>1, <2>4
<1> QED
  BY <1>4, <1>5

LEMMA ChunkIs ==
    ASSUME NEW T, NEW t, t.included \in Seq(T),
           NEW n \in 1..Len(t.included), NEW c \in 0..(n - 1)
    PROVE  LET len == Len(t.included)
               lo  == Before(len, c, n)
               hi  == UpTo(len, c, n)
           IN  /\ Chunk(t, c, n) \in Seq(T)
               /\ Len(Chunk(t, c, n)) = hi - lo
               /\ \A i \in 1..(hi - lo) : Chunk(t, c, n)[i] = t.included[lo + i]
<1> DEFINE s == t.included
           len == Len(s)
           lo == Before(len, c, n)
           hi == UpTo(len, c, n)
<1>1. Chunk(t, c, n) = SubSeq(s, lo + 1, hi)
  BY DEF Chunk, Before, UpTo
<1>2. len \in Nat /\ s \in Seq(T)
  BY LenProperties
<1>3. lo \in Nat /\ hi \in Nat /\ lo < hi /\ hi <= len
  BY <1>2, ChunkBounds
<1> HIDE DEF s, len, lo, hi
<1>4. \A i \in (lo + 1)..hi : s[i] \in T
  <2>1. \A i \in 1..len : s[i] \in T
    BY <1>2, ElementOfSeq DEF len
  <2> QED
    BY <1>2, <1>3, <2>1
<1>5. /\ SubSeq(s, lo + 1, hi) \in Seq(T)
      /\ Len(SubSeq(s, lo + 1, hi)) = hi - lo
      /\ \A i \in 1..(hi - lo) : SubSeq(s, lo + 1, hi)[i] = s[lo + i]
  <2>1. lo + 1 \in Int /\ hi \in Int
    BY <1>3
  <2> DEFINE a == lo + 1
  <2>2. /\ SubSeq(s, a, hi) \in Seq(T)
        /\ Len(SubSeq(s, a, hi)) = IF a <= hi THEN hi - a + 1 ELSE 0
        /\ \A i \in 1..(hi - a + 1) : SubSeq(s, a, hi)[i] = s[a + i - 1]
    <3>1. a \in Int /\ \A i \in a..hi : s[i] \in T
      BY <1>4, <2>1
    <3> HIDE DEF a
    <3> QED
      BY <2>1, <3>1, SubSeqProperties
  <2>3. a <= hi /\ hi - a + 1 = hi - lo /\ \A i \in Int : a + i - 1 = lo + i
    BY <1>3
  <2>4. \A i \in 1..(hi - lo) : SubSeq(s, a, hi)[i] = s[lo + i]
    <3> SUFFICES ASSUME NEW i \in 1..(hi - lo) PROVE SubSeq(s, a, hi)[i] = s[lo + i]
      OBVIOUS
    <3>1. i \in Int /\ i \in 1..(hi - a + 1)
      BY <2>3
    <3>2. SubSeq(s, a, hi)[i] = s[a + i - 1] /\ a + i - 1 = lo + i
      BY <2>2, <2>3, <3>1, Zenon
    <3> QED
      BY ONLY <3>2
  <2> HIDE DEF a
  <2>5. SubSeq(s, a, hi) \in Seq(T) /\ Len(SubSeq(s, a, hi)) = hi - lo
    BY <2>2, <2>3
  <2> QED
    BY <2>4, <2>5 DEF a
<1> QED
  BY <1>1, <1>5 DEF s, len, lo, hi

-----------------------------------------------------------------------------
(***************************************************************************)
(* Induction over an interval, from the least element of a set.            *)
(***************************************************************************)
LEMMA Induction ==
    ASSUME NEW n \in Nat, NEW S, 0 \in S, \A k \in 0..(n - 1) : k \in S => k + 1 \in S
    PROVE  \A k \in 0..n : k \in S
<1> DEFINE bad == {k \in 0..n : k \notin S}
<1>1. SUFFICES ASSUME bad # {} PROVE FALSE
  OBVIOUS
<1>2. IsWellFoundedOn(OpToRel(<, Nat), Nat)
  BY NatLessThanWellFounded
<1>3. bad \subseteq Nat
  OBVIOUS
<1>4. PICK x \in bad : \A y \in bad : ~ (<<y, x>> \in OpToRel(<, Nat))
  BY <1>1, <1>2, <1>3, WFMin
<1>5. \A y \in bad : ~ (y < x)
  BY <1>3, <1>4 DEF OpToRel
<1>6. x \in 0..n /\ x \notin S
  OBVIOUS
<1>7. x - 1 \in 0..(n - 1) /\ (x - 1) + 1 = x
  BY <1>6
<1>8. x - 1 \in S
  BY <1>5, <1>7
<1> QED
  BY <1>6, <1>7, <1>8

(***************************************************************************)
(* A value that goes through n steps.                                      *)
(***************************************************************************)
Runs(f, T, base, step, n) ==
    f \in [0..n -> T] /\ f[0] = base /\ \A i \in 1..n : f[i] = step[i][f[i - 1]]

LEMMA RunsOn ==
    ASSUME NEW n \in Nat, NEW T, NEW base \in T, NEW step \in [1..n -> [T -> T]]
    PROVE  \E f : Runs(f, T, base, step, n)
<1> DEFINE S == {k \in 0..n : \E f : Runs(f, T, base, step, k)}
<1>1. 0 \in S
  <2> DEFINE f == [i \in 0..0 |-> base]
  <2>1. Runs(f, T, base, step, 0)
    BY DEF Runs
  <2> QED
    BY <2>1
<1>2. ASSUME NEW k \in 0..(n - 1), k \in S PROVE k + 1 \in S
  <2>1. PICK f : Runs(f, T, base, step, k)
    BY <1>2
  <2> DEFINE g == [i \in 0..(k + 1) |-> IF i = k + 1 THEN step[k + 1][f[k]] ELSE f[i]]
  <2>2. k + 1 \in 1..n /\ k \in 0..k /\ f[k] \in T /\ step[k + 1] \in [T -> T]
    BY <2>1 DEF Runs
  <2>3. g \in [0..(k + 1) -> T] /\ g[0] = base
    BY <2>1, <2>2 DEF Runs
  <2>4. ASSUME NEW i \in 1..(k + 1) PROVE g[i] = step[i][g[i - 1]]
    <3>1. CASE i = k + 1
      BY <3>1
    <3>2. CASE i # k + 1
      BY <2>1, <3>2 DEF Runs
    <3> QED
      BY <3>1, <3>2
  <2> HIDE DEF g
  <2>5. Runs(g, T, base, step, k + 1)
    BY <2>3, <2>4 DEF Runs
  <2> QED
    BY <2>2, <2>5
<1> HIDE DEF S
<1>3. \A k \in 0..(n - 1) : k \in S => k + 1 \in S
  BY <1>2
<1>4. \A k \in 0..n : k \in S
  BY <1>1, <1>3, Induction
<1>5. n \in S
  BY <1>4
<1> QED
  BY <1>5 DEF S

-----------------------------------------------------------------------------
(***************************************************************************)
(* The records a level needs.                                              *)
(***************************************************************************)
Piece(t, c) == IF t.results[c] = "passed" THEN Chunk(t, c - 1, num_chunks(t)) ELSE <<>>

LEMMA NumChunks ==
    ASSUME NEW T, NEW t, t.included \in Seq(T), t.results \in Seq(Results)
    PROVE  /\ num_chunks(t) \in Nat /\ Len(t.included) \in Nat /\ Len(t.results) \in Nat
           /\ num_chunks(t) <= Len(t.included) /\ num_chunks(t) <= Len(t.results)
           /\ num_chunks(t) = Len(t.included) \/ num_chunks(t) = Len(t.results)
<1>1. Len(t.included) \in Nat /\ Len(t.results) \in Nat
  BY LenProperties
<1> QED
  BY <1>1 DEF num_chunks, Lesser

LEMMA NeededIs ==
    ASSUME NEW T, NEW t, t.included \in Seq(T), t.results \in Seq(Results)
    PROVE  \E kept \in [0..num_chunks(t) -> Seq(T)] :
              /\ kept[0] = <<>> /\ Needed(t) = kept[num_chunks(t)]
              /\ \A c \in 1..num_chunks(t) : kept[c] = kept[c - 1] \o Piece(t, c)
<1> DEFINE n == num_chunks(t)
           step == [c \in 1..n |-> [s \in Seq(T) |-> s \o Piece(t, c)]]
           Is(f) == f = [c \in 0..n |-> IF c = 0 THEN <<>> ELSE f[c - 1] \o Piece(t, c)]
           e == CHOOSE f : Is(f)
<1>1. n \in Nat /\ n <= Len(t.included)
  BY NumChunks
<1>2. ASSUME NEW c \in 1..n PROVE Piece(t, c) \in Seq(T)
  <2>1. n \in 1..Len(t.included) /\ c - 1 \in 0..(n - 1)
    BY <1>1, NumChunks
  <2>2. Chunk(t, c - 1, n) \in Seq(T)
    BY <2>1, ChunkIs
  <2>3. <<>> \in Seq(T)
    OBVIOUS
  <2> QED
    BY <2>2, <2>3, Zenon DEF Piece
<1>3. Needed(t) = e[n]
  BY Zenon DEF Needed, Piece
<1> HIDE DEF n
<1>4. step \in [1..n -> [Seq(T) -> Seq(T)]] /\ <<>> \in Seq(T)
  BY <1>2
<1>5. PICK kept : Runs(kept, Seq(T), <<>>, step, n)
  <2> HIDE DEF step
  <2> QED
    BY <1>1, <1>4, RunsOn
<1>6. kept \in [0..n -> Seq(T)] /\ kept[0] = <<>>
  BY <1>5 DEF Runs
<1>7. ASSUME NEW c \in 1..n PROVE kept[c] = kept[c - 1] \o Piece(t, c)
  <2>1. kept[c] = step[c][kept[c - 1]]
    BY <1>5, Zenon DEF Runs
  <2>2. c - 1 \in 0..n
    BY <1>1
  <2>3. kept[c - 1] \in Seq(T)
    BY <1>6, <2>2, Zenon
  <2> QED
    BY <2>1, <2>3, Zenon
<1>8. Is(kept)
  <2>1. ASSUME NEW c \in 0..n
        PROVE  kept[c] = IF c = 0 THEN <<>> ELSE kept[c - 1] \o Piece(t, c)
    <3>1. CASE c = 0
      BY <1>6, <3>1
    <3>2. CASE c # 0
      <4>1. c \in 1..n
        BY <1>1, <3>2
      <4> QED
        BY <1>7, <3>2, <4>1, Zenon
    <3> QED
      BY <3>1, <3>2
  <2>2. kept = [c \in 0..n |-> kept[c]]
    BY <1>6
  <2> QED
    BY <2>1, <2>2, Zenon
<1>9. Is(e)
  BY <1>8, Zenon
<1>10. \A c \in 0..n : c \in {d \in 0..n : e[d] = kept[d]}
  <2> DEFINE S == {d \in 0..n : e[d] = kept[d]}
  <2>1. \A c \in 0..n : e[c] = IF c = 0 THEN <<>> ELSE e[c - 1] \o Piece(t, c)
    <3> HIDE DEF e
    <3> QED
      BY <1>9, Zenon
  <2>2. 0 \in S
    <3>1. 0 \in 0..n
      BY <1>1
    <3>2. e[0] = <<>>
      BY <2>1, <3>1, Zenon
    <3> QED
      BY <1>6, <3>1, <3>2
  <2>3. ASSUME NEW c \in 0..(n - 1), c \in S PROVE c + 1 \in S
    <3>1. c + 1 \in 1..n /\ c + 1 \in 0..n /\ c + 1 # 0 /\ (c + 1) - 1 = c
      BY <1>1
    <3>2. e[c + 1] = e[c] \o Piece(t, c + 1)
      BY <2>1, <3>1, Zenon
    <3>3. kept[c + 1] = kept[c] \o Piece(t, c + 1)
      BY <1>7, <3>1, Zenon
    <3>4. e[c] = kept[c]
      BY <2>3
    <3> QED
      BY <3>1, <3>2, <3>3, <3>4, Zenon
  <2> HIDE DEF S
  <2>4. \A c \in 0..n : c \in S
    BY <1>1, <2>2, <2>3, Induction
  <2> QED
    BY <2>4 DEF S
<1>11. Needed(t) = kept[n]
  <2>1. n \in 0..n
    BY <1>1
  <2> QED
    BY <1>3, <1>10, <2>1, Zenon
<1> QED
  BY <1>6, <1>7, <1>11 DEF n

\* Which is part of the level.
LEMMA NeededTyped ==
    ASSUME NEW T, NEW t, t.included \in Seq(T), t.results \in Seq(Results)
    PROVE  Needed(t) \in Seq(T)
<1>1. PICK kept \in [0..num_chunks(t) -> Seq(T)] : Needed(t) = kept[num_chunks(t)]
  BY NeededIs
<1>2. num_chunks(t) \in 0..num_chunks(t)
  BY NumChunks
<1> QED
  BY <1>1, <1>2

\* Chunks that passed in no place up to d leave nothing; one that passed in place d is
\* what is left.
LEMMA NeededOne ==
    ASSUME NEW T, NEW t, t.included \in Seq(T), t.results \in Seq(Results),
           NEW d \in 1..num_chunks(t),
           \A c \in 1..num_chunks(t) : t.results[c] = "passed" <=> c = d
    PROVE  Needed(t) = Chunk(t, d - 1, num_chunks(t))
<1> DEFINE n == num_chunks(t)
           ch == Chunk(t, d - 1, n)
<1>1. n \in Nat /\ n <= Len(t.included)
  BY NumChunks
<1>2. PICK kept \in [0..n -> Seq(T)] :
              /\ kept[0] = <<>> /\ Needed(t) = kept[n]
              /\ \A c \in 1..n : kept[c] = kept[c - 1] \o Piece(t, c)
  BY NeededIs
<1>3. ch \in Seq(T)
  <2>1. n \in 1..Len(t.included) /\ d - 1 \in 0..(n - 1)
    BY <1>1, NumChunks
  <2> QED
    BY <2>1, ChunkIs
<1>4. \A c \in 1..n : Piece(t, c) = IF c = d THEN ch ELSE <<>>
  BY Zenon DEF Piece
<1>5. d \in 1..n
  OBVIOUS
<1> HIDE DEF n, ch
<1> DEFINE S == {c \in 0..n : kept[c] = IF c < d THEN <<>> ELSE ch}
<1>6. 0 \in S
  BY <1>1, <1>2, <1>5
<1>7. ASSUME NEW c \in 0..(n - 1), c \in S PROVE c + 1 \in S
  <2>1. c + 1 \in 1..n /\ c + 1 \in 0..n /\ (c + 1) - 1 = c /\ d \in Nat /\ c \in Nat
    BY <1>1, <1>5
  <2>2. kept[c + 1] = kept[c] \o Piece(t, c + 1)
    BY <1>2, <2>1, Zenon
  <2>3. kept[c] = IF c < d THEN <<>> ELSE ch
    BY <1>7
  <2>4. Piece(t, c + 1) = IF c + 1 = d THEN ch ELSE <<>>
    BY <1>4, <2>1, Zenon
  <2>5. kept[c + 1] = IF c + 1 < d THEN <<>> ELSE ch
    <3>1. CASE c + 1 < d
      <4>1. kept[c] = <<>> /\ Piece(t, c + 1) = <<>>
        BY <2>1, <2>3, <2>4, <3>1
      <4> QED
        BY <2>2, <3>1, <4>1
    <3>2. CASE c + 1 = d
      <4>1. kept[c] = <<>> /\ Piece(t, c + 1) = ch
        BY <2>1, <2>3, <2>4, <3>2
      <4>2. kept[c + 1] = ch
        BY <1>3, <2>2, <4>1, ConcatEmptySeq
      <4> QED
        BY <2>1, <3>2, <4>2
    <3>3. CASE d < c + 1
      <4>1. kept[c] = ch /\ Piece(t, c + 1) = <<>>
        BY <2>1, <2>3, <2>4, <3>3
      <4>2. kept[c + 1] = ch
        BY <1>3, <2>2, <4>1, ConcatEmptySeq
      <4> QED
        BY <2>1, <3>3, <4>2
    <3> QED
      BY <2>1, <3>1, <3>2, <3>3
  <2> QED
    BY <2>1, <2>5
<1> HIDE DEF S
<1>8. \A c \in 0..n : c \in S
  BY <1>1, <1>6, <1>7, Induction
<1>9. kept[n] = ch
  <2>1. n \in 0..n /\ ~ (n < d)
    BY <1>1, <1>5
  <2> QED
    BY <1>8, <2>1 DEF S
<1> QED
  BY <1>2, <1>9 DEF n, ch

\* A level of one chunk needs all or nothing.
LEMMA NeededAll ==
    ASSUME NEW T, NEW t, t.included \in Seq(T), t.results \in Seq(Results), num_chunks(t) = 1
    PROVE  /\ t.results[1] = "passed" => Needed(t) = t.included
           /\ t.results[1] # "passed" => Needed(t) = <<>>
           /\ Elements(Chunk(t, 0, 1)) = Elements(t.included)
<1>1. Len(t.included) \in Nat /\ 1 \in 1..Len(t.included)
  BY NumChunks
<1>2. Chunk(t, 0, 1) = t.included
  <2>1. Chunk(t, 0, 1) = SubSeq(t.included, 0 * (Len(t.included) \div 1) + 1, Len(t.included))
    BY DEF Chunk
  <2>2. Len(t.included) \div 1 \in Nat
    BY <1>1, ChunkSize
  <2>3. 0 * (Len(t.included) \div 1) + 1 = 1
    <3>1. \A q \in Nat : 0 * q + 1 = 1
      OBVIOUS
    <3> QED
      BY ONLY <2>2, <3>1
  <2>4. SubSeq(t.included, 1, Len(t.included)) = t.included
    BY SubSeqFull
  <2> QED
    BY <2>1, <2>3, <2>4
<1>3. ASSUME t.results[1] = "passed" PROVE Needed(t) = t.included
  <2>1. \A c \in 1..num_chunks(t) : t.results[c] = "passed" <=> c = 1
    BY <1>3
  <2>2. 1 \in 1..num_chunks(t) /\ 1 - 1 = 0
    OBVIOUS
  <2>3. Needed(t) = Chunk(t, 1 - 1, num_chunks(t))
    BY <2>1, <2>2, NeededOne
  <2> QED
    BY <1>2, <2>3
<1>4. ASSUME t.results[1] # "passed" PROVE Needed(t) = <<>>
  <2>1. PICK kept \in [0..num_chunks(t) -> Seq(T)] :
              /\ kept[0] = <<>> /\ Needed(t) = kept[num_chunks(t)]
              /\ \A c \in 1..num_chunks(t) : kept[c] = kept[c - 1] \o Piece(t, c)
    BY NeededIs
  <2>2. kept[1] = kept[0] \o Piece(t, 1)
    <3>1. 1 \in 1..num_chunks(t) /\ 1 - 1 = 0
      OBVIOUS
    <3> QED
      BY <2>1, <3>1, Zenon
  <2>3. Piece(t, 1) = <<>>
    BY <1>4 DEF Piece
  <2> QED
    BY <2>1, <2>2, <2>3
<1> QED
  BY <1>2, <1>3, <1>4

-----------------------------------------------------------------------------
(***************************************************************************)
(* Steps of the search.                                                    *)
(***************************************************************************)
LEMMA InputIs ==
    ASSUME NEW x \in Inputs
    PROVE  /\ x.n \in Nat /\ x.min \in Nat /\ x.min <= x.n
           /\ x.kind \in {"records", "sequence"}
           /\ ExploreChunks \in Nat /\ ExploreChunks >= 2
BY ShrinkAssumption

LEMMA ElementsIn ==
    ASSUME NEW T, NEW s \in Seq(T)
    PROVE  Elements(s) \in SUBSET T
BY ElementOfSeq, LenProperties DEF Elements

LEMMA ElementsOfNone == Elements(<<>>) = {}
BY DEF Elements

\* The records a search asks for.
LEMMA SearchAsks ==
    ASSUME NEW x \in Inputs, NEW t, Searched(x, t)
    PROVE  /\ BySearch(t, x.n) \in SUBSET (1..x.n)
           /\ t.search = "None" => BySearch(t, x.n) = 1..x.n
           /\ t.search \in {"Recur", "Done"} => BySearch(t, x.n) = Elements(t.included)
           /\ t.search = "Explore" /\ t.included = <<>> => BySearch(t, x.n) = Elements(t.included)
           /\ t.search = "Explore" /\ t.included # <<>> => BySearch(t, x.n) = Without(t, t.chunk + 1)
<1>1. t \in Trees(x.n)
  BY DEF Searched
<1>2. t.included \in Seq(1..x.n) /\ t.chunk \in Nat
      /\ t.search \in {"None", "Explore", "Recur", "Done"}
  BY <1>1 DEF Trees
<1>3. Elements(t.included) \in SUBSET (1..x.n)
  BY <1>2, ElementsIn
<1>4. (t.chunk + 1) - 1 = t.chunk
  BY <1>2
<1>5. CASE t.search = "None"
  <2>1. BySearch(t, x.n) = 1..x.n
    BY <1>5 DEF BySearch
  <2> QED
    BY <1>5, <2>1
<1>6. CASE t.search \in {"Recur", "Done"}
  <2>1. BySearch(t, x.n) = Elements(t.included)
    BY <1>6 DEF BySearch
  <2> QED
    BY <1>3, <1>6, <2>1
<1>7. CASE t.search = "Explore"
  <2>1. BySearch(t, x.n) = IF t.included = <<>> THEN {}
                           ELSE Elements(t.included) \ Elements(Chunk(t, t.chunk, num_chunks(t)))
    BY <1>7 DEF BySearch
  <2>2. CASE t.included = <<>>
    BY <1>7, <2>1, <2>2, ElementsOfNone
  <2>3. CASE t.included # <<>>
    <3>1. Without(t, t.chunk + 1)
          = Elements(t.included) \ Elements(Chunk(t, t.chunk, num_chunks(t)))
      BY <1>4 DEF Without
    <3>2. BySearch(t, x.n) = Without(t, t.chunk + 1)
      BY <2>1, <2>3, <3>1
    <3>3. Without(t, t.chunk + 1) \in SUBSET (1..x.n)
      BY <1>3 DEF Without
    <3> QED
      BY <1>7, <2>3, <3>2, <3>3
  <2> QED
    BY <2>2, <2>3
<1> QED
  BY <1>2, <1>5, <1>6, <1>7

\* The tree with the result of a test entered.
Entered(t, failed) ==
    [t EXCEPT !.results[t.chunk + 1] = IF failed THEN "failed" ELSE "passed"]

LEMMA EnteredIs ==
    ASSUME NEW n \in Nat, NEW t \in Trees(n), NEW failed \in BOOLEAN
    PROVE  LET u == Entered(t, failed)
           IN  /\ u \in Trees(n)
               /\ u.included = t.included /\ u.last = t.last
               /\ u.search = t.search /\ u.chunk = t.chunk
               /\ Len(u.results) = Len(t.results)
               /\ num_chunks(u) = num_chunks(t)
               /\ \A c \in Nat : Without(u, c) = Without(t, c)
               /\ \A c \in 1..Len(t.results) :
                     u.results[c] = IF c = t.chunk + 1
                                    THEN IF failed THEN "failed" ELSE "passed"
                                    ELSE t.results[c]
<1> DEFINE u == Entered(t, failed)
           r == IF failed THEN "failed" ELSE "passed"
           m == Len(t.results)
<1>1. t.results \in Seq(Results) /\ t.chunk \in Nat
  BY DEF Trees
<1>2. m \in Nat /\ t.results \in [1..m -> Results]
  BY <1>1, LenProperties
<1>3. r \in Results
  BY DEF Results
<1>4. u = [t EXCEPT !.results = [t.results EXCEPT ![t.chunk + 1] = r]]
  BY DEF Entered
<1> HIDE DEF m, r
<1>5. u.results = [t.results EXCEPT ![t.chunk + 1] = r]
  BY <1>4 DEF Trees
<1>6. u.results \in [1..m -> Results]
  BY <1>2, <1>3, <1>5
<1>7. u.results \in Seq(Results) /\ Len(u.results) = m
  BY <1>2, <1>6
<1>8. u \in Trees(n)
  BY <1>4, <1>7 DEF Trees
<1>9. u.included = t.included /\ u.last = t.last /\ u.search = t.search /\ u.chunk = t.chunk
  BY <1>4 DEF Trees
<1>10. num_chunks(u) = num_chunks(t)
  BY <1>7, <1>9 DEF num_chunks, m
<1>11. \A c \in Nat : Without(u, c) = Without(t, c)
  BY <1>9, <1>10 DEF Without, Chunk
<1>12. \A c \in 1..m : u.results[c] = IF c = t.chunk + 1 THEN r ELSE t.results[c]
  BY <1>2, <1>5
<1> QED
  BY <1>7, <1>8, <1>9, <1>10, <1>11, <1>12 DEF m, r

\* A level whose chunks were all tested is done, or leaves the chunks it needs for the next
\* one.
LEMMA LevelFinished ==
    ASSUME NEW x \in Inputs, NEW u \in Trees(x.n), u.search = "Explore",
           num_chunks(u) >= 1, FailsFilled(x, Elements(u.included)),
           Recorded(x, u, num_chunks(u))
    PROVE  LET t == explore_level_finished(u)
           IN  /\ Searched(x, t)
               /\ Len(t.results) = Len(u.results)
               /\ t.included = Needed(u)
               /\ t.search \in {"Recur", "Done"}
<1> DEFINE m == Len(u.results)
           n == x.n
           none == [i \in DOMAIN u.results |->
                      IF i <= num_chunks(u) THEN "None" ELSE u.results[i]]
           taken == [u EXCEPT !.results = none]
           t == explore_level_finished(u)
<1>1. /\ u.results \in Seq(Results) /\ u.included \in Seq(1..n)
      /\ u.last \in SUBSET Seq(1..n) /\ u.chunk \in Nat
  BY DEF Trees
<1>2. m \in Nat /\ u.results \in [1..m -> Results] /\ DOMAIN u.results = 1..m
  BY <1>1, LenProperties
<1>3. none \in Seq(Results) /\ Len(none) = m
  <2>1. none \in [1..m -> Results]
    BY <1>2 DEF Results
  <2> HIDE DEF none, m
  <2> QED
    BY <1>2, <2>1
<1> HIDE DEF none
<1>4. /\ taken \in Trees(n) /\ taken.results = none
      /\ taken.included = u.included
  BY <1>3 DEF Trees
<1>5. Needed(u) \in Seq(1..n)
  BY <1>1, NeededTyped
<1>6. m >= 1
  BY <1>1, <1>2, NumChunks DEF m
<1>7. CASE Needed(u) = u.included
  <2>1. t = [taken EXCEPT !.search = "Done"]
    BY <1>7 DEF explore_level_finished, none
  <2>2. /\ t \in Trees(n) /\ t.results = none /\ t.included = u.included
        /\ t.search = "Done"
    BY <1>4, <2>1 DEF Trees
  <2> HIDE DEF t, m
  <2>3. Searched(x, t)
    BY <1>3, <1>6, <2>2 DEF Searched
  <2> QED
    BY <1>3, <1>7, <2>2, <2>3 DEF t, m
<1>8. CASE Needed(u) # u.included
  <2>1. t = [taken EXCEPT !.last = {u.included}, !.included = Needed(u), !.search = "Recur"]
    BY <1>8 DEF explore_level_finished, none
  <2>2. /\ t \in Trees(n) /\ t.results = none /\ t.included = Needed(u)
        /\ t.search = "Recur" /\ t.last = {u.included}
    <3>1. {u.included} \in SUBSET Seq(1..n)
      BY <1>1
    <3> HIDE DEF taken, t
    <3> QED
      BY <1>4, <1>5, <2>1, <3>1 DEF Trees
  <2>3. ASSUME m = 1 PROVE FailsFilled(x, Elements(Needed(u)))
    <3>1. num_chunks(u) = 1
      <4>1. num_chunks(u) \in Nat /\ num_chunks(u) <= m
        BY <1>1, NumChunks
      <4> QED
        BY <2>3, <4>1
    <3>2. u.results[1] # "passed" /\ Needed(u) = <<>>
          /\ Elements(Chunk(u, 0, 1)) = Elements(u.included)
      BY <1>1, <1>8, <3>1, NeededAll
    <3>3. u.results[1] = IF FailsFilled(x, Without(u, 1)) THEN "failed" ELSE "passed"
      BY <3>1 DEF Recorded
    <3>4. FailsFilled(x, Without(u, 1))
      BY <3>2, <3>3
    <3>5. Without(u, 1) = {}
      BY <3>1, <3>2 DEF Without
    <3> QED
      BY <3>2, <3>4, <3>5, ElementsOfNone
  <2> HIDE DEF t, m
  <2>4. AtRecur(x, t)
    BY <1>1, <1>3, <2>2, <2>3 DEF AtRecur
  <2>5. Searched(x, t)
    BY <1>3, <1>6, <2>2, <2>4 DEF Searched
  <2> QED
    BY <1>3, <2>2, <2>5 DEF t, m
<1> QED
  BY <1>7, <1>8

\* Below a level of at least one record there is at least one chunk.
LEMMA SomeChunk ==
    ASSUME NEW T, NEW t, t.included \in Seq(T), t.results \in Seq(Results),
           Len(t.results) >= 1
    PROVE  t.included # <<>> => num_chunks(t) >= 1
<1>1. t.included # <<>> => Len(t.included) # 0
  BY EmptySeq
<1> QED
  BY <1>1, NumChunks

LEMMA ExploreIs ==
    ASSUME NEW t, NEW n, NEW failed, t.search = "Explore"
    PROVE  /\ t.chunk + 1 < num_chunks(t) /\ t.chunk + 1 # num_chunks(t) =>
                 explore_step(t, n, failed)
                 = Stepped([Entered(t, failed) EXCEPT !.chunk = t.chunk + 1])
           /\ ~ (t.chunk + 1 < num_chunks(t)) /\ t.chunk + 1 = num_chunks(t) =>
                 explore_step(t, n, failed) = Stepped(explore_level_finished(Entered(t, failed)))
           /\ ~ (t.chunk + 1 < num_chunks(t)) /\ t.chunk + 1 # num_chunks(t) =>
                 explore_step(t, n, failed) = [tree |-> Entered(t, failed), more |-> "none"]
<1>1. CASE t.chunk + 1 < num_chunks(t) /\ t.chunk + 1 # num_chunks(t)
  BY <1>1, Zenon DEF explore_step, Entered
<1>2. CASE ~ (t.chunk + 1 < num_chunks(t)) /\ t.chunk + 1 = num_chunks(t)
  BY <1>2, Zenon DEF explore_step, Entered
<1>3. CASE ~ (t.chunk + 1 < num_chunks(t)) /\ t.chunk + 1 # num_chunks(t)
  BY <1>3, Zenon DEF explore_step, Entered
<1> QED
  BY <1>1, <1>2, <1>3, Zenon

LEMMA ExploreStep ==
    ASSUME NEW x \in Inputs, NEW t, Searched(x, t),
           t.search = "Explore", t.included # <<>>,
           NEW failed \in BOOLEAN, failed <=> FailsFilled(x, Without(t, t.chunk + 1))
    PROVE  LET s == explore_step(t, x.n, failed)
               u == Entered(t, failed)
           IN  /\ s.more = "more" /\ Searched(x, s.tree) /\ s.tree.search # "None"
               /\ \/ /\ t.chunk + 1 < num_chunks(t)
                     /\ s.tree = [u EXCEPT !.chunk = t.chunk + 1]
                  \/ /\ t.chunk + 1 = num_chunks(t)
                     /\ s.tree = explore_level_finished(u)
                     /\ Recorded(x, u, num_chunks(u))
<1> DEFINE s == explore_step(t, x.n, failed)
           u == Entered(t, failed)
           r == IF failed THEN "failed" ELSE "passed"
<1>1. /\ t \in Trees(x.n) /\ AtLevel(x, t) /\ Len(t.results) >= 1 /\ x.n \in Nat
  BY InputIs DEF Searched
<1>2. /\ t.included \in Seq(1..x.n) /\ t.results \in Seq(Results) /\ t.chunk \in Nat
  BY <1>1 DEF Trees
<1>3. num_chunks(t) \in Nat /\ num_chunks(t) <= Len(t.results) /\ Len(t.results) \in Nat
  BY <1>2, NumChunks
<1>4. t.chunk < num_chunks(t) /\ FailsFilled(x, Elements(t.included))
      /\ Recorded(x, t, t.chunk)
  BY <1>1 DEF AtLevel
<1>5. /\ u \in Trees(x.n)
      /\ u.included = t.included /\ u.last = t.last
      /\ u.search = t.search /\ u.chunk = t.chunk
      /\ Len(u.results) = Len(t.results)
      /\ num_chunks(u) = num_chunks(t)
      /\ \A c \in Nat : Without(u, c) = Without(t, c)
      /\ \A c \in 1..Len(t.results) :
            u.results[c] = IF c = t.chunk + 1 THEN r ELSE t.results[c]
  BY <1>1, EnteredIs
<1>6. Recorded(x, u, t.chunk + 1)
  <2>1. SUFFICES ASSUME NEW c \in 1..(t.chunk + 1)
                 PROVE  u.results[c] = IF FailsFilled(x, Without(u, c)) THEN "failed" ELSE "passed"
    BY DEF Recorded
  <2>2. c \in Nat /\ c \in 1..Len(t.results)
    BY <1>2, <1>3, <1>4
  <2>3. Without(u, c) = Without(t, c)
        /\ u.results[c] = IF c = t.chunk + 1 THEN r ELSE t.results[c]
    BY <1>5, <2>2
  <2>4. CASE c = t.chunk + 1
    BY <2>3, <2>4
  <2>5. CASE c # t.chunk + 1
    <3>1. c \in 1..t.chunk
      BY <1>2, <2>5
    <3>2. t.results[c] = IF FailsFilled(x, Without(t, c)) THEN "failed" ELSE "passed"
      BY <1>4, <3>1 DEF Recorded
    <3> QED
      BY <2>3, <2>5, <3>2
  <2> QED
    BY <2>4, <2>5
<1>7. CASE t.chunk + 1 < num_chunks(t)
  <2> DEFINE v == [u EXCEPT !.chunk = t.chunk + 1]
  <2>1. s = Stepped(v)
    <3>1. t.chunk + 1 # num_chunks(t)
      BY <1>2, <1>3, <1>7
    <3> QED
      BY <1>7, <3>1, ExploreIs
  <2> HIDE DEF u
  <2>2. /\ v \in Trees(x.n) /\ v.included = u.included /\ v.results = u.results
        /\ v.search = "Explore" /\ v.chunk = t.chunk + 1
    <3>1. u \in Trees(x.n) /\ u.search = "Explore" /\ t.chunk + 1 \in Nat
      BY <1>2, <1>5
    <3> QED
      BY ONLY <3>1 DEF Trees
  <2>3. num_chunks(v) = num_chunks(u)
    BY <2>2 DEF num_chunks
  <2>4. \A c : Without(v, c) = Without(u, c)
    BY <2>2, <2>3 DEF Without, Chunk
  <2>5. AtLevel(x, v)
    <3>1. Recorded(x, v, t.chunk + 1)
      BY <1>6, <2>2, <2>4 DEF Recorded
    <3> HIDE DEF v
    <3> QED
      BY <1>4, <1>5, <1>7, <2>2, <2>3, <3>1 DEF AtLevel
  <2>6. Searched(x, v)
    <3> HIDE DEF v
    <3> QED
      BY <1>1, <1>5, <2>2, <2>5 DEF Searched
  <2>7. s.tree = v /\ s.more = "more"
    <3> HIDE DEF v, s
    <3> QED
      BY <2>1 DEF Stepped
  <2> QED
    BY <1>7, <2>2, <2>6, <2>7 DEF u
<1>8. CASE t.chunk + 1 = num_chunks(t)
  <2>1. s = Stepped(explore_level_finished(u))
    <3>1. ~ (t.chunk + 1 < num_chunks(t))
      BY <1>3, <1>8
    <3> QED
      BY <1>8, <3>1, ExploreIs
  <2>2. s.tree = explore_level_finished(u) /\ s.more = "more"
    <3> HIDE DEF s, u
    <3> QED
      BY <2>1 DEF Stepped
  <2>3. Recorded(x, u, num_chunks(u))
    BY <1>5, <1>6, <1>8
  <2>4. /\ Searched(x, explore_level_finished(u))
        /\ explore_level_finished(u).search \in {"Recur", "Done"}
    <3>1. u.search = "Explore" /\ num_chunks(u) >= 1 /\ FailsFilled(x, Elements(u.included))
      BY <1>2, <1>4, <1>5, <1>8
    <3> HIDE DEF u
    <3> QED
      BY <1>5, <2>3, <3>1, LevelFinished
  <2> QED
    BY <1>8, <2>2, <2>3, <2>4
<1>9. t.chunk + 1 < num_chunks(t) \/ t.chunk + 1 = num_chunks(t)
  BY <1>2, <1>3, <1>4
<1> QED
  BY <1>7, <1>8, <1>9

LEMMA FilledWhole ==
    ASSUME NEW x \in Inputs
    PROVE  FilledUp(1..x.n, x.n, x.min) = 1..x.n
<1>1. x.n \in Nat /\ x.min \in Nat /\ 1..x.n \in SUBSET (1..x.n)
  BY InputIs
<1>2. /\ FilledUp(1..x.n, x.n, x.min) \in SUBSET (1..x.n)
      /\ 1..x.n \subseteq FilledUp(1..x.n, x.n, x.min)
  BY <1>1, FilledIn
<1> QED
  BY <1>2

LEMMA NonesAre ==
    ASSUME NEW m \in Nat
    PROVE  Nones(m) \in Seq(Results) /\ Len(Nones(m)) = m
BY DEF Nones, Results

LEMMA AscendingIs ==
    ASSUME NEW n \in Nat
    PROVE  /\ Ascending(n) \in Seq(1..n) /\ Len(Ascending(n)) = n
           /\ Elements(Ascending(n)) = 1..n /\ Distinct(Ascending(n))
<1>1. Ascending(n) \in Seq(1..n) /\ Len(Ascending(n)) = n /\ DOMAIN Ascending(n) = 1..n
  BY DEF Ascending
<1>2. \A i \in 1..n : Ascending(n)[i] = i
  BY DEF Ascending
<1>3. Elements(Ascending(n)) = 1..n
  BY <1>1, <1>2 DEF Elements
<1>4. Distinct(Ascending(n))
  BY <1>1, <1>2 DEF Distinct
<1> QED
  BY <1>1, <1>3, <1>4

LEMMA SearchBegins ==
    ASSUME NEW x \in Inputs
    PROVE  Searched(x, records_new(x.n))
<1> DEFINE t == records_new(x.n)
           m == Lesser(x.n, ExploreChunks)
<1>1. x.n \in Nat /\ m \in Nat
  BY InputIs DEF Lesser
<1>2. Nones(m) \in Seq(Results) /\ Ascending(x.n) \in Seq(1..x.n)
  <2> HIDE DEF m
  <2> QED
    BY <1>1, NonesAre, AscendingIs
<1>3. /\ t \in Trees(x.n) /\ t.search = "None"
      /\ t.included = Ascending(x.n) /\ t.results = Nones(m) /\ t.chunk = 0
  <2> HIDE DEF m
  <2> QED
    BY <1>2 DEF Trees, records_new, m
<1>4. AtStart(x, t)
  BY <1>3 DEF AtStart
<1>9. Searched(x, t)
  <2> HIDE DEF t
  <2> QED
    BY <1>3, <1>4 DEF Searched
<1> QED
  BY <1>9 DEF t

\* A level that fails, before its first chunk.
LEMMA LevelBegins ==
    ASSUME NEW x \in Inputs, NEW t \in Trees(x.n),
           t.search = "Explore", t.chunk = 0, Len(t.results) >= 1,
           FailsFilled(x, Elements(t.included))
    PROVE  Searched(x, t)
<1>1. t.included \in Seq(1..x.n) /\ t.results \in Seq(Results)
  BY DEF Trees
<1>2. t.included # <<>> => t.chunk < num_chunks(t)
  BY <1>1, NumChunks, SomeChunk
<1>3. Recorded(x, t, t.chunk)
  BY DEF Recorded
<1>4. AtLevel(x, t)
  BY <1>2, <1>3 DEF AtLevel
<1> QED
  BY <1>4 DEF Searched

LEMMA StartStep ==
    ASSUME NEW x \in Inputs, NEW t, Searched(x, t), t.search = "None",
           x.n > 0, Fails(x.test, 1..x.n)
    PROVE  Searched(x, [t EXCEPT !.search = "Explore"])
<1> DEFINE u == [t EXCEPT !.search = "Explore"]
           m == Lesser(x.n, ExploreChunks)
<1>1. t \in Trees(x.n) /\ AtStart(x, t)
  BY DEF Searched
<1>2. /\ u \in Trees(x.n) /\ u.search = "Explore" /\ u.chunk = t.chunk
      /\ u.included = t.included /\ u.results = t.results
  BY <1>1 DEF Trees
<1>3. m \in Nat /\ m >= 1 /\ x.n \in Nat
  BY InputIs DEF Lesser
<1>4. Len(u.results) >= 1 /\ u.chunk = 0
  <2>1. u.results = Nones(m) /\ u.chunk = 0
    BY <1>1, <1>2 DEF AtStart
  <2> HIDE DEF m, u
  <2> QED
    BY <1>3, <2>1, NonesAre
<1>5. FailsFilled(x, Elements(u.included))
  <2>1. Elements(u.included) = 1..x.n
    BY <1>1, <1>2, <1>3, AscendingIs DEF AtStart
  <2> QED
    BY <2>1, FilledWhole DEF FailsFilled
<1>9. Searched(x, u)
  <2> HIDE DEF u
  <2> QED
    BY <1>2, <1>4, <1>5, LevelBegins
<1> QED
  BY <1>9 DEF u

LEMMA RecurFails ==
    ASSUME NEW x \in Inputs, NEW t, Searched(x, t), t.search = "Recur",
           FailsFilled(x, Elements(t.included))
    PROVE  Searched(x, [t EXCEPT !.search = "Explore", !.chunk = 0])
<1> DEFINE u == [t EXCEPT !.search = "Explore", !.chunk = 0]
<1>1. t \in Trees(x.n) /\ Len(t.results) >= 1
  BY DEF Searched
<1>2. /\ u \in Trees(x.n) /\ u.search = "Explore" /\ u.chunk = 0
      /\ u.included = t.included /\ u.results = t.results
  BY <1>1 DEF Trees
<1>9. Searched(x, u)
  <2> HIDE DEF u
  <2> QED
    BY <1>1, <1>2, LevelBegins
<1> QED
  BY <1>9 DEF u

LEMMA Half ==
    ASSUME NEW m \in Nat, m >= 2
    PROVE  m \div 2 \in Nat /\ m \div 2 >= 1 /\ m \div 2 < m
OBVIOUS

LEMMA RecurPasses ==
    ASSUME NEW x \in Inputs, NEW t, Searched(x, t), t.search = "Recur",
           ~ FailsFilled(x, Elements(t.included))
    PROVE  Len(t.results) # 1 /\ t.last # {} /\ Searched(x, TakeBack(t))
<1> DEFINE u == TakeBack(t)
           m == Len(t.results)
<1>1. t \in Trees(x.n) /\ m >= 1 /\ AtRecur(x, t)
  BY DEF Searched
<1>2. m \in Nat /\ m # 1
  <2>1. t.results \in Seq(Results)
    BY <1>1 DEF Trees
  <2> QED
    BY <1>1, <2>1, LenProperties DEF AtRecur
<1> HIDE DEF m
<1>3. m \div 2 \in Nat /\ m \div 2 >= 1
  BY <1>1, <1>2, Half
<1> DEFINE h == m \div 2
<1>4. Nones(h) \in Seq(Results) /\ Len(Nones(h)) = h
  BY <1>3, NonesAre
<1>5. PICK l \in Seq(1..x.n) : t.last = {l} /\ FailsFilled(x, Elements(l))
  BY <1>1 DEF AtRecur
<1>6. (CHOOSE k \in t.last : TRUE) = l
  BY <1>5
<1>7. /\ u \in Trees(x.n) /\ u.search = "Explore" /\ u.chunk = 0
      /\ u.included = l /\ u.results = Nones(h)
  <2>1. u = [t EXCEPT !.last = {}, !.included = l, !.results = Nones(h),
                      !.search = "Explore", !.chunk = 0]
    BY <1>6 DEF TakeBack, m
  <2> HIDE DEF u, h
  <2> QED
    BY <1>1, <1>4, <1>5, <2>1 DEF Trees
<1>8. Len(u.results) >= 1
  <2> HIDE DEF u, h
  <2> QED
    BY <1>3, <1>4, <1>7 DEF h
<1>9. Searched(x, u)
  <2> HIDE DEF u
  <2> QED
    BY <1>5, <1>7, <1>8, LevelBegins
<1> QED
  BY <1>2, <1>5, <1>9 DEF m

-----------------------------------------------------------------------------
(***************************************************************************)
(* The search for one culprit.                                             *)
(***************************************************************************)
LEMMA CulpritDecides ==
    ASSUME NEW x \in Inputs, x.min = 0, NEW k \in 1..x.n, Culprit(x, k),
           NEW S \in SUBSET (1..x.n)
    PROVE  FailsFilled(x, S) <=> k \in S
<1>1. x.n \in Nat /\ x.min \in Nat
  BY InputIs
<1>2. FilledUp(S, x.n, x.min) = S
  BY <1>1, FilledIn
<1>3. Fails(x.test, S) <=> k \in S
  BY DEF Culprit
<1> QED
  BY <1>2, <1>3 DEF FailsFilled

InChunkOnly(t, n, k, d) == \A c \in 1..n : k \in Elements(Chunk(t, c - 1, n)) <=> c = d

\* A record of a level without repetitions is in one of its chunks only.
LEMMA OneChunkHasIt ==
    ASSUME NEW T, NEW t, t.included \in Seq(T), NEW n \in 1..Len(t.included),
           Distinct(t.included), NEW k \in Elements(t.included)
    PROVE  \E d \in 1..n : InChunkOnly(t, n, k, d)
<1> DEFINE s == t.included
           len == Len(s)
           lo(c) == Before(len, c - 1, n)
           hi(c) == UpTo(len, c - 1, n)
           ch(c) == Chunk(t, c - 1, n)
<1>1. len \in Nat /\ DOMAIN s = 1..len /\ n \in Nat
  BY LenProperties
<1>2. PICK p \in 1..len : s[p] = k
  BY <1>1 DEF Elements
<1>3. PICK e \in 0..(n - 1) : Before(len, e, n) < p /\ p <= UpTo(len, e, n)
  BY <1>1, ChunksCover
<1> DEFINE d == e + 1
<1>4. d \in 1..n /\ lo(d) < p /\ p <= hi(d)
  <2>1. d \in 1..n /\ d - 1 = e
    BY <1>1
  <2> QED
    BY <1>3, <2>1
<1>5. ASSUME NEW c \in 1..n
      PROVE  /\ lo(c) \in Nat /\ hi(c) \in Nat /\ lo(c) < hi(c) /\ hi(c) <= len
             /\ DOMAIN ch(c) = 1..(hi(c) - lo(c))
             /\ \A i \in 1..(hi(c) - lo(c)) : ch(c)[i] = s[lo(c) + i]
  <2>1. c - 1 \in 0..(n - 1)
    BY <1>1
  <2>2. lo(c) \in Nat /\ hi(c) \in Nat /\ lo(c) < hi(c) /\ hi(c) <= len
    BY <1>1, <2>1, ChunkBounds
  <2>3. /\ ch(c) \in Seq(T) /\ Len(ch(c)) = hi(c) - lo(c)
        /\ \A i \in 1..(hi(c) - lo(c)) : ch(c)[i] = s[lo(c) + i]
    BY <2>1, ChunkIs
  <2>4. DOMAIN ch(c) = 1..(hi(c) - lo(c))
    <3> HIDE DEF ch, lo, hi
    <3> QED
      BY <2>3, LenProperties
  <2> QED
    BY <2>2, <2>3, <2>4
<1>6. ASSUME NEW b \in 1..n, NEW c \in 1..n, b < c PROVE hi(b) <= lo(c)
  <2>1. b - 1 \in 0..(n - 1) /\ c - 1 \in 0..(n - 1) /\ b - 1 < c - 1
    BY <1>1, <1>6
  <2> QED
    BY <1>1, <2>1, ChunksApart
<1> HIDE DEF lo, hi, ch, d, len
<1>7. k \in Elements(ch(d))
  <2>1. p - lo(d) \in 1..(hi(d) - lo(d)) /\ lo(d) + (p - lo(d)) = p
    BY <1>1, <1>4, <1>5
  <2>2. ch(d)[p - lo(d)] = s[lo(d) + (p - lo(d))] /\ p - lo(d) \in DOMAIN ch(d)
    BY <1>4, <1>5, <2>1, Zenon
  <2>3. ch(d)[p - lo(d)] = k
    BY <1>2, <2>1, <2>2
  <2> QED
    BY <2>2, <2>3, Zenon DEF Elements
<1>8. ASSUME NEW c \in 1..n, k \in Elements(ch(c)) PROVE c = d
  <2>1. PICK i \in DOMAIN ch(c) : ch(c)[i] = k
    BY <1>8, Zenon DEF Elements
  <2>2. i \in 1..(hi(c) - lo(c)) /\ ch(c)[i] = s[lo(c) + i]
    BY <1>5, <2>1
  <2>3. lo(c) + i \in 1..len /\ lo(c) < lo(c) + i /\ lo(c) + i <= hi(c)
    BY <1>1, <1>5, <2>2
  <2>4. lo(c) + i = p
    BY <1>1, <1>2, <2>1, <2>2, <2>3 DEF Distinct
  <2>5. ~ (c < d)
    <3>1. c < d => hi(c) <= lo(d)
      BY <1>4, <1>6
    <3>2. lo(d) \in Nat /\ hi(c) \in Nat /\ p \in Nat
      BY <1>1, <1>4, <1>5
    <3> QED
      BY <1>4, <2>3, <2>4, <3>1, <3>2
  <2>6. ~ (d < c)
    <3>1. d < c => hi(d) <= lo(c)
      BY <1>4, <1>6
    <3>2. hi(d) \in Nat /\ lo(c) \in Nat /\ p \in Nat
      BY <1>1, <1>4, <1>5
    <3> QED
      BY <1>4, <2>3, <2>4, <3>1, <3>2
  <2> QED
    BY <1>1, <1>4, <2>5, <2>6
<1>9. \A c \in 1..n : k \in Elements(ch(c)) <=> c = d
  BY <1>7, <1>8
<1>10. InChunkOnly(t, n, k, d)
  BY <1>9 DEF ch, InChunkOnly
<1> QED
  BY <1>4, <1>10

LEMMA ChunkDistinct ==
    ASSUME NEW T, NEW t, t.included \in Seq(T), NEW n \in 1..Len(t.included),
           NEW c \in 0..(n - 1), Distinct(t.included)
    PROVE  Distinct(Chunk(t, c, n))
<1> DEFINE s == t.included
           len == Len(s)
           lo == Before(len, c, n)
           hi == UpTo(len, c, n)
           ch == Chunk(t, c, n)
<1>1. len \in Nat /\ DOMAIN s = 1..len
  BY LenProperties
<1>2. lo \in Nat /\ hi \in Nat /\ lo < hi /\ hi <= len
  BY <1>1, ChunkBounds
<1>3. /\ ch \in Seq(T) /\ Len(ch) = hi - lo
      /\ \A i \in 1..(hi - lo) : ch[i] = s[lo + i]
  BY ChunkIs
<1> HIDE DEF ch, lo, hi, len
<1>4. DOMAIN ch = 1..(hi - lo)
  BY <1>3, LenProperties
<1>5. ASSUME NEW i \in DOMAIN ch, NEW j \in DOMAIN ch, ch[i] = ch[j] PROVE i = j
  <2>1. lo + i \in DOMAIN s /\ lo + j \in DOMAIN s /\ i \in Nat /\ j \in Nat
    BY <1>1, <1>2, <1>4
  <2>2. s[lo + i] = s[lo + j]
    BY <1>3, <1>4, <1>5
  <2>3. lo + i = lo + j
    BY <2>1, <2>2, Zenon DEF Distinct
  <2> QED
    BY <1>2, <2>1, <2>3
<1> QED
  BY <1>5 DEF Distinct, ch

\* A chunk is the whole level only when it is the only one.
LEMMA ChunkWhole ==
    ASSUME NEW T, NEW t, t.included \in Seq(T), NEW n \in 1..Len(t.included),
           NEW c \in 0..(n - 1), Chunk(t, c, n) = t.included
    PROVE  n = 1
<1> DEFINE len == Len(t.included)
           lo(b) == Before(len, b, n)
           hi(b) == UpTo(len, b, n)
<1>1. len \in Nat /\ n \in Nat
  BY LenProperties
<1>2. \A b \in 0..(n - 1) : lo(b) \in Nat /\ hi(b) \in Nat /\ lo(b) < hi(b) /\ hi(b) <= len
  BY <1>1, ChunkBounds
<1>3. len = hi(c) - lo(c)
  BY ChunkIs
<1>4. \A a, b \in 0..(n - 1) : a < b => hi(a) <= lo(b)
  BY <1>1, ChunksApart
<1> HIDE DEF lo, hi, len
<1>5. lo(c) = 0 /\ hi(c) = len
  <2>1. lo(c) \in Nat /\ hi(c) \in Nat /\ hi(c) <= len
    BY <1>2
  <2> QED
    BY <1>1, <1>3, <2>1
<1>6. ASSUME NEW b \in 0..(n - 1), b # c PROVE FALSE
  <2>1. lo(b) \in Nat /\ hi(b) \in Nat /\ lo(b) < hi(b) /\ hi(b) <= len
    BY <1>2
  <2>2. b < c \/ c < b
    BY <1>1, <1>6
  <2>3. b < c => hi(b) <= lo(c)
    BY <1>4
  <2>4. c < b => hi(c) <= lo(b)
    BY <1>4
  <2> QED
    BY <1>1, <1>5, <2>1, <2>2, <2>3, <2>4
<1>7. ASSUME n # 1 PROVE FALSE
  <2>1. 0 \in 0..(n - 1) /\ 1 \in 0..(n - 1)
    BY <1>1, <1>7
  <2> QED
    BY <1>6, <2>1
<1> QED
  BY <1>7

LEMMA HuntLevel ==
    ASSUME NEW x \in Inputs, x.min = 0, NEW k \in 1..x.n, Culprit(x, k),
           NEW u \in Trees(x.n), u.search = "Explore", num_chunks(u) >= 1,
           Searched(x, explore_level_finished(u)),
           Recorded(x, u, num_chunks(u)), Hunt(x, u, k)
    PROVE  Hunt(x, explore_level_finished(u), k)
<1> DEFINE n == num_chunks(u)
           t == explore_level_finished(u)
<1>1. u.included \in Seq(1..x.n) /\ u.results \in Seq(Results)
  BY DEF Trees
<1>2. /\ n \in Nat /\ n \in 1..Len(u.included) /\ n \in 1..Len(u.results)
      /\ n = Len(u.included) \/ n = Len(u.results)
  BY <1>1, NumChunks
<1>3. /\ Distinct(u.included) /\ k \in Elements(u.included)
      /\ Len(u.results) = Lesser(x.n, ExploreChunks)
  BY DEF Hunt
<1>4. PICK d \in 1..n : InChunkOnly(u, n, k, d)
  <2> HIDE DEF n
  <2>1. u.included \in Seq(1..x.n) /\ n \in 1..Len(u.included)
    BY <1>1, <1>2
  <2>2. Distinct(u.included) /\ k \in Elements(u.included)
    BY <1>3
  <2> QED
    BY ONLY <2>1, <2>2, OneChunkHasIt, Zenon
<1>5. \A c \in 1..n : u.results[c] = "passed" <=> c = d
  <2>1. SUFFICES ASSUME NEW c \in 1..n PROVE u.results[c] = "passed" <=> c = d
    OBVIOUS
  <2>2. u.results[c] = IF FailsFilled(x, Without(u, c)) THEN "failed" ELSE "passed"
    BY DEF Recorded
  <2>3. Without(u, c) \in SUBSET (1..x.n)
    BY <1>1, ElementsIn DEF Without
  <2>4. FailsFilled(x, Without(u, c)) <=> k \in Without(u, c)
    BY <2>3, CulpritDecides
  <2>5. k \in Without(u, c) <=> c # d
    BY <1>3, <1>4 DEF Without, InChunkOnly
  <2> QED
    BY <2>2, <2>4, <2>5
<1>6. Needed(u) = Chunk(u, d - 1, n)
  BY <1>1, <1>5, NeededOne
<1>7. /\ Len(t.results) = Len(u.results) /\ t.included = Needed(u)
      /\ t.search \in {"Recur", "Done"}
      /\ t.search = "Done" => Needed(u) = u.included
  <2>1. FailsFilled(x, Elements(u.included))
    <3>1. Elements(u.included) \in SUBSET (1..x.n)
      BY <1>1, ElementsIn
    <3> QED
      BY <1>3, <3>1, CulpritDecides
  <2>2. /\ Len(t.results) = Len(u.results) /\ t.included = Needed(u)
        /\ t.search \in {"Recur", "Done"}
    BY <2>1, LevelFinished
  <2>3. ASSUME Needed(u) # u.included PROVE t.search = "Recur"
    <3> DEFINE none == [i \in DOMAIN u.results |->
                          IF i <= num_chunks(u) THEN "None" ELSE u.results[i]]
               taken == [u EXCEPT !.results = none]
    <3>1. t = [taken EXCEPT !.last = {u.included}, !.included = Needed(u), !.search = "Recur"]
      BY <2>3 DEF explore_level_finished
    <3>2. DOMAIN taken = DOMAIN u /\ "search" \in DOMAIN u
      BY DEF Trees
    <3> HIDE DEF taken, t
    <3> QED
      BY <3>1, <3>2
  <2> QED
    BY <2>2, <2>3
<1>8. d - 1 \in 0..(n - 1)
  BY <1>2
<1>9. Distinct(t.included)
  BY <1>1, <1>2, <1>3, <1>6, <1>7, <1>8, ChunkDistinct
<1>10. k \in Elements(t.included)
  BY <1>4, <1>6, <1>7 DEF InChunkOnly
<1>11. ASSUME t.search = "Done" PROVE Elements(t.included) = {k}
  <2>1. n = 1
    BY <1>1, <1>2, <1>6, <1>7, <1>8, <1>11, ChunkWhole
  <2>2. t.included = u.included
    BY <1>7, <1>11
  <2>3. CASE Len(u.included) = 1
    <3>1. DOMAIN u.included = 1..1
      BY <1>1, <2>3, LenProperties
    <3>2. Elements(u.included) = {u.included[1]}
      BY <3>1 DEF Elements
    <3> QED
      BY <1>3, <2>2, <3>2
  <2>4. CASE Len(u.results) = 1
    <3>1. x.n = 1
      <4>1. Lesser(x.n, ExploreChunks) = 1
        BY <1>3, <2>4
      <4>2. x.n \in Nat /\ ExploreChunks \in Nat /\ ExploreChunks >= 2
        BY InputIs
      <4> QED
        BY ONLY <4>1, <4>2 DEF Lesser
    <3>2. Elements(u.included) \in SUBSET {1}
      BY <1>1, <3>1, ElementsIn
    <3> QED
      BY <1>3, <2>2, <3>2
  <2> QED
    BY <1>2, <2>1, <2>3, <2>4
<1> QED
  BY <1>3, <1>7, <1>9, <1>10, <1>11 DEF Hunt

LEMMA HuntExplore ==
    ASSUME NEW x \in Inputs, x.min = 0, NEW k \in 1..x.n, Culprit(x, k),
           NEW t, Searched(x, t), Hunt(x, t, k), t.search = "Explore", t.included # <<>>,
           NEW failed \in BOOLEAN, failed <=> FailsFilled(x, Without(t, t.chunk + 1))
    PROVE  Hunt(x, explore_step(t, x.n, failed).tree, k)
<1> DEFINE s == explore_step(t, x.n, failed)
           u == Entered(t, failed)
<1>1. t \in Trees(x.n) /\ x.n \in Nat
  BY InputIs DEF Searched
<1>2. /\ Searched(x, s.tree)
      /\ \/ /\ t.chunk + 1 < num_chunks(t)
            /\ s.tree = [u EXCEPT !.chunk = t.chunk + 1]
         \/ /\ t.chunk + 1 = num_chunks(t)
            /\ s.tree = explore_level_finished(u)
            /\ Recorded(x, u, num_chunks(u))
  BY ExploreStep
<1>3. /\ u \in Trees(x.n) /\ u.search = "Explore" /\ u.included = t.included
      /\ Len(u.results) = Len(t.results) /\ num_chunks(u) = num_chunks(t)
  BY <1>1, EnteredIs
<1>4. Hunt(x, u, k)
  <2> HIDE DEF u
  <2> QED
    BY <1>3 DEF Hunt
<1> HIDE DEF s, u
<1>5. CASE s.tree = [u EXCEPT !.chunk = t.chunk + 1]
  <2>1. /\ s.tree.included = u.included /\ s.tree.results = u.results
        /\ s.tree.search = u.search
    BY <1>3, <1>5 DEF Trees
  <2> QED
    BY <1>4, <2>1 DEF Hunt, s
<1>6. CASE /\ t.chunk + 1 = num_chunks(t) /\ s.tree = explore_level_finished(u)
           /\ Recorded(x, u, num_chunks(u))
  <2>1. num_chunks(u) >= 1
    <3>1. t.chunk \in Nat
      BY <1>1 DEF Trees
    <3> QED
      BY <1>3, <1>6, <3>1
  <2>2. Searched(x, explore_level_finished(u))
    BY <1>2, <1>6
  <2>3. Hunt(x, explore_level_finished(u), k)
    BY <1>3, <1>4, <1>6, <2>1, <2>2, HuntLevel
  <2> QED
    BY <1>6, <2>3 DEF s
<1> QED
  BY <1>2, <1>5, <1>6

-----------------------------------------------------------------------------
(***************************************************************************)
(* A step of either kind of tree.                                          *)
(***************************************************************************)
LEMMA StartIs ==
    ASSUME NEW t, NEW n, NEW failed, t.search = "None"
    PROVE  /\ failed /\ n > 0 =>
                 explore_step(t, n, failed) = Stepped([t EXCEPT !.search = "Explore"])
           /\ ~ (failed /\ n > 0) =>
                 explore_step(t, n, failed) = [tree |-> t, more |-> "none"]
BY Zenon DEF explore_step

LEMMA RecurIs ==
    ASSUME NEW t, NEW n, NEW failed, t.search = "Recur"
    PROVE  /\ failed => explore_step(t, n, failed)
                        = Stepped([t EXCEPT !.search = "Explore", !.chunk = 0])
           /\ ~ failed /\ Len(t.results) # 1 /\ t.last # {} =>
                 explore_step(t, n, failed) = Stepped(TakeBack(t))
BY Zenon DEF explore_step

LEMMA DoneIs ==
    ASSUME NEW t, NEW n, NEW failed, t.search = "Done"
    PROVE  explore_step(t, n, failed) = [tree |-> t, more |-> "none"]
BY Zenon DEF explore_step

LEMMA SteppedIs ==
    ASSUME NEW t
    PROVE  Stepped(t).tree = t /\ Stepped(t).more = "more"
BY DEF Stepped

\* Without records, a level has no chunk to leave out.
LEMMA EmptyLevel ==
    ASSUME NEW x \in Inputs, NEW t, Searched(x, t), t.search = "Explore", t.included = <<>>
    PROVE  LET u == Entered(t, TRUE)
           IN  /\ explore_step(t, x.n, TRUE) = [tree |-> u, more |-> "none"]
               /\ Searched(x, u) /\ u.search = "Explore" /\ u.included = <<>>
               /\ FailsFilled(x, BySearch(u, x.n))
<1> DEFINE u == Entered(t, TRUE)
<1>1. t \in Trees(x.n) /\ AtLevel(x, t) /\ x.n \in Nat /\ Len(t.results) >= 1
  BY InputIs DEF Searched
<1>2. t.included \in Seq(1..x.n) /\ t.results \in Seq(Results) /\ t.chunk \in Nat
  BY <1>1 DEF Trees
<1>3. t.chunk = 0 /\ FailsFilled(x, Elements(t.included))
  BY <1>1 DEF AtLevel
<1>4. num_chunks(t) = 0
  <2>1. Len(t.included) = 0
    OBVIOUS
  <2>2. num_chunks(t) \in Nat /\ num_chunks(t) <= Len(t.included)
    BY ONLY <1>2, NumChunks
  <2> QED
    BY <2>1, <2>2
<1>5. explore_step(t, x.n, TRUE) = [tree |-> u, more |-> "none"]
  <2>1. ~ (t.chunk + 1 < num_chunks(t)) /\ t.chunk + 1 # num_chunks(t)
    BY <1>3, <1>4
  <2> QED
    BY <2>1, ExploreIs
<1>6. /\ u \in Trees(x.n) /\ u.included = t.included /\ u.search = "Explore"
      /\ u.chunk = 0 /\ Len(u.results) = Len(t.results)
  BY <1>1, <1>3, EnteredIs
<1> HIDE DEF u
<1>7. Recorded(x, u, 0)
  BY DEF Recorded
<1>8. AtLevel(x, u)
  BY <1>3, <1>6, <1>7 DEF AtLevel
<1>9. Searched(x, u)
  BY <1>1, <1>6, <1>8 DEF Searched
<1>10. BySearch(u, x.n) = Elements(u.included)
  BY <1>6, <1>9, SearchAsks
<1> QED
  BY <1>3, <1>5, <1>6, <1>9, <1>10 DEF u

\* After a failure the search goes on, or ends at a value that fails.
LEMMA SimplifyRecords ==
    ASSUME NEW x \in Inputs, NEW t, Searched(x, t), Searching(x, t, "failed"),
           FailsFilled(x, BySearch(t, x.n))
    PROVE  LET s == explore_step(t, x.n, TRUE)
           IN  /\ Searched(x, s.tree)
               /\ \/ s.more = "more" /\ Searching(x, s.tree, "test")
                  \/ /\ s.more = "none" /\ Searching(x, s.tree, "done")
                     /\ FailsFilled(x, BySearch(s.tree, x.n))
<1> DEFINE s == explore_step(t, x.n, TRUE)
<1>1. x.n \in Nat /\ t \in Trees(x.n)
  BY InputIs DEF Searched
<1>2. t.search \in {"None", "Explore", "Recur", "Done"}
  BY <1>1 DEF Trees
<1>3. CASE t.search = "None" /\ x.n > 0
  <2> DEFINE u == [t EXCEPT !.search = "Explore"]
  <2>1. s = Stepped(u)
    BY <1>3, StartIs
  <2>2. Fails(x.test, 1..x.n)
    <3>1. BySearch(t, x.n) = 1..x.n
      BY <1>3, SearchAsks
    <3> QED
      BY <3>1, FilledWhole DEF FailsFilled
  <2>3. Searched(x, u)
    BY <1>3, <2>2, StartStep
  <2>4. u.search = "Explore"
    BY <1>1 DEF Trees
  <2> HIDE DEF s, u
  <2>5. s.tree = u /\ s.more = "more"
    BY <2>1, SteppedIs
  <2>6. Searching(x, u, "test")
    BY <2>4 DEF Searching
  <2> QED
    BY <2>3, <2>5, <2>6 DEF s
<1>4. CASE t.search = "None" /\ ~ (x.n > 0)
  <2>1. s = [tree |-> t, more |-> "none"]
    BY <1>4, StartIs
  <2> HIDE DEF s
  <2>2. s.tree = t /\ s.more = "none"
    BY <2>1
  <2>3. Searching(x, t, "done")
    BY <1>1, <1>4 DEF Searching
  <2> QED
    BY <2>2, <2>3 DEF s
<1>5. CASE t.search = "Explore" /\ t.included = <<>>
  <2> DEFINE u == Entered(t, TRUE)
  <2>1. /\ s = [tree |-> u, more |-> "none"]
        /\ Searched(x, u) /\ u.search = "Explore" /\ u.included = <<>>
        /\ FailsFilled(x, BySearch(u, x.n))
    BY <1>5, EmptyLevel
  <2> HIDE DEF s, u
  <2>2. s.tree = u /\ s.more = "none"
    BY <2>1
  <2>3. Searching(x, u, "done")
    BY <2>1 DEF Searching
  <2> QED
    BY <2>1, <2>2, <2>3 DEF s
<1>6. CASE t.search = "Explore" /\ t.included # <<>>
  <2>1. FailsFilled(x, Without(t, t.chunk + 1))
    BY <1>6, SearchAsks
  <2>2. s.more = "more" /\ Searched(x, s.tree) /\ s.tree.search # "None"
    BY <1>6, <2>1, ExploreStep
  <2>3. Searching(x, s.tree, "test")
    <3> HIDE DEF s
    <3> QED
      BY <2>2 DEF Searching
  <2> QED
    BY <2>2, <2>3
<1>7. CASE t.search = "Recur"
  <2> DEFINE u == [t EXCEPT !.search = "Explore", !.chunk = 0]
  <2>1. s = Stepped(u)
    BY <1>7, RecurIs
  <2>2. FailsFilled(x, Elements(t.included))
    BY <1>7, SearchAsks
  <2>3. Searched(x, u)
    BY <1>7, <2>2, RecurFails
  <2>4. u.search = "Explore"
    BY <1>1 DEF Trees
  <2> HIDE DEF s, u
  <2>5. s.tree = u /\ s.more = "more"
    BY <2>1, SteppedIs
  <2>6. Searching(x, u, "test")
    BY <2>4 DEF Searching
  <2> QED
    BY <2>3, <2>5, <2>6 DEF s
<1>8. CASE t.search = "Done"
  <2>1. s = [tree |-> t, more |-> "none"]
    BY <1>8, DoneIs
  <2> HIDE DEF s
  <2>2. s.tree = t /\ s.more = "none"
    BY <2>1
  <2>3. Searching(x, t, "done")
    BY <1>8 DEF Searching
  <2> QED
    BY <2>2, <2>3 DEF s
<1> QED
  BY <1>2, <1>3, <1>4, <1>5, <1>6, <1>7, <1>8

\* After a pass the search always goes on.
LEMMA ComplicateRecords ==
    ASSUME NEW x \in Inputs, NEW t, Searched(x, t), Searching(x, t, "passed"),
           ~ FailsFilled(x, BySearch(t, x.n))
    PROVE  LET s == explore_step(t, x.n, FALSE)
           IN  Searched(x, s.tree) /\ s.more = "more" /\ Searching(x, s.tree, "test")
<1> DEFINE s == explore_step(t, x.n, FALSE)
<1>1. x.n \in Nat /\ t \in Trees(x.n)
  BY InputIs DEF Searched
<1>2. t.search \in {"None", "Explore", "Recur", "Done"}
  BY <1>1 DEF Trees
<1>3. t.search # "None"
  BY DEF Searching
<1>4. CASE t.search = "Explore"
  <2>1. FailsFilled(x, Elements(t.included))
    BY <1>4 DEF Searched, AtLevel
  <2>2. t.included # <<>>
    BY <1>4, <2>1, SearchAsks
  <2>3. ~ FailsFilled(x, Without(t, t.chunk + 1))
    BY <1>4, <2>2, SearchAsks
  <2>4. s.more = "more" /\ Searched(x, s.tree) /\ s.tree.search # "None"
    BY <1>4, <2>2, <2>3, ExploreStep
  <2>5. Searching(x, s.tree, "test")
    <3> HIDE DEF s
    <3> QED
      BY <2>4 DEF Searching
  <2> QED
    BY <2>4, <2>5
<1>5. CASE t.search = "Recur"
  <2> DEFINE u == TakeBack(t)
  <2>1. ~ FailsFilled(x, Elements(t.included))
    BY <1>5, SearchAsks
  <2>2. Len(t.results) # 1 /\ t.last # {} /\ Searched(x, u)
    BY <1>5, <2>1, RecurPasses
  <2>3. s = Stepped(u)
    BY <1>5, <2>2, RecurIs
  <2>4. u.search = "Explore"
    BY <1>1 DEF Trees, TakeBack
  <2> HIDE DEF s, u
  <2>5. s.tree = u /\ s.more = "more"
    BY <2>3, SteppedIs
  <2>6. Searching(x, u, "test")
    BY <2>4 DEF Searching
  <2> QED
    BY <2>2, <2>5, <2>6 DEF s
<1>6. t.search # "Done"
  <2> SUFFICES ASSUME t.search = "Done" PROVE FALSE
    OBVIOUS
  <2>1. FailsFilled(x, Elements(t.included))
    BY DEF Searched
  <2> QED
    BY <2>1, SearchAsks
<1> QED
  BY <1>2, <1>3, <1>4, <1>5, <1>6

\* The culprit stays in the search, and the search ends at it alone.
LEMMA HuntSimplify ==
    ASSUME NEW x \in Inputs, x.min = 0, NEW k \in 1..x.n, Culprit(x, k),
           NEW t, Searched(x, t), Hunt(x, t, k), FailsFilled(x, BySearch(t, x.n))
    PROVE  LET s == explore_step(t, x.n, TRUE)
           IN  Hunt(x, s.tree, k) /\ (s.more = "none" => s.tree.search = "Done")
<1> DEFINE s == explore_step(t, x.n, TRUE)
<1>1. x.n \in Nat /\ x.n > 0 /\ t \in Trees(x.n)
  BY InputIs DEF Searched
<1>2. t.search \in {"None", "Explore", "Recur", "Done"}
  BY <1>1 DEF Trees
<1>3. ASSUME NEW u, s = Stepped(u), u.included = t.included, u.results = t.results,
             u.search = "Explore"
      PROVE  Hunt(x, s.tree, k) /\ (s.more = "none" => s.tree.search = "Done")
  <2> HIDE DEF s
  <2>1. s.tree = u /\ s.more = "more"
    BY <1>3, SteppedIs
  <2>2. Hunt(x, u, k)
    BY <1>3 DEF Hunt
  <2> QED
    BY <2>1, <2>2
<1>4. CASE t.search = "None"
  <2> DEFINE u == [t EXCEPT !.search = "Explore"]
  <2>1. s = Stepped(u)
    BY <1>1, <1>4, StartIs
  <2>2. u.included = t.included /\ u.results = t.results /\ u.search = "Explore"
    BY <1>1 DEF Trees
  <2> HIDE DEF s, u
  <2> QED
    BY <1>3, <2>1, <2>2 DEF s
<1>5. CASE t.search = "Explore"
  <2>1. t.included # <<>>
    BY ElementsOfNone DEF Hunt
  <2>2. FailsFilled(x, Without(t, t.chunk + 1))
    BY <1>5, <2>1, SearchAsks
  <2>3. Hunt(x, s.tree, k)
    BY <1>5, <2>1, <2>2, HuntExplore
  <2>4. s.more = "more"
    BY <1>5, <2>1, <2>2, ExploreStep
  <2> QED
    BY <2>3, <2>4
<1>6. CASE t.search = "Recur"
  <2> DEFINE u == [t EXCEPT !.search = "Explore", !.chunk = 0]
  <2>1. s = Stepped(u)
    BY <1>6, RecurIs
  <2>2. u.included = t.included /\ u.results = t.results /\ u.search = "Explore"
    BY <1>1 DEF Trees
  <2> HIDE DEF s, u
  <2> QED
    BY <1>3, <2>1, <2>2 DEF s
<1>7. CASE t.search = "Done"
  <2>1. s = [tree |-> t, more |-> "none"]
    BY <1>7, DoneIs
  <2> HIDE DEF s
  <2>2. s.tree = t
    BY <2>1
  <2> QED
    BY <1>7, <2>2 DEF s
<1> QED
  BY <1>2, <1>4, <1>5, <1>6, <1>7

LEMMA HuntComplicate ==
    ASSUME NEW x \in Inputs, x.min = 0, NEW k \in 1..x.n, Culprit(x, k),
           NEW t, Searched(x, t), Hunt(x, t, k), Searching(x, t, "passed"),
           ~ FailsFilled(x, BySearch(t, x.n))
    PROVE  Hunt(x, explore_step(t, x.n, FALSE).tree, k)
<1>1. t \in Trees(x.n) /\ k \in Elements(t.included)
  BY DEF Searched, Hunt
<1>2. t.search \in {"None", "Explore", "Recur", "Done"} /\ t.included \in Seq(1..x.n)
  BY <1>1 DEF Trees
<1>3. FailsFilled(x, Elements(t.included))
  <2>1. Elements(t.included) \in SUBSET (1..x.n)
    BY <1>2, ElementsIn
  <2> QED
    BY <1>1, <2>1, CulpritDecides
<1>4. t.search \notin {"Recur", "Done"}
  BY <1>3, SearchAsks
<1>5. t.search = "Explore"
  BY <1>2, <1>4 DEF Searching
<1>6. t.included # <<>>
  BY <1>1, ElementsOfNone
<1>7. ~ FailsFilled(x, Without(t, t.chunk + 1))
  BY <1>5, <1>6, SearchAsks
<1> QED
  BY <1>5, <1>6, <1>7, HuntExplore

LEMMA CutSimplify ==
    ASSUME NEW x \in Inputs, NEW t, Cut(x, t), Fails(x.test, 1..t.current)
    PROVE  LET s == sequence_simplify(t)
           IN  /\ Cut(x, s.tree) /\ s.more \in {"more", "none"}
               /\ s.more = "none" => Fails(x.test, 1..s.tree.current)
<1> DEFINE s == sequence_simplify(t)
<1>1. /\ t \in [bound : Nat, current : Nat] /\ x.n \in Nat
      /\ t.current \in Nat /\ t.bound \in Nat /\ t.current <= t.bound /\ t.bound <= x.n
  BY InputIs DEF Cut
<1>2. CASE t.current > 0
  <2> DEFINE u == [bound |-> t.current, current |-> t.current \div 2]
  <2>1. s = Stepped(u)
    BY <1>2 DEF sequence_simplify
  <2>2. t.current \div 2 \in Nat /\ t.current \div 2 <= t.current
    BY <1>1
  <2>3. Cut(x, u)
    BY <1>1, <2>2 DEF Cut
  <2> HIDE DEF s, u
  <2>4. s.tree = u /\ s.more = "more"
    BY <2>1, SteppedIs
  <2> QED
    BY <2>3, <2>4 DEF s
<1>3. CASE ~ (t.current > 0)
  <2> DEFINE u == [t EXCEPT !.bound = t.current]
  <2>1. s = [tree |-> u, more |-> "none"]
    BY <1>3 DEF sequence_simplify
  <2>2. Cut(x, u) /\ u.current = t.current
    BY <1>1 DEF Cut
  <2> HIDE DEF s, u
  <2>3. s.tree = u /\ s.more = "none"
    BY <2>1
  <2> QED
    BY <2>2, <2>3 DEF s
<1> QED
  BY <1>2, <1>3

\* Growing back ends at the bound, which failed.
LEMMA CutComplicate ==
    ASSUME NEW x \in Inputs, NEW t, Cut(x, t)
    PROVE  LET s == sequence_complicate(t)
           IN  /\ Cut(x, s.tree) /\ s.more \in {"more", "none"}
               /\ s.more = "none" => Fails(x.test, 1..s.tree.current)
<1> DEFINE s == sequence_complicate(t)
<1>1. /\ t \in [bound : Nat, current : Nat] /\ x.n \in Nat
      /\ t.current \in Nat /\ t.bound \in Nat /\ t.current <= t.bound /\ t.bound <= x.n
      /\ Fails(x.test, 1..t.bound)
  BY InputIs DEF Cut
<1>2. CASE t.current < t.bound
  <2> DEFINE u == [t EXCEPT !.current = t.current + 1]
  <2>1. s = Stepped(u)
    BY <1>2 DEF sequence_complicate
  <2>2. t.current + 1 \in Nat /\ t.current + 1 <= t.bound
    BY <1>1, <1>2
  <2>3. Cut(x, u)
    <3>1. u \in [bound : Nat, current : Nat] /\ u.current = t.current + 1 /\ u.bound = t.bound
      BY <1>1, <2>2
    <3> HIDE DEF u
    <3> QED
      BY <1>1, <2>2, <3>1 DEF Cut
  <2> HIDE DEF s, u
  <2>4. s.tree = u /\ s.more = "more"
    BY <2>1, SteppedIs
  <2> QED
    BY <2>3, <2>4 DEF s
<1>3. CASE ~ (t.current < t.bound)
  <2>1. s = [tree |-> t, more |-> "none"]
    BY <1>3 DEF sequence_complicate
  <2> HIDE DEF s
  <2>2. s.tree = t /\ s.more = "none"
    BY <2>1
  <2>3. t.current = t.bound
    BY <1>1, <1>3
  <2> QED
    BY <1>1, <2>2, <2>3 DEF s
<1> QED
  BY <1>2, <1>3
-----------------------------------------------------------------------------
(***************************************************************************)
(* How far the search still has to go.                                     *)
(***************************************************************************)

\* A sequence within the first b elements of s, that is all of them when it has as many.
Within(p, s, b) == Len(p) <= b /\ (Len(p) = b => \A i \in 1..b : p[i] = s[i])

\* The elements of s after lo up to hi, or none.
Follows(q, s, lo, hi) ==
    q = <<>> \/ (Len(q) = hi - lo /\ \A i \in 1..(hi - lo) : q[i] = s[lo + i])

\* A chunk that is taken, or left out, keeps what is taken so far within the level.
LEMMA WithinJoins ==
    ASSUME NEW T, NEW p \in Seq(T), NEW q \in Seq(T), NEW s \in Seq(T),
           NEW lo \in Nat, NEW hi \in Nat, lo < hi,
           Within(p, s, lo), Follows(q, s, lo, hi)
    PROVE  Within(p \o q, s, hi)
<1>1. /\ Len(p) \in Nat /\ Len(q) \in Nat /\ Len(p \o q) = Len(p) + Len(q)
      /\ \A i \in 1..(Len(p) + Len(q)) :
            (p \o q)[i] = IF i <= Len(p) THEN p[i] ELSE q[i - Len(p)]
  BY ConcatProperties, LenProperties
<1>2. Len(p) <= lo /\ (Len(p) = lo => \A i \in 1..lo : p[i] = s[i])
  BY DEF Within
<1>3. CASE q = <<>>
  <2>1. Len(q) = 0
    BY <1>3
  <2>2. Len(p \o q) <= lo /\ Len(p \o q) < hi
    <3>1. Len(p) \in Nat /\ Len(p \o q) = Len(p) + Len(q)
      BY <1>1
    <3>2. Len(p \o q) = Len(p) + 0
      BY ONLY <2>1, <3>1
    <3> DEFINE a == Len(p)
               b == Len(p \o q)
    <3>3. a \in Nat /\ b = a + 0 /\ a <= lo
      BY <1>2, <3>1, <3>2
    <3> HIDE DEF a, b
    <3>4. b <= lo /\ b < hi
      BY <3>3
    <3> QED
      BY <3>4 DEF b
  <2> QED
    BY <1>1, <2>2 DEF Within
<1>4. CASE q # <<>>
  <2>1. Len(q) = hi - lo /\ \A i \in 1..(hi - lo) : q[i] = s[lo + i]
    BY <1>4 DEF Follows
  <2>2. Len(p \o q) <= hi
    BY <1>1, <1>2, <2>1
  <2>3. ASSUME Len(p \o q) = hi, NEW i \in 1..hi PROVE (p \o q)[i] = s[i]
    <3>1. Len(p) = lo
      BY <1>1, <2>1, <2>3
    <3>2. CASE i <= lo
      BY <1>1, <1>2, <2>1, <3>1, <3>2
    <3>3. CASE ~ (i <= lo)
      <4>1. i - lo \in 1..(hi - lo) /\ lo + (i - lo) = i
        BY <3>3
      <4>2. (p \o q)[i] = q[i - lo]
        BY <1>1, <2>1, <3>1, <3>3
      <4> QED
        BY <2>1, <4>1, <4>2
    <3> QED
      BY <3>2, <3>3
  <2> QED
    BY <2>2, <2>3 DEF Within
<1> QED
  BY <1>3, <1>4

\* The chunk a result is about: its records, or none of them.
LEMMA PieceIs ==
    ASSUME NEW T, NEW t, t.included \in Seq(T), NEW n \in 1..Len(t.included),
           n = num_chunks(t), NEW c \in 0..(n - 1)
    PROVE  LET q  == Piece(t, c + 1)
               lo == Before(Len(t.included), c, n)
               hi == UpTo(Len(t.included), c, n)
           IN  q \in Seq(T) /\ Follows(q, t.included, lo, hi)
<1>1. (c + 1) - 1 = c
  OBVIOUS
<1>2. Piece(t, c + 1) = <<>> \/ Piece(t, c + 1) = Chunk(t, c, n)
  BY <1>1, Zenon DEF Piece
<1>3. LET lo == Before(Len(t.included), c, n)
          hi == UpTo(Len(t.included), c, n)
      IN  /\ Chunk(t, c, n) \in Seq(T)
          /\ Len(Chunk(t, c, n)) = hi - lo
          /\ \A i \in 1..(hi - lo) : Chunk(t, c, n)[i] = t.included[lo + i]
  BY ChunkIs
<1>4. <<>> \in Seq(T)
  OBVIOUS
<1> QED
  BY <1>2, <1>3, <1>4 DEF Follows

\* A level needs no more than it has, and as much only when it needs all of it.
LEMMA NeededWithin ==
    ASSUME NEW T, NEW t, t.included \in Seq(T), t.results \in Seq(Results)
    PROVE  /\ Len(Needed(t)) \in Nat /\ Len(Needed(t)) <= Len(t.included)
           /\ Needed(t) # t.included => Len(Needed(t)) < Len(t.included)
<1> DEFINE s == t.included
           len == Len(s)
           n == num_chunks(t)
           end(c) == IF c = 0 THEN 0 ELSE UpTo(len, c - 1, n)
<1>1. n \in Nat /\ len \in Nat /\ n <= len
  BY NumChunks
<1>2. Needed(t) \in Seq(T)
  BY NeededTyped
<1>3. PICK kept \in [0..n -> Seq(T)] :
         /\ kept[0] = <<>> /\ Needed(t) = kept[n]
         /\ \A c \in 1..n : kept[c] = kept[c - 1] \o Piece(t, c)
  BY NeededIs
<1>4. CASE n = 0
  <2>1. Needed(t) = <<>>
    BY <1>3, <1>4
  <2>2. len = 0 => s = <<>>
    BY EmptySeq
  <2>3. Len(Needed(t)) = 0
    BY <2>1
  <2> QED
    BY <1>1, <2>1, <2>2, <2>3
<1>5. CASE n # 0
  <2>1. n \in 1..len
    BY <1>1, <1>5
  <2> DEFINE S == {c \in 0..n : Within(kept[c], s, end(c))}
  <2>2. 0 \in S
    BY <1>1, <1>3 DEF Within
  <2>3. ASSUME NEW c \in 0..(n - 1), c \in S PROVE c + 1 \in S
    <3>1. /\ c + 1 \in 1..n /\ c \in 0..n /\ c + 1 \in 0..n /\ (c + 1) - 1 = c
          /\ c \in Nat /\ c + 1 # 0
      BY <1>1
    <3>2. kept[c + 1] = kept[c] \o Piece(t, c + 1)
      BY <1>3, <3>1, Zenon
    <3>3. /\ Before(len, c, n) \in Nat /\ UpTo(len, c, n) \in Nat
          /\ Before(len, c, n) < UpTo(len, c, n)
      BY <1>1, <2>1, ChunkBounds
    <3>4. end(c + 1) = UpTo(len, c, n)
      BY <3>1
    <3>5. end(c) = Before(len, c, n)
      <4>1. len \div n \in Nat
        BY <1>1, <2>1, ChunkSize
      <4>2. CASE c = 0
        BY <4>1, <4>2 DEF Before
      <4>3. CASE c # 0
        <5>1. (c - 1) + 1 = c /\ c # n
          BY <1>1, <3>1
        <5> QED
          BY <4>3, <5>1, Zenon DEF Before, UpTo
      <4> QED
        BY <4>2, <4>3
    <3>6. Within(kept[c], s, Before(len, c, n)) /\ kept[c] \in Seq(T)
      BY <1>3, <2>3, <3>1, <3>5
    <3> DEFINE lo == Before(len, c, n)
               hi == UpTo(len, c, n)
               q == Piece(t, c + 1)
    <3>7. q \in Seq(T) /\ Follows(q, s, lo, hi)
      <4>1. t.included \in Seq(T) /\ n \in 1..Len(t.included) /\ n = num_chunks(t)
        BY <2>1
      <4> HIDE DEF n
      <4> QED
        BY <4>1, PieceIs
    <3>8. lo \in Nat /\ hi \in Nat /\ lo < hi /\ s \in Seq(T) /\ kept[c] \in Seq(T)
           /\ Within(kept[c], s, lo)
      BY <3>3, <3>6
    <3> HIDE DEF lo, hi, q, s
    <3>9. Within(kept[c] \o q, s, hi)
      BY ONLY <3>7, <3>8, WithinJoins
    <3> QED
      BY <3>1, <3>2, <3>4, <3>9 DEF q, hi
  <2> HIDE DEF S
  <2>4. \A c \in 0..n : c \in S
    BY <1>1, <2>2, <2>3, Induction
  <2>5. n \in 0..n
    BY <1>1
  <2>6. Within(Needed(t), s, end(n))
    BY <1>3, <2>4, <2>5 DEF S
  <2>7. end(n) = len
    <3>1. (n - 1) + 1 = n
      BY <1>1
    <3> QED
      BY <1>5, <3>1 DEF UpTo
  <2>8. Within(Needed(t), s, len)
    BY <2>6, <2>7
  <2>9. Len(Needed(t)) \in Nat
    BY <1>2, LenProperties
  <2>10. Len(Needed(t)) = len => Needed(t) = s
    BY <1>2, <2>8, SeqEqual DEF Within
  <2> QED
    BY <1>1, <2>8, <2>9, <2>10 DEF Within
<1> QED
  BY <1>4, <1>5

\* The tree part of the measure, for a tree that is not the current one.
Shorter(u, t) ==
    \/ Len(u.results) < Len(t.results)
    \/ /\ Len(u.results) = Len(t.results)
       /\ \/ Len(u.included) < Len(t.included)
          \/ Len(u.included) = Len(t.included) /\ Left(u) < Left(t)

AsLong(u, t) ==
    /\ Len(u.results) = Len(t.results)
    /\ Len(u.included) = Len(t.included)
    /\ Left(u) = Left(t)

LEMMA LeftIs ==
    ASSUME NEW t
    PROVE  /\ t.search \in {"None", "Recur"} => Left(t) = Len(t.results) + 2
           /\ t.search = "Explore" => Left(t) = num_chunks(t) - t.chunk + 1
           /\ t.search = "Done" => Left(t) = 0
<1>1. ASSUME t.search = "None" PROVE Left(t) = Len(t.results) + 2
  BY <1>1, Zenon DEF Left
<1>2. ASSUME t.search = "Recur" PROVE Left(t) = Len(t.results) + 2
  BY <1>2, Zenon DEF Left
<1>3. ASSUME t.search = "Explore" PROVE Left(t) = num_chunks(t) - t.chunk + 1
  <2>1. t.search \notin {"None", "Recur"} /\ t.search # "Done"
    BY <1>3
  <2> QED
    BY <1>3, <2>1, Zenon DEF Left
<1>4. ASSUME t.search = "Done" PROVE Left(t) = 0
  <2>1. t.search \notin {"None", "Recur"} /\ t.search # "Explore"
    BY <1>4
  <2> QED
    BY <1>4, <2>1, Zenon DEF Left
<1> QED
  BY <1>1, <1>2, <1>3, <1>4

\* The measure of a search is made of natural numbers.
LEMMA SizesAre ==
    ASSUME NEW x \in Inputs, NEW t, Searched(x, t)
    PROVE  /\ Len(t.results) \in Nat /\ Len(t.included) \in Nat /\ Left(t) \in Nat
           /\ num_chunks(t) \in Nat /\ num_chunks(t) <= Len(t.results)
<1>1. /\ t.included \in Seq(1..x.n) /\ t.results \in Seq(Results) /\ t.chunk \in Nat
      /\ t.search \in {"None", "Explore", "Recur", "Done"}
  BY DEF Searched, Trees
<1>2. /\ Len(t.results) \in Nat /\ Len(t.included) \in Nat
      /\ num_chunks(t) \in Nat /\ num_chunks(t) <= Len(t.results)
  BY <1>1, NumChunks
<1>3. t.search = "Explore" => t.chunk <= num_chunks(t)
  BY <1>1, <1>2 DEF Searched, AtLevel
<1> QED
  BY <1>1, <1>2, <1>3, LeftIs

\* A test of a level comes nearer to its end, and the end of a level to a smaller one or to
\* the end of the search.
LEMMA ExploreLowers ==
    ASSUME NEW x \in Inputs, NEW t, Searched(x, t), t.search = "Explore", t.included # <<>>,
           NEW failed \in BOOLEAN, failed <=> FailsFilled(x, Without(t, t.chunk + 1))
    PROVE  Shorter(explore_step(t, x.n, failed).tree, t)
<1> DEFINE v == explore_step(t, x.n, failed).tree
           u == Entered(t, failed)
<1>1. t \in Trees(x.n) /\ x.n \in Nat
  BY InputIs DEF Searched
<1>2. /\ u \in Trees(x.n) /\ u.included = t.included /\ u.search = "Explore"
      /\ u.chunk = t.chunk /\ Len(u.results) = Len(t.results)
      /\ num_chunks(u) = num_chunks(t)
      /\ \A c \in Nat : Without(u, c) = Without(t, c)
  BY <1>1, EnteredIs
<1>3. \/ t.chunk + 1 < num_chunks(t) /\ v = [u EXCEPT !.chunk = t.chunk + 1]
      \/ /\ t.chunk + 1 = num_chunks(t) /\ v = explore_level_finished(u)
         /\ Recorded(x, u, num_chunks(u))
  BY ExploreStep
<1>4. /\ Len(t.results) \in Nat /\ Len(t.included) \in Nat /\ Left(t) \in Nat
      /\ num_chunks(t) \in Nat /\ t.chunk \in Nat
      /\ Left(t) = num_chunks(t) - t.chunk + 1
  BY <1>1, LeftIs, SizesAre DEF Trees
<1> HIDE DEF v, u
<1>5. CASE t.chunk + 1 < num_chunks(t) /\ v = [u EXCEPT !.chunk = t.chunk + 1]
  <2>1. /\ v.included = u.included /\ v.results = u.results /\ v.search = "Explore"
        /\ v.chunk = t.chunk + 1
    BY <1>2, <1>5 DEF Trees
  <2>2. num_chunks(v) = num_chunks(t)
    BY <1>2, <2>1, Zenon DEF num_chunks
  <2>3. Left(v) = num_chunks(t) - (t.chunk + 1) + 1
    BY <2>1, <2>2, LeftIs
  <2>4. Left(v) < Left(t)
    BY <1>4, <2>3
  <2> QED
    BY <1>2, <1>4, <2>1, <2>4 DEF Shorter, v
<1>6. CASE t.chunk + 1 = num_chunks(t) /\ v = explore_level_finished(u)
           /\ Recorded(x, u, num_chunks(u))
  <2>1. FailsFilled(x, Elements(u.included))
    BY <1>2 DEF Searched, AtLevel
  <2>2. num_chunks(u) >= 1
    BY <1>2, <1>4, <1>6
  <2>3. /\ Len(v.results) = Len(u.results) /\ v.included = Needed(u)
        /\ v.search \in {"Recur", "Done"}
    BY <1>2, <1>6, <2>1, <2>2, LevelFinished
  <2>4. u.included \in Seq(1..x.n) /\ u.results \in Seq(Results)
    BY <1>2 DEF Trees
  <2>5. /\ Len(Needed(u)) \in Nat
        /\ Needed(u) # u.included => Len(Needed(u)) < Len(u.included)
    BY <2>4, NeededWithin
  <2>6. CASE Needed(u) # u.included
    BY <1>2, <1>4, <2>3, <2>5, <2>6 DEF Shorter, v
  <2>7. CASE Needed(u) = u.included
    <3>1. v.search = "Done"
      <4>1. v = [[u EXCEPT !.results = [i \in DOMAIN u.results |->
                                          IF i <= num_chunks(u) THEN "None" ELSE u.results[i]]]
                 EXCEPT !.search = "Done"]
        BY <1>6, <2>7, Zenon DEF explore_level_finished
      <4> QED
        BY <1>2, <4>1 DEF Trees
    <3>2. Left(v) = 0
      BY <3>1, LeftIs
    <3>3. Left(t) = 2
      BY <1>4, <1>6
    <3> QED
      BY <1>2, <1>4, <2>3, <2>7, <3>2, <3>3 DEF Shorter, v
  <2> QED
    BY <2>6, <2>7
<1> QED
  BY <1>3, <1>5, <1>6

\* A new level, after a failure, is what the wait for it was for.
LEMMA LevelLowers ==
    ASSUME NEW x \in Inputs, NEW t, Searched(x, t), t.search \in {"None", "Recur"},
           NEW u, u.included = t.included, u.results = t.results,
           u.search = "Explore", u.chunk = 0
    PROVE  Shorter(u, t)
<1>1. /\ Len(t.results) \in Nat /\ Len(t.included) \in Nat
      /\ num_chunks(t) \in Nat /\ num_chunks(t) <= Len(t.results)
  BY SizesAre
<1>2. num_chunks(u) = num_chunks(t)
  BY Zenon DEF num_chunks
<1>3. Left(t) = Len(t.results) + 2 /\ Left(u) = num_chunks(t) - 0 + 1
  BY <1>2, LeftIs
<1>4. Left(u) < Left(t)
  BY <1>1, <1>3
<1> QED
  BY <1>1, <1>4 DEF Shorter

\* A step down leaves less to search, or ends the search.
LEMMA SimplifyLowers ==
    ASSUME NEW x \in Inputs, NEW t, Searched(x, t), Searching(x, t, "failed"),
           FailsFilled(x, BySearch(t, x.n))
    PROVE  LET s == explore_step(t, x.n, TRUE)
           IN  Shorter(s.tree, t) \/ (AsLong(s.tree, t) /\ s.more = "none")
<1> DEFINE s == explore_step(t, x.n, TRUE)
<1>1. t \in Trees(x.n) /\ x.n \in Nat /\ t.search \in {"None", "Explore", "Recur", "Done"}
  BY InputIs DEF Searched, Trees
<1>2. CASE t.search = "None"
  <2>1. CASE x.n > 0
    <3> DEFINE u == [t EXCEPT !.search = "Explore"]
    <3>1. s = Stepped(u)
      BY <1>2, <2>1, StartIs
    <3>2. /\ u.included = t.included /\ u.results = t.results /\ u.search = "Explore"
          /\ u.chunk = 0
      BY <1>1, <1>2 DEF Trees, Searched, AtStart
    <3> HIDE DEF s, u
    <3>3. s.tree = u
      BY <3>1, SteppedIs
    <3> QED
      BY <1>2, <3>2, <3>3, LevelLowers DEF s
  <2>2. CASE ~ (x.n > 0)
    <3>1. s = [tree |-> t, more |-> "none"]
      BY <1>2, <2>2, StartIs
    <3>2. AsLong(t, t)
      BY DEF AsLong
    <3> HIDE DEF s
    <3>3. s.tree = t /\ s.more = "none"
      BY <3>1
    <3> QED
      BY <3>2, <3>3 DEF s
  <2> QED
    BY <2>1, <2>2
<1>3. CASE t.search = "Explore" /\ t.included = <<>>
  <2> DEFINE u == Entered(t, TRUE)
  <2>1. s = [tree |-> u, more |-> "none"]
    BY <1>3, EmptyLevel
  <2>2. /\ u.included = t.included /\ u.search = t.search /\ u.chunk = t.chunk
        /\ Len(u.results) = Len(t.results) /\ num_chunks(u) = num_chunks(t)
    BY <1>1, EnteredIs
  <2> HIDE DEF s, u
  <2>3. Left(u) = Left(t)
    BY <1>3, <2>2, LeftIs
  <2>4. s.tree = u /\ s.more = "none"
    BY <2>1
  <2> QED
    BY <2>2, <2>3, <2>4 DEF AsLong, s
<1>4. CASE t.search = "Explore" /\ t.included # <<>>
  <2>1. FailsFilled(x, Without(t, t.chunk + 1))
    BY <1>4, SearchAsks
  <2> QED
    BY <1>4, <2>1, ExploreLowers
<1>5. CASE t.search = "Recur"
  <2> DEFINE u == [t EXCEPT !.search = "Explore", !.chunk = 0]
  <2>1. s = Stepped(u)
    BY <1>5, RecurIs
  <2>2. /\ u.included = t.included /\ u.results = t.results /\ u.search = "Explore"
        /\ u.chunk = 0
    BY <1>1 DEF Trees
  <2> HIDE DEF s, u
  <2>3. s.tree = u
    BY <2>1, SteppedIs
  <2> QED
    BY <1>5, <2>2, <2>3, LevelLowers DEF s
<1>6. CASE t.search = "Done"
  <2>1. s = [tree |-> t, more |-> "none"]
    BY <1>6, DoneIs
  <2>2. AsLong(t, t)
    BY DEF AsLong
  <2> HIDE DEF s
  <2>3. s.tree = t /\ s.more = "none"
    BY <2>1
  <2> QED
    BY <2>2, <2>3 DEF s
<1> QED
  BY <1>1, <1>2, <1>3, <1>4, <1>5, <1>6

\* A step back leaves less to search: the chunks grow.
LEMMA ComplicateLowers ==
    ASSUME NEW x \in Inputs, NEW t, Searched(x, t), Searching(x, t, "passed"),
           ~ FailsFilled(x, BySearch(t, x.n))
    PROVE  Shorter(explore_step(t, x.n, FALSE).tree, t)
<1> DEFINE s == explore_step(t, x.n, FALSE)
<1>1. t \in Trees(x.n) /\ x.n \in Nat /\ t.search \in {"None", "Explore", "Recur", "Done"}
  BY InputIs DEF Searched, Trees
<1>2. t.search # "None"
  BY DEF Searching
<1>3. t.search # "Done"
  BY SearchAsks DEF Searched
<1>4. CASE t.search = "Explore"
  <2>1. t.included # <<>>
    <3>1. FailsFilled(x, Elements(t.included))
      BY <1>4 DEF Searched, AtLevel
    <3> QED
      BY <1>4, <3>1, SearchAsks
  <2>2. ~ FailsFilled(x, Without(t, t.chunk + 1))
    BY <1>4, <2>1, SearchAsks
  <2> QED
    BY <1>4, <2>1, <2>2, ExploreLowers
<1>5. CASE t.search = "Recur"
  <2>1. ~ FailsFilled(x, Elements(t.included))
    BY <1>5, SearchAsks
  <2>2. Len(t.results) # 1 /\ t.last # {}
    BY <1>5, <2>1, RecurPasses
  <2>3. s = Stepped(TakeBack(t))
    BY <1>5, <2>2, RecurIs
  <2>4. Len(t.results) \in Nat /\ Len(t.results) >= 2
    <3> DEFINE m == Len(t.results)
    <3>1. m \in Nat
      BY SizesAre
    <3>2. m >= 1
      BY <1>5 DEF Searched
    <3>3. m # 1
      BY <2>2
    <3> HIDE DEF m
    <3>4. m >= 2
      BY <3>1, <3>2, <3>3
    <3> QED
      BY <3>1, <3>4 DEF m
  <2>5. Len(t.results) \div 2 \in Nat /\ Len(t.results) \div 2 < Len(t.results)
    BY <2>4, Half
  <2>6. TakeBack(t).results = Nones(Len(t.results) \div 2)
    BY <1>1 DEF TakeBack, Trees
  <2>7. Len(TakeBack(t).results) = Len(t.results) \div 2
    BY <2>5, <2>6, NonesAre
  <2> HIDE DEF s
  <2>8. s.tree = TakeBack(t)
    BY <2>3, SteppedIs
  <2> QED
    BY <2>5, <2>7, <2>8 DEF Shorter, s
<1> QED
  BY <1>1, <1>2, <1>3, <1>4, <1>5

-----------------------------------------------------------------------------
(***************************************************************************)
(* The steps of the runner.                                                *)
(***************************************************************************)
LEMMA CurrentRecords ==
    ASSUME IsRecords
    PROVE  Fails(given.test, current) <=> FailsFilled(given, BySearch(tree, given.n))
BY DEF current, record_mask, FailsFilled

LEMMA CurrentSequence ==
    ASSUME ~ IsRecords
    PROVE  current = 1..tree.current
BY DEF current

LEMMA KindKept ==
    ASSUME given' = given
    PROVE  IsRecords' <=> IsRecords
BY DEF IsRecords

LEMMA Started == ShrinkInit => ShrinkInv /\ HuntInv
<1> SUFFICES ASSUME ShrinkInit PROVE ShrinkInv /\ HuntInv
  OBVIOUS
<1>1. /\ given \in Inputs /\ Fails(given.test, 1..given.n) /\ runner = "failed"
      /\ tree = IF IsRecords THEN records_new(given.n) ELSE sequence_new(given.n)
  BY DEF ShrinkInit
<1>2. given.n \in Nat /\ given.min \in Nat
  BY <1>1, InputIs
<1>3. CASE IsRecords
  <2>1. tree = records_new(given.n)
    BY <1>1, <1>3
  <2>2. Searched(given, tree)
    BY <1>1, <2>1, SearchBegins
  <2>3. tree.search = "None"
    BY <2>1 DEF records_new
  <2>4. Searching(given, tree, runner)
    BY <1>1, <2>3 DEF Searching
  <2>5. Fails(given.test, current)
    <3>1. BySearch(tree, given.n) = 1..given.n
      BY <1>1, <2>2, <2>3, SearchAsks
    <3>2. FailsFilled(given, BySearch(tree, given.n))
      BY <1>1, <3>1, FilledWhole DEF FailsFilled
    <3> QED
      BY <1>3, <3>2, CurrentRecords
  <2>6. ShrinkInv
    BY <1>1, <1>3, <2>2, <2>4, <2>5 DEF ShrinkInv, Tested
  <2>7. HuntInv
    <3> SUFFICES ASSUME NEW k \in 1..given.n
                 PROVE  Hunt(given, tree, k) /\ (runner = "done" => tree.search = "Done")
      BY DEF HuntInv
    <3>1. tree.included = Ascending(given.n)
          /\ tree.results = Nones(Lesser(given.n, ExploreChunks))
      BY <2>1 DEF records_new
    <3>2. Lesser(given.n, ExploreChunks) \in Nat
      BY <1>1, <1>2, InputIs DEF Lesser
    <3>3. Len(tree.results) = Lesser(given.n, ExploreChunks)
      BY <3>1, <3>2, NonesAre
    <3>4. Distinct(tree.included) /\ k \in Elements(tree.included)
      BY <1>2, <3>1, AscendingIs
    <3> QED
      BY <1>1, <2>3, <3>3, <3>4 DEF Hunt
  <2> QED
    BY <2>6, <2>7
<1>4. CASE ~ IsRecords
  <2>1. tree = [bound |-> given.n, current |-> given.n]
    BY <1>1, <1>4 DEF sequence_new
  <2>2. Cut(given, tree)
    BY <1>1, <1>2, <2>1 DEF Cut
  <2>3. Fails(given.test, current)
    BY <1>1, <1>4, <2>1, CurrentSequence
  <2>4. ShrinkInv
    BY <1>1, <1>4, <2>2, <2>3 DEF ShrinkInv, Tested
  <2> QED
    BY <1>4, <2>4 DEF HuntInv
<1> QED
  BY <1>3, <1>4

\* What a step that goes to a next tree must show.
LEMMA RecordsKept ==
    ASSUME given' = given, given \in Inputs, IsRecords, Searched(given, tree'),
           runner' \in {"failed", "passed", "test", "done"},
           Searching(given, tree', runner'),
           runner' \in {"failed", "done"} => FailsFilled(given, BySearch(tree', given.n)),
           runner' = "passed" => ~ FailsFilled(given, BySearch(tree', given.n))
    PROVE  ShrinkInv'
<1>1. IsRecords'
  BY KindKept
<1>2. Fails(given'.test, current') <=> FailsFilled(given, BySearch(tree', given.n))
  BY <1>1 DEF current, record_mask, FailsFilled
<1>3. Tested'
  BY <1>2 DEF Tested
<1> QED
  BY <1>1, <1>3 DEF ShrinkInv

LEMMA SequenceKept ==
    ASSUME given' = given, given \in Inputs, ~ IsRecords, Cut(given, tree'),
           runner' \in {"failed", "passed", "test", "giveup", "done"},
           runner' \in {"failed", "done"} => Fails(given.test, 1..tree'.current),
           runner' = "passed" => ~ Fails(given.test, 1..tree'.current)
    PROVE  ShrinkInv'
<1>1. ~ IsRecords'
  BY KindKept
<1>2. current' = 1..tree'.current
  BY <1>1 DEF current
<1>3. Tested'
  BY <1>2 DEF Tested
<1> QED
  BY <1>1, <1>3 DEF ShrinkInv

LEMMA SimplifyKeeps == ShrinkInv /\ Simplify => ShrinkInv'
<1> SUFFICES ASSUME ShrinkInv, Simplify PROVE ShrinkInv'
  OBVIOUS
<1>1. /\ given \in Inputs /\ given' = given /\ runner = "failed"
      /\ tree' = simplify.tree
      /\ simplify.more = "more" => runner' = "test"
      /\ simplify.more = "none" => runner' = "done"
      /\ Fails(given.test, current)
  BY DEF ShrinkInv, Simplify, After, Tested
<1>2. CASE IsRecords
  <2> DEFINE s == explore_step(tree, given.n, TRUE)
  <2>1. simplify = s
    BY <1>2 DEF simplify
  <2>2. /\ Searched(given, s.tree)
        /\ \/ s.more = "more" /\ Searching(given, s.tree, "test")
           \/ /\ s.more = "none" /\ Searching(given, s.tree, "done")
              /\ FailsFilled(given, BySearch(s.tree, given.n))
    <3>1. Searched(given, tree) /\ Searching(given, tree, "failed")
      BY <1>1, <1>2 DEF ShrinkInv
    <3>2. FailsFilled(given, BySearch(tree, given.n))
      BY <1>1, <1>2, CurrentRecords
    <3> QED
      BY <1>1, <3>1, <3>2, SimplifyRecords
  <2> HIDE DEF s
  <2> QED
    BY <1>1, <1>2, <2>1, <2>2, RecordsKept
<1>3. CASE ~ IsRecords
  <2> DEFINE s == sequence_simplify(tree)
  <2>1. simplify = s
    BY <1>3 DEF simplify
  <2>2. /\ Cut(given, s.tree) /\ s.more \in {"more", "none"}
        /\ s.more = "none" => Fails(given.test, 1..s.tree.current)
    BY <1>1, <1>3, CurrentSequence, CutSimplify DEF ShrinkInv
  <2> HIDE DEF s
  <2> QED
    BY <1>1, <1>3, <2>1, <2>2, SequenceKept
<1> QED
  BY <1>2, <1>3

LEMMA ComplicateKeeps == ShrinkInv /\ Complicate => ShrinkInv'
<1> SUFFICES ASSUME ShrinkInv, Complicate PROVE ShrinkInv'
  OBVIOUS
<1>1. /\ given \in Inputs /\ given' = given /\ runner = "passed"
      /\ tree' = complicate.tree
      /\ complicate.more = "more" => runner' = "test"
      /\ complicate.more = "none" => runner' = "done"
      /\ ~ Fails(given.test, current)
  BY DEF ShrinkInv, Complicate, After, Tested
<1>2. CASE IsRecords
  <2> DEFINE s == explore_step(tree, given.n, FALSE)
  <2>1. complicate = s
    BY <1>2 DEF complicate
  <2>2. Searched(given, s.tree) /\ s.more = "more" /\ Searching(given, s.tree, "test")
    <3>1. Searched(given, tree) /\ Searching(given, tree, "passed")
      BY <1>1, <1>2 DEF ShrinkInv
    <3>2. ~ FailsFilled(given, BySearch(tree, given.n))
      BY <1>1, <1>2, CurrentRecords
    <3> QED
      BY <1>1, <3>1, <3>2, ComplicateRecords
  <2> HIDE DEF s
  <2> QED
    BY <1>1, <1>2, <2>1, <2>2, RecordsKept
<1>3. CASE ~ IsRecords
  <2> DEFINE s == sequence_complicate(tree)
  <2>1. complicate = s
    BY <1>3 DEF complicate
  <2>2. /\ Cut(given, s.tree) /\ s.more \in {"more", "none"}
        /\ s.more = "none" => Fails(given.test, 1..s.tree.current)
    BY <1>1, <1>3, CutComplicate DEF ShrinkInv
  <2> HIDE DEF s
  <2> QED
    BY <1>1, <1>3, <2>1, <2>2, SequenceKept
<1> QED
  BY <1>2, <1>3

LEMMA RunTestKeeps == ShrinkInv /\ RunTest => ShrinkInv'
<1> SUFFICES ASSUME ShrinkInv, RunTest PROVE ShrinkInv'
  OBVIOUS
<1>1. /\ given \in Inputs /\ given' = given /\ tree' = tree /\ runner = "test"
      /\ runner' = IF Fails(given.test, current) THEN "failed" ELSE "passed"
  BY DEF ShrinkInv, RunTest
<1>2. CASE IsRecords
  <2>1. Searched(given, tree) /\ Searching(given, tree, "test")
    BY <1>1, <1>2 DEF ShrinkInv
  <2>2. Searching(given, tree, runner')
    BY <1>1, <2>1 DEF Searching
  <2>3. /\ runner' \in {"failed", "done"} => FailsFilled(given, BySearch(tree, given.n))
        /\ runner' = "passed" => ~ FailsFilled(given, BySearch(tree, given.n))
    BY <1>1, <1>2, CurrentRecords
  <2>4. runner' \in {"failed", "passed", "test", "done"}
    BY <1>1
  <2> QED
    BY <1>1, <1>2, <2>1, <2>2, <2>3, <2>4, RecordsKept
<1>3. CASE ~ IsRecords
  <2>1. Cut(given, tree)
    BY <1>3 DEF ShrinkInv
  <2>2. /\ runner' \in {"failed", "passed"}
        /\ runner' = "failed" => Fails(given.test, 1..tree.current)
        /\ runner' = "passed" => ~ Fails(given.test, 1..tree.current)
    BY <1>1, <1>3, CurrentSequence
  <2> QED
    BY <1>1, <1>3, <2>1, <2>2, SequenceKept
<1> QED
  BY <1>2, <1>3

LEMMA BackKeeps == ShrinkInv /\ (GiveUp \/ MoveBack) => ShrinkInv'
<1>1. ASSUME ShrinkInv, GiveUp PROVE ShrinkInv'
  <2>1. /\ given \in Inputs /\ given' = given /\ tree' = tree /\ ~ IsRecords
        /\ runner' = "giveup" /\ Cut(given, tree)
    BY <1>1 DEF ShrinkInv, GiveUp
  <2> QED
    BY <2>1, SequenceKept
<1>2. ASSUME ShrinkInv, MoveBack PROVE ShrinkInv'
  <2>1. /\ given \in Inputs /\ given' = given /\ runner = "giveup"
        /\ tree' = complicate.tree
        /\ complicate.more = "more" => runner' = "giveup"
        /\ complicate.more = "none" => runner' = "done"
    BY <1>2 DEF ShrinkInv, MoveBack, After
  <2>2. ~ IsRecords
    BY <1>2, <2>1 DEF ShrinkInv, Searching
  <2> DEFINE s == sequence_complicate(tree)
  <2>3. complicate = s
    BY <2>2 DEF complicate
  <2>4. /\ Cut(given, s.tree) /\ s.more \in {"more", "none"}
        /\ s.more = "none" => Fails(given.test, 1..s.tree.current)
    BY <1>2, <2>1, <2>2, CutComplicate DEF ShrinkInv
  <2> HIDE DEF s
  <2> QED
    BY <2>1, <2>2, <2>3, <2>4, SequenceKept
<1> QED
  BY <1>1, <1>2

LEMMA Unchanged == (ShrinkInv /\ UNCHANGED shrinkVars => ShrinkInv')
BY DEF ShrinkInv, shrinkVars, IsRecords, Tested, current, record_mask

LEMMA HuntKept == ShrinkInv /\ HuntInv /\ [ShrinkNext]_shrinkVars => HuntInv'
<1> SUFFICES ASSUME ShrinkInv, HuntInv, [ShrinkNext]_shrinkVars PROVE HuntInv'
  OBVIOUS
<1>1. given' = given /\ given \in Inputs
  BY DEF ShrinkNext, Simplify, Complicate, RunTest, GiveUp, MoveBack, After, shrinkVars, ShrinkInv
<1>2. SUFFICES ASSUME IsRecords, given.min = 0, NEW k \in 1..given.n, Culprit(given, k)
      PROVE  Hunt(given, tree', k) /\ (runner' = "done" => tree'.search = "Done")
  BY <1>1, KindKept DEF HuntInv
<1>3. /\ Searched(given, tree) /\ Searching(given, tree, runner)
      /\ Hunt(given, tree, k) /\ (runner = "done" => tree.search = "Done")
  BY <1>2 DEF ShrinkInv, HuntInv
<1>4. CASE Simplify
  <2> DEFINE s == explore_step(tree, given.n, TRUE)
  <2>1. /\ simplify = s /\ tree' = simplify.tree /\ runner = "failed"
        /\ simplify.more = "more" => runner' = "test"
    BY <1>2, <1>4 DEF Simplify, After, simplify
  <2>2. FailsFilled(given, BySearch(tree, given.n))
    BY <1>2, <2>1, CurrentRecords DEF ShrinkInv, Tested
  <2>3. Hunt(given, s.tree, k) /\ (s.more = "none" => s.tree.search = "Done")
    BY <1>1, <1>2, <1>3, <2>2, HuntSimplify
  <2>4. s.more \in {"more", "none"}
    BY <1>1, <1>3, <2>1, <2>2, SimplifyRecords
  <2> HIDE DEF s
  <2> QED
    BY <2>1, <2>3, <2>4
<1>5. CASE Complicate
  <2> DEFINE s == explore_step(tree, given.n, FALSE)
  <2>1. /\ complicate = s /\ tree' = complicate.tree /\ runner = "passed"
        /\ complicate.more = "more" => runner' = "test"
    BY <1>2, <1>5 DEF Complicate, After, complicate
  <2>2. ~ FailsFilled(given, BySearch(tree, given.n))
    BY <1>2, <2>1, CurrentRecords DEF ShrinkInv, Tested
  <2>3. Hunt(given, s.tree, k)
    BY <1>1, <1>2, <1>3, <2>1, <2>2, HuntComplicate
  <2>4. s.more = "more"
    BY <1>1, <1>3, <2>1, <2>2, ComplicateRecords
  <2> HIDE DEF s
  <2> QED
    BY <2>1, <2>3, <2>4
<1>6. CASE RunTest
  <2>1. tree' = tree /\ runner' # "done"
    BY <1>6 DEF RunTest
  <2> QED
    BY <1>3, <2>1
<1>7. CASE GiveUp \/ MoveBack
  BY <1>2, <1>3, <1>7 DEF GiveUp, MoveBack, Searching
<1>8. CASE UNCHANGED shrinkVars
  BY <1>3, <1>8 DEF shrinkVars
<1> QED
  BY <1>4, <1>5, <1>6, <1>7, <1>8 DEF ShrinkNext

\* The current value keeps the minimum of records.
LEMMA KeepsMinimum ==
    ASSUME ShrinkInv, IsRecords
    PROVE  Cardinality(current) >= given.min
<1>1. given \in Inputs /\ Searched(given, tree)
  BY DEF ShrinkInv
<1>2. given.n \in Nat /\ given.min \in Nat /\ given.min <= given.n
  BY <1>1, InputIs
<1>3. BySearch(tree, given.n) \in SUBSET (1..given.n)
  BY <1>1, SearchAsks
<1>4. current = FilledUp(BySearch(tree, given.n), given.n, given.min)
  BY DEF current, record_mask
<1> QED
  BY <1>2, <1>3, <1>4, FilledEnough

LEMMA FindsCulprit == ShrinkInv /\ HuntInv => ShrinkFindsCulprit
<1> SUFFICES ASSUME ShrinkInv, HuntInv PROVE ShrinkFindsCulprit
  OBVIOUS
<1>1. runner = "done" => Fails(given.test, current)
  BY DEF ShrinkInv, Tested
<1>2. runner # "panic"
  BY DEF ShrinkInv
<1>3. ASSUME runner = "done", IsRecords, given.min = 0, NEW k \in 1..given.n,
             \A S \in SUBSET (1..given.n) : Fails(given.test, S) <=> k \in S
      PROVE  current = {k}
  <2>1. Culprit(given, k)
    BY <1>3 DEF Culprit
  <2>2. Hunt(given, tree, k) /\ tree.search = "Done"
    BY <1>3, <2>1 DEF HuntInv
  <2>3. given \in Inputs /\ Searched(given, tree)
    BY <1>3 DEF ShrinkInv
  <2>4. BySearch(tree, given.n) = {k} /\ BySearch(tree, given.n) \in SUBSET (1..given.n)
    BY <2>2, <2>3, SearchAsks DEF Hunt
  <2>5. FilledUp(BySearch(tree, given.n), given.n, given.min) = BySearch(tree, given.n)
    BY <1>3, <2>3, <2>4, InputIs, FilledIn
  <2> QED
    BY <1>3, <2>4, <2>5 DEF current, record_mask
<1> QED
  BY <1>1, <1>2, <1>3, KeepsMinimum DEF ShrinkFindsCulprit

\* Whatever the test, the number of records and the number of chunks: what shrinking
\* reports fails the test and has at least the minimum of records, the search reaches none
\* of its unreachable!(), and when one record alone decides the test and no minimum is
\* asked for, that record is all that is reported (RecordsValueTree and SequenceValueTree).
THEOREM ShrinkingFindsTheCulprit == ShrinkSpec => []ShrinkFindsCulprit
<1>1. ShrinkInv /\ [ShrinkNext]_shrinkVars => ShrinkInv'
  BY SimplifyKeeps, ComplicateKeeps, RunTestKeeps, BackKeeps, Unchanged DEF ShrinkNext
<1>2. ShrinkInit => ShrinkInv /\ HuntInv
  BY Started
<1>3. ShrinkInv /\ HuntInv /\ [ShrinkNext]_shrinkVars => HuntInv'
  BY HuntKept
<1>4. ShrinkInv /\ HuntInv => ShrinkFindsCulprit
  BY FindsCulprit
<1> QED
  BY <1>1, <1>2, <1>3, <1>4, PTL DEF ShrinkSpec

-----------------------------------------------------------------------------
(***************************************************************************)
(* Every step of the search lowers the measure.                            *)
(***************************************************************************)
LEMMA LowerAre ==
    ASSUME NEW a \in Nat, NEW b \in Nat, NEW c \in Nat, NEW d \in Nat,
           NEW e \in Nat, NEW f \in Nat, NEW g \in Nat, NEW h \in Nat
    PROVE  /\ <<a, b, c, d>> \in [1..4 -> Nat]
           /\ e < a => Lower(<<e, f, g, h>>, <<a, b, c, d>>)
           /\ e = a /\ f < b => Lower(<<e, f, g, h>>, <<a, b, c, d>>)
           /\ e = a /\ f = b /\ g < c => Lower(<<e, f, g, h>>, <<a, b, c, d>>)
           /\ e = a /\ f = b /\ g = c /\ h < d => Lower(<<e, f, g, h>>, <<a, b, c, d>>)
<1> DEFINE m == <<e, f, g, h>>
           n == <<a, b, c, d>>
<1>1. /\ m[1] = e /\ m[2] = f /\ m[3] = g /\ m[4] = h
      /\ n[1] = a /\ n[2] = b /\ n[3] = c /\ n[4] = d
      /\ <<a, b, c, d>> \in [1..4 -> Nat]
  OBVIOUS
<1> HIDE DEF m, n
<1>2. /\ 1 \in 1..4 /\ 2 \in 1..4 /\ 3 \in 1..4 /\ 4 \in 1..4
      /\ 1..(1 - 1) = {} /\ 1..(2 - 1) = {1} /\ 1..(3 - 1) = {1, 2} /\ 1..(4 - 1) = {1, 2, 3}
  OBVIOUS
<1>3. ASSUME e < a PROVE Lower(m, n)
  <2>1. m[1] < n[1] /\ \A j \in 1..(1 - 1) : m[j] = n[j]
    BY <1>1, <1>2, <1>3
  <2> QED
    BY <1>2, <2>1, Zenon DEF Lower
<1>4. ASSUME e = a, f < b PROVE Lower(m, n)
  <2>1. m[2] < n[2] /\ \A j \in 1..(2 - 1) : m[j] = n[j]
    BY <1>1, <1>2, <1>4
  <2> QED
    BY <1>2, <2>1, Zenon DEF Lower
<1>5. ASSUME e = a, f = b, g < c PROVE Lower(m, n)
  <2>1. m[3] < n[3] /\ \A j \in 1..(3 - 1) : m[j] = n[j]
    BY <1>1, <1>2, <1>5
  <2> QED
    BY <1>2, <2>1, Zenon DEF Lower
<1>6. ASSUME e = a, f = b, g = c, h < d PROVE Lower(m, n)
  <2>1. m[4] < n[4] /\ \A j \in 1..(4 - 1) : m[j] = n[j]
    BY <1>1, <1>2, <1>6
  <2> QED
    BY <1>2, <2>1, Zenon DEF Lower
<1> QED
  BY <1>1, <1>3, <1>4, <1>5, <1>6 DEF m, n

LEMMA PendingIs ==
    ASSUME NEW r
    PROVE  /\ Pending(r) \in Nat
           /\ r = "test" => Pending(r) = 2
           /\ r \in {"failed", "passed", "giveup"} => Pending(r) = 1
           /\ r = "done" => Pending(r) = 0
<1>1. r = "test" => Pending(r) = 2
  BY Zenon DEF Pending
<1>2. ASSUME r \in {"failed", "passed", "giveup"} PROVE Pending(r) = 1
  <2>1. r # "test"
    BY <1>2
  <2> QED
    BY <1>2, <2>1, Zenon DEF Pending
<1>3. ASSUME r # "test", r \notin {"failed", "passed", "giveup"} PROVE Pending(r) = 0
  BY <1>3, Zenon DEF Pending
<1> QED
  BY <1>1, <1>2, <1>3

LEMMA MeasureIs ==
    ASSUME ShrinkInv
    PROVE  /\ Measure \in [1..4 -> Nat]
           /\ IsRecords =>
                 /\ Measure = <<Len(tree.results), Len(tree.included), Left(tree), Pending(runner)>>
                 /\ Len(tree.results) \in Nat /\ Len(tree.included) \in Nat
                 /\ Left(tree) \in Nat
           /\ ~ IsRecords =>
                 /\ Measure = <<0, 0, tree.bound - tree.current, Pending(runner)>>
                 /\ tree.bound - tree.current \in Nat
<1>1. Pending(runner) \in Nat
  BY PendingIs
<1>2. CASE IsRecords
  <2>1. Measure = <<Len(tree.results), Len(tree.included), Left(tree), Pending(runner)>>
    BY <1>2 DEF Measure
  <2>2. Searched(given, tree) /\ given \in Inputs
    BY <1>2 DEF ShrinkInv
  <2>3. /\ Len(tree.results) \in Nat /\ Len(tree.included) \in Nat
        /\ Left(tree) \in Nat
    BY <2>2, SizesAre
  <2>4. <<Len(tree.results), Len(tree.included), Left(tree), Pending(runner)>> \in [1..4 -> Nat]
    BY <1>1, <2>3, LowerAre
  <2> QED
    BY <1>2, <2>1, <2>3, <2>4
<1>3. CASE ~ IsRecords
  <2>1. Measure = <<0, 0, tree.bound - tree.current, Pending(runner)>>
    BY <1>3 DEF Measure
  <2>2. tree.bound - tree.current \in Nat
    BY <1>3 DEF ShrinkInv, Cut
  <2>3. 0 \in Nat
    OBVIOUS
  <2>4. <<0, 0, tree.bound - tree.current, Pending(runner)>> \in [1..4 -> Nat]
    BY <1>1, <2>2, <2>3, LowerAre
  <2> QED
    BY <1>3, <2>1, <2>2, <2>4
<1> QED
  BY <1>2, <1>3

\* A step that leaves the runner with less to do, or the search.
LEMMA RecordsLower ==
    ASSUME ShrinkInv, ShrinkInv', given' = given, IsRecords,
           Shorter(tree', tree) \/ (AsLong(tree', tree) /\ Pending(runner') < Pending(runner))
    PROVE  Lower(Measure', Measure)
<1>1. IsRecords'
  BY KindKept
<1>2. /\ Measure = <<Len(tree.results), Len(tree.included), Left(tree), Pending(runner)>>
      /\ Len(tree.results) \in Nat /\ Len(tree.included) \in Nat /\ Left(tree) \in Nat
  BY MeasureIs
<1>3. /\ Measure' = <<Len(tree'.results), Len(tree'.included), Left(tree'), Pending(runner')>>
      /\ Len(tree'.results) \in Nat /\ Len(tree'.included) \in Nat /\ Left(tree') \in Nat
  <2>1. Searched(given, tree') /\ given \in Inputs
    BY <1>1 DEF ShrinkInv
  <2>2. /\ Len(tree'.results) \in Nat /\ Len(tree'.included) \in Nat
        /\ Left(tree') \in Nat
    BY <2>1, SizesAre
  <2>3. Measure' = <<Len(tree'.results), Len(tree'.included), Left(tree'), Pending(runner')>>
    BY <1>1 DEF Measure, Left, num_chunks, Lesser
  <2> QED
    BY <2>2, <2>3
<1>4. Pending(runner) \in Nat /\ Pending(runner') \in Nat
  BY PendingIs
<1> DEFINE a == Len(tree.results)
           b == Len(tree.included)
           c == Left(tree)
           d == Pending(runner)
           e == Len(tree'.results)
           f == Len(tree'.included)
           g == Left(tree')
           h == Pending(runner')
<1>5. /\ a \in Nat /\ b \in Nat /\ c \in Nat /\ d \in Nat
      /\ e \in Nat /\ f \in Nat /\ g \in Nat /\ h \in Nat
      /\ Measure = <<a, b, c, d>> /\ Measure' = <<e, f, g, h>>
  BY <1>2, <1>3, <1>4
<1>6. \/ e < a
      \/ e = a /\ f < b
      \/ e = a /\ f = b /\ g < c
      \/ e = a /\ f = b /\ g = c /\ h < d
  BY DEF Shorter, AsLong
<1> HIDE DEF a, b, c, d, e, f, g, h
<1> QED
  BY ONLY <1>5, <1>6, LowerAre

LEMMA StepLowers ==
    ASSUME ShrinkInv, ShrinkInv', ShrinkNext, IsRecords \/ runner = "giveup"
    PROVE  Lower(Measure', Measure)
<1>1. given \in Inputs /\ given' = given
  BY DEF ShrinkInv, ShrinkNext, Simplify, Complicate, RunTest, GiveUp, MoveBack, After
<1>2. ASSUME IsRecords, Simplify PROVE Lower(Measure', Measure)
  <2> DEFINE s == explore_step(tree, given.n, TRUE)
  <2>1. /\ simplify = s /\ tree' = simplify.tree /\ runner = "failed"
        /\ simplify.more = "none" => runner' = "done"
    BY <1>2 DEF Simplify, After, simplify
  <2>2. FailsFilled(given, BySearch(tree, given.n))
    BY <1>2, <2>1, CurrentRecords DEF ShrinkInv, Tested
  <2>3. Searched(given, tree) /\ Searching(given, tree, "failed")
    BY <1>2, <2>1 DEF ShrinkInv
  <2>4. Shorter(s.tree, tree) \/ (AsLong(s.tree, tree) /\ s.more = "none")
    BY <1>1, <2>2, <2>3, SimplifyLowers
  <2> HIDE DEF s
  <2>5. runner' = "done" => Pending(runner') < Pending(runner)
    <3>1. Pending(runner) = 1
      BY <2>1, PendingIs
    <3>2. runner' = "done" => Pending(runner') = 0
      BY PendingIs
    <3> QED
      BY <3>1, <3>2
  <2> QED
    BY <1>1, <1>2, <2>1, <2>4, <2>5, RecordsLower
<1>3. ASSUME IsRecords, Complicate PROVE Lower(Measure', Measure)
  <2> DEFINE s == explore_step(tree, given.n, FALSE)
  <2>1. complicate = s /\ tree' = complicate.tree /\ runner = "passed"
    BY <1>3 DEF Complicate, After, complicate
  <2>2. ~ FailsFilled(given, BySearch(tree, given.n))
    BY <1>3, <2>1, CurrentRecords DEF ShrinkInv, Tested
  <2>3. Searched(given, tree) /\ Searching(given, tree, "passed")
    BY <1>3, <2>1 DEF ShrinkInv
  <2>4. Shorter(s.tree, tree)
    BY <1>1, <2>2, <2>3, ComplicateLowers
  <2> HIDE DEF s
  <2> QED
    BY <1>1, <1>3, <2>1, <2>4, RecordsLower
<1>4. ASSUME IsRecords, RunTest PROVE Lower(Measure', Measure)
  <2>1. tree' = tree /\ runner = "test" /\ runner' \in {"failed", "passed"}
    BY <1>4 DEF RunTest
  <2>2. AsLong(tree', tree)
    BY <2>1 DEF AsLong
  <2>3. Pending(runner) = 2
    BY <2>1, PendingIs
  <2>4. Pending(runner') = 1
    <3>1. runner' \in {"failed", "passed", "giveup"} => Pending(runner') = 1
      BY PendingIs
    <3> QED
      BY <2>1, <3>1
  <2>5. Pending(runner') < Pending(runner)
    BY <2>3, <2>4
  <2> QED
    BY <1>1, <1>4, <2>2, <2>5, RecordsLower
<1>5. ASSUME IsRecords, GiveUp \/ MoveBack PROVE FALSE
  BY <1>5 DEF GiveUp, MoveBack, ShrinkInv, Searching
<1>6. ASSUME ~ IsRecords, MoveBack PROVE Lower(Measure', Measure)
  <2> DEFINE s == sequence_complicate(tree)
             c == tree.bound - tree.current
             g == tree'.bound - tree'.current
  <2>1. /\ complicate = s /\ tree' = complicate.tree /\ runner = "giveup"
        /\ complicate.more = "none" => runner' = "done"
    BY <1>6 DEF MoveBack, After, complicate
  <2>2. /\ Measure = <<0, 0, c, Pending(runner)>> /\ c \in Nat
    BY <1>6, MeasureIs
  <2>3. ~ IsRecords'
    BY <1>1, <1>6, KindKept
  <2>4. /\ Measure' = <<0, 0, g, Pending(runner')>> /\ g \in Nat
    <3>1. Cut(given', tree')
      BY <2>3 DEF ShrinkInv
    <3>2. g \in Nat
      BY <3>1 DEF Cut
    <3> QED
      BY <2>3, <3>2 DEF Measure
  <2>5. tree \in [bound : Nat, current : Nat]
    BY <1>6 DEF ShrinkInv, Cut
  <2>6. Pending(runner) \in Nat /\ Pending(runner') \in Nat /\ 0 \in Nat
    BY PendingIs
  <2>7. CASE tree.current < tree.bound
    <3>1. tree' = [tree EXCEPT !.current = tree.current + 1]
      BY <2>1, <2>7, SteppedIs DEF sequence_complicate
    <3>2. g < c
      BY <2>5, <3>1
    <3> HIDE DEF c, g
    <3> QED
      BY <2>2, <2>4, <2>6, <3>2, LowerAre
  <2>8. CASE ~ (tree.current < tree.bound)
    <3>1. tree' = tree /\ runner' = "done"
      BY <2>1, <2>8 DEF sequence_complicate
    <3>2. g = c
      BY <3>1
    <3>3. Pending(runner) = 1
      BY <2>1, PendingIs
    <3>4. runner' = "done" => Pending(runner') = 0
      BY PendingIs
    <3>5. Pending(runner') < Pending(runner)
      BY <3>1, <3>3, <3>4
    <3> HIDE DEF c, g
    <3> QED
      BY <2>2, <2>4, <2>6, <3>2, <3>5, LowerAre
  <2> QED
    BY <2>7, <2>8
<1>7. ASSUME ~ IsRecords PROVE MoveBack
  BY <1>7 DEF ShrinkNext, Simplify, Complicate, RunTest, GiveUp
<1> QED
  BY <1>2, <1>3, <1>4, <1>5, <1>6, <1>7 DEF ShrinkNext

\* Nothing is lowered for ever: whatever sequence of measures, some step of it does not
\* lower the one before.
THEOREM NothingLowersForEver ==
    \A f \in [Nat -> [1..4 -> Nat]] : \E k \in Nat : ~ Lower(f[k + 1], f[k])
<1> DEFINE T == [1..4 -> Nat]
           R == OpToRel(<, Nat)
           L == LexProductOrdering(R, Nat, 4)
<1> SUFFICES ASSUME NEW f \in [Nat -> T], \A k \in Nat : Lower(f[k + 1], f[k]) PROVE FALSE
  OBVIOUS
<1>1. IsWellFoundedOn(L, T)
  <2>1. IsWellFoundedOn(R, Nat) /\ 4 \in Nat
    BY NatLessThanWellFounded
  <2> HIDE DEF R
  <2> QED
    BY <2>1, WFLexProductOrdering
<1>2. ASSUME NEW m \in T, NEW n \in T, Lower(m, n) PROVE <<m, n>> \in L
  <2>1. PICK i \in 1..4 : m[i] < n[i] /\ \A j \in 1..(i - 1) : m[j] = n[j]
    BY <1>2 DEF Lower
  <2>2. <<m[i], n[i]>> \in R
    BY <2>1 DEF OpToRel
  <2> HIDE DEF R
  <2> QED
    BY <2>1, <2>2 DEF LexProductOrdering
<1> HIDE DEF L
<1>3. \A k \in Nat : <<f[k + 1], f[k]>> \in L
  <2> HIDE DEF T
  <2> QED
    BY <1>2
<1> QED
  BY <1>1, <1>3 DEF IsWellFoundedOn

\* Every step of a search of records, and of the way back to the last failure of a
\* sequence, lowers the measure, so that neither goes on for ever (ShrinkProgress).
THEOREM ShrinkingGoesDown == ShrinkSpec => ShrinkProgress
<1>1. ShrinkInv /\ [ShrinkNext]_shrinkVars => ShrinkInv'
  BY SimplifyKeeps, ComplicateKeeps, RunTestKeeps, BackKeeps, Unchanged DEF ShrinkNext
<1>2. ShrinkInit => ShrinkInv
  BY Started
<1>3. ShrinkInv => Measure \in [1..4 -> Nat]
  BY MeasureIs
<1> DEFINE Typed == Measure \in [1..4 -> Nat]
<1>4. ASSUME ShrinkInv, ShrinkInv', Typed, Typed', [ShrinkNext]_shrinkVars
      PROVE  [IsRecords \/ runner = "giveup" =>
                 /\ Measure \in [1..4 -> Nat] /\ Measure' \in [1..4 -> Nat]
                 /\ Lower(Measure', Measure)]_shrinkVars
  <2>1. CASE UNCHANGED shrinkVars
    BY <2>1
  <2>2. CASE ShrinkNext
    BY <1>4, <2>2, StepLowers
  <2> QED
    BY <1>4, <2>1, <2>2
<1> QED
  BY <1>1, <1>2, <1>3, <1>4, PTL DEF ShrinkSpec, ShrinkProgress

=============================================================================
