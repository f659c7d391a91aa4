---------------------------- MODULE Values_proofs ----------------------------
(***************************************************************************)
(* What the operations on values do for every type, length and number:     *)
(* that the tables of datatypes agree and conversions to Arrow return;     *)
(* that slices are in a total order, of which the intersections and unions *)
(* of ranges and of subarrays and the counts of their cells are made; that *)
(* what the strategies draw is read back; and what query conditions mean   *)
(* and shrink to.                                                          *)
(***************************************************************************)
EXTENDS Values, FiniteSetTheorems, WellFoundedInduction, TLAPS

-----------------------------------------------------------------------------
(* Ranges: the order of slices, intersection and union.                    *)

\* A set of numbers has a least one.
LEMMA LeastNat ==
    ASSUME NEW S, S \subseteq Nat, S # {}
    PROVE  Min(S) \in S /\ \A y \in S : Min(S) <= y
<1>1. IsWellFoundedOn(OpToRel(<, Nat), Nat)
  BY NatLessThanWellFounded
<1>2. PICK x \in S : \A y \in S : ~ (<<y, x>> \in OpToRel(<, Nat))
  BY <1>1, WFMin
<1>3. \A y \in S : ~ (y < x)
  BY <1>2 DEF OpToRel
<1>4. x \in S /\ \A y \in S : x <= y
  BY <1>3
<1> QED
  BY <1>4 DEF Min

\* The slices differ first at k.
Differ(s, t, k) ==
    /\ k \in 1..Len(s) /\ k \in 1..Len(t)
    /\ s[k] # t[k]
    /\ \A j \in 1..(k - 1) : s[j] = t[j]

\* Neither does: one is a prefix of the other.
AgreeOnBoth(s, t) == \A j \in 1..Len(s) : j \in 1..Len(t) => s[j] = t[j]

\* What slice_bits_cmp goes by.
LEMMA Compared ==
    ASSUME NEW s \in Seq(Int), NEW t \in Seq(Int)
    PROVE  \/ \E k \in Nat : Differ(s, t, k) /\ slice_bits_cmp(s, t) = bits_cmp(s[k], t[k])
           \/ AgreeOnBoth(s, t) /\ slice_bits_cmp(s, t) = bits_cmp(Len(s), Len(t))
<1> DEFINE differ == {i \in DOMAIN s \cap DOMAIN t : bits_cmp(s[i], t[i]) # Equal}
<1>1. differ = {i \in 1..Len(s) : i \in 1..Len(t) /\ s[i] # t[i]}
  BY DEF bits_cmp, Less, Equal, Greater
<1>2. slice_bits_cmp(s, t) = IF differ # {} THEN bits_cmp(s[Min(differ)], t[Min(differ)])
                             ELSE bits_cmp(Len(s), Len(t))
  BY DEF slice_bits_cmp
<1> HIDE DEF differ
<1>3. CASE differ # {}
  <2> DEFINE k == Min(differ)
  <2>1. k \in differ /\ \A y \in differ : k <= y
    <3>1. differ \subseteq Nat
      BY <1>1
    <3> QED
      BY <1>3, <3>1, LeastNat
  <2> HIDE DEF k
  <2>2. k \in 1..Len(s) /\ k \in 1..Len(t) /\ s[k] # t[k]
    BY <1>1, <2>1
  <2>3. ASSUME NEW j \in 1..(k - 1) PROVE s[j] = t[j]
    <3>1. j \in 1..Len(s) /\ j \in 1..Len(t) /\ ~ (k <= j)
      BY <2>2
    <3> QED
      BY <1>1, <2>1, <3>1
  <2>4. slice_bits_cmp(s, t) = bits_cmp(s[k], t[k])
    BY <1>2, <1>3 DEF k
  <2> QED
    BY <2>2, <2>3, <2>4 DEF Differ
<1>4. CASE differ = {}
  BY <1>1, <1>2, <1>4 DEF AgreeOnBoth
<1> QED
  BY <1>3, <1>4

\* One of three, and opposite the other way round.
LEMMA Opposite ==
    ASSUME NEW s \in Seq(Int), NEW t \in Seq(Int)
    PROVE  lt(s, t) <=> ~ le(t, s)
  BY Compared DEF lt, le, bits_cmp, Less, Equal, Greater, Differ, AgreeOnBoth

\* s is before t at their first difference; or is a prefix of it.
Before(s, t) == \E k \in Nat : Differ(s, t, k) /\ s[k] < t[k]
Starts(s, t) == AgreeOnBoth(s, t) /\ Len(s) <= Len(t)

\* Slices that compare as equal are equal.
LEMMA Ordering ==
    ASSUME NEW s \in Seq(Int), NEW t \in Seq(Int)
    PROVE  le(s, t) <=> Before(s, t) \/ Starts(s, t)
<1>1. CASE \E k \in Nat : Differ(s, t, k) /\ slice_bits_cmp(s, t) = bits_cmp(s[k], t[k])
  <2>1. PICK k \in Nat : Differ(s, t, k) /\ slice_bits_cmp(s, t) = bits_cmp(s[k], t[k])
    BY <1>1
  <2>2. le(s, t) <=> s[k] < t[k]
    BY <2>1 DEF le, bits_cmp, Less, Equal, Greater, Differ
  <2>3. ~ Starts(s, t)
    BY <2>1 DEF Starts, AgreeOnBoth, Differ
  <2>4. ASSUME NEW m \in Nat, Differ(s, t, m) PROVE m = k
    BY <2>1, <2>4 DEF Differ
  <2> QED
    BY <2>1, <2>2, <2>3, <2>4 DEF Before
<1>2. CASE AgreeOnBoth(s, t) /\ slice_bits_cmp(s, t) = bits_cmp(Len(s), Len(t))
  <2>1. le(s, t) <=> Len(s) <= Len(t)
    BY <1>2 DEF le, bits_cmp, Less, Equal, Greater
  <2>2. ~ Before(s, t)
    BY <1>2 DEF Before, AgreeOnBoth, Differ
  <2> QED
    BY <1>2, <2>1, <2>2 DEF Starts
<1> QED
  BY <1>1, <1>2, Compared

\* The order of slices is transitive.
LEMMA Transitive ==
    ASSUME NEW s \in Seq(Int), NEW t \in Seq(Int), NEW u \in Seq(Int), le(s, t), le(t, u)
    PROVE  le(s, u)
<1>1. SUFFICES Before(s, u) \/ Starts(s, u)
  BY Ordering
<1>2. CASE Before(s, t) /\ Before(t, u)
  <2>1. PICK k \in Nat, m \in Nat : Differ(s, t, k) /\ s[k] < t[k] /\ Differ(t, u, m) /\ t[m] < u[m]
    BY <1>2 DEF Before
  <2>2. \A j \in Nat : 0 < j /\ j < k => s[j] = t[j]
    BY <2>1 DEF Differ
  <2>3. \A j \in Nat : 0 < j /\ j < m => t[j] = u[j]
    BY <2>1 DEF Differ
  <2>4. PICK n \in Nat : n = IF k < m THEN k ELSE m
    OBVIOUS
  <2>5. n \in 1..Len(s) /\ n \in 1..Len(t) /\ n \in 1..Len(u)
    BY <2>1, <2>4 DEF Differ
  <2>6. s[n] < u[n]
    <3>1. s[n] \in Int /\ t[n] \in Int /\ u[n] \in Int
      BY <2>5
    <3>2. CASE k < m
      BY <2>1, <2>3, <2>4, <2>5, <3>1, <3>2
    <3>3. CASE m < k
      BY <2>1, <2>2, <2>4, <2>5, <3>1, <3>3
    <3>4. CASE k = m
      BY <2>1, <2>4, <3>1, <3>4
    <3> QED
      BY <3>2, <3>3, <3>4
  <2>7. s[n] # u[n]
    <3>1. s[n] \in Int /\ u[n] \in Int
      BY <2>5
    <3> QED
      BY <2>6, <3>1
  <2>8. \A j \in 1..(n - 1) : s[j] = u[j]
    BY <2>2, <2>3, <2>4
  <2> QED
    BY <2>5, <2>6, <2>7, <2>8 DEF Before, Differ
<1>3. CASE Before(s, t) /\ Starts(t, u)
  <2>1. PICK k \in Nat : Differ(s, t, k) /\ s[k] < t[k]
    BY <1>3 DEF Before
  <2>2. \A j \in 1..k : j \in 1..Len(t) /\ j \in 1..Len(u) /\ t[j] = u[j]
    BY <1>3, <2>1 DEF Starts, AgreeOnBoth, Differ
  <2>3. k \in 1..Len(s) /\ k \in 1..Len(u) /\ k \in 1..k /\ t[k] = u[k]
    BY <2>1, <2>2 DEF Differ
  <2>4. \A j \in 1..(k - 1) : s[j] = u[j]
    BY <2>1, <2>2 DEF Differ
  <2> QED
    BY <2>1, <2>3, <2>4 DEF Before, Differ
<1>4. CASE Starts(s, t) /\ Before(t, u)
  <2>1. PICK m \in Nat : Differ(t, u, m) /\ t[m] < u[m]
    BY <1>4 DEF Before
  <2>2. \A j \in 1..Len(s) : j \in 1..Len(t) /\ s[j] = t[j]
    BY <1>4 DEF Starts, AgreeOnBoth
  <2>3. CASE m <= Len(s)
    <3>1. m \in 1..Len(s) /\ m \in 1..Len(u) /\ s[m] = t[m]
      BY <2>1, <2>2, <2>3 DEF Differ
    <3>2. \A j \in 1..(m - 1) : s[j] = u[j]
      BY <2>1, <2>2, <2>3 DEF Differ
    <3> QED
      BY <2>1, <3>1, <3>2 DEF Before, Differ
  <2>4. CASE Len(s) < m
    BY <2>1, <2>2, <2>4 DEF Starts, AgreeOnBoth, Differ
  <2> QED
    BY <2>3, <2>4
<1>5. CASE Starts(s, t) /\ Starts(t, u)
  <2>1. \A j \in 1..Len(s) : j \in 1..Len(t) /\ s[j] = t[j]
    BY <1>5 DEF Starts, AgreeOnBoth
  <2>2. \A j \in 1..Len(t) : j \in 1..Len(u) /\ t[j] = u[j]
    BY <1>5 DEF Starts, AgreeOnBoth
  <2>3. Len(s) <= Len(u)
    BY <1>5 DEF Starts
  <2> QED
    BY <2>1, <2>2, <2>3 DEF Starts, AgreeOnBoth
<1> QED
  BY <1>2, <1>3, <1>4, <1>5, Ordering
\* Of two slices one is below the other.
LEMMA Total ==
    ASSUME NEW s \in Seq(Int), NEW t \in Seq(Int)
    PROVE  le(s, t) \/ le(t, s)
  BY Opposite DEF le, lt, Less, Greater
-----------------------------------------------------------------------------
\* What Bounds makes of two ordered ranges: the slices in both, of bounds that are theirs.
LEMMA BoundsMeet ==
    ASSUME NEW l, NEW r, {l.lo, l.hi, r.lo, r.hi} \subseteq Seq(Int), Ordered(l), Ordered(r)
    PROVE  /\ \A v \in Seq(Int) :
                 (Inside(v, l) /\ Inside(v, r)) <=> \E b \in Bounds(l, r) : le(b[1], v) /\ le(v, b[2])
           /\ \A b \in Bounds(l, r) : /\ b = <<b[1], b[2]>>
                                      /\ b[1] \in {l.lo, r.lo} /\ b[2] \in {l.hi, r.hi}
                                      /\ le(b[1], b[2])
<1>1. /\ l.lo \in Seq(Int) /\ l.hi \in Seq(Int) /\ r.lo \in Seq(Int) /\ r.hi \in Seq(Int)
      /\ le(l.lo, l.hi) /\ le(r.lo, r.hi)
  BY DEF Ordered
<1>2. CASE lt(l.hi, r.lo) \/ lt(r.hi, l.lo)
  <2>1. Bounds(l, r) = {}
    BY <1>2 DEF Bounds
  <2>2. ASSUME NEW v \in Seq(Int), Inside(v, l), Inside(v, r) PROVE FALSE
    BY <1>1, <1>2, <2>2, Opposite, Transitive DEF Inside
  <2> QED
    BY <2>1, <2>2
<1>3. CASE ~ (lt(l.hi, r.lo) \/ lt(r.hi, l.lo))
  <2> DEFINE lo == IF lt(l.lo, r.lo) THEN r.lo ELSE l.lo
             hi == IF lt(r.hi, l.hi) THEN r.hi ELSE l.hi
  <2>1. Bounds(l, r) = {<<lo, hi>>}
    BY <1>3 DEF Bounds
  <2>2. lo \in {l.lo, r.lo} /\ hi \in {l.hi, r.hi} /\ lo \in Seq(Int) /\ hi \in Seq(Int)
    BY <1>1
  <2>3. le(l.lo, lo) /\ le(r.lo, lo) /\ le(hi, l.hi) /\ le(hi, r.hi)
    BY <1>1, Opposite, Total
  <2>4. le(lo, hi)
    BY <1>1, <1>3, Opposite
  <2>5. ASSUME NEW v \in Seq(Int) PROVE (Inside(v, l) /\ Inside(v, r)) <=> le(lo, v) /\ le(v, hi)
    <3>1. le(lo, v) /\ le(v, hi) => Inside(v, l) /\ Inside(v, r)
      BY <1>1, <2>2, <2>3, Transitive DEF Inside
    <3> QED
      BY <2>2, <3>1 DEF Inside
  <2> HIDE DEF lo, hi
  <2> QED
    BY <2>1, <2>2, <2>4, <2>5
<1> QED
  BY <1>2, <1>3

\* What Around makes of them: bounds that are theirs, around both.
LEMMA AroundCovers ==
    ASSUME NEW l, NEW r, {l.lo, l.hi, r.lo, r.hi} \subseteq Seq(Int), Ordered(l), Ordered(r)
    PROVE  /\ Around(l, r)[1] \in {l.lo, r.lo} /\ Around(l, r)[2] \in {l.hi, r.hi}
           /\ le(Around(l, r)[1], Around(l, r)[2])
           /\ \A v \in Seq(Int) : Inside(v, l) \/ Inside(v, r) => le(Around(l, r)[1], v) /\ le(v, Around(l, r)[2])
<1>1. /\ l.lo \in Seq(Int) /\ l.hi \in Seq(Int) /\ r.lo \in Seq(Int) /\ r.hi \in Seq(Int)
      /\ le(l.lo, l.hi) /\ le(r.lo, r.hi)
  BY DEF Ordered
<1> DEFINE lo == IF lt(l.lo, r.lo) THEN l.lo ELSE r.lo
           hi == IF lt(r.hi, l.hi) THEN l.hi ELSE r.hi
<1>2. Around(l, r)[1] = lo /\ Around(l, r)[2] = hi
  BY DEF Around
<1>3. lo \in {l.lo, r.lo} /\ hi \in {l.hi, r.hi} /\ lo \in Seq(Int) /\ hi \in Seq(Int)
  BY <1>1
<1>4. le(lo, l.lo) /\ le(lo, r.lo) /\ le(l.hi, hi) /\ le(r.hi, hi)
  BY <1>1, Opposite, Total
<1> HIDE DEF lo, hi
<1>5. le(lo, hi)
  BY <1>1, <1>3, <1>4, Transitive
<1>6. ASSUME NEW v \in Seq(Int), Inside(v, l) \/ Inside(v, r) PROVE le(lo, v) /\ le(v, hi)
  BY <1>1, <1>3, <1>4, <1>6, Transitive DEF Inside
<1> QED
  BY <1>2, <1>3, <1>5, <1>6
-----------------------------------------------------------------------------
RangeOf(kind, T, lo, hi) == [kind |-> kind, type |-> T, lo |-> lo, hi |-> hi]

\* The ranges of a kind and type, of n values for a cell where that is fixed.
RangesOf(kind, T, n) ==
    {RangeOf(kind, T, b[1], b[2]) :
        b \in {c \in Seq(Int) \X Seq(Int) :
                  /\ kind = "Single" => Len(c[1]) = 1 /\ Len(c[2]) = 1
                  /\ kind = "Multi" => Len(c[1]) = n /\ Len(c[2]) = n}}

\* What RangesOf puts into a range.
LEMMA PartsOfRange ==
    ASSUME NEW kind, NEW T, NEW n \in Nat, NEW r \in RangesOf(kind, T, n)
    PROVE  /\ r = RangeOf(kind, T, r.lo, r.hi) /\ r.kind = kind /\ r.type = T
           /\ r.lo \in Seq(Int) /\ r.hi \in Seq(Int)
           /\ kind = "Single" => Len(r.lo) = 1 /\ Len(r.hi) = 1
           /\ kind = "Multi" => Len(r.lo) = n /\ Len(r.hi) = n
  BY DEF RangesOf, RangeOf

\* A slice of one value.
LEMMA OneValue ==
    ASSUME NEW s \in Seq(Int), Len(s) = 1
    PROVE  <<s[1]>> = s
  OBVIOUS

\* Whatever the kind: ranges of the kind and type, and of the bounds of the two.
LEMMA Meet ==
    ASSUME NEW kind \in {"Single", "Multi", "Var"}, NEW T, NEW n \in Nat, n > 1,
           NEW l \in RangesOf(kind, T, n), NEW r \in RangesOf(kind, T, n), Ordered(l), Ordered(r)
    PROVE  intersection(l, r) = {RangeOf(kind, T, b[1], b[2]) : b \in Bounds(l, r)}
<1>1. /\ l.kind = kind /\ r.kind = kind /\ l.type = T /\ r.type = T
      /\ {l.lo, l.hi, r.lo, r.hi} \subseteq Seq(Int)
      /\ kind = "Single" => \A s \in {l.lo, l.hi, r.lo, r.hi} : Len(s) = 1
      /\ kind = "Multi" => \A s \in {l.lo, l.hi, r.lo, r.hi} : Len(s) = n
  BY PartsOfRange
<1>2. \A b \in Bounds(l, r) : b[1] \in {l.lo, r.lo} /\ b[2] \in {l.hi, r.hi}
  BY <1>1, BoundsMeet
<1>3. CASE kind = "Single"
  <2>1. intersection(l, r) = {Single(T, b[1][1], b[2][1]) : b \in Bounds(l, r)}
    BY <1>1, <1>3 DEF intersection, single_intersection, single_value_range_cmp
  <2>2. ASSUME NEW b \in Bounds(l, r) PROVE Single(T, b[1][1], b[2][1]) = RangeOf(kind, T, b[1], b[2])
    <3>1. <<b[1][1]>> = b[1] /\ <<b[2][1]>> = b[2]
      BY <1>1, <1>2, <1>3, OneValue
    <3> QED
      BY <1>3, <3>1 DEF Single, RangeOf
  <2> QED
    BY <2>1, <2>2
<1>4. CASE kind = "Multi"
  <2>1. intersection(l, r) = UNION {Multi(T, n, b[1], b[2]) : b \in Bounds(l, r)}
    BY <1>1, <1>4 DEF intersection, multi_intersection, multi_value_range_cmp, num_values,
                      cell_val_num, multi_cell_val_num
  <2>2. ASSUME NEW b \in Bounds(l, r) PROVE Multi(T, n, b[1], b[2]) = {RangeOf(kind, T, b[1], b[2])}
    <3>1. Len(b[1]) = n /\ Len(b[2]) = n
      BY <1>1, <1>2, <1>4
    <3>2. multi_check(n, b[1], b[2]) = "Ok"
      BY <3>1 DEF multi_check, CellValNumVar
    <3> QED
      BY <1>4, <3>2 DEF Multi, MultiRange, RangeOf
  <2> QED
    BY <2>1, <2>2
<1>5. CASE kind = "Var"
  BY <1>1, <1>5 DEF intersection, var_intersection, var_value_range_cmp, VarRange, RangeOf
<1> QED
  BY <1>3, <1>4, <1>5

\* The union is the range around both.
LEMMA Join ==
    ASSUME NEW kind \in {"Single", "Multi", "Var"}, NEW T, NEW n \in Nat, n > 1,
           NEW l \in RangesOf(kind, T, n), NEW r \in RangesOf(kind, T, n), Ordered(l), Ordered(r)
    PROVE  range_union(l, r) = {RangeOf(kind, T, Around(l, r)[1], Around(l, r)[2])}
<1>1. /\ l.kind = kind /\ r.kind = kind /\ l.type = T /\ r.type = T
      /\ {l.lo, l.hi, r.lo, r.hi} \subseteq Seq(Int)
      /\ kind = "Single" => \A s \in {l.lo, l.hi, r.lo, r.hi} : Len(s) = 1
      /\ kind = "Multi" => \A s \in {l.lo, l.hi, r.lo, r.hi} : Len(s) = n
  BY PartsOfRange
<1> DEFINE lo == Around(l, r)[1]  hi == Around(l, r)[2]
<1>2. lo \in {l.lo, r.lo} /\ hi \in {l.hi, r.hi}
  BY <1>1, AroundCovers
<1>3. CASE kind = "Single"
  <2>1. range_union(l, r) = {Single(T, lo[1], hi[1])}
    BY <1>1, <1>3 DEF range_union, single_union, single_value_range_cmp
  <2> HIDE DEF lo, hi
  <2>2. <<lo[1]>> = lo /\ <<hi[1]>> = hi
    BY <1>1, <1>2, <1>3, OneValue
  <2>3. Single(T, lo[1], hi[1]) = RangeOf(kind, T, lo, hi)
    BY <1>3, <2>2 DEF Single, RangeOf
  <2> QED
    BY <2>1, <2>3 DEF lo, hi
<1>4. CASE kind = "Multi"
  <2>1. range_union(l, r) = Multi(T, n, lo, hi)
    BY <1>1, <1>4 DEF range_union, multi_union, multi_value_range_cmp, num_values,
                      cell_val_num, multi_cell_val_num
  <2> HIDE DEF lo, hi
  <2>2. Len(lo) = n /\ Len(hi) = n
    BY <1>1, <1>2, <1>4
  <2>3. multi_check(n, lo, hi) = "Ok"
    BY <2>2 DEF multi_check, CellValNumVar
  <2>4. Multi(T, n, lo, hi) = {RangeOf(kind, T, lo, hi)}
    BY <1>4, <2>3 DEF Multi, MultiRange, RangeOf
  <2> QED
    BY <2>1, <2>4 DEF lo, hi
<1>5. CASE kind = "Var"
  BY <1>1, <1>5 DEF range_union, var_union, var_value_range_cmp, VarRange, RangeOf
<1> QED
  BY <1>3, <1>4, <1>5

\* Of two ordered ranges of one kind and type, whatever their bounds and their length:
\* neither operation panics, a cell is in the intersection exactly if it is in both, and
\* the union holds both and has no other bounds than theirs (common/src/range.rs).
THEOREM RangesMeetAndJoin ==
    ASSUME NEW kind \in {"Single", "Multi", "Var"}, NEW T, NEW n \in Nat, n > 1,
           NEW l \in RangesOf(kind, T, n), NEW r \in RangesOf(kind, T, n), Ordered(l), Ordered(r),
           NEW cells \in SUBSET Seq(Int)
    PROVE  MeetAndJoin(l, r, cells)
<1> DEFINE both == intersection(l, r)
           hull == range_union(l, r)
           u    == RangeOf(kind, T, Around(l, r)[1], Around(l, r)[2])
<1>1. {l.lo, l.hi, r.lo, r.hi} \subseteq Seq(Int) /\ l.kind = kind
  BY PartsOfRange
<1>2. both = {RangeOf(kind, T, b[1], b[2]) : b \in Bounds(l, r)} /\ hull = {u}
  BY Meet, Join
<1>3. both # Panicked
  <2>1. \A b \in both : b.kind = kind
    BY <1>2 DEF RangeOf
  <2>2. [kind |-> "panic"] \in Panicked /\ [kind |-> "panic"].kind = "panic"
    BY DEF Panicked
  <2> QED
    BY <2>1, <2>2
<1>4. Cardinality(hull) = 1
  BY <1>2, FS_Singleton
<1>5. \A v \in cells : (Inside(v, l) /\ Inside(v, r)) <=> \E b \in both : Inside(v, b)
  <2>1. ASSUME NEW v \in cells, NEW b \in Bounds(l, r)
        PROVE  Inside(v, RangeOf(kind, T, b[1], b[2])) <=> le(b[1], v) /\ le(v, b[2])
    BY DEF Inside, RangeOf
  <2> SUFFICES ASSUME NEW v \in cells
               PROVE  (Inside(v, l) /\ Inside(v, r)) <=> \E b \in both : Inside(v, b)
    OBVIOUS
  <2>2. (Inside(v, l) /\ Inside(v, r)) <=> \E b \in Bounds(l, r) : le(b[1], v) /\ le(v, b[2])
    <3>1. v \in Seq(Int)
      OBVIOUS
    <3> QED
      BY <1>1, <3>1, BoundsMeet
  <2>3. (\E b \in both : Inside(v, b)) <=> \E b \in Bounds(l, r) : Inside(v, RangeOf(kind, T, b[1], b[2]))
    BY <1>2
  <2>4. (\E b \in Bounds(l, r) : Inside(v, RangeOf(kind, T, b[1], b[2])))
            <=> \E b \in Bounds(l, r) : le(b[1], v) /\ le(v, b[2])
    BY <2>1
  <2> QED
    BY <2>2, <2>3, <2>4
<1>6. \A x \in hull : /\ Ordered(x)
                      /\ x.lo \in {l.lo, r.lo} /\ x.hi \in {l.hi, r.hi}
                      /\ \A v \in cells : Inside(v, l) \/ Inside(v, r) => Inside(v, x)
  <2>1. u.lo = Around(l, r)[1] /\ u.hi = Around(l, r)[2]
    BY DEF RangeOf
  <2> HIDE DEF u
  <2>2. /\ u.lo \in {l.lo, r.lo} /\ u.hi \in {l.hi, r.hi} /\ le(u.lo, u.hi)
        /\ \A v \in Seq(Int) : Inside(v, l) \/ Inside(v, r) => le(u.lo, v) /\ le(v, u.hi)
    BY <1>1, <2>1, AroundCovers
  <2> QED
    BY <1>2, <2>2 DEF Ordered, Inside
<1>7. \A b \in both : Ordered(b) /\ b.kind = l.kind
  <2>1. \A b \in Bounds(l, r) : le(b[1], b[2])
    BY <1>1, BoundsMeet
  <2> QED
    BY <1>1, <1>2, <2>1 DEF Ordered, RangeOf
<1> QED
  BY <1>3, <1>4, <1>5, <1>6, <1>7 DEF MeetAndJoin

-----------------------------------------------------------------------------
(* Datatypes and their Arrow types.                                        *)

\* The datatypes, by name.
Named == {"Int32", "Int64", "Float32", "Float64", "Char", "Int8", "UInt8", "Int16",
    "UInt16", "UInt32", "UInt64", "StringAscii", "StringUtf8", "StringUtf16", "StringUtf32",
    "StringUcs2", "StringUcs4", "Any", "DateTimeYear", "DateTimeMonth", "DateTimeWeek",
    "DateTimeDay", "DateTimeHour", "DateTimeMinute", "DateTimeSecond", "DateTimeMillisecond",
    "DateTimeMicrosecond", "DateTimeNanosecond", "DateTimePicosecond", "DateTimeFemtosecond",
    "DateTimeAttosecond", "TimeHour", "TimeMinute", "TimeSecond", "TimeMillisecond",
    "TimeMicrosecond", "TimeNanosecond", "TimePicosecond", "TimeFemtosecond",
    "TimeAttosecond", "Blob", "Boolean", "GeometryWkb", "GeometryWkt"}

\* Datatypes are those of the names.
LEMMA DatatypesNamed == Datatypes \subseteq Named
<1>1. Len(Variants) = 44 /\ \A i \in 1..44 : Variants[i] \in Named
  BY DEF Variants, Named
<1>2. DOMAIN Variants = 1..44
  BY DEF Variants
<1> QED
  BY <1>1, <1>2 DEF Datatypes, ToSet

\* The C codes of datatypes are different.
LEMMA CodesReturn ==
    ASSUME NEW dt \in Datatypes
    PROVE  to_ffi(dt) \in 0..43 /\ try_from_ffi(to_ffi(dt)) = dt
<1>1. Len(Variants) = 44 /\ DOMAIN Variants = 1..44
  BY DEF Variants
<1>2. PICK i \in 1..44 : Variants[i] = dt
  BY <1>1 DEF Datatypes, ToSet
<1>3. \E k \in 0..(Len(Variants) - 1) : Variants[k + 1] = dt
  <2>1. i - 1 \in 0..(Len(Variants) - 1) /\ (i - 1) + 1 = i
    BY <1>1
  <2> QED
    BY <1>2, <2>1
<1>4. to_ffi(dt) \in 0..(Len(Variants) - 1) /\ Variants[to_ffi(dt) + 1] = dt
  BY <1>3, Zenon DEF to_ffi
<1> QED
  BY <1>1, <1>4 DEF try_from_ffi

\* The two tables of physical types agree.
LEMMA PhysicalTypes ==
    ASSUME NEW dt \in Datatypes, NEW T \in PhysicalType
    PROVE  /\ physical(dt) \in PhysicalType
           /\ is_compatible_type(dt, T) <=> physical(dt) = T
  BY DatatypesNamed DEF Named, PhysicalType, physical, is_compatible_type

\* The tables of dimension types agree with the predicates.
LEMMA DimensionTypes ==
    ASSUME NEW dt \in Datatypes
    PROVE  /\ dt \in DENSE_DIMENSION_DATATYPES <=> is_allowed_dimension_type_dense(dt)
           /\ dt \in SPARSE_DIMENSION_DATATYPES <=> is_allowed_dimension_type_sparse(dt)
  BY DatatypesNamed DEF Named, DENSE_DIMENSION_DATATYPES, SPARSE_DIMENSION_DATATYPES,
        is_allowed_dimension_type_dense, is_allowed_dimension_type_sparse, is_integral_type,
        is_datetime_type, is_time_type

\* All tables of a datatype agree.
LEMMA AllTablesAgree ==
    ASSUME NEW dt \in Datatypes
    PROVE  TablesAgree(dt)
<1>1. \A T \in PhysicalType : is_compatible_type(dt, T) <=> T = physical(dt)
  BY PhysicalTypes
<1>2. physical(dt) \in PhysicalType
  BY PhysicalTypes DEF PhysicalType
<1>3. {T \in PhysicalType : is_compatible_type(dt, T)} = {physical(dt)}
  BY <1>1, <1>2
<1> QED
  BY <1>3, CodesReturn, DimensionTypes DEF TablesAgree
-----------------------------------------------------------------------------
\* The datatypes by what they are in Arrow.
Primitives == {"Int8", "Int16", "Int32", "Int64", "UInt8", "UInt16", "UInt32", "UInt64", "Float32", "Float64"}
Moments == {"DateTimeSecond", "DateTimeMillisecond", "DateTimeMicrosecond", "DateTimeNanosecond",
            "TimeMicrosecond", "TimeNanosecond"}
Bytes == {"StringAscii", "StringUtf8", "Blob", "Boolean", "GeometryWkb", "GeometryWkt", "Any"}
Words == {"StringUtf16", "StringUcs2"}
Doubles == {"StringUtf32", "StringUcs4"}
Rest == Named \ (Primitives \cup Moments \cup {"Char"} \cup Bytes \cup Words \cup Doubles)

\* A conversion of one value: there is a way back, of the same width.
Single1(dt, res) ==
    /\ primitive_width(res.is) = size(dt) /\ size(dt) > 0
    /\ res.is.type \notin {"FixedSizeList", "LargeList", "LargeBinary", "FixedSizeBinary"}
    /\ from_arrow_item(res.is) # None
    /\ from_arrow_item(res.is).is[2] = 1
    /\ \/ res = Exact(res.is) /\ from_arrow_item(res.is) = Exact(<<dt, 1>>)
       \/ res = Inexact(res.is) /\ size(from_arrow_item(res.is).is[1]) = size(dt)

\* Primitive Arrow types are datatypes of their own.
LEMMA OfOneType ==
    ASSUME NEW t \in Primitives
    PROVE  /\ from_arrow_item(Arrow(t)) = Exact(<<t, 1>>) /\ Exact(<<t, 1>>) # None
           /\ Exact(<<t, 1>>).is = <<t, 1>>
           /\ primitive_width(Arrow(t)) = size(t) /\ size(t) > 0
           /\ Arrow(t).type \notin {"FixedSizeList", "LargeList", "LargeBinary", "FixedSizeBinary"}
<1>1. Arrow(t).type = t
  BY DEF Arrow
<1>2. from_arrow_item(Arrow(t)) = Exact(<<t, 1>>)
  BY <1>1 DEF from_arrow_item, Primitives
<1>3. Exact(<<t, 1>>).is = <<t, 1>> /\ Exact(<<t, 1>>) # None
  BY DEF Exact, None
<1>4. primitive_width(Arrow(t)) = size(t) /\ size(t) > 0
  BY <1>1 DEF primitive_width, size, physical_type_go, physical, SizeOf, Primitives
<1> QED
  BY <1>1, <1>2, <1>3, <1>4 DEF Primitives

\* An inexact conversion to a primitive type of the datatype's size.
LEMMA OfOneWidth ==
    ASSUME NEW dt, NEW t \in Primitives, size(t) = size(dt), to_arrow_single(dt) = Inexact(Arrow(t))
    PROVE  Single1(dt, to_arrow_single(dt))
<1>1. Inexact(Arrow(t)).is = Arrow(t)
  BY DEF Inexact
<1>2. /\ from_arrow_item(Arrow(t)) # None /\ from_arrow_item(Arrow(t)).is = <<t, 1>>
      /\ primitive_width(Arrow(t)) = size(t) /\ size(t) > 0
      /\ Arrow(t).type \notin {"FixedSizeList", "LargeList", "LargeBinary", "FixedSizeBinary"}
  BY OfOneType
<1>3. from_arrow_item(Arrow(t)).is[1] = t /\ from_arrow_item(Arrow(t)).is[2] = 1
  BY <1>2
<1> QED
  BY <1>1, <1>2, <1>3 DEF Single1

\* What to_arrow_single makes of each datatype.
LEMMA SingleConverts ==
    ASSUME NEW dt \in Datatypes
    PROVE  Single1(dt, to_arrow_single(dt))
<1>0. \A t \in Primitives : size(t) = CASE t \in {"Int8", "UInt8"} -> 1 [] t \in {"Int16", "UInt16"} -> 2
                                       [] t \in {"Int32", "UInt32", "Float32"} -> 4
                                       [] t \in {"Int64", "UInt64", "Float64"} -> 8
  BY DEF size, physical_type_go, physical, SizeOf, Primitives
<1>1. CASE dt \in Primitives
  <2>1. to_arrow_single(dt) = Exact(Arrow(dt)) /\ Exact(Arrow(dt)).is = Arrow(dt)
    BY <1>1 DEF Primitives, to_arrow_single, Exact
  <2> QED
    BY <1>1, <2>1, OfOneType DEF Single1
<1>2. CASE dt \in Moments
  <2>1. to_arrow_single(dt) = Exact(to_arrow_single(dt).is)
    BY <1>2 DEF Moments, to_arrow_single, Exact
  <2>2. from_arrow_item(to_arrow_single(dt).is) = Exact(<<dt, 1>>)
    BY <1>2 DEF Moments, to_arrow_single, Exact, Timed, from_arrow_item
  <2>3. to_arrow_single(dt).is.type \in {"Timestamp", "Time64"}
    BY <1>2 DEF Moments, to_arrow_single, Exact, Timed
  <2>4. size(dt) = 8
    BY <1>2 DEF Moments, size, physical_type_go, physical, SizeOf
  <2>5. primitive_width(to_arrow_single(dt).is) = 8
    BY <2>3 DEF primitive_width
  <2>6. Exact(<<dt, 1>>).is[2] = 1 /\ Exact(<<dt, 1>>) # None
    BY DEF Exact, None
  <2> QED
    BY <2>1, <2>2, <2>3, <2>4, <2>5, <2>6 DEF Single1
<1>3. CASE dt = "Char"
  <2>1. to_arrow_single(dt) = Inexact(Arrow("Int8"))
    BY <1>3 DEF to_arrow_single
  <2>2. size(dt) = size("Int8")
    BY <1>3 DEF size, physical_type_go, physical
  <2> QED
    BY <2>1, <2>2, OfOneWidth DEF Primitives
<1>4. CASE dt \in Bytes
  <2>1. to_arrow_single(dt) = Inexact(Arrow("UInt8"))
    BY <1>4 DEF to_arrow_single, Bytes
  <2>2. size(dt) = size("UInt8")
    BY <1>4 DEF size, physical_type_go, physical, Bytes
  <2> QED
    BY <2>1, <2>2, OfOneWidth DEF Primitives
<1>5. CASE dt \in Words
  <2>1. to_arrow_single(dt) = Inexact(Arrow("UInt16"))
    BY <1>5 DEF to_arrow_single, Words
  <2>2. size(dt) = size("UInt16")
    BY <1>5 DEF size, physical_type_go, physical, Words
  <2> QED
    BY <2>1, <2>2, OfOneWidth DEF Primitives
<1>6. CASE dt \in Doubles
  <2>1. to_arrow_single(dt) = Inexact(Arrow("UInt32"))
    BY <1>6 DEF to_arrow_single, Doubles
  <2>2. size(dt) = size("UInt32")
    BY <1>6 DEF size, physical_type_go, physical, Doubles
  <2> QED
    BY <2>1, <2>2, OfOneWidth DEF Primitives
<1>7. CASE dt \in Rest
  <2>1. to_arrow_single(dt) = Inexact(Arrow("Int64"))
    BY <1>7 DEF to_arrow_single, Rest, Named, Primitives, Moments, Bytes, Words, Doubles
  <2>2. size(dt) = size("Int64")
    BY <1>7 DEF size, physical_type_go, physical, Rest, Named, Primitives, Moments, Bytes, Words, Doubles
  <2> QED
    BY <2>1, <2>2, OfOneWidth DEF Primitives
<1> QED
  BY <1>1, <1>2, <1>3, <1>4, <1>5, <1>6, <1>7, DatatypesNamed DEF Rest

\* A datatype and cell value number are themselves again after Arrow.
LEMMA DatatypesReturn ==
    ASSUME NEW dt \in Datatypes, NEW cvn \in Nat
    PROVE  DatatypeRoundTrip(dt, cvn)
<1> DEFINE single == to_arrow_single(dt)
<1>1. Single1(dt, single)
  BY SingleConverts
<1>2. /\ \A r : Exact(r).kind = "Exact" /\ Exact(r).is = r
      /\ \A r : Inexact(r).kind = "Inexact" /\ Inexact(r).is = r
      /\ \A r : Exact(r) # None /\ None.kind = "None"
  BY DEF Exact, Inexact, None
<1> HIDE DEF single
<1>3. CASE cvn = 1
  <2>1. to_arrow(dt, cvn) = single
    BY <1>3 DEF to_arrow, single, Var
  <2>2. from_arrow(single.is) = from_arrow_item(single.is)
    BY <1>1 DEF from_arrow, Single1
  <2> QED
    BY <1>1, <1>2, <1>3, <2>1, <2>2 DEF DatatypeRoundTrip, Single1, is_exact
<1>4. CASE cvn # 1 /\ dt = "Blob"
  <2> DEFINE there == IF cvn = Var THEN Arrow("LargeBinary") ELSE FixedSizeBinary(cvn)
  <2>1. to_arrow(dt, cvn) = Exact(there)
    BY <1>4 DEF to_arrow, Var
  <2>2. from_arrow(there) = Exact(<<"Blob", cvn>>)
    <3>1. CASE cvn = Var
      BY <3>1 DEF from_arrow, from_arrow_item, Arrow
    <3>2. CASE cvn # Var
      <4>1. there = FixedSizeBinary(cvn) /\ there.type = "FixedSizeBinary" /\ there.len = cvn /\ cvn > 0
        BY <3>2 DEF FixedSizeBinary, Var
      <4> HIDE DEF there
      <4> QED
        BY <4>1 DEF from_arrow, from_arrow_item
    <3> QED
      BY <3>1, <3>2
  <2> HIDE DEF there
  <2> QED
    BY <1>2, <1>4, <2>1, <2>2 DEF DatatypeRoundTrip, is_exact
<1>5. CASE cvn # 1 /\ dt # "Blob"
  <2> DEFINE item  == ListItem(dt)
             there == IF cvn = Var THEN LargeList(item) ELSE FixedSizeList(item, cvn)
  <2>1. to_arrow(dt, cvn) = Exact(there)
    BY <1>5 DEF to_arrow, Var
  <2>2. /\ item.arrow = single.is /\ item.nullable = FALSE
        /\ item.hint = IF single.kind = "Inexact" THEN dt ELSE "none"
    BY DEF ListItem, Item, is_inexact, single
  <2>3. /\ there.type = (IF cvn = Var THEN "LargeList" ELSE "FixedSizeList") /\ there.item = item
        /\ cvn # Var => there.len = cvn /\ cvn > 0
    BY DEF LargeList, FixedSizeList, Var
  <2> HIDE DEF item, there
  <2>4. from_arrow(there) = Exact(<<dt, cvn>>)
    <3>1. ~ (cvn # Var /\ cvn <= 0) /\ ~ (primitive_width(item.arrow) = 0)
      BY <1>1, <2>2, <2>3 DEF Single1
    <3>2. CASE single = Exact(single.is) /\ from_arrow_item(single.is) = Exact(<<dt, 1>>)
      <4>1. item.hint = "none" /\ from_str("none") = {}
        BY <1>2, <2>2, <3>2, DatatypesNamed DEF from_str, Named
      <4>2. [Exact(<<dt, 1>>) EXCEPT !.is = <<dt, cvn>>] = Exact(<<dt, cvn>>)
        BY DEF Exact
      <4> QED
        BY <1>2, <2>2, <2>3, <3>1, <3>2, <4>1, <4>2 DEF from_arrow
    <3>3. CASE single = Inexact(single.is)
      <4>1. item.hint = dt /\ from_str(dt) # {}
        BY <1>2, <2>2, <3>3 DEF from_str
      <4> QED
        BY <2>2, <2>3, <3>1, <4>1 DEF from_arrow
    <3> QED
      BY <1>1, <3>2, <3>3 DEF Single1
  <2> QED
    BY <1>2, <1>5, <2>1, <2>4 DEF DatatypeRoundTrip, is_exact
<1> QED
  BY <1>3, <1>4, <1>5
-----------------------------------------------------------------------------
\* An item comes back as itself, or as a type of its width; or has no datatype.
ItemReturns(a) ==
    \/ from_arrow_item(a) = None
    \/ \E dt \in Datatypes \ {"Blob"} :
          \/ from_arrow_item(a) = Exact(<<dt, 1>>) /\ to_arrow_single(dt) = Exact(a)
          \/ /\ from_arrow_item(a) = Inexact(<<dt, 1>>)
             /\ primitive_width(to_arrow_single(dt).is) = primitive_width(a)

\* Every name is a datatype: the codes name no other.
LEMMA NamesAreDatatypes == Named \subseteq Datatypes
<1>1. DOMAIN Variants = 1..44
  BY DEF Variants
<1>2. \A dt \in Named : \E i \in 1..44 : Variants[i] = dt
  BY DEF Variants, Named
<1> QED
  BY <1>1, <1>2 DEF Datatypes, ToSet

\* The time types.
Units == {"Second", "Millisecond", "Microsecond", "Nanosecond"}

\* Arrow times and timestamps return.
LEMMA TimesReturn ==
    ASSUME NEW t \in {"Timestamp", "Time32", "Time64", "Duration"}, NEW u \in Units
    PROVE  ItemReturns(Timed(t, u)) /\ primitive_width(Timed(t, u)) > 0
<1> DEFINE a == Timed(t, u)
<1>1. a.type = t /\ a.unit = u
  BY DEF Timed
<1>2. primitive_width(a) \in {4, 8} /\ (t # "Time32" => primitive_width(a) = 8) /\ (t = "Time32" => primitive_width(a) = 4)
  BY <1>1 DEF primitive_width
<1>3. CASE t = "Timestamp"
  <2> DEFINE dt == CASE u = "Second" -> "DateTimeSecond" [] u = "Millisecond" -> "DateTimeMillisecond"
                     [] u = "Microsecond" -> "DateTimeMicrosecond" [] u = "Nanosecond" -> "DateTimeNanosecond"
  <2>1. from_arrow_item(a) = Exact(<<dt, 1>>)
    BY <1>1, <1>3 DEF from_arrow_item, Units
  <2>2. to_arrow_single(dt) = Exact(a)
    BY <1>3 DEF to_arrow_single, Units
  <2>3. dt \in Datatypes \ {"Blob"}
    BY NamesAreDatatypes DEF Named, Units
  <2> HIDE DEF dt, a
  <2>4. ItemReturns(a)
    BY <2>1, <2>2, <2>3 DEF ItemReturns
  <2> QED
    BY <1>2, <2>4 DEF a
<1>4. CASE t = "Time64" /\ u \in {"Microsecond", "Nanosecond"}
  <2> DEFINE dt == IF u = "Microsecond" THEN "TimeMicrosecond" ELSE "TimeNanosecond"
  <2>1. from_arrow_item(a) = Exact(<<dt, 1>>)
    BY <1>1, <1>4 DEF from_arrow_item
  <2>2. to_arrow_single(dt) = Exact(a)
    BY <1>4 DEF to_arrow_single
  <2>3. dt \in Datatypes \ {"Blob"}
    BY NamesAreDatatypes DEF Named
  <2> QED
    BY <1>2, <2>1, <2>2, <2>3 DEF ItemReturns
<1>5. CASE t = "Time64" /\ u \in {"Second", "Millisecond"}
  <2>1. from_arrow_item(a) = Inexact(<<"UInt64", 1>>)
    BY <1>1, <1>5 DEF from_arrow_item
  <2>2. to_arrow_single("UInt64").is = Arrow("UInt64") /\ primitive_width(Arrow("UInt64")) = 8
    BY DEF to_arrow_single, Exact, Arrow, primitive_width
  <2>3. "UInt64" \in Datatypes \ {"Blob"}
    BY NamesAreDatatypes DEF Named
  <2> QED
    BY <1>2, <1>5, <2>1, <2>2, <2>3 DEF ItemReturns
<1>6. CASE t = "Time32"
  <2>1. from_arrow_item(a) = Inexact(<<"Int32", 1>>)
    BY <1>1, <1>6 DEF from_arrow_item
  <2>2. to_arrow_single("Int32").is = Arrow("Int32") /\ primitive_width(Arrow("Int32")) = 4
    BY DEF to_arrow_single, Exact, Arrow, primitive_width
  <2>3. "Int32" \in Datatypes \ {"Blob"}
    BY NamesAreDatatypes DEF Named
  <2> QED
    BY <1>2, <1>6, <2>1, <2>2, <2>3 DEF ItemReturns
<1>7. CASE t = "Duration"
  <2>1. from_arrow_item(a) = None
    BY <1>1, <1>7 DEF from_arrow_item
  <2> QED
    BY <1>2, <2>1 DEF ItemReturns
<1> QED
  BY <1>3, <1>4, <1>5, <1>6, <1>7 DEF Units

\* Arrow numbers return.
LEMMA NumbersReturn ==
    ASSUME NEW t \in Primitives \cup {"Float16", "Date32", "Date64"}
    PROVE  ItemReturns(Arrow(t))
<1>1. Arrow(t).type = t
  BY DEF Arrow
<1>2. {"UInt16", "Int32", "DateTimeMillisecond"} \cup Primitives \subseteq Datatypes \ {"Blob"}
  BY NamesAreDatatypes DEF Named, Primitives
<1>3. CASE t \in Primitives
  <2>1. to_arrow_single(t) = Exact(Arrow(t))
    BY <1>3 DEF to_arrow_single, Primitives
  <2> QED
    BY <1>2, <1>3, <2>1, OfOneType DEF ItemReturns
<1>4. CASE t = "Float16"
  <2>1. from_arrow_item(Arrow(t)) = Inexact(<<"UInt16", 1>>)
    BY <1>1, <1>4 DEF from_arrow_item
  <2>2. primitive_width(Arrow(t)) = 2
    BY <1>1, <1>4 DEF primitive_width
  <2>3. to_arrow_single("UInt16").is = Arrow("UInt16") /\ primitive_width(Arrow("UInt16")) = 2
    BY DEF to_arrow_single, Exact, Arrow, primitive_width
  <2> QED
    BY <1>2, <2>1, <2>2, <2>3 DEF ItemReturns
<1>5. CASE t = "Date32"
  <2>1. from_arrow_item(Arrow(t)) = Inexact(<<"Int32", 1>>)
    BY <1>1, <1>5 DEF from_arrow_item
  <2>2. primitive_width(Arrow(t)) = 4
    BY <1>1, <1>5 DEF primitive_width
  <2>3. to_arrow_single("Int32").is = Arrow("Int32") /\ primitive_width(Arrow("Int32")) = 4
    BY DEF to_arrow_single, Exact, Arrow, primitive_width
  <2> QED
    BY <1>2, <2>1, <2>2, <2>3 DEF ItemReturns
<1>6. CASE t = "Date64"
  <2>1. from_arrow_item(Arrow(t)) = Inexact(<<"DateTimeMillisecond", 1>>)
    BY <1>1, <1>6 DEF from_arrow_item
  <2>2. primitive_width(Arrow(t)) = 8
    BY <1>1, <1>6 DEF primitive_width
  <2>3. primitive_width(to_arrow_single("DateTimeMillisecond").is) = 8
    BY DEF to_arrow_single, Exact, Timed, primitive_width
  <2> QED
    BY <1>2, <2>1, <2>2, <2>3 DEF ItemReturns
<1> QED
  BY <1>3, <1>4, <1>5, <1>6

\* The types that are no list, and have a width.
Wide == {Arrow(t) : t \in Primitives \cup {"Float16", "Date32", "Date64"}}
        \cup {Timed(t, u) : t \in {"Timestamp", "Time32", "Time64", "Duration"}, u \in Units}

\* The types taken: those of a width, and what the others are.
LEMMA WideOrNot ==
    ASSUME NEW a \in ArrowItems
    PROVE  /\ a \in Wide => ItemReturns(a) /\ a.type \notin {"FixedSizeList", "LargeList", "FixedSizeBinary", "LargeUtf8", "LargeBinary"}
           /\ a \notin Wide => /\ primitive_width(a) = 0
                               /\ \/ a \in {Arrow("LargeBinary"), Arrow("LargeUtf8")}
                                  \/ from_arrow_item(a) = None
                                  \/ \E n \in Nat : a = FixedSizeBinary(n)
<1>1. a \in Wide => ItemReturns(a)
  BY NumbersReturn, TimesReturn DEF Wide
<1>2. a \in Wide => a.type \notin {"FixedSizeList", "LargeList", "FixedSizeBinary", "LargeUtf8", "LargeBinary"}
  BY DEF Wide, Arrow, Timed, Primitives
<1>3. ASSUME a \notin Wide
      PROVE  /\ primitive_width(a) = 0
             /\ \/ a \in {Arrow("LargeBinary"), Arrow("LargeUtf8")}
                \/ from_arrow_item(a) = None
                \/ \E n \in Nat : a = FixedSizeBinary(n)
  <2>1. CASE \E n \in CellNumbers : a = FixedSizeBinary(n)
    <3>1. a.type = "FixedSizeBinary"
      BY <2>1 DEF FixedSizeBinary
    <3>2. primitive_width(a) = 0
      BY <3>1 DEF primitive_width
    <3> QED
      BY <2>1, <3>2, CellNumbersAre
  <2>2. CASE \E t \in {"Null", "Boolean", "Binary", "LargeBinary", "Utf8", "LargeUtf8"} : a = Arrow(t)
    <3>1. PICK t \in {"Null", "Boolean", "Binary", "LargeBinary", "Utf8", "LargeUtf8"} : a = Arrow(t)
      BY <2>2
    <3>2. a.type = t
      BY <3>1 DEF Arrow
    <3>3. primitive_width(a) = 0
      BY <3>2 DEF primitive_width
    <3>4. t \notin {"LargeBinary", "LargeUtf8"} => from_arrow_item(a) = None
      BY <3>2 DEF from_arrow_item
    <3> QED
      BY <3>1, <3>3, <3>4
  <2> QED
    BY <1>3, <2>1, <2>2 DEF ArrowItems, Wide, Primitives, Units
<1> QED
  BY <1>1, <1>2, <1>3

\* The results of conversions by kind.
LEMMA Results ==
    /\ \A r : Exact(r).kind = "Exact" /\ Exact(r).is = r
    /\ \A r : Inexact(r).kind = "Inexact" /\ Inexact(r).is = r
    /\ \A r : Exact(r) # None /\ Inexact(r) # None
    /\ None.kind = "None"
  BY DEF Exact, Inexact, None

\* A type that is no list.
LEMMA ItemsReturn ==
    ASSUME NEW a \in ArrowItems
    PROVE  ArrowRoundTripsType(a)
<1> DEFINE there == from_arrow(a)
           back  == to_arrow(there.is[1], there.is[2])
<1>1. SUFFICES ASSUME there # None PROVE
        IF is_inexact(there) THEN is_physical_type_match(a, back.is)
        ELSE CASE a.type = "FixedSizeList" /\ a.len = 1 -> back.is = a.item.arrow
               [] a = FixedSizeBinary(1)                -> back.is = Arrow("UInt8")
               [] OTHER -> is_exact(back) /\ back.is = a
  BY Zenon DEF ArrowRoundTripsType
<1>2. CASE a \in Wide
  <2>1. ItemReturns(a) /\ a.type \notin {"FixedSizeList", "LargeList", "FixedSizeBinary"}
    BY <1>2, WideOrNot
  <2>2. there = from_arrow_item(a)
    BY <2>1 DEF from_arrow
  <2>3. a # FixedSizeBinary(1)
    BY <2>1 DEF FixedSizeBinary
  <2>4. PICK dt \in Datatypes \ {"Blob"} :
          \/ there = Exact(<<dt, 1>>) /\ to_arrow_single(dt) = Exact(a)
          \/ there = Inexact(<<dt, 1>>) /\ primitive_width(to_arrow_single(dt).is) = primitive_width(a)
    BY <1>1, <2>1, <2>2 DEF ItemReturns
  <2>5. there.is = <<dt, 1>>
    BY <2>4, Results
  <2>6. back = to_arrow_single(dt)
    BY <2>5 DEF to_arrow, Var
  <2>7. primitive_width(back.is) > 0
    BY <2>6, SingleConverts DEF Single1
  <2> HIDE DEF there, back
  <2>8. CASE there = Exact(<<dt, 1>>) /\ to_arrow_single(dt) = Exact(a)
    <3>1. back = Exact(a) /\ back.is = a /\ is_exact(back) /\ ~ is_inexact(there)
      BY <2>6, <2>8, Results DEF is_exact, is_inexact
    <3> QED
      BY <2>1, <2>3, <3>1
  <2>9. CASE there = Inexact(<<dt, 1>>) /\ primitive_width(to_arrow_single(dt).is) = primitive_width(a)
    <3>1. is_inexact(there) /\ is_physical_type_match(a, back.is)
      BY <2>6, <2>7, <2>9, Results DEF is_inexact, is_physical_type_match
    <3> QED
      BY <3>1
  <2> QED
    BY <2>4, <2>8, <2>9
<1>3. CASE a = Arrow("LargeBinary")
  <2>1. a.type = "LargeBinary"
    BY <1>3 DEF Arrow
  <2>2. there = Exact(<<"Blob", Var>>)
    BY <2>1 DEF from_arrow, from_arrow_item
  <2>3. back = Exact(a)
    BY <1>3, <2>2, Results DEF to_arrow, Var
  <2>4. a # FixedSizeBinary(1)
    BY <2>1 DEF FixedSizeBinary
  <2> HIDE DEF there, back
  <2> QED
    BY <2>1, <2>2, <2>3, <2>4, Results DEF is_exact, is_inexact
<1>4. CASE a = Arrow("LargeUtf8")
  <2>1. a.type = "LargeUtf8"
    BY <1>4 DEF Arrow
  <2>2. there = Inexact(<<"StringUtf8", Var>>)
    BY <2>1 DEF from_arrow, from_arrow_item
  <2>3. back = Exact(LargeList(ListItem("StringUtf8")))
    BY <2>2, Results DEF to_arrow, Var
  <2>4. back.is = LargeList(ListItem("StringUtf8"))
    BY <2>3, Results
  <2>5. to_arrow_single("StringUtf8").is = Arrow("UInt8")
    BY DEF to_arrow_single, Inexact
  <2>6. back.is.type = "LargeList" /\ back.is.item.arrow = Arrow("UInt8") /\ ~ back.is.item.nullable
    BY <2>4, <2>5 DEF LargeList, ListItem, Item
  <2> HIDE DEF there, back
  <2>7. is_inexact(there) /\ is_physical_type_match(a, back.is)
    BY <2>1, <2>2, <2>6, Results DEF is_inexact, is_physical_type_match
  <2> QED
    BY <2>7
<1>5. CASE \E n \in Nat : a = FixedSizeBinary(n)
  <2>1. PICK n \in Nat : a = FixedSizeBinary(n)
    BY <1>5
  <2>2. a.type = "FixedSizeBinary" /\ a.len = n
    BY <2>1 DEF FixedSizeBinary
  <2>3. n > 0 /\ there = Exact(<<"Blob", n>>)
    BY <1>1, <2>2 DEF from_arrow, from_arrow_item
  <2>4. back = to_arrow("Blob", n)
    BY <2>3, Results
  <2> HIDE DEF there, back
  <2>5. CASE n = 1
    <3>1. back.is = Arrow("UInt8")
      BY <2>4, <2>5 DEF to_arrow, to_arrow_single, Inexact, Var
    <3> QED
      BY <2>1, <2>2, <2>3, <2>5, <3>1, Results DEF is_inexact
  <2>6. CASE n # 1
    <3>1. back = Exact(a)
      BY <2>1, <2>3, <2>4, <2>6 DEF to_arrow, Var
    <3>2. a # FixedSizeBinary(1)
      BY <2>2, <2>6 DEF FixedSizeBinary
    <3> QED
      BY <2>2, <2>3, <3>1, <3>2, Results DEF is_inexact, is_exact
  <2> QED
    BY <2>5, <2>6
<1>6. CASE from_arrow_item(a) = None /\ a \notin Wide
  <2>1. a.type \notin {"FixedSizeList", "LargeList"}
    BY DEF ArrowItems, Arrow, Timed, FixedSizeBinary
  <2>2. there = None
    BY <1>6, <2>1 DEF from_arrow
  <2> QED
    BY <1>1, <2>2
<1> QED
  BY <1>2, <1>3, <1>4, <1>5, <1>6, WideOrNot

\* A list of one kind or the other.
ListOf(a, b, cvn) == IF cvn = Var THEN LargeList(ItemOf(a, b)) ELSE FixedSizeList(ItemOf(a, b), cvn)

\* Arrow lists return.
LEMMA ListsReturn ==
    ASSUME NEW a \in ArrowItems, NEW b \in BOOLEAN, NEW cvn \in Nat,
           NEW list,
           \/ list = LargeList(ItemOf(a, b)) /\ cvn = Var
           \/ list = FixedSizeList(ItemOf(a, b), cvn)
    PROVE  ArrowRoundTripsType(list)
<1> DEFINE there == from_arrow(list)
           back  == to_arrow(there.is[1], there.is[2])
<1>1. SUFFICES ASSUME there # None PROVE
        IF is_inexact(there) THEN is_physical_type_match(list, back.is)
        ELSE CASE list.type = "FixedSizeList" /\ list.len = 1 -> back.is = list.item.arrow
               [] list = FixedSizeBinary(1)                   -> back.is = Arrow("UInt8")
               [] OTHER -> is_exact(back) /\ back.is = list
  BY Zenon DEF ArrowRoundTripsType
<1>2. /\ ItemOf(a, b).arrow = a /\ ItemOf(a, b).nullable = b /\ ItemOf(a, b).hint = "none"
      /\ list.type \in {"FixedSizeList", "LargeList"} /\ list.item = ItemOf(a, b)
      /\ list.type = "LargeList" => list = LargeList(ItemOf(a, b)) /\ cvn = Var
      /\ list.type = "FixedSizeList" => list.len = cvn /\ list = FixedSizeList(ItemOf(a, b), cvn)
  BY DEF ItemOf, Item, LargeList, FixedSizeList
<1>3. from_str("none") = {}
  BY DatatypesNamed DEF from_str, Named
<1>4. /\ list.type = "FixedSizeList" => cvn > 0
      /\ b = FALSE /\ primitive_width(a) # 0
      /\ from_arrow_item(a) # None
      /\ there = [from_arrow_item(a) EXCEPT !.is = <<from_arrow_item(a).is[1], cvn>>]
  BY <1>1, <1>2, <1>3 DEF from_arrow
<1>5. PICK dt \in Datatypes \ {"Blob"} :
          \/ from_arrow_item(a) = Exact(<<dt, 1>>) /\ to_arrow_single(dt) = Exact(a)
          \/ from_arrow_item(a) = Inexact(<<dt, 1>>) /\ primitive_width(to_arrow_single(dt).is) = primitive_width(a)
  BY <1>4, WideOrNot DEF ItemReturns
<1>6. there.is = <<dt, cvn>> /\ (from_arrow_item(a) = Exact(<<dt, 1>>) => there = Exact(<<dt, cvn>>))
      /\ (from_arrow_item(a) = Inexact(<<dt, 1>>) => there = Inexact(<<dt, cvn>>))
  <2>1. CASE from_arrow_item(a) = Exact(<<dt, 1>>)
    BY <1>4, <2>1 DEF Exact, Inexact
  <2>2. CASE from_arrow_item(a) = Inexact(<<dt, 1>>)
    BY <1>4, <2>2 DEF Exact, Inexact
  <2> QED
    BY <1>5, <2>1, <2>2
<1>7. back = to_arrow(dt, cvn)
  BY <1>6
<1>8. primitive_width(to_arrow_single(dt).is) > 0
  BY SingleConverts DEF Single1
<1> HIDE DEF there, back
<1>9. CASE cvn = 1
  <2>1. back = to_arrow_single(dt) /\ list.type = "FixedSizeList"
    BY <1>2, <1>7, <1>9 DEF to_arrow, Var
  <2>2. CASE from_arrow_item(a) = Exact(<<dt, 1>>) /\ to_arrow_single(dt) = Exact(a)
    <3>1. back.is = a /\ list.len = 1 /\ list.item.arrow = a
      BY <1>2, <1>9, <2>1, <2>2, Results
    <3>2. ~ is_inexact(there)
      BY <1>6, <2>2, Results DEF is_inexact
    <3>3. list # FixedSizeBinary(1)
      BY <1>2 DEF FixedSizeBinary
    <3> QED
      BY <2>1, <3>1, <3>2, <3>3
  <2>3. CASE from_arrow_item(a) = Inexact(<<dt, 1>>) /\ primitive_width(to_arrow_single(dt).is) = primitive_width(a)
    <3>1. is_inexact(there) /\ is_physical_type_match(list, back.is)
      BY <1>2, <1>6, <1>8, <1>9, <2>1, <2>3, Results DEF is_inexact, is_physical_type_match
    <3> QED
      BY <3>1
  <2> QED
    BY <1>5, <2>2, <2>3
<1>10. CASE cvn # 1
  <2> DEFINE out == IF cvn = Var THEN LargeList(ListItem(dt)) ELSE FixedSizeList(ListItem(dt), cvn)
  <2>1. back = Exact(out)
    BY <1>7, <1>10 DEF to_arrow, Var
  <2>2. back.is = out
    BY <2>1, Results
  <2>3. list # FixedSizeBinary(1)
    BY <1>2 DEF FixedSizeBinary
  <2>4. list.type = "FixedSizeList" <=> cvn # Var
    BY <1>2, <1>4 DEF Var
  <2>5. CASE from_arrow_item(a) = Exact(<<dt, 1>>) /\ to_arrow_single(dt) = Exact(a)
    <3>1. ListItem(dt) = ItemOf(a, b)
      <4>1. to_arrow_single(dt).is = a /\ to_arrow_single(dt).kind = "Exact"
        BY <2>5, Results
      <4>2. ListItem(dt) = Item(a, "none")
        BY <4>1 DEF ListItem, is_inexact
      <4>3. ItemOf(a, b) = Item(a, "none")
        <5>1. ItemOf(a, FALSE) = Item(a, "none")
          BY DEF ItemOf, Item
        <5> QED
          BY <1>4, <5>1
      <4> QED
        BY <4>2, <4>3
    <3>2. out = list
      BY <1>2, <2>4, <3>1
    <3> HIDE DEF out
    <3> QED
      BY <1>2, <1>6, <1>10, <2>1, <2>2, <2>3, <2>5, <3>2, Results DEF is_inexact, is_exact
  <2>6. CASE from_arrow_item(a) = Inexact(<<dt, 1>>) /\ primitive_width(to_arrow_single(dt).is) = primitive_width(a)
    <3>1. ListItem(dt).arrow = to_arrow_single(dt).is
      BY DEF ListItem, Item
    <3>2. out.type = list.type /\ out.item = ListItem(dt) /\ (list.type = "FixedSizeList" => out.len = list.len)
      BY <1>2, <2>4 DEF LargeList, FixedSizeList
    <3> HIDE DEF out
    <3>3. is_inexact(there) /\ is_physical_type_match(list, back.is)
      BY <1>2, <1>6, <1>8, <2>2, <2>6, <3>1, <3>2, Results DEF is_inexact, is_physical_type_match
    <3> QED
      BY <3>3
  <2> QED
    BY <1>5, <2>5, <2>6
<1> QED
  BY <1>9, <1>10

\* Every Arrow type taken returns.
LEMMA ArrowTypesReturn ==
    ASSUME NEW a \in ArrowInputs
    PROVE  ArrowRoundTripsType(a)
<1>1. CASE a \in ArrowItems
  BY <1>1, ItemsReturn
<1>2. CASE \E n \in CellNumbers, i \in ArrowItems, b \in BOOLEAN : a = FixedSizeList(ItemOf(i, b), n)
  BY <1>2, ListsReturn, CellNumbersAre
<1>3. CASE \E i \in ArrowItems, b \in BOOLEAN : a = LargeList(ItemOf(i, b))
  <2>1. Var \in Nat
    BY DEF Var
  <2> QED
    BY <1>3, <2>1, ListsReturn
<1> QED
  BY <1>1, <1>2, <1>3 DEF ArrowInputs

-----------------------------------------------------------------------------
(* Induction and recursive functions.                                      *)

(***************************************************************************)
(* Induction over an interval, from the least element of a set.            *)
(***************************************************************************)
LEMMA Induction ==
    ASSUME NEW n \in Nat, NEW S, 0 \in S, \A k \in 0..(n - 1) : k \in S => k + 1 \in S
    PROVE  \A k \in 0..n : k \in S
<1> DEFINE bad == {k \in 0..n : k \notin S}
<1>1. SUFFICES ASSUME bad # {} PROVE FALSE
  OBVIOUS
<1>2. bad \subseteq Nat
  OBVIOUS
<1>3. Min(bad) \in bad /\ \A y \in bad : Min(bad) <= y
  BY <1>1, <1>2, LeastNat
<1> DEFINE x == Min(bad)
<1> HIDE DEF x
<1>4. x \in 0..n /\ x \notin S /\ \A y \in 0..n : y \notin S => x <= y
  BY <1>3 DEF x
<1>5. x - 1 \in 0..(n - 1) /\ (x - 1) + 1 = x /\ ~ (x <= x - 1)
  BY <1>4
<1>6. x - 1 \in S
  BY <1>4, <1>5
<1> QED
  BY <1>4, <1>5, <1>6

(***************************************************************************)
(* A value that goes through n steps.                                      *)
(***************************************************************************)
Runs(f, T, base, step, n) ==
    f \in [0..n -> T] /\ f[0] = base /\ \A i \in 1..n : f[i] = step[i][f[i - 1]]

\* A recursive function exists: it runs on from its base.
LEMMA RunsOn ==
    ASSUME NEW n \in Nat, NEW T, NEW base \in T, NEW step \in [1..n -> [T -> T]]
    PROVE  \E f : Runs(f, T, base, step, n)
<1> DEFINE S == {k \in 0..n : \E f : Runs(f, T, base, step, k)}
<1>1. 0 \in S
  <2> DEFINE f == [i \in 0..0 |-> base]
  <2>1. Runs(f, T, base, step, 0)
    BY DEF Runs
  <2> QED
    BY <2>1
<1>2. ASSUME NEW k \in 0..(n - 1), k \in S PROVE k + 1 \in S
  <2>1. PICK f : Runs(f, T, base, step, k)
    BY <1>2
  <2> DEFINE g == [i \in 0..(k + 1) |-> IF i = k + 1 THEN step[k + 1][f[k]] ELSE f[i]]
  <2>2. k + 1 \in 1..n /\ k \in 0..k /\ f[k] \in T /\ step[k + 1] \in [T -> T]
    BY <2>1 DEF Runs
  <2>3. g \in [0..(k + 1) -> T] /\ g[0] = base
    BY <2>1, <2>2 DEF Runs
  <2>4. ASSUME NEW i \in 1..(k + 1) PROVE g[i] = step[i][g[i - 1]]
    <3>1. CASE i = k + 1
      BY <3>1
    <3>2. CASE i # k + 1
      BY <2>1, <3>2 DEF Runs
    <3> QED
      BY <3>1, <3>2
  <2> HIDE DEF g
  <2>5. Runs(g, T, base, step, k + 1)
    BY <2>3, <2>4 DEF Runs
  <2> QED
    BY <2>2, <2>5
<1> HIDE DEF S
<1>3. \A k \in 0..n : k \in S
  BY <1>1, <1>2, Induction
<1>4. n \in S
  BY <1>3
<1> QED
  BY <1>4 DEF S
-----------------------------------------------------------------------------
(* Lists. *)

Has(s, x) == \E i \in 1..Len(s) : s[i] = x

\* The elements of two sequences joined.
LEMMA JoinedHas ==
    ASSUME NEW X, NEW s \in Seq(X), NEW t \in Seq(X), NEW x
    PROVE  Has(s \o t, x) <=> Has(s, x) \/ Has(t, x)
<1>1. ASSUME NEW i \in 1..Len(s \o t), (s \o t)[i] = x PROVE Has(s, x) \/ Has(t, x)
  <2>1. CASE i <= Len(s)
    BY <1>1, <2>1 DEF Has
  <2>2. CASE i > Len(s)
    <3>1. i - Len(s) \in 1..Len(t) /\ t[i - Len(s)] = x
      BY <1>1, <2>2
    <3> QED
      BY <3>1 DEF Has
  <2> QED
    BY <2>1, <2>2
<1>2. ASSUME NEW i \in 1..Len(s), s[i] = x PROVE Has(s \o t, x)
  <2>1. i \in 1..Len(s \o t) /\ (s \o t)[i] = x
    BY <1>2
  <2> QED
    BY <2>1 DEF Has
<1>3. ASSUME NEW i \in 1..Len(t), t[i] = x PROVE Has(s \o t, x)
  <2>1. i + Len(s) \in 1..Len(s \o t) /\ (s \o t)[i + Len(s)] = x
    BY <1>3
  <2> QED
    BY <2>1 DEF Has
<1> QED
  BY <1>1, <1>2, <1>3 DEF Has

\* FlattenSeq goes through the lists one by one.
Flattens(f, seqs) ==
    f = [i \in 1..Len(seqs) |-> IF i = 1 THEN seqs[i] ELSE f[i - 1] \o seqs[i]]

\* Such a function exists.
LEMMA FlattenGoes ==
    ASSUME NEW X, NEW seqs \in Seq(Seq(X))
    PROVE  \E f : Flattens(f, seqs)
<1> DEFINE n    == Len(seqs)
           step == [i \in 1..n |-> [x \in Seq(X) |-> IF i = 1 THEN seqs[i] ELSE x \o seqs[i]]]
<1>1. n \in Nat /\ \A i \in 1..n : seqs[i] \in Seq(X)
  OBVIOUS
<1>2. step \in [1..n -> [Seq(X) -> Seq(X)]] /\ <<>> \in Seq(X)
  BY <1>1
<1> HIDE DEF step, n
<1>3. PICK f : Runs(f, Seq(X), <<>>, step, n)
  BY <1>1, <1>2, RunsOn
<1> DEFINE g == [i \in 1..n |-> f[i]]
<1>4. ASSUME NEW i \in 1..n PROVE g[i] = IF i = 1 THEN seqs[i] ELSE g[i - 1] \o seqs[i]
  <2>1. f[i] = step[i][f[i - 1]] /\ f[i - 1] \in Seq(X)
    <3>1. i - 1 \in 0..n
      BY <1>1
    <3>2. f \in [0..n -> Seq(X)]
      BY <1>3 DEF Runs
    <3>3. f[i] = step[i][f[i - 1]]
      BY <1>3, Zenon DEF Runs
    <3> QED
      BY <3>1, <3>2, <3>3
  <2>2. f[i] = IF i = 1 THEN seqs[i] ELSE f[i - 1] \o seqs[i]
    BY <2>1 DEF step
  <2>3. i # 1 => i - 1 \in 1..n
    BY <1>1
  <2> QED
    BY <2>2, <2>3
<1> HIDE DEF g
<1>5. g = [i \in 1..n |-> g[i]]
  BY DEF g
<1>6. Flattens(g, seqs)
  BY <1>4, <1>5, Zenon DEF Flattens, n
<1> QED
  BY <1>6

\* FlattenSeq has the elements of all the lists.
LEMMA FlattenHas ==
    ASSUME NEW X, NEW seqs \in Seq(Seq(X))
    PROVE  /\ FlattenSeq(seqs) \in Seq(X)
           /\ \A x : Has(FlattenSeq(seqs), x) <=> \E i \in 1..Len(seqs) : Has(seqs[i], x)
<1> DEFINE n == Len(seqs)
           f == CHOOSE g : Flattens(g, seqs)
<1>1. n \in Nat /\ \A i \in 1..n : seqs[i] \in Seq(X)
  OBVIOUS
<1>2. Flattens(f, seqs)
  BY FlattenGoes, Zenon
<1>3. FlattenSeq(seqs) = IF n = 0 THEN seqs ELSE f[n]
  BY Zenon DEF FlattenSeq, Flattens
<1> HIDE DEF f, n
<1>4. CASE n = 0
  BY <1>3, <1>4 DEF n, Has
<1>5. CASE n # 0
  <2> DEFINE P(k) == f[k] \in Seq(X) /\ \A x : Has(f[k], x) <=> \E i \in 1..k : Has(seqs[i], x)
             S == {k \in 0..n : k = 0 \/ P(k)}
  <2>1. ASSUME NEW k \in 0..(n - 1), k \in S PROVE k + 1 \in S
    <3>1. k + 1 \in 1..n /\ (k + 1) - 1 = k
      BY <1>1
    <3>2. f[k + 1] = IF k + 1 = 1 THEN seqs[k + 1] ELSE f[(k + 1) - 1] \o seqs[k + 1]
      BY <1>2, <3>1, Zenon DEF Flattens, n
    <3>3. CASE k = 0
      <4>1. f[k + 1] = seqs[k + 1] /\ 1..(k + 1) = {k + 1}
        BY <3>2, <3>3
      <4>2. P(k + 1)
        BY <1>1, <3>1, <4>1
      <4> QED
        BY <3>1, <4>2
    <3>4. CASE k # 0
      <4>1. f[k + 1] = f[k] \o seqs[k + 1]
        <5>1. k + 1 # 1
          BY <3>4
        <5>2. f[k + 1] = f[(k + 1) - 1] \o seqs[k + 1]
          BY <3>2, <5>1, Zenon
        <5> QED
          BY <3>1, <5>2, Zenon
      <4>2. P(k) /\ seqs[k + 1] \in Seq(X)
        BY <1>1, <2>1, <3>1, <3>4
      <4>3. f[k + 1] \in Seq(X)
        BY <4>1, <4>2
      <4>4. \A x : Has(f[k + 1], x) <=> Has(f[k], x) \/ Has(seqs[k + 1], x)
        BY <4>1, <4>2, JoinedHas
      <4>5. 1..(k + 1) = (1..k) \cup {k + 1}
        BY <3>1
      <4>6. P(k + 1)
        BY <4>2, <4>3, <4>4, <4>5
      <4> QED
        BY <3>1, <4>6
    <3> QED
      BY <3>3, <3>4
  <2>2. 0 \in S
    BY <1>1
  <2> HIDE DEF S
  <2>3. \A k \in 0..n : k \in S
    BY <1>1, <2>1, <2>2, Induction
  <2>4. n \in S
    BY <1>1, <2>3
  <2>5. P(n)
    BY <1>5, <2>4 DEF S
  <2> QED
    BY <1>3, <1>5, <2>5 DEF n
<1> QED
  BY <1>4, <1>5

\* A set of at most one element as a list.
LEMMA ListHas ==
    ASSUME NEW X, X = {} \/ \E y : X = {y}
    PROVE  SetToSeq(X) \in Seq(X) /\ \A x : Has(SetToSeq(X), x) <=> x \in X
<1>1. \E f \in [1..Cardinality(X) -> X] : IsInjective(f)
  <2>1. CASE X = {}
    <3>1. Cardinality(X) = 0
      BY <2>1, FS_EmptySet
    <3>2. [i \in 1..0 |-> i] \in [1..Cardinality(X) -> X]
      BY <3>1
    <3> QED
      BY <3>2 DEF IsInjective
  <2>2. CASE \E y : X = {y}
    <3>1. PICK y : X = {y}
      BY <2>2
    <3>2. Cardinality(X) = 1
      BY <3>1, FS_Singleton
    <3>3. [i \in 1..1 |-> y] \in [1..Cardinality(X) -> X] /\ IsInjective([i \in 1..1 |-> y])
      BY <3>1, <3>2 DEF IsInjective
    <3> QED
      BY <3>3
  <2> QED
    BY <2>1, <2>2
<1>2. SetToSeq(X) \in [1..Cardinality(X) -> X]
  BY <1>1, Zenon DEF SetToSeq
<1>3. CASE X = {}
  <2>1. Cardinality(X) = 0
    BY <1>3, FS_EmptySet
  <2> QED
    BY <1>2, <1>3, <2>1 DEF Has
<1>4. CASE \E y : X = {y}
  <2>1. PICK y : X = {y}
    BY <1>4
  <2>2. Cardinality(X) = 1
    BY <2>1, FS_Singleton
  <2> DEFINE s == SetToSeq(X)
  <2>3. s \in [1..1 -> X]
    BY <1>2, <2>2
  <2> HIDE DEF s
  <2>4. s \in Seq(X) /\ Len(s) = 1 /\ s[1] = y
    <3>1. s = [i \in 1..1 |-> s[i]] /\ s[1] \in X
      BY <2>3
    <3>2. 1 \in Nat /\ \A i \in 1..1 : s[i] \in X
      BY <2>3
    <3>3. [i \in 1..1 |-> s[i]] \in Seq(X) /\ Len([i \in 1..1 |-> s[i]]) = 1
      BY <3>2
    <3> QED
      BY <2>1, <3>1, <3>3
  <2>5. \A x : Has(s, x) <=> x \in X
    BY <2>1, <2>4 DEF Has
  <2> QED
    BY <2>4, <2>5 DEF s
<1> QED
  BY <1>3, <1>4

-----------------------------------------------------------------------------
(* Subarrays, and slices of bytes.                                         *)

\* Sequences of a set are sequences of a larger one.
LEMMA SeqWithin ==
    ASSUME NEW A, NEW B, A \subseteq B, NEW s \in Seq(A)
    PROVE  s \in Seq(B)
  OBVIOUS

\* A sequence of one element.
LEMMA OneElement ==
    ASSUME NEW X, NEW s \in Seq(X), Len(s) = 1
    PROVE  <<s[1]>> = s /\ s # <<>>
  OBVIOUS

\* The ranges of a kind and type, in order.
OrderedRanges(kind, T, n) ==
    {r \in RangesOf(kind, T, IF kind = "Multi" THEN n ELSE 2) : Ordered(r)}

\* The ranges of IsRange are those of the algebra, in order.
LEMMA RangesAre ==
    ASSUME NEW kind \in {"Single", "Multi", "Var"}, NEW T \in PhysicalType, NEW n \in CellNumbers,
           NEW r, IsRange(r, kind, T, n)
    PROVE  /\ r \in OrderedRanges(kind, T, n)
           /\ kind = "Multi" => n > 1
<1>1. n \in Nat
  BY CellNumbersAre
<1>2. r = RangeOf(kind, T, r.lo, r.hi) /\ Ordered(r)
  BY DEF IsRange, RangeOf
<1>3. r.lo \in Seq(Int) /\ r.hi \in Seq(Int)
  <2>1. r.lo \in Seq(TMin(T)..TMax(T)) /\ r.hi \in Seq(TMin(T)..TMax(T))
    BY DEF IsRange
  <2>2. TMin(T)..TMax(T) \subseteq Int
    OBVIOUS
  <2> QED
    BY ONLY <2>1, <2>2, SeqWithin
<1>4. /\ kind = "Single" => Len(r.lo) = 1 /\ Len(r.hi) = 1
      /\ kind = "Multi" => Len(r.lo) = n /\ Len(r.hi) = n /\ n > 1
  BY DEF IsRange
<1>5. r \in RangesOf(kind, T, IF kind = "Multi" THEN n ELSE 2)
  <2>1. <<r.lo, r.hi>> \in Seq(Int) \X Seq(Int) /\ <<r.lo, r.hi>>[1] = r.lo /\ <<r.lo, r.hi>>[2] = r.hi
    BY <1>3
  <2> QED
    BY <1>2, <1>4, <2>1 DEF RangesOf
<1> QED
  BY <1>2, <1>4, <1>5 DEF OrderedRanges

\* There is at most one range in both.
LEMMA AtMostOne ==
    ASSUME NEW kind \in {"Single", "Multi", "Var"}, NEW T, NEW n \in Nat, kind = "Multi" => n > 1,
           NEW l \in OrderedRanges(kind, T, n), NEW r \in OrderedRanges(kind, T, n)
    PROVE  /\ intersection(l, r) = {} \/ \E z : intersection(l, r) = {z}
           /\ \A v \in Seq(Int) :
                 (Inside(v, l) /\ Inside(v, r)) <=> \E b \in intersection(l, r) : Inside(v, b)
<1> DEFINE m == IF kind = "Multi" THEN n ELSE 2
<1>1. m \in Nat /\ m > 1
  OBVIOUS
<1>2. l \in RangesOf(kind, T, m) /\ r \in RangesOf(kind, T, m) /\ Ordered(l) /\ Ordered(r)
  BY DEF OrderedRanges
<1> HIDE DEF m
<1>3. intersection(l, r) = {RangeOf(kind, T, b[1], b[2]) : b \in Bounds(l, r)}
  BY <1>1, <1>2, Meet
<1>4. Bounds(l, r) = {} \/ \E b : Bounds(l, r) = {b}
  BY DEF Bounds
<1>5. intersection(l, r) = {} \/ \E z : intersection(l, r) = {z}
  BY <1>3, <1>4
<1>6. MeetAndJoin(l, r, Seq(Int))
  BY <1>1, <1>2, RangesMeetAndJoin
<1> QED
  BY <1>5, <1>6 DEF MeetAndJoin

\* The ranges of Common are the intersections of the pairs.
OfPairs(X, l, r) ==
    /\ Common(l, r) \in Seq(X)
    /\ \A x : Has(Common(l, r), x)
                 <=> \E i \in 1..Len(l), j \in 1..Len(r) : x \in intersection(l[i], r[j])

\* Common has the intersections of all pairs that have one.
LEMMA CommonHas ==
    ASSUME NEW R, NEW l \in Seq(R), NEW r \in Seq(R),
           \A x, y \in R : intersection(x, y) = {} \/ \E z : intersection(x, y) = {z}
    PROVE  \E X : OfPairs(X, l, r)
<1> DEFINE X == UNION {intersection(x, y) : x, y \in R}
           one(i, j) == SetToSeq(intersection(l[i], r[j]))
           row(i) == [j \in DOMAIN r |-> one(i, j)]
           rows == [i \in DOMAIN l |-> FlattenSeq(row(i))]
<1>1. DOMAIN l = 1..Len(l) /\ DOMAIN r = 1..Len(r) /\ Len(l) \in Nat /\ Len(r) \in Nat
  OBVIOUS
<1>2. ASSUME NEW i \in 1..Len(l), NEW j \in 1..Len(r)
      PROVE  one(i, j) \in Seq(X) /\ \A x : Has(one(i, j), x) <=> x \in intersection(l[i], r[j])
  <2> DEFINE I == intersection(l[i], r[j])
  <2>1. l[i] \in R /\ r[j] \in R
    OBVIOUS
  <2>2. I = {} \/ \E z : I = {z}
    BY <2>1
  <2>3. I \subseteq X
    BY <2>1
  <2> HIDE DEF I, X
  <2>4. SetToSeq(I) \in Seq(I) /\ \A x : Has(SetToSeq(I), x) <=> x \in I
    BY <2>2, ListHas
  <2>5. SetToSeq(I) \in Seq(X)
    BY <2>3, <2>4
  <2> QED
    BY <2>4, <2>5 DEF I
<1> HIDE DEF X, one
<1>3. ASSUME NEW i \in 1..Len(l)
      PROVE  /\ FlattenSeq(row(i)) \in Seq(X)
             /\ \A x : Has(FlattenSeq(row(i)), x) <=> \E j \in 1..Len(r) : Has(one(i, j), x)
  <2>1. row(i) \in Seq(Seq(X)) /\ Len(row(i)) = Len(r) /\ \A j \in 1..Len(r) : row(i)[j] = one(i, j)
    BY <1>1, <1>2
  <2> HIDE DEF row
  <2>2. /\ FlattenSeq(row(i)) \in Seq(X)
        /\ \A x : Has(FlattenSeq(row(i)), x) <=> \E j \in 1..Len(row(i)) : Has(row(i)[j], x)
    BY <2>1, FlattenHas
  <2> QED
    BY <2>1, <2>2
<1> HIDE DEF row
<1>4. rows \in Seq(Seq(X)) /\ Len(rows) = Len(l) /\ \A i \in 1..Len(l) : rows[i] = FlattenSeq(row(i))
  BY <1>1, <1>3
<1>5. Common(l, r) = FlattenSeq(rows)
  BY DEF Common, row, one
<1> HIDE DEF rows
<1>6. /\ FlattenSeq(rows) \in Seq(X)
      /\ \A x : Has(FlattenSeq(rows), x) <=> \E i \in 1..Len(rows) : Has(rows[i], x)
  BY <1>4, FlattenHas
<1>7. ASSUME NEW x
      PROVE  Has(Common(l, r), x)
                 <=> \E i \in 1..Len(l), j \in 1..Len(r) : x \in intersection(l[i], r[j])
  <2>1. Has(Common(l, r), x) <=> \E i \in 1..Len(l) : Has(FlattenSeq(row(i)), x)
    BY <1>4, <1>5, <1>6
  <2>2. \A i \in 1..Len(l) : Has(FlattenSeq(row(i)), x)
                                <=> \E j \in 1..Len(r) : x \in intersection(l[i], r[j])
    BY <1>2, <1>3
  <2> QED
    BY <2>1, <2>2
<1>8. OfPairs(X, l, r)
  BY <1>5, <1>6, <1>7 DEF OfPairs
<1> QED
  BY <1>8

Covers(rs, v) == \E i \in DOMAIN rs : Inside(v, rs[i])

\* A value lies in Common if it lies in a range of each list.
LEMMA CommonCovers ==
    ASSUME NEW kind \in {"Single", "Multi", "Var"}, NEW T, NEW n \in Nat, kind = "Multi" => n > 1,
           NEW l \in Seq(OrderedRanges(kind, T, n)), NEW r \in Seq(OrderedRanges(kind, T, n)),
           NEW v \in Seq(Int)
    PROVE  Covers(Common(l, r), v) <=> Covers(l, v) /\ Covers(r, v)
<1> DEFINE R == OrderedRanges(kind, T, n)
<1>1. ASSUME NEW x \in R, NEW y \in R
      PROVE  /\ intersection(x, y) = {} \/ \E z : intersection(x, y) = {z}
             /\ (Inside(v, x) /\ Inside(v, y)) <=> \E b \in intersection(x, y) : Inside(v, b)
  <2>1. /\ intersection(x, y) = {} \/ \E z : intersection(x, y) = {z}
        /\ \A w \in Seq(Int) :
              (Inside(w, x) /\ Inside(w, y)) <=> \E b \in intersection(x, y) : Inside(w, b)
    BY AtMostOne
  <2> QED
    BY <2>1
<1>2. l \in Seq(R) /\ r \in Seq(R)
  OBVIOUS
<1> HIDE DEF R
<1>3. PICK X : OfPairs(X, l, r)
  <2>1. \A x, y \in R : intersection(x, y) = {} \/ \E z : intersection(x, y) = {z}
    BY <1>1
  <2> QED
    BY ONLY <1>2, <2>1, CommonHas
<1> DEFINE c == Common(l, r)
<1>4. DOMAIN c = 1..Len(c) /\ DOMAIN l = 1..Len(l) /\ DOMAIN r = 1..Len(r)
  BY <1>3 DEF OfPairs
<1> HIDE DEF c
<1>5. Covers(c, v) <=> \E x : Has(c, x) /\ Inside(v, x)
  BY <1>4 DEF Covers, Has
<1>6. Covers(c, v) <=> \E i \in 1..Len(l), j \in 1..Len(r) : \E x \in intersection(l[i], r[j]) : Inside(v, x)
  BY <1>3, <1>5 DEF c, OfPairs
<1>7. \A i \in 1..Len(l), j \in 1..Len(r) :
          (\E x \in intersection(l[i], r[j]) : Inside(v, x)) <=> Inside(v, l[i]) /\ Inside(v, r[j])
  BY <1>1, <1>2
<1> QED
  BY <1>4, <1>6, <1>7 DEF Covers, c

\* A dimension: the one without ranges selects everything.
SelectsAt(rs, v) == rs = <<>> \/ Covers(rs, v)

IntersectedAt(x, y) == IF x = <<>> THEN y ELSE IF y = <<>> THEN x ELSE Common(x, y)

\* One dimension of an intersection selects what both do.
LEMMA DimensionSelects ==
    ASSUME NEW kind \in {"Single", "Multi", "Var"}, NEW T, NEW n \in Nat, kind = "Multi" => n > 1,
           NEW l \in Seq(OrderedRanges(kind, T, n)), NEW r \in Seq(OrderedRanges(kind, T, n)),
           NEW v \in Seq(Int), l # <<>> \/ r # <<>>
    PROVE  SelectsAt(l, v) /\ SelectsAt(r, v)
              <=> IntersectedAt(l, r) # <<>> /\ SelectsAt(IntersectedAt(l, r), v)
<1>1. Covers(Common(l, r), v) <=> Covers(l, v) /\ Covers(r, v)
  BY CommonCovers
<1>2. ~ Covers(<<>>, v)
  BY DEF Covers
<1> QED
  BY <1>1, <1>2 DEF SelectsAt, IntersectedAt

\* The lists of one dimension are of ranges of one kind and type.
AreAlike(l, r) ==
    \E kind \in {"Single", "Multi", "Var"}, T \in PhysicalType, n \in Nat :
        /\ kind = "Multi" => n > 1
        /\ l \in Seq(OrderedRanges(kind, T, n)) /\ r \in Seq(OrderedRanges(kind, T, n))

\* Lists of one set of lists are alike.
LEMMA ListsAre ==
    ASSUME NEW ls \in RangeLists, NEW l \in ls, NEW r \in ls
    PROVE  AreAlike(l, r)
<1>1. Alike(UNION {ToSet(x) : x \in ls}) /\ l \in Seq(ToSet(l)) /\ r \in Seq(ToSet(r))
  BY ListsAreAlike
<1>2. PICK kind \in {"Single", "Multi", "Var"}, T \in PhysicalType, n \in CellNumbers :
          \A x \in UNION {ToSet(y) : y \in ls} : IsRange(x, kind, T, n)
  BY <1>1 DEF Alike
<1> DEFINE R == OrderedRanges(kind, T, n)
<1>3. ToSet(l) \subseteq R /\ ToSet(r) \subseteq R
  BY <1>2, RangesAre
<1> HIDE DEF R
<1>4. l \in Seq(R) /\ r \in Seq(R)
  BY <1>1, <1>3
<1>5. n \in Nat
  BY CellNumbersAre
<1> DEFINE m == IF kind = "Multi" /\ ~ n > 1 THEN 2 ELSE n
<1>6. CASE kind = "Multi" => n > 1
  BY <1>4, <1>5, <1>6 DEF AreAlike, R
<1>7. CASE kind = "Multi" /\ ~ n > 1
  <2>1. \A x \in UNION {ToSet(y) : y \in ls} : FALSE
    BY <1>2, <1>7, RangesAre
  <2>2. ToSet(l) = {} /\ ToSet(r) = {}
    BY <2>1
  <2>3. l = <<>> /\ r = <<>>
    BY <1>1, <2>2
  <2>4. l \in Seq(OrderedRanges("Var", T, n)) /\ r \in Seq(OrderedRanges("Var", T, n))
    BY <2>3
  <2>5. "Var" \in {"Single", "Multi", "Var"} /\ ("Var" = "Multi" => n > 1)
    OBVIOUS
  <2> QED
    BY <1>5, <2>4, <2>5 DEF AreAlike
<1> QED
  BY <1>6, <1>7

\* The intersection of two subarrays of any two dimensions.
LEMMA SubarraysIntersect ==
    ASSUME NEW a \in RangeLists, NEW b \in RangeLists, NEW s \in a \X b, NEW t \in a \X b
    PROVE  IntersectionSelects(s, t, Coordinates \X Coordinates)
<1> DEFINE cells == Coordinates \X Coordinates
           u == [d \in DOMAIN s |-> IntersectedAt(s[d], t[d])]
<1>1. DOMAIN s = {1, 2} /\ DOMAIN t = {1, 2} /\ AreAlike(s[1], t[1]) /\ AreAlike(s[2], t[2])
  <2>1. s = <<s[1], s[2]>> /\ t = <<t[1], t[2]>> /\ s[1] \in a /\ t[1] \in a /\ s[2] \in b /\ t[2] \in b
    OBVIOUS
  <2>2. DOMAIN <<s[1], s[2]>> = {1, 2} /\ DOMAIN <<t[1], t[2]>> = {1, 2}
    OBVIOUS
  <2>3. DOMAIN s = {1, 2} /\ DOMAIN t = {1, 2}
    BY <2>1, <2>2, Zenon
  <2> QED
    BY <2>1, <2>3, ListsAre
<1>2. \A cell \in cells : cell[1] \in Seq(Int) /\ cell[2] \in Seq(Int)
  BY SlicesAre
<1>3. ASSUME NEW d \in {1, 2}, NEW cell \in cells, s[d] # <<>> \/ t[d] # <<>>
      PROVE  SelectsAt(s[d], cell[d]) /\ SelectsAt(t[d], cell[d])
                <=> u[d] # <<>> /\ SelectsAt(u[d], cell[d])
  <2>1. AreAlike(s[d], t[d]) /\ cell[d] \in Seq(Int) /\ u[d] = IntersectedAt(s[d], t[d])
    BY <1>1, <1>2
  <2> QED
    BY <1>3, <2>1, DimensionSelects DEF AreAlike
<1>4. ASSUME NEW x, NEW v PROVE (x = <<>> \/ \E i \in DOMAIN x : Inside(v, x[i])) <=> SelectsAt(x, v)
  BY DEF SelectsAt, Covers
<1>5. \A cell : /\ Selects(s, cell) <=> \A d \in {1, 2} : SelectsAt(s[d], cell[d])
                /\ Selects(t, cell) <=> \A d \in {1, 2} : SelectsAt(t[d], cell[d])
                /\ Selects(u, cell) <=> \A d \in {1, 2} : SelectsAt(u[d], cell[d])
  <2>1. DOMAIN u = {1, 2}
    BY <1>1
  <2> HIDE DEF u
  <2> QED
    BY <1>1, <1>4, <2>1 DEF Selects
<1>6. DOMAIN u = {1, 2}
  BY <1>1
<1>7. intersect(s, t) = NotEmpty(u)
  BY DEF intersect, IntersectedAt
<1> HIDE DEF u
<1>8. ASSUME NEW cell PROVE (\E x \in NotEmpty(u) : Selects(x, cell))
                                <=> (\A d \in {1, 2} : u[d] # <<>>) /\ Selects(u, cell)
  BY <1>6 DEF NotEmpty
<1>9. ASSUME \A d \in {1, 2} : s[d] # <<>> \/ t[d] # <<>>
      PROVE  \A cell \in cells : (Selects(s, cell) /\ Selects(t, cell)) <=> \E x \in NotEmpty(u) : Selects(x, cell)
  BY <1>3, <1>5, <1>8, <1>9
<1>10. (\A d \in DOMAIN s : s[d] # <<>> \/ t[d] # <<>>) => SelectsBoth(s, t, cells)
  BY <1>1, <1>7, <1>9 DEF SelectsBoth
<1>11. ASSUME \A d \in DOMAIN t : Len(t[d]) = 1
       PROVE  intersect_ranges(s, [d \in DOMAIN t |-> t[d][1]]) = NotEmpty(u) /\ \A d \in {1, 2} : t[d] # <<>>
  <2> DEFINE box == [d \in DOMAIN t |-> t[d][1]]
             w == [d \in DOMAIN s |-> IF s[d] = <<>> THEN <<box[d]>> ELSE Common(s[d], <<box[d]>>)]
  <2>1. ASSUME NEW d \in {1, 2} PROVE <<t[d][1]>> = t[d] /\ t[d] # <<>>
    <3>1. AreAlike(s[d], t[d]) /\ Len(t[d]) = 1
      BY <1>1, <1>11
    <3>2. PICK R : t[d] \in Seq(R)
      BY <3>1 DEF AreAlike
    <3> QED
      BY ONLY <3>1, <3>2, OneElement
  <2>2. ASSUME NEW d \in DOMAIN s PROVE w[d] = u[d]
    <3>1. box[d] = t[d][1] /\ <<t[d][1]>> = t[d] /\ t[d] # <<>>
      BY <1>1, <2>1
    <3>2. w[d] = IF s[d] = <<>> THEN t[d] ELSE Common(s[d], t[d])
      BY <3>1
    <3>3. u[d] = IntersectedAt(s[d], t[d])
      BY DEF u
    <3> QED
      BY <3>1, <3>2, <3>3 DEF IntersectedAt
  <2>3. w = u
    BY <1>1, <1>6, <2>2 DEF u
  <2>4. intersect_ranges(s, box) = NotEmpty(w)
    BY DEF intersect_ranges
  <2> QED
    BY <1>1, <2>1, <2>3, <2>4
<1>12. ASSUME \A d \in DOMAIN t : Len(t[d]) = 1
       PROVE  LET box == [d \in DOMAIN t |-> t[d][1]]
              IN  \A cell \in cells :
                     (Selects(s, cell) /\ Selects(t, cell))
                         <=> \E x \in intersect_ranges(s, box) : Selects(x, cell)
  BY <1>9, <1>11, <1>12
<1> QED
  BY <1>10, <1>12 DEF IntersectionSelects

\* Whatever the bytes: a range made of them is one of what was asked for.
LEMMA SlicesFit ==
    ASSUME NEW dt \in Datatypes, NEW cvn \in Nat, NEW start \in Seq(Int), NEW end \in Seq(Int)
    PROVE  FromSlicesFits(dt, cvn, start, end)
<1> DEFINE n == size(dt)  m == n * Len(start)  k == n * Len(end)  T == physical(dt)
<1>1. n \in {1, 2, 4, 8}
  BY DEF size, physical_type_go, SizeOf
<1>2. Len(start) \in Nat /\ Len(end) \in Nat
  OBVIOUS
<1>3. m % n = 0 /\ k % n = 0 /\ m \div n = Len(start) /\ k \div n = Len(end)
  <2> HIDE DEF n
  <2>1. CASE n = 1
    BY <1>2, <2>1
  <2>2. CASE n = 2
    BY <1>2, <2>2
  <2>3. CASE n = 4
    BY <1>2, <2>3
  <2>4. CASE n = 8
    BY <1>2, <2>4
  <2> QED
    BY <1>1, <2>1, <2>2, <2>3, <2>4
<1> HIDE DEF n, m, k
<1>4. ASSUME from_slices_check(dt, cvn, m, k) = "Ok", cvn > 0 PROVE Len(start) = cvn /\ Len(end) = cvn
  BY <1>3, <1>4 DEF from_slices_check, n
<1> DEFINE S == Single(T, start[1], end[1])  V == VarRange(T, start, end)  M == MultiRange(T, start, end)
<1>5. is_compatible_type(dt, T)
  BY PhysicalTypes DEF physical, PhysicalType
<1>6. S.kind = "Single" /\ V.kind = "Var" /\ M.kind = "Multi" /\ S.type = T /\ V.type = T /\ M.type = T /\ M.lo = start
  BY DEF Single, VarRange, MultiRange
<1> HIDE DEF S, V, M, T
<1>7. SUFFICES ASSUME from_slices_check(dt, cvn, m, k) = "Ok"
               PROVE  \E r \in from_slices(dt, cvn, start, end) : cell_val_num(r) = cvn /\ check_datatype(r, dt)
  BY DEF FromSlicesFits, m, k, n
<1>8. CASE cvn = 1
  <2>1. from_slices(dt, cvn, start, end) = {S}
    BY <1>8 DEF from_slices, S, T, CellValNumVar
  <2>2. cell_val_num(S) = 1 /\ check_datatype(S, dt)
    BY <1>5, <1>6 DEF cell_val_num, single_cell_val_num, check_datatype
  <2> QED
    BY <1>8, <2>1, <2>2
<1>9. CASE cvn = 0
  <2>1. from_slices(dt, cvn, start, end) = {V}
    BY <1>9 DEF from_slices, V, T, CellValNumVar
  <2>2. cell_val_num(V) = 0 /\ check_datatype(V, dt)
    BY <1>5, <1>6 DEF cell_val_num, var_cell_val_num, check_datatype, CellValNumVar
  <2> QED
    BY <1>9, <2>1, <2>2
<1>10. CASE cvn > 1
  <2>1. Len(start) = cvn /\ Len(end) = cvn
    BY <1>4, <1>7, <1>10
  <2>2. from_slices(dt, cvn, start, end) = Multi(T, cvn, start, end)
    BY <1>10 DEF from_slices, T, CellValNumVar
  <2>3. multi_check(cvn, start, end) = "Ok"
    BY <1>10, <2>1 DEF multi_check, CellValNumVar
  <2>4. Multi(T, cvn, start, end) = {M}
    BY <2>3 DEF Multi, M
  <2>5. cell_val_num(M) = cvn /\ check_datatype(M, dt)
    BY <1>5, <1>6, <2>1 DEF cell_val_num, multi_cell_val_num, num_values, check_datatype
  <2> QED
    BY <2>2, <2>4, <2>5
<1> QED
  BY <1>8, <1>9, <1>10

-----------------------------------------------------------------------------
(* Cells are numbers in base F, and their counts differences.              *)

(***************************************************************************)
(* The cells of n values between a and b, numbered in their order.         *)
(***************************************************************************)
Numbers(f, v, a, b, n) ==
    f \in [0..n -> Nat] /\ f[0] = 0 /\ \A i \in 1..n : f[i] = f[i - 1] * (b - a + 1) + (v[i] - a)

\* Products of natural numbers are natural.
LEMMA TimesNat ==
    ASSUME NEW x \in Nat, NEW y \in Nat
    PROVE  x * y \in Nat
  OBVIOUS

\* Such a function exists.
LEMMA NumbersGo ==
    ASSUME NEW n \in Nat, NEW a \in Int, NEW b \in Int, a <= b, NEW v \in [1..n -> a..b]
    PROVE  \E f : Numbers(f, v, a, b, n)
<1> DEFINE F == b - a + 1
           step == [i \in 1..n |-> [x \in Nat |-> x * F + (v[i] - a)]]
<1>1. F \in Nat /\ \A i \in 1..n : v[i] - a \in Nat
  OBVIOUS
<1> HIDE DEF F
<1>2. step \in [1..n -> [Nat -> Nat]] /\ 0 \in Nat
  <2>1. ASSUME NEW i \in 1..n, NEW x \in Nat PROVE x * F + (v[i] - a) \in Nat
    <3>1. x * F \in Nat /\ v[i] - a \in Nat
      BY <1>1, TimesNat
    <3> HIDE DEF F
    <3> QED
      BY <3>1
  <2> QED
    BY <2>1
<1> HIDE DEF step
<1>3. PICK f : Runs(f, Nat, 0, step, n)
  BY ONLY n \in Nat, <1>2, RunsOn
<1>4. ASSUME NEW i \in 1..n PROVE f[i] = f[i - 1] * F + (v[i] - a)
  <2>1. f \in [0..n -> Nat] /\ i - 1 \in 0..n
    BY <1>3 DEF Runs
  <2>2. f[i] = step[i][f[i - 1]]
    BY <1>3, Zenon DEF Runs
  <2>3. f[i - 1] \in Nat
    BY <2>1
  <2> QED
    BY <2>2, <2>3 DEF step
<1>5. f \in [0..n -> Nat] /\ f[0] = 0
  BY <1>3 DEF Runs
<1> QED
  BY <1>4, <1>5, Zenon DEF Numbers, F

NumberOf(v, a, b, n) == CHOOSE f : Numbers(f, v, a, b, n)

\* The numbers of the first values of a cell.
LEMMA NumberOfGoes ==
    ASSUME NEW n \in Nat, NEW a \in Int, NEW b \in Int, a <= b, NEW v \in [1..n -> a..b]
    PROVE  /\ NumberOf(v, a, b, n) \in [0..n -> Nat] /\ NumberOf(v, a, b, n)[0] = 0
           /\ \A i \in 1..n : NumberOf(v, a, b, n)[i]
                                  = NumberOf(v, a, b, n)[i - 1] * (b - a + 1) + (v[i] - a)
<1>1. \E f : Numbers(f, v, a, b, n)
  BY NumbersGo
<1>2. Numbers(NumberOf(v, a, b, n), v, a, b, n)
  BY <1>1, Zenon DEF NumberOf
<1> QED
  BY <1>2, Zenon DEF Numbers

\* One value.
LEMMA NumberStep ==
    ASSUME NEW n \in Nat, NEW a \in Int, NEW b \in Int, a <= b, NEW v \in [1..n -> a..b],
           NEW i \in 0..(n - 1)
    PROVE  NumberOf(v, a, b, n)[i + 1] = NumberOf(v, a, b, n)[i] * (b - a + 1) + (v[i + 1] - a)
<1>1. i + 1 \in 1..n /\ (i + 1) - 1 = i
  OBVIOUS
<1>2. NumberOf(v, a, b, n)[i + 1]
          = NumberOf(v, a, b, n)[(i + 1) - 1] * (b - a + 1) + (v[i + 1] - a)
  BY <1>1, NumberOfGoes, Zenon
<1> QED
  BY <1>1, <1>2, Zenon

\* A larger digit before, and nothing behind it makes up for it.
LEMMA NextIsLess ==
    ASSUME NEW x \in Nat, NEW y \in Nat, x < y, NEW F \in Nat, NEW d \in 0..(F - 1), NEW e \in Nat
    PROVE  x * F + d < y * F + e
<1>1. PICK z \in Nat : y = x + 1 + z
  <2>1. y - x - 1 \in Nat /\ y = x + 1 + (y - x - 1)
    OBVIOUS
  <2> QED
    BY <2>1
<1>2. y * F = x * F + F + z * F
  BY <1>1
<1>3. z * F \in Nat /\ x * F \in Nat
  BY TimesNat
<1> DEFINE p == x * F  q == z * F  r == y * F
<1>4. r = p + F + q /\ p \in Nat /\ q \in Nat /\ d < F
  BY <1>2, <1>3
<1> HIDE DEF p, q, r
<1>5. p + d < r + e
  BY <1>4
<1> QED
  BY <1>5 DEF p, r

\* Cells that agree on their first values agree on the numbers of those.
LEMMA SameNumbers ==
    ASSUME NEW n \in Nat, NEW a \in Int, NEW b \in Int, a <= b,
           NEW s \in [1..n -> a..b], NEW t \in [1..n -> a..b],
           NEW k \in 0..n, \A j \in 1..k : s[j] = t[j]
    PROVE  \A i \in 0..k : NumberOf(s, a, b, n)[i] = NumberOf(t, a, b, n)[i]
<1> DEFINE f == NumberOf(s, a, b, n)  g == NumberOf(t, a, b, n)
           S == {i \in 0..k : f[i] = g[i]}
<1>1. f[0] = 0 /\ g[0] = 0
  BY NumberOfGoes
<1>2. ASSUME NEW i \in 0..(k - 1), i \in S PROVE i + 1 \in S
  <2>1. i \in 0..(n - 1) /\ i + 1 \in 1..k
    OBVIOUS
  <2>2. f[i + 1] = f[i] * (b - a + 1) + (s[i + 1] - a) /\ g[i + 1] = g[i] * (b - a + 1) + (t[i + 1] - a)
    BY <2>1, NumberStep
  <2>3. f[i] = g[i] /\ s[i + 1] = t[i + 1]
    BY <1>2, <2>1
  <2> HIDE DEF f, g
  <2>4. f[i + 1] = g[i + 1]
    BY <2>2, <2>3, Zenon
  <2> QED
    BY <2>1, <2>4
<1> HIDE DEF f, g
<1>3. 0 \in S /\ k \in Nat
  BY <1>1
<1> HIDE DEF S
<1>4. \A i \in 0..k : i \in S
  BY <1>2, <1>3, Induction
<1> QED
  BY <1>4 DEF S, f, g

\* A cell below another has the lower number.
LEMMA LessNumbers ==
    ASSUME NEW n \in Nat, NEW a \in Int, NEW b \in Int, a <= b,
           NEW s \in [1..n -> a..b], NEW t \in [1..n -> a..b],
           NEW k \in 1..n, s[k] < t[k], \A j \in 1..(k - 1) : s[j] = t[j]
    PROVE  \A i \in k..n : NumberOf(s, a, b, n)[i] < NumberOf(t, a, b, n)[i]
<1> DEFINE f == NumberOf(s, a, b, n)  g == NumberOf(t, a, b, n)  F == b - a + 1
           S == {i \in 0..n : i >= k => f[i] < g[i]}
<1>1. f \in [0..n -> Nat] /\ g \in [0..n -> Nat]
  BY NumberOfGoes
<1>2. f[k - 1] = g[k - 1]
  <2>1. k - 1 \in 0..n /\ k - 1 \in 0..(k - 1)
    OBVIOUS
  <2> QED
    BY <2>1, SameNumbers
<1>3. ASSUME NEW i \in 0..(n - 1), i \in S PROVE i + 1 \in S
  <2>1. i + 1 \in 1..n /\ F \in Nat
    OBVIOUS
  <2>2. f[i + 1] = f[i] * F + (s[i + 1] - a) /\ g[i + 1] = g[i] * F + (t[i + 1] - a)
    BY NumberStep
  <2>3. s[i + 1] - a \in 0..(F - 1) /\ t[i + 1] - a \in Nat
    BY <2>1
  <2>4. f[i] \in Nat /\ g[i] \in Nat
    BY <1>1
  <2> HIDE DEF f, g, F
  <2>5. CASE i + 1 > k
    <3>1. f[i] < g[i]
      BY <1>3, <2>5
    <3>2. f[i] * F + (s[i + 1] - a) < g[i] * F + (t[i + 1] - a)
      BY ONLY <2>1, <2>3, <2>4, <3>1, NextIsLess
    <3> QED
      BY <2>1, <2>2, <3>2
  <2>6. CASE i + 1 = k
    <3>1. f[i] = g[i] /\ s[i + 1] < t[i + 1]
      BY <1>2, <2>6
    <3> DEFINE p == f[i] * F  x == s[i + 1]  y == t[i + 1]
    <3>2. p \in Nat /\ x \in Int /\ y \in Int
      BY <2>1, <2>4, TimesNat
    <3>3. f[i + 1] = p + (x - a) /\ g[i + 1] = p + (y - a) /\ x < y
      BY <2>2, <3>1, Zenon
    <3> HIDE DEF p, x, y
    <3>4. f[i + 1] < g[i + 1]
      BY <3>2, <3>3
    <3> QED
      BY <2>1, <3>4
  <2>7. CASE i + 1 < k
    BY <2>1, <2>7
  <2> QED
    BY <2>1, <2>5, <2>6, <2>7
<1>4. 0 \in S
  OBVIOUS
<1> HIDE DEF S
<1>5. \A i \in 0..n : i \in S
  BY <1>3, <1>4, Induction
<1> HIDE DEF f, g
<1>6. \A i \in k..n : i \in 0..n
  OBVIOUS
<1> QED
  BY <1>5, <1>6 DEF S, f, g

\* Cells are slices.
LEMMA CellsAreSlices ==
    ASSUME NEW n \in Nat, NEW a \in Int, NEW b \in Int, NEW s \in [1..n -> a..b]
    PROVE  s \in Seq(Int) /\ Len(s) = n
<1>1. s = [i \in 1..n |-> s[i]] /\ \A i \in 1..n : s[i] \in Int
  OBVIOUS
<1>2. [i \in 1..n |-> s[i]] \in Seq(Int) /\ Len([i \in 1..n |-> s[i]]) = n
  BY <1>1
<1> QED
  BY <1>1, <1>2

\* The numbers are in the order of the cells.
LEMMA NumbersInOrder ==
    ASSUME NEW n \in Nat, NEW a \in Int, NEW b \in Int, a <= b,
           NEW s \in [1..n -> a..b], NEW t \in [1..n -> a..b]
    PROVE  /\ le(s, t) <=> NumberOf(s, a, b, n)[n] <= NumberOf(t, a, b, n)[n]
           /\ NumberOf(s, a, b, n)[n] = NumberOf(t, a, b, n)[n] => s = t
           /\ le(s, t) => \A i \in 0..n : NumberOf(s, a, b, n)[i] <= NumberOf(t, a, b, n)[i]
<1>1. s \in Seq(Int) /\ t \in Seq(Int) /\ Len(s) = n /\ Len(t) = n
  BY CellsAreSlices
<1>2. ASSUME NEW x \in [1..n -> a..b], NEW y \in [1..n -> a..b], Before(x, y)
      PROVE  /\ NumberOf(x, a, b, n)[n] < NumberOf(y, a, b, n)[n]
             /\ \A i \in 0..n : NumberOf(x, a, b, n)[i] <= NumberOf(y, a, b, n)[i]
  <2>1. Len(x) = n
    BY CellsAreSlices
  <2>2. PICK k \in 1..n : x[k] < y[k] /\ \A j \in 1..(k - 1) : x[j] = y[j]
    BY <1>2, <2>1 DEF Before, Differ
  <2>3. \A i \in k..n : NumberOf(x, a, b, n)[i] < NumberOf(y, a, b, n)[i]
    BY <2>2, LessNumbers
  <2>4. \A i \in 0..(k - 1) : NumberOf(x, a, b, n)[i] = NumberOf(y, a, b, n)[i]
    <3>1. k - 1 \in 0..n
      OBVIOUS
    <3> QED
      BY <2>2, <3>1, SameNumbers
  <2>5. NumberOf(x, a, b, n) \in [0..n -> Nat] /\ NumberOf(y, a, b, n) \in [0..n -> Nat]
    BY NumberOfGoes
  <2>6. ASSUME NEW i \in 0..n PROVE NumberOf(x, a, b, n)[i] <= NumberOf(y, a, b, n)[i]
    <3>1. i \in 0..(k - 1) \/ i \in k..n
      OBVIOUS
    <3> QED
      BY <2>3, <2>4, <2>5, <3>1
  <2>7. n \in k..n
    OBVIOUS
  <2> QED
    BY <2>3, <2>6, <2>7
<1>3. Before(s, t) \/ Before(t, s) \/ s = t
  <2>1. CASE \E k \in Nat : Differ(s, t, k)
    <3>1. PICK k \in Nat : Differ(s, t, k)
      BY <2>1
    <3>2. s[k] \in Int /\ t[k] \in Int /\ s[k] # t[k] /\ Differ(t, s, k)
      BY <1>1, <3>1 DEF Differ
    <3>3. s[k] < t[k] \/ t[k] < s[k]
      BY <3>2
    <3> QED
      BY <3>1, <3>2, <3>3 DEF Before
  <2>2. CASE AgreeOnBoth(s, t)
    BY <1>1, <2>2 DEF AgreeOnBoth
  <2> QED
    BY <1>1, <2>1, <2>2, Compared
<1> DEFINE f == NumberOf(s, a, b, n)  g == NumberOf(t, a, b, n)
<1>4. f \in [0..n -> Nat] /\ g \in [0..n -> Nat]
  BY NumberOfGoes
<1>11. n \in 0..n /\ f[n] \in Nat /\ g[n] \in Nat
  BY <1>4
<1>12. Before(s, t) => f[n] < g[n] /\ \A i \in 0..n : f[i] <= g[i]
  BY <1>2
<1>13. Before(t, s) => g[n] < f[n]
  BY <1>2
<1>14. s = t => \A i \in 0..n : f[i] <= g[i]
  <2>1. ASSUME s = t PROVE \A i \in 0..n : f[i] <= g[i]
    <3>1. \A i \in 0..n : f[i] = g[i] /\ f[i] \in Nat
      BY <1>4, <2>1
    <3> HIDE DEF f, g
    <3> QED
      BY <3>1
  <2> QED
    BY <2>1
<1> HIDE DEF f, g
<1>5. s = t => le(s, t)
  BY <1>1, Total
<1>6. Before(s, t) => le(s, t)
  BY <1>1, Ordering
<1>7. Before(t, s) => ~ le(s, t)
  <2>1. ASSUME Before(t, s), le(s, t) PROVE FALSE
    <3>1. Before(s, t) \/ s = t
      <4>1. Before(s, t) \/ Starts(s, t)
        BY <1>1, <2>1, Ordering
      <4>2. Starts(s, t) => s = t
        BY <1>1 DEF Starts, AgreeOnBoth
      <4> QED
        BY <4>1, <4>2
    <3>2. g[n] < f[n]
      BY <1>13, <2>1
    <3>3. f[n] <= g[n]
      BY <1>11, <1>12, <1>14, <3>1
    <3> QED
      BY <1>11, <3>2, <3>3
  <2> QED
    BY <2>1
<1>8. CASE Before(s, t)
  BY <1>6, <1>8, <1>11, <1>12 DEF f, g
<1>9. CASE Before(t, s)
  BY <1>7, <1>9, <1>11, <1>13 DEF f, g
<1>10. CASE s = t
  BY <1>5, <1>10, <1>11, <1>14 DEF f, g
<1> QED
  BY <1>3, <1>8, <1>9, <1>10

\* Division by a variable number, rounded down.
LEMMA Divides ==
    ASSUME NEW m \in Nat, NEW F \in Nat, F > 0
    PROVE  m \div F \in Nat /\ F * (m \div F) <= m /\ m < F * (m \div F) + F
  OBVIOUS

\* Every number up to that of a cell is one of a cell.
LEMMA NumbersTaken ==
    ASSUME NEW n \in Nat, NEW a \in Int, NEW b \in Int, a <= b, NEW hi \in [1..n -> a..b]
    PROVE  \A m \in 0..NumberOf(hi, a, b, n)[n] :
              \E v \in [1..n -> a..b] : NumberOf(v, a, b, n)[n] = m
<1> DEFINE F == b - a + 1
           h == NumberOf(hi, a, b, n)
           Taken(i) == \A m \in 0..h[i] : \E v \in [1..n -> a..b] : NumberOf(v, a, b, n)[i] = m
           S == {i \in 0..n : Taken(i)}
<1>1. F \in Nat /\ F > 0 /\ h \in [0..n -> Nat] /\ h[0] = 0
  BY NumberOfGoes
<1>2. 0 \in S
  <2>1. NumberOf(hi, a, b, n)[0] = 0 /\ 0..h[0] = {0}
    BY <1>1
  <2> QED
    BY <2>1
<1>3. ASSUME NEW i \in 0..(n - 1), i \in S PROVE i + 1 \in S
  <2>1. i + 1 \in 1..n /\ i \in 0..n /\ h[i] \in Nat /\ h[i + 1] \in Nat
    BY <1>1
  <2>2. h[i + 1] = h[i] * F + (hi[i + 1] - a) /\ hi[i + 1] - a \in 0..(F - 1)
    <3>1. hi[i + 1] - a \in 0..(F - 1)
      BY <2>1
    <3>2. h[i + 1] = h[i] * F + (hi[i + 1] - a)
      BY NumberStep
    <3> QED
      BY <3>1, <3>2, Zenon
  <2> SUFFICES ASSUME NEW m \in 0..h[i + 1]
               PROVE  \E v \in [1..n -> a..b] : NumberOf(v, a, b, n)[i + 1] = m
    <3>1. i + 1 \in 0..n
      BY <2>1
    <3> QED
      BY <3>1, Zenon
  <2> DEFINE q == m \div F  p == m - F * q
  <2> HIDE DEF F, h
  <2>3. m \in Nat
    BY <2>1
  <2>4. q \in Nat /\ p \in 0..(F - 1) /\ m = q * F + p
    <3> DEFINE k == F * q
    <3>1. q \in Nat /\ k <= m /\ m < k + F
      BY <1>1, <2>3, Divides
    <3>2. k = q * F /\ k \in Nat
      <4> HIDE DEF q
      <4> QED
        BY <1>1, <3>1, TimesNat
    <3>3. p = m - k
      OBVIOUS
    <3> HIDE DEF k, q, p
    <3>4. p \in 0..(F - 1) /\ m = k + p
      BY <1>1, <2>3, <3>1, <3>2, <3>3
    <3> QED
      BY <3>1, <3>2, <3>4
  <2> HIDE DEF q, p
  <2>5. q <= h[i]
    <3>1. SUFFICES ASSUME h[i] < q PROVE FALSE
      BY <2>1, <2>4
    <3> DEFINE d == hi[i + 1] - a
    <3>2. d \in 0..(F - 1) /\ p \in Nat
      BY <2>2, <2>4
    <3>3. h[i] * F + d < q * F + p
      BY ONLY <1>1, <2>1, <2>4, <3>1, <3>2, NextIsLess
    <3>4. h[i + 1] = h[i] * F + d
      BY <2>2
    <3> HIDE DEF d
    <3> QED
      BY <2>1, <2>3, <2>4, <3>3, <3>4
  <2>6. q \in 0..h[i]
    BY <2>1, <2>4, <2>5
  <2>7. PICK v \in [1..n -> a..b] : NumberOf(v, a, b, n)[i] = q
    BY <1>3, <2>6
  <2> DEFINE w == [j \in 1..n |-> IF j = i + 1 THEN a + p ELSE v[j]]
  <2>8. w \in [1..n -> a..b] /\ w[i + 1] = a + p /\ \A j \in 1..i : w[j] = v[j]
    <3>1. a + p \in a..b
      BY <2>4 DEF F
    <3> QED
      BY <2>1, <3>1
  <2> HIDE DEF w
  <2>9. NumberOf(w, a, b, n)[i] = q
    <3>1. \A k \in 0..i : NumberOf(w, a, b, n)[k] = NumberOf(v, a, b, n)[k]
      BY <2>1, <2>8, SameNumbers
    <3> QED
      BY <2>7, <3>1
  <2>10. NumberOf(w, a, b, n)[i + 1] = q * F + p
    <3>1. NumberOf(w, a, b, n)[i + 1] = NumberOf(w, a, b, n)[i] * F + (w[i + 1] - a)
      BY <2>8, NumberStep DEF F
    <3>2. w[i + 1] - a = p
      BY <2>4, <2>8
    <3> QED
      BY <2>9, <3>1, <3>2, Zenon
  <2> QED
    BY <2>4, <2>8, <2>10
<1> HIDE DEF S, h
<1>4. \A i \in 0..n : i \in S
  BY <1>2, <1>3, Induction
<1>5. n \in 0..n
  OBVIOUS
<1> QED
  BY <1>4, <1>5 DEF S, h

\* The cells between two are as many as the numbers between theirs.
LEMMA CellsBetween ==
    ASSUME NEW n \in Nat, NEW a \in Int, NEW b \in Int, a <= b,
           NEW lo \in [1..n -> a..b], NEW hi \in [1..n -> a..b], le(lo, hi)
    PROVE  Cardinality({v \in [1..n -> a..b] : le(lo, v) /\ le(v, hi)})
              = NumberOf(hi, a, b, n)[n] - NumberOf(lo, a, b, n)[n] + 1
<1> DEFINE W(v) == NumberOf(v, a, b, n)[n]
           V == [1..n -> a..b]
           cells == {v \in V : le(lo, v) /\ le(v, hi)}
           x == W(lo)  y == W(hi)
           f == [m \in x..y |-> CHOOSE v \in cells : W(v) = m]
<1>1. \A v \in V : W(v) \in Nat
  <2> SUFFICES ASSUME NEW v \in V PROVE W(v) \in Nat
    OBVIOUS
  <2>1. NumberOf(v, a, b, n) \in [0..n -> Nat] /\ n \in 0..n
    BY NumberOfGoes
  <2> QED
    BY <2>1
<1>2. ASSUME NEW s \in V, NEW t \in V PROVE (le(s, t) <=> W(s) <= W(t)) /\ (W(s) = W(t) => s = t)
  BY NumbersInOrder
<1>3. \A m \in 0..y : \E v \in V : W(v) = m
  BY NumbersTaken
<1>4. lo \in V /\ hi \in V
  OBVIOUS
<1>5. x \in Nat /\ y \in Nat /\ x <= y
  BY <1>1, <1>2, <1>4
<1> HIDE DEF W, V
<1>6. \A v \in cells : W(v) \in x..y
  BY <1>1, <1>2, <1>4, <1>5
<1>7. ASSUME NEW m \in x..y PROVE \E v \in cells : W(v) = m
  <2>1. m \in 0..y
    BY <1>5
  <2>2. PICK v \in V : W(v) = m
    BY <1>3, <2>1
  <2>3. le(lo, v) /\ le(v, hi)
    BY <1>2, <1>4, <1>5, <2>2
  <2> QED
    BY <2>2, <2>3
<1>8. ASSUME NEW m \in x..y PROVE f[m] \in cells /\ W(f[m]) = m
  <2>1. f[m] = CHOOSE v \in cells : W(v) = m
    OBVIOUS
  <2>2. \E v \in cells : W(v) = m
    BY <1>7
  <2> HIDE DEF f, cells
  <2> QED
    BY <2>1, <2>2, Zenon
<1>9. DOMAIN f = x..y
  OBVIOUS
<1>10. f = [m \in x..y |-> f[m]]
  OBVIOUS
<1>11. \A v \in cells : v \in V
  OBVIOUS
<1> HIDE DEF f, cells, x, y
<1>12. f \in Bijection(x..y, cells)
  <2>1. f \in [x..y -> cells]
    BY <1>8, <1>10
  <2>2. \A i, j \in x..y : f[i] = f[j] => i = j
    BY <1>8
  <2>3. \A v \in cells : \E m \in x..y : f[m] = v
    <3> TAKE v \in cells
    <3>1. W(v) \in x..y
      BY <1>6
    <3>2. f[W(v)] \in cells /\ W(f[W(v)]) = W(v)
      BY <1>8, <3>1
    <3>3. f[W(v)] = v
      BY <1>2, <1>11, <3>2
    <3> QED
      BY <3>1, <3>3
  <2> QED
    BY <1>9, <2>1, <2>2, <2>3 DEF Bijection, Injection, Surjection, IsInjective
<1>13. Cardinality(cells) = Cardinality(x..y)
  <2>1. IsFiniteSet(x..y) /\ ExistsBijection(x..y, cells)
    BY <1>5, <1>12, FS_Interval DEF ExistsBijection
  <2> QED
    BY <2>1, FS_Bijection
<1>14. Cardinality(x..y) = y - x + 1
  <2>1. Cardinality(x..y) = IF x > y THEN 0 ELSE y - x + 1
    BY <1>5, FS_Interval
  <2> QED
    BY <1>5, <2>1
<1> QED
  BY <1>13, <1>14 DEF cells, x, y, W, V

\* The difference of two numbers, one step on.
LEMMA Apart ==
    ASSUME NEW x \in Int, NEW y \in Int, NEW F \in Int, NEW d \in Int, NEW e \in Int
    PROVE  (x * F + d) - (y * F + e) = (x - y) * F + (d - e)
  OBVIOUS

Differences(lo, hi, a, b, n) ==
    [i \in 0..n |-> NumberOf(hi, a, b, n)[i] - NumberOf(lo, a, b, n)[i]]

Grows(D, lo, hi, a, b, n) ==
    /\ D \in [0..n -> Nat] /\ D[0] = 0
    /\ \A i \in 0..(n - 1) : D[i + 1] = D[i] * (b - a + 1) + (hi[i + 1] - lo[i + 1])
    /\ \A i \in 0..(n - 1) : D[i] * (b - a + 1) <= D[n] + (b - a)

\* The differences of the numbers: no step lowers them, and none is past the last.
LEMMA DifferencesGrow ==
    ASSUME NEW n \in Nat, NEW a \in Int, NEW b \in Int, a <= b,
           NEW lo \in [1..n -> a..b], NEW hi \in [1..n -> a..b], le(lo, hi)
    PROVE  Grows(Differences(lo, hi, a, b, n), lo, hi, a, b, n)
<1> DEFINE f == NumberOf(hi, a, b, n)  g == NumberOf(lo, a, b, n)  F == b - a + 1
           D == Differences(lo, hi, a, b, n)
<1>1. f \in [0..n -> Nat] /\ g \in [0..n -> Nat] /\ f[0] = 0 /\ g[0] = 0
  BY NumberOfGoes
<1>2. \A i \in 0..n : g[i] <= f[i]
  BY NumbersInOrder
<1>3. ASSUME NEW i \in 0..(n - 1)
      PROVE  f[i + 1] = f[i] * F + (hi[i + 1] - a) /\ g[i + 1] = g[i] * F + (lo[i + 1] - a)
  BY NumberStep
<1>4. D = [i \in 0..n |-> f[i] - g[i]]
  BY DEF Differences
<1> HIDE DEF f, g, D
<1>5. D \in [0..n -> Nat] /\ D[0] = 0
  <2>1. \A i \in 0..n : f[i] - g[i] \in Nat
    BY <1>1, <1>2
  <2>2. D \in [0..n -> Nat]
    BY <1>4, <2>1
  <2> QED
    BY <1>1, <1>4, <2>2
<1>6. ASSUME NEW i \in 0..(n - 1) PROVE D[i + 1] = D[i] * F + (hi[i + 1] - lo[i + 1])
  <2>1. i \in 0..n /\ i + 1 \in 0..n /\ i + 1 \in 1..n
    OBVIOUS
  <2> DEFINE x == f[i]  y == g[i]  d == hi[i + 1] - a  e == lo[i + 1] - a
  <2>2. x \in Int /\ y \in Int /\ F \in Int /\ d \in Int /\ e \in Int /\ d - e = hi[i + 1] - lo[i + 1]
    <3>1. hi[i + 1] \in Int /\ lo[i + 1] \in Int
      BY <2>1
    <3>2. x \in Int /\ y \in Int
      BY <1>1, <2>1
    <3> QED
      BY <3>1, <3>2
  <2>3. D[i + 1] = (x * F + d) - (y * F + e) /\ D[i] = x - y
    BY <1>3, <1>4, <2>1
  <2> HIDE DEF x, y, d, e, F
  <2>4. (x * F + d) - (y * F + e) = (x - y) * F + (d - e)
    BY <2>2, Apart
  <2>5. D[i + 1] = (x - y) * F + (d - e)
    BY <2>3, <2>4, Zenon
  <2>6. D[i + 1] = D[i] * F + (hi[i + 1] - lo[i + 1])
    BY <2>2, <2>3, <2>5, Zenon
  <2> QED
    BY <2>6
<1>7. ASSUME NEW i \in 0..(n - 1) PROVE D[i] * F <= D[i + 1] + (F - 1) /\ D[i] <= D[i + 1]
  <2>1. i \in 0..n /\ i + 1 \in 0..n /\ i + 1 \in 1..n /\ F \in Nat /\ F > 0
    OBVIOUS
  <2> DEFINE d == hi[i + 1] - lo[i + 1]  x == D[i]  y == D[i + 1]  p == x * F
  <2>2. d \in Int /\ d + (F - 1) >= 0 /\ x \in Nat /\ y \in Nat
    BY <1>5, <2>1
  <2>3. y = p + d
    BY <1>6
  <2>4. x = 0 \/ p - x - (F - 1) >= 0
    <3>1. CASE x = 0
      BY <3>1
    <3>2. CASE x # 0
      <4>1. (x - 1) * (F - 1) \in Nat
        <5>1. x - 1 \in Nat /\ F - 1 \in Nat
          <6>1. F - 1 \in Nat
            BY <2>1
          <6> HIDE DEF x, F
          <6> QED
            BY <2>2, <3>2, <6>1
        <5> QED
          BY <5>1, TimesNat
      <4>2. (x - 1) * (F - 1) = p - x - (F - 1)
        BY <2>1, <2>2
      <4> QED
        BY <4>1, <4>2
    <3> QED
      BY <3>1, <3>2
  <2>5. p \in Nat
    BY <2>1, <2>2, TimesNat
  <2> HIDE DEF d, x, y, p, F
  <2>6. p <= y + (F - 1) /\ x <= y
    BY <2>1, <2>2, <2>3, <2>4, <2>5
  <2> QED
    BY <2>6 DEF x, y, p
<1> DEFINE S == {k \in 0..n : \A i \in 0..k : D[i] <= D[k]}
<1>8. 0 \in S
  BY <1>5
<1>9. ASSUME NEW k \in 0..(n - 1), k \in S PROVE k + 1 \in S
  <2>1. k \in 0..n /\ k + 1 \in 0..n
    OBVIOUS
  <2>2. ASSUME NEW i \in 0..(k + 1) PROVE D[i] <= D[k + 1]
    <3>1. i \in 0..n /\ D[i] \in Nat /\ D[k] \in Nat /\ D[k + 1] \in Nat
      BY <1>5, <2>1
    <3>2. CASE i = k + 1
      BY <3>1, <3>2
    <3>3. CASE i \in 0..k
      <4>1. D[i] <= D[k] /\ D[k] <= D[k + 1]
        BY <1>7, <1>9, <3>3
      <4> QED
        BY <3>1, <4>1
    <3> QED
      BY <3>2, <3>3
  <2> QED
    BY <2>1, <2>2
<1> HIDE DEF S
<1>10. \A k \in 0..n : k \in S
  BY <1>8, <1>9, Induction
<1>11. ASSUME NEW i \in 0..(n - 1) PROVE D[i] * F <= D[n] + (b - a)
  <2>1. n \in S /\ i + 1 \in 0..n /\ i \in 0..n /\ n \in 0..n
    BY <1>10
  <2>2. D[i + 1] <= D[n]
    BY <2>1 DEF S
  <2>3. D[i] \in Nat /\ D[i + 1] \in Nat /\ D[n] \in Nat /\ F \in Nat
    BY <1>5, <2>1
  <2>4. D[i] * F <= D[i + 1] + (F - 1)
    BY <1>7
  <2> DEFINE p == D[i] * F
  <2>5. p \in Nat
    BY <2>3, TimesNat
  <2>6. F - 1 = b - a
    OBVIOUS
  <2> HIDE DEF p, F
  <2>7. p <= D[i + 1] + (b - a)
    BY <2>4, <2>6 DEF p
  <2>8. p <= D[n] + (b - a)
    BY <2>2, <2>3, <2>5, <2>7
  <2> QED
    BY <2>8 DEF p
<1> QED
  BY <1>5, <1>6, <1>11, Zenon DEF Grows, D

\* The fold of multi_num_cells.
Folds(g, T, lo, hi) ==
    g = [i \in 0..Len(lo) |-> IF i = 0 THEN 0 ELSE Count(T, lo, hi, i, g[i - 1])]

Folded(T, lo, hi, n) ==
    LET g == CHOOSE f : Folds(f, T, lo, hi)
    IN  /\ g[n] \in Nat
        /\ g[n] + 1 = Cardinality({v \in [1..n -> TMin(T)..TMax(T)] : le(lo, v) /\ le(v, hi)})

\* The fold of num_cells counts the cells between the bounds.
LEMMA FoldCounts ==
    ASSUME NEW T \in PhysicalType, NEW n \in Nat,
           NEW lo \in [1..n -> TMin(T)..TMax(T)], NEW hi \in [1..n -> TMin(T)..TMax(T)], le(lo, hi),
           Cardinality({v \in [1..n -> TMin(T)..TMax(T)] : le(lo, v) /\ le(v, hi)})
               + (TMax(T) - TMin(T) + 1) <= CountMax
    PROVE  Folded(T, lo, hi, n)
<1> DEFINE a == TMin(T)  b == TMax(T)  F == b - a + 1
           cells == {v \in [1..n -> a..b] : le(lo, v) /\ le(v, hi)}
           D == Differences(lo, hi, a, b, n)
           g == CHOOSE f : Folds(f, T, lo, hi)
<1>1. a \in Int /\ b \in Int /\ a <= b /\ CountMax \in Nat
  BY TypesAreIntervals
<1>2. Len(lo) = n
  BY <1>1, CellsAreSlices
<1>3. /\ D \in [0..n -> Nat] /\ D[0] = 0
      /\ \A i \in 0..(n - 1) : D[i + 1] = D[i] * (b - a + 1) + (hi[i + 1] - lo[i + 1])
      /\ \A i \in 0..(n - 1) : D[i] * (b - a + 1) <= D[n] + (b - a)
  <2>1. Grows(D, lo, hi, a, b, n)
    BY <1>1, DifferencesGrow
  <2> HIDE DEF D, a, b
  <2> QED
    BY <2>1 DEF Grows
<1>4. Cardinality(cells) = D[n] + 1
  <2>1. Cardinality(cells) = NumberOf(hi, a, b, n)[n] - NumberOf(lo, a, b, n)[n] + 1
    BY <1>1, CellsBetween
  <2>2. n \in 0..n
    OBVIOUS
  <2> QED
    BY <2>1, <2>2 DEF Differences
<1>5. Cardinality(cells) + F <= CountMax
  OBVIOUS
<1> HIDE DEF D, cells
<1>6. D[n] \in Nat
  BY <1>3
<1>7. ASSUME NEW i \in 0..(n - 1) PROVE Count(T, lo, hi, i + 1, D[i]) = D[i + 1]
  <2>1. D[i] * F <= D[n] + (b - a) /\ D[i + 1] = D[i] * F + (hi[i + 1] - lo[i + 1])
    BY <1>3
  <2>2. F \in Nat /\ D[i] \in Nat
    <3>1. i \in 0..n
      OBVIOUS
    <3> QED
      BY <1>1, <1>3, <3>1
  <2>3. D[i] * F \in Nat
    BY <2>2, TimesNat
  <2> DEFINE p == D[i] * F
  <2>4. p <= CountMax
    <3>1. b - a = F - 1
      BY <1>1
    <3> HIDE DEF p, F, a, b
    <3>2. p <= D[n] + (F - 1)
      BY <2>1, <3>1 DEF p
    <3>3. p \in Nat
      BY <2>3 DEF p
    <3> QED
      BY <1>1, <1>4, <1>5, <1>6, <2>2, <3>2, <3>3
  <2>5. Count(T, lo, hi, i + 1, D[i])
           = IF D[i] < 0 \/ p > CountMax THEN -1 ELSE p + (hi[i + 1] - lo[i + 1])
    BY DEF Count
  <2>6. ~ (D[i] < 0) /\ ~ (p > CountMax)
    <3> HIDE DEF p
    <3> QED
      BY <1>1, <2>2, <2>3, <2>4 DEF p
  <2> QED
    BY <2>1, <2>5, <2>6
<1>8. Folds(D, T, lo, hi)
  <2>1. D = [i \in 0..n |-> D[i]]
    BY <1>3
  <2>2. ASSUME NEW i \in 0..n PROVE D[i] = IF i = 0 THEN 0 ELSE Count(T, lo, hi, i, D[i - 1])
    <3>1. CASE i = 0
      BY <1>3, <3>1
    <3>2. CASE i # 0
      <4>1. i - 1 \in 0..(n - 1) /\ (i - 1) + 1 = i
        BY <3>2
      <4>2. Count(T, lo, hi, (i - 1) + 1, D[i - 1]) = D[(i - 1) + 1]
        BY <1>7, <4>1
      <4> QED
        BY <3>2, <4>1, <4>2, Zenon
    <3> QED
      BY <3>1, <3>2
  <2>3. D = [i \in 0..n |-> IF i = 0 THEN 0 ELSE Count(T, lo, hi, i, D[i - 1])]
    BY <2>1, <2>2
  <2> QED
    BY <1>2, <2>3, Zenon DEF Folds
<1>9. Folds(g, T, lo, hi)
  BY <1>8, Zenon
<1> HIDE DEF g
<1>10. g[0] = 0 /\ \A i \in 0..(n - 1) : g[i + 1] = Count(T, lo, hi, i + 1, g[i])
  <2>1. g = [i \in 0..n |-> IF i = 0 THEN 0 ELSE Count(T, lo, hi, i, g[i - 1])]
    BY <1>2, <1>9, Zenon DEF Folds
  <2>2. ASSUME NEW j \in 0..n PROVE g[j] = IF j = 0 THEN 0 ELSE Count(T, lo, hi, j, g[j - 1])
    BY <2>1, Zenon
  <2>3. g[0] = 0
    BY <2>2
  <2>4. ASSUME NEW i \in 0..(n - 1) PROVE g[i + 1] = Count(T, lo, hi, i + 1, g[i])
    <3>1. i + 1 \in 0..n /\ i + 1 # 0 /\ (i + 1) - 1 = i
      OBVIOUS
    <3>2. g[i + 1] = Count(T, lo, hi, i + 1, g[(i + 1) - 1])
      BY <2>2, <3>1, Zenon
    <3> QED
      BY <3>1, <3>2, Zenon
  <2> QED
    BY <2>3, <2>4
<1> DEFINE S == {i \in 0..n : g[i] = D[i]}
<1>11. 0 \in S
  BY <1>3, <1>10
<1>12. ASSUME NEW i \in 0..(n - 1), i \in S PROVE i + 1 \in S
  <2>1. g[i] = D[i] /\ i + 1 \in 0..n
    BY <1>12
  <2>2. g[i + 1] = D[i + 1]
    BY <1>7, <1>10, <2>1, Zenon
  <2> QED
    BY <2>1, <2>2
<1> HIDE DEF S
<1>13. \A i \in 0..n : i \in S
  BY <1>11, <1>12, Induction
<1>14. g[n] = D[n]
  <2>1. n \in 0..n
    OBVIOUS
  <2> QED
    BY <1>13, <2>1 DEF S
<1> QED
  BY <1>4, <1>6, <1>14 DEF g, cells, Folded

\* Slices of a length are cells.
LEMMA SlicesAreCells ==
    ASSUME NEW V, NEW n \in Nat, NEW s \in Seq(V), Len(s) = n
    PROVE  s \in [1..n -> V]
  OBVIOUS

\* num_cells is the number of cells of any range where it fits.
LEMMA RangesCount ==
    ASSUME NEW kind \in {"Single", "Multi", "Var"}, NEW T \in PhysicalType, NEW m \in CellNumbers,
           NEW r, IsRange(r, kind, T, m)
    PROVE  CountsCells(r)
<1> DEFINE n == Len(r.lo)
           cells == {v \in [1..n -> TMin(T)..TMax(T)] : le(r.lo, v) /\ le(v, r.hi)}
<1>1. r.kind = kind /\ r.type = T /\ le(r.lo, r.hi)
  BY DEF IsRange, Ordered
<1>2. {v \in [1..num_values(r) -> TMin(r.type)..TMax(r.type)] : Inside(v, r)} = cells
  BY <1>1 DEF num_values, Inside
<1>3. SUFFICES ASSUME kind # "Var", T \notin Floats,
                      Cardinality(cells) + (TMax(T) - TMin(T) + 1) <= CountMax
               PROVE  num_cells(r) = {Cardinality(cells)}
  BY <1>1, <1>2 DEF CountsCells
<1>4. n \in Nat /\ r.lo \in [1..n -> TMin(T)..TMax(T)] /\ r.hi \in [1..n -> TMin(T)..TMax(T)]
  <2>1. r.lo \in Seq(TMin(T)..TMax(T)) /\ r.hi \in Seq(TMin(T)..TMax(T)) /\ Len(r.hi) = Len(r.lo)
    BY <1>3 DEF IsRange
  <2>2. n \in Nat
    BY <2>1
  <2> QED
    BY <2>1, <2>2, SlicesAreCells
<1> HIDE DEF n
<1>5. CASE kind = "Single"
  <2> DEFINE a == TMin(T)  b == TMax(T)
  <2>1. n = 1
    BY <1>5 DEF n, IsRange
  <2>2. a \in Int /\ b \in Int /\ a <= b
    BY TypesAreIntervals
  <2>3. Cardinality(cells) = NumberOf(r.hi, a, b, n)[n] - NumberOf(r.lo, a, b, n)[n] + 1
    <3> DEFINE lo == r.lo  hi == r.hi
    <3>1. lo \in [1..n -> a..b] /\ hi \in [1..n -> a..b] /\ le(lo, hi)
      BY <1>1, <1>4
    <3>2. cells = {v \in [1..n -> a..b] : le(lo, v) /\ le(v, hi)}
      OBVIOUS
    <3> HIDE DEF lo, hi, a, b, cells
    <3>3. Cardinality({v \in [1..n -> a..b] : le(lo, v) /\ le(v, hi)})
            = NumberOf(hi, a, b, n)[n] - NumberOf(lo, a, b, n)[n] + 1
      BY <1>4, <2>2, <3>1, CellsBetween
    <3> QED
      BY <3>2, <3>3 DEF lo, hi
  <2>4. ASSUME NEW v \in [1..n -> a..b] PROVE NumberOf(v, a, b, n)[n] = v[1] - a
    <3>1. 0 \in 0..(n - 1)
      BY <2>1
    <3>2. NumberOf(v, a, b, n)[0 + 1] = NumberOf(v, a, b, n)[0] * (b - a + 1) + (v[0 + 1] - a)
      BY <1>4, <2>2, <3>1, NumberStep
    <3>3. NumberOf(v, a, b, n)[0] = 0
      BY <1>4, <2>2, NumberOfGoes
    <3>4. 0 + 1 = 1 /\ 0 * (b - a + 1) + (v[1] - a) = v[1] - a
      BY <2>1, <2>2
    <3> QED
      BY <2>1, <3>2, <3>3, <3>4
  <2>5. Cardinality(cells) = 1 + (r.hi[1] - r.lo[1])
    <3>1. r.hi[1] \in Int /\ r.lo[1] \in Int
      BY <1>4, <2>1, <2>2
    <3>2. NumberOf(r.hi, a, b, n)[n] = r.hi[1] - a /\ NumberOf(r.lo, a, b, n)[n] = r.lo[1] - a
      BY <1>4, <2>4
    <3> DEFINE x == r.hi[1]  y == r.lo[1]
    <3>3. Cardinality(cells) = (x - a) - (y - a) + 1
      BY <2>3, <3>2, Zenon
    <3> HIDE DEF x, y, a, b, cells
    <3>4. (x - a) - (y - a) + 1 = 1 + (x - y)
      BY <2>2, <3>1 DEF x, y
    <3> QED
      BY <3>3, <3>4 DEF x, y
  <2>6. num_cells(r) = {1 + (r.hi[1] - r.lo[1])}
    BY <1>1, <1>3, <1>5 DEF num_cells, single_num_cells, single_value_range_go
  <2> HIDE DEF cells
  <2> QED
    BY <2>5, <2>6
<1>6. CASE kind = "Multi"
  <2> DEFINE g == CHOOSE f : Folds(f, T, r.lo, r.hi)
  <2>1. Folded(T, r.lo, r.hi, n)
    BY <1>1, <1>3, <1>4, FoldCounts
  <2>2. g[n] \in Nat /\ g[n] + 1 = Cardinality(cells)
    BY <2>1, Zenon DEF Folded
  <2>3. multi_num_cells(r) = IF r.type \in Floats THEN {}
                             ELSE LET h == CHOOSE f : Folds(f, r.type, r.lo, r.hi)
                                  IN  IF h[Len(r.lo)] < 0 THEN {} ELSE {h[Len(r.lo)] + 1}
    BY Zenon DEF multi_num_cells, Folds
  <2>4. multi_num_cells(r) = IF g[n] < 0 THEN {} ELSE {g[n] + 1}
    BY <1>1, <1>3, <2>3, Zenon DEF n
  <2>5. num_cells(r) = multi_num_cells(r)
    BY <1>1, <1>6 DEF num_cells
  <2> HIDE DEF g, cells
  <2> QED
    BY <2>2, <2>4, <2>5
<1> QED
  BY <1>3, <1>5, <1>6

-----------------------------------------------------------------------------
(* Filters through the C library and back.                                 *)

\* The table of filter types.
LEMMA TypesAre ==
    /\ DOMAIN FilterTypes = 1..20
    /\ \A t \in CompressionType \cup DeltaType
               \cup {"None", "ChecksumMd5", "ChecksumSha256", "BitShuffle", "ByteShuffle", "Xor",
                     "BitWidthReduction", "PositiveDelta", "ScaleFloat", "WebP"} :
          \E i \in 1..20 : FilterTypes[i] = t
<1>1. DOMAIN FilterTypes = 1..20
  BY DEF FilterTypes
<1> QED
  BY <1>1 DEF FilterTypes, CompressionType, DeltaType

\* A filter type is read back from its code.
LEMMA TypeCodes ==
    ASSUME NEW t, t # "", \E i \in 1..20 : FilterTypes[i] = t
    PROVE  decode(FilterTypes, code(FilterTypes, t)) = {t}
<1>1. DOMAIN FilterTypes = 1..20
  BY TypesAre, Zenon
<1> DEFINE k == CHOOSE j \in DOMAIN FilterTypes : FilterTypes[j] = t
<1>2. \E j \in DOMAIN FilterTypes : FilterTypes[j] = t
  BY <1>1
<1>3. k \in DOMAIN FilterTypes /\ FilterTypes[k] = t
  BY <1>2, Zenon
<1>4. code(FilterTypes, t) = k - 1
  BY DEF code
<1> HIDE DEF k
<1>5. k \in 1..20
  BY <1>1, <1>3
<1>6. (k - 1) + 1 = k
  BY ONLY <1>5
<1> QED
  BY <1>3, <1>4, <1>6 DEF decode

OptionNames == {"CompressionLevel", "BitWidthMaxWindow", "PositiveDeltaMaxWindow",
    "ScaleFloatByteWidth", "ScaleFloatFactor", "ScaleFloatOffset", "WebPQuality",
    "WebPInputFormat", "WebPLossless", "CompressionReinterpretDatatype"}

\* An option of a filter is read back from its code.
LEMMA OptionCodes ==
    ASSUME NEW o \in OptionNames
    PROVE  filter_option_t(o) \in 0..9 /\ FilterOptions[filter_option_t(o) + 1] = o
<1>1. DOMAIN FilterOptions = 1..10 /\ \E j \in 1..10 : FilterOptions[j] = o
  BY DEF FilterOptions, OptionNames
<1> DEFINE i == CHOOSE j \in DOMAIN FilterOptions : FilterOptions[j] = o
<1>2. \E j \in DOMAIN FilterOptions : FilterOptions[j] = o
  BY <1>1
<1>3. i \in DOMAIN FilterOptions /\ FilterOptions[i] = o
  BY <1>2, Zenon
<1>4. filter_option_t(o) = i - 1
  BY DEF code, filter_option_t
<1> HIDE DEF i
<1>5. (i - 1) + 1 = i /\ i - 1 \in 0..9
  BY <1>1, <1>3
<1> QED
  BY <1>3, <1>4, <1>5

\* What is set of an option is read; else what the library fills in.
LEMMA OptionsReturn ==
    ASSUME NEW fd, \A y \in Options(fd) : y[1] \in OptionNames, NEW o \in OptionNames
    PROVE  /\ (\A y \in Options(fd) : y[1] # o) => get_option(create(fd), o) = Default(o)
           /\ \A v : <<o, v>> \in Options(fd) /\ (\A y \in Options(fd) : y[1] = o => y[2] = v)
                        => get_option(create(fd), o) = v
<1> DEFINE n == filter_option_t(o)
           set == {x[2] : x \in {y \in Options(fd) : filter_option_t(y[1]) = n}}
<1>1. n \in 0..9 /\ FilterOptions[n + 1] = o
  BY OptionCodes
<1>2. \A y \in Options(fd) : filter_option_t(y[1]) = n <=> y[1] = o
  BY OptionCodes
<1>3. Len(FilterOptions) - 1 = 9
  BY DEF FilterOptions
<1>4. create(fd).option[n] = IF set = {} THEN Default(o) ELSE CHOOSE v \in set : TRUE
  <2> DEFINE F(m) == LET p == FilterOptions[m + 1]
                         s == {x[2] : x \in {y \in Options(fd) : filter_option_t(y[1]) = m}}
                     IN  IF s = {} THEN Default(p) ELSE CHOOSE v \in s : TRUE
  <2>1. create(fd).option = [m \in 0..(Len(FilterOptions) - 1) |-> F(m)]
    BY DEF create
  <2>2. F(n) = IF set = {} THEN Default(o) ELSE CHOOSE v \in set : TRUE
    BY <1>1
  <2> HIDE DEF F, n, set
  <2>3. create(fd).option = [m \in 0..9 |-> F(m)]
    BY <1>3, <2>1
  <2>4. create(fd).option[n] = F(n)
    BY <1>1, <2>3
  <2> QED
    BY <2>2, <2>4
<1>5. get_option(create(fd), o) = IF set = {} THEN Default(o) ELSE CHOOSE v \in set : TRUE
  BY <1>4 DEF get_option
<1>6. set = {y[2] : y \in {z \in Options(fd) : z[1] = o}}
  BY <1>2
<1> HIDE DEF set, n
<1>7. (\A y \in Options(fd) : y[1] # o) => set = {}
  BY <1>6
<1>8. ASSUME NEW v, <<o, v>> \in Options(fd), \A y \in Options(fd) : y[1] = o => y[2] = v
      PROVE  get_option(create(fd), o) = v
  <2>1. <<o, v>>[1] = o /\ <<o, v>>[2] = v
    OBVIOUS
  <2>2. set = {v}
    BY <1>6, <1>8, <2>1
  <2>3. (CHOOSE x \in set : TRUE) = v
    BY <2>2
  <2> QED
    BY <1>5, <2>2, <2>3
<1> QED
  BY <1>5, <1>7, <1>8

\* Filter data is under itself.
LEMMA Itself ==
    ASSUME NEW fd
    PROVE  filter_option_subset(fd, fd)
  BY DEF filter_option_subset, option_subset, datatype_option_subset

Returns(fd) == filter_data(create(fd)) = {fd}

\* Filters without options return.
LEMMA PlainReturns ==
    ASSUME NEW t \in {"None", "ChecksumMd5", "ChecksumSha256", "BitShuffle", "ByteShuffle", "Xor"}
    PROVE  Returns(Plain(t))
<1> DEFINE fd == Plain(t)  c == create(fd)
<1>1. fd.f = t
  BY DEF Plain
<1>2. \E i \in 1..20 : FilterTypes[i] = t
  BY TypesAre
<1>3. decode(FilterTypes, c.type) = {t}
  BY <1>1, <1>2, TypeCodes DEF create, filter_type, filter_type_t
<1> HIDE DEF fd, c
<1>4. filter_data(c) = {Plain(t)}
  BY <1>3, Zenon DEF filter_data, CompressionType, DeltaType
<1> QED
  BY <1>4 DEF Returns, fd, c

\* The type of a filter is read back.
LEMMA TypeReturns ==
    ASSUME NEW fd, NEW t, filter_type(fd) = t,
           t \in CompressionType \cup DeltaType
               \cup {"None", "ChecksumMd5", "ChecksumSha256", "BitShuffle", "ByteShuffle", "Xor",
                     "BitWidthReduction", "PositiveDelta", "ScaleFloat", "WebP"}
    PROVE  decode(FilterTypes, create(fd).type) = {t}
<1>1. \E j \in 1..20 : FilterTypes[j] = t
  BY TypesAre
<1>2. t # ""
  BY DEF CompressionType, DeltaType
<1>3. create(fd).type = code(FilterTypes, t)
  BY DEF create, filter_type_t
<1> QED
  BY ONLY <1>1, <1>2, <1>3, TypeCodes

\* Filters with a window return, whether it is given or not.
LEMMA WindowsReturn ==
    ASSUME NEW t \in {"BitWidthReduction", "PositiveDelta"}, NEW x
    PROVE  /\ Returns(Windowed(t, {x}))
           /\ filter_data(create(Windowed(t, {}))) = {Windowed(t, {-1})}
<1> DEFINE o == IF t = "BitWidthReduction" THEN "BitWidthMaxWindow" ELSE "PositiveDeltaMaxWindow"
<1>1. ASSUME NEW w PROVE /\ Windowed(t, w).f = t /\ Windowed(t, w).max_window = w
                         /\ decode(FilterTypes, create(Windowed(t, w)).type) = {t}
                         /\ Options(Windowed(t, w)) = {<<o, y>> : y \in w}
  <2>1. Windowed(t, w).f = t /\ Windowed(t, w).max_window = w
    BY DEF Windowed
  <2>2. filter_type(Windowed(t, w)) = t
    BY <2>1 DEF filter_type
  <2>3. decode(FilterTypes, create(Windowed(t, w)).type) = {t}
    BY <2>2, TypeReturns
  <2>4. Options(Windowed(t, w)) = {<<o, y>> : y \in w}
    BY <2>1 DEF Options
  <2> QED
    BY <2>1, <2>3, <2>4
<1>2. o \in OptionNames /\ Default(o) = -1
  BY DEF OptionNames, Default
<1>3. ASSUME NEW w, NEW v, get_option(create(Windowed(t, w)), o) = v
      PROVE  filter_data(create(Windowed(t, w))) = {Windowed(t, {v})}
  <2> DEFINE c == create(Windowed(t, w))
  <2>1. decode(FilterTypes, c.type) = {t}
    BY <1>1
  <2> HIDE DEF c
  <2>2. CASE t = "BitWidthReduction"
    <3>1. filter_data(c) = {Windowed(t, {get_option(c, "BitWidthMaxWindow")})}
      BY <2>1, <2>2 DEF filter_data, CompressionType, DeltaType
    <3> QED
      BY <1>3, <2>2, <3>1 DEF c
  <2>3. CASE t = "PositiveDelta"
    <3>1. filter_data(c) = {Windowed(t, {get_option(c, "PositiveDeltaMaxWindow")})}
      BY <2>1, <2>3 DEF filter_data, CompressionType, DeltaType
    <3> QED
      BY <1>3, <2>3, <3>1 DEF c
  <2> QED
    BY <2>2, <2>3
<1> HIDE DEF o
<1>4. get_option(create(Windowed(t, {x})), o) = x
  <2> DEFINE fd == Windowed(t, {x})
  <2>1. Options(fd) = {<<o, x>>}
    BY <1>1
  <2>2. <<o, x>>[1] = o /\ <<o, x>>[2] = x
    OBVIOUS
  <2> HIDE DEF fd
  <2>3. <<o, x>> \in Options(fd) /\ \A y \in Options(fd) : y[1] = o /\ y[2] = x
    BY <2>1, <2>2
  <2>4. get_option(create(fd), o) = x
    BY <1>2, <2>3, OptionsReturn
  <2> QED
    BY <2>4 DEF fd
<1>5. get_option(create(Windowed(t, {})), o) = -1
  <2> DEFINE fd == Windowed(t, {})
  <2>1. Options(fd) = {}
    BY <1>1
  <2> HIDE DEF fd
  <2> QED
    BY <1>2, <2>1, OptionsReturn DEF fd
<1> QED
  BY <1>3, <1>4, <1>5 DEF Returns

\* Compression without a reinterpreted datatype returns.
LEMMA CompressionReturns ==
    ASSUME NEW k \in CompressionType, NEW l
    PROVE  Returns(Compression(k, {}, {l}))
<1> DEFINE fd == Compression(k, {}, {l})  c == create(fd)  o == "CompressionLevel"
<1>1. fd.f = "Compression" /\ fd.kind = k /\ fd.level = {l} /\ fd.reinterpret = {}
  BY DEF Compression
<1>2. decode(FilterTypes, c.type) = {k}
  <2> HIDE DEF fd
  <2> QED
    BY <1>1, TypeReturns DEF filter_type
<1>3. Options(fd) = {<<o, l>>}
  <2> HIDE DEF fd
  <2>1. ~ Reinterprets(fd)
    BY <1>1 DEF Reinterprets, CompressionType, DeltaType
  <2> QED
    BY <1>1, <2>1 DEF Options
<1> HIDE DEF fd
<1>4. get_option(c, o) = l
  <2>1. <<o, l>>[1] = o /\ <<o, l>>[2] = l /\ o \in OptionNames
    BY DEF OptionNames
  <2>2. <<o, l>> \in Options(fd) /\ \A y \in Options(fd) : y[1] = o /\ y[2] = l
    BY <1>3, <2>1
  <2> HIDE DEF o
  <2> QED
    BY <2>1, <2>2, OptionsReturn
<1> HIDE DEF c
<1>5. filter_data(c) = {Compression(k, {}, {get_option(c, "CompressionLevel")})}
  BY <1>2 DEF filter_data, CompressionType, DeltaType
<1> QED
  BY <1>4, <1>5 DEF Returns, fd, c

\* Delta filters return their reinterpreted datatype.
LEMMA DeltaReturns ==
    ASSUME NEW k \in DeltaType, NEW dt \in Datatypes, NEW l
    PROVE  Returns(Compression(k, {dt}, {l}))
<1> DEFINE fd == Compression(k, {dt}, {l})  c == create(fd)
           o == "CompressionLevel"  p == "CompressionReinterpretDatatype"  d == to_ffi(dt)
<1>1. fd.f = "Compression" /\ fd.kind = k /\ fd.level = {l} /\ fd.reinterpret = {dt}
  BY DEF Compression
<1>2. decode(FilterTypes, c.type) = {k}
  <2> HIDE DEF fd
  <2> QED
    BY <1>1, TypeReturns DEF filter_type
<1>3. Options(fd) = {<<o, l>>, <<p, d>>}
  <2> HIDE DEF fd
  <2>1. Reinterprets(fd)
    BY <1>1 DEF Reinterprets
  <2> QED
    BY <1>1, <2>1 DEF Options
<1> HIDE DEF fd, d
<1>4. get_option(c, o) = l /\ get_option(c, p) = d
  <2>1. /\ <<o, l>>[1] = o /\ <<o, l>>[2] = l /\ <<p, d>>[1] = p /\ <<p, d>>[2] = d
        /\ o \in OptionNames /\ p \in OptionNames /\ o # p
    BY DEF OptionNames
  <2>2. /\ <<o, l>> \in Options(fd) /\ <<p, d>> \in Options(fd)
        /\ \A y \in Options(fd) : \/ y[1] = o /\ y[2] = l
                                  \/ y[1] = p /\ y[2] = d
    BY <1>3, <2>1
  <2> HIDE DEF o, p
  <2>3. /\ \A y \in Options(fd) : y[1] \in OptionNames
        /\ \A y \in Options(fd) : y[1] = o => y[2] = l
        /\ \A y \in Options(fd) : y[1] = p => y[2] = d
    BY <2>1, <2>2
  <2> QED
    BY <2>1, <2>2, <2>3, OptionsReturn
<1>5. {try_from_ffi(d)} \ {"InvalidDiscriminant"} = {dt}
  <2>1. try_from_ffi(d) = dt
    BY CodesReturn DEF d
  <2>2. dt # "InvalidDiscriminant"
    BY DatatypesNamed DEF Named
  <2> QED
    BY <2>1, <2>2
<1> HIDE DEF c
<1>6. filter_data(c) = {Compression(k, {x}, {get_option(c, "CompressionLevel")}) :
                            x \in {try_from_ffi(get_option(c, "CompressionReinterpretDatatype"))}
                                     \ {"InvalidDiscriminant"}}
  BY <1>2 DEF filter_data, CompressionType, DeltaType
<1>7. filter_data(c) = {Compression(k, {x}, {l}) : x \in {dt}}
  BY <1>4, <1>5, <1>6
<1> QED
  BY <1>7 DEF Returns, fd, c

\* Byte widths of float scaling.
LEMMA WidthsReturn ==
    ASSUME NEW w \in ToSet(ByteWidths)
    PROVE  width_from_ffi(width_to_ffi(w)) = {w} /\ w \in {"I8", "I16", "I32", "I64"}
<1>1. ToSet(ByteWidths) = {"I8", "I16", "I32", "I64"}
  BY DEF ToSet, ByteWidths
<1> QED
  BY <1>1 DEF width_from_ffi, width_to_ffi

\* Float scaling returns.
LEMMA ScaleReturns ==
    ASSUME NEW w \in ToSet(ByteWidths), NEW x, NEW y
    PROVE  Returns(ScaleFloat({w}, {x}, {y}))
<1> DEFINE fd == ScaleFloat({w}, {x}, {y})  c == create(fd)  d == width_to_ffi(w)
           o == "ScaleFloatByteWidth"  p == "ScaleFloatFactor"  q == "ScaleFloatOffset"
<1>1. fd.f = "ScaleFloat" /\ fd.byte_width = {w} /\ fd.factor = {x} /\ fd.offset = {y}
  BY DEF ScaleFloat
<1>2. decode(FilterTypes, c.type) = {"ScaleFloat"}
  <2> HIDE DEF fd
  <2> QED
    BY <1>1, TypeReturns DEF filter_type
<1>3. Options(fd) = {<<o, d>>, <<p, x>>, <<q, y>>}
  <2> HIDE DEF fd
  <2> QED
    BY <1>1 DEF Options
<1> HIDE DEF fd, d
<1>4. get_option(c, o) = d /\ get_option(c, p) = x /\ get_option(c, q) = y
  <2>1. /\ <<o, d>>[1] = o /\ <<o, d>>[2] = d /\ <<p, x>>[1] = p /\ <<p, x>>[2] = x
        /\ <<q, y>>[1] = q /\ <<q, y>>[2] = y
        /\ o \in OptionNames /\ p \in OptionNames /\ q \in OptionNames /\ o # p /\ o # q /\ p # q
    BY DEF OptionNames
  <2>2. /\ <<o, d>> \in Options(fd) /\ <<p, x>> \in Options(fd) /\ <<q, y>> \in Options(fd)
        /\ \A z \in Options(fd) : \/ z[1] = o /\ z[2] = d
                                  \/ z[1] = p /\ z[2] = x
                                  \/ z[1] = q /\ z[2] = y
    BY <1>3, <2>1
  <2> HIDE DEF o, p, q
  <2>3. /\ \A z \in Options(fd) : z[1] \in OptionNames
        /\ \A z \in Options(fd) : z[1] = o => z[2] = d
        /\ \A z \in Options(fd) : z[1] = p => z[2] = x
        /\ \A z \in Options(fd) : z[1] = q => z[2] = y
    BY <2>1, <2>2
  <2> QED
    BY <2>1, <2>2, <2>3, OptionsReturn
<1>5. width_from_ffi(d) = {w}
  BY WidthsReturn DEF d
<1> HIDE DEF c
<1>6. filter_data(c) = {ScaleFloat({v}, {get_option(c, "ScaleFloatFactor")},
                                   {get_option(c, "ScaleFloatOffset")}) :
                            v \in width_from_ffi(get_option(c, "ScaleFloatByteWidth"))}
  BY <1>2 DEF filter_data, CompressionType, DeltaType
<1>7. filter_data(c) = {ScaleFloat({v}, {x}, {y}) : v \in {w}}
  BY <1>4, <1>5, <1>6
<1> QED
  BY <1>7 DEF Returns, fd, c

\* WebP formats are read back from their codes.
LEMMA FormatsReturn ==
    ASSUME NEW x \in ToSet(Formats)
    PROVE  format_from_ffi(format_to_ffi(x)) = {x}
<1>1. DOMAIN Formats = 1..4
  BY DEF Formats
<1>2. \E i \in DOMAIN Formats : Formats[i] = x
  BY DEF ToSet
<1> DEFINE k == format_to_ffi(x)
<1>3. k \in DOMAIN Formats /\ Formats[k] = x
  BY <1>2, Zenon DEF format_to_ffi
<1> QED
  BY <1>3 DEF format_from_ffi

\* WebP filters return.
LEMMA WebPReturns ==
    ASSUME NEW x \in ToSet(Formats), NEW b \in BOOLEAN, NEW y
    PROVE  Returns(WebP(x, {b}, {y}))
<1> DEFINE fd == WebP(x, {b}, {y})  c == create(fd)  d == format_to_ffi(x)  e == IF b THEN 1 ELSE 0
           o == "WebPInputFormat"  p == "WebPLossless"  q == "WebPQuality"
<1>1. fd.f = "WebP" /\ fd.input_format = x /\ fd.lossless = {b} /\ fd.quality = {y}
  BY DEF WebP
<1>2. decode(FilterTypes, c.type) = {"WebP"}
  <2> HIDE DEF fd
  <2> QED
    BY <1>1, TypeReturns DEF filter_type
<1>3. Options(fd) = {<<o, d>>, <<p, e>>, <<q, y>>}
  <2> HIDE DEF fd
  <2>1. Options(fd) = {<<o, z>> : z \in {d}}
                          \cup {<<p, z>> : z \in {IF l THEN 1 ELSE 0 : l \in fd.lossless}}
                          \cup {<<q, z>> : z \in fd.quality}
    BY <1>1 DEF Options
  <2>2. {IF l THEN 1 ELSE 0 : l \in fd.lossless} = {e}
    <3>1. {IF l THEN 1 ELSE 0 : l \in {b}} = {e}
      <4>1. CASE b = TRUE
        BY <4>1
      <4>2. CASE b = FALSE
        BY <4>2
      <4> QED
        BY <4>1, <4>2
    <3> HIDE DEF e
    <3> QED
      BY <1>1, <3>1, Zenon
  <2> HIDE DEF d, e
  <2> QED
    BY <1>1, <2>1, <2>2
<1> HIDE DEF fd, d
<1>4. (e # 0) = b
  <2>1. CASE b = TRUE
    <3>1. e = 1
      BY <2>1
    <3>2. 1 # 0
      OBVIOUS
    <3> HIDE DEF e
    <3> QED
      BY <2>1, <3>1, <3>2, Zenon
  <2>2. CASE b = FALSE
    BY <2>2
  <2> QED
    BY <2>1, <2>2
<1> HIDE DEF e
<1>5. get_option(c, o) = d /\ get_option(c, p) = e /\ get_option(c, q) = y
  <2>1. /\ <<o, d>>[1] = o /\ <<o, d>>[2] = d /\ <<p, e>>[1] = p /\ <<p, e>>[2] = e
        /\ <<q, y>>[1] = q /\ <<q, y>>[2] = y
        /\ o \in OptionNames /\ p \in OptionNames /\ q \in OptionNames /\ o # p /\ o # q /\ p # q
    BY DEF OptionNames
  <2>2. /\ <<o, d>> \in Options(fd) /\ <<p, e>> \in Options(fd) /\ <<q, y>> \in Options(fd)
        /\ \A z \in Options(fd) : \/ z[1] = o /\ z[2] = d
                                  \/ z[1] = p /\ z[2] = e
                                  \/ z[1] = q /\ z[2] = y
    BY <1>3, <2>1
  <2> HIDE DEF o, p, q
  <2>3. /\ \A z \in Options(fd) : z[1] \in OptionNames
        /\ \A z \in Options(fd) : z[1] = o => z[2] = d
        /\ \A z \in Options(fd) : z[1] = p => z[2] = e
        /\ \A z \in Options(fd) : z[1] = q => z[2] = y
    BY <2>1, <2>2
  <2> QED
    BY <2>1, <2>2, <2>3, OptionsReturn
<1>6. format_from_ffi(d) = {x}
  BY FormatsReturn DEF d
<1> HIDE DEF c
<1>7. filter_data(c) = {WebP(v, {get_option(c, "WebPLossless") # 0}, {get_option(c, "WebPQuality")}) :
                            v \in format_from_ffi(get_option(c, "WebPInputFormat"))}
  BY <1>2 DEF filter_data, CompressionType, DeltaType
<1>8. filter_data(c) = {WebP(v, {e # 0}, {y}) : v \in {x}}
  BY <1>5, <1>6, <1>7, Zenon
<1>9. filter_data(c) = {WebP(x, {b}, {y})}
  BY <1>4, <1>8, Zenon
<1> QED
  BY <1>9 DEF Returns, fd, c

-----------------------------------------------------------------------------
(* What the strategies draw.                                               *)

\* What a strategy draws for an input, if any.
PlainTypes == {"ChecksumMd5", "ChecksumSha256", "BitShuffle", "ByteShuffle", "Xor"}

IsDrawn(f, ins) ==
    \/ \E t \in PlainTypes : f = Plain(t)
    \/ \E w \in {{}} \cup {{x} : x \in Windows} :
          f = Windowed("BitWidthReduction", w) /\ \A dt \in ins : Reducible(dt)
    \/ \E x \in Windows : f = Windowed("PositiveDelta", {x}) /\ \A dt \in ins : Reducible(dt)
    \/ \E k \in CompressionType, l \in Levels : f = Compression(k, {}, {l})
    \/ \E k \in DeltaType, to \in Datatypes, l \in Levels :
          f = Compression(k, {to}, {l}) /\ ~ is_real_type(to)
    \/ \E w \in ToSet(ByteWidths) :
          f = ScaleFloat({w}, {1}, {0}) /\ \A dt \in ins : size(dt) \in {4, 8}
    \/ \E x \in ToSet(Formats), b \in BOOLEAN, q \in Quality :
          f = WebP(x, {b}, {q}) /\ ins = {"UInt8"}

\* The compressions drawn.
LEMMA CompressionsDrawn ==
    ASSUME NEW req, NEW f \in prop_compression(req)
    PROVE  IsDrawn(f, req.input)
<1> DEFINE kinds == {"Bzip2", "Gzip", "Lz4", "Zstd"}
                 \cup (IF is_rle_viable(req) THEN {"Rle"} ELSE {})
                 \cup (IF "dict" \in req.allow /\ is_rle_viable(req) THEN {"Dictionary"} ELSE {})
           delta == {dt \in Drawn("DeltaFilterReinterpretDatatype") : validate_type(req.input, dt)}
<1>1. kinds \subseteq CompressionType
  BY DEF CompressionType
<1>2. \A to \in delta : to \in Datatypes /\ ~ is_real_type(to)
  <2>1. Drawn("DeltaFilterReinterpretDatatype") = DELTA_FILTER_REINTERPRET_DATATYPES
    BY DEF Drawn
  <2>2. DELTA_FILTER_REINTERPRET_DATATYPES \subseteq Named
    BY DEF DELTA_FILTER_REINTERPRET_DATATYPES, DENSE_DIMENSION_DATATYPES, Named
  <2> QED
    BY <2>1, <2>2, NamesAreDatatypes DEF validate_type
<1>3. prop_compression(req) = {Compression(k, {}, {l}) : k \in kinds, l \in Levels}
        \cup (IF TryDelta(req)
              THEN UNION {{Compression(k, {dt}, {l}) : k \in DeltaType, l \in Levels} : dt \in delta}
              ELSE {})
  BY DEF prop_compression
<1> HIDE DEF kinds, delta
<1>4. \/ \E k \in kinds, l \in Levels : f = Compression(k, {}, {l})
      \/ \E k \in DeltaType, to \in delta, l \in Levels : f = Compression(k, {to}, {l})
  <2> DEFINE plain == {Compression(k, {}, {l}) : k \in kinds, l \in Levels}
             typed == UNION {{Compression(k, {dt}, {l}) : k \in DeltaType, l \in Levels} : dt \in delta}
  <2>1. f \in plain \/ f \in typed
    <3>1. prop_compression(req) = plain \cup (IF TryDelta(req) THEN typed ELSE {})
      BY <1>3
    <3> HIDE DEF plain, typed
    <3> QED
      BY <3>1
  <2>2. f \in plain => \E k \in kinds, l \in Levels : f = Compression(k, {}, {l})
    OBVIOUS
  <2>3. ASSUME f \in typed
        PROVE  \E k \in DeltaType, to \in delta, l \in Levels : f = Compression(k, {to}, {l})
    <3>1. PICK to \in delta : f \in {Compression(k, {to}, {l}) : k \in DeltaType, l \in Levels}
      BY <2>3 DEF Compression
    <3>2. \E k \in DeltaType, l \in Levels : f = Compression(k, {to}, {l})
      BY <3>1 DEF Compression
    <3> QED
      BY <3>2, Zenon
  <2> HIDE DEF plain, typed
  <2> QED
    BY ONLY <2>1, <2>2, <2>3, Zenon
<1> QED
  BY <1>1, <1>2, <1>4 DEF IsDrawn

\* The WebP filters drawn.
LEMMA WebPsDrawn ==
    ASSUME NEW req, NEW f \in prop_webp(req)
    PROVE  IsDrawn(f, req.input)
<1> DEFINE webps == UNION {{WebP(x, {l}, {q}) : l \in BOOLEAN, q \in Quality} :
                              x \in WebPFormats(req.context.domain[2].extent)}
<1>1. req.input = {"UInt8"} /\ f \in webps
  <2> DEFINE may == /\ "webp" \in req.allow
                    /\ req.context.c = "SchemaAttribute"
                    /\ req.context.datatype = "UInt8" /\ req.input = {"UInt8"}
                    /\ req.context.array_type # "Sparse"
                    /\ Len(req.context.domain) = 2
                    /\ is_integral_type(req.context.domain[1].datatype)
                    /\ req.context.domain[1].datatype = req.context.domain[2].datatype
                    /\ \E e \in req.context.domain[1].extent : e <= MaxExtent
  <2>1. prop_webp(req) = IF may THEN webps ELSE {}
    BY DEF prop_webp
  <2>2. may => req.input = {"UInt8"}
    OBVIOUS
  <2> HIDE DEF webps, may
  <2> QED
    BY <2>1, <2>2
<1>3. \E x \in WebPFormats(req.context.domain[2].extent), l \in BOOLEAN, q \in Quality : f = WebP(x, {l}, {q})
  <2>1. PICK x \in WebPFormats(req.context.domain[2].extent) :
            f \in {WebP(x, {l}, {q}) : l \in BOOLEAN, q \in Quality}
    BY <1>1 DEF WebP
  <2>2. \E l \in BOOLEAN, q \in Quality : f = WebP(x, {l}, {q})
    BY <2>1 DEF WebP
  <2> QED
    BY <2>2, Zenon
<1>2. WebPFormats(req.context.domain[2].extent) \subseteq ToSet(Formats)
  BY DEF WebPFormats
<1> QED
  BY <1>1, <1>2, <1>3 DEF IsDrawn

\* All filters drawn.
LEMMA FiltersDrawn ==
    ASSUME NEW req, NEW f \in prop_filter(req)
    PROVE  IsDrawn(f, req.input)
<1>1. \/ f \in {Plain("ChecksumMd5"), Plain("ChecksumSha256"), Plain("BitShuffle"), Plain("ByteShuffle"), Plain("Xor")}
      \/ /\ \A dt \in req.input : Reducible(dt)
         /\ f \in {Windowed("BitWidthReduction", w) : w \in {{}} \cup {{x} : x \in Windows}}
      \/ ok_positive_delta(req) /\ f \in {Windowed("PositiveDelta", {w}) : w \in Windows}
      \/ f \in prop_compression(req)
      \/ /\ \A dt \in req.input : size(dt) \in {4, 8}
         /\ f \in {ScaleFloat({w}, {1}, {0}) : w \in ToSet(ByteWidths)}
      \/ f \in prop_webp(req)
  BY DEF prop_filter
<1>2. CASE f \in {Plain("ChecksumMd5"), Plain("ChecksumSha256"), Plain("BitShuffle"), Plain("ByteShuffle"), Plain("Xor")}
  BY <1>2 DEF IsDrawn, PlainTypes
<1>3. CASE /\ \A dt \in req.input : Reducible(dt)
           /\ f \in {Windowed("BitWidthReduction", w) : w \in {{}} \cup {{x} : x \in Windows}}
  BY <1>3 DEF IsDrawn
<1>4. CASE ok_positive_delta(req) /\ f \in {Windowed("PositiveDelta", {w}) : w \in Windows}
  BY <1>4 DEF IsDrawn, ok_positive_delta
<1>5. CASE /\ \A dt \in req.input : size(dt) \in {4, 8}
           /\ f \in {ScaleFloat({w}, {1}, {0}) : w \in ToSet(ByteWidths)}
  BY <1>5 DEF IsDrawn
<1> QED
  BY <1>1, <1>2, <1>3, <1>4, <1>5, CompressionsDrawn, WebPsDrawn

\* A list of two filters, the first of which comes back as it is.
LEMMA ListReturns ==
    ASSUME NEW e, NEW f, NEW g, Returns(e), Returns(g), filter_data(create(f)) = {g}
    PROVE  LET l == create_list(<<e, f>>)
           IN  \E m \in FilterMetadata(l) : list_eq(m, l)
<1> DEFINE l == create_list(<<e, f>>)
           k == [i \in DOMAIN l |-> CHOOSE fd \in filter_data(l[i]) : TRUE]
           m == create_list(k)
<1>1. l = [i \in 1..2 |-> create(<<e, f>>[i])]
  BY DEF create_list
<1>2. DOMAIN l = 1..2 /\ l[1] = create(e) /\ l[2] = create(f) /\ Len(l) = 2
  <2> HIDE DEF l
  <2>1. DOMAIN l = 1..2 /\ l[1] = create(<<e, f>>[1]) /\ l[2] = create(<<e, f>>[2])
    BY <1>1
  <2>2. Len(l) = 2
    BY <1>1
  <2> QED
    BY <2>1, <2>2
<1> HIDE DEF l
<1>3. filter_data(l[1]) = {e} /\ filter_data(l[2]) = {g}
  BY <1>2 DEF Returns
<1>4. DOMAIN k = 1..2 /\ k[1] = e /\ k[2] = g
  BY <1>2, <1>3
<1>5. list_data(l) = {k}
  <2>1. \A i \in 1..2 : filter_data(l[i]) # {}
    BY <1>3
  <2> QED
    BY <1>2, <2>1 DEF list_data
<1> HIDE DEF k
<1>6. m \in FilterMetadata(l)
  BY <1>5 DEF FilterMetadata
<1>7. m = [i \in 1..2 |-> create(k[i])]
  BY <1>4 DEF create_list
<1> HIDE DEF m
<1>8. Len(m) = 2 /\ m[1] = create(e) /\ m[2] = create(g)
  BY <1>4, <1>7
<1>9. filter_eq(m[1], l[1]) /\ filter_eq(m[2], l[2])
  BY <1>2, <1>3, <1>8 DEF filter_eq, Returns
<1>10. list_eq(m, l)
  <2>1. \A i \in 1..2 : i = 1 \/ i = 2
    OBVIOUS
  <2> QED
    BY <1>2, <1>8, <1>9, <2>1 DEF list_eq
<1> QED
  BY <1>6, <1>10 DEF l

\* Whatever is drawn returns.
LEMMA DrawnReturn ==
    ASSUME NEW req
    PROVE  DrawnFiltersReturn(req)
<1> SUFFICES ASSUME NEW f \in prop_filter(req)
             PROVE  /\ \E g \in filter_data(create(f)) : filter_option_subset(f, g)
                    /\ LET l == create_list(<<Plain("BitShuffle"), f>>)
                       IN  \E m \in FilterMetadata(l) : list_eq(m, l)
  BY DEF DrawnFiltersReturn
<1>1. \E g : filter_data(create(f)) = {g} /\ Returns(g) /\ filter_option_subset(f, g)
  <2>1. CASE Returns(f)
    BY <2>1, Itself DEF Returns
  <2>2. CASE f = Windowed("BitWidthReduction", {})
    <3> DEFINE t == "BitWidthReduction"  g == Windowed(t, {-1})
    <3>1. filter_data(create(f)) = {g} /\ Returns(g)
      BY <2>2, WindowsReturn
    <3>2. filter_option_subset(f, g)
      <4>1. /\ DOMAIN f = {"f", "max_window"} /\ DOMAIN g = {"f", "max_window"}
            /\ f["f"] = g["f"] /\ f["max_window"] = {}
        BY <2>2 DEF Windowed
      <4> HIDE DEF g
      <4>2. ASSUME NEW x \in DOMAIN f
            PROVE  CASE x = "reinterpret" -> option_subset(f[x], g[x], datatype_option_subset)
                     [] x \in {"f", "kind", "input_format"} -> f[x] = g[x]
                     [] OTHER -> option_subset(f[x], g[x], LAMBDA a, b : a = b)
        <5>1. CASE x = "f"
          BY <4>1, <5>1
        <5>2. CASE x = "max_window"
          BY <4>1, <5>2 DEF option_subset
        <5> QED
          BY <4>1, <5>1, <5>2
      <4> QED
        BY <4>1, <4>2, Zenon DEF filter_option_subset
    <3> QED
      BY <3>1, <3>2
  <2>3. Returns(f) \/ f = Windowed("BitWidthReduction", {})
    <3>1. IsDrawn(f, req.input)
      BY FiltersDrawn
    <3>2. CASE \E t \in PlainTypes : f = Plain(t)
      BY <3>2, PlainReturns DEF PlainTypes
    <3>3. CASE \E w \in {{}} \cup {{x} : x \in Windows} : f = Windowed("BitWidthReduction", w)
      BY <3>3, WindowsReturn
    <3>4. CASE \E x \in Windows : f = Windowed("PositiveDelta", {x})
      BY <3>4, WindowsReturn
    <3>5. CASE \E k \in CompressionType, l \in Levels : f = Compression(k, {}, {l})
      BY <3>5, CompressionReturns
    <3>6. CASE \E k \in DeltaType, to \in Datatypes, l \in Levels : f = Compression(k, {to}, {l})
      BY <3>6, DeltaReturns
    <3>7. CASE \E w \in ToSet(ByteWidths) : f = ScaleFloat({w}, {1}, {0})
      BY <3>7, ScaleReturns
    <3>8. CASE \E x \in ToSet(Formats), b \in BOOLEAN, q \in Quality : f = WebP(x, {b}, {q})
      BY <3>8, WebPReturns
    <3> QED
      BY <3>1, <3>2, <3>3, <3>4, <3>5, <3>6, <3>7, <3>8 DEF IsDrawn
  <2> QED
    BY <2>1, <2>2, <2>3
<1>2. Returns(Plain("BitShuffle"))
  BY PlainReturns
<1> QED
  BY <1>1, <1>2, ListReturns

\* What is drawn for a datatype makes a datatype of it.
LEMMA DrawnTransform ==
    ASSUME NEW dt \in Datatypes, NEW f, IsDrawn(f, {dt})
    PROVE  \E to \in Datatypes : transform_datatype(f, dt) = {to}
<1>1. size(dt) \in {1, 2, 4, 8}
  BY DEF size, physical_type_go, SizeOf
<1>2. {"Int8", "Int16", "Int32", "Int64"} \subseteq Datatypes
  BY NamesAreDatatypes DEF Named
<1>3. CASE \E t \in PlainTypes : f = Plain(t)
  <2>1. PICK t \in PlainTypes : f = Plain(t)
    BY <1>3
  <2>2. f.f = t
    BY <2>1 DEF Plain
  <2>3. CASE t = "Xor"
    BY <1>1, <1>2, <2>2, <2>3 DEF transform_datatype
  <2>4. CASE t # "Xor"
    BY <2>2, <2>4 DEF transform_datatype, PlainTypes
  <2> QED
    BY <2>3, <2>4
<1>4. CASE \E w : \E t \in {"BitWidthReduction", "PositiveDelta"} : f = Windowed(t, w) /\ Reducible(dt)
  BY <1>4 DEF transform_datatype, Windowed
<1>5. CASE \E k, l : f = Compression(k, {}, {l})
  BY <1>5 DEF transform_datatype, Compression
<1>6. CASE \E k, l : \E to \in Datatypes : f = Compression(k, {to}, {l}) /\ ~ is_real_type(to)
  BY <1>6 DEF transform_datatype, Compression
<1>7. CASE \E w \in ToSet(ByteWidths) : f = ScaleFloat({w}, {1}, {0}) /\ size(dt) \in {4, 8}
  <2>1. PICK w \in ToSet(ByteWidths) : f = ScaleFloat({w}, {1}, {0})
    BY <1>7
  <2>2. f.f = "ScaleFloat" /\ f.byte_width = {w}
    BY <2>1 DEF ScaleFloat
  <2>3. transform_datatype(f, dt) = {output_datatype(w)}
    BY <1>7, <2>2 DEF transform_datatype
  <2>4. output_datatype(w) \in Datatypes
    BY <1>2, WidthsReturn DEF output_datatype
  <2> QED
    BY <2>3, <2>4
<1>8. CASE \E x, b, q : f = WebP(x, {b}, {q}) /\ dt = "UInt8"
  BY <1>8 DEF transform_datatype, WebP
<1>9. \/ \E t \in PlainTypes : f = Plain(t)
      \/ \E w \in {{}} \cup {{x} : x \in Windows} :
            f = Windowed("BitWidthReduction", w) /\ \A d \in {dt} : Reducible(d)
      \/ \E x \in Windows : f = Windowed("PositiveDelta", {x}) /\ \A d \in {dt} : Reducible(d)
      \/ \E k \in CompressionType, l \in Levels : f = Compression(k, {}, {l})
      \/ \E k \in DeltaType, to \in Datatypes, l \in Levels :
            f = Compression(k, {to}, {l}) /\ ~ is_real_type(to)
      \/ \E w \in ToSet(ByteWidths) :
            f = ScaleFloat({w}, {1}, {0}) /\ \A d \in {dt} : size(d) \in {4, 8}
      \/ \E x \in ToSet(Formats), b \in BOOLEAN, q \in Quality :
            f = WebP(x, {b}, {q}) /\ {dt} = {"UInt8"}
  BY Zenon DEF IsDrawn
<1>10. ASSUME {dt} = {"UInt8"} PROVE dt = "UInt8"
  BY <1>10
<1>11. CASE \E k \in CompressionType, l \in Levels : f = Compression(k, {}, {l})
  BY <1>5, <1>11, Zenon
<1>12. CASE \E k \in DeltaType, to \in Datatypes, l \in Levels :
              f = Compression(k, {to}, {l}) /\ ~ is_real_type(to)
  <2>1. \E k, l : \E to \in Datatypes : f = Compression(k, {to}, {l}) /\ ~ is_real_type(to)
    BY <1>12
  <2> QED
    BY <1>6, <2>1
<1>13. CASE \E w \in {{}} \cup {{x} : x \in Windows} :
              f = Windowed("BitWidthReduction", w) /\ \A d \in {dt} : Reducible(d)
  <2>1. Reducible(dt) /\ \E w : f = Windowed("BitWidthReduction", w)
    BY <1>13
  <2>2. "BitWidthReduction" \in {"BitWidthReduction", "PositiveDelta"}
    OBVIOUS
  <2>3. \E w : \E t \in {"BitWidthReduction", "PositiveDelta"} : f = Windowed(t, w) /\ Reducible(dt)
    BY <2>1, <2>2, Zenon
  <2> QED
    BY <1>4, <2>3
<1>14. CASE \E x \in Windows : f = Windowed("PositiveDelta", {x}) /\ \A d \in {dt} : Reducible(d)
  <2>1. Reducible(dt) /\ \E w : f = Windowed("PositiveDelta", w)
    BY <1>14
  <2>2. "PositiveDelta" \in {"BitWidthReduction", "PositiveDelta"}
    OBVIOUS
  <2>3. \E w : \E t \in {"BitWidthReduction", "PositiveDelta"} : f = Windowed(t, w) /\ Reducible(dt)
    BY <2>1, <2>2, Zenon
  <2> QED
    BY <1>4, <2>3
<1>15. CASE \E w \in ToSet(ByteWidths) :
              f = ScaleFloat({w}, {1}, {0}) /\ \A d \in {dt} : size(d) \in {4, 8}
  BY <1>7, <1>15
<1>16. CASE \E x \in ToSet(Formats), b \in BOOLEAN, q \in Quality :
              f = WebP(x, {b}, {q}) /\ {dt} = {"UInt8"}
  BY <1>8, <1>10, <1>16, Zenon
<1> QED
  BY <1>3, <1>9, <1>11, <1>12, <1>13, <1>14, <1>15, <1>16, Zenon

-----------------------------------------------------------------------------
(* Dimensions, subarrays and tiles the strategies draw.                    *)

\* A dimension has integers, or is of strings.
LEMMA DimensionsOf ==
    ASSUME NEW dt \in DimensionDatatypes
    PROVE  /\ dt \in Datatypes /\ physical(dt) \in PhysicalType \ Floats
           /\ is_allowed_dimension_type_sparse(dt)
           /\ is_string_type(dt) <=> dt = "StringAscii"
           /\ is_compatible_type(dt, physical(dt))
<1>1. dt \in DENSE_DIMENSION_DATATYPES \cup {"StringAscii"}
  BY DatatypesAre
<1>2. dt \in Named
  BY <1>1 DEF DENSE_DIMENSION_DATATYPES, Named
<1>3. dt \in Datatypes
  BY <1>2, NamesAreDatatypes
<1>4. physical(dt) \notin Floats /\ (is_string_type(dt) <=> dt = "StringAscii")
  BY <1>1 DEF DENSE_DIMENSION_DATATYPES, physical, Floats, is_string_type
<1>5. is_allowed_dimension_type_sparse(dt)
  BY <1>1 DEF DENSE_DIMENSION_DATATYPES, is_allowed_dimension_type_sparse, is_integral_type,
              is_datetime_type, is_time_type
<1>6. physical(dt) \in PhysicalType /\ is_compatible_type(dt, physical(dt))
  <2>1. physical(dt) \in PhysicalType
    BY <1>3, <1>2 DEF physical, PhysicalType, Named
  <2> QED
    BY <1>3, <2>1, PhysicalTypes
<1> QED
  BY <1>3, <1>4, <1>5, <1>6

\* Bounds a strategy draws.
DrawnBounds(T, lo, hi) ==
    /\ hi \in (TMin(T) + 3)..(TMax(T) - 2)
    /\ lo \in (TMin(T) + 1)..(hi - 2)

Fits(T, lo, hi, tile_limit, e) ==
    /\ e \in Nat /\ e > 0
    /\ lo + e < hi
    /\ hi + e < TMax(T)
    /\ e < tile_limit

\* Extents fit the bounds, the type and the limit, and there is at least one choice.
LEMMA ExtentsFit ==
    ASSUME NEW T \in PhysicalType \ Floats, NEW lo, NEW hi, DrawnBounds(T, lo, hi),
           NEW tile_limit \in Nat
    PROVE  /\ tile_limit > 1 => DrawnExtents(T, lo, hi, tile_limit) # {}
           /\ \A extent \in DrawnExtents(T, lo, hi, tile_limit) :
                 extent = {} \/ \E e : extent = {e} /\ Fits(T, lo, hi, tile_limit, e)
<1> DEFINE own == ExtentLimit(T, lo, hi).limit
           limit == LimitTo(T, own, tile_limit)
<1>1. TMin(T) \in Int /\ TMax(T) \in Int /\ TMin(T) >= -(TMax(T) + 1) /\ lo \in Int /\ hi \in Int
  BY TypesAreIntervals, IntegersAre DEF DrawnBounds
<1>2. own \in Int /\ own > 1 /\ own <= TMax(T) - hi /\ own <= hi - lo
  BY <1>1 DEF DrawnBounds, ExtentLimit
<1> HIDE DEF own
<1>3. limit \in Int /\ limit <= own /\ (tile_limit > 1 => limit > 1)
  BY <1>2 DEF LimitTo
<1>4. limit <= tile_limit
  <2>1. own <= TMax(T)
    BY <1>1, <1>2 DEF DrawnBounds
  <2> QED
    BY <1>1, <1>2, <2>1 DEF LimitTo
<1>5. DrawnExtents(T, lo, hi, tile_limit)
        = {{e} : e \in 1..(limit - 1)}
            \cup (IF limit < own \/ ExtentLimit(T, lo, hi).overflows THEN {} ELSE {{}})
  BY DEF DrawnExtents, own
<1> HIDE DEF limit
<1>6. \A e \in 1..(limit - 1) : Fits(T, lo, hi, tile_limit, e)
  BY <1>1, <1>2, <1>3, <1>4 DEF Fits
<1>7. tile_limit > 1 => 1 \in 1..(limit - 1)
  BY <1>3
<1>8. tile_limit > 1 => {1} \in DrawnExtents(T, lo, hi, tile_limit)
  BY <1>5, <1>7
<1>9. ASSUME NEW extent \in DrawnExtents(T, lo, hi, tile_limit), extent # {}
      PROVE  \E e : extent = {e} /\ Fits(T, lo, hi, tile_limit, e)
  <2>1. PICK e \in 1..(limit - 1) : extent = {e}
    BY <1>5, <1>9
  <2> QED
    BY <1>6, <2>1
<1> QED
  BY <1>8, <1>9

\* What prop_range_and_extent draws.
LEMMA ConstraintsDrawn ==
    ASSUME NEW T, NEW tile_limit, NEW c \in prop_range_and_extent(T, tile_limit)
    PROVE  /\ c = Bounded(T, c.lo, c.hi, c.extent)
           /\ DrawnBounds(T, c.lo, c.hi)
           /\ c.extent \in DrawnExtents(T, c.lo, c.hi, tile_limit)
           /\ T # "StringAscii" => IsBounded(c)
<1>1. PICK hi \in (TMin(T) + 3)..(TMax(T) - 2) :
          c \in UNION {{Bounded(T, lo, hi, e) : e \in DrawnExtents(T, lo, hi, tile_limit)} :
                         lo \in (TMin(T) + 1)..(hi - 2)}
  BY DEF prop_range_and_extent
<1>2. PICK lo \in (TMin(T) + 1)..(hi - 2) :
          c \in {Bounded(T, lo, hi, e) : e \in DrawnExtents(T, lo, hi, tile_limit)}
  BY <1>1
<1>3. PICK e \in DrawnExtents(T, lo, hi, tile_limit) : c = Bounded(T, lo, hi, e)
  BY <1>2
<1>4. c.lo = lo /\ c.hi = hi /\ c.extent = e /\ c.type = T
  BY <1>3 DEF Bounded
<1> QED
  BY <1>3, <1>4 DEF DrawnBounds, IsBounded

\* The end of the last tile is that of the type or before it.
LEMMA TilesEnd ==
    ASSUME NEW lo \in Int, NEW hi \in Int, NEW e \in Nat, lo <= hi, e > 0
    PROVE  lo + ((hi - lo) \div e + 1) * e - 1 <= hi + e - 1
<1>1. hi - lo \in Nat
  OBVIOUS
<1>2. (hi - lo) \div e \in Nat /\ e * ((hi - lo) \div e) <= hi - lo
  BY <1>1, Divides
<1> DEFINE q == (hi - lo) \div e
<1>3. (q + 1) * e = e * q + e
  BY <1>2
<1> HIDE DEF q
<1> QED
  BY <1>2, <1>3 DEF q

\* Drawn constraints are in order and the C library takes them.
LEMMA DrawnConstraints ==
    ASSUME NEW dt \in DimensionDatatypes, NEW tile_limit \in Nat, tile_limit > 1
    PROVE  DrawnConstraintsFit(dt, tile_limit)
<1> DEFINE T == physical(dt)
<1>1. /\ T \in PhysicalType \ Floats /\ is_allowed_dimension_type_sparse(dt)
      /\ is_string_type(dt) <=> dt = "StringAscii"
      /\ is_compatible_type(dt, T)
  BY DimensionsOf
<1>2. TMin(T) \in Int /\ TMax(T) \in Int
  BY <1>1, TypesAreIntervals
<1>3. ASSUME NEW hi \in (TMin(T) + 3)..(TMax(T) - 2), NEW lo \in (TMin(T) + 1)..(hi - 2)
      PROVE  DrawnExtents(T, lo, hi, tile_limit) # {}
  BY <1>1, ExtentsFit DEF DrawnBounds
<1>4. ASSUME NEW c \in prop_constraints(dt, tile_limit), IsBounded(c)
      PROVE  /\ dimension_new("d", dt, c) # {}
             /\ \A e \in c.extent : /\ c.lo < c.lo + e
                                    /\ c.lo + e <= c.hi
                                    /\ c.hi < c.hi + e
                                    /\ c.hi + e <= TMax(T)
  <2>1. dt # "StringAscii" /\ c \in prop_range_and_extent(T, tile_limit)
    BY <1>1, <1>4 DEF prop_constraints, IsBounded, StringAscii
  <2>2. /\ DrawnBounds(T, c.lo, c.hi) /\ c = Bounded(T, c.lo, c.hi, c.extent)
        /\ c.extent \in DrawnExtents(T, c.lo, c.hi, tile_limit)
    BY <2>1, ConstraintsDrawn
  <2>3. c.lo \in Int /\ c.hi \in Int /\ c.lo < c.hi /\ c.type = T
    BY <1>2, <2>2 DEF DrawnBounds, Bounded
  <2>4. \A e \in c.extent : Fits(T, c.lo, c.hi, tile_limit, e)
    BY <1>1, <2>2, ExtentsFit
  <2>5. ASSUME NEW e \in c.extent
        PROVE  /\ c.lo < c.lo + e
               /\ c.lo + e <= c.hi
               /\ c.hi < c.hi + e
               /\ c.hi + e <= TMax(T)
               /\ e > 0
               /\ e <= c.hi - c.lo + 1
               /\ c.lo + ((c.hi - c.lo) \div e + 1) * e - 1 <= TMax(T)
    <3>1. Fits(T, c.lo, c.hi, tile_limit, e)
      BY <2>4
    <3>2. c.lo + ((c.hi - c.lo) \div e + 1) * e - 1 <= c.hi + e - 1
      BY <2>3, <3>1, TilesEnd DEF Fits
    <3>3. PICK x \in Int : x = ((c.hi - c.lo) \div e + 1) * e
      BY <2>3, <3>1 DEF Fits
    <3> QED
      BY <1>2, <2>3, <3>1, <3>2, <3>3 DEF Fits
  <2>6. dimension_new("d", dt, c) = dimension_alloc("d", dt, {<<c.lo, c.hi>>}, c.extent)
    BY <1>1, <1>4, <2>3 DEF dimension_new, verify_type_compatible
  <2>7. dimension_alloc("d", dt, {<<c.lo, c.hi>>}, c.extent) # {}
    <3> DEFINE b == <<c.lo, c.hi>>
    <3>1. /\ b[1] <= b[2]
          /\ \A e \in c.extent : /\ e > 0
                                 /\ e <= b[2] - b[1] + 1
                                 /\ b[1] + ((b[2] - b[1]) \div e + 1) * e - 1 <= TMax(physical(dt))
      BY <2>3, <2>5
    <3> HIDE DEF b
    <3>2. \A x \in {b} : x = b
      OBVIOUS
    <3>3. dimension_alloc("d", dt, {b}, c.extent) # {}
      BY <1>1, <2>1, <3>1, <3>2 DEF dimension_alloc
    <3> QED
      BY <3>3 DEF b
  <2> QED
    BY <2>5, <2>6, <2>7
<1>5. ASSUME NEW c \in prop_constraints(dt, tile_limit), ~ IsBounded(c)
      PROVE  dimension_new("d", dt, c) # {}
  <2>1. dt = "StringAscii"
    <3> SUFFICES ASSUME dt # "StringAscii" PROVE FALSE
      OBVIOUS
    <3>1. c \in prop_range_and_extent(T, tile_limit)
      BY <1>1 DEF prop_constraints
    <3>2. T # "StringAscii"
      BY <1>1 DEF PhysicalType
    <3> QED
      BY <1>5, <3>1, <3>2, ConstraintsDrawn
  <2>2. dimension_new("d", dt, c) = dimension_alloc("d", dt, {}, {})
    BY <1>5, <2>1 DEF dimension_new, verify_type_compatible
  <2> QED
    BY <1>1, <2>1, <2>2 DEF dimension_alloc
<1> QED
  BY <1>3, <1>4, <1>5 DEF DrawnConstraintsFit

-----------------------------------------------------------------------------
\* The least of three numbers.
LEMMA LeastOf ==
    ASSUME NEW x \in Int, NEW y \in Int, NEW z \in Int
    PROVE  LET m == Min({x, y, z}) IN m \in {x, y, z} /\ m <= x /\ m <= y /\ m <= z
<1>1. \E m \in {x, y, z} : \A v \in {x, y, z} : m <= v
  <2>1. CASE x <= y /\ x <= z
    BY <2>1
  <2>2. CASE y <= x /\ y <= z
    BY <2>2
  <2>3. CASE z <= x /\ z <= y
    BY <2>3
  <2> QED
    BY <2>1, <2>2, <2>3
<1>2. Min({x, y, z}) \in {x, y, z} /\ \A v \in {x, y, z} : Min({x, y, z}) <= v
  BY <1>1, Zenon DEF Min
<1> QED
  BY <1>2

\* Drawn subarrays are within their domain and bound.
LEMMA DrawnSubarrays ==
    ASSUME NEW dt \in DimensionDatatypes, NEW tile_limit \in Nat,
           NEW c \in prop_constraints(dt, tile_limit), IsBounded(c),
           NEW bound \in {{}} \cup {{n} : n \in Limits}
    PROVE  DrawnSubarraysFit(c, bound)
<1> DEFINE T == physical(dt)
           cells == IF bound = {} THEN TMax(T) ELSE Min(bound \cup {TMax(T)})
           upper(lb) == Min({c.hi, lb + cells, TMax(T)})
<1>1. T \in PhysicalType \ Floats /\ (is_string_type(dt) <=> dt = "StringAscii")
  BY DimensionsOf
<1>2. TMax(T) \in Int /\ TMin(T) \in Int
  BY <1>1, TypesAreIntervals
<1>3. c \in prop_range_and_extent(T, tile_limit)
  BY <1>1 DEF prop_constraints, IsBounded, StringAscii
<1>4. c.lo \in Int /\ c.hi \in Int /\ c.type = T
  BY <1>2, <1>3, ConstraintsDrawn DEF DrawnBounds, Bounded
<1>5. cells \in Int /\ \A b \in bound : b \in Int /\ cells <= b
  <2>1. CASE bound = {}
    BY <1>2, <2>1
  <2>2. CASE bound # {}
    <3>1. PICK n \in Limits : bound = {n}
      BY <2>2
    <3>2. n \in Int
      BY LimitsAre
    <3>3. {n} \cup {TMax(T)} = {n, TMax(T), TMax(T)}
      OBVIOUS
    <3>4. cells = Min({n, TMax(T), TMax(T)})
      BY <3>1, <3>3
    <3>5. cells \in {n, TMax(T), TMax(T)} /\ cells <= n
      BY <1>2, <3>2, <3>4, LeastOf
    <3> QED
      BY <1>2, <3>1, <3>2, <3>5
  <2> QED
    BY <2>1, <2>2
<1> HIDE DEF cells
<1>6. subarray_strategy(c, bound)
        = UNION {{Single(T, lb, ub) : ub \in lb..upper(lb)} : lb \in c.lo..c.hi}
  BY <1>4 DEF subarray_strategy, cells
<1>7. \A lb \in c.lo..c.hi : upper(lb) \in Int /\ upper(lb) <= c.hi /\ upper(lb) <= lb + cells
  <2> SUFFICES ASSUME NEW lb \in c.lo..c.hi
               PROVE  upper(lb) \in Int /\ upper(lb) <= c.hi /\ upper(lb) <= lb + cells
    OBVIOUS
  <2>1. PICK x \in Int : x = lb + cells
    BY <1>4, <1>5
  <2>2. upper(lb) = Min({c.hi, x, TMax(T)})
    BY <2>1
  <2>3. upper(lb) \in {c.hi, x, TMax(T)} /\ upper(lb) <= c.hi /\ upper(lb) <= x
    BY <1>2, <1>4, <2>2, LeastOf
  <2> QED
    BY <1>2, <1>4, <2>1, <2>3
<1> HIDE DEF upper
<1>8. ASSUME NEW r \in subarray_strategy(c, bound)
      PROVE  /\ c.lo <= r.lo[1] /\ r.lo[1] <= r.hi[1] /\ r.hi[1] <= c.hi
             /\ \A n \in num_cells(r) : \A b \in bound : n <= b + 1
  <2>1. PICK lb \in c.lo..c.hi : r \in {Single(T, lb, ub) : ub \in lb..upper(lb)}
    BY <1>6
  <2>2. PICK ub \in lb..upper(lb) : r = Single(T, lb, ub)
    BY <2>1
  <2>3. r.kind = "Single" /\ r.type = T /\ r.lo[1] = lb /\ r.hi[1] = ub
    BY <2>2 DEF Single
  <2>4. num_cells(r) = {1 + (ub - lb)}
    BY <1>1, <2>3 DEF num_cells, single_num_cells, single_value_range_go
  <2>5. upper(lb) \in Int /\ upper(lb) <= c.hi /\ upper(lb) <= lb + cells
    BY <1>7
  <2>6. c.lo <= lb /\ lb <= ub /\ ub <= c.hi /\ ub <= lb + cells /\ lb \in Int /\ ub \in Int
    BY <1>4, <1>5, <2>5
  <2>7. \A b \in bound : 1 + (ub - lb) <= b + 1
    BY <1>5, <2>6
  <2> QED
    BY <2>3, <2>4, <2>6, <2>7
<1> QED
  BY <1>8 DEF DrawnSubarraysFit

-----------------------------------------------------------------------------
(* The tiles of a dense domain: powers, their roots, and products. *)

\* Products grow with their factors.
LEMMA TimesGrows ==
    ASSUME NEW a \in Nat, NEW b \in Nat, NEW c \in Nat, NEW d \in Nat, a <= c, b <= d
    PROVE  a * b <= d * c
<1>1. a * b <= c * b
  OBVIOUS
<1>2. c * b <= c * d
  OBVIOUS
<1>3. a * b \in Nat /\ c * b \in Nat /\ c * d \in Nat /\ c * d = d * c
  BY TimesNat
<1> QED
  BY <1>1, <1>2, <1>3

ArePowers(f, base, n) == f = [i \in 0..n |-> IF i = 0 THEN 1 ELSE base * f[i - 1]]

Powers(base, n) == CHOOSE f : ArePowers(f, base, n)

\* Such a function exists.
LEMMA PowersGo ==
    ASSUME NEW base \in Nat, NEW n \in Nat
    PROVE  \E f : ArePowers(f, base, n)
<1> DEFINE step == [i \in 1..n |-> [x \in Nat |-> base * x]]
<1>1. step \in [1..n -> [Nat -> Nat]] /\ 1 \in Nat
  BY TimesNat
<1> HIDE DEF step
<1>2. PICK f : Runs(f, Nat, 1, step, n)
  BY ONLY n \in Nat, <1>1, RunsOn
<1>3. f \in [0..n -> Nat] /\ f[0] = 1
  BY <1>2 DEF Runs
<1>4. ASSUME NEW i \in 1..n PROVE f[i] = base * f[i - 1]
  <2>1. f[i] = step[i][f[i - 1]]
    BY <1>2, Zenon DEF Runs
  <2>2. f[i - 1] \in Nat
    BY <1>3
  <2> QED
    BY <2>1, <2>2 DEF step
<1>5. ASSUME NEW i \in 0..n PROVE f[i] = IF i = 0 THEN 1 ELSE base * f[i - 1]
  <2>1. CASE i = 0
    BY <1>3, <2>1
  <2>2. CASE i # 0
    <3>1. i \in 1..n
      BY <2>2
    <3> QED
      BY <1>4, <2>2, <3>1, Zenon
  <2> QED
    BY <2>1, <2>2
<1> DEFINE g == [i \in 0..n |-> IF i = 0 THEN 1 ELSE base * f[i - 1]]
<1>6. f = g
  <2>1. f = [i \in 0..n |-> f[i]]
    BY <1>3
  <2> QED
    BY <1>5, <2>1, Zenon
<1> QED
  BY <1>6, Zenon DEF ArePowers

\* Powers, one factor at a time.
LEMMA PowerGoes ==
    ASSUME NEW base \in Nat, NEW n \in Nat
    PROVE  /\ Power(base, n) = Powers(base, n)[n]
           /\ Powers(base, n) \in [0..n -> Nat] /\ Powers(base, n)[0] = 1
           /\ \A i \in 0..(n - 1) : Powers(base, n)[i + 1] = base * Powers(base, n)[i]
<1> DEFINE P == Powers(base, n)
<1>1. Power(base, n) = P[n]
  BY Zenon DEF Power, Powers, ArePowers
<1>2. ArePowers(P, base, n)
  BY PowersGo, Zenon DEF Powers
<1> HIDE DEF P
<1>3. \A i \in 0..n : P[i] = IF i = 0 THEN 1 ELSE base * P[i - 1]
  BY <1>2, Zenon DEF ArePowers
<1>4. P[0] = 1
  <2>1. 0 \in 0..n
    OBVIOUS
  <2> QED
    BY <1>3, <2>1, Zenon
<1>5. ASSUME NEW i \in 0..(n - 1) PROVE P[i + 1] = base * P[i]
  <2>1. i + 1 \in 0..n /\ i + 1 # 0 /\ (i + 1) - 1 = i
    OBVIOUS
  <2>2. P[i + 1] = base * P[(i + 1) - 1]
    BY <1>3, <2>1, Zenon
  <2> QED
    BY ONLY <2>1, <2>2
<1> DEFINE S == {i \in 0..n : P[i] \in Nat}
<1>6. \A i \in 0..n : i \in S
  <2>1. 0 \in S
    BY <1>4
  <2>2. \A i \in 0..(n - 1) : i \in S => i + 1 \in S
    <3> SUFFICES ASSUME NEW i \in 0..(n - 1), P[i] \in Nat PROVE P[i + 1] \in Nat
      OBVIOUS
    <3>1. P[i + 1] = base * P[i]
      BY <1>5
    <3> QED
      BY <3>1, TimesNat
  <2> HIDE DEF S
  <2> QED
    BY <2>1, <2>2, Induction
<1>7. P \in [0..n -> Nat]
  <2>1. \A i \in 0..n : P[i] \in Nat
    BY <1>6
  <2>2. \E F : P = [i \in 0..n |-> F[i]]
    <3> DEFINE F == [i \in 0..n |-> IF i = 0 THEN 1 ELSE base * P[i - 1]]
    <3>1. P = F
      BY <1>2, Zenon DEF ArePowers
    <3>2. F = [i \in 0..n |-> F[i]]
      OBVIOUS
    <3> HIDE DEF F
    <3> QED
      BY <3>1, <3>2
  <2> QED
    BY <2>1, <2>2
<1> QED
  BY <1>1, <1>4, <1>5, <1>7 DEF P

\* A number has a root, rounded down.
LEMMA RootIs ==
    ASSUME NEW limit \in Nat, NEW n \in Nat, n > 0
    PROVE  Root(limit, n) \in Nat /\ Power(Root(limit, n), n) <= limit
<1> DEFINE S == {r \in Nat : Power(r + 1, n) > limit}
<1>1. \A b \in Nat : Power(b, n) \in Nat
  <2> SUFFICES ASSUME NEW b \in Nat PROVE Power(b, n) \in Nat
    OBVIOUS
  <2>1. Power(b, n) = Powers(b, n)[n] /\ Powers(b, n) \in [0..n -> Nat] /\ n \in 0..n
    BY PowerGoes
  <2> QED
    BY <2>1
<1>2. limit \in S
  <2> DEFINE base == limit + 1
             P == Powers(base, n)
             G == {i \in 0..(n - 1) : P[i + 1] >= base}
  <2>0. base \in Nat
    OBVIOUS
  <2> HIDE DEF base
  <2>1. /\ Power(base, n) = P[n] /\ P \in [0..n -> Nat] /\ P[0] = 1
        /\ \A i \in 0..(n - 1) : P[i + 1] = base * P[i]
    BY <2>0, PowerGoes
  <2>2. base \in Nat /\ base > 0
    BY DEF base
  <2> HIDE DEF P
  <2>3. 0 \in G
    <3>1. P[0 + 1] = base * P[0]
      BY <2>1
    <3> QED
      BY <2>1, <2>2, <3>1
  <2>4. \A i \in 0..((n - 1) - 1) : i \in G => i + 1 \in G
    <3> SUFFICES ASSUME NEW i \in 0..((n - 1) - 1), P[i + 1] >= base
                 PROVE  P[(i + 1) + 1] >= base
      OBVIOUS
    <3>1. P[(i + 1) + 1] = base * P[i + 1]
      BY <2>1
    <3>2. P[i + 1] \in Nat
      BY <2>1
    <3>3. 1 * base <= base * P[i + 1]
      <4>1. 1 \in Nat /\ 1 <= P[i + 1] /\ base <= base
        BY <2>2, <3>2
      <4> QED
        BY ONLY <2>2, <3>2, <4>1, TimesGrows
    <3> QED
      BY <2>2, <3>1, <3>3
  <2>5. n - 1 \in Nat
    OBVIOUS
  <2> HIDE DEF G
  <2>6. \A i \in 0..(n - 1) : i \in G
    BY ONLY <2>3, <2>4, <2>5, Induction
  <2>7. n - 1 \in G
    BY <2>5, <2>6
  <2>8. P[(n - 1) + 1] >= base /\ (n - 1) + 1 = n
    BY <2>7 DEF G
  <2>9. Power(base, n) >= base
    BY <2>1, <2>8
  <2> QED
    BY <1>1, <2>9, <2>2 DEF base
<1> DEFINE m == Min(S)
<1>3. m \in S /\ \A y \in S : m <= y
  <2>1. S \subseteq Nat /\ S # {}
    BY <1>2
  <2> HIDE DEF S
  <2> QED
    BY <2>1, LeastNat
<1> HIDE DEF m
<1>4. m \in 0..limit /\ Power(m + 1, n) > limit
  BY <1>2, <1>3
<1>5. Power(m, n) <= limit
  <2>1. CASE m = 0
    <3>1. Power(0, n) = Powers(0, n)[n] /\ Powers(0, n) \in [0..n -> Nat]
          /\ \A i \in 0..(n - 1) : Powers(0, n)[i + 1] = 0 * Powers(0, n)[i]
      BY PowerGoes
    <3>2. n - 1 \in 0..(n - 1) /\ (n - 1) + 1 = n
      OBVIOUS
    <3>3. Powers(0, n)[n] = 0 * Powers(0, n)[n - 1] /\ Powers(0, n)[n - 1] \in Nat
      BY <3>1, <3>2
    <3>4. Power(0, n) = 0
      BY ONLY <3>1, <3>3
    <3> QED
      BY <2>1, <3>4
  <2>2. CASE m # 0
    <3>1. m - 1 \in Nat /\ (m - 1) + 1 = m /\ m - 1 < m
      BY <1>3, <2>2
    <3>2. m - 1 \notin S
      BY <1>3, <3>1
    <3>3. ~ (Power((m - 1) + 1, n) > limit)
      BY <3>1, <3>2
    <3>4. ~ (Power(m, n) > limit) /\ Power(m, n) \in Nat
      BY <1>1, <1>4, <3>1, <3>3
    <3> QED
      BY <3>4
  <2> QED
    BY <2>1, <2>2
<1>6. \E r \in 0..limit : Power(r, n) <= limit /\ Power(r + 1, n) > limit
  BY <1>4, <1>5
<1>7. Root(limit, n) \in 0..limit /\ Power(Root(limit, n), n) <= limit
  BY <1>6, Zenon DEF Root
<1> QED
  BY <1>7

\* The product of n sets of numbers up to k is one of numbers up to k^n.
Products(f, counts) ==
    f = [i \in 0..Len(counts) |->
            IF i = 0 THEN {1} ELSE CheckedMul(f[i - 1], counts[i])]

\* Such a function exists.
LEMMA ProductsGo ==
    ASSUME NEW n \in Nat, NEW counts \in [1..n -> SUBSET Nat]
    PROVE  /\ Len(counts) = n
           /\ \E f : f \in [0..n -> SUBSET Nat] /\ Products(f, counts)
<1> DEFINE Step(i, M) == CheckedMul(M, counts[i])
           step == [i \in 1..n |-> [M \in SUBSET Nat |-> Step(i, M)]]
<1>1. Len(counts) = n
  <2>1. counts \in Seq(SUBSET Nat) /\ DOMAIN counts = 1..n
    OBVIOUS
  <2> QED
    BY <2>1
<1>2. step \in [1..n -> [SUBSET Nat -> SUBSET Nat]] /\ {1} \in SUBSET Nat
  <2>1. ASSUME NEW i \in 1..n, NEW M \in SUBSET Nat PROVE Step(i, M) \in SUBSET Nat
    <3>1. \A m \in M, k \in counts[i] : m * k \in Nat
      BY TimesNat
    <3> QED
      BY <3>1 DEF CheckedMul
  <2> HIDE DEF Step
  <2> QED
    BY <2>1
<1> HIDE DEF step
<1>3. PICK f : Runs(f, SUBSET Nat, {1}, step, n)
  BY ONLY n \in Nat, <1>2, RunsOn
<1>4. f \in [0..n -> SUBSET Nat] /\ f[0] = {1}
  BY <1>3 DEF Runs
<1>5. ASSUME NEW i \in 1..n PROVE f[i] = Step(i, f[i - 1])
  <2>1. f[i] = step[i][f[i - 1]]
    BY <1>3, Zenon DEF Runs
  <2>2. f[i - 1] \in SUBSET Nat
    BY <1>4
  <2> HIDE DEF Step
  <2> QED
    BY <2>1, <2>2 DEF step
<1>6. f = [i \in 0..n |-> IF i = 0 THEN {1} ELSE Step(i, f[i - 1])]
  <2> HIDE DEF Step
  <2>1. ASSUME NEW i \in 0..n PROVE f[i] = IF i = 0 THEN {1} ELSE Step(i, f[i - 1])
    <3>1. CASE i = 0
      BY <1>4, <3>1
    <3>2. CASE i # 0
      <4>1. i \in 1..n
        BY <3>2
      <4> QED
        BY <1>5, <3>2, <4>1, Zenon
    <3> QED
      BY <3>1, <3>2
  <2>2. f = [i \in 0..n |-> f[i]]
    BY <1>4
  <2> QED
    BY <2>1, <2>2, Zenon
<1>7. Products(f, counts)
  BY <1>1, <1>6, Zenon DEF Products
<1> QED
  BY <1>1, <1>4, <1>7, Zenon

\* The product of n numbers up to base is one up to its power.
LEMMA ProductUpTo ==
    ASSUME NEW n \in Nat, NEW base \in Nat, NEW counts \in [1..n -> SUBSET (0..base)]
    PROVE  \A cells \in Product(counts) : cells \in Nat /\ cells <= Power(base, n) /\ Power(base, n) \in Nat
<1> DEFINE U == CHOOSE f : Products(f, counts)
           P == Powers(base, n)
<1>1. counts \in [1..n -> SUBSET Nat]
  OBVIOUS
<1>2. Len(counts) = n /\ \E f : Products(f, counts)
  BY <1>1, ProductsGo
<1>3. Product(counts) = U[n]
  BY <1>2, Zenon DEF Product, Products
<1>4. Products(U, counts)
  BY <1>2, Zenon
<1> HIDE DEF U
<1>5. \A i \in 0..n :
          U[i] = IF i = 0 THEN {1} ELSE CheckedMul(U[i - 1], counts[i])
  BY <1>2, <1>4, Zenon DEF Products
<1>6. /\ Power(base, n) = P[n] /\ P \in [0..n -> Nat] /\ P[0] = 1
      /\ \A i \in 0..(n - 1) : P[i + 1] = base * P[i]
  BY PowerGoes
<1> HIDE DEF P
<1> DEFINE S == {i \in 0..n : \A x \in U[i] : x \in Nat /\ x <= P[i]}
<1>7. 0 \in S
  <2>1. 0 \in 0..n
    OBVIOUS
  <2>2. U[0] = {1}
    BY <1>5, <2>1, Zenon
  <2> QED
    BY <1>6, <2>2
<1>8. \A i \in 0..(n - 1) : i \in S => i + 1 \in S
  <2> SUFFICES ASSUME NEW i \in 0..(n - 1), i \in S PROVE i + 1 \in S
    OBVIOUS
  <2>1. i + 1 \in 0..n /\ i + 1 # 0 /\ (i + 1) - 1 = i /\ i + 1 \in 1..n
    OBVIOUS
  <2>2. U[i + 1] = CheckedMul(U[(i + 1) - 1], counts[i + 1])
    BY <1>5, <2>1, Zenon
  <2>3. ASSUME NEW x \in U[i + 1] PROVE x \in Nat /\ x <= P[i + 1]
    <3>1. PICK m \in U[i], k \in counts[i + 1] : x = m * k
      BY ONLY <2>1, <2>2, <2>3 DEF CheckedMul
    <3>2. m \in Nat /\ m <= P[i] /\ P[i] \in Nat /\ P[i + 1] = base * P[i]
      BY <1>6, <2>1
    <3>3. k \in Nat /\ k <= base
      BY <2>1
    <3>4. m * k <= base * P[i]
      BY ONLY base \in Nat, <3>2, <3>3, TimesGrows
    <3>5. m * k \in Nat
      BY <3>2, <3>3, TimesNat
    <3> QED
      BY ONLY <3>1, <3>2, <3>4, <3>5
  <2> QED
    BY <2>1, <2>3
<1> HIDE DEF S
<1>9. n \in S
  <2>1. \A i \in 0..n : i \in S
    BY ONLY n \in Nat, <1>7, <1>8, Induction
  <2> QED
    BY <2>1
<1> QED
  BY <1>3, <1>6, <1>9 DEF S

\* Drawn tiles keep to the limit.
LEMMA DrawnTiles ==
    ASSUME NEW T \in PhysicalType \ Floats, NEW n \in Nat, n > 0, NEW limit \in Nat
    PROVE  DrawnTilesFit(T, n, limit)
<1> DEFINE root == Root(limit, n)
<1>1. root \in Nat /\ Power(root, n) <= limit /\ prop_domain_extent_limit(limit, n) = root + 1
  BY RootIs DEF prop_domain_extent_limit
<1> HIDE DEF root
<1>2. ASSUME NEW c \in prop_range_and_extent(T, root + 1),
             NEW cells \in num_cells_per_tile([i \in 1..n |-> [constraints |-> c]])
      PROVE  cells <= limit
  <2> DEFINE dims == [i \in 1..n |-> [constraints |-> c]]
             counts == [i \in DOMAIN dims |-> constraint_tile_cells(dims[i].constraints)]
  <2>1. root + 1 \in Nat
    BY <1>1
  <2>2. DrawnBounds(T, c.lo, c.hi) /\ c.extent \in DrawnExtents(T, c.lo, c.hi, root + 1)
    BY ConstraintsDrawn
  <2>3. \A e \in c.extent : e \in 0..root
    <3> SUFFICES ASSUME NEW e \in c.extent PROVE e \in 0..root
      OBVIOUS
    <3>1. Fits(T, c.lo, c.hi, root + 1, e)
      BY <2>1, <2>2, ExtentsFit
    <3> QED
      BY <1>1, <3>1 DEF Fits
  <2>4. constraint_tile_cells(c) \in SUBSET (0..root)
    BY <2>3 DEF constraint_tile_cells
  <2>5. counts \in [1..n -> SUBSET (0..root)]
    BY <2>4
  <2>6. cells \in Product(counts)
    BY DEF num_cells_per_tile
  <2> HIDE DEF counts
  <2>7. cells \in Nat /\ cells <= Power(root, n) /\ Power(root, n) \in Nat
    BY <1>1, <2>5, <2>6, ProductUpTo
  <2> QED
    BY <1>1, <2>7
<1> QED
  BY <1>1, <1>2 DEF DrawnTilesFit

-----------------------------------------------------------------------------
(* Dimensions through the C library and back. *)

FiltersOf(filters) == IF filters = {} THEN <<>> ELSE create_list(CHOOSE f \in filters : TRUE)

DomainOf(c) == IF IsBounded(c) THEN {<<c.lo, c.hi>>} ELSE {}
ExtentOf(c) == IF IsBounded(c) THEN c.extent ELSE {}

\* The C dimension made of the data of one.
LEMMA DimensionMade ==
    ASSUME NEW d, NEW x \in dimension_create(d)
    PROVE  /\ x.name = d.name /\ x.type = d.datatype
           /\ x.domain = DomainOf(d.constraints) /\ x.extent = ExtentOf(d.constraints)
           /\ x.filters = FiltersOf(d.filters)
           /\ x.cvn = dimension_cell_val_num(d.constraints)
           /\ verify_type_compatible(d.constraints, d.datatype)
<1>1. PICK c \in dimension_new(d.name, d.datatype, d.constraints) :
          x \in dimension_set_cell_val_num(WithFilters(c, d.filters), dimension_cell_val_num(d.constraints))
  BY DEF dimension_create
<1>2. /\ verify_type_compatible(d.constraints, d.datatype)
      /\ c \in dimension_alloc(d.name, d.datatype, DomainOf(d.constraints), ExtentOf(d.constraints))
  BY <1>1 DEF dimension_new, DomainOf, ExtentOf
<1>3. c = [name |-> d.name, type |-> d.datatype, domain |-> DomainOf(d.constraints),
           extent |-> ExtentOf(d.constraints), filters |-> <<>>,
           cvn |-> IF d.datatype = "StringAscii" THEN CellValNumVar ELSE 1]
  <2> DEFINE all == [name |-> d.name, type |-> d.datatype, domain |-> DomainOf(d.constraints),
                     extent |-> ExtentOf(d.constraints), filters |-> <<>>,
                     cvn |-> IF d.datatype = "StringAscii" THEN CellValNumVar ELSE 1]
  <2>1. c \in {all}
    BY <1>2 DEF dimension_alloc
  <2> HIDE DEF all
  <2>2. c = all
    BY <2>1
  <2> QED
    BY <2>2 DEF all
<1> DEFINE w == WithFilters(c, d.filters)
<1>4. /\ w.name = d.name /\ w.type = d.datatype /\ w.domain = DomainOf(d.constraints)
      /\ w.extent = ExtentOf(d.constraints) /\ w.filters = FiltersOf(d.filters)
      /\ DOMAIN w = {"name", "type", "domain", "extent", "filters", "cvn"}
  <2>1. CASE d.filters = {}
    BY <1>3, <2>1 DEF WithFilters, FiltersOf
  <2>2. CASE d.filters # {}
    <3>1. w = [c EXCEPT !.filters = FiltersOf(d.filters)]
      BY <2>2 DEF WithFilters, FiltersOf
    <3> HIDE DEF w
    <3> QED
      BY <1>3, <3>1
  <2> QED
    BY <2>1, <2>2
<1>5. x = [w EXCEPT !.cvn = dimension_cell_val_num(d.constraints)]
  BY <1>1 DEF dimension_set_cell_val_num
<1> HIDE DEF w
<1>6. /\ x.name = w.name /\ x.type = w.type /\ x.domain = w.domain
      /\ x.extent = w.extent /\ x.filters = w.filters
      /\ x.cvn = dimension_cell_val_num(d.constraints)
  BY <1>4, <1>5
<1> QED
  BY <1>2, <1>4, <1>6

\* A list of no filter or of one is read back.
LEMMA PipelinesReturn ==
    ASSUME NEW p \in Pipelines
    PROVE  LET l == create_list(p)
           IN  list_data(l) = {p} /\ list_eq(l, l) /\ (p = <<>> => l = <<>>)
<1> DEFINE l == create_list(p)
<1>1. CASE p = <<>>
  <2>1. l = <<>>
    BY <1>1 DEF create_list
  <2> HIDE DEF l
  <2>2. list_data(l) = {<<>>}
    <3>1. DOMAIN l = {}
      BY <2>1
    <3>2. [i \in DOMAIN l |-> CHOOSE fd \in filter_data(l[i]) : TRUE] = <<>>
      BY <3>1
    <3> QED
      BY <3>1, <3>2, Zenon DEF list_data
  <2>3. list_eq(l, l)
    BY <2>1 DEF list_eq
  <2> QED
    BY <1>1, <2>1, <2>2, <2>3 DEF l
<1>2. CASE p # <<>>
  <2>1. PICK t \in {"None", "BitShuffle", "ByteShuffle", "Xor", "ChecksumMd5", "ChecksumSha256"} :
            p = <<Plain(t)>>
    BY <1>2 DEF Pipelines
  <2> DEFINE f == Plain(t)
  <2>2. filter_data(create(f)) = {f}
    BY PlainReturns DEF Returns
  <2> HIDE DEF f
  <2>3. l = [i \in 1..1 |-> create(<<f>>[i])]
    BY <2>1 DEF create_list, f
  <2> HIDE DEF l
  <2>4. DOMAIN l = 1..1 /\ l[1] = create(f) /\ Len(l) = 1 /\ \A i \in 1..1 : i = 1
    BY <2>3
  <2> DEFINE k == [i \in DOMAIN l |-> CHOOSE fd \in filter_data(l[i]) : TRUE]
  <2>5. DOMAIN k = 1..1 /\ k[1] = f
    BY <2>2, <2>4
  <2>6. k = <<f>>
    <3>1. k = [i \in 1..1 |-> k[i]]
      BY <2>4
    <3> HIDE DEF k
    <3>2. k = [i \in 1..1 |-> f]
      BY <2>4, <2>5, <3>1
    <3>3. <<f>> = [i \in 1..1 |-> f]
      OBVIOUS
    <3> QED
      BY <3>2, <3>3
  <2>7. \A i \in DOMAIN l : filter_data(l[i]) # {}
    BY <2>2, <2>4
  <2>8. list_data(l) = {k}
    BY <2>7 DEF list_data
  <2> HIDE DEF k
  <2>9. list_eq(l, l)
    BY <2>2, <2>4 DEF list_eq, filter_eq
  <2> QED
    BY <1>2, <2>1, <2>6, <2>8, <2>9 DEF l, f
<1> QED
  BY <1>1, <1>2

\* A drawn dimension with any of the pipelines returns.
LEMMA DimensionsReturn ==
    ASSUME NEW dt \in DimensionDatatypes, NEW tile_limit \in Nat,
           NEW c \in prop_constraints(dt, tile_limit),
           NEW fs \in {{}} \cup {{p} : p \in Pipelines}
    PROVE  DimensionRoundTrip([name |-> "d", datatype |-> dt, constraints |-> c, filters |-> fs])
<1> DEFINE d == [name |-> "d", datatype |-> dt, constraints |-> c, filters |-> fs]
           back == [name |-> "d", datatype |-> dt, constraints |-> c, filters |-> fs \ {<<>>}]
<1>1. d.name = "d" /\ d.datatype = dt /\ d.constraints = c /\ d.filters = fs
  OBVIOUS
<1>2. back.name = "d" /\ back.datatype = dt /\ back.constraints = c /\ back.filters = fs \ {<<>>}
  OBVIOUS
<1>3. [d EXCEPT !.filters = @ \ {<<>>}] = back
  OBVIOUS
<1> HIDE DEF d, back
<1>4. PICK p \in Pipelines :
          FiltersOf(fs) = create_list(p) /\ fs \ {<<>>} = {p} \ {<<>>}
  <2>1. CASE fs = {}
    <3>1. <<>> \in Pipelines
      BY DEF Pipelines
    <3>2. create_list(<<>>) = <<>> /\ FiltersOf(fs) = <<>>
      BY <2>1, <3>1, PipelinesReturn DEF FiltersOf
    <3> QED
      BY <2>1, <3>1, <3>2
  <2>2. CASE fs # {}
    <3>1. PICK p \in Pipelines : fs = {p}
      BY <2>2
    <3>2. (CHOOSE f \in fs : TRUE) = p
      BY <3>1
    <3> QED
      BY <2>2, <3>1, <3>2 DEF FiltersOf
  <2> QED
    BY <2>1, <2>2
<1>5. list_data(FiltersOf(fs)) = {p} /\ list_eq(FiltersOf(fs), FiltersOf(fs))
  BY <1>4, PipelinesReturn
<1>6. FiltersOf(fs \ {<<>>}) = FiltersOf(fs)
  <2>1. CASE p = <<>>
    <3>1. fs \ {<<>>} = {} /\ FiltersOf(fs) = <<>>
      BY <1>4, <2>1, PipelinesReturn
    <3> QED
      BY <3>1 DEF FiltersOf
  <2>2. CASE p # <<>>
    <3>1. fs \ {<<>>} = {p}
      BY <1>4, <2>2
    <3>2. (CHOOSE f \in {p} : TRUE) = p
      OBVIOUS
    <3> QED
      BY <1>4, <3>1, <3>2 DEF FiltersOf
  <2> QED
    BY <2>1, <2>2
<1>7. IF IsBounded(c) THEN c = Bounded(physical(dt), c.lo, c.hi, c.extent) ELSE c = StringAscii
  <2>1. is_string_type(dt) => ~ IsBounded(c) /\ c = StringAscii
    BY DEF prop_constraints, IsBounded, StringAscii
  <2>2. physical(dt) # "StringAscii"
    BY DimensionsOf DEF PhysicalType
  <2>3. ~ is_string_type(dt) => IsBounded(c) /\ c = Bounded(physical(dt), c.lo, c.hi, c.extent)
    BY <2>2, ConstraintsDrawn DEF prop_constraints
  <2> QED
    BY <2>1, <2>3
<1>8. ASSUME NEW x \in dimension_create(d)
      PROVE  /\ dimension_data(x) = {back}
             /\ \A again \in dimension_create(back) : dimension_eq(x, again)
  <2>1. /\ x.name = "d" /\ x.type = dt /\ x.domain = DomainOf(c) /\ x.extent = ExtentOf(c)
        /\ x.filters = FiltersOf(fs) /\ x.cvn = dimension_cell_val_num(c)
    BY <1>1, DimensionMade
  <2>2. Constraints(x) = c
    <3>1. CASE IsBounded(c)
      <4> DEFINE b == <<c.lo, c.hi>>
      <4>1. x.domain = {b} /\ x.extent = c.extent
        BY <2>1, <3>1 DEF DomainOf, ExtentOf
      <4>2. b[1] = c.lo /\ b[2] = c.hi
        OBVIOUS
      <4> HIDE DEF b
      <4>3. (CHOOSE y \in x.domain : TRUE) = b
        BY <4>1
      <4>4. Constraints(x) = Bounded(physical(dt), b[1], b[2], c.extent)
        BY <2>1, <4>1, <4>3 DEF Constraints
      <4> QED
        BY <1>7, <3>1, <4>2, <4>4
    <3>2. CASE ~ IsBounded(c)
      BY <1>7, <2>1, <3>2 DEF Constraints, DomainOf
    <3> QED
      BY <3>1, <3>2
  <2>3. dimension_data(x)
          = {[name |-> "d", datatype |-> dt, constraints |-> c, filters |-> s \ {<<>>}] : s \in {{p}}}
    BY <1>5, <2>1, <2>2 DEF dimension_data
  <2>4. dimension_data(x) = {back}
    BY <1>4, <2>3 DEF back
  <2>5. ASSUME NEW again \in dimension_create(back) PROVE dimension_eq(x, again)
    <3>1. /\ again.name = "d" /\ again.type = dt /\ again.domain = DomainOf(c)
          /\ again.extent = ExtentOf(c)
          /\ again.filters = FiltersOf(fs \ {<<>>}) /\ again.cvn = dimension_cell_val_num(c)
      BY <1>2, DimensionMade
    <3> QED
      BY <1>5, <1>6, <2>1, <3>1 DEF dimension_eq
  <2> QED
    BY <2>4, <2>5
<1>9. DimensionRoundTrip(d)
  BY <1>3, <1>8 DEF DimensionRoundTrip
<1> QED
  BY <1>9 DEF d

-----------------------------------------------------------------------------
(* Query conditions: what they mean, and the search for a smaller one.     *)

\* What holds for a node if it does for those before it holds for all n.
LEMMA NodeInduction ==
    ASSUME NEW n \in Nat, NEW S, \A i \in 1..n : (\A j \in 1..(i - 1) : j \in S) => i \in S
    PROVE  \A i \in 1..n : i \in S
<1> DEFINE U == {k \in 0..n : \A j \in 1..k : j \in S}
<1>1. 0 \in U
  OBVIOUS
<1>2. ASSUME NEW k \in 0..(n - 1), k \in U PROVE k + 1 \in U
  <2>1. k + 1 \in 1..n /\ (k + 1) - 1 = k /\ k + 1 \in 0..n
    OBVIOUS
  <2>2. \A j \in 1..k : j \in S
    BY <1>2
  <2>3. k + 1 \in S
    BY <2>1, <2>2
  <2>4. \A j \in 1..(k + 1) : j \in S
    BY <2>2, <2>3
  <2> QED
    BY <2>1, <2>4
<1> HIDE DEF U
<1>3. n \in U
  <2>1. \A k \in 0..n : k \in U
    BY <1>1, <1>2, Induction
  <2> QED
    BY <2>1
<1> QED
  BY <1>3 DEF U

SameBefore(i, f, g) == \A j \in 1..(i - 1) : f[j] = g[j]

\* A step makes a value of each of n nodes of what it made of those before it.
Steps(step, n, X) ==
    /\ step \in [1..n -> [[1..n -> X] -> X]]
    /\ \A i \in 1..n : \A f, g \in [1..n -> X] :
          SameBefore(i, f, g) => step[i][f] = step[i][g]

Follows(f, step, n, X) == f \in [1..n -> X] /\ \A i \in 1..n : f[i] = step[i][f]

\* There is a function that follows the steps.
LEMMA Recursion ==
    ASSUME NEW n \in Nat, NEW X, X # {}, NEW step, Steps(step, n, X)
    PROVE  \E f : Follows(f, step, n, X)
<1>0. /\ step \in [1..n -> [[1..n -> X] -> X]]
      /\ \A i \in 1..n : \A f, g \in [1..n -> X] :
            SameBefore(i, f, g) => step[i][f] = step[i][g]
  BY DEF Steps
<1> DEFINE F == [1..n -> X]
           Upto(k, f) == \A i \in 1..k : f[i] = step[i][f]
           U == {k \in 0..n : \E f \in F : Upto(k, f)}
<1>1. 0 \in U
  <2>1. PICK x : x \in X
    OBVIOUS
  <2>2. [i \in 1..n |-> x] \in F
    BY <2>1
  <2> DEFINE f == [i \in 1..n |-> x]
  <2> HIDE DEF f
  <2>3. f \in F
    BY <2>2 DEF f
  <2>4. \A i \in 1..0 : f[i] = step[i][f]
    OBVIOUS
  <2> QED
    BY <2>3, <2>4
<1>2. ASSUME NEW k \in 0..(n - 1), k \in U PROVE k + 1 \in U
  <2>1. PICK f \in F : Upto(k, f)
    BY <1>2
  <2>2. k + 1 \in 1..n /\ k + 1 \in 0..n
    OBVIOUS
  <2> DEFINE g == [f EXCEPT ![k + 1] = step[k + 1][f]]
  <2>3. step[k + 1][f] \in X
    BY <1>0, <2>2
  <2>4. g \in F /\ \A j \in 1..n : g[j] = IF j = k + 1 THEN step[k + 1][f] ELSE f[j]
    BY <2>2, <2>3
  <2> HIDE DEF g
  <2>5. ASSUME NEW i \in 1..(k + 1) PROVE g[i] = step[i][g]
    <3>1. i \in 1..n /\ \A j \in 1..(i - 1) : j \in 1..n /\ j # k + 1
      OBVIOUS
    <3>2. SameBefore(i, f, g)
      BY <2>4, <3>1 DEF SameBefore
    <3>3. step[i][f] = step[i][g]
      BY <1>0, <2>4, <3>1, <3>2
    <3>4. CASE i = k + 1
      BY <2>4, <3>1, <3>3, <3>4
    <3>5. CASE i # k + 1
      <4>1. i \in 1..k
        BY <3>5
      <4> QED
        BY <2>1, <2>4, <3>1, <3>3, <3>5, <4>1
    <3> QED
      BY <3>4, <3>5
  <2> QED
    BY <2>2, <2>4, <2>5
<1> HIDE DEF U
<1>3. n \in U
  <2>1. \A k \in 0..n : k \in U
    BY <1>1, <1>2, Induction
  <2> QED
    BY <2>1
<1> QED
  BY <1>3 DEF U, Follows

\* The nodes of an expression.
LEMMA Nodes ==
    ASSUME NEW e, Q!IsExpression(e)
    PROVE  /\ Len(e) \in Nat /\ Len(e) \in 1..Len(e) /\ DOMAIN e = 1..Len(e)
           /\ \A i \in 1..Len(e) :
                 \/ e[i].is = "Cond" /\ Q!IsPredicate(e[i])
                 \/ e[i].is = "Negate" /\ e[i] = Q!Negation(e[i].arg) /\ e[i].arg \in 1..(i - 1)
                 \/ /\ e[i].is = "Comb" /\ e[i] = Q!Combination(e[i].lhs, e[i].rhs, e[i].op)
                    /\ e[i].lhs \in 1..(i - 1) /\ e[i].rhs \in 1..(i - 1)
                    /\ e[i].op \in {"And", "Or"}
<1>1. e \in Seq({e[i] : i \in DOMAIN e}) /\ e # <<>>
  BY DEF Q!IsExpression
<1>2. Len(e) \in Nat /\ Len(e) \in 1..Len(e) /\ DOMAIN e = 1..Len(e)
  BY <1>1
<1>3. \A i \in 1..Len(e) : e[i].is \in {"Cond", "Negate", "Comb"} /\ Q!IsNode(e[i], i)
  BY <1>2, Zenon DEF Q!IsExpression
<1> QED
  BY <1>2, <1>3 DEF Q!IsNode

\* What an expression says of a cell, and what the library makes of it, plain and negated.
Selection == [plain : BOOLEAN, negated : BOOLEAN]

Answers(said, selection) ==
    /\ said \in 0..2 /\ selection \in Selection
    /\ selection.plain <=> said = Q!True
    /\ selection.negated <=> said = Q!False

LEMMA Shown ==
    ASSUME NEW said \in 0..2, NEW plain \in BOOLEAN, NEW negated \in BOOLEAN,
           plain <=> said = Q!True, negated <=> said = Q!False
    PROVE  Answers(said, [plain |-> plain, negated |-> negated])
<1> DEFINE selection == [plain |-> plain, negated |-> negated]
<1>1. selection \in Selection /\ selection.plain = plain /\ selection.negated = negated
  BY DEF Selection
<1> HIDE DEF selection
<1>2. Answers(said, selection)
  BY <1>1, Zenon DEF Answers
<1> QED
  BY <1>2 DEF selection

\* What is true or false, and what is neither.
LEMMA Truths ==
    ASSUME NEW b
    PROVE  Q!Truth(b) \in 0..2 /\ (Q!Truth(b) = Q!True <=> b) /\ (Q!Truth(b) = Q!False <=> ~b)
BY DEF Q!Truth, Q!True, Q!False

LEMMA Neither == Q!Unknown \in 0..2 /\ Q!Unknown # Q!True /\ Q!Unknown # Q!False
BY DEF Q!True, Q!False, Q!Unknown

LEMMA CompareMeans ==
    ASSUME NEW a \in Int, NEW b \in Int
    PROVE  /\ \A op \in {"Less", "LT"} : Q!Compare(a, op, b) = (a < b)
           /\ \A op \in {"LessEqual", "LE"} : Q!Compare(a, op, b) = (a <= b)
           /\ \A op \in {"Equal", "EQ"} : Q!Compare(a, op, b) = (a = b)
           /\ \A op \in {"NotEqual", "NE"} : Q!Compare(a, op, b) = (a # b)
           /\ \A op \in {"GreaterEqual", "GE"} : Q!Compare(a, op, b) = (a >= b)
           /\ \A op \in {"Greater", "GT"} : Q!Compare(a, op, b) = (a > b)
BY DEF Q!Compare

\* The comparisons of the library are those of the expressions.
LEMMA EqualityMeans ==
    ASSUME NEW op \in Q!EqualityOps, NEW a \in Int, NEW b \in Int
    PROVE  /\ Q!Compare(a, Q!EqualityEnum(op), b) <=> Q!Compare(a, op, b)
           /\ Q!Compare(a, Q!NegatedOp(Q!EqualityEnum(op)), b) <=> ~Q!Compare(a, op, b)
<1> DEFINE h == Q!EqualityEnum(op)
           n == Q!NegatedOp(h)
<1>1. \/ op = "Less" /\ h = "LT" /\ n = "GE"
      \/ op = "LessEqual" /\ h = "LE" /\ n = "GT"
      \/ op = "Equal" /\ h = "EQ" /\ n = "NE"
      \/ op = "NotEqual" /\ h = "NE" /\ n = "EQ"
      \/ op = "GreaterEqual" /\ h = "GE" /\ n = "LT"
      \/ op = "Greater" /\ h = "GT" /\ n = "LE"
  BY DEF Q!EqualityOps, Q!EqualityEnum, Q!NegatedOp
<1> HIDE DEF h, n
<1>2. Q!Compare(a, h, b) = Q!Compare(a, op, b)
  BY <1>1, CompareMeans
<1>3. /\ a >= b <=> ~(a < b)
      /\ a < b <=> ~(a >= b)
      /\ a > b <=> ~(a <= b)
      /\ a <= b <=> ~(a > b)
  OBVIOUS
<1>4. \/ Q!Compare(a, op, b) = (a < b) /\ Q!Compare(a, n, b) = (a >= b)
      \/ Q!Compare(a, op, b) = (a <= b) /\ Q!Compare(a, n, b) = (a > b)
      \/ Q!Compare(a, op, b) = (a = b) /\ Q!Compare(a, n, b) = (a # b)
      \/ Q!Compare(a, op, b) = (a # b) /\ Q!Compare(a, n, b) = (a = b)
      \/ Q!Compare(a, op, b) = (a >= b) /\ Q!Compare(a, n, b) = (a < b)
      \/ Q!Compare(a, op, b) = (a > b) /\ Q!Compare(a, n, b) = (a <= b)
  BY <1>1, CompareMeans
<1>5. Q!Compare(a, n, b) <=> ~Q!Compare(a, op, b)
  BY <1>3, <1>4, Zenon
<1> QED
  BY <1>2, <1>5, Zenon DEF h, n

Among(v, members) == \E i \in DOMAIN members : members[i] = v

\* What a handle that compares matches.
LEMMA MatchesMeans ==
    ASSUME NEW h, NEW field, NEW op, NEW value, h.field = field, h.op = op, h.value = value, NEW cell
    PROVE  /\ Q!Matches(h, cell) \in BOOLEAN
           /\ value = Q!Null => (Q!Matches(h, cell) <=> (cell[field] = Q!Null <=> op = "EQ"))
           /\ value # Q!Null /\ cell[field] = Q!Null => ~Q!Matches(h, cell)
           /\ value # Q!Null /\ cell[field] # Q!Null /\ op \in {"IN", "NOT_IN"} =>
                 (Q!Matches(h, cell) <=> (Among(cell[field][1], value) <=> op = "IN"))
           /\ value # Q!Null /\ cell[field] # Q!Null /\ op \notin {"IN", "NOT_IN"} =>
                 (Q!Matches(h, cell) <=> Q!Compare(cell[field][1], op, value[1]))
BY Zenon DEF Q!Matches, Among

\* A handle that compares agrees with what the predicate it is of says.
LEMMA PredicateAnswers ==
    ASSUME NEW p, Q!IsPredicate(p), p.is = "Cond", NEW h \in Q!alloc(p), NEW cell,
           cell[p.field] \in Seq(Int), NEW f
    PROVE  Answers(Q!Holds(p, cell), Q!HandleSelects(h, cell, f))
<1> DEFINE null == cell[p.field] = Q!Null
           g == Q!Negated(h)
           says == Q!Holds(p, cell)
           plain == Q!Matches(h, cell)
           negated == Q!Matches(g, cell)
<1>1. ASSUME NEW op, NEW value, h = [field |-> p.field, op |-> op, value |-> value]
      PROVE  /\ h.field = p.field /\ h.op = op /\ h.value = value
             /\ g.field = p.field /\ g.op = Q!NegatedOp(op) /\ g.value = value
  BY <1>1 DEF Q!Negated
<1>2. plain \in BOOLEAN /\ negated \in BOOLEAN
  BY Zenon DEF Q!Matches
<1>3. ASSUME h.op \notin {"NOT", "AND", "OR"}, says \in 0..2,
             plain <=> says = Q!True, negated <=> says = Q!False
      PROVE  Answers(says, Q!HandleSelects(h, cell, f))
  <2>1. Q!HandleSelects(h, cell, f) = [plain |-> plain, negated |-> negated]
    BY <1>3 DEF Q!HandleSelects
  <2> HIDE DEF says, plain, negated
  <2>2. Answers(says, [plain |-> plain, negated |-> negated])
    BY <1>2, <1>3, Shown
  <2> QED
    BY <2>1, <2>2
<1> HIDE DEF g
<1>4. CASE p.kind = "Equality"
  <2>1. p.op \in Q!EqualityOps /\ p.value \in Seq(Int) /\ Len(p.value) = 1
    BY <1>4 DEF Q!IsPredicate, Q!Predicate
  <2>2. p.value # Q!Null /\ p.value[1] \in Int
    <3>1. Len(<<>>) = 0 /\ 0 # 1
      OBVIOUS
    <3>2. p.value # Q!Null
      BY <2>1, <3>1, Zenon DEF Q!Null
    <3> QED
      BY <2>1, <3>2
  <2>3. h = [field |-> p.field, op |-> Q!EqualityEnum(p.op), value |-> p.value]
    BY <1>4 DEF Q!alloc
  <2>4. /\ h.field = p.field /\ h.op = Q!EqualityEnum(p.op) /\ h.value = p.value
        /\ g.field = p.field /\ g.op = Q!NegatedOp(h.op) /\ g.value = p.value
    BY <2>3, <1>1
  <2>5. h.op \notin {"IN", "NOT_IN", "NOT", "AND", "OR"} /\ g.op \notin {"IN", "NOT_IN"}
    BY <2>1, <2>4 DEF Q!EqualityOps, Q!EqualityEnum, Q!NegatedOp
  <2>6. CASE null
    <3>1. ~plain /\ ~negated
      BY <2>2, <2>4, <2>6, MatchesMeans
    <3>2. says = Q!Unknown
      BY <1>4, <2>6 DEF Q!Holds
    <3> QED
      BY <1>3, <2>5, <3>1, <3>2, Neither
  <2>7. CASE ~null
    <3> DEFINE a == cell[p.field][1]
               b == p.value[1]
    <3>1. a \in Int /\ b \in Int
      BY <2>2, <2>7 DEF Q!Null
    <3>2. /\ plain <=> Q!Compare(a, h.op, b)
          /\ negated <=> Q!Compare(a, g.op, b)
      BY <2>2, <2>4, <2>5, <2>7, MatchesMeans
    <3> DEFINE said == Q!Compare(a, p.op, b)
    <3>3. says = Q!Truth(said)
      BY <1>4, <2>7 DEF Q!Holds
    <3> HIDE DEF a, b, says, plain, negated
    <3>4. (plain <=> said) /\ (negated <=> ~said)
      BY <2>1, <2>4, <3>1, <3>2, EqualityMeans
    <3> HIDE DEF said
    <3>5. says \in 0..2 /\ (plain <=> says = Q!True) /\ (negated <=> says = Q!False)
      BY <3>3, <3>4, Truths
    <3> QED
      BY <1>3, <2>5, <3>5 DEF says
  <2> QED
    BY <2>6, <2>7
<1>5. CASE p.kind = "SetMembership"
  <2>1. p.op \in {"In", "NotIn"}
    BY <1>5 DEF Q!IsPredicate, Q!Predicate
  <2>2. h = [field |-> p.field, op |-> Q!SetMembershipEnum(p.op), value |-> p.value] /\ p.value # Q!Null
    BY <1>5 DEF Q!alloc, Q!Null
  <2>3. /\ h.field = p.field /\ h.op = Q!SetMembershipEnum(p.op) /\ h.value = p.value
        /\ g.field = p.field /\ g.op = Q!NegatedOp(h.op) /\ g.value = p.value
    BY <2>2, <1>1
  <2>4. /\ h.op \in {"IN", "NOT_IN"} /\ g.op \in {"IN", "NOT_IN"}
        /\ h.op = "IN" <=> p.op = "In"
        /\ g.op = "IN" <=> p.op # "In"
    BY <2>1, <2>3 DEF Q!SetMembershipEnum, Q!NegatedOp
  <2>5. h.op \notin {"NOT", "AND", "OR"}
    BY <2>4
  <2>6. CASE null
    <3>1. ~plain /\ ~negated
      BY <2>2, <2>3, <2>6, MatchesMeans
    <3>2. says = Q!Unknown
      BY <1>5, <2>6 DEF Q!Holds
    <3> QED
      BY <1>3, <2>5, <3>1, <3>2, Neither
  <2>7. CASE ~null
    <3> DEFINE found == Among(cell[p.field][1], p.value)
               said == found = (p.op = "In")
    <3>1. plain <=> (found <=> h.op = "IN")
      BY <2>2, <2>3, <2>4, <2>7, MatchesMeans
    <3>2. negated <=> (found <=> g.op = "IN")
      BY <2>2, <2>3, <2>4, <2>7, MatchesMeans
    <3>3. says = Q!Truth(said)
      BY <1>5, <2>7 DEF Q!Holds, Among
    <3>4. said <=> (found <=> p.op = "In")
      BY Zenon DEF Among
    <3> HIDE DEF found, said, says, plain, negated
    <3>5. says \in 0..2 /\ (plain <=> says = Q!True) /\ (negated <=> says = Q!False)
      BY <2>4, <3>1, <3>2, <3>3, <3>4, Truths, Zenon
    <3> QED
      BY <1>3, <2>5, <3>5 DEF says
  <2> QED
    BY <2>6, <2>7
<1>6. CASE p.kind = "Nullness"
  <2>1. p.op \in {"IsNull", "NotNull"}
    BY <1>6 DEF Q!IsPredicate, Q!Predicate
  <2>2. h = [field |-> p.field, op |-> Q!NullnessEnum(p.op), value |-> Q!Null]
    BY <1>6 DEF Q!alloc, Q!Null
  <2>3. /\ h.field = p.field /\ h.op = Q!NullnessEnum(p.op) /\ h.value = Q!Null
        /\ g.field = p.field /\ g.op = Q!NegatedOp(h.op) /\ g.value = Q!Null
    BY <2>2, <1>1
  <2>4. /\ h.op \in {"EQ", "NE"}
        /\ h.op = "EQ" <=> p.op = "IsNull"
        /\ g.op = "EQ" <=> p.op # "IsNull"
    BY <2>1, <2>3 DEF Q!NullnessEnum, Q!NegatedOp
  <2>5. h.op \notin {"NOT", "AND", "OR"}
    BY <2>4
  <2> DEFINE said == null = (p.op = "IsNull")
  <2>6. plain <=> (null <=> h.op = "EQ")
    BY <2>3, MatchesMeans
  <2>7. negated <=> (null <=> g.op = "EQ")
    BY <2>3, MatchesMeans
  <2>8. says = Q!Truth(said)
    BY <1>6 DEF Q!Holds
  <2>9. said <=> (null <=> p.op = "IsNull")
    BY Zenon
  <2> HIDE DEF null, said, says, plain, negated
  <2>10. says \in 0..2 /\ (plain <=> says = Q!True) /\ (negated <=> says = Q!False)
    BY <2>4, <2>6, <2>7, <2>8, <2>9, Truths, Zenon
  <2> QED
    BY <1>3, <2>5, <2>10 DEF says
<1> QED
  BY <1>4, <1>5, <1>6 DEF Q!IsPredicate, Q!Predicate

\* What an expression says by a node, and what the library selects by the handle of it, agree
\* if they do by those before it.
LEMMA AllocMeans ==
    ASSUME NEW e, Q!IsExpression(e), NEW i \in 1..Len(e), NEW h \in Q!alloc(e[i]), NEW cell,
           Q!IsCell(cell, Q!Mentions(e)), NEW f, NEW g, \A j \in 1..(i - 1) : Answers(f[j], g[j])
    PROVE  Answers(Q!NodeSays(e[i], cell, f), Q!HandleSelects(h, cell, g))
<1>1. CASE e[i].is = "Cond"
  <2> DEFINE p == e[i]
  <2>1. Q!IsPredicate(p) /\ p.is = "Cond" /\ h \in Q!alloc(p)
    BY <1>1, Nodes
  <2>2. cell[p.field] \in Seq(Int)
    BY <1>1, Nodes DEF Q!IsCell, Q!Mentions
  <2>3. Q!NodeSays(p, cell, f) = Q!Holds(p, cell)
    BY <1>1 DEF Q!NodeSays
  <2> HIDE DEF p
  <2>4. Answers(Q!Holds(p, cell), Q!HandleSelects(h, cell, g))
    BY <2>1, <2>2, PredicateAnswers
  <2> QED
    BY <2>3, <2>4 DEF p
<1>2. CASE e[i].is = "Negate"
  <2> DEFINE k == e[i].arg
  <2>1. h.op = "NOT" /\ h.args[1] = k
    BY <1>2 DEF Q!alloc, Q!Capi
  <2>2. Answers(f[k], g[k])
    BY <1>2, Nodes
  <2>3. Q!NodeSays(e[i], cell, f) = Q!True - f[k]
    BY <1>2 DEF Q!NodeSays
  <2>4. Q!HandleSelects(h, cell, g) = [plain |-> g[k].negated, negated |-> g[k].plain]
    BY <2>1 DEF Q!HandleSelects
  <2> HIDE DEF k
  <2>5. Answers(Q!True - f[k], [plain |-> g[k].negated, negated |-> g[k].plain])
    BY <2>2 DEF Answers, Selection, Q!True, Q!False
  <2> QED
    BY <2>3, <2>4, <2>5
<1>3. CASE e[i].is = "Comb"
  <2> DEFINE k == e[i].lhs  m == e[i].rhs
  <2>1. /\ h.op = IF e[i].op = "And" THEN "AND" ELSE "OR"
        /\ h.args[1] = k /\ h.args[2] = m
    BY <1>3 DEF Q!alloc, Q!Capi
  <2>2. Answers(f[k], g[k]) /\ Answers(f[m], g[m])
    BY <1>3, Nodes
  <2>3. CASE e[i].op = "And"
    <3>1. Q!NodeSays(e[i], cell, f) = IF f[k] <= f[m] THEN f[k] ELSE f[m]
      BY <1>3, <2>2, <2>3 DEF Q!NodeSays, Answers
    <3>2. Q!HandleSelects(h, cell, g)
            = [plain |-> g[k].plain /\ g[m].plain, negated |-> g[k].negated \/ g[m].negated]
      BY <2>1, <2>3 DEF Q!HandleSelects
    <3> HIDE DEF k, m
    <3>3. Answers(IF f[k] <= f[m] THEN f[k] ELSE f[m],
                 [plain |-> g[k].plain /\ g[m].plain, negated |-> g[k].negated \/ g[m].negated])
      BY <2>2 DEF Answers, Selection, Q!True, Q!False
    <3> QED
      BY <3>1, <3>2, <3>3
  <2>4. CASE e[i].op = "Or"
    <3>1. Q!NodeSays(e[i], cell, f) = IF f[k] <= f[m] THEN f[m] ELSE f[k]
      BY <1>3, <2>2, <2>4 DEF Q!NodeSays, Answers
    <3>2. Q!HandleSelects(h, cell, g)
            = [plain |-> g[k].plain \/ g[m].plain, negated |-> g[k].negated /\ g[m].negated]
      BY <2>1, <2>4 DEF Q!HandleSelects
    <3> HIDE DEF k, m
    <3>3. Answers(IF f[k] <= f[m] THEN f[m] ELSE f[k],
                 [plain |-> g[k].plain \/ g[m].plain, negated |-> g[k].negated /\ g[m].negated])
      BY <2>2 DEF Answers, Selection, Q!True, Q!False
    <3> QED
      BY <3>1, <3>2, <3>3
  <2> QED
    BY <1>3, <2>3, <2>4, Nodes
<1> QED
  BY <1>1, <1>2, <1>3, Nodes

\* Nodes and handles go by those before them.
LEMMA SaysByEarlier ==
    ASSUME NEW e, Q!IsExpression(e), NEW i \in 1..Len(e), NEW node, node = e[i], NEW cell, NEW f, NEW g,
           SameBefore(i, f, g)
    PROVE  <<Q!NodeSays(node, cell, f)>> = <<Q!NodeSays(node, cell, g)>>
<1>1. CASE e[i].is = "Cond"
  BY <1>1 DEF Q!NodeSays
<1>2. CASE e[i].is = "Negate"
  <2>1. f[e[i].arg] = g[e[i].arg]
    BY <1>2, Nodes DEF SameBefore
  <2> QED
    BY <1>2, <2>1 DEF Q!NodeSays
<1>3. CASE e[i].is = "Comb"
  <2>1. f[e[i].lhs] = g[e[i].lhs] /\ f[e[i].rhs] = g[e[i].rhs]
    BY <1>3, Nodes DEF SameBefore
  <2> QED
    BY <1>3, <2>1 DEF Q!NodeSays
<1> QED
  BY <1>1, <1>2, <1>3, Nodes

LEMMA SelectsByEarlier ==
    ASSUME NEW e, Q!IsExpression(e), NEW i \in 1..Len(e), NEW h \in Q!alloc(e[i]), NEW cell, NEW f, NEW g,
           SameBefore(i, f, g)
    PROVE  <<Q!HandleSelects(h, cell, f)>> = <<Q!HandleSelects(h, cell, g)>>
<1>1. CASE e[i].is = "Cond"
  <2>1. Q!IsPredicate(e[i])
    BY <1>1, Nodes
  <2> DEFINE p == e[i]
  <2> HIDE DEF p
  <2>2. h.op \notin {"NOT", "AND", "OR"}
    <3>1. CASE p.kind = "Equality"
      <4>1. p.op \in Q!EqualityOps
        BY <2>1, <3>1 DEF p, Q!IsPredicate, Q!Predicate
      <4>2. h = [field |-> p.field, op |-> Q!EqualityEnum(p.op), value |-> p.value]
        BY <1>1, <3>1 DEF p, Q!alloc
      <4> QED
        BY <4>1, <4>2 DEF Q!EqualityOps, Q!EqualityEnum
    <3>2. CASE p.kind = "SetMembership"
      BY <1>1, <3>2 DEF p, Q!alloc, Q!SetMembershipEnum
    <3>3. CASE p.kind = "Nullness"
      BY <1>1, <3>3 DEF p, Q!alloc, Q!NullnessEnum
    <3> QED
      BY <2>1, <3>1, <3>2, <3>3 DEF p, Q!IsPredicate, Q!Predicate
  <2> QED
    BY <2>2 DEF Q!HandleSelects
<1>2. CASE e[i].is = "Negate"
  <2>1. h.op = "NOT" /\ h.args[1] = e[i].arg
    BY <1>2 DEF Q!alloc, Q!Capi
  <2>2. f[e[i].arg] = g[e[i].arg]
    BY <1>2, Nodes DEF SameBefore
  <2> QED
    BY <2>1, <2>2 DEF Q!HandleSelects
<1>3. CASE e[i].is = "Comb"
  <2>1. /\ h.op = IF e[i].op = "And" THEN "AND" ELSE "OR"
        /\ h.args[1] = e[i].lhs /\ h.args[2] = e[i].rhs
    BY <1>3 DEF Q!alloc, Q!Capi
  <2>2. f[e[i].lhs] = g[e[i].lhs] /\ f[e[i].rhs] = g[e[i].rhs]
    BY <1>3, Nodes DEF SameBefore
  <2> QED
    BY <2>1, <2>2 DEF Q!HandleSelects
<1> QED
  BY <1>1, <1>2, <1>3, Nodes

\* What an expression says by each of its nodes, and what the library selects by each handle.
Said(e, cell, says) == says = [i \in 1..Len(e) |-> Q!NodeSays(e[i], cell, says)]

SelectedBy(c, cell, selects) == selects = [i \in DOMAIN c |-> Q!HandleSelects(c[i], cell, selects)]

\* There are such functions.
LEMMA SaidAndSelected ==
    ASSUME NEW e, Q!IsExpression(e), NEW c, DOMAIN c = 1..Len(e), \A i \in 1..Len(e) : c[i] \in Q!alloc(e[i]),
           NEW cell, Q!IsCell(cell, Q!Mentions(e))
    PROVE  (\E f : Said(e, cell, f)) /\ (\E g : SelectedBy(c, cell, g))
<1> DEFINE n == Len(e)
           X == {x \in (0..2) \X Selection : Answers(x[1], x[2])}
           one(F) == [i \in 1..n |-> F[i][1]]
           two(F) == [i \in 1..n |-> F[i][2]]
           Pair(i, F) == <<Q!NodeSays(e[i], cell, one(F)), Q!HandleSelects(c[i], cell, two(F))>>
           step == [i \in 1..n |-> [F \in [1..n -> X] |-> Pair(i, F)]]
<1>1. n \in Nat
  BY Nodes
<1>2. X # {}
  <2>1. Answers(Q!Unknown, [plain |-> FALSE, negated |-> FALSE])
    BY Neither DEF Answers, Selection
  <2>2. <<Q!Unknown, [plain |-> FALSE, negated |-> FALSE]>> \in X
    BY <2>1 DEF Answers
  <2> QED
    BY <2>2
<1>3. ASSUME NEW i \in 1..n, NEW F \in [1..n -> X] PROVE Pair(i, F) \in X
  <2> DEFINE f == one(F)
             g == two(F)
             h == c[i]
  <2>1. \A j \in 1..n : f[j] = F[j][1] /\ g[j] = F[j][2]
    OBVIOUS
  <2>2. \A j \in 1..(i - 1) : Answers(f[j], g[j])
    <3> SUFFICES ASSUME NEW j \in 1..(i - 1) PROVE Answers(f[j], g[j])
      OBVIOUS
    <3>1. j \in 1..n
      BY <1>1
    <3>2. Answers(F[j][1], F[j][2])
      BY <3>1
    <3> QED
      BY <2>1, <3>1, <3>2
  <2> HIDE DEF f, g
  <2>3. h \in Q!alloc(e[i])
    OBVIOUS
  <2> HIDE DEF h
  <2>4. Answers(Q!NodeSays(e[i], cell, f), Q!HandleSelects(h, cell, g))
    BY <2>2, <2>3, AllocMeans
  <2>5. <<Q!NodeSays(e[i], cell, f), Q!HandleSelects(h, cell, g)>> \in X
    BY <2>4 DEF Answers
  <2> QED
    BY <2>5 DEF f, g, h
<1>4. ASSUME NEW i \in 1..n, NEW F \in [1..n -> X], NEW G \in [1..n -> X], SameBefore(i, F, G)
      PROVE  Pair(i, F) = Pair(i, G)
  <2> DEFINE f == one(F)
             g == two(F)
             p == one(G)
             q == two(G)
             h == c[i]
             node == e[i]
  <2>1. SameBefore(i, f, p) /\ SameBefore(i, g, q)
    <3>1. \A j \in 1..(i - 1) : j \in 1..n /\ F[j] = G[j]
      BY <1>1, <1>4 DEF SameBefore
    <3>2. \A j \in 1..(i - 1) : f[j] = p[j] /\ g[j] = q[j]
      BY <3>1
    <3> QED
      BY <3>2, Zenon DEF SameBefore
  <2>2. h \in Q!alloc(e[i])
    OBVIOUS
  <2>3. node = e[i]
    OBVIOUS
  <2> HIDE DEF f, g, p, q, h, node
  <2>4. <<Q!NodeSays(node, cell, f)>> = <<Q!NodeSays(node, cell, p)>>
    BY <2>1, <2>3, SaysByEarlier
  <2>5. <<Q!HandleSelects(h, cell, g)>> = <<Q!HandleSelects(h, cell, q)>>
    BY <2>1, <2>2, SelectsByEarlier
  <2>6. <<Q!NodeSays(node, cell, f), Q!HandleSelects(h, cell, g)>>
          = <<Q!NodeSays(node, cell, p), Q!HandleSelects(h, cell, q)>>
    BY <2>4, <2>5
  <2> QED
    BY <2>6 DEF f, g, p, q, h, node
<1> HIDE DEF Pair
<1>5. \A i \in 1..n : \A F \in [1..n -> X] : step[i][F] = Pair(i, F)
  OBVIOUS
<1> HIDE DEF X
<1>6. Steps(step, n, X)
  <2>1. step \in [1..n -> [[1..n -> X] -> X]]
    BY <1>3
  <2>2. ASSUME NEW i \in 1..n, NEW F \in [1..n -> X], NEW G \in [1..n -> X], SameBefore(i, F, G)
        PROVE  step[i][F] = step[i][G]
    BY <1>4, <1>5, <2>2, Zenon
  <2> QED
    BY <2>1, <2>2, Zenon DEF Steps
<1> HIDE DEF step, n
<1>7. PICK F : Follows(F, step, n, X)
  BY <1>1, <1>2, <1>6, Recursion
<1>8. \A i \in 1..n : F[i] = Pair(i, F)
  BY <1>5, <1>7, Zenon DEF Follows
<1> DEFINE f == one(F)
           g == two(F)
<1>9. \A i \in 1..n : f[i] = Q!NodeSays(e[i], cell, f) /\ g[i] = Q!HandleSelects(c[i], cell, g)
  <2> SUFFICES ASSUME NEW i \in 1..n
               PROVE  f[i] = Q!NodeSays(e[i], cell, f) /\ g[i] = Q!HandleSelects(c[i], cell, g)
    OBVIOUS
  <2>1. F[i] = <<Q!NodeSays(e[i], cell, f), Q!HandleSelects(c[i], cell, g)>>
    BY <1>8 DEF Pair
  <2> QED
    BY <2>1
<1>10. f = [i \in 1..n |-> f[i]] /\ g = [i \in 1..n |-> g[i]]
  OBVIOUS
<1> HIDE DEF f, g
<1>11. f = [i \in 1..n |-> Q!NodeSays(e[i], cell, f)] /\ g = [i \in 1..n |-> Q!HandleSelects(c[i], cell, g)]
  BY <1>9, <1>10, Zenon
<1>12. Said(e, cell, f) /\ SelectedBy(c, cell, g)
  BY <1>11, Zenon DEF Said, SelectedBy, n
<1> QED
  BY <1>12

\* They agree, node by node.
LEMMA SaidIsSelected ==
    ASSUME NEW e, Q!IsExpression(e), NEW c, DOMAIN c = 1..Len(e), \A i \in 1..Len(e) : c[i] \in Q!alloc(e[i]),
           NEW cell, Q!IsCell(cell, Q!Mentions(e)), NEW f, Said(e, cell, f), NEW g, SelectedBy(c, cell, g)
    PROVE  \A i \in 1..Len(e) : Answers(f[i], g[i])
<1> DEFINE n == Len(e)
           S == {i \in 1..n : Answers(f[i], g[i])}
<1>1. n \in Nat
  BY Nodes
<1>2. ASSUME NEW i \in 1..n PROVE f[i] = Q!NodeSays(e[i], cell, f) /\ g[i] = Q!HandleSelects(c[i], cell, g)
  BY Zenon DEF Said, SelectedBy
<1>3. ASSUME NEW i \in 1..n, \A j \in 1..(i - 1) : j \in S PROVE i \in S
  <2>1. \A j \in 1..(i - 1) : Answers(f[j], g[j])
    BY <1>3
  <2> DEFINE h == c[i]
  <2>2. h \in Q!alloc(e[i])
    OBVIOUS
  <2> HIDE DEF h
  <2>3. Answers(Q!NodeSays(e[i], cell, f), Q!HandleSelects(h, cell, g))
    BY <2>1, <2>2, AllocMeans
  <2> QED
    BY <1>2, <2>3, Zenon DEF h
<1> HIDE DEF S
<1>4. \A i \in 1..n : i \in S
  BY <1>1, <1>3, NodeInduction
<1> QED
  BY <1>4 DEF S

\* Only for an empty set there is nothing.
LEMMA AllocFails ==
    ASSUME NEW e, Q!IsExpression(e), NEW i \in 1..Len(e)
    PROVE  Q!alloc(e[i]) = {} <=> e[i] \in Q!Sets(e) /\ e[i].value = <<>>
<1>1. DOMAIN e = 1..Len(e)
  BY Nodes
<1>2. CASE e[i].is = "Cond"
  <2>1. Q!IsPredicate(e[i])
    BY <1>2, Nodes
  <2>2. e[i].kind \in {"Equality", "SetMembership", "Nullness"}
    BY <2>1 DEF Q!IsPredicate, Q!Predicate
  <2>3. e[i] \in Q!Sets(e) <=> e[i].kind = "SetMembership"
    BY <1>1, <1>2 DEF Q!Sets
  <2>4. Q!alloc(e[i]) = {} <=> e[i].kind = "SetMembership" /\ e[i].value = <<>>
    BY <1>2, <2>2 DEF Q!alloc
  <2> QED
    BY <2>3, <2>4
<1>3. CASE e[i].is # "Cond"
  <2>1. e[i] \notin Q!Sets(e)
    BY <1>3 DEF Q!Sets
  <2>2. e[i].is \in {"Negate", "Comb"}
    BY <1>3, Nodes
  <2>3. Q!alloc(e[i]) # {}
    BY <2>2 DEF Q!alloc
  <2> QED
    BY <2>1, <2>3
<1> QED
  BY <1>2, <1>3

\* The library selects the cells that an expression says, nulls and negations and all, and
\* refuses empty sets.
LEMMA ExpressionsMean ==
    ASSUME NEW e, Q!IsExpression(e), NEW cells, \A cell \in cells : Q!IsCell(cell, Q!Mentions(e))
    PROVE  Q!ConditionMeans(e, cells)
<1> DEFINE n == Len(e)
<1>1. DOMAIN e = 1..n /\ n \in Nat /\ n \in 1..n
  BY Nodes
<1>2. Q!build(e) = {} <=> \E i \in 1..n : Q!alloc(e[i]) = {}
  BY <1>1 DEF Q!build
<1>3. (\E i \in 1..n : Q!alloc(e[i]) = {}) <=> \E s \in Q!Sets(e) : s.value = <<>>
  <2>1. \A i \in 1..n : Q!alloc(e[i]) = {} <=> e[i] \in Q!Sets(e) /\ e[i].value = <<>>
    BY AllocFails
  <2>2. \A s \in Q!Sets(e) : \E i \in 1..n : s = e[i]
    BY <1>1 DEF Q!Sets
  <2> QED
    BY <2>1, <2>2, Zenon
<1>4. ASSUME NEW c \in Q!build(e), NEW cell \in cells PROVE Q!Selects(c, cell) = Q!Says(e, cell)
  <2>1. c = [i \in 1..n |-> CHOOSE h \in Q!alloc(e[i]) : TRUE] /\ \A i \in 1..n : Q!alloc(e[i]) # {}
    BY <1>1, Zenon DEF Q!build
  <2>2. \A i \in 1..n : c[i] = CHOOSE h \in Q!alloc(e[i]) : TRUE
    BY <2>1, Zenon
  <2>3. \A i \in 1..n : c[i] \in Q!alloc(e[i])
    BY <2>1, <2>2, Zenon
  <2>4. DOMAIN c = 1..n /\ Len(c) = n
    <3> DEFINE C(i) == CHOOSE h \in Q!alloc(e[i]) : TRUE
    <3> HIDE DEF C
    <3>1. c = [i \in 1..n |-> C(i)]
      BY <2>1 DEF C
    <3> QED
      BY <1>1, <3>1
  <2> DEFINE f == CHOOSE f : Said(e, cell, f)
             g == CHOOSE g : SelectedBy(c, cell, g)
  <2>5. Said(e, cell, f) /\ SelectedBy(c, cell, g)
    <3>1. (\E q : Said(e, cell, q)) /\ \E q : SelectedBy(c, cell, q)
      BY <2>3, <2>4, SaidAndSelected
    <3> QED
      BY <3>1, Zenon
  <2>6. Q!Says(e, cell) = (f[n] = Q!True)
    BY <1>1, Zenon DEF Q!Says, Said
  <2>7. Q!Selects(c, cell) = g[Len(c)].plain
    BY Zenon DEF Q!Selects, SelectedBy
  <2> HIDE DEF f, g
  <2>8. Answers(f[n], g[n])
    BY <1>1, <2>3, <2>4, <2>5, SaidIsSelected
  <2>9. g[n].plain \in BOOLEAN /\ (g[n].plain <=> f[n] = Q!True)
    BY <2>8 DEF Answers, Selection
  <2> QED
    BY <2>4, <2>6, <2>7, <2>9, Zenon
<1> QED
  BY <1>2, <1>3, <1>4, Zenon DEF Q!ConditionMeans

\* The nodes that an expression and what is left of it may have.
NodesLike(e) ==
    {e[i] : i \in {j \in DOMAIN e : e[j].is = "Cond"}}
    \cup [is : {"Negate"}, arg : Nat]
    \cup [is : {"Comb"}, lhs : Nat, rhs : Nat, op : {"And", "Or"}]

Exprs(e) == Seq(NodesLike(e))

\* What one of them is.
LEMMA NodesAre ==
    ASSUME NEW e, NEW p \in NodesLike(e)
    PROVE  \/ p.is = "Cond"
           \/ p.is = "Negate" /\ p.arg \in Nat
           \/ p.is = "Comb" /\ p.lhs \in Nat /\ p.rhs \in Nat /\ p.op \in {"And", "Or"}
  BY DEF NodesLike

\* Behind others it mentions the same.
LEMMA BehindOthers ==
    ASSUME NEW e, NEW s \in Exprs(e), NEW n \in Nat
    PROVE  Q!Behind(n, s) \in Exprs(e) /\ Q!Mentions(Q!Behind(n, s)) = Q!Mentions(s)
<1> DEFINE N == NodesLike(e)
           b == Q!Behind(n, s)
           Moved(p) == CASE p.is = "Cond"   -> p
                         [] p.is = "Negate" -> Q!Negation(n + p.arg)
                         [] p.is = "Comb"   -> Q!Combination(n + p.lhs, n + p.rhs, p.op)
<1>1. ASSUME NEW p \in N PROVE Moved(p) \in N /\ Moved(p).is = p.is /\ (p.is = "Cond" => Moved(p) = p)
  <2>1. CASE p.is = "Cond"
    BY <2>1
  <2>2. CASE p.is = "Negate" /\ p.arg \in Nat
    <3>1. Moved(p) = Q!Negation(n + p.arg)
      BY <2>2
    <3>2. Q!Negation(n + p.arg) \in [is : {"Negate"}, arg : Nat]
      BY <2>2 DEF Q!Negation
    <3> QED
      BY <2>2, <3>1, <3>2 DEF NodesLike
  <2>3. CASE p.is = "Comb" /\ p.lhs \in Nat /\ p.rhs \in Nat /\ p.op \in {"And", "Or"}
    <3>1. Moved(p) = Q!Combination(n + p.lhs, n + p.rhs, p.op)
      BY <2>3
    <3>2. Q!Combination(n + p.lhs, n + p.rhs, p.op) \in [is : {"Comb"}, lhs : Nat, rhs : Nat, op : {"And", "Or"}]
      BY <2>3 DEF Q!Combination
    <3> QED
      BY <2>3, <3>1, <3>2 DEF NodesLike
  <2> QED
    BY <2>1, <2>2, <2>3, NodesAre
<1>2. Len(s) \in Nat /\ DOMAIN s = 1..Len(s) /\ \A i \in 1..Len(s) : s[i] \in N
  BY DEF Exprs
<1>3. b = [i \in 1..Len(s) |-> Moved(s[i])]
  BY <1>2, Zenon DEF Q!Behind
<1> HIDE DEF Moved, b, N
<1>4. b \in Seq(N) /\ Len(b) = Len(s) /\ DOMAIN b = 1..Len(s)
  BY <1>1, <1>2, <1>3
<1>5. \A i \in 1..Len(s) : b[i].is = s[i].is /\ (s[i].is = "Cond" => b[i] = s[i])
  BY <1>1, <1>2, <1>3
<1>6. Q!Mentions(b) = Q!Mentions(s)
  BY <1>2, <1>4, <1>5 DEF Q!Mentions
<1> QED
  BY <1>4, <1>6 DEF b, N, Exprs

\* One expression behind the other, and a node.
LEMMA MentionsOfBoth ==
    ASSUME NEW e, NEW s \in Exprs(e), NEW t \in Exprs(e)
    PROVE  s \o t \in Exprs(e) /\ Q!Mentions(s \o t) = Q!Mentions(s) \cup Q!Mentions(t)
<1> DEFINE N == NodesLike(e)  u == s \o t  m == Len(s)  n == Len(t)
<1> HIDE DEF N
<1>1. s \in Seq(N) /\ t \in Seq(N)
  BY DEF Exprs, N
<1>2. m \in Nat /\ n \in Nat /\ DOMAIN s = 1..m /\ DOMAIN t = 1..n
  BY <1>1
<1>3. u \in Seq(N) /\ DOMAIN u = 1..(m + n)
  BY <1>1, <1>2
<1>4. \A i \in 1..m : u[i] = s[i]
  BY <1>1, <1>2
<1>5. \A i \in 1..n : u[m + i] = t[i] /\ m + i \in 1..(m + n)
  BY <1>1, <1>2
<1>6. \A i \in 1..(m + n) : i \in 1..m \/ (i - m \in 1..n /\ m + (i - m) = i)
  BY <1>2
<1> HIDE DEF u, m, n
<1>7. Q!Mentions(u) \subseteq Q!Mentions(s) \cup Q!Mentions(t)
  <2> SUFFICES ASSUME NEW i \in 1..(m + n), u[i].is = "Cond" PROVE u[i].field \in Q!Mentions(s) \cup Q!Mentions(t)
    BY <1>3 DEF Q!Mentions
  <2>1. CASE i \in 1..m
    BY <1>2, <1>4, <2>1 DEF Q!Mentions
  <2>2. CASE i - m \in 1..n /\ m + (i - m) = i
    <3>1. u[i] = t[i - m]
      BY <1>5, <2>2
    <3> QED
      BY <1>2, <2>2, <3>1 DEF Q!Mentions
  <2> QED
    BY <1>6, <2>1, <2>2
<1>8. Q!Mentions(s) \subseteq Q!Mentions(u)
  <2>1. 1..m \subseteq 1..(m + n)
    BY <1>2
  <2> QED
    BY <1>2, <1>3, <1>4, <2>1 DEF Q!Mentions
<1>9. Q!Mentions(t) \subseteq Q!Mentions(u)
  BY <1>2, <1>3, <1>5 DEF Q!Mentions
<1> QED
  BY <1>3, <1>7, <1>8, <1>9 DEF u, N, Exprs

LEMMA MentionsOfOne ==
    ASSUME NEW e, NEW p \in NodesLike(e)
    PROVE  <<p>> \in Exprs(e) /\ Q!Mentions(<<p>>) = IF p.is = "Cond" THEN {p.field} ELSE {}
<1>1. <<p>> \in Exprs(e)
  BY DEF Exprs
<1>2. DOMAIN <<p>> = {1} /\ <<p>>[1] = p
  OBVIOUS
<1> QED
  BY <1>1, <1>2 DEF Q!Mentions

\* A negation mentions what its argument does.
LEMMA MentionsOfNegation ==
    ASSUME NEW e, NEW s \in Exprs(e)
    PROVE  Q!Negate(s) \in Exprs(e) /\ Q!Mentions(Q!Negate(s)) = Q!Mentions(s)
<1> DEFINE p == Q!Negation(Len(s))
<1>1. p \in NodesLike(e) /\ p.is # "Cond"
  BY DEF NodesLike, Q!Negation, Exprs
<1>2. Q!Negate(s) = s \o <<p>>
  BY DEF Q!Negate, Exprs
<1> DEFINE t == <<p>>
<1> HIDE DEF p
<1>3. t \in Exprs(e) /\ Q!Mentions(t) = {}
  BY <1>1, MentionsOfOne
<1> HIDE DEF t
<1>4. s \o t \in Exprs(e) /\ Q!Mentions(s \o t) = Q!Mentions(s) \cup Q!Mentions(t)
  BY <1>3, MentionsOfBoth
<1> QED
  BY <1>2, <1>3, <1>4 DEF t

\* A combination mentions what either side does.
LEMMA MentionsOfCombination ==
    ASSUME NEW e, NEW s \in Exprs(e), NEW t \in Exprs(e), NEW op, op \in {"And", "Or"}
    PROVE  Q!Comb(s, t, op) \in Exprs(e) /\ Q!Mentions(Q!Comb(s, t, op)) = Q!Mentions(s) \cup Q!Mentions(t)
<1> DEFINE p == Q!Combination(Len(s), Len(s) + Len(t), op)  r == Q!Behind(Len(s), t)
<1>1. Len(s) \in Nat /\ Len(t) \in Nat
  BY DEF Exprs
<1>2. p \in NodesLike(e) /\ p.is # "Cond"
  BY <1>1 DEF NodesLike, Q!Combination
<1>3. r \in Exprs(e) /\ Q!Mentions(r) = Q!Mentions(t)
  BY <1>1, BehindOthers
<1>4. Q!Comb(s, t, op) = (s \o r) \o <<p>>
  BY <1>1 DEF Q!Comb, Exprs
<1> DEFINE u == <<p>>  v == s \o r
<1> HIDE DEF p, r
<1>5. u \in Exprs(e) /\ Q!Mentions(u) = {}
  BY <1>2, MentionsOfOne
<1>6. v \in Exprs(e) /\ Q!Mentions(v) = Q!Mentions(s) \cup Q!Mentions(t)
  BY <1>3, MentionsOfBoth
<1> HIDE DEF u, v
<1>7. v \o u \in Exprs(e) /\ Q!Mentions(v \o u) = Q!Mentions(v) \cup Q!Mentions(u)
  BY <1>5, <1>6, MentionsOfBoth
<1> QED
  BY <1>4, <1>5, <1>6, <1>7 DEF u, v

\* The functions of the nodes before i are expressions.
ExprsBefore(e, i, f) == \A j \in 1..(i - 1) : f[j] \in Exprs(e)

\* The expression of a node, and what it mentions.
LEMMA WholeOfNode ==
    ASSUME NEW e, Q!IsExpression(e), NEW i \in 1..Len(e), NEW f, ExprsBefore(e, i, f)
    PROVE  /\ Q!Whole(e[i], f) \in Exprs(e)
           /\ e[i].is = "Cond" => Q!Mentions(Q!Whole(e[i], f)) = {e[i].field}
           /\ e[i].is = "Negate" => Q!Mentions(Q!Whole(e[i], f)) = Q!Mentions(f[e[i].arg])
           /\ e[i].is = "Comb" => Q!Mentions(Q!Whole(e[i], f)) = Q!Mentions(f[e[i].lhs]) \cup Q!Mentions(f[e[i].rhs])
<1> DEFINE p == e[i]
<1>1. CASE p.is = "Cond"
  <2>1. p \in NodesLike(e)
    BY <1>1, Nodes DEF NodesLike
  <2>2. Q!Whole(p, f) = <<p>>
    BY <1>1 DEF Q!Whole
  <2> HIDE DEF p
  <2>3. <<p>> \in Exprs(e) /\ Q!Mentions(<<p>>) = {p.field}
    BY <1>1, <2>1, MentionsOfOne
  <2> QED
    BY <1>1, <2>2, <2>3 DEF p
<1>2. CASE p.is = "Negate"
  <2> DEFINE s == f[p.arg]
  <2>1. s \in Exprs(e)
    BY <1>2, Nodes DEF ExprsBefore
  <2>2. Q!Whole(p, f) = Q!Negate(s)
    BY <1>2 DEF Q!Whole
  <2> HIDE DEF p, s
  <2>3. Q!Negate(s) \in Exprs(e) /\ Q!Mentions(Q!Negate(s)) = Q!Mentions(s)
    BY <2>1, MentionsOfNegation
  <2> QED
    BY <1>2, <2>2, <2>3 DEF p, s
<1>3. CASE p.is = "Comb"
  <2> DEFINE s == f[p.lhs]  t == f[p.rhs]  op == p.op
  <2>1. s \in Exprs(e) /\ t \in Exprs(e) /\ op \in {"And", "Or"}
    BY <1>3, Nodes DEF ExprsBefore
  <2>2. Q!Whole(p, f) = Q!Comb(s, t, op)
    BY <1>3 DEF Q!Whole
  <2> HIDE DEF p, s, t, op
  <2>3. Q!Comb(s, t, op) \in Exprs(e) /\ Q!Mentions(Q!Comb(s, t, op)) = Q!Mentions(s) \cup Q!Mentions(t)
    BY <2>1, MentionsOfCombination
  <2> QED
    BY <1>3, <2>2, <2>3 DEF p, s, t
<1> QED
  BY <1>1, <1>2, <1>3, Nodes

\* It goes by those before it.
LEMMA WholeByEarlier ==
    ASSUME NEW e, Q!IsExpression(e), NEW i \in 1..Len(e), NEW f, NEW g, SameBefore(i, f, g)
    PROVE  <<Q!Whole(e[i], f)>> = <<Q!Whole(e[i], g)>>
<1>1. CASE e[i].is = "Cond"
  BY <1>1 DEF Q!Whole
<1>2. CASE e[i].is = "Negate"
  <2>1. f[e[i].arg] = g[e[i].arg]
    BY <1>2, Nodes DEF SameBefore
  <2> QED
    BY <1>2, <2>1 DEF Q!Whole
<1>3. CASE e[i].is = "Comb"
  <2>1. f[e[i].lhs] = g[e[i].lhs] /\ f[e[i].rhs] = g[e[i].rhs]
    BY <1>3, Nodes DEF SameBefore
  <2> QED
    BY <1>3, <2>1 DEF Q!Whole
<1> QED
  BY <1>1, <1>2, <1>3, Nodes

\* The expressions of the nodes; the last one is the whole.
LEMMA PartsOfNodes ==
    ASSUME NEW e, Q!IsExpression(e)
    PROVE  \E s : /\ \A i : Q!Part(e, i) = s[i]
                  /\ \A i \in 1..Len(e) : s[i] = Q!Whole(e[i], s) /\ s[i] \in Exprs(e)
<1> DEFINE n == Len(e)
           X == Exprs(e)
           step == [i \in 1..n |-> [f \in [1..n -> X] |-> Q!Whole(e[i], f)]]
           Is(f) == f = [i \in DOMAIN e |-> Q!Whole(e[i], f)]
           s == CHOOSE f : Is(f)
<1>1. n \in Nat /\ DOMAIN e = 1..n
  BY Nodes
<1>2. ASSUME NEW i \in 1..n, NEW f, ExprsBefore(e, i, f) PROVE Q!Whole(e[i], f) \in X
  BY <1>2, WholeOfNode
<1>3. ASSUME NEW i \in 1..n, NEW f, NEW g, SameBefore(i, f, g)
      PROVE  Q!Whole(e[i], f) = Q!Whole(e[i], g)
  <2>1. <<Q!Whole(e[i], f)>> = <<Q!Whole(e[i], g)>>
    BY <1>3, WholeByEarlier
  <2> QED
    BY <2>1
<1>4. X # {}
  <2>1. <<>> \in X
    BY DEF Exprs
  <2> QED
    BY <2>1
<1> HIDE DEF n, X
<1>5. \A i \in 1..n : \A f \in [1..n -> X] : step[i][f] = Q!Whole(e[i], f)
  OBVIOUS
<1>6. Steps(step, n, X)
  <2>1. ASSUME NEW i \in 1..n, NEW f \in [1..n -> X] PROVE Q!Whole(e[i], f) \in X
    <3>1. ExprsBefore(e, i, f)
      BY <1>1 DEF ExprsBefore, X
    <3> QED
      BY <1>2, <3>1
  <2>2. step \in [1..n -> [[1..n -> X] -> X]]
    BY <2>1
  <2>3. ASSUME NEW i \in 1..n, NEW f \in [1..n -> X], NEW g \in [1..n -> X], SameBefore(i, f, g)
        PROVE  step[i][f] = step[i][g]
    <3>1. Q!Whole(e[i], f) = Q!Whole(e[i], g)
      BY <1>3, <2>3, Zenon
    <3> QED
      BY <1>5, <3>1, Zenon
  <2> QED
    BY <2>2, <2>3, Zenon DEF Steps
<1> HIDE DEF step
<1>7. PICK f : Follows(f, step, n, X)
  BY <1>1, <1>4, <1>6, Recursion
<1>8. Is(f)
  BY <1>1, <1>5, <1>7 DEF Follows
<1>9. Is(s)
  BY <1>8, Zenon
<1>10. \A i : Q!Part(e, i) = s[i]
  BY Zenon DEF Q!Part
<1> HIDE DEF s
<1>11. \A i \in 1..n : s[i] = Q!Whole(e[i], s)
  BY <1>1, <1>9, Zenon
<1>12. \A i \in 1..n : s[i] \in X
  <2> DEFINE S == {i \in 1..n : s[i] \in X}
  <2>1. ASSUME NEW i \in 1..n, \A j \in 1..(i - 1) : j \in S PROVE i \in S
    <3>1. ExprsBefore(e, i, s)
      BY <2>1 DEF ExprsBefore, X
    <3>2. Q!Whole(e[i], s) \in X
      BY <1>2, <3>1
    <3> QED
      BY <1>11, <3>2
  <2> HIDE DEF S
  <2>2. \A i \in 1..n : i \in S
    BY <1>1, <2>1, NodeInduction
  <2> QED
    BY <2>2 DEF S
<1> QED
  BY <1>10, <1>11, <1>12 DEF n, X

\* What each node of an expression stands for, and what is left of it.
AreParts(e, w) == \A i \in 1..Len(e) : w[i] = Q!Whole(e[i], w) /\ w[i] \in Exprs(e)

AreLeft(e, t, s) == \A i \in 1..Len(e) : s[i] = Q!CurrentNode(e[i], t[i], s) /\ s[i] \in Exprs(e)

NewUpto(t, m) == \A i \in 1..m : t[i] = "New"

\* What is left of an expression, node by node.
LEMMA CurrentOfNodes ==
    ASSUME NEW e, Q!IsExpression(e), NEW t
    PROVE  \E s : /\ Q!current(e, t) = s[Len(e)]
                  /\ \A i \in 1..Len(e) : s[i] = Q!CurrentNode(e[i], t[i], s) /\ s[i] \in Exprs(e)
<1> DEFINE n == Len(e)
           X == Exprs(e)
           step == [i \in 1..n |-> [f \in [1..n -> X] |-> Q!CurrentNode(e[i], t[i], f)]]
           Is(f) == f = [i \in DOMAIN e |-> Q!CurrentNode(e[i], t[i], f)]
           s == CHOOSE f : Is(f)
<1>1. n \in Nat /\ DOMAIN e = 1..n
  BY Nodes
<1>2. ASSUME NEW i \in 1..n, NEW f, ExprsBefore(e, i, f) PROVE Q!CurrentNode(e[i], t[i], f) \in X
  <2>1. Q!Whole(e[i], f) \in X
    BY <1>2, WholeOfNode
  <2>2. \A j \in 1..(i - 1) : f[j] \in X
    BY <1>2 DEF ExprsBefore
  <2>3. \/ Q!CurrentNode(e[i], t[i], f) = Q!Whole(e[i], f)
        \/ \E j \in 1..(i - 1) : Q!CurrentNode(e[i], t[i], f) = f[j]
    BY Nodes DEF Q!CurrentNode
  <2> HIDE DEF X
  <2> QED
    BY <2>1, <2>2, <2>3, Zenon
<1>3. ASSUME NEW i \in 1..n, NEW f, NEW g, SameBefore(i, f, g)
      PROVE  Q!CurrentNode(e[i], t[i], f) = Q!CurrentNode(e[i], t[i], g)
  <2>1. <<Q!Whole(e[i], f)>> = <<Q!Whole(e[i], g)>>
    BY <1>3, WholeByEarlier
  <2>2. \A j \in 1..(i - 1) : f[j] = g[j]
    BY <1>3 DEF SameBefore
  <2>3. Q!Whole(e[i], f) = Q!Whole(e[i], g)
    BY <2>1
  <2>4. /\ Q!CurrentNode(e[i], t[i], f) = Q!Whole(e[i], f) /\ Q!CurrentNode(e[i], t[i], g) = Q!Whole(e[i], g)
        \/ \E j \in 1..(i - 1) : Q!CurrentNode(e[i], t[i], f) = f[j] /\ Q!CurrentNode(e[i], t[i], g) = g[j]
    BY Nodes DEF Q!CurrentNode
  <2> QED
    BY <2>2, <2>3, <2>4
<1>4. X # {}
  <2>1. <<>> \in X
    BY DEF Exprs
  <2> QED
    BY <2>1
<1> HIDE DEF n, X
<1>5. \A i \in 1..n : \A f \in [1..n -> X] : step[i][f] = Q!CurrentNode(e[i], t[i], f)
  OBVIOUS
<1>6. Steps(step, n, X)
  <2>1. ASSUME NEW i \in 1..n, NEW f \in [1..n -> X] PROVE Q!CurrentNode(e[i], t[i], f) \in X
    <3>1. ExprsBefore(e, i, f)
      BY <1>1 DEF ExprsBefore, X
    <3> QED
      BY <1>2, <3>1
  <2>2. step \in [1..n -> [[1..n -> X] -> X]]
    BY <2>1
  <2>3. ASSUME NEW i \in 1..n, NEW f \in [1..n -> X], NEW g \in [1..n -> X], SameBefore(i, f, g)
        PROVE  step[i][f] = step[i][g]
    <3>1. Q!CurrentNode(e[i], t[i], f) = Q!CurrentNode(e[i], t[i], g)
      BY <1>3, <2>3, Zenon
    <3> QED
      BY <1>5, <3>1, Zenon
  <2> QED
    BY <2>2, <2>3, Zenon DEF Steps
<1> HIDE DEF step
<1>7. PICK f : Follows(f, step, n, X)
  BY <1>1, <1>4, <1>6, Recursion
<1>8. Is(f)
  BY <1>1, <1>5, <1>7 DEF Follows
<1>9. Is(s)
  BY <1>8, Zenon
<1>10. Q!current(e, t) = s[n]
  BY Zenon DEF Q!current, n
<1> HIDE DEF s
<1>11. \A i \in 1..n : s[i] = Q!CurrentNode(e[i], t[i], s)
  BY <1>1, <1>9, Zenon
<1>12. \A i \in 1..n : s[i] \in X
  <2> DEFINE S == {i \in 1..n : s[i] \in X}
  <2>1. ASSUME NEW i \in 1..n, \A j \in 1..(i - 1) : j \in S PROVE i \in S
    <3>1. ExprsBefore(e, i, s)
      BY <2>1 DEF ExprsBefore, X
    <3>2. Q!CurrentNode(e[i], t[i], s) \in X
      BY <1>2, <3>1
    <3> QED
      BY <1>11, <3>2
  <2> HIDE DEF S
  <2>2. \A i \in 1..n : i \in S
    BY <1>1, <2>1, NodeInduction
  <2> QED
    BY <2>2 DEF S
<1> QED
  BY <1>10, <1>11, <1>12 DEF n, X

\* What is left of an expression mentions no more; and all of a node is left if no part of it
\* was tried alone.
LEMMA LeftMentions ==
    ASSUME NEW e, Q!IsExpression(e), NEW t,
           NEW s, AreLeft(e, t, s), NEW w, AreParts(e, w)
    PROVE  \A i \in 1..Len(e) : Q!Mentions(s[i]) \subseteq Q!Mentions(w[i])
<1> DEFINE n == Len(e)  S == {i \in 1..n : Q!Mentions(s[i]) \subseteq Q!Mentions(w[i])}
<1>0. /\ \A i \in 1..n : s[i] = Q!CurrentNode(e[i], t[i], s) /\ s[i] \in Exprs(e)
      /\ \A i \in 1..n : w[i] = Q!Whole(e[i], w) /\ w[i] \in Exprs(e)
  BY DEF AreLeft, AreParts
<1>1. n \in Nat
  BY Nodes
<1>2. ASSUME NEW i \in 1..n, \A j \in 1..(i - 1) : j \in S PROVE i \in S
  <2>1. \A j \in 1..(i - 1) : Q!Mentions(s[j]) \subseteq Q!Mentions(w[j])
    BY <1>2
  <2>2. ExprsBefore(e, i, s) /\ ExprsBefore(e, i, w)
    BY <1>0 DEF ExprsBefore
  <2>3. /\ e[i].is = "Cond" => Q!Mentions(w[i]) = {e[i].field}
        /\ e[i].is = "Negate" => Q!Mentions(w[i]) = Q!Mentions(w[e[i].arg])
        /\ e[i].is = "Comb" => Q!Mentions(w[i]) = Q!Mentions(w[e[i].lhs]) \cup Q!Mentions(w[e[i].rhs])
    <3>1. w[i] = Q!Whole(e[i], w)
      BY <1>0
    <3> DEFINE v == Q!Whole(e[i], w)
    <3>2. /\ e[i].is = "Cond" => Q!Mentions(v) = {e[i].field}
          /\ e[i].is = "Negate" => Q!Mentions(v) = Q!Mentions(w[e[i].arg])
          /\ e[i].is = "Comb" => Q!Mentions(v) = Q!Mentions(w[e[i].lhs]) \cup Q!Mentions(w[e[i].rhs])
      BY <2>2, WholeOfNode
    <3> HIDE DEF v
    <3>3. w[i] = v
      BY <3>1 DEF v
    <3> QED
      BY <3>2, <3>3
  <2>4. CASE s[i] = Q!Whole(e[i], s)
    <3> DEFINE v == Q!Whole(e[i], s)
    <3>1. /\ e[i].is = "Cond" => Q!Mentions(v) = {e[i].field}
          /\ e[i].is = "Negate" => Q!Mentions(v) = Q!Mentions(s[e[i].arg])
          /\ e[i].is = "Comb" => Q!Mentions(v) = Q!Mentions(s[e[i].lhs]) \cup Q!Mentions(s[e[i].rhs])
      BY <2>2, WholeOfNode
    <3> HIDE DEF v
    <3>2. s[i] = v
      BY <2>4 DEF v
    <3> QED
      BY <2>1, <2>3, <3>1, <3>2, Nodes
  <2>5. CASE e[i].is = "Comb" /\ e[i].lhs \in 1..(i - 1) /\ s[i] = s[e[i].lhs]
    BY <2>1, <2>3, <2>5
  <2>6. CASE e[i].is = "Comb" /\ e[i].rhs \in 1..(i - 1) /\ s[i] = s[e[i].rhs]
    BY <2>1, <2>3, <2>6
  <2> QED
    <3>1. s[i] = Q!CurrentNode(e[i], t[i], s)
      BY <1>0
    <3> QED
      BY <2>4, <2>5, <2>6, <3>1, Nodes DEF Q!CurrentNode
<1> HIDE DEF S
<1>3. \A i \in 1..n : i \in S
  BY <1>1, <1>2, NodeInduction
<1> QED
  BY <1>3 DEF S

LEMMA AllIsLeft ==
    ASSUME NEW e, Q!IsExpression(e), NEW t, NEW m \in 0..Len(e), NewUpto(t, m),
           NEW s, AreLeft(e, t, s), NEW w, AreParts(e, w)
    PROVE  \A i \in 1..m : s[i] = w[i]
<1> DEFINE S == {i \in 1..m : s[i] = w[i]}
<1> USE DEF AreLeft, AreParts, NewUpto
<1>1. m \in Nat /\ 1..m \subseteq 1..Len(e)
  BY Nodes
<1>2. ASSUME NEW i \in 1..m, \A j \in 1..(i - 1) : j \in S PROVE i \in S
  <2>1. i \in 1..Len(e) /\ SameBefore(i, s, w)
    BY <1>1, <1>2 DEF SameBefore
  <2>2. s[i] = Q!Whole(e[i], s)
    <3>1. s[i] = Q!CurrentNode(e[i], "New", s)
      BY <2>1
    <3> QED
      BY <2>1, <3>1, Nodes DEF Q!CurrentNode
  <2>3. <<Q!Whole(e[i], s)>> = <<Q!Whole(e[i], w)>>
    BY <2>1, WholeByEarlier
  <2>4. w[i] = Q!Whole(e[i], w)
    BY <2>1
  <2> QED
    BY <2>2, <2>3, <2>4
<1> HIDE DEF S
<1>3. \A i \in 1..m : i \in S
  BY <1>1, <1>2, NodeInduction
<1> QED
  BY <1>3 DEF S

\* The opstates of a tree, and what a step makes of them: it leaves alone those behind m.
Trees(e) == [DOMAIN e -> Q!OpStates]

StepResults(e) == [opstates : Trees(e), ok : BOOLEAN]

SameBehind(e, m, t, u) == \A k \in DOMAIN e : k > m => u[k] = t[k]

Stepped(e, m, t, r) == r \in StepResults(e) /\ SameBehind(e, m, t, r.opstates)

StepsUpto(e, m, g) == g \in [Trees(e) -> StepResults(e)] /\ \A t \in Trees(e) : Stepped(e, m, t, g[t])

LEMMA OpStateChanges ==
    ASSUME NEW e, NEW t \in Trees(e), NEW i \in DOMAIN e, NEW m, i \in Int /\ m \in Int /\ i <= m,
           NEW state, state \in Q!OpStates, DOMAIN e \subseteq Int
    PROVE  /\ Q!To(t, i, state) \in Trees(e) /\ Q!To(t, i, state)[i] = state
           /\ SameBehind(e, m, t, Q!To(t, i, state))
<1>1. Q!To(t, i, state) \in Trees(e) /\ Q!To(t, i, state)[i] = state
  BY DEF Q!To, Trees
<1>2. SameBehind(e, m, t, Q!To(t, i, state))
  BY DEF Q!To, Trees, SameBehind
<1> QED
  BY <1>1, <1>2

LEMMA StepsFollow ==
    ASSUME NEW e, NEW m, NEW t \in Trees(e), NEW u \in Trees(e), SameBehind(e, m, t, u),
           NEW r, Stepped(e, m, u, r)
    PROVE  Stepped(e, m, t, r)
  BY DEF Stepped, SameBehind

LEMMA StepsEither ==
    ASSUME NEW e, NEW m, NEW left, StepsUpto(e, m, left), NEW right, StepsUpto(e, m, right), NEW t \in Trees(e)
    PROVE  Stepped(e, m, t, Q!LeftOrRight(left, right, t))
<1> DEFINE l == left[t]  u == l.opstates
<1>1. Stepped(e, m, t, l) /\ u \in Trees(e) /\ SameBehind(e, m, t, u)
  BY DEF StepsUpto, Stepped, StepResults
<1>2. Stepped(e, m, u, right[u])
  BY <1>1 DEF StepsUpto
<1>3. Q!LeftOrRight(left, right, t) = IF l.ok THEN l ELSE right[u]
  BY DEF Q!LeftOrRight
<1> HIDE DEF l, u
<1>4. Stepped(e, m, t, right[u])
  BY <1>1, <1>2, StepsFollow
<1> QED
  BY <1>1, <1>3, <1>4, Zenon

\* A step of a node leaves alone what its arguments do behind it.
LEMMA SimplifySteps ==
    ASSUME NEW e, Q!IsExpression(e), NEW i \in 1..Len(e), NEW m \in Nat, i <= m,
           NEW f, \A j \in 1..(i - 1) : StepsUpto(e, m, f[j]), NEW t \in Trees(e)
    PROVE  Stepped(e, m, t, Q!SimplifyNode(e[i], i, f, t))
<1>1. DOMAIN e = 1..Len(e) /\ DOMAIN e \subseteq Int /\ i \in DOMAIN e /\ i \in Int /\ m \in Int
  BY Nodes
<1>2. Stepped(e, m, t, Q!Result(t, FALSE))
  BY DEF Stepped, SameBehind, Q!Result, StepResults
<1>3. CASE e[i].is = "Cond"
  <2>1. Q!SimplifyNode(e[i], i, f, t) = Q!Result(t, FALSE)
    BY <1>3 DEF Q!SimplifyNode
  <2> QED
    BY <1>2, <2>1
<1>4. CASE e[i].is = "Negate"
  <2>1. Q!SimplifyNode(e[i], i, f, t) = f[e[i].arg][t] /\ e[i].arg \in 1..(i - 1)
    BY <1>4, Nodes DEF Q!SimplifyNode
  <2> QED
    BY <2>1 DEF StepsUpto
<1>5. CASE e[i].is = "Comb"
  <2> DEFINE l == f[e[i].lhs]  r == f[e[i].rhs]
  <2>1. StepsUpto(e, m, l) /\ StepsUpto(e, m, r)
    BY <1>5, Nodes
  <2>2. /\ t[i] = "New"       => Q!SimplifyNode(e[i], i, f, t) = Q!Result(Q!To(t, i, "TryLeft"), TRUE)
        /\ t[i] = "TryLeft"   => Q!SimplifyNode(e[i], i, f, t) = l[Q!To(t, i, "JustLeft")]
        /\ t[i] = "TryRight"  => Q!SimplifyNode(e[i], i, f, t) = r[Q!To(t, i, "JustRight")]
        /\ t[i] = "JustLeft"  => Q!SimplifyNode(e[i], i, f, t) = l[t]
        /\ t[i] = "JustRight" => Q!SimplifyNode(e[i], i, f, t) = r[t]
        /\ t[i] = "Combine"   => Q!SimplifyNode(e[i], i, f, t) = Q!LeftOrRight(l, r, t)
    BY <1>5 DEF Q!SimplifyNode
  <2> HIDE DEF l, r
  <2>3. t[i] \in Q!OpStates
    BY <1>1 DEF Trees
  <2>4. Stepped(e, m, t, Q!Result(Q!To(t, i, "TryLeft"), TRUE))
    <3> DEFINE u == Q!To(t, i, "TryLeft")
    <3>1. u \in Trees(e) /\ SameBehind(e, m, t, u)
      BY <1>1, OpStateChanges DEF Q!OpStates
    <3> HIDE DEF u
    <3>2. Stepped(e, m, t, Q!Result(u, TRUE))
      BY <3>1 DEF Stepped, Q!Result, StepResults
    <3> QED
      BY <3>2 DEF u
  <2>5. Stepped(e, m, t, l[Q!To(t, i, "JustLeft")])
    <3> DEFINE u == Q!To(t, i, "JustLeft")
    <3>1. u \in Trees(e) /\ SameBehind(e, m, t, u)
      BY <1>1, OpStateChanges DEF Q!OpStates
    <3> HIDE DEF u
    <3>2. Stepped(e, m, u, l[u])
      BY <2>1, <3>1 DEF StepsUpto
    <3>3. Stepped(e, m, t, l[u])
      BY <3>1, <3>2, StepsFollow
    <3> QED
      BY <3>3 DEF u
  <2>6. Stepped(e, m, t, r[Q!To(t, i, "JustRight")])
    <3> DEFINE u == Q!To(t, i, "JustRight")
    <3>1. u \in Trees(e) /\ SameBehind(e, m, t, u)
      BY <1>1, OpStateChanges DEF Q!OpStates
    <3> HIDE DEF u
    <3>2. Stepped(e, m, u, r[u])
      BY <2>1, <3>1 DEF StepsUpto
    <3>3. Stepped(e, m, t, r[u])
      BY <3>1, <3>2, StepsFollow
    <3> QED
      BY <3>3 DEF u
  <2>7. Stepped(e, m, t, l[t]) /\ Stepped(e, m, t, r[t])
    BY <2>1 DEF StepsUpto
  <2>8. Stepped(e, m, t, Q!LeftOrRight(l, r, t))
    BY <2>1, StepsEither
  <2> QED
    BY <2>2, <2>3, <2>4, <2>5, <2>6, <2>7, <2>8, Zenon DEF Q!OpStates
<1> QED
  BY <1>3, <1>4, <1>5, Nodes

\* A step of each node leaves alone those behind it.
LEMMA SimplifyOfNodes ==
    ASSUME NEW e, Q!IsExpression(e)
    PROVE  \A i \in 1..Len(e) : /\ StepsUpto(e, i, Q!Simplify(e)[i])
                                /\ \A t \in Trees(e) : Q!Simplify(e)[i][t] = Q!SimplifyNode(e[i], i, Q!Simplify(e), t)
<1> DEFINE n == Len(e)
           T == Trees(e)
           X == [T -> StepResults(e)]
           At(f, i) == [t \in T |-> Q!SimplifyNode(e[i], i, f, t)]
           step == [i \in 1..n |-> [f \in [1..n -> X] |-> At(f, i)]]
           Is(f) == f = [i \in DOMAIN e |-> At(f, i)]
           s == CHOOSE f : Is(f)
<1>1. n \in Nat /\ DOMAIN e = 1..n
  BY Nodes
<1>2. ASSUME NEW i \in 1..n, NEW m \in Nat, i <= m, NEW f, \A j \in 1..(i - 1) : StepsUpto(e, m, f[j])
      PROVE  StepsUpto(e, m, At(f, i))
  <2>1. \A t \in T : Stepped(e, m, t, Q!SimplifyNode(e[i], i, f, t))
    BY <1>2, SimplifySteps
  <2> HIDE DEF T
  <2>2. \A t \in T : At(f, i)[t] = Q!SimplifyNode(e[i], i, f, t)
    OBVIOUS
  <2>3. \A t \in T : Stepped(e, m, t, At(f, i)[t])
    BY <2>1, <2>2
  <2>4. At(f, i) \in [T -> StepResults(e)]
    BY <2>1 DEF Stepped
  <2> HIDE DEF At
  <2> QED
    BY <2>3, <2>4 DEF StepsUpto, T
<1>3. ASSUME NEW i \in 1..n, NEW f, NEW g, SameBefore(i, f, g) PROVE At(f, i) = At(g, i)
  <2>1. ASSUME NEW t PROVE Q!SimplifyNode(e[i], i, f, t) = Q!SimplifyNode(e[i], i, g, t)
    <3>1. CASE e[i].is = "Cond"
      BY <3>1 DEF Q!SimplifyNode
    <3>2. CASE e[i].is = "Negate"
      <4>1. f[e[i].arg] = g[e[i].arg]
        BY <1>3, <3>2, Nodes DEF SameBefore
      <4> QED
        BY <3>2, <4>1 DEF Q!SimplifyNode
    <3>3. CASE e[i].is = "Comb"
      <4>1. f[e[i].lhs] = g[e[i].lhs] /\ f[e[i].rhs] = g[e[i].rhs]
        BY <1>3, <3>3, Nodes DEF SameBefore
      <4> QED
        BY <3>3, <4>1 DEF Q!SimplifyNode
    <3> QED
      BY <3>1, <3>2, <3>3, Nodes
  <2> QED
    BY <2>1, Zenon
<1>4. \E x : x \in X
  <2>1. \A t \in T : Stepped(e, 0, t, Q!Result(t, FALSE))
    BY DEF Stepped, SameBehind, Q!Result, StepResults
  <2>2. [t \in T |-> Q!Result(t, FALSE)] \in X
    BY <2>1 DEF Stepped
  <2> QED
    BY <2>2
<1> HIDE DEF At
<1>5. ASSUME NEW i \in 1..n, NEW f \in [1..n -> X] PROVE At(f, i) \in X
  <2> DEFINE N == n
  <2>1. ASSUME NEW j \in 1..(i - 1) PROVE StepsUpto(e, n, f[j])
    <3>1. f[j] \in [Trees(e) -> StepResults(e)]
      BY <1>1
    <3>2. \A t \in Trees(e) : Stepped(e, n, t, f[j][t])
      BY <1>1, <3>1 DEF Stepped, SameBehind, StepResults
    <3> QED
      BY <3>1, <3>2 DEF StepsUpto
  <2>2. StepsUpto(e, n, At(f, i))
    BY <1>1, <1>2, <2>1
  <2> QED
    BY <2>2 DEF StepsUpto
<1> HIDE DEF n, X
<1>6. \A i \in 1..n : \A f \in [1..n -> X] : step[i][f] = At(f, i)
  OBVIOUS
<1>7. Steps(step, n, X)
  <2>1. step \in [1..n -> [[1..n -> X] -> X]]
    BY <1>5
  <2>2. ASSUME NEW i \in 1..n, NEW f \in [1..n -> X], NEW g \in [1..n -> X], SameBefore(i, f, g)
        PROVE  step[i][f] = step[i][g]
    <3>1. At(f, i) = At(g, i)
      BY <1>3, <2>2, Zenon
    <3> QED
      BY <1>6, <3>1, Zenon
  <2> QED
    BY <2>1, <2>2, Zenon DEF Steps
<1> HIDE DEF step
<1>8. PICK f : Follows(f, step, n, X)
  <2>1. X # {}
    BY <1>4
  <2> QED
    BY <1>1, <1>7, <2>1, Recursion
<1>9. Is(f)
  BY <1>1, <1>6, <1>8 DEF Follows
<1>10. Is(s)
  BY <1>9, Zenon
<1>11. Q!Simplify(e) = s
  BY Zenon DEF Q!Simplify, At, Trees
<1> HIDE DEF s
<1>12. \A i \in 1..n : s[i] = At(s, i)
  BY <1>1, <1>10, Zenon
<1>13. \A i \in 1..n : StepsUpto(e, i, s[i])
  <2> DEFINE S == {i \in 1..n : StepsUpto(e, i, s[i])}
  <2>1. ASSUME NEW i \in 1..n, \A j \in 1..(i - 1) : j \in S PROVE i \in S
    <3>1. ASSUME NEW j \in 1..(i - 1) PROVE StepsUpto(e, i, s[j])
      <4>1. StepsUpto(e, j, s[j])
        BY <2>1
      <4>2. \A k \in DOMAIN e : k > i => k > j
        BY <1>1
      <4> QED
        BY <4>1, <4>2 DEF StepsUpto, Stepped, SameBehind
    <3>2. i \in Nat /\ i <= i
      BY <1>1
    <3>3. StepsUpto(e, i, At(s, i))
      BY <1>2, <3>1, <3>2
    <3> QED
      BY <1>12, <3>3
  <2> HIDE DEF S
  <2>2. \A i \in 1..n : i \in S
    BY <1>1, <2>1, NodeInduction
  <2> QED
    BY <2>2 DEF S
<1>14. ASSUME NEW i \in 1..n, NEW t \in T PROVE s[i][t] = Q!SimplifyNode(e[i], i, s, t)
  BY <1>12, Zenon DEF At
<1> QED
  BY <1>11, <1>13, <1>14 DEF n

LEMMA ComplicateSteps ==
    ASSUME NEW e, Q!IsExpression(e), NEW i \in 1..Len(e), NEW m \in Nat, i <= m,
           NEW z, \A j \in 1..(i - 1) : StepsUpto(e, m, z[j]),
           NEW f, \A j \in 1..(i - 1) : StepsUpto(e, m, f[j]), NEW t \in Trees(e)
    PROVE  Stepped(e, m, t, Q!ComplicateNode(e[i], i, z, f, t))
<1>1. DOMAIN e = 1..Len(e) /\ DOMAIN e \subseteq Int /\ i \in DOMAIN e /\ i \in Int /\ m \in Int
  BY Nodes
<1>2. Stepped(e, m, t, Q!Result(t, FALSE))
  BY DEF Stepped, SameBehind, Q!Result, StepResults
<1>3. CASE e[i].is = "Cond"
  <2>1. Q!ComplicateNode(e[i], i, z, f, t) = Q!Result(t, FALSE)
    BY <1>3 DEF Q!ComplicateNode
  <2> QED
    BY <1>2, <2>1
<1>4. CASE e[i].is = "Negate"
  <2>1. Q!ComplicateNode(e[i], i, z, f, t) = f[e[i].arg][t] /\ e[i].arg \in 1..(i - 1)
    BY <1>4, Nodes DEF Q!ComplicateNode
  <2> QED
    BY <2>1 DEF StepsUpto
<1>5. CASE e[i].is = "Comb"
  <2> DEFINE l == f[e[i].lhs]  r == f[e[i].rhs]  zl == z[e[i].lhs]  zr == z[e[i].rhs]
  <2>1. StepsUpto(e, m, l) /\ StepsUpto(e, m, r) /\ StepsUpto(e, m, zl) /\ StepsUpto(e, m, zr)
    BY <1>5, Nodes
  <2>2. /\ t[i] = "New"       => Q!ComplicateNode(e[i], i, z, f, t) = Q!Result(t, FALSE)
        /\ t[i] = "TryLeft"   => Q!ComplicateNode(e[i], i, z, f, t) = Q!Result(Q!To(t, i, "TryRight"), TRUE)
        /\ t[i] = "TryRight"  => Q!ComplicateNode(e[i], i, z, f, t) = Q!LeftOrRight(zl, zr, Q!To(t, i, "Combine"))
        /\ t[i] = "JustLeft"  => Q!ComplicateNode(e[i], i, z, f, t) = l[t]
        /\ t[i] = "JustRight" => Q!ComplicateNode(e[i], i, z, f, t) = r[t]
        /\ t[i] = "Combine"   => Q!ComplicateNode(e[i], i, z, f, t) = Q!LeftOrRight(l, r, t)
    BY <1>5 DEF Q!ComplicateNode, Q!TryOther
  <2> HIDE DEF l, r, zl, zr
  <2>3. t[i] \in Q!OpStates
    BY <1>1 DEF Trees
  <2>4. Stepped(e, m, t, Q!Result(Q!To(t, i, "TryRight"), TRUE))
    <3> DEFINE u == Q!To(t, i, "TryRight")
    <3>1. u \in Trees(e) /\ SameBehind(e, m, t, u)
      BY <1>1, OpStateChanges DEF Q!OpStates
    <3> HIDE DEF u
    <3>2. Stepped(e, m, t, Q!Result(u, TRUE))
      BY <3>1 DEF Stepped, Q!Result, StepResults
    <3> QED
      BY <3>2 DEF u
  <2>5. Stepped(e, m, t, Q!LeftOrRight(zl, zr, Q!To(t, i, "Combine")))
    <3> DEFINE u == Q!To(t, i, "Combine")
    <3>1. u \in Trees(e) /\ SameBehind(e, m, t, u)
      BY <1>1, OpStateChanges DEF Q!OpStates
    <3> HIDE DEF u
    <3>2. Stepped(e, m, u, Q!LeftOrRight(zl, zr, u))
      BY <2>1, <3>1, StepsEither
    <3>3. Stepped(e, m, t, Q!LeftOrRight(zl, zr, u))
      BY <3>1, <3>2, StepsFollow
    <3> QED
      BY <3>3 DEF u
  <2>6. Stepped(e, m, t, l[t]) /\ Stepped(e, m, t, r[t])
    BY <2>1 DEF StepsUpto
  <2>7. Stepped(e, m, t, Q!LeftOrRight(l, r, t))
    BY <2>1, StepsEither
  <2> QED
    BY <1>2, <2>2, <2>3, <2>4, <2>5, <2>6, <2>7, Zenon DEF Q!OpStates
<1> QED
  BY <1>3, <1>4, <1>5, Nodes

\* A step of each node leaves alone those behind it.
LEMMA ComplicateOfNodes ==
    ASSUME NEW e, Q!IsExpression(e)
    PROVE  \A i \in 1..Len(e) : /\ StepsUpto(e, i, Q!Complicate(e)[i])
                                /\ \A t \in Trees(e) : Q!Complicate(e)[i][t] = Q!ComplicateNode(e[i], i, Q!Simplify(e), Q!Complicate(e), t)
<1> DEFINE n == Len(e)
           T == Trees(e)
           X == [T -> StepResults(e)]
           z == Q!Simplify(e)
           At(f, i) == [t \in T |-> Q!ComplicateNode(e[i], i, z, f, t)]
           step == [i \in 1..n |-> [f \in [1..n -> X] |-> At(f, i)]]
           Is(f) == f = [i \in DOMAIN e |-> At(f, i)]
           s == CHOOSE f : Is(f)
<1>1. n \in Nat /\ DOMAIN e = 1..n
  BY Nodes
<1>2. ASSUME NEW i \in 1..n, NEW m \in Nat, i <= m, NEW f, \A j \in 1..(i - 1) : StepsUpto(e, m, f[j])
      PROVE  StepsUpto(e, m, At(f, i))
  <2>0. ASSUME NEW j \in 1..(i - 1) PROVE StepsUpto(e, m, z[j])
    <3>1. StepsUpto(e, j, z[j])
      BY SimplifyOfNodes
    <3>2. \A k \in DOMAIN e : k > m => k > j
      BY <1>1, <1>2
    <3> QED
      BY <3>1, <3>2 DEF StepsUpto, Stepped, SameBehind
  <2> HIDE DEF z
  <2>1. \A t \in T : Stepped(e, m, t, Q!ComplicateNode(e[i], i, z, f, t))
    BY <1>2, <2>0, ComplicateSteps
  <2> HIDE DEF T
  <2>2. \A t \in T : At(f, i)[t] = Q!ComplicateNode(e[i], i, z, f, t)
    OBVIOUS
  <2>3. \A t \in T : Stepped(e, m, t, At(f, i)[t])
    BY <2>1, <2>2
  <2>4. At(f, i) \in [T -> StepResults(e)]
    BY <2>1 DEF Stepped
  <2> HIDE DEF At
  <2> QED
    BY <2>3, <2>4 DEF StepsUpto, T
<1>3. ASSUME NEW i \in 1..n, NEW f, NEW g, SameBefore(i, f, g) PROVE At(f, i) = At(g, i)
  <2>1. ASSUME NEW t PROVE Q!ComplicateNode(e[i], i, z, f, t) = Q!ComplicateNode(e[i], i, z, g, t)
    <3>1. CASE e[i].is = "Cond"
      BY <3>1 DEF Q!ComplicateNode
    <3>2. CASE e[i].is = "Negate"
      <4>1. f[e[i].arg] = g[e[i].arg]
        BY <1>3, <3>2, Nodes DEF SameBefore
      <4> QED
        BY <3>2, <4>1 DEF Q!ComplicateNode
    <3>3. CASE e[i].is = "Comb"
      <4>1. f[e[i].lhs] = g[e[i].lhs] /\ f[e[i].rhs] = g[e[i].rhs]
        BY <1>3, <3>3, Nodes DEF SameBefore
      <4> QED
        BY <3>3, <4>1 DEF Q!ComplicateNode
    <3> QED
      BY <3>1, <3>2, <3>3, Nodes
  <2> QED
    BY <2>1, Zenon
<1> HIDE DEF z
<1>4. \E x : x \in X
  <2>1. \A t \in T : Stepped(e, 0, t, Q!Result(t, FALSE))
    BY DEF Stepped, SameBehind, Q!Result, StepResults
  <2>2. [t \in T |-> Q!Result(t, FALSE)] \in X
    BY <2>1 DEF Stepped
  <2> QED
    BY <2>2
<1> HIDE DEF At
<1>5. ASSUME NEW i \in 1..n, NEW f \in [1..n -> X] PROVE At(f, i) \in X
  <2> DEFINE N == n
  <2>1. ASSUME NEW j \in 1..(i - 1) PROVE StepsUpto(e, n, f[j])
    <3>1. f[j] \in [Trees(e) -> StepResults(e)]
      BY <1>1
    <3>2. \A t \in Trees(e) : Stepped(e, n, t, f[j][t])
      BY <1>1, <3>1 DEF Stepped, SameBehind, StepResults
    <3> QED
      BY <3>1, <3>2 DEF StepsUpto
  <2>2. StepsUpto(e, n, At(f, i))
    BY <1>1, <1>2, <2>1
  <2> QED
    BY <2>2 DEF StepsUpto
<1> HIDE DEF n, X
<1>6. \A i \in 1..n : \A f \in [1..n -> X] : step[i][f] = At(f, i)
  OBVIOUS
<1>7. Steps(step, n, X)
  <2>1. step \in [1..n -> [[1..n -> X] -> X]]
    BY <1>5
  <2>2. ASSUME NEW i \in 1..n, NEW f \in [1..n -> X], NEW g \in [1..n -> X], SameBefore(i, f, g)
        PROVE  step[i][f] = step[i][g]
    <3>1. At(f, i) = At(g, i)
      BY <1>3, <2>2, Zenon
    <3> QED
      BY <1>6, <3>1, Zenon
  <2> QED
    BY <2>1, <2>2, Zenon DEF Steps
<1> HIDE DEF step
<1>8. PICK f : Follows(f, step, n, X)
  <2>1. X # {}
    BY <1>4
  <2> QED
    BY <1>1, <1>7, <2>1, Recursion
<1>9. Is(f)
  BY <1>1, <1>6, <1>8 DEF Follows
<1>10. Is(s)
  BY <1>9, Zenon
<1>11. Q!Complicate(e) = s
  BY Zenon DEF Q!Complicate, At, Trees, z
<1> HIDE DEF s
<1>12. \A i \in 1..n : s[i] = At(s, i)
  BY <1>1, <1>10, Zenon
<1>13. \A i \in 1..n : StepsUpto(e, i, s[i])
  <2> DEFINE S == {i \in 1..n : StepsUpto(e, i, s[i])}
  <2>1. ASSUME NEW i \in 1..n, \A j \in 1..(i - 1) : j \in S PROVE i \in S
    <3>1. ASSUME NEW j \in 1..(i - 1) PROVE StepsUpto(e, i, s[j])
      <4>1. StepsUpto(e, j, s[j])
        BY <2>1
      <4>2. \A k \in DOMAIN e : k > i => k > j
        BY <1>1
      <4> QED
        BY <4>1, <4>2 DEF StepsUpto, Stepped, SameBehind
    <3>2. i \in Nat /\ i <= i
      BY <1>1
    <3>3. StepsUpto(e, i, At(s, i))
      BY <1>2, <3>1, <3>2
    <3> QED
      BY <1>12, <3>3
  <2> HIDE DEF S
  <2>2. \A i \in 1..n : i \in S
    BY <1>1, <2>1, NodeInduction
  <2> QED
    BY <2>2 DEF S
<1>14. ASSUME NEW i \in 1..n, NEW t \in T PROVE s[i][t] = Q!ComplicateNode(e[i], i, z, s, t)
  BY <1>12, Zenon DEF At
<1> QED
  BY <1>11, <1>13, <1>14 DEF n, z

\* A search with some of its combinations tried.  The whole has been tried and fails; as long
\* as only one of its sides has been, nothing in them is shrunk; then it is known which of
\* them fail alone.
RootFits(e, culprits, t, best, going) ==
    LET n     == Len(e)
        left  == Q!Mentions(Q!Part(e, e[n].lhs))
        right == Q!Mentions(Q!Part(e, e[n].rhs))
    IN  /\ t[n] \in {"New", "TryLeft", "TryRight"} => going = TRUE /\ NewUpto(t, n - 1)
        /\ t[n] \in {"TryRight", "JustRight", "Combine"} => ~(culprits \subseteq left)
        /\ t[n] = "Combine" => ~(culprits \subseteq right)
        /\ t[n] = "JustLeft" => Q!Mentions(best) \subseteq left
        /\ t[n] = "JustRight" => Q!Mentions(best) \subseteq right

SearchFits(x) ==
    /\ x = [op |-> "search", e |-> x.e, culprits |-> x.culprits, opstates |-> x.opstates,
            best |-> x.best, going |-> x.going]
    /\ Q!IsExpression(x.e) /\ x.opstates \in Trees(x.e)
    /\ x.culprits \subseteq Q!Mentions(x.e) /\ x.culprits \subseteq Q!Mentions(x.best)
    /\ x.e[Len(x.e)].is = "Comb" => RootFits(x.e, x.culprits, x.opstates, x.best, x.going)

\* Steps of the sides leave the opstate of the whole alone.
LEMMA SidesStep ==
    ASSUME NEW e, Q!IsExpression(e)
    PROVE  \A j \in 1..(Len(e) - 1) : StepsUpto(e, Len(e) - 1, Q!Simplify(e)[j])
                                      /\ StepsUpto(e, Len(e) - 1, Q!Complicate(e)[j])
<1> SUFFICES ASSUME NEW j \in 1..(Len(e) - 1)
             PROVE  StepsUpto(e, Len(e) - 1, Q!Simplify(e)[j]) /\ StepsUpto(e, Len(e) - 1, Q!Complicate(e)[j])
  OBVIOUS
<1>1. Len(e) \in Nat /\ DOMAIN e = 1..Len(e) /\ j \in 1..Len(e)
  BY Nodes
<1>2. StepsUpto(e, j, Q!Simplify(e)[j])
  BY <1>1, SimplifyOfNodes
<1>3. StepsUpto(e, j, Q!Complicate(e)[j])
  BY <1>1, ComplicateOfNodes
<1>4. \A k \in DOMAIN e : k > Len(e) - 1 => k > j
  BY <1>1
<1> QED
  BY <1>2, <1>3, <1>4 DEF StepsUpto, Stepped, SameBehind

LEMMA RootStays ==
    ASSUME NEW e, Q!IsExpression(e), NEW t \in Trees(e), NEW r, Stepped(e, Len(e) - 1, t, r)
    PROVE  r.opstates \in Trees(e) /\ r.opstates[Len(e)] = t[Len(e)]
<1>1. Len(e) \in Nat /\ DOMAIN e = 1..Len(e) /\ Len(e) \in DOMAIN e /\ Len(e) > Len(e) - 1
  BY Nodes
<1>2. r.opstates \in Trees(e)
  BY DEF Stepped, StepResults
<1>3. \A k \in DOMAIN e : k > Len(e) - 1 => r.opstates[k] = t[k]
  BY DEF Stepped, SameBehind
<1> QED
  BY <1>1, <1>2, <1>3

\* Another state of the whole.
LEMMA RootChanges ==
    ASSUME NEW e, Q!IsExpression(e), NEW t \in Trees(e), NEW state, state \in Q!OpStates
    PROVE  /\ Q!To(t, Len(e), state) \in Trees(e) /\ Q!To(t, Len(e), state)[Len(e)] = state
           /\ \A i \in 1..(Len(e) - 1) : Q!To(t, Len(e), state)[i] = t[i]
<1>1. Len(e) \in Nat /\ DOMAIN e = 1..Len(e) /\ Len(e) \in DOMAIN e
  BY Nodes
<1>2. Q!To(t, Len(e), state) \in Trees(e) /\ Q!To(t, Len(e), state)[Len(e)] = state
  BY <1>1 DEF Q!To, Trees
<1>3. \A i \in 1..(Len(e) - 1) : Q!To(t, Len(e), state)[i] = t[i]
  <2> SUFFICES ASSUME NEW i \in 1..(Len(e) - 1) PROVE Q!To(t, Len(e), state)[i] = t[i]
    OBVIOUS
  <2> DEFINE n == Len(e)  D == DOMAIN e
  <2>1. n \in Nat /\ D = 1..n /\ i \in 1..(n - 1)
    BY <1>1
  <2> HIDE DEF n, D
  <2>2. i \in D /\ i # n
    BY <2>1
  <2> QED
    BY <2>2 DEF Q!To, Trees, n, D
<1> QED
  BY <1>2, <1>3

\* What a test of a combination leaves.
LEMMA TestOfRoot ==
    ASSUME NEW e, Q!IsExpression(e), e[Len(e)].is = "Comb", NEW t \in Trees(e)
    PROVE  LET n == Len(e)
               u == Q!Simplify(e)[n][t]
               v == Q!Complicate(e)[n][t]
           IN  /\ u.opstates \in Trees(e) /\ v.opstates \in Trees(e)
               /\ t[n] = "New" => /\ u.ok = TRUE /\ u.opstates[n] = "TryLeft"
                                  /\ \A i \in 1..(n - 1) : u.opstates[i] = t[i]
               /\ t[n] = "TryLeft" => /\ u.opstates[n] = "JustLeft"
                                      /\ v.ok = TRUE /\ v.opstates[n] = "TryRight"
                                      /\ \A i \in 1..(n - 1) : v.opstates[i] = t[i]
               /\ t[n] = "TryRight" => u.opstates[n] = "JustRight" /\ v.opstates[n] = "Combine"
               /\ t[n] \in {"JustLeft", "JustRight", "Combine"} => /\ u.opstates[n] = t[n]
                                                                   /\ v.opstates[n] = t[n]
<1> DEFINE n == Len(e)  a == e[n].lhs  b == e[n].rhs  s == Q!Simplify(e)  c == Q!Complicate(e)
           S(r) == Q!SimplifyNode(e[n], n, s, r)
           C(r) == Q!ComplicateNode(e[n], n, s, c, r)
<1>1. n \in Nat /\ n \in 1..n /\ a \in 1..(n - 1) /\ b \in 1..(n - 1) /\ DOMAIN e = 1..n
  BY Nodes
<1>2. s[n][t] = S(t)
  BY <1>1, SimplifyOfNodes
<1>3. c[n][t] = C(t)
  BY <1>1, ComplicateOfNodes
<1>4. StepsUpto(e, n, s[n]) /\ StepsUpto(e, n, c[n])
  BY <1>1, SimplifyOfNodes, ComplicateOfNodes
<1>5. StepsUpto(e, n - 1, s[a]) /\ StepsUpto(e, n - 1, s[b]) /\ StepsUpto(e, n - 1, c[a]) /\ StepsUpto(e, n - 1, c[b])
  BY <1>1, SidesStep
<1>6. s[n][t].opstates \in Trees(e) /\ c[n][t].opstates \in Trees(e)
  BY <1>4 DEF StepsUpto, Stepped, StepResults
<1>7. /\ t[n] = "New"       => S(t) = Q!Result(Q!To(t, n, "TryLeft"), TRUE)
      /\ t[n] = "TryLeft"   => S(t) = s[a][Q!To(t, n, "JustLeft")]
      /\ t[n] = "TryRight"  => S(t) = s[b][Q!To(t, n, "JustRight")]
      /\ t[n] = "JustLeft"  => S(t) = s[a][t]
      /\ t[n] = "JustRight" => S(t) = s[b][t]
      /\ t[n] = "Combine"   => S(t) = Q!LeftOrRight(s[a], s[b], t)
  BY DEF Q!SimplifyNode
<1>8. /\ t[n] = "TryLeft"   => C(t) = Q!Result(Q!To(t, n, "TryRight"), TRUE)
      /\ t[n] = "TryRight"  => C(t) = Q!LeftOrRight(s[a], s[b], Q!To(t, n, "Combine"))
      /\ t[n] = "JustLeft"  => C(t) = c[a][t]
      /\ t[n] = "JustRight" => C(t) = c[b][t]
      /\ t[n] = "Combine"   => C(t) = Q!LeftOrRight(c[a], c[b], t)
  BY DEF Q!ComplicateNode, Q!TryOther
<1> HIDE DEF n, a, b, s, c, S, C
<1>9. \A u \in Trees(e) : /\ s[a][u].opstates[n] = u[n] /\ s[b][u].opstates[n] = u[n]
                          /\ c[a][u].opstates[n] = u[n] /\ c[b][u].opstates[n] = u[n]
                          /\ Q!LeftOrRight(s[a], s[b], u).opstates[n] = u[n]
                          /\ Q!LeftOrRight(c[a], c[b], u).opstates[n] = u[n]
  <2> SUFFICES ASSUME NEW u \in Trees(e),
                      NEW r \in {s[a][u], s[b][u], c[a][u], c[b][u], Q!LeftOrRight(s[a], s[b], u), Q!LeftOrRight(c[a], c[b], u)}
               PROVE  r.opstates[n] = u[n]
    OBVIOUS
  <2>1. Stepped(e, n - 1, u, Q!LeftOrRight(s[a], s[b], u))
    BY <1>5, StepsEither
  <2>2. Stepped(e, n - 1, u, Q!LeftOrRight(c[a], c[b], u))
    BY <1>5, StepsEither
  <2>3. Stepped(e, n - 1, u, s[a][u]) /\ Stepped(e, n - 1, u, s[b][u])
    BY <1>5 DEF StepsUpto
  <2>4. Stepped(e, n - 1, u, c[a][u]) /\ Stepped(e, n - 1, u, c[b][u])
    BY <1>5 DEF StepsUpto
  <2>5. Stepped(e, n - 1, u, r)
    BY <2>1, <2>2, <2>3, <2>4
  <2> QED
    BY <2>5, RootStays DEF n
<1>10. ASSUME NEW state \in Q!OpStates
       PROVE  /\ Q!To(t, n, state) \in Trees(e) /\ Q!To(t, n, state)[n] = state
              /\ \A i \in 1..(n - 1) : Q!To(t, n, state)[i] = t[i]
  BY RootChanges DEF n
<1>11. CASE t[n] = "New"
  <2>1. s[n][t] = Q!Result(Q!To(t, n, "TryLeft"), TRUE)
    BY <1>2, <1>7, <1>11
  <2> QED
    BY <1>6, <1>10, <1>11, <2>1 DEF Q!Result, Q!OpStates, n, s, c
<1>12. CASE t[n] = "TryLeft"
  <2>1. s[n][t] = s[a][Q!To(t, n, "JustLeft")] /\ c[n][t] = Q!Result(Q!To(t, n, "TryRight"), TRUE)
    BY <1>2, <1>3, <1>7, <1>8, <1>12
  <2> QED
    BY <1>6, <1>9, <1>10, <1>12, <2>1 DEF Q!Result, Q!OpStates, n, s, c
<1>13. CASE t[n] = "TryRight"
  <2>1. s[n][t] = s[b][Q!To(t, n, "JustRight")] /\ c[n][t] = Q!LeftOrRight(s[a], s[b], Q!To(t, n, "Combine"))
    BY <1>2, <1>3, <1>7, <1>8, <1>13
  <2> QED
    BY <1>6, <1>9, <1>10, <1>13, <2>1 DEF Q!OpStates, n, s, c
<1>14. CASE t[n] \in {"JustLeft", "JustRight", "Combine"}
  <2>1. s[n][t].opstates[n] = t[n] /\ c[n][t].opstates[n] = t[n]
    BY <1>2, <1>3, <1>7, <1>8, <1>9, <1>14
  <2> QED
    BY <1>6, <1>14, <2>1 DEF n, s, c
<1>15. t[n] \in Q!OpStates
  BY <1>1 DEF Trees
<1> QED
  BY <1>11, <1>12, <1>13, <1>14, <1>15 DEF Q!OpStates, n

\* What is left of a combination, by the opstate of the whole.
LEMMA LeftOfRoot ==
    ASSUME NEW e, Q!IsExpression(e), e[Len(e)].is = "Comb", NEW t \in Trees(e)
    PROVE  LET n     == Len(e)
               now   == Q!Mentions(Q!current(e, t))
               left  == Q!Mentions(Q!Part(e, e[n].lhs))
               right == Q!Mentions(Q!Part(e, e[n].rhs))
           IN  /\ t[n] = "New" /\ NewUpto(t, n - 1) => now = Q!Mentions(e)
               /\ t[n] = "TryLeft" /\ NewUpto(t, n - 1) => now = left
               /\ t[n] = "TryRight" /\ NewUpto(t, n - 1) => now = right
               /\ t[n] \in {"TryLeft", "JustLeft"} => now \subseteq left
               /\ t[n] \in {"TryRight", "JustRight"} => now \subseteq right
<1> DEFINE n == Len(e)  a == e[n].lhs  b == e[n].rhs
<1>1. n \in Nat /\ n \in 1..n /\ a \in 1..(n - 1) /\ b \in 1..(n - 1) /\ a \in 1..n /\ b \in 1..n
      /\ n - 1 \in 0..n /\ n \in 0..n
  BY Nodes
<1>2. PICK w : /\ \A i : Q!Part(e, i) = w[i]
               /\ \A i \in 1..n : w[i] = Q!Whole(e[i], w) /\ w[i] \in Exprs(e)
  BY PartsOfNodes
<1>3. PICK s : /\ Q!current(e, t) = s[n]
               /\ \A i \in 1..n : s[i] = Q!CurrentNode(e[i], t[i], s) /\ s[i] \in Exprs(e)
  BY CurrentOfNodes
<1>4. w[n] = e
  BY <1>2 DEF Q!IsExpression
<1>5. s[n] = Q!CurrentNode(e[n], t[n], s)
  BY <1>1, <1>3
<1>6. /\ t[n] \in {"TryLeft", "JustLeft"} => s[n] = s[a]
      /\ t[n] \in {"TryRight", "JustRight"} => s[n] = s[b]
  BY <1>5 DEF Q!CurrentNode
<1>7. AreParts(e, w) /\ AreLeft(e, t, s)
  BY <1>2, <1>3 DEF AreParts, AreLeft
<1>8. \A i \in 1..n : Q!Mentions(s[i]) \subseteq Q!Mentions(w[i])
  BY <1>7, LeftMentions, Zenon
<1>9. ASSUME t[n] = "New", NewUpto(t, n - 1) PROVE s[n] = w[n]
  <2>1. NewUpto(t, n)
    BY <1>1, <1>9 DEF NewUpto
  <2>2. \A i \in 1..n : s[i] = w[i]
    <3> HIDE DEF n
    <3>1. n \in 0..Len(e)
      BY <1>1 DEF n
    <3> QED
      BY <1>7, <2>1, <3>1, AllIsLeft
  <2> QED
    BY <1>1, <2>2
<1>10. ASSUME NewUpto(t, n - 1) PROVE s[a] = w[a] /\ s[b] = w[b]
  <2>1. \A i \in 1..(n - 1) : s[i] = w[i]
    <3> DEFINE m == n - 1
    <3>1. m \in 0..Len(e) /\ NewUpto(t, m)
      BY <1>1, <1>10
    <3> HIDE DEF m
    <3>2. \A i \in 1..m : s[i] = w[i]
      BY <1>7, <3>1, AllIsLeft
    <3> QED
      BY <3>2 DEF m
  <2> QED
    BY <1>1, <2>1
<1>11. Q!Part(e, a) = w[a] /\ Q!Part(e, b) = w[b]
  BY <1>2
<1> QED
  BY <1>1, <1>3, <1>4, <1>6, <1>8, <1>9, <1>10, <1>11

\* A search starts with the whole.
LEMMA SearchStarts ==
    ASSUME NEW e, Q!IsExpression(e), NEW culprits \in SUBSET Q!Mentions(e)
    PROVE  SearchFits(Q!Search(e, culprits))
<1> DEFINE x == Q!Search(e, culprits)
<1>1. x = [op |-> "search", e |-> e, culprits |-> culprits, opstates |-> Q!tree_new(e), best |-> e, going |-> TRUE]
  BY DEF Q!Search
<1>2. DOMAIN e = 1..Len(e) /\ Len(e) \in 1..Len(e) /\ Len(e) \in Nat
  BY Nodes
<1>3. Q!tree_new(e) \in Trees(e) /\ \A i \in 1..Len(e) : Q!tree_new(e)[i] = "New"
  BY <1>2 DEF Q!tree_new, Trees, Q!OpStates
<1> HIDE DEF x
<1>4. /\ x.e = e /\ x.culprits = culprits /\ x.opstates = Q!tree_new(e) /\ x.best = e /\ x.going = TRUE
      /\ x = [op |-> "search", e |-> x.e, culprits |-> x.culprits, opstates |-> x.opstates,
              best |-> x.best, going |-> x.going]
  BY <1>1
<1>5. x.opstates[Len(e)] = "New" /\ NewUpto(x.opstates, Len(e) - 1)
  BY <1>2, <1>3, <1>4 DEF NewUpto
<1>6. RootFits(x.e, x.culprits, x.opstates, x.best, x.going)
  BY <1>4, <1>5 DEF RootFits
<1> QED
  BY <1>3, <1>4, <1>6 DEF SearchFits, x

\* What a test knows of the sides of a combination.
LEMMA RootGoesOn ==
    ASSUME NEW e, Q!IsExpression(e), e[Len(e)].is = "Comb", NEW t \in Trees(e),
           NEW culprits, NEW best, NEW going, culprits \subseteq Q!Mentions(e), RootFits(e, culprits, t, best, going)
    PROVE  LET now  == Q!current(e, t)
               u    == Q!Simplify(e)[Len(e)][t]
               v    == Q!Complicate(e)[Len(e)][t]
           IN  /\ culprits \subseteq Q!Mentions(now) => RootFits(e, culprits, u.opstates, now, u.ok)
               /\ ~(culprits \subseteq Q!Mentions(now)) => RootFits(e, culprits, v.opstates, best, v.ok)
<1> DEFINE n     == Len(e)
           now   == Q!current(e, t)
           u     == Q!Simplify(e)[n][t]
           v     == Q!Complicate(e)[n][t]
           left  == Q!Mentions(Q!Part(e, e[n].lhs))
           right == Q!Mentions(Q!Part(e, e[n].rhs))
<1>1. /\ t[n] \in {"New", "TryLeft", "TryRight"} => going = TRUE /\ NewUpto(t, n - 1)
      /\ t[n] \in {"TryRight", "JustRight", "Combine"} => ~(culprits \subseteq left)
      /\ t[n] = "Combine" => ~(culprits \subseteq right)
      /\ t[n] = "JustLeft" => Q!Mentions(best) \subseteq left
      /\ t[n] = "JustRight" => Q!Mentions(best) \subseteq right
  BY DEF RootFits
<1>2. /\ t[n] = "New" => /\ u.ok = TRUE /\ u.opstates[n] = "TryLeft"
                         /\ NewUpto(t, n - 1) => NewUpto(u.opstates, n - 1)
      /\ t[n] = "TryLeft" => /\ u.opstates[n] = "JustLeft"
                             /\ v.ok = TRUE /\ v.opstates[n] = "TryRight"
                             /\ NewUpto(t, n - 1) => NewUpto(v.opstates, n - 1)
      /\ t[n] = "TryRight" => u.opstates[n] = "JustRight" /\ v.opstates[n] = "Combine"
      /\ t[n] \in {"JustLeft", "JustRight", "Combine"} => u.opstates[n] = t[n] /\ v.opstates[n] = t[n]
  BY TestOfRoot DEF NewUpto
<1>3. /\ t[n] = "New" /\ NewUpto(t, n - 1) => Q!Mentions(now) = Q!Mentions(e)
      /\ t[n] = "TryLeft" /\ NewUpto(t, n - 1) => Q!Mentions(now) = left
      /\ t[n] = "TryRight" /\ NewUpto(t, n - 1) => Q!Mentions(now) = right
      /\ t[n] \in {"TryLeft", "JustLeft"} => Q!Mentions(now) \subseteq left
      /\ t[n] \in {"TryRight", "JustRight"} => Q!Mentions(now) \subseteq right
  BY LeftOfRoot
<1>4. t[n] \in Q!OpStates
  BY Nodes DEF Trees
<1> DEFINE Agrees(r, found, ok) ==
        /\ r[n] \in {"New", "TryLeft", "TryRight"} => ok = TRUE /\ NewUpto(r, n - 1)
        /\ r[n] \in {"TryRight", "JustRight", "Combine"} => ~(culprits \subseteq left)
        /\ r[n] = "Combine" => ~(culprits \subseteq right)
        /\ r[n] = "JustLeft" => Q!Mentions(found) \subseteq left
        /\ r[n] = "JustRight" => Q!Mentions(found) \subseteq right
<1>5. \A r, found, ok : RootFits(e, culprits, r, found, ok) <=> Agrees(r, found, ok)
  BY Zenon DEF RootFits
<1> HIDE DEF now, u, v, left, right, n
<1>6. ASSUME culprits \subseteq Q!Mentions(now) PROVE Agrees(u.opstates, now, u.ok)
  BY <1>1, <1>2, <1>3, <1>4, <1>6 DEF Q!OpStates
<1>7. ASSUME ~(culprits \subseteq Q!Mentions(now)) PROVE Agrees(v.opstates, best, v.ok)
  BY <1>1, <1>2, <1>3, <1>4, <1>7 DEF Q!OpStates
<1> HIDE DEF Agrees
<1> QED
  BY <1>5, <1>6, <1>7, Zenon DEF n, now, u, v

\* A test changes three fields of a search.
LEMMA TestOfSearch ==
    ASSUME NEW x, NEW r, NEW b, NEW g,
           x = [op |-> "search", e |-> x.e, culprits |-> x.culprits, opstates |-> x.opstates,
                best |-> x.best, going |-> x.going]
    PROVE  [x EXCEPT !.opstates = r, !.best = b, !.going = g]
               = [op |-> "search", e |-> x.e, culprits |-> x.culprits, opstates |-> r, best |-> b, going |-> g]
<1> DEFINE e == x.e  c == x.culprits  o == x.opstates  b0 == x.best  g0 == x.going
<1>1. x = [op |-> "search", e |-> e, culprits |-> c, opstates |-> o, best |-> b0, going |-> g0]
  OBVIOUS
<1> HIDE DEF e, c, o, b0, g0
<1> DEFINE y == [x EXCEPT !.opstates = r]  z == [y EXCEPT !.best = b]
<1>2. y = [op |-> "search", e |-> e, culprits |-> c, opstates |-> r, best |-> b0, going |-> g0]
  BY <1>1
<1> HIDE DEF y
<1>3. z = [op |-> "search", e |-> e, culprits |-> c, opstates |-> r, best |-> b, going |-> g0]
  BY <1>2
<1> HIDE DEF z
<1>4. [z EXCEPT !.going = g]
          = [op |-> "search", e |-> e, culprits |-> c, opstates |-> r, best |-> b, going |-> g]
  BY <1>3
<1>5. [x EXCEPT !.opstates = r, !.best = b, !.going = g] = [z EXCEPT !.going = g]
  BY DEF y, z
<1> QED
  BY <1>4, <1>5 DEF e, c

\* A test keeps it so.
LEMMA SearchGoesOn ==
    ASSUME NEW x, SearchFits(x)
    PROVE  SearchFits(Q!RunTest(x))
<1> DEFINE e     == x.e
           n     == Len(e)
           t     == x.opstates
           now   == Q!current(e, t)
           fails == x.culprits \subseteq Q!Mentions(now)
           u     == Q!Simplify(e)[n][t]
           v     == Q!Complicate(e)[n][t]
           step  == IF fails THEN u ELSE v
           best  == IF fails THEN now ELSE x.best
           y     == Q!RunTest(x)
<1>1. /\ x = [op |-> "search", e |-> x.e, culprits |-> x.culprits, opstates |-> x.opstates,
              best |-> x.best, going |-> x.going]
      /\ Q!IsExpression(e) /\ t \in Trees(e)
      /\ x.culprits \subseteq Q!Mentions(e) /\ x.culprits \subseteq Q!Mentions(x.best)
      /\ e[n].is = "Comb" => RootFits(e, x.culprits, t, x.best, x.going)
  BY DEF SearchFits
<1>2. y = [x EXCEPT !.opstates = step.opstates, !.best = best, !.going = step.ok]
  <2>1. step = (IF fails THEN Q!Simplify(e) ELSE Q!Complicate(e))[n][t]
    BY Zenon
  <2> QED
    BY <2>1, Zenon DEF Q!RunTest
<1>3. n \in 1..n /\ n \in Nat /\ DOMAIN e = 1..n
  BY <1>1, Nodes
<1>4. u.opstates \in Trees(e) /\ v.opstates \in Trees(e)
  <2>1. StepsUpto(e, n, Q!Simplify(e)[n])
    BY <1>1, <1>3, SimplifyOfNodes
  <2>2. StepsUpto(e, n, Q!Complicate(e)[n])
    BY <1>1, <1>3, ComplicateOfNodes
  <2> QED
    BY <1>1, <2>1, <2>2 DEF StepsUpto, Stepped, StepResults
<1>5. e[n].is = "Comb" => /\ fails => RootFits(e, x.culprits, u.opstates, now, u.ok)
                          /\ ~fails => RootFits(e, x.culprits, v.opstates, x.best, v.ok)
  <2> SUFFICES ASSUME e[n].is = "Comb" PROVE /\ fails => RootFits(e, x.culprits, u.opstates, now, u.ok)
                                             /\ ~fails => RootFits(e, x.culprits, v.opstates, x.best, v.ok)
    OBVIOUS
  <2> HIDE DEF e, t
  <2> QED
    BY <1>1, RootGoesOn
<1> HIDE DEF y, now, u, v
<1>6. /\ step.opstates \in Trees(e) /\ x.culprits \subseteq Q!Mentions(best)
      /\ e[n].is = "Comb" => RootFits(e, x.culprits, step.opstates, best, step.ok)
  BY <1>1, <1>4, <1>5
<1> DEFINE r == step.opstates  g == step.ok
<1> HIDE DEF r, g, best
<1>7. y = [op |-> "search", e |-> x.e, culprits |-> x.culprits, opstates |-> r, best |-> best, going |-> g]
  <2>1. y = [x EXCEPT !.opstates = r, !.best = best, !.going = g]
    BY <1>2 DEF r, g
  <2> QED
    BY <1>1, <2>1, TestOfSearch
<1>8. /\ y.e = x.e /\ y.culprits = x.culprits /\ y.opstates = r /\ y.best = best /\ y.going = g
      /\ y = [op |-> "search", e |-> y.e, culprits |-> y.culprits, opstates |-> y.opstates,
              best |-> y.best, going |-> y.going]
  BY <1>7
<1>9. /\ r \in Trees(e) /\ x.culprits \subseteq Q!Mentions(best)
      /\ e[n].is = "Comb" => RootFits(e, x.culprits, r, best, g)
  BY <1>6 DEF r, g
<1>10. SearchFits(y)
  BY <1>1, <1>8, <1>9, Zenon DEF SearchFits
<1> QED
  BY <1>10 DEF y

\* What is reported is what was to be found.
LEMMA SearchFinds ==
    ASSUME NEW x, SearchFits(x)
    PROVE  Q!ConditionShrinks(x)
<1>1. x.e[Len(x.e)].is = "Comb" => x.opstates[Len(x.e)] \in Q!OpStates
  <2>1. Q!IsExpression(x.e) /\ x.opstates \in Trees(x.e)
    BY DEF SearchFits
  <2>2. Len(x.e) \in DOMAIN x.e
    BY <2>1, Nodes
  <2> QED
    BY <2>1, <2>2 DEF Trees
<1> QED
  BY <1>1 DEF SearchFits, RootFits, Q!ConditionShrinks, Q!OpStates

-----------------------------------------------------------------------------
(* Subarrays, built in the C library and read back. *)

\* The C library takes the range for the dimension.
Suits(dim, r) ==
    /\ check_dimension_compatibility(r, dim.datatype, dimension_cell_val_num(dim.constraints)) = "Ok"
    /\ InDomain(dim.constraints, r)

\* Dimensions of different names.
IsGrid(dims) ==
    /\ dims \in Seq(ToSet(dims))
    /\ \A d, e \in DOMAIN dims : dims[d].name = dims[e].name => d = e

Added(dims, c, d, r) ==
    IF Suits(dims[d], r)
    THEN {[c EXCEPT ![d] = [set |-> TRUE, ranges |-> Coalesced(IF @.set THEN @.ranges ELSE <<>>, r)]]}
    ELSE {}

\* By index or by name: a range that suits the dimension is added to its own.
LEMMA AddsOne ==
    ASSUME NEW dims, IsGrid(dims), NEW d \in DOMAIN dims, NEW c, NEW r
    PROVE  /\ add_range(dims, c, Index(d - 1), r) = Added(dims, c, d, r)
           /\ add_range(dims, c, Name(dims[d].name), r) = Added(dims, c, d, r)
<1>1. DOMAIN dims = 1..Len(dims) /\ Len(dims) \in Nat
  BY DEF IsGrid
<1> DEFINE Ok(j) == check_dimension_compatibility(r, dims[j + 1].datatype,
                        dimension_cell_val_num(dims[j + 1].constraints)) = "Ok"
<1>2. (d - 1) + 1 = d /\ d - 1 < Len(dims)
  BY <1>1
<1>3. Ok(d - 1) <=> check_dimension_compatibility(r, dims[d].datatype,
                        dimension_cell_val_num(dims[d].constraints)) = "Ok"
  BY <1>2
<1>4. Added(dims, c, d, r) = IF Ok(d - 1) THEN capi_add_range(dims, c, d, r) ELSE {}
  BY <1>3 DEF Added, Suits, capi_add_range
<1> HIDE DEF Ok
<1>5. ASSUME NEW k, dimension_index(dims, k) = {d - 1}, has_dimension(dims, k)
      PROVE  add_range(dims, c, k, r) = Added(dims, c, d, r)
  <2>1. add_range(dims, c, k, r)
           = UNION {capi_add_range(dims, c, i + 1, r) : i \in {j \in {d - 1} : Ok(j)}}
    BY <1>5 DEF add_range, Ok
  <2>2. CASE Ok(d - 1)
    <3>1. {j \in {d - 1} : Ok(j)} = {d - 1}
      BY <2>2
    <3>2. UNION {capi_add_range(dims, c, i + 1, r) : i \in {d - 1}} = capi_add_range(dims, c, (d - 1) + 1, r)
      OBVIOUS
    <3> QED
      BY <1>2, <1>4, <2>1, <2>2, <3>1, <3>2
  <2>3. CASE ~ Ok(d - 1)
    <3>1. {j \in {d - 1} : Ok(j)} = {}
      BY <2>3
    <3> QED
      BY <1>4, <2>1, <2>3, <3>1
  <2> QED
    BY <2>2, <2>3
<1>6. dimension_index(dims, Index(d - 1)) = {d - 1} /\ has_dimension(dims, Index(d - 1))
  BY <1>2 DEF dimension_index, has_dimension, Index
<1>7. dimension_index(dims, Name(dims[d].name)) = {d - 1} /\ has_dimension(dims, Name(dims[d].name))
  <2>1. {i \in DOMAIN dims : dims[i].name = dims[d].name} = {d}
    BY DEF IsGrid
  <2>2. Min({d}) = d
    <3>1. {d} \subseteq Nat /\ {d} # {}
      BY <1>1
    <3> QED
      BY <3>1, LeastNat
  <2>3. Name(dims[d].name).by = "name" /\ Name(dims[d].name).key = dims[d].name
    BY DEF Name
  <2>4. dimension_index(dims, Name(dims[d].name)) = {Min({d}) - 1}
    BY <2>1, <2>3 DEF dimension_index
  <2>5. has_dimension(dims, Name(dims[d].name))
    BY <2>3 DEF has_dimension
  <2> QED
    BY <2>2, <2>4, <2>5
<1> QED
  BY <1>5, <1>6, <1>7

\* Ranges as HasShape has them, and of them those a dimension keeps.
Shapes ==
    {r \in [kind : {"Single", "Multi", "Var"}, type : PhysicalType, lo : Seq(Int), hi : Seq(Int)] :
        r.kind = "Single" => Len(r.lo) = 1 /\ Len(r.hi) = 1}

Kept(dim) ==
    {r \in Shapes : Ordered(r) /\ r.kind = IF IsBounded(dim.constraints) THEN "Single" ELSE "Var"}

\* Any slice that HasShape is one of Shapes.
LEMMA ShapesAre ==
    ASSUME NEW r, HasShape(r)
    PROVE  r \in Shapes
<1>1. /\ r = [kind |-> r.kind, type |-> r.type, lo |-> r.lo, hi |-> r.hi]
      /\ r.kind \in {"Single", "Multi", "Var"} /\ r.type \in PhysicalType
      /\ r.kind = "Single" => Len(r.lo) = 1 /\ Len(r.hi) = 1
  BY DEF HasShape
<1>2. r.lo \in Seq(Int) /\ r.hi \in Seq(Int)
  <2>1. r.lo \in Seq(TMin(r.type)..TMax(r.type)) /\ r.hi \in Seq(TMin(r.type)..TMax(r.type))
    BY DEF HasShape
  <2>2. TMin(r.type)..TMax(r.type) \subseteq Int
    OBVIOUS
  <2> QED
    BY ONLY <2>1, <2>2, SeqWithin
<1>3. r \in [kind : {"Single", "Multi", "Var"}, type : PhysicalType, lo : Seq(Int), hi : Seq(Int)]
  BY <1>1, <1>2
<1> QED
  BY <1>1, <1>3 DEF Shapes

\* A range that suits is of the dimension's kind.
LEMMA SuitableIsKept ==
    ASSUME NEW dim, NEW r \in Shapes, Suits(dim, r)
    PROVE  r \in Kept(dim)
<1>1. r.kind \in {"Single", "Multi", "Var"} /\ Ordered(r)
  BY DEF Shapes, Suits, InDomain
<1>2. CASE IsBounded(dim.constraints)
  BY <1>1, <1>2 DEF Kept, Suits, check_dimension_compatibility, dimension_cell_val_num
<1>3. CASE ~ IsBounded(dim.constraints)
  BY <1>1, <1>3 DEF Kept, Suits, check_dimension_compatibility, dimension_cell_val_num, CellValNumVar
<1> QED
  BY <1>2, <1>3

\* Slices of one value are in the order of the value.
LEMMA OrderOfOne ==
    ASSUME NEW s \in Seq(Int), NEW t \in Seq(Int), Len(s) = 1, Len(t) = 1
    PROVE  le(s, t) <=> s[1] <= t[1]
<1>1. s[1] \in Int /\ t[1] \in Int /\ 1 \in 1..Len(s) /\ 1 \in 1..Len(t) /\ 1..(1 - 1) = {}
  OBVIOUS
<1>2. CASE s[1] < t[1]
  <2>1. Differ(s, t, 1)
    BY <1>1, <1>2 DEF Differ
  <2> QED
    BY <1>1, <1>2, <2>1, Ordering DEF Before
<1>3. CASE s[1] = t[1]
  <2>1. Starts(s, t)
    BY <1>1, <1>3 DEF Starts, AgreeOnBoth
  <2> QED
    BY <1>1, <1>3, <2>1, Ordering
<1>4. CASE t[1] < s[1]
  <2>1. ~ Starts(s, t)
    BY <1>1, <1>4 DEF Starts, AgreeOnBoth
  <2>2. ~ Before(s, t)
    BY <1>1, <1>4 DEF Before, Differ
  <2> QED
    BY <1>1, <1>4, <2>1, <2>2, Ordering
<1> QED
  BY <1>1, <1>2, <1>3, <1>4

\* What is kept still is not taken for none.
HasEnd(r) == range(r) = <<r>>

\* A cell of the dimension.
CellOf(dim, v) == v \in Seq(Int) /\ (IsBounded(dim.constraints) => Len(v) = 1)

\* A range added to those kept, joined to the last one or not: no cell more or less.
LEMMA Coalesces ==
    ASSUME NEW dim, NEW rs \in Seq(Kept(dim)), NEW r \in Kept(dim)
    PROVE  /\ Coalesced(rs, r) \in Seq(Kept(dim)) /\ Coalesced(rs, r) # <<>>
           /\ \A v : CellOf(dim, v) => (Covers(Coalesced(rs, r), v) <=> Covers(rs, v) \/ Inside(v, r))
           /\ (\A i \in DOMAIN rs : HasEnd(rs[i])) /\ HasEnd(r)
                 => \A i \in DOMAIN Coalesced(rs, r) : HasEnd(Coalesced(rs, r)[i])
<1> DEFINE n == Len(rs)
<1>1. n \in Nat /\ DOMAIN rs = 1..n /\ \A i \in 1..n : rs[i] \in Kept(dim)
  OBVIOUS
<1>2. CASE rs # <<>> /\ r.kind = "Single" /\ r.type \notin Floats /\ Last(rs).hi[1] + 1 = r.lo[1]
  <2> DEFINE q == rs[n]
             j == [q EXCEPT !.hi = r.hi]
             js == [rs EXCEPT ![n] = j]
  <2>1. Coalesced(rs, r) = js
    BY <1>2 DEF Coalesced
  <2>2. n \in 1..n /\ q \in Kept(dim) /\ Last(rs) = q
    BY <1>1, <1>2 DEF Last
  <2>3. IsBounded(dim.constraints)
    BY <1>2 DEF Kept
  <2>4. /\ q \in Shapes /\ q.kind = "Single" /\ q.lo \in Seq(Int) /\ q.hi \in Seq(Int)
        /\ Len(q.lo) = 1 /\ Len(q.hi) = 1 /\ le(q.lo, q.hi)
    BY <2>2, <2>3 DEF Kept, Shapes, Ordered
  <2>5. /\ r.lo \in Seq(Int) /\ r.hi \in Seq(Int)
        /\ Len(r.lo) = 1 /\ Len(r.hi) = 1 /\ le(r.lo, r.hi)
    BY <2>3 DEF Kept, Shapes, Ordered
  <2>6. /\ q.lo[1] \in Int /\ q.hi[1] \in Int /\ r.lo[1] \in Int /\ r.hi[1] \in Int
        /\ q.lo[1] <= q.hi[1] /\ r.lo[1] <= r.hi[1] /\ q.hi[1] + 1 = r.lo[1]
    BY <1>2, <2>2, <2>4, <2>5, OrderOfOne
  <2>7. j \in Shapes /\ j.kind = "Single" /\ j.lo = q.lo /\ j.hi = r.hi
    BY <2>4, <2>5 DEF Shapes
  <2> HIDE DEF j, q
  <2>8. le(j.lo, j.hi)
    BY <2>4, <2>5, <2>6, <2>7, OrderOfOne
  <2>9. j \in Kept(dim)
    BY <2>3, <2>7, <2>8 DEF Kept, Ordered
  <2>10. js \in Seq(Kept(dim)) /\ js # <<>> /\ DOMAIN js = 1..n /\ js[n] = j /\ \A i \in 1..n : i # n => js[i] = rs[i]
    BY <1>1, <2>2, <2>9
  <2> HIDE DEF js
  <2>11. ASSUME NEW v, CellOf(dim, v) PROVE Covers(js, v) <=> Covers(rs, v) \/ Inside(v, r)
    <3>0. v \in Seq(Int) /\ Len(v) = 1
      BY <2>3, <2>11 DEF CellOf
    <3>1. v \in Seq(Int) /\ Len(v) = 1 /\ v[1] \in Int
      BY ONLY <3>0
    <3>2. Inside(v, j) <=> q.lo[1] <= v[1] /\ v[1] <= r.hi[1]
      BY <2>4, <2>5, <2>7, <3>1, OrderOfOne DEF Inside
    <3>3. Inside(v, q) <=> q.lo[1] <= v[1] /\ v[1] <= q.hi[1]
      BY <2>4, <3>1, OrderOfOne DEF Inside
    <3>4. Inside(v, r) <=> r.lo[1] <= v[1] /\ v[1] <= r.hi[1]
      BY <2>5, <3>1, OrderOfOne DEF Inside
    <3>5. Inside(v, j) <=> Inside(v, q) \/ Inside(v, r)
      BY <2>6, <3>1, <3>2, <3>3, <3>4
    <3>6. Covers(js, v) <=> \E i \in 1..n : Inside(v, js[i])
      BY <2>10 DEF Covers
    <3>7. Covers(rs, v) <=> \E i \in 1..n : Inside(v, rs[i])
      BY <1>1 DEF Covers
    <3> QED
      BY <2>2, <2>10, <3>5, <3>6, <3>7 DEF q
  <2>12. ASSUME NEW i \in 1..n, \A k \in 1..n : HasEnd(rs[k]) PROVE HasEnd(js[i])
    <3>1. CASE i = n
      BY <2>7, <2>10, <3>1 DEF HasEnd, range
    <3>2. CASE i # n
      BY <2>10, <2>12, <3>2
    <3> QED
      BY <3>1, <3>2
  <2> QED
    BY <1>1, <2>1, <2>10, <2>11, <2>12
<1>3. CASE ~ (rs # <<>> /\ r.kind = "Single" /\ r.type \notin Floats /\ Last(rs).hi[1] + 1 = r.lo[1])
  <2> DEFINE js == Append(rs, r)
  <2>1. Coalesced(rs, r) = js
    BY <1>3 DEF Coalesced
  <2>2. js \in Seq(Kept(dim)) /\ DOMAIN js = 1..(n + 1) /\ js[n + 1] = r /\ \A i \in 1..n : js[i] = rs[i]
    OBVIOUS
  <2>3. 1..(n + 1) = (1..n) \cup {n + 1} /\ n + 1 \in DOMAIN js
    BY ONLY n \in Nat, <2>2
  <2>6. js # <<>>
    BY ONLY <2>3
  <2> HIDE DEF js
  <2>4. ASSUME NEW v PROVE Covers(js, v) <=> Covers(rs, v) \/ Inside(v, r)
    BY <1>1, <2>2, <2>3 DEF Covers
  <2>5. ASSUME HasEnd(r), \A k \in 1..n : HasEnd(rs[k]) PROVE \A i \in DOMAIN js : HasEnd(js[i])
    BY <2>2, <2>3, <2>5
  <2> QED
    BY <1>1, <2>1, <2>2, <2>4, <2>5, <2>6
<1> QED
  BY <1>2, <1>3

\* What a dimension holds of the first k ranges asked for.
Entry(dim, rs, k, e) ==
    /\ e \in Seq(Kept(dim))
    /\ k > 0 => e # <<>>
    /\ \A v : CellOf(dim, v) => (Covers(e, v) <=> \E i \in 1..k : Inside(v, rs[i]))
    /\ (\A i \in 1..k : HasEnd(rs[i])) => \A i \in DOMAIN e : HasEnd(e[i])

\* Of none it holds none.
LEMMA EntryOfNone ==
    ASSUME NEW dim, NEW rs
    PROVE  Entry(dim, rs, 0, <<>>)
  BY DEF Entry, Covers

\* The next one is added.
LEMMA EntryGrows ==
    ASSUME NEW dim, NEW rs, NEW k \in Nat, NEW e, Entry(dim, rs, k, e), rs[k + 1] \in Kept(dim)
    PROVE  Entry(dim, rs, k + 1, Coalesced(e, rs[k + 1]))
<1> DEFINE r == rs[k + 1]
           f == Coalesced(e, r)
<1>1. e \in Seq(Kept(dim)) /\ r \in Kept(dim)
  BY DEF Entry
<1> HIDE DEF r
<1>2. /\ f \in Seq(Kept(dim)) /\ f # <<>>
      /\ \A v : CellOf(dim, v) => (Covers(f, v) <=> Covers(e, v) \/ Inside(v, r))
      /\ (\A i \in DOMAIN e : HasEnd(e[i])) /\ HasEnd(r) => \A i \in DOMAIN f : HasEnd(f[i])
  BY <1>1, Coalesces
<1> HIDE DEF f
<1>3. 1..(k + 1) = (1..k) \cup {k + 1}
  OBVIOUS
<1>4. ASSUME NEW v, CellOf(dim, v) PROVE Covers(f, v) <=> \E i \in 1..(k + 1) : Inside(v, rs[i])
  <2>1. Covers(e, v) <=> \E i \in 1..k : Inside(v, rs[i])
    BY <1>4 DEF Entry
  <2> QED
    BY <1>2, <1>3, <1>4, <2>1 DEF r
<1>5. ASSUME \A i \in 1..(k + 1) : HasEnd(rs[i]) PROVE \A i \in DOMAIN f : HasEnd(f[i])
  <2>1. HasEnd(r) /\ \A i \in 1..k : HasEnd(rs[i])
    BY <1>3, <1>5 DEF r
  <2>2. \A i \in DOMAIN e : HasEnd(e[i])
    BY <2>1 DEF Entry
  <2> QED
    BY <1>2, <2>1, <2>2
<1>6. Entry(dim, rs, k + 1, f)
  BY <1>2, <1>4, <1>5 DEF Entry
<1> QED
  BY <1>6 DEF f, r

\* The ranges of a dimension, up to the n-th of them.
Adds(f, dims, c, d, rs, n) ==
    f = [i \in 0..n |->
            IF i = 0 THEN {c} ELSE UNION {add_range(dims, x, Index(d - 1), rs[i]) : x \in f[i - 1]}]

\* Such a function exists.
LEMMA AddsGo ==
    ASSUME NEW dims, NEW c, NEW d, NEW rs, NEW n \in Nat
    PROVE  \E f : Adds(f, dims, c, d, rs, n)
<1> DEFINE Next1(M, i) == UNION {add_range(dims, x, Index(d - 1), rs[i]) : x \in M}
           Goes(f, k) == f = [i \in 0..k |-> IF i = 0 THEN {c} ELSE Next1(f[i - 1], i)]
           S == {k \in 0..n : \E f : Goes(f, k)}
<1> HIDE DEF Next1
<1>1. 0 \in S
  <2>1. Goes([i \in 0..0 |-> {c}], 0)
    <3>1. \A i \in 0..0 : i = 0
      OBVIOUS
    <3> QED
      BY <3>1
  <2>2. 0 \in 0..n
    OBVIOUS
  <2> HIDE DEF Goes
  <2> QED
    BY <2>1, <2>2, Zenon
<1>2. ASSUME NEW k \in 0..(n - 1), k \in S PROVE k + 1 \in S
  <2>1. PICK f : Goes(f, k)
    BY <1>2
  <2> DEFINE g == [i \in 0..(k + 1) |-> IF i = k + 1 THEN Next1(f[k], k + 1) ELSE f[i]]
  <2>2. ASSUME NEW i \in 0..(k + 1) PROVE g[i] = IF i = 0 THEN {c} ELSE Next1(g[i - 1], i)
    <3>1. CASE i = k + 1
      <4>1. g[k] = f[k] /\ i # 0 /\ i - 1 = k
        BY <3>1
      <4> QED
        BY <3>1, <4>1
    <3>2. CASE i # k + 1
      <4>1. i \in 0..k /\ g[i] = f[i] /\ (i # 0 => g[i - 1] = f[i - 1])
        BY <3>2
      <4>2. f[i] = IF i = 0 THEN {c} ELSE Next1(f[i - 1], i)
        BY <2>1, <4>1, Zenon
      <4> QED
        BY <4>1, <4>2
    <3> QED
      BY <3>1, <3>2
  <2>3. g = [i \in 0..(k + 1) |-> g[i]]
    OBVIOUS
  <2> HIDE DEF g
  <2>4. Goes(g, k + 1)
    BY <2>2, <2>3, Zenon
  <2> QED
    BY <2>4
<1> HIDE DEF S
<1>3. n \in S
  <2>1. \A k \in 0..n : k \in S
    BY <1>1, <1>2, Induction
  <2> QED
    BY <2>1
<1> QED
  BY <1>3, Zenon DEF S, Adds, Next1

\* A subarray of the C library.
IsSubarray(dims, c) == c = [d \in DOMAIN dims |-> c[d]]

\* x is c with the first k of the ranges added in dimension d.
AddedTo(dims, c, d, rs, k, x) ==
    /\ IsSubarray(dims, x)
    /\ \A e \in DOMAIN dims : e # d => x[e] = c[e]
    /\ IF k = 0 THEN x = c ELSE x[d].set = TRUE /\ Entry(dims[d], rs, k, x[d].ranges)

\* One range more.
LEMMA AddsNext ==
    ASSUME NEW dims, NEW c, NEW d \in DOMAIN dims, NEW rs, NEW k \in Nat, NEW x,
           c[d].set = FALSE, AddedTo(dims, c, d, rs, k, x),
           rs[k + 1] \in Shapes, Suits(dims[d], rs[k + 1])
    PROVE  \E y : Added(dims, x, d, rs[k + 1]) = {y} /\ AddedTo(dims, c, d, rs, k + 1, y)
<1> DEFINE r == rs[k + 1]
           e == IF x[d].set THEN x[d].ranges ELSE <<>>
           entry == [set |-> TRUE, ranges |-> Coalesced(e, r)]
           y == [x EXCEPT ![d] = entry]
<1>1. IsSubarray(dims, x) /\ \A b \in DOMAIN dims : b # d => x[b] = c[b]
  BY DEF AddedTo
<1>2. Entry(dims[d], rs, k, e)
  <2>1. CASE k = 0
    BY <2>1, EntryOfNone DEF AddedTo
  <2>2. CASE k # 0
    BY <2>2 DEF AddedTo
  <2> QED
    BY <2>1, <2>2
<1>3. r \in Kept(dims[d])
  BY SuitableIsKept
<1>4. Added(dims, x, d, r) = {y}
  BY DEF Added
<1> HIDE DEF e
<1>5. Entry(dims[d], rs, k + 1, Coalesced(e, r))
  BY <1>2, <1>3, EntryGrows
<1>6. entry.set = TRUE /\ entry.ranges = Coalesced(e, r)
  OBVIOUS
<1> HIDE DEF entry
<1>7. y[d] = entry /\ IsSubarray(dims, y) /\ \A b \in DOMAIN dims : b # d => y[b] = c[b]
  BY <1>1 DEF IsSubarray
<1> HIDE DEF y, r
<1>8. AddedTo(dims, c, d, rs, k + 1, y)
  BY <1>5, <1>6, <1>7 DEF AddedTo, r
<1> QED
  BY <1>4, <1>8 DEF r

\* The ranges of a dimension are taken if each of them suits.
LEMMA AddsEach ==
    ASSUME NEW dims, IsGrid(dims), NEW d \in DOMAIN dims, NEW rs \in Seq(Shapes),
           NEW c, IsSubarray(dims, c), c[d].set = FALSE
    PROVE  /\ AddAll(dims, c, d, rs) # {} <=> \A i \in 1..Len(rs) : Suits(dims[d], rs[i])
           /\ \A x \in AddAll(dims, c, d, rs) : AddedTo(dims, c, d, rs, Len(rs), x)
<1> DEFINE n == Len(rs)
           f == CHOOSE g : Adds(g, dims, c, d, rs, n)
           Taken(k) == /\ f[k] # {} <=> \A i \in 1..k : Suits(dims[d], rs[i])
                       /\ \A x \in f[k] : AddedTo(dims, c, d, rs, k, x)
           S == {k \in 0..n : Taken(k)}
<1>1. n \in Nat /\ \A i \in 1..n : rs[i] \in Shapes
  OBVIOUS
<1>2. AddAll(dims, c, d, rs) = f[n]
  BY Zenon DEF AddAll, Adds
<1>3. Adds(f, dims, c, d, rs, n)
  <2>1. \E g : Adds(g, dims, c, d, rs, n)
    BY <1>1, AddsGo
  <2> QED
    BY <2>1, Zenon
<1> HIDE DEF n, f
<1>4. \A i \in 0..n : f[i] = IF i = 0 THEN {c}
                             ELSE UNION {add_range(dims, x, Index(d - 1), rs[i]) : x \in f[i - 1]}
  BY <1>3, Zenon DEF Adds
<1>5. 0 \in S
  <2>1. 0 \in 0..n /\ 1..0 = {}
    BY <1>1
  <2>2. f[0] = {c}
    BY <1>4, <2>1, Zenon
  <2>3. AddedTo(dims, c, d, rs, 0, c)
    BY DEF AddedTo
  <2> QED
    BY <2>1, <2>2, <2>3
<1>6. ASSUME NEW k \in 0..(n - 1), k \in S PROVE k + 1 \in S
  <2>1. k + 1 \in 0..n /\ k + 1 \in 1..n /\ k + 1 # 0 /\ (k + 1) - 1 = k /\ 1..(k + 1) = (1..k) \cup {k + 1}
    BY <1>1
  <2>2. Taken(k)
    BY <1>6
  <2> DEFINE r == rs[k + 1]
  <2>3. r \in Shapes
    BY <1>1, <2>1
  <2>4. f[k + 1] = UNION {Added(dims, x, d, r) : x \in f[k]}
    <3>1. f[k + 1] = UNION {add_range(dims, x, Index(d - 1), r) : x \in f[(k + 1) - 1]}
      BY <1>4, <2>1, Zenon
    <3>2. \A x : add_range(dims, x, Index(d - 1), r) = Added(dims, x, d, r)
      BY AddsOne
    <3> QED
      BY <2>1, <3>1, <3>2
  <2>5. CASE Suits(dims[d], r)
    <3>1. ASSUME NEW x \in f[k]
          PROVE  \E y : Added(dims, x, d, r) = {y} /\ AddedTo(dims, c, d, rs, k + 1, y)
      <4>1. AddedTo(dims, c, d, rs, k, x)
        BY <2>2
      <4> QED
        BY ONLY k \in Nat, d \in DOMAIN dims, c[d].set = FALSE, <2>3, <2>5, <4>1, AddsNext
    <3>2. f[k + 1] # {} <=> f[k] # {}
      <4>1. \A x \in f[k] : Added(dims, x, d, r) # {}
        BY <3>1
      <4> QED
        BY <2>4, <4>1
    <3>3. \A y \in f[k + 1] : AddedTo(dims, c, d, rs, k + 1, y)
      BY <2>4, <3>1
    <3>4. Taken(k + 1)
      BY <2>1, <2>2, <2>5, <3>2, <3>3
    <3> QED
      BY <2>1, <3>4
  <2>6. CASE ~ Suits(dims[d], r)
    <3>1. \A x : Added(dims, x, d, r) = {}
      BY <2>6 DEF Added
    <3>2. f[k + 1] = {}
      BY <2>4, <3>1
    <3>3. Taken(k + 1)
      BY <2>1, <2>6, <3>2
    <3> QED
      BY <2>1, <3>3
  <2> QED
    BY <2>5, <2>6
<1> HIDE DEF S
<1>7. n \in S
  <2>1. \A k \in 0..n : k \in S
    BY <1>1, <1>5, <1>6, Induction
  <2> QED
    BY <1>1, <2>1
<1>8. Taken(n)
  BY <1>7 DEF S
<1> QED
  BY <1>2, <1>8 DEF n

\* The ranges of all dimensions, up to the n-th of these.
Gives(f, dims, c, s, n) ==
    f = [i \in 0..n |->
            IF i = 0 THEN {c} ELSE UNION {AddAll(dims, x, i, s[i]) : x \in f[i - 1]}]

\* Such a function exists.
LEMMA GivesGo ==
    ASSUME NEW dims, NEW c, NEW s, NEW n \in Nat
    PROVE  \E f : Gives(f, dims, c, s, n)
<1> DEFINE Next1(M, i) == UNION {AddAll(dims, x, i, s[i]) : x \in M}
           Goes(f, k) == f = [i \in 0..k |-> IF i = 0 THEN {c} ELSE Next1(f[i - 1], i)]
           S == {k \in 0..n : \E f : Goes(f, k)}
<1> HIDE DEF Next1
<1>1. 0 \in S
  <2>1. Goes([i \in 0..0 |-> {c}], 0)
    <3>1. \A i \in 0..0 : i = 0
      OBVIOUS
    <3> QED
      BY <3>1
  <2>2. 0 \in 0..n
    OBVIOUS
  <2> HIDE DEF Goes
  <2> QED
    BY <2>1, <2>2, Zenon
<1>2. ASSUME NEW k \in 0..(n - 1), k \in S PROVE k + 1 \in S
  <2>1. PICK f : Goes(f, k)
    BY <1>2
  <2> DEFINE g == [i \in 0..(k + 1) |-> IF i = k + 1 THEN Next1(f[k], k + 1) ELSE f[i]]
  <2>2. ASSUME NEW i \in 0..(k + 1) PROVE g[i] = IF i = 0 THEN {c} ELSE Next1(g[i - 1], i)
    <3>1. CASE i = k + 1
      <4>1. g[k] = f[k] /\ i # 0 /\ i - 1 = k
        BY <3>1
      <4> QED
        BY <3>1, <4>1
    <3>2. CASE i # k + 1
      <4>1. i \in 0..k /\ g[i] = f[i] /\ (i # 0 => g[i - 1] = f[i - 1])
        BY <3>2
      <4>2. f[i] = IF i = 0 THEN {c} ELSE Next1(f[i - 1], i)
        BY <2>1, <4>1, Zenon
      <4> QED
        BY <4>1, <4>2
    <3> QED
      BY <3>1, <3>2
  <2>3. g = [i \in 0..(k + 1) |-> g[i]]
    OBVIOUS
  <2> HIDE DEF g
  <2>4. Goes(g, k + 1)
    BY <2>2, <2>3, Zenon
  <2> QED
    BY <2>4
<1> HIDE DEF S
<1>3. n \in S
  <2>1. \A k \in 0..n : k \in S
    BY <1>1, <1>2, Induction
  <2> QED
    BY <2>1
<1> QED
  BY <1>3, Zenon DEF S, Gives, Next1

\* x is c with the ranges of the first k dimensions.
GivenTo(dims, c, s, k, x) ==
    /\ IsSubarray(dims, x)
    /\ \A d \in DOMAIN dims :
          IF d <= k /\ s[d] # <<>>
          THEN x[d].set = TRUE /\ Entry(dims[d], s[d], Len(s[d]), x[d].ranges)
          ELSE x[d] = c[d]

AllSuit(dim, rs) == \A i \in 1..Len(rs) : Suits(dim, rs[i])

\* One dimension more.
LEMMA GivesNext ==
    ASSUME NEW dims, IsGrid(dims), NEW c, NEW s, NEW k \in Nat, k + 1 \in DOMAIN dims,
           s[k + 1] \in Seq(Shapes), c[k + 1].set = FALSE, NEW x, GivenTo(dims, c, s, k, x)
    PROVE  /\ AddAll(dims, x, k + 1, s[k + 1]) # {} <=> AllSuit(dims[k + 1], s[k + 1])
           /\ \A y \in AddAll(dims, x, k + 1, s[k + 1]) : GivenTo(dims, c, s, k + 1, y)
<1> DEFINE d  == k + 1
           rs == s[d]
<1>1. IsSubarray(dims, x) /\ x[d] = c[d]
  BY DEF GivenTo
<1>2. /\ AddAll(dims, x, d, rs) # {} <=> \A i \in 1..Len(rs) : Suits(dims[d], rs[i])
      /\ \A y \in AddAll(dims, x, d, rs) : AddedTo(dims, x, d, rs, Len(rs), y)
  <2>1. d \in DOMAIN dims /\ rs \in Seq(Shapes) /\ x[d].set = FALSE
    BY <1>1
  <2> HIDE DEF d, rs
  <2> QED
    BY <1>1, <2>1, AddsEach
<1>3. ASSUME NEW y \in AddAll(dims, x, d, rs) PROVE GivenTo(dims, c, s, d, y)
  <2>1. AddedTo(dims, x, d, rs, Len(rs), y)
    BY <1>2, <1>3
  <2>2. IsSubarray(dims, y) /\ \A b \in DOMAIN dims : b # d => y[b] = x[b]
    BY <2>1 DEF AddedTo
  <2>3. IF rs = <<>> THEN y[d] = c[d]
        ELSE y[d].set = TRUE /\ Entry(dims[d], rs, Len(rs), y[d].ranges)
    <3>1. Len(rs) = 0 <=> rs = <<>>
      OBVIOUS
    <3> QED
      BY <1>1, <2>1, <3>1 DEF AddedTo
  <2>4. ASSUME NEW b \in DOMAIN dims
        PROVE  IF b <= d /\ s[b] # <<>>
               THEN y[b].set = TRUE /\ Entry(dims[b], s[b], Len(s[b]), y[b].ranges)
               ELSE y[b] = c[b]
    <3>1. CASE b = d
      BY <2>3, <3>1
    <3>2. CASE b # d
      <4>1. y[b] = x[b] /\ (b <= d <=> b <= k)
        <5>1. b \in Nat
          BY DEF IsGrid
        <5> QED
          BY <2>2, <3>2, <5>1
      <4> QED
        BY <4>1 DEF GivenTo
    <3> QED
      BY <3>1, <3>2
  <2> QED
    BY <2>2, <2>4 DEF GivenTo
<1> QED
  BY <1>2, <1>3 DEF AllSuit

\* The ranges of all dimensions are taken if each of them suits its dimension.
LEMMA GivesEach ==
    ASSUME NEW dims, IsGrid(dims), NEW s, DOMAIN s = DOMAIN dims, Len(s) = Len(dims),
           \A d \in DOMAIN dims : s[d] \in Seq(Shapes),
           NEW c, IsSubarray(dims, c), \A d \in DOMAIN dims : c[d].set = FALSE
    PROVE  /\ dimension_ranges(dims, c, s) # {} <=> \A d \in DOMAIN dims : AllSuit(dims[d], s[d])
           /\ \A x \in dimension_ranges(dims, c, s) : GivenTo(dims, c, s, Len(dims), x)
<1> DEFINE n == Len(s)
           f == CHOOSE g : Gives(g, dims, c, s, n)
           Taken(k) == /\ f[k] # {} <=> \A d \in 1..k : AllSuit(dims[d], s[d])
                       /\ \A x \in f[k] : GivenTo(dims, c, s, k, x)
           S == {k \in 0..n : Taken(k)}
<1>1. n \in Nat /\ DOMAIN dims = 1..n
  BY DEF IsGrid
<1>2. dimension_ranges(dims, c, s) = f[n]
  BY Zenon DEF dimension_ranges, Gives
<1>3. Gives(f, dims, c, s, n)
  <2>1. \E g : Gives(g, dims, c, s, n)
    BY <1>1, GivesGo
  <2> QED
    BY <2>1, Zenon
<1> HIDE DEF n, f
<1>4. \A i \in 0..n : f[i] = IF i = 0 THEN {c} ELSE UNION {AddAll(dims, x, i, s[i]) : x \in f[i - 1]}
  BY <1>3, Zenon DEF Gives
<1>5. 0 \in S
  <2>1. 0 \in 0..n /\ 1..0 = {}
    BY <1>1
  <2>2. f[0] = {c}
    BY <1>4, <2>1, Zenon
  <2>3. GivenTo(dims, c, s, 0, c)
    BY <1>1 DEF GivenTo
  <2> QED
    BY <2>1, <2>2, <2>3
<1>6. ASSUME NEW k \in 0..(n - 1), k \in S PROVE k + 1 \in S
  <2>1. k + 1 \in 0..n /\ k + 1 \in 1..n /\ k + 1 # 0 /\ (k + 1) - 1 = k /\ 1..(k + 1) = (1..k) \cup {k + 1}
    BY <1>1
  <2>2. Taken(k)
    BY <1>6
  <2>3. f[k + 1] = UNION {AddAll(dims, x, k + 1, s[k + 1]) : x \in f[k]}
    <3>1. f[k + 1] = UNION {AddAll(dims, x, k + 1, s[k + 1]) : x \in f[(k + 1) - 1]}
      BY <1>4, <2>1, Zenon
    <3> QED
      BY <2>1, <3>1
  <2>4. ASSUME NEW x \in f[k]
        PROVE  /\ AddAll(dims, x, k + 1, s[k + 1]) # {} <=> AllSuit(dims[k + 1], s[k + 1])
               /\ \A y \in AddAll(dims, x, k + 1, s[k + 1]) : GivenTo(dims, c, s, k + 1, y)
    <3>1. GivenTo(dims, c, s, k, x)
      BY <2>2
    <3>2. k + 1 \in DOMAIN dims /\ s[k + 1] \in Seq(Shapes) /\ c[k + 1].set = FALSE
      BY <1>1, <2>1
    <3> QED
      BY ONLY k \in Nat, IsGrid(dims), <3>1, <3>2, GivesNext
  <2>5. f[k + 1] # {} <=> f[k] # {} /\ AllSuit(dims[k + 1], s[k + 1])
    BY <2>3, <2>4
  <2>6. \A y \in f[k + 1] : GivenTo(dims, c, s, k + 1, y)
    BY <2>3, <2>4
  <2>7. Taken(k + 1)
    BY <2>1, <2>2, <2>5, <2>6
  <2> QED
    BY <2>1, <2>7
<1> HIDE DEF S
<1>7. n \in S
  <2>1. \A k \in 0..n : k \in S
    BY <1>1, <1>5, <1>6, Induction
  <2> QED
    BY <1>1, <2>1
<1>8. Taken(n)
  BY <1>7 DEF S
<1> QED
  BY <1>1, <1>2, <1>8 DEF n

\* Of the ranges of a dimension, those that are not taken for none are read back.
LEMMA ReadBack ==
    ASSUME NEW X, NEW e \in Seq(X)
    PROVE  LET back == FlattenSeq([i \in DOMAIN e |-> range(e[i])])
           IN  /\ back \in Seq(X) /\ DOMAIN back = 1..Len(back)
               /\ \A x : Has(back, x) <=> Has(e, x) /\ HasEnd(x)
<1> DEFINE seqs == [i \in DOMAIN e |-> range(e[i])]
           back == FlattenSeq(seqs)
<1>1. ASSUME NEW x
      PROVE  /\ range(x) = IF HasEnd(x) THEN <<x>> ELSE <<>>
             /\ x \in X => range(x) \in Seq(X)
             /\ \A y : Has(range(x), y) <=> y = x /\ HasEnd(x)
  <2>1. range(x) = <<x>> \/ (range(x) = <<>> /\ <<>> # <<x>>)
    BY DEF range
  <2>2. range(x) = IF HasEnd(x) THEN <<x>> ELSE <<>>
    BY <2>1 DEF HasEnd
  <2>3. \A y : (Has(<<x>>, y) <=> y = x) /\ ~ Has(<<>>, y)
    BY DEF Has
  <2> QED
    BY <2>2, <2>3
<1>2. DOMAIN seqs = 1..Len(e) /\ \A i \in 1..Len(e) : seqs[i] = range(e[i]) /\ e[i] \in X
  OBVIOUS
<1>3. seqs \in Seq(Seq(X)) /\ Len(seqs) = Len(e)
  BY <1>1, <1>2
<1> HIDE DEF seqs
<1>4. back \in Seq(X) /\ \A x : Has(back, x) <=> \E i \in 1..Len(seqs) : Has(seqs[i], x)
  BY <1>3, FlattenHas
<1>5. DOMAIN back = 1..Len(back)
  BY <1>4
<1>6. ASSUME NEW x PROVE Has(back, x) <=> Has(e, x) /\ HasEnd(x)
  <2>1. Has(back, x) <=> \E i \in 1..Len(e) : Has(range(e[i]), x)
    BY <1>2, <1>3, <1>4
  <2>2. \A i \in 1..Len(e) : Has(range(e[i]), x) <=> x = e[i] /\ HasEnd(e[i])
    BY <1>1
  <2> QED
    BY <2>1, <2>2 DEF Has
<1> QED
  BY <1>4, <1>5, <1>6 DEF seqs

\* e is what a dimension holds of rs, none of it taken for none.
HeldOf(dim, rs, e) ==
    /\ rs \in Seq(Shapes) /\ \A i \in 1..Len(rs) : HasEnd(rs[i])
    /\ IF rs # <<>> THEN Entry(dim, rs, Len(rs), e) ELSE e = <<DefaultRange(dim)>>

InDimension(dim, v) ==
    CellOf(dim, v) /\ \A r \in constraint_domain(dim.constraints) : Inside(v, r)

Back(e) == FlattenSeq([i \in DOMAIN e |-> range(e[i])])

\* A dimension read back selects what the ranges given for it do.
LEMMA DimensionReadBack ==
    ASSUME NEW dim, NEW rs, NEW e, HeldOf(dim, rs, e), NEW v, InDimension(dim, v)
    PROVE  SelectsAt(Back(e), v) <=> SelectsAt(rs, v)
<1> DEFINE back == Back(e)
<1>0. /\ rs \in Seq(Shapes) /\ \A i \in 1..Len(rs) : HasEnd(rs[i])
      /\ IF rs # <<>> THEN Entry(dim, rs, Len(rs), e) ELSE e = <<DefaultRange(dim)>>
      /\ CellOf(dim, v) /\ \A r \in constraint_domain(dim.constraints) : Inside(v, r)
  BY DEF HeldOf, InDimension
<1>1. \E X : e \in Seq(X)
  <2>1. <<DefaultRange(dim)>> \in Seq({DefaultRange(dim)})
    OBVIOUS
  <2> QED
    BY <1>0, <2>1 DEF Entry
<1>2. PICK X : e \in Seq(X)
  BY <1>1
<1>3. back \in Seq(X) /\ DOMAIN back = 1..Len(back) /\ \A x : Has(back, x) <=> Has(e, x) /\ HasEnd(x)
  BY <1>2, ReadBack DEF Back
<1> HIDE DEF back
<1>4. DOMAIN e = 1..Len(e)
  BY <1>2
<1>5. Covers(back, v) <=> \E x : Has(e, x) /\ HasEnd(x) /\ Inside(v, x)
  <2>1. Covers(back, v) <=> \E x : Has(back, x) /\ Inside(v, x)
    BY <1>3 DEF Covers, Has
  <2> QED
    BY <1>3, <2>1
<1>6. CASE rs # <<>>
  <2>1. /\ e # <<>> /\ \A i \in DOMAIN e : HasEnd(e[i])
        /\ Covers(e, v) <=> \E i \in 1..Len(rs) : Inside(v, rs[i])
    <3>1. Len(rs) > 0
      BY <1>0, <1>6
    <3> QED
      BY <1>0, <1>6, <3>1 DEF Entry
  <2>2. Covers(back, v) <=> Covers(e, v)
    BY <1>4, <1>5, <2>1 DEF Covers, Has
  <2>3. back # <<>>
    <3>1. e[1] = e[1] /\ 1 \in DOMAIN e
      BY <1>2, <2>1
    <3>2. Has(back, e[1])
      BY <1>3, <1>4, <2>1, <3>1 DEF Has
    <3> QED
      BY <3>2 DEF Has
  <2>4. Covers(rs, v) <=> \E i \in 1..Len(rs) : Inside(v, rs[i])
    BY <1>0 DEF Covers
  <2> QED
    BY <1>6, <2>1, <2>2, <2>3, <2>4 DEF SelectsAt, back
<1>7. CASE rs = <<>>
  <2> DEFINE r == DefaultRange(dim)
  <2>1. \A x : Has(e, x) <=> x = r
    <3>1. e = <<r>>
      BY <1>0, <1>7
    <3> HIDE DEF r
    <3> QED
      BY <3>1 DEF Has
  <2>2. CASE IsBounded(dim.constraints)
    <3> DEFINE q == Single(dim.constraints.type, dim.constraints.lo, dim.constraints.hi)
    <3>1. constraint_domain(dim.constraints) = {q}
      BY <2>2 DEF constraint_domain
    <3>2. r = q
      <4>1. r = CHOOSE x \in {q} : TRUE
        BY <2>2, <3>1 DEF DefaultRange
      <4> HIDE DEF q, r
      <4> QED
        BY <4>1
    <3>3. HasEnd(q)
      BY DEF HasEnd, range, Single
    <3>4. Inside(v, q)
      BY <1>0, <3>1
    <3> HIDE DEF q, r
    <3>5. Covers(back, v)
      BY <1>5, <2>1, <3>2, <3>3, <3>4
    <3> QED
      BY <1>7, <3>5 DEF SelectsAt, back
  <2>3. CASE ~ IsBounded(dim.constraints)
    <3>1. r = Unlimited
      BY <2>3 DEF DefaultRange
    <3>2. ~ HasEnd(Unlimited)
      BY DEF HasEnd, range, Unlimited, VarRange
    <3> HIDE DEF r
    <3>3. \A x : ~ Has(back, x)
      BY <1>3, <2>1, <3>1, <3>2
    <3>4. back = <<>>
      <4>1. ASSUME Len(back) # 0 PROVE FALSE
        <5>1. Has(back, back[1])
          BY <1>3, <4>1 DEF Has
        <5> QED
          BY <3>3, <5>1
      <4> QED
        BY <1>3, <4>1
    <3> QED
      BY <1>7, <3>4 DEF SelectsAt, back
  <2> QED
    BY <2>2, <2>3
<1> QED
  BY <1>6, <1>7

\* Whatever is asked for in dimensions of different names.
LEMMA SubarrayReturns ==
    ASSUME NEW dims, IsGrid(dims), NEW s, DOMAIN s = DOMAIN dims, Len(s) = Len(dims),
           \A d \in DOMAIN dims : s[d] \in Seq(Shapes),
           NEW cells, \A cell \in cells : \A d \in DOMAIN dims : CellOf(dims[d], cell[d])
    PROVE  SubarrayAsGiven(dims, s, cells)
<1> DEFINE alloc == subarray_alloc(dims)
           built == dimension_ranges(dims, alloc, s)
           pairs == UNION {{<<d, s[d][i]>> : i \in DOMAIN s[d]} : d \in DOMAIN s}
           Goes(d, r) == /\ check_dimension_compatibility(r, dims[d].datatype,
                                dimension_cell_val_num(dims[d].constraints)) = "Ok"
                         /\ InDomain(dims[d].constraints, r)
<1>1. \A d \in DOMAIN dims : /\ DOMAIN s[d] = 1..Len(s[d])
                            /\ d \in Nat /\ d <= Len(dims)
  BY DEF IsGrid
<1>2. /\ IsSubarray(dims, alloc)
      /\ \A d \in DOMAIN dims : alloc[d].set = FALSE /\ alloc[d].ranges = <<DefaultRange(dims[d])>>
  BY DEF subarray_alloc, IsSubarray
<1> HIDE DEF alloc
<1>3. /\ built # {} <=> \A d \in DOMAIN dims : AllSuit(dims[d], s[d])
      /\ \A x \in built : GivenTo(dims, alloc, s, Len(dims), x)
  BY <1>2, GivesEach
<1> HIDE DEF built
<1>4. ASSUME NEW a \in pairs
      PROVE  \E d \in DOMAIN dims : \E i \in 1..Len(s[d]) : a = <<d, s[d][i]>>
  BY <1>1
<1>5. ASSUME NEW d \in DOMAIN dims, NEW i \in 1..Len(s[d]) PROVE <<d, s[d][i]>> \in pairs
  BY <1>1
<1> HIDE DEF pairs
<1>6. built # {} <=> \A a \in pairs : Goes(a[1], a[2])
  <2>1. \A d, r : Suits(dims[d], r) <=> Goes(d, r)
    BY DEF Suits
  <2> HIDE DEF Goes
  <2>2. (\A a \in pairs : Goes(a[1], a[2])) <=> \A d \in DOMAIN dims : AllSuit(dims[d], s[d])
    <3>1. ASSUME \A a \in pairs : Goes(a[1], a[2]), NEW d \in DOMAIN dims, NEW i \in 1..Len(s[d])
          PROVE  Suits(dims[d], s[d][i])
      <4>1. Goes(<<d, s[d][i]>>[1], <<d, s[d][i]>>[2])
        BY <1>5, <3>1
      <4> QED
        BY <2>1, <4>1
    <3>2. ASSUME \A d \in DOMAIN dims : AllSuit(dims[d], s[d]), NEW a \in pairs
          PROVE  Goes(a[1], a[2])
      <4>1. PICK d \in DOMAIN dims : \E i \in 1..Len(s[d]) : a = <<d, s[d][i]>>
        BY <1>4
      <4>2. PICK i \in 1..Len(s[d]) : a = <<d, s[d][i]>>
        BY <4>1
      <4>3. Suits(dims[d], s[d][i])
        BY <3>2 DEF AllSuit
      <4> QED
        BY <2>1, <4>2, <4>3
    <3> QED
      BY <3>1, <3>2 DEF AllSuit
  <2> QED
    BY <1>3, <2>2
<1>7. \A a \in pairs, c \in built :
          add_range(dims, c, Name(dims[a[1]].name), a[2]) = add_range(dims, c, Index(a[1] - 1), a[2])
  <2> SUFFICES ASSUME NEW a \in pairs, NEW c \in built
               PROVE  add_range(dims, c, Name(dims[a[1]].name), a[2]) = add_range(dims, c, Index(a[1] - 1), a[2])
    OBVIOUS
  <2>1. a[1] \in DOMAIN dims
    BY <1>4
  <2> QED
    BY <2>1, AddsOne
<1>8. ASSUME \A a \in pairs : a[2].lo # <<>> \/ a[2].hi # <<>>,
             NEW c \in built, NEW cell \in cells,
             \A d \in DOMAIN dims : \A r \in constraint_domain(dims[d].constraints) : Inside(cell[d], r)
      PROVE  Selects(ranges(dims, c), cell) <=> Selects(s, cell)
  <2> DEFINE back == ranges(dims, c)
  <2>1. GivenTo(dims, alloc, s, Len(dims), c)
    BY <1>3
  <2>2. ASSUME NEW d \in DOMAIN dims PROVE SelectsAt(back[d], cell[d]) <=> SelectsAt(s[d], cell[d])
    <3>1. back[d] = Back(c[d].ranges)
      BY DEF ranges, Back
    <3>2. ASSUME NEW i \in 1..Len(s[d]) PROVE HasEnd(s[d][i])
      <4>1. <<d, s[d][i]>> \in pairs
        BY <1>5
      <4>2. s[d][i].lo # <<>> \/ s[d][i].hi # <<>>
        BY <1>8, <4>1
      <4> QED
        BY <4>2 DEF HasEnd, range
    <3>3. HeldOf(dims[d], s[d], c[d].ranges)
      BY <1>1, <1>2, <2>1, <3>2 DEF GivenTo, HeldOf
    <3>4. InDimension(dims[d], cell[d])
      BY <1>8 DEF InDimension
    <3> HIDE DEF back
    <3> QED
      BY <3>1, <3>3, <3>4, DimensionReadBack
  <2>3. DOMAIN back = DOMAIN dims
    BY DEF ranges
  <2> HIDE DEF back
  <2>4. \A x : Selects(x, cell) <=> \A d \in DOMAIN x : SelectsAt(x[d], cell[d])
    BY DEF Selects, SelectsAt, Covers
  <2>5. Selects(back, cell) <=> Selects(s, cell)
    BY <2>2, <2>3, <2>4
  <2> QED
    BY <2>5 DEF back
<1>9. (\A a \in pairs : a[2].lo # <<>> \/ a[2].hi # <<>>) =>
          \A c \in built, cell \in cells :
             (\A d \in DOMAIN dims : \A r \in constraint_domain(dims[d].constraints) : Inside(cell[d], r))
             => (Selects(ranges(dims, c), cell) <=> Selects(s, cell))
  BY <1>8
<1> QED
  BY <1>6, <1>7, <1>9, Zenon DEF SubarrayAsGiven, built, pairs, alloc

\* What TakeSubarray takes.
BuiltTaken(dims, s) == dims \in Grids /\ s \in [DOMAIN dims -> Asked]

\* A subarray taken, built and read back.
LEMMA TakenSubarrays ==
    ASSUME NEW dims, NEW s, BuiltTaken(dims, s)
    PROVE  SubarrayAsGiven(dims, s, GridCells(dims))
<1>1. IsGrid(dims) /\ s \in [DOMAIN dims -> Asked]
  BY GridsAre DEF BuiltTaken, IsGrid
<1>2. DOMAIN s = DOMAIN dims /\ Len(s) = Len(dims)
  <2>1. DOMAIN dims = 1..Len(dims) /\ Len(dims) \in Nat
    BY <1>1 DEF IsGrid
  <2>2. s \in Seq(Asked) /\ DOMAIN s = 1..Len(dims)
    BY <1>1, <2>1
  <2> QED
    BY <2>1, <2>2
<1>3. ASSUME NEW d \in DOMAIN dims PROVE s[d] \in Seq(Shapes)
  <2>1. s[d] \in Seq(ToSet(s[d])) /\ \A r \in ToSet(s[d]) : HasShape(r)
    BY <1>1, AskedAre
  <2>2. ToSet(s[d]) \subseteq Shapes
    BY <2>1, ShapesAre
  <2> QED
    BY ONLY <2>1, <2>2, SeqWithin
<1>4. \A cell \in GridCells(dims) : \A d \in DOMAIN dims : CellOf(dims[d], cell[d])
  BY SlicesAre DEF GridCells, CellOf
<1> QED
  BY <1>1, <1>2, <1>3, <1>4, SubarrayReturns
-----------------------------------------------------------------------------
(* The operations.                                                         *)

(***************************************************************************)
(* The invariant: every input is one that its operation takes.             *)
(***************************************************************************)
RangesTaken(l, r) ==
    \E kind \in {"Single", "Multi", "Var"}, T \in PhysicalType, n \in CellNumbers :
        IsRange(l, kind, T, n) /\ IsRange(r, kind, T, n)

SubarraysTaken(s, t) ==
    \E a \in RangeLists, b \in RangeLists : s \in a \X b /\ t \in a \X b

FiltersTaken(in) ==
    \E dt \in Datatypes : \E context, position, allow :
        in = [op |-> "filters",
              req |-> [input |-> {dt}, context |-> context, position |-> position, allow |-> allow]]

SubarrayTaken(c, bound) ==
    \E dt \in DimensionDatatypes, limit \in Nat :
        /\ c \in prop_constraints(dt, limit) /\ IsBounded(c)
        /\ bound \in {{}} \cup {{n} : n \in Limits}

KeyTaken(d) ==
    \E dt \in DimensionDatatypes, limit \in Nat :
        \E c \in prop_constraints(dt, limit), fs \in {{}} \cup {{p} : p \in Pipelines} :
            d = [name |-> "d", datatype |-> dt, constraints |-> c, filters |-> fs]

InputsTaken ==
    /\ input.op = "datatype" => input.dt \in Datatypes /\ input.cvn \in Nat
    /\ input.op = "arrow" => input.arrow \in ArrowInputs
    /\ input.op = "ranges" => RangesTaken(input.l, input.r)
    /\ input.op = "bounds" => /\ input.dt \in Datatypes /\ input.cvn \in Nat
                              /\ input.start \in Seq(Int) /\ input.end \in Seq(Int)
    /\ input.op = "intersected" => SubarraysTaken(input.s, input.t)
    /\ input.op = "filters" => FiltersTaken(input)
    /\ input.op = "dimension" => /\ input.dt \in DimensionDatatypes
                                 /\ input.limit \in Nat /\ input.limit > 1
    /\ input.op = "subarray" => SubarrayTaken(input.c, input.bound)
    /\ input.op = "key" => KeyTaken(input.d)
    /\ input.op = "tiles" => /\ input.type \in PhysicalType \ Floats
                             /\ input.n \in Nat /\ input.n > 0 /\ input.limit \in Nat
    /\ input.op = "built" => BuiltTaken(input.dims, input.s)
    /\ input.op = "condition" =>
          Q!IsExpression(input.e) /\ \A cell \in ConditionCells : Q!IsCell(cell, Q!Mentions(input.e))
    /\ input.op = "search" => SearchFits(input)

\* A filter drawn leaves a datatype for the next one.
LEMMA DrawsTake ==
    ASSUME FiltersTaken(input), NEW draw \in Draws(input.req)
    PROVE  FiltersTaken([input EXCEPT !.req = draw[2]])
<1>0. PICK dt \in Datatypes : \E context, position, allow :
          input = [op |-> "filters",
                   req |-> [input |-> {dt}, context |-> context, position |-> position, allow |-> allow]]
  BY DEF FiltersTaken
<1>1. PICK context, position, allow :
          input = [op |-> "filters",
                   req |-> [input |-> {dt}, context |-> context, position |-> position, allow |-> allow]]
  BY <1>0
<1> DEFINE req == [input |-> {dt}, context |-> context, position |-> position, allow |-> allow]
<1>2. input.req = req
  BY <1>1
<1>3. PICK f \in prop_filter(req) :
          draw = <<f, [req EXCEPT !.input = UNION {transform_datatype(f, d) : d \in req.input},
                                  !.position = {p + 1 : p \in req.position}]>>
  BY <1>2 DEF Draws
<1>4. IsDrawn(f, {dt})
  <2>1. req.input = {dt}
    OBVIOUS
  <2> QED
    BY <2>1, FiltersDrawn
<1>5. PICK to \in Datatypes : transform_datatype(f, dt) = {to}
  BY <1>4, DrawnTransform
<1>6. UNION {transform_datatype(f, d) : d \in req.input} = {to}
  BY <1>5
<1>7. PICK next : next = {p + 1 : p \in req.position}
  OBVIOUS
<1>8. draw[2] = [input |-> {to}, context |-> context, position |-> next, allow |-> allow]
  <2>1. draw[2] = [req EXCEPT !.input = {to}, !.position = next]
    BY <1>3, <1>6, <1>7
  <2> QED
    BY ONLY <2>1 DEF req
<1>9. [input EXCEPT !.req = draw[2]] = [op |-> "filters", req |-> draw[2]]
  BY <1>1
<1>10. [input EXCEPT !.req = draw[2]]
          = [op |-> "filters",
             req |-> [input |-> {to}, context |-> context, position |-> next, allow |-> allow]]
  BY <1>8, <1>9, Zenon
<1> QED
  BY <1>10, Zenon DEF FiltersTaken

\* In every state the input is one that its operation takes.
LEMMA InputsAreTaken == ValuesSpec => []InputsTaken
<1>1. ValuesInit => InputsTaken
  BY DEF ValuesInit, InputsTaken
<1>2. InputsTaken /\ [ValuesNext]_input => InputsTaken'
  <2> SUFFICES ASSUME InputsTaken, [ValuesNext]_input PROVE InputsTaken'
    OBVIOUS
  <2>1. CASE TakeDatatype
    BY <2>1, CellNumbersAre DEF TakeDatatype, InputsTaken
  <2>2. CASE TakeArrow
    BY <2>2 DEF TakeArrow, InputsTaken
  <2>3. CASE TakeRanges
    <3>1. PICK rs \in RangeInputs : \E l, r \in rs : input' = [op |-> "ranges", l |-> l, r |-> r]
      BY <2>3 DEF TakeRanges
    <3>2. PICK l \in rs, r \in rs : input' = [op |-> "ranges", l |-> l, r |-> r]
      BY <3>1
    <3>3. RangesTaken(l, r)
      BY RangesAreAlike DEF Alike, RangesTaken
    <3> QED
      BY <3>2, <3>3 DEF InputsTaken
  <2>4. CASE TakeBounds
    BY <2>4, CellNumbersAre, SlicesAre DEF TakeBounds, InputsTaken
  <2>5. CASE TakeIntersected
    <3>1. PICK a \in RangeLists, b \in RangeLists :
              \E s, t \in a \X b : input' = [op |-> "intersected", s |-> s, t |-> t]
      BY <2>5 DEF TakeIntersected
    <3>2. PICK s \in a \X b, t \in a \X b : input' = [op |-> "intersected", s |-> s, t |-> t]
      BY <3>1
    <3>3. SubarraysTaken(s, t)
      BY DEF SubarraysTaken
    <3> QED
      BY <3>2, <3>3 DEF InputsTaken
  <2>6. CASE TakeFilters
    <3>1. FiltersTaken(input')
      BY <2>6, DatatypesAre DEF TakeFilters, FiltersTaken
    <3>2. input'.op = "filters"
      BY <2>6 DEF TakeFilters
    <3> QED
      BY <3>1, <3>2 DEF InputsTaken
  <2>7. CASE DrawFilter
    <3>1. FiltersTaken(input')
      BY <2>7, DrawsTake DEF DrawFilter, InputsTaken
    <3>2. input'.op = "filters"
      BY <3>1 DEF FiltersTaken
    <3> QED
      BY <3>1, <3>2 DEF InputsTaken
  <2>8. CASE TakeDimension
    <3>1. PICK dt \in DimensionDatatypes, limit \in Limits \ {0, 1} :
          \/ input' = [op |-> "dimension", dt |-> dt, limit |-> limit]
          \/ \E c \in prop_constraints(dt, limit), bound \in {{}} \cup {{n} : n \in Limits} :
                IsBounded(c) /\ input' = [op |-> "subarray", c |-> c, bound |-> bound]
          \/ \E c \in prop_constraints(dt, limit), fs \in {{}} \cup {{p} : p \in Pipelines} :
                input' = [op |-> "key",
                          d |-> [name |-> "d", datatype |-> dt, constraints |-> c, filters |-> fs]]
          \/ \E n \in CellNumbers \ {0} :
                input' = [op |-> "tiles", type |-> physical(dt), n |-> n, limit |-> limit]
      BY <2>8, Zenon DEF TakeDimension
    <3>2. limit \in Nat /\ limit > 1
      BY LimitsAre
    <3>3. CASE input' = [op |-> "dimension", dt |-> dt, limit |-> limit]
      BY <3>2, <3>3 DEF InputsTaken
    <3>4. CASE \E c \in prop_constraints(dt, limit), bound \in {{}} \cup {{n} : n \in Limits} :
                  IsBounded(c) /\ input' = [op |-> "subarray", c |-> c, bound |-> bound]
      <4>1. PICK c \in prop_constraints(dt, limit), bound \in {{}} \cup {{n} : n \in Limits} :
                IsBounded(c) /\ input' = [op |-> "subarray", c |-> c, bound |-> bound]
        BY <3>4, Zenon
      <4>2. SubarrayTaken(c, bound)
        BY <3>2, <4>1, Zenon DEF SubarrayTaken
      <4> QED
        BY <4>1, <4>2 DEF InputsTaken
    <3>5. CASE \E c \in prop_constraints(dt, limit), fs \in {{}} \cup {{p} : p \in Pipelines} :
                  input' = [op |-> "key",
                            d |-> [name |-> "d", datatype |-> dt, constraints |-> c, filters |-> fs]]
      <4>1. PICK c \in prop_constraints(dt, limit), fs \in {{}} \cup {{p} : p \in Pipelines} :
                input' = [op |-> "key",
                          d |-> [name |-> "d", datatype |-> dt, constraints |-> c, filters |-> fs]]
        BY <3>5, Zenon
      <4> DEFINE d == [name |-> "d", datatype |-> dt, constraints |-> c, filters |-> fs]
      <4>2. KeyTaken(d)
        BY <3>2, Zenon DEF KeyTaken
      <4> HIDE DEF d
      <4>3. input' = [op |-> "key", d |-> d]
        BY <4>1 DEF d
      <4> QED
        BY <4>2, <4>3 DEF InputsTaken
    <3>6. CASE \E n \in CellNumbers \ {0} :
                  input' = [op |-> "tiles", type |-> physical(dt), n |-> n, limit |-> limit]
      <4>1. PICK n \in CellNumbers \ {0} :
                input' = [op |-> "tiles", type |-> physical(dt), n |-> n, limit |-> limit]
        BY <3>6
      <4>2. n \in Nat /\ n > 0
        BY CellNumbersAre
      <4>3. physical(dt) \in PhysicalType \ Floats
        BY DimensionsOf
      <4> QED
        BY <3>2, <4>1, <4>2, <4>3 DEF InputsTaken
    <3> QED
      BY <3>1, <3>3, <3>4, <3>5, <3>6, Zenon
  <2>9. CASE TakeCondition
    <3>1. PICK e \in Conditions : input' = [op |-> "condition", e |-> e]
      BY <2>9 DEF TakeCondition
    <3>2. Q!IsExpression(e) /\ \A cell \in ConditionCells : Q!IsCell(cell, Q!Mentions(e))
      BY ConditionsAre, ConditionCellsAre
    <3>3. input'.op = "condition" /\ input'.e = e
      BY <3>1
    <3> QED
      BY <3>2, <3>3 DEF InputsTaken
  <2>10. CASE TakeSearch
    <3>0. PICK e \in Failing : \E culprits \in SUBSET Q!Mentions(e) : input' = Q!Search(e, culprits)
      BY <2>10 DEF TakeSearch
    <3>1. PICK culprits \in SUBSET Q!Mentions(e) : input' = Q!Search(e, culprits)
      BY <3>0
    <3>2. SearchFits(input')
      BY <3>1, ConditionsAre, SearchStarts
    <3>3. input'.op = "search"
      BY <3>2 DEF SearchFits
    <3> QED
      BY <3>2, <3>3 DEF InputsTaken
  <2>11. CASE RunTestAgain
    <3>1. SearchFits(input')
      BY <2>11, SearchGoesOn DEF RunTestAgain, InputsTaken
    <3>2. input'.op = "search"
      BY <3>1 DEF SearchFits
    <3> QED
      BY <3>1, <3>2 DEF InputsTaken
  <2>12. CASE TakeSubarray
    <3>1. PICK dims \in Grids : \E s \in [DOMAIN dims -> Asked] : input' = [op |-> "built", dims |-> dims, s |-> s]
      BY <2>12 DEF TakeSubarray
    <3>2. PICK s \in [DOMAIN dims -> Asked] : input' = [op |-> "built", dims |-> dims, s |-> s]
      BY <3>1
    <3>3. BuiltTaken(dims, s)
      BY DEF BuiltTaken
    <3> QED
      BY <3>2, <3>3 DEF InputsTaken
  <2>13. CASE UNCHANGED input
    BY <2>13 DEF InputsTaken
  <2> QED
    BY <2>1, <2>2, <2>3, <2>4, <2>5, <2>6, <2>7, <2>8, <2>9, <2>10, <2>11, <2>12, <2>13 DEF ValuesNext
<1> QED
  BY <1>1, <1>2, PTL DEF ValuesSpec

\* DatatypesAgree always: the tables of datatypes agree (common/src/datatype), and datatypes
\* and Arrow types come back from the conversions to each other, for every cell value number.
THEOREM DatatypesAndArrowAgree == ValuesSpec => []DatatypesAgree
<1>1. InputsTaken => DatatypesAgree
  BY AllTablesAgree, DatatypesReturn, ArrowTypesReturn DEF InputsTaken, DatatypesAgree
<1> QED
  BY <1>1, InputsAreTaken, PTL

\* Two ranges of one kind and type: counted, met and joined.
LEMMA TakenRanges ==
    ASSUME NEW l, NEW r, RangesTaken(l, r)
    PROVE  CountsCells(l) /\ MeetAndJoin(l, r, CellsLike(l))
<1>1. PICK kind \in {"Single", "Multi", "Var"}, T \in PhysicalType, n \in CellNumbers :
          IsRange(l, kind, T, n) /\ IsRange(r, kind, T, n)
  BY DEF RangesTaken
<1>2. CountsCells(l)
  BY <1>1, RangesCount
<1> DEFINE m == IF kind = "Multi" THEN n ELSE 2
<1>3. /\ l \in RangesOf(kind, T, m) /\ Ordered(l)
      /\ r \in RangesOf(kind, T, m) /\ Ordered(r)
      /\ kind = "Multi" => n > 1
  BY <1>1, RangesAre DEF OrderedRanges
<1>4. m \in Nat /\ m > 1
  BY <1>3, CellNumbersAre
<1>5. CellsLike(l) \in SUBSET Seq(Int)
  <2>1. \A k \in Nat : [1..k -> TMin(l.type)..TMax(l.type)] \subseteq Seq(Int)
    <3> SUFFICES ASSUME NEW k \in Nat, NEW v \in [1..k -> TMin(l.type)..TMax(l.type)]
                 PROVE  v \in Seq(Int)
      OBVIOUS
    <3>1. \A i \in 1..k : v[i] \in Int
      OBVIOUS
    <3> QED
      BY <3>1, CellsAreSlices
  <2>2. Len(l.lo) \in Nat
    BY <1>1 DEF IsRange
  <2> QED
    BY <2>1, <2>2, CellNumbersAre DEF CellsLike
<1> HIDE DEF m
<1>6. MeetAndJoin(l, r, CellsLike(l))
  BY <1>3, <1>4, <1>5, RangesMeetAndJoin
<1> QED
  BY <1>2, <1>6

\* RangeAlgebra always: the cells of a range are counted, ranges intersect and join as sets of
\* cells do (common/src/range.rs), slices of bytes make ranges, and subarrays intersect as sets
\* of cells (pod/src/query/subarray.rs), for all bounds, lengths and physical types.
THEOREM RangesAreAlgebra == ValuesSpec => []RangeAlgebra
<1>1. InputsTaken => RangeAlgebra
  <2> SUFFICES ASSUME InputsTaken PROVE RangeAlgebra
    OBVIOUS
  <2>1. input.op = "ranges" => CountsCells(input.l) /\ MeetAndJoin(input.l, input.r, CellsLike(input.l))
    BY TakenRanges DEF InputsTaken
  <2>2. input.op = "bounds" => FromSlicesFits(input.dt, input.cvn, input.start, input.end)
    BY SlicesFit DEF InputsTaken
  <2>3. input.op = "intersected" => IntersectionSelects(input.s, input.t, Coordinates \X Coordinates)
    BY SubarraysIntersect DEF InputsTaken, SubarraysTaken
  <2> QED
    BY <2>1, <2>2, <2>3 DEF RangeAlgebra
<1> QED
  BY <1>1, InputsAreTaken, PTL

\* FilterRoundTrip always: every filter a strategy draws is read back from the C filter, lists
\* from the metadata of Arrow, and a pipeline has a datatype at each position (api/src/filter).
THEOREM DrawnFiltersRoundTrip == ValuesSpec => []FilterRoundTrip
<1>1. InputsTaken => FilterRoundTrip
  <2> SUFFICES ASSUME InputsTaken, input.op = "filters" PROVE FilterRoundTrip
    BY DEF FilterRoundTrip
  <2>1. PipelineTransforms(input.req)
    BY DEF InputsTaken, FiltersTaken, PipelineTransforms
  <2>2. DrawnFiltersReturn(input.req)
    BY DrawnReturn
  <2> QED
    BY <2>1, <2>2 DEF FilterRoundTrip
<1> QED
  BY <1>1, InputsAreTaken, PTL

\* DrawnDimensionsFit always: drawn bounds, extents, subarrays and tiles are within the type
\* and the limits, and dimensions come back (pod/src/array), for all integer types and limits.
THEOREM DrawnDimensionsAreFit == ValuesSpec => []DrawnDimensionsFit
<1>1. InputsTaken => DrawnDimensionsFit
  <2> SUFFICES ASSUME InputsTaken PROVE DrawnDimensionsFit
    OBVIOUS
  <2>1. input.op = "dimension" => DrawnConstraintsFit(input.dt, input.limit)
    BY DrawnConstraints DEF InputsTaken
  <2>2. input.op = "subarray" => DrawnSubarraysFit(input.c, input.bound)
    BY DrawnSubarrays DEF InputsTaken, SubarrayTaken
  <2>3. input.op = "key" => DimensionRoundTrip(input.d)
    BY DimensionsReturn DEF InputsTaken, KeyTaken
  <2>4. input.op = "tiles" => DrawnTilesFit(input.type, input.n, input.limit)
    BY DrawnTiles DEF InputsTaken
  <2> QED
    BY <2>1, <2>2, <2>3, <2>4 DEF DrawnDimensionsFit
<1> QED
  BY <1>1, InputsAreTaken, PTL

\* SubarraysAsGiven always: the C library takes a range exactly if it suits its dimension, by
\* index as by name, and what is read back of a subarray (query/subarray.rs) selects the cells
\* asked for, if no range has two empty ends, for all dimensions, ranges and numbers of them.
THEOREM SubarraysReadBack == ValuesSpec => []SubarraysAsGiven
<1>1. InputsTaken => SubarraysAsGiven
  BY TakenSubarrays DEF InputsTaken, SubarraysAsGiven
<1> QED
  BY <1>1, InputsAreTaken, PTL

\* ConditionMeans always: what the C library is given for an expression (condition/mod.rs)
\* selects the cells of which the expression is true, read as the SQL it is shown as, however
\* deep it is and for all cells with nulls, though the library pushes negations down to the
\* comparisons; provided the buffers of its sets are described as they are. It is refused only
\* for an empty set.
THEOREM ConditionsMean == ValuesSpec => []ConditionMeans
<1>1. InputsTaken => ConditionMeans
  <2> SUFFICES ASSUME InputsTaken, input.op = "condition" PROVE Q!ConditionMeans(input.e, ConditionCells)
    BY DEF ConditionMeans
  <2>1. Q!IsExpression(input.e) /\ \A cell \in ConditionCells : Q!IsCell(cell, Q!Mentions(input.e))
    BY DEF InputsTaken
  <2> QED
    BY <2>1, ExpressionsMean
<1> QED
  BY <1>1, InputsAreTaken, PTL

\* ConditionShrinks always: what the value tree (condition/strategy.rs) reports fails the
\* test, for every expression and all the fields a test may fail on; and in the end it is of
\* the left side of a combination if that fails alone, or else of the right if that does.
THEOREM ConditionsShrink == ValuesSpec => []ConditionShrinks
<1>1. InputsTaken => ConditionShrinks
  BY SearchFinds DEF InputsTaken, ConditionShrinks
<1> QED
  BY <1>1, InputsAreTaken, PTL
=============================================================================
