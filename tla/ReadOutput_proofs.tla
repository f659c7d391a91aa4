-------------------------- MODULE ReadOutput_proofs --------------------------
(***************************************************************************)
(* Read outputs, for all buffers: each iterator hands out the cells the C  *)
(* library left, in order, and slices only of memory that outlives it; and *)
(* an Arrow array made of an output can be written back: the field gets    *)
(* the cells and nulls the output had.                                     *)
(***************************************************************************)
EXTENDS ReadOutput, SequenceTheorems, WellFoundedInduction, TLAPS

Owners     == {"empty", "borrowed", "owned"}
CellStructure == [width : Nat, offsets : SUBSET [own : Owners, items : Seq(Nat)]]

\* An output of values of T in whose buffers the parts are, each in at most one.
OutputOf(T, n, q) ==
    /\ n \in Nat
    /\ q.data.items \in Seq(T)
    /\ q.cells \in CellStructure
    /\ q.cells.width = 0 <=> q.cells.offsets # {}
    /\ \A o \in q.cells.offsets : q.cells.offsets = {o}
    /\ \A v \in q.validity : q.validity = {v} /\ v.items \in Seq(Int)
    /\ IsOutput(n, q)

AreOutputs(T) == \A o \in Outputs : OutputOf(T, o.n, o.q)

\* Where an iterator is, and what it has handed out until there.
Progress ==
    /\ kind \in Kinds
    /\ output \in Outputs
    /\ index \in Nat
    /\ yielded \in Seq({CellsOf(output.n, output.q)[i] : i \in 1..output.n})
    /\ \A i \in 1..Len(yielded) : yielded[i] = CellsOf(output.n, output.q)[i]
    /\ Len(yielded) <= output.n
    /\ Len(yielded) = index \/ (Len(yielded) = output.n /\ output.n < index)
    /\ nones => Len(yielded) = output.n
    /\ index = Len(yielded) \/ nones
    /\ state \in {"open", "dropped"} => Accepts(kind, output.q)
    /\ state \notin {"open", "dropped"} => yielded = <<>>

\* A slice of one value is that value.
LEMMA SliceOfOne ==
    ASSUME NEW T, NEW d \in Seq(T), NEW i \in Nat, i < Len(d)
    PROVE  SubSeq(d, i + 1, i + 1) = <<d[i + 1]>>
<1> DEFINE s == SubSeq(d, i + 1, i + 1)  t == <<d[i + 1]>>
<1>1. s \in Seq(T) /\ Len(s) = 1 /\ s[1] = d[i + 1]
  <2>1. i + 1 \in 1..Len(d) /\ Len(d) \in Nat
    OBVIOUS
  <2>2. s \in Seq(T)
    BY <2>1
  <2>3. Len(s) = 1
    BY <2>1
  <2>4. s[1] = d[i + 1]
    BY <2>1
  <2> QED
    BY <2>2, <2>3, <2>4
<1>2. t \in Seq(T) /\ Len(t) = 1 /\ t[1] = d[i + 1]
  OBVIOUS
<1> HIDE DEF s, t
<1>3. \A k \in 1..Len(s) : s[k] = t[k]
  BY <1>1, <1>2
<1>4. s = t
  BY <1>1, <1>2, <1>3, SeqEqual
<1> QED
  BY <1>4 DEF s, t

\* The cells of fixed-length buffers, counted from 0.
LEMMA FixedCell ==
    ASSUME NEW n \in Nat, NEW q, q.cells.width \in Nat, is_fixed(q.cells), NEW i \in Nat, i < n
    PROVE  CellsOf(n, q)[i + 1]
             = SubSeq(q.data.items, i * q.cells.width + 1, (i + 1) * q.cells.width)
<1> DEFINE w == q.cells.width
<1>1. CellsOf(n, q) = [k \in 1..n |-> SubSeq(q.data.items, (k - 1) * w + 1, k * w)]
  BY DEF CellsOf
<1>2. i + 1 \in 1..n /\ (i + 1) - 1 = i
  OBVIOUS
<1>3. CellsOf(n, q)[i + 1] = SubSeq(q.data.items, ((i + 1) - 1) * w + 1, (i + 1) * w)
  BY <1>1, <1>2, Zenon
<1> QED
  BY <1>2, <1>3, Zenon

\* The cells of variable-length buffers, counted from 0.
LEMMA VarCell ==
    ASSUME NEW n \in Nat, NEW q, ~is_fixed(q.cells), NEW i \in Nat, i < n
    PROVE  CellsOf(n, q)[i + 1]
             = SubSeq(q.data.items, Only(q.cells.offsets).items[i + 1] + 1,
                                    Only(q.cells.offsets).items[i + 2])
<1> DEFINE o == Only(q.cells.offsets).items
<1>1. CellsOf(n, q) = [k \in 1..n |-> SubSeq(q.data.items, o[k] + 1, o[k + 1])]
  BY DEF CellsOf
<1>2. i + 1 \in 1..n /\ (i + 1) + 1 = i + 2
  OBVIOUS
<1>3. CellsOf(n, q)[i + 1] = SubSeq(q.data.items, o[i + 1] + 1, o[(i + 1) + 1])
  BY <1>1, <1>2, Zenon
<1> QED
  BY <1>2, <1>3, Zenon

\* The cell an iterator finds at its index is the cell of the output there, for each of
\* the three ways to find it.
LEMMA CellIsNext ==
    ASSUME NEW T, AreOutputs(T), output \in Outputs, kind \in Kinds,
           Accepts(kind, output.q), NEW i \in Nat, i < output.n
    PROVE  Cell(i) = CellsOf(output.n, output.q)[i + 1]
<1> DEFINE n == output.n  q == output.q
<1>1. /\ n \in Nat /\ q.data.items \in Seq(T) /\ q.cells.width \in Nat
      /\ q.cells.width = 0 <=> q.cells.offsets # {}
  BY DEF AreOutputs, OutputOf, CellStructure
<1>2. CASE kind = "single"
  <2>1. q.cells.width = 1 /\ is_fixed(q.cells)
    BY <1>1, <1>2 DEF Accepts, SingleAccepts, is_single, is_fixed
  <2>2. CellsOf(n, q)[i + 1]
          = SubSeq(q.data.items, i * q.cells.width + 1, (i + 1) * q.cells.width)
    BY <1>1, <2>1, FixedCell
  <2>3. i * q.cells.width = i /\ (i + 1) * q.cells.width = i + 1
    BY <2>1
  <2>4. nvalues(n, q) = n /\ nvalues(n, q) <= Len(q.data.items)
    BY <1>1, <2>1 DEF AreOutputs, OutputOf, IsOutput, nvalues
  <2>5. SubSeq(q.data.items, i + 1, i + 1) = <<q.data.items[i + 1]>>
    BY <1>1, <2>4, SliceOfOne
  <2>6. Cell(i) = <<q.data.items[i + 1]>>
    BY <1>2 DEF Cell
  <2> QED
    BY <2>2, <2>3, <2>5, <2>6, Zenon
<1>3. CASE kind = "fixed"
  <2>1. is_fixed(q.cells)
    BY <1>3 DEF Accepts, FixedAccepts
  <2>2. Cell(i) = SubSeq(q.data.items, i * q.cells.width + 1, (i + 1) * q.cells.width)
    BY <1>3 DEF Cell
  <2> QED
    BY <1>1, <2>1, <2>2, FixedCell
<1>4. CASE kind = "var"
  <2>1. ~is_fixed(q.cells)
    BY <1>4 DEF Accepts, VarAccepts, is_var, is_fixed
  <2>2. Cell(i) = SubSeq(q.data.items, Only(q.cells.offsets).items[i + 1] + 1,
                                       Only(q.cells.offsets).items[i + 2])
    BY <1>4 DEF Cell
  <2> QED
    BY <1>1, <2>1, <2>2, VarCell
<1> QED
  BY <1>2, <1>3, <1>4 DEF Kinds, Accepts
-----------------------------------------------------------------------------
\* Progress holds at the start, of an iterator that is not made yet.
LEMMA ProgressInit ==
    ASSUME NEW T, AreOutputs(T), OutputInit
    PROVE  Progress
<1>1. output.n \in Nat
  BY DEF AreOutputs, OutputOf, OutputInit
<1>2. yielded \in Seq({CellsOf(output.n, output.q)[i] : i \in 1..output.n}) /\ Len(yielded) = 0
  BY DEF OutputInit
<1> QED
  BY <1>1, <1>2 DEF OutputInit, Progress

\* An iterator that hands out the next cell, says there is none, is made or goes away
\* keeps to the progress it has made.
LEMMA ProgressKept ==
    ASSUME NEW T, AreOutputs(T), Progress, [OutputNext]_outputVars
    PROVE  Progress'
<1> USE DEF Progress
<1>1. output.n \in Nat
  BY DEF AreOutputs, OutputOf
<1>2. CASE TryNew
  BY <1>2 DEF TryNew
<1>3. CASE NextSome
  <2>1. index < output.n /\ state = "open" /\ Accepts(kind, output.q) /\ Len(yielded) = index
    BY <1>1, <1>3 DEF NextSome, More
  <2>2. Cell(index) = CellsOf(output.n, output.q)[index + 1]
    BY <2>1, CellIsNext
  <2> DEFINE C == CellsOf(output.n, output.q)
  <2> HIDE DEF C
  <2>3. /\ yielded' = Append(yielded, C[index + 1]) /\ index' = index + 1
        /\ UNCHANGED <<state, kind, output, nones>>
    BY <1>3, <2>2 DEF NextSome, C
  <2>4. /\ yielded' \in Seq({C[i] : i \in 1..output.n})
        /\ Len(yielded') = index + 1
        /\ \A i \in 1..Len(yielded') : yielded'[i] = C[i]
    BY <1>1, <2>1, <2>3 DEF C
  <2> QED
    BY <1>1, <2>1, <2>3, <2>4 DEF C
<1>4. CASE NextNone
  BY <1>1, <1>4 DEF NextNone, More
<1>5. CASE DropIterator
  BY <1>5 DEF DropIterator
<1>6. CASE IntoArray
  BY <1>6 DEF IntoArray
<1>7. CASE UNCHANGED outputVars
  BY <1>7 DEF outputVars
<1> QED
  BY <1>2, <1>3, <1>4, <1>5, <1>6, <1>7 DEF OutputNext

LEMMA ProgressAlways ==
    ASSUME NEW T, AreOutputs(T)
    PROVE  OutputSpec => []Progress
<1>1. OutputInit => Progress
  BY ProgressInit
<1>2. Progress /\ [OutputNext]_outputVars => Progress'
  BY ProgressKept
<1> QED
  BY <1>1, <1>2, PTL DEF OutputSpec

\* The items of an iterator are the cells of the output, in order, and None comes after
\* the last one and not before (query/read/output/mod.rs).
THEOREM IteratorYieldsCells ==
    ASSUME NEW T, AreOutputs(T)
    PROVE  OutputSpec => []YieldsCells
<1>1. Progress => YieldsCells
  <2> SUFFICES ASSUME Progress PROVE YieldsCells
    OBVIOUS
  <2>1. output.n \in Nat /\ DOMAIN yielded = 1..Len(yielded)
    BY DEF AreOutputs, OutputOf, Progress
  <2>2. Len(yielded) <= output.n /\ \A i \in DOMAIN yielded : yielded[i] = CellsOf(output.n, output.q)[i]
    BY <2>1 DEF Progress
  <2>3. ~nones => size_hint = output.n - Len(yielded)
    BY DEF Progress, size_hint
  <2> QED
    BY <2>2, <2>3 DEF Progress, YieldsCells
<1> QED
  BY <1>1, ProgressAlways, PTL

\* No slice is left when the iterator has gone away with the memory it was cut from.
THEOREM IteratorSlicesLive ==
    ASSUME NEW T, AreOutputs(T)
    PROVE  OutputSpec => []SlicesLive
<1>1. Progress => SlicesLive
  BY DEF Progress, SlicesLive, Accepts, Kinds
<1> QED
  BY <1>1, ProgressAlways, PTL
-----------------------------------------------------------------------------
(***************************************************************************)
(* Values cut into cells: where the cells end, and all of them joined.     *)
(***************************************************************************)
\* Induction over an interval, from the least element of a set.
LEMMA Induction ==
    ASSUME NEW n \in Nat, NEW S, 0 \in S, \A k \in 0..(n - 1) : k \in S => k + 1 \in S
    PROVE  \A k \in 0..n : k \in S
<1> DEFINE bad == {k \in 0..n : k \notin S}
<1>1. SUFFICES ASSUME bad # {} PROVE FALSE
  OBVIOUS
<1>2. IsWellFoundedOn(OpToRel(<, Nat), Nat)
  BY NatLessThanWellFounded
<1>3. bad \subseteq Nat
  OBVIOUS
<1>4. PICK x \in bad : \A y \in bad : ~ (<<y, x>> \in OpToRel(<, Nat))
  BY <1>1, <1>2, <1>3, WFMin
<1>5. \A y \in bad : ~ (y < x)
  BY <1>3, <1>4 DEF OpToRel
<1>6. x \in 0..n /\ x \notin S
  OBVIOUS
<1>7. x - 1 \in 0..(n - 1) /\ (x - 1) + 1 = x
  BY <1>6
<1>8. x - 1 \in S
  BY <1>5, <1>7
<1> QED
  BY <1>6, <1>7, <1>8

\* Values cut into cells at n ends, none of which is before the one before it.
Cut(values, n, end, cells) ==
    /\ n \in Nat /\ end \in [0..n -> Nat] /\ end[0] = 0 /\ end[n] = Len(values)
    /\ \A i \in 1..n : end[i - 1] <= end[i]
    /\ cells = [i \in 1..n |-> SubSeq(values, end[i - 1] + 1, end[i])]

\* No cell ends behind the values.
LEMMA CutsInside ==
    ASSUME NEW T, NEW values \in Seq(T), NEW n, NEW end, NEW cells, Cut(values, n, end, cells)
    PROVE  \A i \in 0..n : end[i] \in Nat /\ end[i] <= Len(values)
<1>1. n \in Nat /\ end \in [0..n -> Nat] /\ end[n] = Len(values) /\ \A i \in 1..n : end[i - 1] <= end[i]
  BY DEF Cut
<1> DEFINE S == {k \in 0..n : end[n - k] <= Len(values)}
<1>2. 0 \in S
  BY <1>1
<1>3. ASSUME NEW k \in 0..(n - 1), k \in S PROVE k + 1 \in S
  <2>1. n - k \in 1..n /\ (n - k) - 1 = n - (k + 1) /\ k + 1 \in 0..n /\ n - k \in 0..n /\ n - (k + 1) \in 0..n
    BY <1>1
  <2>2. end[n - (k + 1)] <= end[n - k] /\ end[n - (k + 1)] \in Nat /\ end[n - k] \in Nat
    BY <1>1, <2>1
  <2>3. end[n - k] <= Len(values)
    BY <1>3
  <2> QED
    BY <2>1, <2>2, <2>3
<1> HIDE DEF S
<1>4. \A k \in 0..n : k \in S
  BY <1>1, <1>2, <1>3, Induction
<1>5. ASSUME NEW i \in 0..n PROVE end[i] \in Nat /\ end[i] <= Len(values)
  <2>1. n - i \in 0..n /\ n - (n - i) = i
    BY <1>1
  <2>2. n - i \in S
    BY <1>4, <2>1
  <2> QED
    BY <1>1, <2>1, <2>2 DEF S
<1> QED
  BY <1>5

\* A cell, and the values up to its end.
LEMMA CellCut ==
    ASSUME NEW T, NEW values \in Seq(T), NEW n, NEW end, NEW cells, Cut(values, n, end, cells),
           NEW i \in 1..n
    PROVE  /\ cells[i] \in Seq(T) /\ end[i - 1] \in Nat /\ end[i] \in Nat
           /\ cells[i] = SubSeq(values, end[i - 1] + 1, end[i])
           /\ Len(cells[i]) = end[i] - end[i - 1]
           /\ SubSeq(values, 1, end[i - 1]) \o cells[i] = SubSeq(values, 1, end[i])
<1>1. /\ n \in Nat /\ i - 1 \in 0..n /\ i \in 0..n /\ end[i - 1] <= end[i]
      /\ cells[i] = SubSeq(values, end[i - 1] + 1, end[i])
  <2>1. /\ n \in Nat /\ \A j \in 1..n : end[j - 1] <= end[j]
        /\ cells = [j \in 1..n |-> SubSeq(values, end[j - 1] + 1, end[j])]
    BY DEF Cut
  <2>2. cells[i] = SubSeq(values, end[i - 1] + 1, end[i])
    BY <2>1, Zenon
  <2>3. end[i - 1] <= end[i]
    BY <2>1, Zenon
  <2>4. i - 1 \in 0..n /\ i \in 0..n
    BY <2>1
  <2> QED
    BY <2>1, <2>2, <2>3, <2>4, Zenon
<1>2. /\ end[i - 1] \in Nat /\ end[i] \in Nat /\ end[i] <= Len(values)
  BY <1>1, CutsInside
<1> DEFINE lo == end[i - 1]  hi == end[i]
<1> HIDE DEF lo, hi
<1>3. lo \in Nat /\ hi \in Nat /\ lo <= hi /\ hi <= Len(values) /\ Len(values) \in Nat
  BY <1>1, <1>2 DEF lo, hi
<1>4. \A j \in (lo + 1)..hi : values[j] \in T
  BY <1>3
<1>5. /\ SubSeq(values, lo + 1, hi) \in Seq(T)
      /\ Len(SubSeq(values, lo + 1, hi)) = IF lo + 1 <= hi THEN hi - (lo + 1) + 1 ELSE 0
  BY <1>3, <1>4, SubSeqProperties
<1>6. SubSeq(values, 1, lo) \o SubSeq(values, lo + 1, hi) = SubSeq(values, 1, hi)
  <2>1. lo \in 0..hi
    BY <1>3
  <2> QED
    BY <1>3, ConcatAdjacentSubSeq
<1>7. Len(SubSeq(values, lo + 1, hi)) = hi - lo
  BY <1>3, <1>5
<1>8. cells[i] = SubSeq(values, lo + 1, hi)
  BY <1>1 DEF lo, hi
<1> QED
  BY <1>3, <1>5, <1>6, <1>7, <1>8, Zenon DEF lo, hi

\* Where the cells end is where the values were cut, however a provider adds up their lengths.
LEMMA EndsAreCuts ==
    ASSUME NEW T, NEW values \in Seq(T), NEW n, NEW end, NEW cells, Cut(values, n, end, cells)
    PROVE  \A i \in 0..n : W!Ends(0, cells)[i] = end[i]
<1>1. n \in Nat /\ end = [i \in 0..n |-> end[i]] /\ end[0] = 0 /\ cells \in Seq(Seq(T)) /\ Len(cells) = n
  <2>1. n \in Nat /\ cells = [i \in 1..n |-> SubSeq(values, end[i - 1] + 1, end[i])]
    BY DEF Cut
  <2>2. \A i \in 1..n : cells[i] \in Seq(T)
    BY CellCut
  <2>3. cells \in [1..n -> Seq(T)]
    BY <2>1, <2>2
  <2>4. cells \in Seq(Seq(T)) /\ Len(cells) = n
    BY <2>1, <2>3
  <2> QED
    BY <2>1, <2>4 DEF Cut
<1> DEFINE Is(f) == f = [i \in 0..n |-> IF i = 0 THEN 0 ELSE f[i - 1] + Len(cells[i])]
           e == CHOOSE f : Is(f)
<1>2. W!Ends(0, cells) = e
  BY <1>1, Zenon DEF W!Ends
<1>3. \A i \in 0..n : end[i] = IF i = 0 THEN 0 ELSE end[i - 1] + Len(cells[i])
  <2> SUFFICES ASSUME NEW i \in 0..n, i # 0 PROVE end[i] = end[i - 1] + Len(cells[i])
    BY <1>1
  <2>1. i \in 1..n
    BY <1>1
  <2>2. end[i - 1] \in Nat /\ end[i] \in Nat /\ Len(cells[i]) = end[i] - end[i - 1]
    BY <2>1, CellCut
  <2> QED
    BY <2>2
<1>4. Is(end)
  BY <1>1, <1>3, Zenon
<1>5. Is(e)
  BY <1>4, Zenon
<1> HIDE DEF e
<1>6. \A i \in 0..n : e[i] = IF i = 0 THEN 0 ELSE e[i - 1] + Len(cells[i])
  BY <1>5, Zenon
<1> DEFINE S == {k \in 0..n : e[k] = end[k]}
<1>7. 0 \in S
  BY <1>1, <1>6
<1>8. ASSUME NEW k \in 0..(n - 1), k \in S PROVE k + 1 \in S
  <2>1. k + 1 \in 0..n /\ k + 1 # 0 /\ (k + 1) - 1 = k
    BY <1>1
  <2>2. e[k + 1] = e[(k + 1) - 1] + Len(cells[k + 1]) /\ end[k + 1] = end[(k + 1) - 1] + Len(cells[k + 1])
    BY <1>3, <1>6, <2>1, Zenon
  <2> QED
    BY <1>8, <2>1, <2>2
<1> HIDE DEF S
<1>9. \A k \in 0..n : k \in S
  BY <1>1, <1>7, <1>8, Induction
<1> QED
  BY <1>2, <1>9 DEF S

\* And the cells one after another are the values again.
LEMMA CellsJoined ==
    ASSUME NEW T, NEW values \in Seq(T), NEW n, NEW end, NEW cells, Cut(values, n, end, cells)
    PROVE  FlattenSeq(cells) = values
<1>1. n \in Nat /\ end[0] = 0 /\ end[n] = Len(values) /\ DOMAIN cells = 1..n /\ cells \in Seq(Seq(T)) /\ Len(cells) = n
  <2>1. n \in Nat /\ cells = [i \in 1..n |-> SubSeq(values, end[i - 1] + 1, end[i])]
    BY DEF Cut
  <2>2. \A i \in 1..n : cells[i] \in Seq(T)
    BY CellCut
  <2>3. cells \in [1..n -> Seq(T)]
    BY <2>1, <2>2
  <2>4. cells \in Seq(Seq(T)) /\ Len(cells) = n
    BY <2>1, <2>3
  <2> QED
    BY <2>1, <2>4 DEF Cut
<1>4. ASSUME NEW i \in 1..n
      PROVE  /\ SubSeq(values, 1, end[i - 1]) \o cells[i] = SubSeq(values, 1, end[i])
             /\ cells[i] = SubSeq(values, end[i - 1] + 1, end[i])
  <2>1. cells[i] = SubSeq(values, end[i - 1] + 1, end[i])
    BY CellCut
  <2>2. SubSeq(values, 1, end[i - 1]) \o cells[i] = SubSeq(values, 1, end[i])
    BY CellCut
  <2> QED
    BY <2>1, <2>2
<1> DEFINE Is(f) == f = [i \in 1..n |-> IF i = 1 THEN cells[i] ELSE f[i - 1] \o cells[i]]
           e == CHOOSE f : Is(f)
           upto == [i \in 1..n |-> SubSeq(values, 1, end[i])]
<1>2. CASE n = 0
  <2>1. FlattenSeq(cells) = cells
    BY <1>1, <1>2 DEF FlattenSeq
  <2>2. cells = <<>> /\ values = <<>>
    BY <1>1, <1>2
  <2> QED
    BY <2>1, <2>2
<1>3. CASE n # 0
  <2>1. FlattenSeq(cells) = e[n]
    BY <1>1, <1>3, Zenon DEF FlattenSeq
  <2>2. \A i \in 1..n : upto[i] = IF i = 1 THEN cells[i] ELSE upto[i - 1] \o cells[i]
    <3> SUFFICES ASSUME NEW i \in 1..n
                 PROVE  SubSeq(values, 1, end[i]) = IF i = 1 THEN cells[i] ELSE upto[i - 1] \o cells[i]
      OBVIOUS
    <3>1. /\ SubSeq(values, 1, end[i - 1]) \o cells[i] = SubSeq(values, 1, end[i])
          /\ cells[i] = SubSeq(values, end[i - 1] + 1, end[i])
      BY <1>4, Zenon
    <3>2. CASE i = 1
      <4>1. end[i - 1] = 0
        BY <1>1, <3>2
      <4> QED
        BY <3>1, <3>2, <4>1
    <3>3. CASE i # 1
      <4>1. i - 1 \in 1..n
        BY <1>1, <3>3
      <4>2. upto[i - 1] = SubSeq(values, 1, end[i - 1])
        BY <4>1, Zenon
      <4> QED
        BY ONLY <3>1, <3>3, <4>2
    <3> QED
      BY <3>2, <3>3
  <2>3. Is(upto)
    <3>1. upto = [i \in 1..n |-> upto[i]]
      OBVIOUS
    <3> HIDE DEF upto
    <3> QED
      BY <2>2, <3>1, Zenon
  <2>4. Is(e)
    BY <2>3, Zenon
  <2> HIDE DEF e, upto
  <2>5. \A i \in 1..n : e[i] = IF i = 1 THEN cells[i] ELSE e[i - 1] \o cells[i]
    BY <2>4, Zenon
  <2> DEFINE S == {k \in 0..n : k = 0 \/ e[k] = upto[k]}
  <2>6. 0 \in S
    BY <1>1
  <2>7. ASSUME NEW k \in 0..(n - 1), k \in S PROVE k + 1 \in S
    <3>1. k + 1 \in 1..n /\ k + 1 \in 0..n /\ (k + 1) - 1 = k /\ (k + 1 = 1 <=> k = 0)
      BY <1>1
    <3>2. /\ e[k + 1] = IF k + 1 = 1 THEN cells[k + 1] ELSE e[(k + 1) - 1] \o cells[k + 1]
          /\ upto[k + 1] = IF k + 1 = 1 THEN cells[k + 1] ELSE upto[(k + 1) - 1] \o cells[k + 1]
      BY <2>2, <2>5, <3>1, Zenon
    <3>3. k = 0 \/ e[k] = upto[k]
      BY <2>7
    <3> QED
      BY <3>1, <3>2, <3>3
  <2> HIDE DEF S
  <2>8. \A k \in 0..n : k \in S
    BY <1>1, <2>6, <2>7, Induction
  <2>9. e[n] = upto[n]
    BY <1>1, <1>3, <2>8 DEF S
  <2>10. upto[n] = SubSeq(values, 1, end[n])
    BY <1>1, <1>3 DEF upto
  <2>11. SubSeq(values, 1, Len(values)) = values
    BY SubSeqFull
  <2> QED
    BY <1>1, <2>1, <2>9, <2>10, <2>11
<1> QED
  BY <1>2, <1>3
-----------------------------------------------------------------------------
(***************************************************************************)
(* What a provider makes of an array of such cells, and what the C library *)
(* finds in it.                                                            *)
(***************************************************************************)
\* The value an application sees in an Arrow array of these cells.
Shown(form, cells, nulls, width) ==
    [kind |-> form, cells |-> cells, before |-> <<>>, after |-> <<>>, nulls |-> nulls, width |-> width]

\* Cells of one width, counted in values and back.
LEMMA WholeCells ==
    ASSUME NEW n \in Nat, NEW k \in Nat \ {0}
    PROVE  /\ n * k \in Nat /\ (n * k) \div k = n /\ (n * k) % k = 0
           /\ \A i \in 1..n : (i - 1) * k + k = i * k /\ (i - 1) * k \in Nat /\ (i - 1) * k <= i * k
<1>1. n * k \in Nat /\ \A i \in 1..n : (i - 1) * k + k = i * k /\ (i - 1) * k \in Nat
  OBVIOUS
<1>2. (n * k) \div k = n
  OBVIOUS
<1>3. (n * k) % k = 0
  OBVIOUS
<1>4. \A i \in 1..n : (i - 1) * k <= i * k
  OBVIOUS
<1> QED
  BY <1>1, <1>2, <1>3, <1>4

\* The schema that W is given has the fields as they are.
LEMMA FieldIs ==
    ASSUME NEW f \in ArrowFields
    PROVE  /\ f.width \in 0..MaxListWidth /\ f.nullable \in BOOLEAN
           /\ [g \in ArrowFields |-> g.width][f] = f.width
           /\ f \in {g \in ArrowFields : g.nullable} <=> f.nullable
BY DEF ArrowFields

\* The input of these parts, as far as the field has them.
InputOf(f, data, o, w) == W!Input(data, IF f.width = 0 THEN {o} ELSE {}, IF f.nullable THEN {w} ELSE {})

\* It has the parts the C library asks for of the field, and they are these.
LEMMA InputMade ==
    ASSUME NEW f \in ArrowFields, NEW data, NEW o, NEW w
    PROVE  /\ DOMAIN InputOf(f, data, o, w) = W!NeededParts(f)
           /\ InputOf(f, data, o, w)["data"] = data
           /\ f.width = 0 => InputOf(f, data, o, w)["offsets"] = o
           /\ f.nullable => InputOf(f, data, o, w)["validity"] = w
<1> DEFINE os == IF f.width = 0 THEN {o} ELSE {}
           ws == IF f.nullable THEN {w} ELSE {}
<1> DEFINE in == W!Input(data, os, ws)
           D == {"data"} \cup {q \in {"offsets"} : os # {}} \cup {q \in {"validity"} : ws # {}}
<1>1. D = W!NeededParts(f)
  BY FieldIs DEF W!NeededParts, W!Var
<1>2. in = [p \in D |-> CASE p = "data"     -> data
                         [] p = "offsets"  -> CHOOSE x \in os : TRUE
                         [] p = "validity" -> CHOOSE x \in ws : TRUE]
  BY DEF W!Input
<1>3. "data" \in D /\ in["data"] = data
  BY <1>2
<1>4. f.width = 0 => in["offsets"] = o
  <2> SUFFICES ASSUME f.width = 0 PROVE in["offsets"] = o
    OBVIOUS
  <2>1. os = {o}
    OBVIOUS
  <2>2. (CHOOSE x \in os : TRUE) = o
    BY <2>1
  <2>3. "offsets" \in D
    BY <2>1
  <2> QED
    BY <1>2, <2>2, <2>3
<1>5. f.nullable => in["validity"] = w
  <2> SUFFICES ASSUME f.nullable PROVE in["validity"] = w
    OBVIOUS
  <2>1. ws = {w}
    OBVIOUS
  <2>2. (CHOOSE x \in ws : TRUE) = w
    BY <2>1
  <2>3. "validity" \in D
    BY <2>1
  <2> QED
    BY <1>2, <2>2, <2>3
<1>6. DOMAIN in = D
  BY <1>2
<1> QED
  BY <1>1, <1>3, <1>4, <1>5, <1>6, Zenon DEF in, os, ws, InputOf

\* The offsets a provider computes from cells are those they were cut at.
LEMMA OffsetsMade ==
    ASSUME NEW T, NEW values \in Seq(T), NEW n, NEW end, NEW cells, Cut(values, n, end, cells)
    PROVE  /\ W!OffsetsFrom(0, cells) = [i \in 1..(n + 1) |-> end[i - 1]]
           /\ Len(W!OffsetsFrom(0, cells)) = n + 1
           /\ W!OffsetsFrom(0, cells) # <<>>
           /\ Last(W!OffsetsFrom(0, cells)) = Len(values)
<1>1. n \in Nat /\ end \in [0..n -> Nat] /\ end[n] = Len(values) /\ Len(cells) = n
  <2>1. n \in Nat /\ cells = [i \in 1..n |-> SubSeq(values, end[i - 1] + 1, end[i])]
    BY DEF Cut
  <2>2. Len(cells) = n
    BY <2>1
  <2> QED
    BY <2>1, <2>2 DEF Cut
<1>2. \A i \in 0..n : W!Ends(0, cells)[i] = end[i]
  BY EndsAreCuts
<1> DEFINE o == W!OffsetsFrom(0, cells)
<1>3. o = [i \in 1..(n + 1) |-> W!Ends(0, cells)[i - 1]]
  BY <1>1 DEF W!OffsetsFrom
<1>4. \A i \in 1..(n + 1) : i - 1 \in 0..n
  BY <1>1
<1>5. o = [i \in 1..(n + 1) |-> end[i - 1]]
  BY <1>2, <1>3, <1>4
<1> HIDE DEF o
<1>6. o \in Seq(Nat) /\ Len(o) = n + 1 /\ o[n + 1] = end[n]
  <2>1. \A i \in 1..(n + 1) : end[i - 1] \in Nat
    BY <1>1, <1>4
  <2>2. o \in [1..(n + 1) -> Nat]
    BY <1>5, <2>1
  <2>3. n + 1 \in 1..(n + 1) /\ (n + 1) - 1 = n
    BY <1>1
  <2>4. o[n + 1] = end[n]
    BY <1>5, <2>3
  <2> QED
    BY <1>1, <2>2, <2>4
<1>7. Last(o) = end[n]
  BY <1>6 DEF Last
<1>8. o # <<>>
  BY <1>1, <1>6
<1> QED
  BY <1>1, <1>5, <1>6, <1>7, <1>8 DEF o

\* What the C library finds in an input of these values: by its offsets, or by the number of
\* values of a cell, the cells they were cut into.
LEMMA CellsFound ==
    ASSUME NEW T, NEW values \in Seq(T), NEW n, NEW end, NEW cells, Cut(values, n, end, cells),
           NEW f \in ArrowFields, f.width # 0 => \A i \in 0..n : end[i] = i * f.width,
           NEW in, in["data"] = values, f.width = 0 => in["offsets"] = W!OffsetsFrom(0, cells)
    PROVE  /\ W!CellsIn(in, f) = cells
           /\ f.width # 0 => Len(in["data"]) % f.width = 0
<1>1. n \in Nat /\ end[n] = Len(values) /\ cells = [i \in 1..n |-> SubSeq(values, end[i - 1] + 1, end[i])]
  BY DEF Cut
<1>2. f.width \in Nat
  BY FieldIs
<1>3. CASE f.width = 0
  <2>1. W!CellsIn(in, f) = W!ReadOffsets(in)
    BY <1>3, FieldIs DEF W!CellsIn, W!Var
  <2>2. in["offsets"] = [i \in 1..(n + 1) |-> end[i - 1]] /\ Len(in["offsets"]) = n + 1
    BY <1>3, OffsetsMade
  <2>3. \A i \in 1..n : in["offsets"][i] = end[i - 1] /\ in["offsets"][i + 1] = end[i]
    <3> SUFFICES ASSUME NEW i \in 1..n PROVE in["offsets"][i] = end[i - 1] /\ in["offsets"][i + 1] = end[i]
      OBVIOUS
    <3>1. i \in 1..(n + 1) /\ i + 1 \in 1..(n + 1) /\ (i + 1) - 1 = i
      BY <1>1
    <3> QED
      BY <2>2, <3>1
  <2>4. (n + 1) - 1 = n
    BY <1>1
  <2>5. W!ReadOffsets(in) = [i \in 1..n |-> SubSeq(values, in["offsets"][i] + 1, in["offsets"][i + 1])]
    BY <2>2, <2>4 DEF W!ReadOffsets
  <2>6. W!ReadOffsets(in) = cells
    BY <1>1, <2>3, <2>5, Zenon
  <2> QED
    BY <1>3, <2>1, <2>6
<1>4. CASE f.width # 0
  <2> DEFINE k == f.width
  <2>1. W!CellsIn(in, f) = W!ReadFixed(in, k)
    BY <1>4, FieldIs DEF W!CellsIn, W!Var
  <2>2. k \in Nat \ {0} /\ Len(values) = n * k /\ \A i \in 0..n : end[i] = i * k
    <3>1. n \in 0..n
      BY <1>1
    <3> QED
      BY <1>1, <1>2, <1>4, <3>1
  <2> HIDE DEF k
  <2>3. (n * k) \div k = n /\ (n * k) % k = 0
    BY <1>1, <2>2, WholeCells
  <2>4. \A i \in 1..n : (i - 1) * k = end[i - 1] /\ i * k = end[i]
    <3> SUFFICES ASSUME NEW i \in 1..n PROVE (i - 1) * k = end[i - 1] /\ i * k = end[i]
      OBVIOUS
    <3>1. i \in 0..n /\ i - 1 \in 0..n
      BY <1>1
    <3> QED
      BY <2>2, <3>1
  <2>5. W!ReadFixed(in, k) = [i \in 1..n |-> SubSeq(values, (i - 1) * k + 1, i * k)]
    BY <2>2, <2>3 DEF W!ReadFixed
  <2>6. W!ReadFixed(in, k) = cells
    BY <1>1, <2>4, <2>5, Zenon
  <2>7. Len(in["data"]) % k = 0
    BY <2>2, <2>3
  <2> QED
    BY <2>1, <2>6, <2>7 DEF k
<1> QED
  BY <1>3, <1>4

ValidityOf(n, nulls) == [i \in 1..n |-> IF i \in nulls THEN 0 ELSE 1]

\* The ways the cells of an array are laid out, and the fields they go with.
Laid(form, width, n, end, f) ==
    \/ form = "primitive"  /\ f.width = 1 /\ \A i \in 0..n : end[i] = i
    \/ form = "fixed_size" /\ f.width = width /\ width # 0 /\ \A i \in 0..n : end[i] = i * width
    \/ form = "list"       /\ f.width = 0

\* A provider takes such an array for the field.
LEMMA Provided ==
    ASSUME NEW T, NEW values \in Seq(T), NEW n, NEW end, NEW cells, Cut(values, n, end, cells),
           NEW f \in ArrowFields, NEW form, NEW width, Laid(form, width, n, end, f),
           NEW nulls \in SUBSET (1..n), f.nullable \/ nulls = {}
    PROVE  InputOf(f, values, W!OffsetsFrom(0, cells), ValidityOf(n, nulls))
              \in W!query_buffers(Shown(form, cells, nulls, width), f)
<1> DEFINE v  == Shown(form, cells, nulls, width)
           os == IF f.width = 0 THEN {W!OffsetsFrom(0, cells)} ELSE {}
           ws == IF f.nullable THEN {ValidityOf(n, nulls)} ELSE {}
<1>0. SUFFICES W!Input(values, os, ws) \in W!query_buffers(v, f)
  BY Zenon DEF InputOf
<1>1. /\ v.kind = form /\ v.cells = cells /\ v.before = <<>> /\ v.after = <<>>
      /\ v.nulls = nulls /\ v.width = width
  BY DEF Shown
<1>2. n \in Nat /\ DOMAIN cells = 1..n /\ Len(cells) = n
  BY DEF Cut
<1>3. FlattenSeq(cells) = values
  BY CellsJoined
<1> HIDE DEF v
<1>4. W!ValuesOf(v) = values
  <2>1. <<>> \o values \o <<>> = values
    BY ConcatEmptySeq
  <2>2. W!ValuesOf(v) = v.before \o FlattenSeq(v.cells) \o v.after
    BY Zenon DEF W!ValuesOf, FlattenSeq, W!FlattenSeq
  <2> QED
    BY <1>1, <1>3, <2>1, <2>2, Zenon
<1>5. ws \in W!validity_buffer(v, f)
  BY <1>1, <1>2, FieldIs DEF W!validity_buffer, W!ValidityOf, ValidityOf
<1>6. CASE form = "primitive"
  <2>1. f.width = 1
    BY <1>6 DEF Laid
  <2>2. os = {} /\ W!query_buffers(v, f) = W!PrimitiveInput(v, f)
    BY <1>1, <1>6, <2>1 DEF W!query_buffers
  <2>3. W!PrimitiveInput(v, f) = {W!Input(W!ValuesOf(v), {}, b) : b \in W!validity_buffer(v, f)}
    BY <2>1, FieldIs DEF W!PrimitiveInput
  <2> QED
    BY <1>4, <1>5, <2>2, <2>3 DEF v
<1>7. CASE form = "fixed_size"
  <2>1. f.width = width /\ width # 0
    BY <1>7 DEF Laid
  <2>2. os = {} /\ W!query_buffers(v, f) = W!FixedSizeInput(v, f)
    BY <1>1, <1>7, <2>1 DEF W!query_buffers
  <2>3. os \in W!cell_structure_fixed(v.width, Len(v.cells), f)
    BY <1>1, <2>1, <2>2, FieldIs DEF W!cell_structure_fixed, W!Var
  <2>4. W!Input(W!ValuesOf(v), os, ws) \in W!FixedSizeInput(v, f)
    BY <1>5, <2>3 DEF W!FixedSizeInput
  <2> QED
    BY <1>4, <2>2, <2>4 DEF v
<1>8. CASE form = "list"
  <2>1. f.width = 0
    BY <1>8 DEF Laid
  <2>2. W!query_buffers(v, f) = W!ListInput(v, f)
    BY <1>1, <1>8 DEF W!query_buffers
  <2>3. os \in W!cell_structure(Len(v.before), v.cells, f)
    BY <1>1, <2>1, FieldIs DEF W!cell_structure, W!Var
  <2>4. W!Input(W!ValuesOf(v), os, ws) \in W!ListInput(v, f)
    BY <1>5, <2>3 DEF W!ListInput
  <2> QED
    BY <1>4, <2>2, <2>4 DEF v
<1> QED
  BY <1>6, <1>7, <1>8 DEF Laid

\* And the C library finds its cells and nulls in what the provider makes.
LEMMA FoundAgain ==
    ASSUME NEW T, NEW values \in Seq(T), NEW n, NEW end, NEW cells, Cut(values, n, end, cells),
           NEW f \in ArrowFields, NEW form, NEW width, Laid(form, width, n, end, f),
           NEW nulls \in SUBSET (1..n), f.nullable \/ nulls = {}
    PROVE  \E in \in W!query_buffers(Shown(form, cells, nulls, width), f) :
              /\ W!Readable(in, f)
              /\ W!RecordsIn(in, f) = [i \in 1..n |-> IF i \in nulls THEN W!Null ELSE cells[i]]
<1> DEFINE o  == W!OffsetsFrom(0, cells)
           w  == ValidityOf(n, nulls)
           in == InputOf(f, values, o, w)
<1>1. in \in W!query_buffers(Shown(form, cells, nulls, width), f)
  BY Provided
<1>2. /\ DOMAIN in = W!NeededParts(f) /\ in["data"] = values
      /\ f.width = 0 => in["offsets"] = W!OffsetsFrom(0, cells)
      /\ f.nullable => in["validity"] = w
  <2> HIDE DEF w
  <2> QED
    BY InputMade
<1> HIDE DEF in
<1>3. n \in Nat /\ DOMAIN cells = 1..n /\ Len(cells) = n
  BY DEF Cut
<1>4. W!CellsIn(in, f) = cells /\ (f.width # 0 => Len(in["data"]) % f.width = 0)
  <2>1. f.width # 0 => \A i \in 0..n : end[i] = i * f.width
    BY <1>3 DEF Laid
  <2> QED
    BY <1>2, <2>1, CellsFound
<1>5. Len(w) = n /\ \A i \in 1..n : w[i] = 0 <=> i \in nulls
  BY <1>3 DEF ValidityOf
<1> HIDE DEF w
<1>6. W!Readable(in, f)
  <2>1. f.width = 0 => in["offsets"] # <<>> /\ Last(in["offsets"]) = Len(in["data"])
    BY <1>2, OffsetsMade
  <2>2. f.nullable => Len(in["validity"]) = Len(W!CellsIn(in, f))
    BY <1>2, <1>3, <1>4, <1>5
  <2>3. DOMAIN in = W!NeededParts(f)
    BY <1>2
  <2>4. [g \in ArrowFields |-> g.width][f] = f.width /\ (f \in {g \in ArrowFields : g.nullable} <=> f.nullable)
    BY FieldIs
  <2> QED
    BY <1>4, <2>1, <2>2, <2>3, <2>4, Zenon DEF W!Readable, W!Var, W!Last, Last
<1>7. W!RecordsIn(in, f) = [i \in 1..n |-> IF i \in nulls THEN W!Null ELSE cells[i]]
  <2>1. W!RecordsIn(in, f) = [i \in 1..n |-> IF f.nullable /\ in["validity"][i] = 0 THEN W!Null ELSE cells[i]]
    BY <1>3, <1>4, FieldIs DEF W!RecordsIn
  <2>2. \A i \in 1..n : (f.nullable /\ in["validity"][i] = 0) <=> i \in nulls
    BY <1>2, <1>5, FieldIs
  <2> QED
    BY <2>1, <2>2
<1> QED
  BY <1>1, <1>6, <1>7
-----------------------------------------------------------------------------
(***************************************************************************)
(* The arrays made of an output: the values, offsets and nulls kept.       *)
(***************************************************************************)
\* A slice of a slice from the start.
LEMMA PrefixSlice ==
    ASSUME NEW T, NEW d \in Seq(T), NEW m \in Nat, m <= Len(d), NEW i \in Nat, NEW j \in Nat, i <= j, j <= m
    PROVE  SubSeq(SubSeq(d, 1, m), i + 1, j) = SubSeq(d, i + 1, j)
<1> DEFINE p == SubSeq(d, 1, m)  s == SubSeq(p, i + 1, j)  t == SubSeq(d, i + 1, j)
<1>1. p \in Seq(T) /\ Len(p) = m /\ \A k \in 1..m : p[k] = d[k]
  <2>1. \A k \in 1..m : d[k] \in T
    OBVIOUS
  <2> QED
    BY <2>1, SubSeqProperties
<1> HIDE DEF p
<1>2. s \in Seq(T) /\ Len(s) = j - i /\ \A k \in 1..(j - i) : s[k] = p[i + k]
  <2>1. \A k \in (i + 1)..j : p[k] \in T
    BY <1>1
  <2>2. s \in Seq(T) /\ Len(s) = (IF i + 1 <= j THEN j - (i + 1) + 1 ELSE 0)
        /\ \A k \in 1..(j - (i + 1) + 1) : s[k] = p[(i + 1) + k - 1]
    BY <2>1, SubSeqProperties
  <2>3. \A k \in 1..(j - i) : k \in 1..(j - (i + 1) + 1) /\ (i + 1) + k - 1 = i + k
    OBVIOUS
  <2> HIDE DEF s
  <2> QED
    BY <2>2, <2>3
<1>3. t \in Seq(T) /\ Len(t) = j - i /\ \A k \in 1..(j - i) : t[k] = d[i + k]
  <2>1. \A k \in (i + 1)..j : d[k] \in T
    OBVIOUS
  <2>2. t \in Seq(T) /\ Len(t) = (IF i + 1 <= j THEN j - (i + 1) + 1 ELSE 0)
        /\ \A k \in 1..(j - (i + 1) + 1) : t[k] = d[(i + 1) + k - 1]
    BY <2>1, SubSeqProperties
  <2>3. \A k \in 1..(j - i) : k \in 1..(j - (i + 1) + 1) /\ (i + 1) + k - 1 = i + k
    OBVIOUS
  <2> HIDE DEF t
  <2> QED
    BY <2>2, <2>3
<1> HIDE DEF s, t
<1>4. \A k \in 1..Len(s) : s[k] = t[k]
  <2> SUFFICES ASSUME NEW k \in 1..Len(s) PROVE s[k] = t[k]
    OBVIOUS
  <2>1. k \in 1..(j - i) /\ i + k \in 1..m
    BY <1>2
  <2> QED
    BY <1>1, <1>2, <1>3, <2>1
<1>5. s = t
  BY <1>2, <1>3, <1>4, SeqEqual
<1> QED
  BY <1>5 DEF s, t, p

\* The values that are kept: as many as asked for, where there are that many.
LEMMA ValuesKept ==
    ASSUME NEW T, NEW b, b.items \in Seq(T), NEW m \in Nat, m <= Len(b.items)
    PROVE  /\ ScalarBuffer(m, b) = SubSeq(b.items, 1, m)
           /\ ScalarBuffer(m, b) \in Seq(T) /\ Len(ScalarBuffer(m, b)) = m
           /\ \A i \in 1..m : ScalarBuffer(m, b)[i] = b.items[i]
<1> DEFINE d == b.items
<1>1. ScalarBuffer(m, b) = SubSeq(d, 1, m)
  <2>1. CASE m < Len(d)
    BY <2>1 DEF ScalarBuffer
  <2>2. CASE ~ (m < Len(d))
    <3>1. m = Len(d)
      BY <2>2
    <3> QED
      BY <2>2, <3>1, SubSeqFull DEF ScalarBuffer
  <2> QED
    BY <2>1, <2>2
<1>2. SubSeq(d, 1, m) \in Seq(T) /\ Len(SubSeq(d, 1, m)) = m /\ \A i \in 1..m : SubSeq(d, 1, m)[i] = d[i]
  <2>1. \A k \in 1..m : d[k] \in T
    OBVIOUS
  <2> QED
    BY <2>1, SubSeqProperties
<1> QED
  BY <1>1, <1>2

\* The nulls of an array are those of the output.
LEMMA NullsKept ==
    ASSUME NEW T, NEW n, NEW q, OutputOf(T, n, q)
    PROVE  /\ \A v \in Nulls(n, q) : Len(v) = n
           /\ {i \in 1..n : \E v \in Nulls(n, q) : ~v[i]} = NullsOf(n, q)
           /\ NullsOf(n, q) \in SUBSET (1..n)
           /\ q.validity # {} \/ NullsOf(n, q) = {}
<1>1. n \in Nat
  BY DEF OutputOf
<1>2. ASSUME NEW v \in q.validity PROVE NullBuffer(n, v) = [i \in 1..n |-> v.items[i] # 0]
  <2>1. v.items \in Seq(Int) /\ n <= Len(v.items)
    BY DEF OutputOf, IsOutput
  <2> DEFINE s == ScalarBuffer(n, v)
  <2>2. s \in Seq(Int) /\ Len(s) = n /\ \A i \in 1..n : s[i] = v.items[i]
    BY <1>1, <2>1, ValuesKept
  <2>3. NullBuffer(n, v) = [i \in DOMAIN s |-> s[i] # 0]
    BY DEF NullBuffer
  <2> HIDE DEF s
  <2>4. DOMAIN s = 1..n
    BY <2>2
  <2> QED
    BY <2>2, <2>3, <2>4
<1>3. \A v \in Nulls(n, q) : Len(v) = n
  <2> SUFFICES ASSUME NEW v \in q.validity PROVE Len(NullBuffer(n, v)) = n
    BY DEF Nulls
  <2> QED
    BY <1>1, <1>2
<1>4. ASSUME NEW i \in 1..n
      PROVE  (\E v \in Nulls(n, q) : ~v[i]) <=> \E v \in q.validity : v.items[i] = 0
  <2>1. (\E v \in Nulls(n, q) : ~v[i]) <=> \E v \in q.validity : ~NullBuffer(n, v)[i]
    BY Zenon DEF Nulls
  <2>2. \A v \in q.validity : ~NullBuffer(n, v)[i] <=> v.items[i] = 0
    BY <1>2
  <2> QED
    BY <2>1, <2>2, Zenon
<1>5. {i \in 1..n : \E v \in Nulls(n, q) : ~v[i]} = NullsOf(n, q)
  BY <1>4, Zenon DEF NullsOf
<1> QED
  BY <1>3, <1>5, Zenon DEF NullsOf

\* An array in which the application sees the cells of an output carries its records.
LEMMA ShownCarries ==
    ASSUME NEW T, NEW n, NEW q, OutputOf(T, n, q), FieldLike(q) \in ArrowFields,
           NEW values \in Seq(T), NEW end, Cut(values, n, end, CellsOf(n, q)),
           NEW a, Laid(a.kind, a.width, n, end, FieldLike(q)), WellFormed(a),
           ArrowValue(a) = Shown(a.kind, CellsOf(n, q), NullsOf(n, q), a.width)
    PROVE  Carries(a, FieldLike(q), Records(n, q))
<1> DEFINE f == FieldLike(q)  cells == CellsOf(n, q)  nulls == NullsOf(n, q)
           form == a.kind  width == a.width
<1>1. nulls \in SUBSET (1..n) /\ (f.nullable \/ nulls = {})
  BY NullsKept DEF FieldLike
<1>2. Records(n, q) = [i \in 1..n |-> IF i \in nulls THEN W!Null ELSE cells[i]]
  BY Zenon DEF Records
<1>3. f \in ArrowFields /\ Cut(values, n, end, cells) /\ Laid(form, width, n, end, f)
  OBVIOUS
<1>4. ArrowValue(a) = Shown(form, cells, nulls, width)
  OBVIOUS
<1> HIDE DEF f, cells, nulls, form, width
<1>5. \E in \in W!query_buffers(Shown(form, cells, nulls, width), f) :
         /\ W!Readable(in, f)
         /\ W!RecordsIn(in, f) = [i \in 1..n |-> IF i \in nulls THEN W!Null ELSE cells[i]]
  BY <1>1, <1>3, FoundAgain
<1>6. Carries(a, f, Records(n, q))
  BY <1>2, <1>4, <1>5, Zenon DEF Carries
<1> QED
  BY <1>6 DEF f

\* The field of an output is one, where Arrow has arrays of such cells.
LEMMA FieldsAlike ==
    ASSUME NEW T, NEW n, NEW q, OutputOf(T, n, q), q.cells.width <= MaxListWidth
    PROVE  /\ FieldLike(q) \in ArrowFields
           /\ FieldLike(q).width = q.cells.width /\ (FieldLike(q).nullable <=> q.validity # {})
<1> DEFINE w == q.cells.width  b == q.validity # {}
<1>1. w \in 0..MaxListWidth
  BY ListWidthAssumption DEF OutputOf, CellStructure
<1>2. b \in BOOLEAN
  OBVIOUS
<1>3. FieldLike(q) = [width |-> w, nullable |-> b]
  BY DEF FieldLike
<1> HIDE DEF w, b
<1>4. FieldLike(q) \in ArrowFields
  BY <1>1, <1>2, <1>3 DEF ArrowFields
<1>5. FieldLike(q).width = w /\ (FieldLike(q).nullable <=> b)
  BY <1>3
<1> QED
  BY <1>4, <1>5 DEF w, b

\* Cells of a fixed number of values are cuts of the values that are kept.
LEMMA FixedCut ==
    ASSUME NEW T, NEW n, NEW q, OutputOf(T, n, q), is_fixed(q.cells)
    PROVE  LET w      == q.cells.width
               values == ScalarBuffer(n * w, q.data)
           IN  /\ w # 0 /\ n * w \in Nat
               /\ values \in Seq(T) /\ Len(values) = n * w
               /\ Cut(values, n, [i \in 0..n |-> i * w], CellsOf(n, q))
<1> DEFINE w      == q.cells.width
           d      == q.data.items
           values == ScalarBuffer(n * w, q.data)
           end    == [i \in 0..n |-> i * w]
<1>1. n \in Nat /\ w \in Nat /\ w # 0 /\ d \in Seq(T)
  BY DEF OutputOf, CellStructure, is_fixed
<1>2. n * w \in Nat /\ n * w <= Len(d)
  BY <1>1 DEF OutputOf, IsOutput, nvalues
<1>3. CellsOf(n, q) = [i \in 1..n |-> SubSeq(d, (i - 1) * w + 1, i * w)]
  BY DEF CellsOf
<1>4. values = SubSeq(d, 1, n * w) /\ values \in Seq(T) /\ Len(values) = n * w
  BY <1>1, <1>2, ValuesKept
<1> HIDE DEF w, d, values
<1>5. ASSUME NEW i \in 0..n PROVE i * w \in Nat
  BY <1>1
<1>6. ASSUME NEW i \in 1..n
      PROVE  /\ (i - 1) * w <= i * w /\ end[i - 1] = (i - 1) * w /\ end[i] = i * w
             /\ SubSeq(d, (i - 1) * w + 1, i * w) = SubSeq(values, end[i - 1] + 1, end[i])
  <2>1. i \in 0..n /\ i - 1 \in 0..n
    BY <1>1
  <2>2. (i - 1) * w \in Nat /\ i * w \in Nat
    BY <1>5, <2>1
  <2>3. (i - 1) * w <= i * w /\ i * w <= n * w
    BY <1>1
  <2>4. end[i - 1] = (i - 1) * w /\ end[i] = i * w
    BY <2>1
  <2>5. SubSeq(SubSeq(d, 1, n * w), (i - 1) * w + 1, i * w) = SubSeq(d, (i - 1) * w + 1, i * w)
    <3> DEFINE x == (i - 1) * w  y == i * w  z == n * w
    <3> HIDE DEF x, y, z
    <3>1. z \in Nat /\ z <= Len(d) /\ x \in Nat /\ y \in Nat /\ x <= y /\ y <= z
      BY <1>2, <2>2, <2>3 DEF x, y, z
    <3>2. SubSeq(SubSeq(d, 1, z), x + 1, y) = SubSeq(d, x + 1, y)
      BY <1>1, <3>1, PrefixSlice
    <3> QED
      BY <3>2 DEF x, y, z
  <2> HIDE DEF end
  <2> QED
    BY <1>4, <2>3, <2>4, <2>5
<1>7. end \in [0..n -> Nat] /\ end[0] = 0 /\ end[n] = n * w
  <2>1. 0 \in 0..n /\ n \in 0..n /\ 0 * w = 0
    BY <1>1
  <2> QED
    BY <1>5, <2>1
<1> HIDE DEF end
<1>8. CellsOf(n, q) = [i \in 1..n |-> SubSeq(values, end[i - 1] + 1, end[i])]
  BY <1>3, <1>6
<1>9. \A i \in 1..n : end[i - 1] <= end[i]
  BY <1>6
<1>10. Cut(values, n, end, CellsOf(n, q))
  BY <1>1, <1>4, <1>7, <1>8, <1>9 DEF Cut
<1> QED
  BY <1>1, <1>2, <1>4, <1>10 DEF w, values, end

\* One value per cell: a primitive array.
LEMMA PrimitiveCarries ==
    ASSUME NEW T, NEW n, NEW q, OutputOf(T, n, q), is_fixed(q.cells), q.cells.width = 1,
           NEW a \in PrimitiveArray(n, q)
    PROVE  Carries(a, FieldLike(q), Records(n, q))
<1> DEFINE values == ScalarBuffer(n, q.data)
           end    == [i \in 0..n |-> i]
           cells  == CellsOf(n, q)
<1>1. /\ a.kind = "primitive" /\ a.values = values /\ a.width = 1 /\ a.nulls = Nulls(n, q)
  BY DEF PrimitiveArray
<1>2. n \in Nat /\ n * 1 = n
  BY DEF OutputOf
<1>3. values \in Seq(T) /\ Len(values) = n /\ Cut(values, n, end, cells)
  <2>1. \A i \in 0..n : i * 1 = i
    BY <1>2
  <2>2. [i \in 0..n |-> i * 1] = end
    BY <2>1
  <2> QED
    BY <1>2, <2>2, FixedCut
<1> HIDE DEF values
<1>4. cells = [i \in DOMAIN values |-> <<values[i]>>]
  <2>1. cells = [i \in 1..n |-> SubSeq(values, end[i - 1] + 1, end[i])]
    BY <1>3 DEF Cut
  <2>2. ASSUME NEW i \in 1..n PROVE SubSeq(values, end[i - 1] + 1, end[i]) = <<values[i]>>
    <3>1. end[i - 1] = i - 1 /\ end[i] = i /\ i - 1 \in Nat /\ i - 1 < n /\ (i - 1) + 1 = i
      BY <1>2
    <3>2. SubSeq(values, (i - 1) + 1, (i - 1) + 1) = <<values[(i - 1) + 1]>>
      BY <1>3, <3>1, SliceOfOne
    <3> QED
      BY <3>1, <3>2, Zenon
  <2>3. DOMAIN values = 1..n
    BY <1>3
  <2> HIDE DEF cells, end
  <2> QED
    BY <2>1, <2>2, <2>3
<1> HIDE DEF cells
<1>5. DOMAIN cells = 1..n
  BY <1>3, <1>4
<1>6. ArrowValue(a) = Shown(a.kind, cells, NullsOf(n, q), a.width)
  <2>1. ArrowValue(a) = [kind |-> a.kind, cells |-> cells, before |-> <<>>, after |-> <<>>,
                         nulls |-> {i \in DOMAIN cells : \E v \in a.nulls : ~v[i]}, width |-> a.width]
    BY <1>1, <1>4 DEF ArrowValue
  <2>2. {i \in DOMAIN cells : \E v \in a.nulls : ~v[i]} = NullsOf(n, q)
    <3>1. {i \in 1..n : \E v \in Nulls(n, q) : ~v[i]} = NullsOf(n, q)
      BY NullsKept
    <3>2. a.nulls = Nulls(n, q) /\ DOMAIN cells = 1..n
      BY <1>1, <1>5
    <3> QED
      BY <3>1, <3>2, Zenon
  <2> QED
    BY <2>1, <2>2, Zenon DEF Shown
<1>7. WellFormed(a)
  BY <1>1, <1>3, NullsKept DEF WellFormed
<1>8. FieldLike(q) \in ArrowFields /\ FieldLike(q).width = 1
  BY FieldsAlike, ListWidthAssumption
<1>9. Laid(a.kind, a.width, n, end, FieldLike(q))
  BY <1>1, <1>8 DEF Laid
<1> QED
  BY <1>3, <1>6, <1>7, <1>8, <1>9, ShownCarries DEF cells

\* A fixed number of values per cell: an array of fixed-size lists.
LEMMA FixedCarries ==
    ASSUME NEW T, NEW n, NEW q, OutputOf(T, n, q), is_fixed(q.cells), NEW a \in FixedArray(n, q)
    PROVE  Carries(a, FieldLike(q), Records(n, q))
<1> DEFINE w      == q.cells.width
           values == ScalarBuffer(n * w, q.data)
           end    == [i \in 0..n |-> i * w]
           cells  == CellsOf(n, q)
<1>1. /\ a.kind = "fixed_size" /\ a.values = values /\ a.width = w /\ a.nulls = Nulls(n, q)
      /\ w \in 1..MaxListWidth
  BY DEF FixedArray
<1>2. n \in Nat /\ w \in Nat \ {0}
  BY <1>1 DEF OutputOf
<1>3. values \in Seq(T) /\ Len(values) = n * w /\ Cut(values, n, end, cells)
  BY FixedCut
<1> HIDE DEF values, w
<1>4. (n * w) \div w = n /\ (n * w) % w = 0
  BY <1>2, WholeCells
<1>5. cells = [i \in 1..n |-> SubSeq(values, (i - 1) * w + 1, i * w)]
  <2>1. cells = [i \in 1..n |-> SubSeq(values, end[i - 1] + 1, end[i])]
    BY <1>3 DEF Cut
  <2>2. ASSUME NEW i \in 1..n PROVE end[i - 1] = (i - 1) * w /\ end[i] = i * w
    <3>1. i - 1 \in 0..n /\ i \in 0..n
      BY <1>2
    <3> QED
      BY <3>1
  <2> HIDE DEF cells, end
  <2> QED
    BY <2>1, <2>2
<1> HIDE DEF cells
<1>6. DOMAIN cells = 1..n
  BY <1>5
<1>7. ArrowValue(a) = Shown(a.kind, cells, NullsOf(n, q), a.width)
  <2>1. Len(a.values) \div a.width = n
    BY <1>1, <1>3, <1>4
  <2>2. cells = [i \in 1..Len(a.values) \div a.width |->
                    SubSeq(a.values, (i - 1) * a.width + 1, i * a.width)]
    BY <1>1, <1>5, <2>1
  <2>3. ArrowValue(a) = [kind |-> a.kind, cells |-> cells, before |-> <<>>, after |-> <<>>,
                         nulls |-> {i \in DOMAIN cells : \E v \in a.nulls : ~v[i]}, width |-> a.width]
    BY <1>1, <2>2 DEF ArrowValue
  <2>4. {i \in DOMAIN cells : \E v \in a.nulls : ~v[i]} = NullsOf(n, q)
    <3>1. {i \in 1..n : \E v \in Nulls(n, q) : ~v[i]} = NullsOf(n, q)
      BY NullsKept
    <3>2. a.nulls = Nulls(n, q) /\ DOMAIN cells = 1..n
      BY <1>1, <1>6
    <3> QED
      BY <3>1, <3>2, Zenon
  <2> QED
    BY <2>3, <2>4, Zenon DEF Shown
<1>8. WellFormed(a)
  <2>1. \A v \in a.nulls : Len(v) = n
    BY <1>1, NullsKept
  <2> QED
    BY <1>1, <1>3, <1>4, <2>1 DEF WellFormed
<1>9. FieldLike(q) \in ArrowFields /\ FieldLike(q).width = w
  BY <1>1, FieldsAlike DEF w
<1>10. Laid(a.kind, a.width, n, end, FieldLike(q))
  BY <1>1, <1>2, <1>9 DEF Laid
<1> QED
  BY <1>3, <1>7, <1>8, <1>9, <1>10, ShownCarries DEF cells

\* The offsets of an array are those of the output, with the end of the last cell.
LEMMA OffsetsKept ==
    ASSUME NEW T, NEW n, NEW q, OutputOf(T, n, q), ~is_fixed(q.cells)
    PROVE  LET o == Only(q.cells.offsets)
               l == ListOffsets(n, o)
           IN  /\ l \in Seq(Nat) /\ Len(l) = n + 1 /\ l[1] = 0 /\ l[n + 1] <= Len(q.data.items)
               /\ \A i \in 1..n : l[i] <= l[i + 1] /\ l[i] = o.items[i] /\ l[i + 1] = o.items[i + 1]
<1> DEFINE o == Only(q.cells.offsets)
           l == ListOffsets(n, o)
<1>1. n \in Nat /\ o \in q.cells.offsets /\ o.items \in Seq(Nat)
  <2>1. q.cells.offsets # {}
    BY DEF is_fixed
  <2>2. o \in q.cells.offsets
    BY <2>1, Zenon DEF Only
  <2> QED
    BY <2>2 DEF OutputOf, CellStructure, Owners
<1> HIDE DEF o
<1>2. CASE n = 0
  <2>1. l = <<0>>
    BY <1>2 DEF ListOffsets
  <2> HIDE DEF l
  <2>2. l \in Seq(Nat) /\ Len(l) = 1 /\ l[1] = 0
    BY <2>1
  <2>3. 0 <= Len(q.data.items)
    BY DEF OutputOf
  <2>4. 1..n = {}
    BY <1>2
  <2>5. /\ l \in Seq(Nat) /\ Len(l) = n + 1 /\ l[1] = 0 /\ l[n + 1] <= Len(q.data.items)
        /\ \A i \in 1..n : l[i] <= l[i + 1] /\ l[i] = o.items[i] /\ l[i + 1] = o.items[i + 1]
    BY <1>2, <2>2, <2>3, <2>4
  <2> QED
    BY <2>5 DEF o, l
<1>3. CASE n # 0
  <2>1. n < Len(o.items) /\ o.items[1] = 0 /\ \A i \in 1..n : o.items[i] <= o.items[i + 1]
    BY <1>1, <1>3 DEF OutputOf, IsOutput
  <2>2. o # Empty
    <3>1. Len(Empty.items) = 0
      BY DEF Empty
    <3> QED
      BY <1>1, <2>1, <3>1
  <2>3. l = ScalarBuffer(n + 1, o)
    BY <1>3, <2>2 DEF ListOffsets
  <2>4. l \in Seq(Nat) /\ Len(l) = n + 1 /\ \A i \in 1..(n + 1) : l[i] = o.items[i]
    <3>1. n + 1 \in Nat /\ n + 1 <= Len(o.items)
      BY <1>1, <2>1
    <3>2. ScalarBuffer(n + 1, o) \in Seq(Nat) /\ Len(ScalarBuffer(n + 1, o)) = n + 1
          /\ \A i \in 1..(n + 1) : ScalarBuffer(n + 1, o)[i] = o.items[i]
      BY <1>1, <3>1, ValuesKept
    <3> QED
      BY <2>3, <3>2, Zenon
  <2>5. o.items[n + 1] <= Len(q.data.items)
    <3>1. nvalues(n, q) = o.items[n + 1]
      <4>1. o.items # <<>>
        BY <1>1, <2>1
      <4> QED
        BY <4>1 DEF nvalues, o
    <3> QED
      BY <3>1 DEF OutputOf, IsOutput
  <2> HIDE DEF l
  <2>6. \A i \in 1..n : i \in 1..(n + 1) /\ i + 1 \in 1..(n + 1)
    BY <1>1
  <2>7. 1 \in 1..(n + 1) /\ n + 1 \in 1..(n + 1)
    BY <1>1
  <2>8. \A i \in 1..n : l[i] <= l[i + 1] /\ l[i] = o.items[i] /\ l[i + 1] = o.items[i + 1]
    BY <2>1, <2>4, <2>6
  <2>9. l[1] = 0 /\ l[n + 1] <= Len(q.data.items)
    BY <2>1, <2>4, <2>5, <2>7
  <2> QED
    BY <2>4, <2>8, <2>9 DEF o, l
<1> QED
  BY <1>2, <1>3

\* Cells of any length: a list, whose values end where its last cell does.
LEMMA ListCarries ==
    ASSUME NEW T, NEW n, NEW q, OutputOf(T, n, q), ~is_fixed(q.cells), NEW a \in VarArray(n, q)
    PROVE  Carries(a, FieldLike(q), Records(n, q))
<1> DEFINE o      == Only(q.cells.offsets)
           l      == ListOffsets(n, o)
           values == ScalarBuffer(Last(l), q.data)
           end    == [i \in 0..n |-> l[i + 1]]
           cells  == CellsOf(n, q)
           d      == q.data.items
<1>1. /\ a.kind = "list" /\ a.values = values /\ a.width = 0 /\ a.offsets = l /\ a.nulls = Nulls(n, q)
  <2>1. a = [kind |-> "list", values |-> values, width |-> 0, offsets |-> l, nulls |-> Nulls(n, q)]
    BY Zenon DEF VarArray
  <2> HIDE DEF values, l
  <2> QED
    BY <2>1
<1>2. n \in Nat /\ d \in Seq(T)
  BY DEF OutputOf
<1>3. /\ l \in Seq(Nat) /\ Len(l) = n + 1 /\ l[1] = 0 /\ l[n + 1] <= Len(d)
      /\ \A i \in 1..n : l[i] <= l[i + 1] /\ l[i] = o.items[i] /\ l[i + 1] = o.items[i + 1]
  BY OffsetsKept
<1>4. cells = [i \in 1..n |-> SubSeq(d, o.items[i] + 1, o.items[i + 1])]
  BY DEF CellsOf
<1> HIDE DEF l, o, cells
<1>5. Last(l) = l[n + 1] /\ Last(l) \in Nat /\ Last(l) <= Len(d)
  <2>1. n + 1 \in 1..Len(l)
    BY <1>2, <1>3
  <2> QED
    BY <1>3, <2>1 DEF Last
<1>6. values = SubSeq(d, 1, Last(l)) /\ values \in Seq(T) /\ Len(values) = Last(l)
  BY <1>2, <1>5, ValuesKept
<1> HIDE DEF values, d
<1>7. end \in [0..n -> Nat] /\ end[0] = 0 /\ end[n] = Last(l)
  <2>1. \A i \in 0..n : i + 1 \in 1..Len(l)
    BY <1>2, <1>3
  <2>2. \A i \in 0..n : l[i + 1] \in Nat
    BY <1>3, <2>1
  <2>3. 0 \in 0..n /\ n \in 0..n
    BY <1>2
  <2> QED
    BY <1>3, <1>5, <2>2, <2>3
<1>8. ASSUME NEW i \in 1..n PROVE end[i - 1] = l[i] /\ end[i] = l[i + 1]
  <2>1. i - 1 \in 0..n /\ i \in 0..n /\ (i - 1) + 1 = i
    BY <1>2
  <2> QED
    BY <2>1
<1> HIDE DEF end
<1>10. Cut(values, n, end, [i \in 1..n |-> SubSeq(values, end[i - 1] + 1, end[i])])
  BY <1>2, <1>3, <1>6, <1>7, <1>8 DEF Cut
<1>11. \A i \in 0..n : end[i] \in Nat /\ end[i] <= Len(values)
  BY <1>6, <1>10, CutsInside
<1>12. ASSUME NEW i \in 1..n
       PROVE  SubSeq(d, o.items[i] + 1, o.items[i + 1]) = SubSeq(values, end[i - 1] + 1, end[i])
  <2> DEFINE x == end[i - 1]  y == end[i]  z == Last(l)
  <2>1. i - 1 \in 0..n /\ i \in 0..n
    BY <1>2
  <2>2. x \in Nat /\ y \in Nat /\ x <= y /\ y <= z
    BY <1>3, <1>6, <1>8, <1>11, <2>1
  <2>3. o.items[i] = x /\ o.items[i + 1] = y
    BY <1>3, <1>8
  <2> HIDE DEF x, y, z
  <2>4. z \in Nat /\ z <= Len(d)
    BY <1>5 DEF z
  <2>5. SubSeq(SubSeq(d, 1, z), x + 1, y) = SubSeq(d, x + 1, y)
    BY <1>2, <2>2, <2>4, PrefixSlice
  <2>6. values = SubSeq(d, 1, z)
    BY <1>6 DEF z
  <2>7. SubSeq(d, o.items[i] + 1, o.items[i + 1]) = SubSeq(values, x + 1, y)
    BY <2>3, <2>5, <2>6
  <2> QED
    BY <2>7 DEF x, y
<1>13. cells = [i \in 1..n |-> SubSeq(values, end[i - 1] + 1, end[i])]
  BY <1>4, <1>12
<1>14. Cut(values, n, end, cells)
  BY <1>10, <1>13
<1>15. cells = [i \in 1..n |-> SubSeq(values, l[i] + 1, l[i + 1])]
  BY <1>8, <1>13
<1>16. DOMAIN cells = 1..n
  BY <1>15
<1>17. Len(l) - 1 = n
  BY <1>2, <1>3
<1>18. SubSeq(values, Last(l) + 1, Len(values)) = <<>>
  BY <1>5, <1>6
<1>19. ArrowValue(a) = Shown(a.kind, cells, NullsOf(n, q), a.width)
  <2>1. cells = [i \in 1..Len(a.offsets) - 1 |-> SubSeq(a.values, a.offsets[i] + 1, a.offsets[i + 1])]
    BY <1>1, <1>15, <1>17
  <2>2. SubSeq(a.values, Last(a.offsets) + 1, Len(a.values)) = <<>>
    BY <1>1, <1>18
  <2>3. ArrowValue(a) = [kind |-> a.kind, cells |-> cells, before |-> <<>>, after |-> <<>>,
                         nulls |-> {i \in DOMAIN cells : \E v \in a.nulls : ~v[i]}, width |-> a.width]
    BY <1>1, <2>1, <2>2 DEF ArrowValue
  <2>4. {i \in DOMAIN cells : \E v \in a.nulls : ~v[i]} = NullsOf(n, q)
    <3>1. {i \in 1..n : \E v \in Nulls(n, q) : ~v[i]} = NullsOf(n, q)
      BY NullsKept
    <3>2. a.nulls = Nulls(n, q)
      BY <1>1
    <3> QED
      BY <1>16, <3>1, <3>2, Zenon
  <2> QED
    BY <2>3, <2>4, Zenon DEF Shown
<1>20. WellFormed(a)
  <2>1. \A v \in a.nulls : Len(v) = n
    BY <1>1, NullsKept
  <2>2. Last(a.offsets) <= Len(a.values) /\ \A i \in 1..n : a.offsets[i] <= a.offsets[i + 1]
    BY <1>1, <1>3, <1>5, <1>6
  <2>3. Len(a.offsets) - 1 = n
    BY <1>1, <1>17
  <2> QED
    BY <1>1, <2>1, <2>2, <2>3 DEF WellFormed
<1>21. FieldLike(q) \in ArrowFields /\ FieldLike(q).width = 0
  <2>1. q.cells.width = 0 /\ q.cells.width <= MaxListWidth
    BY ListWidthAssumption DEF OutputOf, is_fixed
  <2> QED
    BY <2>1, FieldsAlike
<1>22. Laid(a.kind, a.width, n, end, FieldLike(q))
  BY <1>1, <1>21 DEF Laid
<1> QED
  BY <1>6, <1>14, <1>19, <1>20, <1>21, <1>22, ShownCarries DEF cells

\* What an array made of buffers is.
LEMMA ArraysCarry ==
    ASSUME NEW T, NEW n, NEW q, OutputOf(T, n, q)
    PROVE  /\ \A a \in QueryBufferArrowArray(n, q) : Carries(a, FieldLike(q), Records(n, q))
           /\ QueryBufferArrowArray(n, q) = {} => q.cells.width > MaxListWidth
<1>1. q.cells.width \in Nat /\ (is_fixed(q.cells) <=> q.cells.width # 0)
  BY DEF OutputOf, CellStructure, is_fixed
<1>2. CASE SingleAccepts(q)
  <2>1. q.cells.width = 1 /\ QueryBufferArrowArray(n, q) = PrimitiveArray(n, q)
    BY <1>2 DEF QueryBufferArrowArray, SingleAccepts, is_single
  <2>2. PrimitiveArray(n, q) # {}
    BY DEF PrimitiveArray
  <2> QED
    BY <1>1, <2>1, <2>2, PrimitiveCarries
<1>3. CASE ~SingleAccepts(q) /\ FixedAccepts(q)
  <2>1. is_fixed(q.cells) /\ QueryBufferArrowArray(n, q) = FixedArray(n, q)
    BY <1>3 DEF QueryBufferArrowArray, FixedAccepts
  <2>2. FixedArray(n, q) = {} => q.cells.width > MaxListWidth
    <3>1. FixedArray(n, q) = {} => q.cells.width \notin 1..MaxListWidth
      BY DEF FixedArray
    <3> QED
      BY <1>1, <2>1, <3>1, ListWidthAssumption
  <2> QED
    BY <2>1, <2>2, FixedCarries
<1>4. CASE ~SingleAccepts(q) /\ ~FixedAccepts(q)
  <2>1. ~is_fixed(q.cells) /\ QueryBufferArrowArray(n, q) = VarArray(n, q)
    BY <1>4 DEF QueryBufferArrowArray, FixedAccepts, SingleAccepts, is_single
  <2>2. VarArray(n, q) # {}
    BY DEF VarArray
  <2> QED
    BY <2>1, <2>2, ListCarries
<1> QED
  BY <1>2, <1>3, <1>4

\* Buffers whose parts have the same items.
SameItems(p, q) ==
    /\ p.data.items = q.data.items
    /\ p.cells \in CellStructure /\ p.cells.width = q.cells.width
    /\ p.cells.offsets = {} <=> q.cells.offsets = {}
    /\ \A r \in p.cells.offsets : p.cells.offsets = {r} /\ \A o \in q.cells.offsets : r.items = o.items
    /\ p.validity = {} <=> q.validity = {}
    /\ \A r \in p.validity : p.validity = {r} /\ \A v \in q.validity : r.items = v.items

\* Borrowing buffers, or lending them as scratch space, leaves the items what they were.
LEMMA FormsAlike ==
    ASSUME NEW T, NEW n, NEW q, OutputOf(T, n, q), NEW p \in Forms(q)
    PROVE  SameItems(p, q)
<1>1. /\ q.cells \in CellStructure
      /\ \A o \in q.cells.offsets : q.cells.offsets = {o}
      /\ \A v \in q.validity : q.validity = {v}
  BY DEF OutputOf
<1>2. CASE p = q
  BY <1>1, <1>2, Zenon DEF SameItems
<1>3. CASE p = as_shared(q)
  <2>1. p = [data |-> borrow(q.data), cells |-> [q.cells EXCEPT !.offsets = {borrow(o) : o \in @}],
             validity |-> {borrow(v) : v \in q.validity}]
    BY <1>3 DEF as_shared
  <2>2. \A b : borrow(b).items = b.items
    BY DEF borrow, Borrowed
  <2>3. \A o \in q.cells.offsets : borrow(o) \in [own : Owners, items : Seq(Nat)]
    BY <1>1 DEF borrow, Borrowed, CellStructure, Owners
  <2>4. p.data.items = q.data.items /\ p.validity = {borrow(v) : v \in q.validity}
    BY <2>1, <2>2
  <2>5. p.cells.width = q.cells.width /\ p.cells.offsets = {borrow(o) : o \in q.cells.offsets}
    BY <1>1, <2>1 DEF CellStructure
  <2>6. p.cells \in CellStructure
    BY <1>1, <2>1, <2>3 DEF CellStructure
  <2>7. /\ p.cells.offsets = {} <=> q.cells.offsets = {}
        /\ \A r \in p.cells.offsets : p.cells.offsets = {r} /\ \A o \in q.cells.offsets : r.items = o.items
    BY <1>1, <2>2, <2>5
  <2>8. /\ p.validity = {} <=> q.validity = {}
        /\ \A r \in p.validity : p.validity = {r} /\ \A v \in q.validity : r.items = v.items
    BY <1>1, <2>2, <2>4
  <2> QED
    BY <2>4, <2>5, <2>6, <2>7, <2>8 DEF SameItems
<1>4. CASE p \in ScratchSpace(q)
  <2>1. PICK c \in ScratchCells(q.cells) :
           p = [data |-> Owned(q.data.items), cells |-> c, validity |-> {Owned(v.items) : v \in q.validity}]
    BY <1>4, Zenon DEF ScratchSpace
  <2>2. c = q.cells
    BY <2>1 DEF ScratchCells
  <2>3. \A s : Owned(s).items = s
    BY DEF Owned
  <2>4. p.data.items = q.data.items /\ p.validity = {Owned(v.items) : v \in q.validity} /\ p.cells = q.cells
    BY <2>1, <2>2, <2>3
  <2>5. /\ p.validity = {} <=> q.validity = {}
        /\ \A r \in p.validity : p.validity = {r} /\ \A v \in q.validity : r.items = v.items
    BY <1>1, <2>3, <2>4
  <2> QED
    BY <1>1, <2>4, <2>5 DEF SameItems
<1> QED
  <2>1. OfType(Typed("Int32", as_shared(q)), "Int32") = {as_shared(q)}
    BY DEF OfType, Typed, Inner
  <2> QED
    BY <1>2, <1>3, <1>4, <2>1 DEF Forms

\* Buffers with the same items hold the same output.
LEMMA SameOutput ==
    ASSUME NEW T, NEW n, NEW q, OutputOf(T, n, q), NEW p, SameItems(p, q)
    PROVE  OutputOf(T, n, p) /\ FieldLike(p) = FieldLike(q) /\ Records(n, p) = Records(n, q)
<1>1. n \in Nat /\ q.cells \in CellStructure /\ (q.cells.width = 0 <=> q.cells.offsets # {})
  BY DEF OutputOf
<1>2. is_fixed(p.cells) <=> is_fixed(q.cells)
  BY DEF SameItems, is_fixed
<1>3. ~is_fixed(q.cells) =>
         /\ Only(p.cells.offsets) \in p.cells.offsets /\ Only(q.cells.offsets) \in q.cells.offsets
         /\ Only(p.cells.offsets).items = Only(q.cells.offsets).items
  <2> SUFFICES ASSUME q.cells.offsets # {}, p.cells.offsets # {}
               PROVE  /\ Only(p.cells.offsets) \in p.cells.offsets
                      /\ Only(q.cells.offsets) \in q.cells.offsets
                      /\ Only(p.cells.offsets).items = Only(q.cells.offsets).items
    BY <1>2 DEF is_fixed
  <2>1. Only(p.cells.offsets) \in p.cells.offsets
    BY Zenon DEF Only
  <2>2. Only(q.cells.offsets) \in q.cells.offsets
    BY Zenon DEF Only
  <2> QED
    BY <2>1, <2>2, Zenon DEF SameItems
<1>4. CellsOf(n, p) = CellsOf(n, q)
  <2>1. CASE is_fixed(q.cells)
    <3> DEFINE w == q.cells.width  d == q.data.items
    <3>1. CellsOf(n, p) = [i \in 1..n |-> SubSeq(d, (i - 1) * w + 1, i * w)]
      BY <1>2, <2>1 DEF CellsOf, SameItems
    <3>2. CellsOf(n, q) = [i \in 1..n |-> SubSeq(d, (i - 1) * w + 1, i * w)]
      BY <2>1 DEF CellsOf
    <3> QED
      BY <3>1, <3>2, Zenon
  <2>2. CASE ~is_fixed(q.cells)
    <3> DEFINE o == Only(q.cells.offsets).items  d == q.data.items
    <3>1. CellsOf(n, p) = [i \in 1..n |-> SubSeq(d, o[i] + 1, o[i + 1])]
      BY <1>2, <1>3, <2>2 DEF CellsOf, SameItems
    <3>2. CellsOf(n, q) = [i \in 1..n |-> SubSeq(d, o[i] + 1, o[i + 1])]
      BY <2>2 DEF CellsOf
    <3> QED
      BY <3>1, <3>2, Zenon
  <2> QED
    BY <2>1, <2>2
<1>5. NullsOf(n, p) = NullsOf(n, q)
  <2>1. ASSUME NEW i \in 1..n
        PROVE  (\E v \in p.validity : v.items[i] = 0) <=> \E v \in q.validity : v.items[i] = 0
    BY DEF SameItems
  <2> QED
    BY <2>1, Zenon DEF NullsOf
<1>6. Records(n, p) = Records(n, q)
  BY <1>4, <1>5, Zenon DEF Records
<1>7. FieldLike(p) = FieldLike(q)
  <2>1. (p.validity # {}) = (q.validity # {}) /\ p.cells.width = q.cells.width
    BY DEF SameItems
  <2> QED
    BY <2>1, Zenon DEF FieldLike
<1>8. /\ p.data.items \in Seq(T) /\ p.cells \in CellStructure
      /\ p.cells.width = 0 <=> p.cells.offsets # {}
      /\ \A r \in p.cells.offsets : p.cells.offsets = {r}
      /\ \A r \in p.validity : p.validity = {r} /\ r.items \in Seq(Int)
  BY DEF OutputOf, SameItems
<1>9. nvalues(n, p) = nvalues(n, q)
  <2>1. p.cells.width = q.cells.width
    BY DEF SameItems
  <2> QED
    BY <1>2, <1>3, <2>1 DEF nvalues
<1>10. IsOutput(n, p)
  <2>1. nvalues(n, p) <= Len(p.data.items)
    BY <1>9 DEF OutputOf, IsOutput, SameItems
  <2>2. \A v \in p.validity : n <= Len(v.items)
    BY DEF OutputOf, IsOutput, SameItems
  <2>3. ASSUME NEW r \in p.cells.offsets
        PROVE  IF n = 0 THEN r.items # <<>> => r.items[1] = 0
               ELSE /\ n < Len(r.items)
                    /\ r.items[1] = 0
                    /\ \A i \in 1..n : r.items[i] <= r.items[i + 1]
    <3>1. PICK o \in q.cells.offsets : r.items = o.items
      BY DEF SameItems
    <3>2. IF n = 0 THEN o.items # <<>> => o.items[1] = 0
          ELSE /\ n < Len(o.items)
               /\ o.items[1] = 0
               /\ \A i \in 1..n : o.items[i] <= o.items[i + 1]
      BY Zenon DEF OutputOf, IsOutput
    <3> QED
      BY <3>1, <3>2, Zenon
  <2> QED
    BY <2>1, <2>2, <2>3, Zenon DEF IsOutput
<1>11. OutputOf(T, n, p)
  BY <1>1, <1>8, <1>10, Zenon DEF OutputOf
<1> QED
  BY <1>6, <1>7, <1>11

-----------------------------------------------------------------------------
\* What an array was made of.
Made ==
    /\ output \in Outputs
    /\ state = "array" => \E p \in Forms(output.q) : array = IntoArrow(output.n, Typed("Int32", p))

\* An output made into an Arrow array, its buffers as they are, borrowed or lent as scratch
\* space, can be written back: the array holds the cells and nulls of the output and no
\* others (query/buffer/arrow.rs, query/write/input/arrow.rs).
THEOREM ArraysRoundTrip ==
    ASSUME NEW T, AreOutputs(T)
    PROVE  OutputSpec => []ArrowRoundTrip
<1>1. OutputInit => Made
  BY DEF OutputInit, Made
<1>2. Made /\ [OutputNext]_outputVars => Made'
  <2> SUFFICES ASSUME Made, [OutputNext]_outputVars PROVE Made'
    OBVIOUS
  <2>1. CASE IntoArray
    BY <2>1, Zenon DEF IntoArray, Made
  <2>2. CASE TryNew
    BY <2>2 DEF TryNew, Made
  <2>3. CASE NextSome
    BY <2>3 DEF NextSome, Made
  <2>4. CASE NextNone
    BY <2>4 DEF NextNone, Made
  <2>5. CASE DropIterator
    BY <2>5 DEF DropIterator, Made
  <2>6. CASE UNCHANGED outputVars
    BY <2>6 DEF outputVars, Made
  <2> QED
    BY <2>1, <2>2, <2>3, <2>4, <2>5, <2>6 DEF OutputNext
<1>3. Made => ArrowRoundTrip
  <2> SUFFICES ASSUME Made, state = "array"
               PROVE  /\ array = {} => output.q.cells.width > MaxListWidth
                      /\ \A a \in array : Carries(a, FieldLike(output.q), Records(output.n, output.q))
    BY Zenon DEF ArrowRoundTrip
  <2> DEFINE n == output.n  q == output.q
  <2>1. OutputOf(T, n, q)
    BY DEF Made, AreOutputs
  <2>2. PICK p \in Forms(q) : array = QueryBufferArrowArray(n, p)
    BY DEF Made, IntoArrow, Typed, Inner
  <2> HIDE DEF n, q
  <2>3. SameItems(p, q)
    BY <2>1, <2>2, FormsAlike
  <2>4. OutputOf(T, n, p) /\ FieldLike(p) = FieldLike(q) /\ Records(n, p) = Records(n, q)
    BY <2>1, <2>3, SameOutput
  <2>5. /\ \A a \in array : Carries(a, FieldLike(p), Records(n, p))
        /\ array = {} => p.cells.width > MaxListWidth
    BY <2>2, <2>4, ArraysCarry
  <2>6. p.cells.width = q.cells.width
    BY <2>3 DEF SameItems
  <2> QED
    BY <2>4, <2>5, <2>6, Zenon DEF n, q
<1> QED
  BY <1>1, <1>2, <1>3, PTL DEF OutputSpec
=============================================================================
