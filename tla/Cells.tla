------------------------------- MODULE Cells -------------------------------
(***************************************************************************)
(* The cells the property tests write and compare with what is read        *)
(* (test-utils/cells).                                                     *)
(*                                                                         *)
(* Cells are a function from fields to FieldData, [type, cells]: the       *)
(* variant and a sequence of cells.  A cell is an integer; the order of    *)
(* the integers stands for bits_cmp, which is total on every variant.      *)
(* Indices count from 1.                                                   *)
(***************************************************************************)
EXTENDS Integers, SequencesExt, FiniteSetsExt

InOrder(n) == [i \in 1..n |-> i]

Field(type, cells) == [type |-> type, cells |-> cells]

\* typed_field_data_go: the same for every variant.
OnCells(d, op(_)) == Field(d.type, op(d.cells))

\* typed_field_data_cmp: the variants match.
SameType(d, e) == d.type = e.type

\* FieldData::extend, panics if the types differ: {}.
FieldExtend(d, e) == IF SameType(d, e) THEN {OnCells(d, LAMBDA v : v \o e.cells)} ELSE {}

FieldSlice(d, start, len) == OnCells(d, LAMBDA v : SubSeq(v, start + 1, start + len))

\* FieldData::filter: the cells at the indices of a set, in order.
FieldFilter(d, set) ==
    LET at == SelectSeq(InOrder(Len(d.cells)), LAMBDA i : i \in set)
    IN  OnCells(d, LAMBDA v : [i \in DOMAIN at |-> v[at[i]]])

FieldTruncate(d, len) == OnCells(d, LAMBDA v : IF len < Len(v) THEN SubSeq(v, 1, len) ELSE v)
-----------------------------------------------------------------------------
\* Cells::len asks any field; Cells::new asserts that they agree.
Length(c) == LET f == CHOOSE f \in DOMAIN c : TRUE IN Len(c[f].cells)

Aligned(c) == \A f, g \in DOMAIN c : Len(c[f].cells) = Len(c[g].cells)

Agree(c, d) == \A f \in DOMAIN c \cap DOMAIN d : SameType(c[f], d[f])

\* Mutant: nothing is overwritten.
Overlay_Extends(mine, theirs) == IF Len(mine) < Len(theirs) THEN theirs ELSE mine

\* Overwrites at common indices, extends where necessary.
Overlay(mine, theirs) ==
    IF Len(mine) <= Len(theirs) THEN theirs
    ELSE theirs \o SubSeq(mine, Len(theirs) + 1, Len(mine))

\* Field by field; unreachable!() if the types differ.
copy_from(c, d) ==
    {[f \in DOMAIN c \cup DOMAIN d |->
        IF f \notin DOMAIN d THEN c[f]
        ELSE IF f \notin DOMAIN c THEN d[f]
        ELSE Field(c[f].type, Overlay(c[f].cells, d[f].cells))] : ok \in {TRUE} \cap {Agree(c, d)}}

truncate(c, len) == [f \in DOMAIN c |-> FieldTruncate(c[f], len)]

\* Panics unless the fields and their types agree.
extend(c, d) ==
    IF DOMAIN c = DOMAIN d /\ \A f \in DOMAIN c : FieldExtend(c[f], d[f]) # {}
    THEN {[f \in DOMAIN c |-> CHOOSE e \in FieldExtend(c[f], d[f]) : TRUE]}
    ELSE {}

filter(c, set) == [f \in DOMAIN c |-> FieldFilter(c[f], set)]

projection(c, fields) == IF fields \subseteq DOMAIN c THEN {[f \in fields |-> c[f]]} ELSE {}

add_field(c, f, data) ==
    IF Length(c) = Len(data.cells) /\ f \notin DOMAIN c
    THEN [g \in DOMAIN c \cup {f} |-> IF g = f THEN data ELSE c[g]]
    ELSE c

\* CellsView::eq, of two slices [first, last) with the same keys.
ViewsEqual(c, s, d, t, keys) ==
    /\ s[2] - s[1] = t[2] - t[1]
    /\ \A k \in Range(keys) :
          /\ k \in DOMAIN d
          /\ FieldSlice(c[k], s[1], s[2] - s[1]) = FieldSlice(d[k], t[1], t[2] - t[1])
-----------------------------------------------------------------------------
(***************************************************************************)
(* Order by a sequence of keys.                                            *)
(***************************************************************************)
\* index_comparator: Less on the first key in which the cells differ.
Before(c, keys, i, j) ==
    \E k \in DOMAIN keys :
        /\ c[keys[k]].cells[i] < c[keys[k]].cells[j]
        /\ \A h \in 1..k - 1 : c[keys[h]].cells[i] = c[keys[h]].cells[j]

Same(c, keys, i, j) == \A k \in Range(keys) : c[k].cells[i] = c[k].cells[j]

is_sorted(c, keys) == \A i \in 2..Length(c) : ~Before(c, keys, i, i - 1)

\* idx.sort_by(index_comparator), which is stable.
SortedIndices(c, keys) ==
    SortSeq(InOrder(Length(c)), LAMBDA i, j : Before(c, keys, i, j) \/ (Same(c, keys, i, j) /\ i < j))

\* Mutant: each cell goes where the index says, instead of coming from there.
sort_Inverted(c, keys) ==
    LET idx == SortedIndices(c, keys)
    IN  [f \in DOMAIN c |-> Field(c[f].type,
            [i \in 1..Length(c) |-> c[f].cells[CHOOSE j \in DOMAIN idx : idx[j] = i]])]

sort(c, keys) ==
    LET idx == SortedIndices(c, keys)
    IN  [f \in DOMAIN c |-> Field(c[f].type, [i \in DOMAIN idx |-> c[f].cells[idx[i]]])]

\* The loop that identify_groups, count_distinct and dedup share: along the
\* indices, those whose cell differs from the last one so found, icmp.
Leaders(c, keys, idx) ==
    LET icmp[i \in DOMAIN idx] ==
            IF i = 1 \/ ~Same(c, keys, idx[i], idx[icmp[i - 1]]) THEN i ELSE icmp[i - 1]
    IN  {i \in DOMAIN idx : icmp[i] = i}

\* Where each run of equal cells begins, and where the last one has ended.
identify_groups(c, keys) ==
    IF Length(c) = 0 THEN {}
    ELSE LET leaders == Leaders(c, keys, InOrder(Length(c)))
         IN  {SelectSeq(InOrder(Length(c)), LAMBDA i : i \in leaders) \o <<Length(c) + 1>>}

count_distinct(c, keys) ==
    IF Length(c) <= 1 THEN Length(c)
    ELSE Cardinality(Leaders(sort(c, keys), keys, InOrder(Length(c))))

\* Mutant: the position in the sorted order is kept, not the index found there.
dedup_Position(c, keys) ==
    IF Length(c) = 0 THEN c
    ELSE filter(c, Leaders(c, keys, SortedIndices(c, keys)))

\* The first cell of each group, in the order of the input.
dedup(c, keys) ==
    IF Length(c) = 0 THEN c
    ELSE LET idx == SortedIndices(c, keys)
         IN  filter(c, {idx[i] : i \in Leaders(c, keys, idx)})
-----------------------------------------------------------------------------
(***************************************************************************)
(* StructuredCells::slice: a box of cells in row-major order.  dims are    *)
(* the lengths of the dimensions, ranges pairs of first and last index,    *)
(* the last one excluded, from 0.                                          *)
(***************************************************************************)
\* NextIndex::compute
RowMajor(dims, cursors) ==
    MapThenSumSet(LAMBDA d : cursors[d] * FoldSeq(LAMBDA a, b : a * b, 1, SubSeq(dims, d + 1, Len(dims))),
                  DOMAIN dims)

\* Mutant: the cursors behind stay where they are.
Advance_NoReset(ranges, cursors) ==
    LET room == {d \in DOMAIN cursors : cursors[d] + 1 < ranges[d][2]}
    IN  {[cursors EXCEPT ![m] = @ + 1] : m \in {m \in room : \A d \in room : d <= m}}

\* NextIndex::advance: the last cursor that has room moves, those behind it start over.
Advance(ranges, cursors) ==
    LET room == {d \in DOMAIN cursors : cursors[d] + 1 < ranges[d][2]}
    IN  {[d \in DOMAIN cursors |->
             CASE d < m -> cursors[d] [] d = m -> cursors[d] + 1 [] d > m -> ranges[d][1]] :
            m \in {m \in room : \A d \in room : d <= m}}

\* The indices that NextIndex yields before its cursors are None.
SliceIndices(dims, ranges) ==
    LET total == FoldSeq(LAMBDA a, b : a * b, 1, dims)
        at[k \in 0..total] ==   \* the cursors after k steps, a set of at most one
            IF k = 0
            THEN IF \E r \in Range(ranges) : r[1] >= r[2] THEN {}
                 ELSE {[d \in DOMAIN ranges |-> ranges[d][1]]}
            ELSE UNION {Advance(ranges, c) : c \in at[k - 1]}
    IN  {RowMajor(dims, c) : c \in UNION {at[k] : k \in 0..total}}

slice(dims, c, ranges) == filter(c, {i + 1 : i \in SliceIndices(dims, ranges)})
-----------------------------------------------------------------------------
(***************************************************************************)
(* SparseWriteInput::domain and WriteInput::domain: the smallest box       *)
(* around the coordinates, or the subarray of a dense write.               *)
(***************************************************************************)
SparseDomain(c, dims) ==
    IF Length(c) = 0 THEN {}
    ELSE {[d \in DOMAIN dims |-> <<Min(Range(c[dims[d]].cells)), Max(Range(c[dims[d]].cells))>>]}

WriteDomain(w) == IF w.dense THEN {w.subarray} ELSE SparseDomain(w.cells, w.dimensions)
-----------------------------------------------------------------------------
(***************************************************************************)
(* Properties.                                                             *)
(***************************************************************************)
\* What dedup keeps are the cells that no earlier one equals, in their order, and
\* none of them is equal to another; the sort it uses does not show.
DedupKeepsFirsts(c, keys) ==
    LET firsts == {i \in 1..Length(c) : \A j \in 1..i - 1 : ~Same(c, keys, i, j)}
    IN  /\ dedup(c, keys) = filter(c, firsts)
        /\ count_distinct(dedup(c, keys), keys) = Length(dedup(c, keys))

\* Sorting permutes whole records, and in sorted cells the groups are one for
\* each distinct value of the keys.
SortGroupsRecords(c, keys) ==
    LET s == sort(c, keys)
        Record(x, i) == [f \in DOMAIN x |-> x[f].cells[i]]
    IN  /\ is_sorted(s, keys)
        /\ \A i \in 1..Length(c) :
              Cardinality({j \in 1..Length(c) : Record(s, j) = Record(c, i)})
                = Cardinality({j \in 1..Length(c) : Record(c, j) = Record(c, i)})
        /\ \A g \in identify_groups(s, keys) : Len(g) = count_distinct(c, keys) + 1

\* Of cells that agree on their fields copy_from makes aligned cells, which show
\* the copied ones, and behind them what was there.
CopyOverlays(c, d) ==
    DOMAIN c = DOMAIN d =>
        \A r \in copy_from(c, d) : LET keys == SetToSeq(DOMAIN c) IN
            /\ Aligned(r)
            /\ ViewsEqual(r, <<0, Length(d)>>, d, <<0, Length(d)>>, keys)
            /\ Length(d) < Length(c) =>
                 ViewsEqual(r, <<Length(d), Length(c)>>, c, <<Length(d), Length(c)>>, keys)

\* The odometer visits exactly the cells with coordinates in the ranges.
SliceIsBox(dims, c, ranges) ==
    LET Coordinate(i, d) ==
            (i \div FoldSeq(LAMBDA a, b : a * b, 1, SubSeq(dims, d + 1, Len(dims)))) % dims[d]
    IN  slice(dims, c, ranges) =
          filter(c, {i \in 1..Length(c) : \A d \in DOMAIN dims :
                        ranges[d][1] <= Coordinate(i - 1, d) /\ Coordinate(i - 1, d) < ranges[d][2]})
=============================================================================
