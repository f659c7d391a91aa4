------------------------------- MODULE Range -------------------------------
(***************************************************************************)
(* Ranges of one dimension and their algebra (common/src/range.rs).        *)
(*                                                                         *)
(* A range is [kind, type, lo, hi]: Single, Multi or Var, the physical     *)
(* type, and its bounds, each a sequence of values (of one for a single).  *)
(* The values of a physical type are TMin(T) to TMax(T), in the order of   *)
(* bits_cmp; an operation that may panic returns a set, {} if it does.     *)
(***************************************************************************)
EXTENDS Datatype

CONSTANTS
    TMin(_), TMax(_),   \* the values of a physical type
    CountMax            \* the largest number num_cells counts to, i128::MAX

ASSUME TypesAreIntervals ==
    /\ \A T \in PhysicalType : TMin(T) \in Int /\ TMax(T) \in Int /\ TMin(T) <= TMax(T)
    /\ CountMax \in Nat

Floats == {"f32", "f64"}

Single(T, lo, hi) == [kind |-> "Single", type |-> T, lo |-> <<lo>>, hi |-> <<hi>>]
MultiRange(T, lo, hi) == [kind |-> "Multi", type |-> T, lo |-> lo, hi |-> hi]
VarRange(T, lo, hi) == [kind |-> "Var", type |-> T, lo |-> lo, hi |-> hi]

CellValNumVar == 0    \* CellValNum::Var; Fixed(n) is n > 0

\* The error of MultiValueRange::try_from, or "Ok".
multi_check(cvn, lo, hi) ==
    IF cvn = 1 THEN "CellValNumSingle"
    ELSE IF cvn = CellValNumVar THEN "CellValNumVar"
    ELSE IF Len(lo) # cvn THEN "InvalidStartRange"
    ELSE IF Len(hi) # cvn THEN "InvalidEndRange"
    ELSE "Ok"

Multi(T, cvn, lo, hi) == {r \in {MultiRange(T, lo, hi)} : multi_check(cvn, lo, hi) = "Ok"}

num_values(r) == Len(r.lo)

single_cell_val_num(r) == 1
multi_cell_val_num(r) == num_values(r)
var_cell_val_num(r) == CellValNumVar
cell_val_num(r) == IF r.kind = "Single" THEN single_cell_val_num(r)
                   ELSE IF r.kind = "Multi" THEN multi_cell_val_num(r)
                   ELSE var_cell_val_num(r)

check_datatype(r, dt) == is_compatible_type(dt, r.type)

\* The macros that take ranges apart: the same for every variant of one type.
single_value_range_go(r, then(_, _)) == then(r.lo[1], r.hi[1])
multi_value_range_go(r, then(_, _)) == then(r.lo, r.hi)
var_value_range_go(r, then(_, _)) == then(r.lo, r.hi)

\* ... and the ones for two ranges, whose variants have to be the same.
single_value_range_cmp(l, r, then, else) == IF l.type = r.type THEN then ELSE else
multi_value_range_cmp(l, r, then, else) == IF l.type = r.type THEN then ELSE else
var_value_range_cmp(l, r, then, else) == IF l.type = r.type THEN then ELSE else
-----------------------------------------------------------------------------
single_num_cells(r) ==
    IF r.type \in Floats THEN {} ELSE single_value_range_go(r, LAMBDA lo, hi : {1 + (hi - lo)})

\* Mutant: cells of the values behind the first difference are not counted.
Count_NoFactor(T, lo, hi, i, n) ==
    LET m == n + (hi[i] - lo[i])
    IN  IF m > CountMax THEN -1 ELSE m

\* One step of the fold of num_cells over the bounds; -1 for None (checked_mul).
Count(T, lo, hi, i, n) ==
    LET factor == TMax(T) - TMin(T) + 1
    IN  IF n < 0 \/ n * factor > CountMax THEN -1 ELSE n * factor + (hi[i] - lo[i])

\* skip_while the bounds are equal needs no rule: those steps count 0.
multi_num_cells(r) ==
    IF r.type \in Floats THEN {}
    ELSE LET upto[i \in 0..Len(r.lo)] ==
                 IF i = 0 THEN 0 ELSE Count(r.type, r.lo, r.hi, i, upto[i - 1])
         IN  IF upto[Len(r.lo)] < 0 THEN {} ELSE {upto[Len(r.lo)] + 1}

num_cells(r) == CASE r.kind = "Single" -> single_num_cells(r)
                  [] r.kind = "Multi"  -> multi_num_cells(r)
                  [] r.kind = "Var"    -> {}
-----------------------------------------------------------------------------
le(s, t) == slice_bits_cmp(s, t) # Greater
lt(s, t) == slice_bits_cmp(s, t) = Less

\* Mutant: the lower bound is the smaller one.
Bounds_Lower(l, r) ==
    IF lt(l.hi, r.lo) \/ lt(r.hi, l.lo) THEN {}
    ELSE {<<IF lt(l.lo, r.lo) THEN l.lo ELSE r.lo, IF lt(r.hi, l.hi) THEN r.hi ELSE l.hi>>}

\* Of two ordered ranges (asserted): the bounds of the intersection, {} for None.
Bounds(l, r) ==
    IF lt(l.hi, r.lo) \/ lt(r.hi, l.lo) THEN {}
    ELSE {<<IF lt(l.lo, r.lo) THEN r.lo ELSE l.lo, IF lt(r.hi, l.hi) THEN r.hi ELSE l.hi>>}

Ordered(r) == le(r.lo, r.hi)

\* A set of at most one range; Panicked if the assertions fail or the ranges do not match.
Panicked == {[kind |-> "panic"]}

single_intersection(l, r) ==
    single_value_range_cmp(l, r, {Single(l.type, b[1][1], b[2][1]) : b \in Bounds(l, r)}, Panicked)

multi_intersection(l, r) ==
    IF num_values(l) # num_values(r) THEN Panicked
    ELSE multi_value_range_cmp(l, r,
            UNION {Multi(l.type, cell_val_num(l), b[1], b[2]) : b \in Bounds(l, r)}, Panicked)

var_intersection(l, r) ==
    var_value_range_cmp(l, r, {VarRange(l.type, b[1], b[2]) : b \in Bounds(l, r)}, Panicked)

intersection(l, r) ==
    IF l.kind # r.kind \/ ~Ordered(l) \/ ~Ordered(r) THEN Panicked
    ELSE IF l.kind = "Single" THEN single_intersection(l, r)
    ELSE IF l.kind = "Multi" THEN multi_intersection(l, r)
    ELSE var_intersection(l, r)

\* The bounds of the smallest range over both.
Around(l, r) == <<IF lt(l.lo, r.lo) THEN l.lo ELSE r.lo, IF lt(r.hi, l.hi) THEN l.hi ELSE r.hi>>

single_union(l, r) ==
    single_value_range_cmp(l, r, {Single(l.type, Around(l, r)[1][1], Around(l, r)[2][1])}, {})

multi_union(l, r) ==
    IF num_values(l) # num_values(r) THEN {}
    ELSE multi_value_range_cmp(l, r,
            Multi(l.type, cell_val_num(l), Around(l, r)[1], Around(l, r)[2]), {})

var_union(l, r) ==
    var_value_range_cmp(l, r, {VarRange(l.type, Around(l, r)[1], Around(l, r)[2])}, {})

range_union(l, r) ==
    IF l.kind # r.kind THEN {}
    ELSE IF l.kind = "Single" THEN single_union(l, r)
    ELSE IF l.kind = "Multi" THEN multi_union(l, r)
    ELSE var_union(l, r)

\* A domain is a range per dimension; panics if their numbers differ.
domain_union(d, e) ==
    IF Len(d) # Len(e) \/ \E i \in DOMAIN d : range_union(d[i], e[i]) = {} THEN {}
    ELSE {[i \in DOMAIN d |-> CHOOSE u \in range_union(d[i], e[i]) : TRUE]}
-----------------------------------------------------------------------------
\* Into a RangeInclusive of another integer type: if both bounds are values of it.
to_range_inclusive(r, T) ==
    {<<r.lo[1], r.hi[1]>> : ok \in {TRUE} \cap {{r.lo[1], r.hi[1]} \subseteq TMin(T)..TMax(T)}}

\* TypedRange::from_slices of m and n bytes, which start and end hold the values of.
from_slices_check(dt, cvn, m, n) ==
    CASE m % size(dt) # 0                      -> "StartTruncation"
      [] m % size(dt) = 0 /\ n % size(dt) # 0  -> "EndTruncation"
      [] m % size(dt) = 0 /\ n % size(dt) = 0 /\ cvn > 0 /\ m \div size(dt) # cvn
            -> "StartMultiValueRangeMismatch"
      [] m % size(dt) = 0 /\ n % size(dt) = 0 /\ cvn > 0 /\ m \div size(dt) = cvn
            /\ n \div size(dt) # cvn -> "EndMultiValueRangeMismatch"
      [] OTHER -> "Ok"

from_slices(dt, cvn, start, end) ==
    LET T == physical(dt)
    IN  CASE cvn = 1 -> {Single(T, start[1], end[1])}
          [] cvn = CellValNumVar -> {VarRange(T, start, end)}
          [] OTHER   -> Multi(T, cvn, start, end)

\* The first complaint about a range for a dimension, or "Ok".
check_dimension_compatibility(r, dt, cvn) ==
    CASE r.kind = "Multi" -> "MultiValueRange"
      [] r.kind # "Multi" /\ ~check_datatype(r, dt) -> "Datatype"
      [] r.kind # "Multi" /\ check_datatype(r, dt) ->
            IF cvn > 1 THEN "CellValNumFixed"
            ELSE IF cvn = 1 THEN
                IF dt = "StringAscii" THEN "FixedStringAsciiDimension"
                ELSE IF r.kind # "Single" THEN "VarRangeForNonStringDimension" ELSE "Ok"
            ELSE IF dt # "StringAscii" THEN "CellValNumVar"
            ELSE IF r.kind = "Single" THEN "FixedRangeForStringDimension" ELSE "Ok"
-----------------------------------------------------------------------------
(* What the strategies draw: ordered ranges over given sequences of values. *)

ArbitrarySingle(T) == {Single(T, b[1], b[2]) : b \in {c \in (TMin(T)..TMax(T)) \X (TMin(T)..TMax(T)) : c[1] <= c[2]}}

Sorted(left, right) == IF lt(left, right) THEN <<left, right>> ELSE <<right, left>>

ArbitraryMulti(T, n) ==
    {MultiRange(T, Sorted(s, t)[1], Sorted(s, t)[2]) : s, t \in [1..n -> TMin(T)..TMax(T)]}

ArbitraryVar(T, max) ==
    LET values == UNION {[1..n -> TMin(T)..TMax(T)] : n \in 0..max}
    IN  {VarRange(T, Sorted(s, t)[1], Sorted(s, t)[2]) : s, t \in values}
-----------------------------------------------------------------------------
(***************************************************************************)
(* Properties.                                                             *)
(***************************************************************************)
Inside(v, r) == le(r.lo, v) /\ le(v, r.hi)

\* num_cells is the number of cells between the bounds in their order, for integers.  It
\* may be None for one that is less than a factor below the limit: a product on the way to
\* it is larger than it, if the bounds' next values are the other way round.
CountsCells(r) ==
    LET cells  == {v \in [1..num_values(r) -> TMin(r.type)..TMax(r.type)] : Inside(v, r)}
        factor == TMax(r.type) - TMin(r.type) + 1
    IN  r.kind # "Var" /\ r.type \notin Floats /\ Cardinality(cells) + factor <= CountMax
        => num_cells(r) = {Cardinality(cells)}

\* Of two ranges over the same cells: a cell is in the intersection exactly if it is in
\* both, the union holds both and is no larger than that takes; neither panics, also
\* where the bounds of multi-value cells overlap in some values only.
MeetAndJoin(l, r, cells) ==
    LET both == intersection(l, r)
        hull == range_union(l, r)
    IN  /\ both # Panicked
        /\ Cardinality(hull) = 1
        /\ \A v \in cells : (Inside(v, l) /\ Inside(v, r)) <=> \E b \in both : Inside(v, b)
        /\ \A u \in hull : /\ Ordered(u)
                           /\ u.lo \in {l.lo, r.lo} /\ u.hi \in {l.hi, r.hi}
                           /\ \A v \in cells : Inside(v, l) \/ Inside(v, r) => Inside(v, u)
        /\ \A b \in both : Ordered(b) /\ b.kind = l.kind

\* A range from the bytes of its bounds is of the cell value number and the datatype it
\* was asked for, so that it can be given back to the C library as it came.
FromSlicesFits(dt, cvn, start, end) ==
    from_slices_check(dt, cvn, size(dt) * Len(start), size(dt) * Len(end)) = "Ok"
    => \E r \in from_slices(dt, cvn, start, end) :
          cell_val_num(r) = cvn /\ check_datatype(r, dt)
=============================================================================
