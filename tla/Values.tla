------------------------------- MODULE Values -------------------------------
(***************************************************************************)
(* Datatypes, ranges, filters, dimensions, subarrays and query conditions, *)
(* one operation at a time.  These modules have no state: a behaviour      *)
(* takes an operation and its arguments, and the invariants say what the   *)
(* operation makes of them.  Only a filter pipeline is drawn, and a query  *)
(* condition shrunk, in several steps.                                     *)
(***************************************************************************)
EXTENDS Subarray, ArrowTypes

CONSTANTS
    CellNumbers,          \* cell value numbers, and the lengths of fixed-size lists
    RangeInputs,          \* sets of ranges of one kind and type
    RangeLists,           \* sets of lists of such ranges
    Slices,               \* sequences of values, given as the bounds of a range
    Coordinates,          \* what a cell has in one dimension
    Grids,                \* sequences of dimensions
    Asked,                \* lists of ranges asked for in one of them
    FilterInputs,         \* the datatypes filters are drawn for,
    Contexts,             \* what the pipeline is for,
    Allowances,           \* and the filters it may have
    DimensionDatatypes,   \* the datatypes dimensions are drawn of,
    Limits,               \* and limits on their tiles and cells
    Conditions,           \* expressions of query conditions, and the cells they are
    ConditionCells,       \* about: functions of the fields
    Failing               \* expressions that fail a test

VARIABLE input   \* [op, ...]: the operation and its arguments

\* In order, of the kind and the type, and of n values where that is fixed.
IsRange(r, kind, T, n) ==
    /\ r = [kind |-> kind, type |-> T, lo |-> r.lo, hi |-> r.hi]
    /\ r.lo \in Seq(TMin(T)..TMax(T)) /\ r.hi \in Seq(TMin(T)..TMax(T))
    /\ kind = "Single" => Len(r.lo) = 1 /\ Len(r.hi) = 1
    /\ kind = "Multi"  => Len(r.lo) = n /\ Len(r.hi) = n /\ n > 1
    /\ Ordered(r)

Alike(rs) ==
    \E kind \in {"Single", "Multi", "Var"}, T \in PhysicalType, n \in CellNumbers :
        \A r \in rs : IsRange(r, kind, T, n)

\* In order or not.
HasShape(r) ==
    /\ r = [kind |-> r.kind, type |-> r.type, lo |-> r.lo, hi |-> r.hi]
    /\ r.kind \in {"Single", "Multi", "Var"} /\ r.type \in PhysicalType
    /\ r.lo \in Seq(TMin(r.type)..TMax(r.type)) /\ r.hi \in Seq(TMin(r.type)..TMax(r.type))
    /\ r.kind = "Single" => Len(r.lo) = 1 /\ Len(r.hi) = 1

ASSUME CellNumbersAre == CellNumbers \subseteq Nat
ASSUME RangesAreAlike == \A rs \in RangeInputs : Alike(rs)
ASSUME ListsAreAlike  == \A ls \in RangeLists : /\ \A l \in ls : l \in Seq(ToSet(l))
                                                /\ Alike(UNION {ToSet(l) : l \in ls})
ASSUME SlicesAre == \A s \in Slices \cup Coordinates : s \in Seq(Int)
ASSUME GridsAre == \A dims \in Grids : /\ dims \in Seq(ToSet(dims))
                                       /\ \A d, e \in DOMAIN dims : dims[d].name = dims[e].name => d = e
ASSUME AskedAre == \A rs \in Asked : rs \in Seq(ToSet(rs)) /\ \A r \in ToSet(rs) : HasShape(r)
ASSUME DatatypesAre == /\ FilterInputs \subseteq Datatypes
                       /\ DimensionDatatypes \subseteq DENSE_DIMENSION_DATATYPES \cup {"StringAscii"}
ASSUME LimitsAre == Limits \subseteq Nat

Q == INSTANCE QueryCondition

ASSUME ConditionsAre == \A e \in Conditions \cup Failing : Q!IsExpression(e)
ASSUME ConditionCellsAre ==
    \A e \in Conditions : \A cell \in ConditionCells : Q!IsCell(cell, Q!Mentions(e))

ValuesInit == input = [op |-> "none"]
-----------------------------------------------------------------------------
(* Datatypes and their Arrow types. *)

ArrowItems == {Arrow(t) : t \in {"Null", "Int8", "Int16", "Int32", "Int64", "UInt8", "UInt16",
                   "UInt32", "UInt64", "Float16", "Float32", "Float64", "Date32", "Date64",
                   "Boolean", "Binary", "LargeBinary", "Utf8", "LargeUtf8"}}
              \cup {Timed(t, u) : t \in {"Timestamp", "Time32", "Time64", "Duration"},
                       u \in {"Second", "Millisecond", "Microsecond", "Nanosecond"}}
              \cup {FixedSizeBinary(n) : n \in CellNumbers}

ItemOf(arrow, nullable) == [arrow |-> arrow, nullable |-> nullable, hint |-> "none"]

ArrowInputs == ArrowItems
    \cup {FixedSizeList(ItemOf(a, b), n) : n \in CellNumbers, a \in ArrowItems, b \in BOOLEAN}
    \cup {LargeList(ItemOf(a, b)) : a \in ArrowItems, b \in BOOLEAN}

TakeDatatype ==
    /\ input.op = "none"
    /\ \E dt \in Datatypes, cvn \in CellNumbers : input' = [op |-> "datatype", dt |-> dt, cvn |-> cvn]

TakeArrow ==
    /\ input.op = "none"
    /\ \E a \in ArrowInputs : input' = [op |-> "arrow", arrow |-> a]

\* See Datatype and ArrowTypes: the tables of datatypes, and the two conversions
\* (common/src/datatype).
DatatypesAgree ==
    /\ input.op = "datatype" => TablesAgree(input.dt) /\ DatatypeRoundTrip(input.dt, input.cvn)
    /\ input.op = "arrow" => ArrowRoundTripsType(input.arrow)
-----------------------------------------------------------------------------
(* Pairs of ranges of one kind and type, slices to make ranges of, and     *)
(* pairs of subarrays of two dimensions.                                   *)

TakeRanges ==
    /\ input.op = "none"
    /\ \E rs \in RangeInputs : \E l, r \in rs : input' = [op |-> "ranges", l |-> l, r |-> r]

TakeBounds ==
    /\ input.op = "none"
    /\ \E dt \in Datatypes, cvn \in CellNumbers, s, t \in Slices :
          input' = [op |-> "bounds", dt |-> dt, cvn |-> cvn, start |-> s, end |-> t]

TakeIntersected ==
    /\ input.op = "none"
    /\ \E a, b \in RangeLists : \E s, t \in a \X b : input' = [op |-> "intersected", s |-> s, t |-> t]

\* The cells a range of the kind of r may hold.
CellsLike(r) ==
    UNION {[1..n -> TMin(r.type)..TMax(r.type)] : n \in IF r.kind = "Var" THEN CellNumbers ELSE {Len(r.lo)}}

\* See Range and Subarray: counting, intersection, union and the bytes of bounds
\* (common/src/range.rs), and the intersections of subarrays (pod/src/query/subarray.rs).
RangeAlgebra ==
    /\ input.op = "ranges" => /\ CountsCells(input.l)
                              /\ MeetAndJoin(input.l, input.r, CellsLike(input.l))
    /\ input.op = "bounds" => FromSlicesFits(input.dt, input.cvn, input.start, input.end)
    /\ input.op = "intersected" => IntersectionSelects(input.s, input.t, Coordinates \X Coordinates)
-----------------------------------------------------------------------------
(* Filter pipelines, drawn a filter at a time. *)

TakeFilters ==
    /\ input.op = "none"
    /\ \E dt \in FilterInputs, context \in Contexts, allow \in Allowances :
          input' = [op |-> "filters",
                    req |-> [input |-> {dt}, context |-> context, position |-> {0}, allow |-> allow]]

DrawFilter ==
    /\ input.op = "filters"
    /\ input.req.position # {MaxFilters}
    /\ \E draw \in Draws(input.req) : input' = [input EXCEPT !.req = draw[2]]

\* See Filters: drawn filters and pipelines through the C library and Arrow's metadata.
FilterRoundTrip ==
    input.op = "filters" => DrawnFiltersReturn(input.req) /\ PipelineTransforms(input.req)
-----------------------------------------------------------------------------
(* Dimensions and subarrays of drawn constraints. *)

Pipelines == {<<>>} \cup {<<Plain(f)>> : f \in {"None", "BitShuffle", "ByteShuffle", "Xor",
                                                "ChecksumMd5", "ChecksumSha256"}}

TakeDimension ==
    /\ input.op = "none"
    /\ \E dt \in DimensionDatatypes, limit \in Limits \ {0, 1} :
          \/ input' = [op |-> "dimension", dt |-> dt, limit |-> limit]
          \/ \E c \in prop_constraints(dt, limit), bound \in {{}} \cup {{n} : n \in Limits} :
                IsBounded(c) /\ input' = [op |-> "subarray", c |-> c, bound |-> bound]
          \/ \E c \in prop_constraints(dt, limit), fs \in {{}} \cup {{p} : p \in Pipelines} :
                input' = [op |-> "key",
                          d |-> [name |-> "d", datatype |-> dt, constraints |-> c, filters |-> fs]]
          \/ \E n \in CellNumbers \ {0} :
                input' = [op |-> "tiles", type |-> physical(dt), n |-> n, limit |-> limit]

\* See Dimensions: what the strategies draw, and what the C library makes of it.
DrawnDimensionsFit ==
    /\ input.op = "dimension" => DrawnConstraintsFit(input.dt, input.limit)
    /\ input.op = "subarray" => DrawnSubarraysFit(input.c, input.bound)
    /\ input.op = "key" => DimensionRoundTrip(input.d)
    /\ input.op = "tiles" => DrawnTilesFit(input.type, input.n, input.limit)
-----------------------------------------------------------------------------
(* Subarrays built in the C library and read back. *)

TakeSubarray ==
    /\ input.op = "none"
    /\ \E dims \in Grids : \E s \in [DOMAIN dims -> Asked] : input' = [op |-> "built", dims |-> dims, s |-> s]

\* One value each where the dimension is not one of strings.
GridCells(dims) ==
    {cell \in [DOMAIN dims -> Coordinates] :
        \A d \in DOMAIN dims : IsBounded(dims[d].constraints) => Len(cell[d]) = 1}

\* See Subarray: ranges given to the C library and read back (query/subarray.rs).
SubarraysAsGiven == input.op = "built" => SubarrayAsGiven(input.dims, input.s, GridCells(input.dims))
-----------------------------------------------------------------------------
(* Query conditions, and the search for a smaller one that fails a test. *)

TakeCondition ==
    /\ input.op = "none"
    /\ \E e \in Conditions : input' = [op |-> "condition", e |-> e]

TakeSearch ==
    /\ input.op = "none"
    /\ \E e \in Failing : \E culprits \in SUBSET Q!Mentions(e) : input' = Q!Search(e, culprits)

RunTestAgain ==
    /\ input.op = "search" /\ input.going
    /\ input' = Q!RunTest(input)

\* See QueryCondition: what the C library selects (query/condition/mod.rs).
ConditionMeans == input.op = "condition" => Q!ConditionMeans(input.e, ConditionCells)

\* See QueryCondition: what the value tree reports (query/condition/strategy.rs).
ConditionShrinks == input.op = "search" => Q!ConditionShrinks(input)
-----------------------------------------------------------------------------
ValuesNext ==
    \/ TakeDatatype
    \/ TakeArrow
    \/ TakeRanges
    \/ TakeBounds
    \/ TakeIntersected
    \/ TakeFilters
    \/ DrawFilter
    \/ TakeDimension
    \/ TakeSubarray
    \/ TakeCondition
    \/ TakeSearch
    \/ RunTestAgain

ValuesSpec == ValuesInit /\ [][ValuesNext]_input
=============================================================================
