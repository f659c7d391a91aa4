----------------------------- MODULE Dimensions -----------------------------
(***************************************************************************)
(* Dimensions and domains: the constraints of a dimension                  *)
(* (common/src/array/dimension.rs), the C dimension made of a              *)
(* DimensionData and the data read back from it (api/src/array/dimension,  *)
(* api/src/array/domain), and the dimensions and subarrays the strategies  *)
(* of pod/src/array draw.                                                  *)
(*                                                                         *)
(* What may fail returns a set, {} if it does.  A dimension is             *)
(* [name, datatype, constraints, filters], a domain a sequence of them;    *)
(* bounds and extents are values of a physical type, as in Range.          *)
(***************************************************************************)
EXTENDS Filters, Range

\* An integer is unsigned, or a two's complement.
ASSUME IntegersAre == \A T \in PhysicalType \ Floats : TMin(T) >= -(TMax(T) + 1)

Bounded(T, lo, hi, extent) == [type |-> T, lo |-> lo, hi |-> hi, extent |-> extent]
StringAscii == [type |-> "StringAscii"]

IsBounded(c) == c.type # "StringAscii"

dimension_cell_val_num(c) == IF IsBounded(c) THEN 1 ELSE CellValNumVar

verify_type_compatible(c, dt) ==
    IF IsBounded(c) THEN is_compatible_type(dt, c.type) ELSE dt = "StringAscii"

constraint_num_cells(c) ==
    IF IsBounded(c) /\ c.type \notin Floats THEN {1 + (c.hi - c.lo)} ELSE {}

constraint_tile_cells(c) == IF IsBounded(c) /\ c.type \notin Floats THEN c.extent ELSE {}

constraint_domain(c) == IF IsBounded(c) THEN {Single(c.type, c.lo, c.hi)} ELSE {}

\* The products of a number of each, where checked_mul has one.
CheckedMul(ns, ks) == {n \in {m * k : m \in ns, k \in ks} : n <= CountMax}

\* The product of one number per dimension; {} if one has none, or it is past CountMax.
Product(counts) ==
    LET upto[i \in 0..Len(counts)] ==
            IF i = 0 THEN {1} ELSE CheckedMul(upto[i - 1], counts[i])
    IN  upto[Len(counts)]

domain_num_cells(dims) == Product([i \in DOMAIN dims |-> constraint_num_cells(dims[i].constraints)])

num_cells_per_tile(dims) == Product([i \in DOMAIN dims |-> constraint_tile_cells(dims[i].constraints)])

domains(dims) ==
    IF \E i \in DOMAIN dims : constraint_domain(dims[i].constraints) = {} THEN {}
    ELSE {[i \in DOMAIN dims |-> CHOOSE r \in constraint_domain(dims[i].constraints) : TRUE]}
-----------------------------------------------------------------------------
(* The C dimension: [name, type, domain, extent, filters, cvn]. *)

\* The bounds are in order and the tiles neither empty nor past the end of the type.
dimension_alloc(name, dt, domain, extent) ==
    {c \in {[name |-> name, type |-> dt, domain |-> domain, extent |-> extent,
             filters |-> <<>>, cvn |-> IF dt = "StringAscii" THEN CellValNumVar ELSE 1]} :
        /\ is_allowed_dimension_type_sparse(dt)
        /\ dt = "StringAscii" <=> domain = {}
        /\ \A b \in domain : /\ b[1] <= b[2]
                             /\ \A e \in extent : /\ e > 0
                                                  /\ e <= b[2] - b[1] + 1
                                                  /\ b[1] + ((b[2] - b[1]) \div e + 1) * e - 1
                                                       <= TMax(physical(dt))}

dimension_set_cell_val_num(c, cvn) ==
    IF cvn # 1 /\ c.type # "StringAscii" THEN {} ELSE {[c EXCEPT !.cvn = cvn]}

dimension_new(name, dt, constraints) ==
    IF ~verify_type_compatible(constraints, dt) THEN {}
    ELSE dimension_alloc(name, dt,
             IF IsBounded(constraints) THEN {<<constraints.lo, constraints.hi>>} ELSE {},
             IF IsBounded(constraints) THEN constraints.extent ELSE {})

WithFilters(c, filters) ==
    IF filters = {} THEN c ELSE [c EXCEPT !.filters = create_list(CHOOSE f \in filters : TRUE)]

dimension_create(d) ==
    UNION {dimension_set_cell_val_num(WithFilters(c, d.filters), dimension_cell_val_num(d.constraints)) :
             c \in dimension_new(d.name, d.datatype, d.constraints)}

\* The constraints read back: of a null domain, those of a string.
Constraints(c) ==
    IF c.domain = {} THEN StringAscii
    ELSE LET b == CHOOSE x \in c.domain : TRUE IN Bounded(physical(c.type), b[1], b[2], c.extent)

\* No filters are None.
dimension_data(c) ==
    {[name |-> c.name, datatype |-> c.type, constraints |-> Constraints(c),
      filters |-> fs \ {<<>>}] : fs \in {list_data(c.filters)}}

dimension_eq(c, d) ==
    /\ c.name = d.name /\ c.type = d.type /\ c.cvn = d.cvn
    /\ list_eq(c.filters, d.filters)
    /\ c.domain = d.domain /\ c.extent = d.extent

\* One of each set, in a sequence; {} if one set is empty.
All(sets) == {s \in [DOMAIN sets -> UNION {sets[i] : i \in DOMAIN sets}] :
                \A i \in DOMAIN sets : s[i] \in sets[i]}

domain_create(dims) == All([i \in DOMAIN dims |-> dimension_create(dims[i])])
domain_data(c) == All([i \in DOMAIN c |-> dimension_data(c[i])])
domain_eq(c, d) == Len(c) = Len(d) /\ \A i \in DOMAIN c : dimension_eq(c[i], d[i])

\* LookupKey: an index, from 0, or a name.
Index(i) == [by |-> "index", key |-> i]
Name(n) == [by |-> "name", key |-> n]

has_dimension(c, k) ==
    IF k.by = "index" THEN k.key < Len(c) ELSE \E i \in DOMAIN c : c[i].name = k.key

dimension_index(c, k) ==
    IF k.by = "index" THEN {k.key}
    ELSE LET found == {i \in DOMAIN c : c[i].name = k.key} IN IF found = {} THEN {} ELSE {Min(found) - 1}

dimension(c, k) == {c[i + 1] : i \in {j \in dimension_index(c, k) : has_dimension(c, k)}}
-----------------------------------------------------------------------------
(* The strategies: dimensions of integer types, and subarrays of them. *)

\* The extent limit of the type's own, and whether hi - lo overflows it.
ExtentLimit(T, lo, hi) ==
    LET span   == IF lo < 0 /\ hi >= 0 /\ TMax(T) + lo <= hi THEN TMax(T) - hi ELSE hi - lo
        fitted == IF TMax(T) - span < hi THEN TMax(T) - hi ELSE span
    IN  [limit |-> IF fitted <= 1 THEN fitted + 1 ELSE fitted,
         overflows |-> lo < 0 /\ hi >= 0 /\ TMax(T) + lo <= hi]

\* Mutant: only the limit on tiles is heeded.
LimitTo_Tile(T, limit, tile_limit) == IF tile_limit <= TMax(T) THEN tile_limit ELSE TMax(T)

\* The lower of it and of the limit on tiles, if the type can hold that.
LimitTo(T, limit, tile_limit) ==
    IF tile_limit <= TMax(T) /\ tile_limit < limit THEN tile_limit ELSE limit

\* The extents drawn for a range: one is drawn for sure if the limit or the overflow asks.
DrawnExtents(T, lo, hi, tile_limit) ==
    LET own   == ExtentLimit(T, lo, hi)
        limit == LimitTo(T, own.limit, tile_limit)
    IN  {{e} : e \in 1..(limit - 1)}
          \cup (IF limit < own.limit \/ own.overflows THEN {} ELSE {{}})

prop_range_and_extent(T, tile_limit) ==
    UNION {UNION {{Bounded(T, lo, hi, e) : e \in DrawnExtents(T, lo, hi, tile_limit)} :
                    lo \in (TMin(T) + 1)..(hi - 2)} :
             hi \in (TMin(T) + 3)..(TMax(T) - 2)}

\* prop_dimension_for_datatype, by datatype.
prop_constraints(dt, tile_limit) ==
    IF is_string_type(dt) THEN {StringAscii} ELSE prop_range_and_extent(physical(dt), tile_limit)

\* Dense domains bound each extent by the root of the limit on a tile, rounded up.
Power(base, n) == LET power[i \in 0..n] == IF i = 0 THEN 1 ELSE base * power[i - 1] IN power[n]

Root(limit, n) == CHOOSE r \in 0..limit : Power(r, n) <= limit /\ Power(r + 1, n) > limit

prop_domain_extent_limit(cells_per_tile_limit, n) == Root(cells_per_tile_limit, n) + 1

\* The elements at the indices selected.
Selected(seq, selected) ==
    LET order == SetToSortSeq(selected, <) IN [i \in DOMAIN order |-> seq[order[i]]]

\* A domain with some of its dimensions, as shrinking tries them.
domain_current(dims, selected) == Selected(dims, selected)

\* The ranges of subarray_strategy within the bound on cells, {} for none.
subarray_strategy(c, bound) ==
    LET cells     == IF bound = {} THEN TMax(c.type) ELSE Min(bound \cup {TMax(c.type)})
        upper(lb) == Min({c.hi, lb + cells, TMax(c.type)})
    IN  UNION {{Single(c.type, lb, ub) : ub \in lb..upper(lb)} : lb \in c.lo..c.hi}
-----------------------------------------------------------------------------
(***************************************************************************)
(* Properties.                                                             *)
(***************************************************************************)
\* "lower < lower + extent <= upper < upper + extent <= type_limit", of every draw; there
\* is one for every limit on tiles; and the C library takes each of them as it is.
DrawnConstraintsFit(dt, tile_limit) ==
    LET T == physical(dt)
    IN  /\ \A hi \in (TMin(T) + 3)..(TMax(T) - 2) : \A lo \in (TMin(T) + 1)..(hi - 2) :
              DrawnExtents(T, lo, hi, tile_limit) # {}
        /\ \A c \in prop_constraints(dt, tile_limit) :
              /\ dimension_new("d", dt, c) # {}
              /\ IsBounded(c) => \A e \in c.extent : /\ c.lo < c.lo + e
                                                     /\ c.lo + e <= c.hi
                                                     /\ c.hi < c.hi + e
                                                     /\ c.hi + e <= TMax(T)

\* A subarray drawn of a dimension lies in its domain, whose cells a limit then bounds
\* to one more than it says.
DrawnSubarraysFit(c, bound) ==
    \A r \in subarray_strategy(c, bound) :
        /\ c.lo <= r.lo[1] /\ r.lo[1] <= r.hi[1] /\ r.hi[1] <= c.hi
        /\ \A n \in num_cells(r) : \A b \in bound : n <= b + 1

\* A dimension comes back as it was asked for, no filters as None, and made again it is
\* equal to itself.
DimensionRoundTrip(d) ==
    \A c \in dimension_create(d) :
        /\ dimension_data(c) = {[d EXCEPT !.filters = @ \ {<<>>}]}
        /\ \A e \in dimension_data(c) : \A again \in dimension_create(e) : dimension_eq(c, again)

\* The tiles of a drawn dense domain keep to the limit as the rounding up does.
DrawnTilesFit(T, n, cells_per_tile_limit) ==
    LET limit == prop_domain_extent_limit(cells_per_tile_limit, n)
    IN  \A c \in prop_range_and_extent(T, limit) :
          \A cells \in num_cells_per_tile([i \in 1..n |-> [constraints |-> c]]) :
             cells <= cells_per_tile_limit
=============================================================================
