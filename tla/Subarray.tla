------------------------------ MODULE Subarray ------------------------------
(***************************************************************************)
(* Subarrays: the ranges asked for on each dimension, where none means all *)
(* coordinates (pod/src/query/subarray.rs), and the subarray of the C      *)
(* library they are put in and read back from (api/src/query/subarray.rs). *)
(*                                                                         *)
(* A SubarrayData is a sequence of ranges for each dimension.  What may    *)
(* fail returns a set, {} if it does.                                      *)
(***************************************************************************)
EXTENDS Dimensions

\* The intersections that are there, of the pairs of two lists.
Common(l, r) ==
    FlattenSeq([i \in DOMAIN l |-> FlattenSeq([j \in DOMAIN r |-> SetToSeq(intersection(l[i], r[j]))])])

\* No coordinates: a dimension has no ranges left.
NotEmpty(subarray) == {s \in {subarray} : \A d \in DOMAIN s : s[d] # <<>>}

\* Mutant: a dimension without ranges has no coordinates.
intersect_ranges_None(s, box) ==
    NotEmpty([d \in DOMAIN s |-> Common(s[d], <<box[d]>>)])

\* None of one's own: the new range.
intersect_ranges(s, box) ==
    NotEmpty([d \in DOMAIN s |->
                 IF s[d] = <<>> THEN <<box[d]>> ELSE Common(s[d], <<box[d]>>)])

intersect(s, t) ==
    NotEmpty([d \in DOMAIN s |-> IF s[d] = <<>> THEN t[d]
                                 ELSE IF t[d] = <<>> THEN s[d] ELSE Common(s[d], t[d])])
-----------------------------------------------------------------------------
(***************************************************************************)
(* The C subarray: [set, ranges] for each dimension; without a range of    *)
(* its own, that of the domain, and for a string one with empty ends.      *)
(***************************************************************************)
Unlimited == VarRange("u8", <<>>, <<>>)

DefaultRange(dim) ==
    IF IsBounded(dim.constraints) THEN CHOOSE r \in constraint_domain(dim.constraints) : TRUE ELSE Unlimited

subarray_alloc(dims) == [d \in DOMAIN dims |-> [set |-> FALSE, ranges |-> <<DefaultRange(dims[d])>>]]

\* The library refuses what leaves the domain or is not in order.
InDomain(c, r) ==
    Ordered(r) /\ (IsBounded(c) => c.lo <= r.lo[1] /\ r.hi[1] <= c.hi)

\* It joins a range to the last one if it goes on from there.
Coalesced(rs, r) ==
    IF /\ rs # <<>> /\ r.kind = "Single" /\ r.type \notin Floats
       /\ Last(rs).hi[1] + 1 = r.lo[1]
    THEN [rs EXCEPT ![Len(rs)].hi = r.hi]
    ELSE Append(rs, r)

capi_add_range(dims, c, d, r) ==
    IF ~InDomain(dims[d].constraints, r) THEN {}
    ELSE {[c EXCEPT ![d] = [set |-> TRUE, ranges |-> Coalesced(IF @.set THEN @.ranges ELSE <<>>, r)]]}

\* Builder::add_range: the range has to go with the dimension.
add_range(dims, c, k, r) ==
    UNION {capi_add_range(dims, c, i + 1, r) :
             i \in {j \in dimension_index(dims, k) :
                      /\ has_dimension(dims, k)
                      /\ check_dimension_compatibility(r, dims[j + 1].datatype,
                             dimension_cell_val_num(dims[j + 1].constraints)) = "Ok"}}

\* The ranges of a dimension, one after another; the first that fails ends it.
AddAll(dims, c, d, rs) ==
    LET added[i \in 0..Len(rs)] ==
            IF i = 0 THEN {c} ELSE UNION {add_range(dims, x, Index(d - 1), rs[i]) : x \in added[i - 1]}
    IN  added[Len(rs)]

dimension_ranges(dims, c, s) ==
    LET given[d \in 0..Len(s)] ==
            IF d = 0 THEN {c} ELSE UNION {AddAll(dims, x, d, s[d]) : x \in given[d - 1]}
    IN  given[Len(s)]

\* Mutant: a range with one empty end is taken for none, too.
range_Either(r) == IF r.kind = "Var" /\ (r.lo = <<>> \/ r.hi = <<>>) THEN <<>> ELSE <<r>>

\* One with two empty ends is taken for none.
range(r) == IF r.kind = "Var" /\ r.lo = <<>> /\ r.hi = <<>> THEN <<>> ELSE <<r>>

\* Subarray::ranges
ranges(dims, c) == [d \in DOMAIN dims |-> FlattenSeq([i \in DOMAIN c[d].ranges |-> range(c[d].ranges[i])])]
-----------------------------------------------------------------------------
(***************************************************************************)
(* Properties.                                                             *)
(***************************************************************************)
\* A cell is a sequence of values for each dimension.
Selects(s, cell) ==
    \A d \in DOMAIN s : s[d] = <<>> \/ \E i \in DOMAIN s[d] : Inside(cell[d], s[d][i])

\* An intersection selects the cells that both select: None, none.
SelectsBoth(s, t, cells) ==
    \A cell \in cells :
        (Selects(s, cell) /\ Selects(t, cell)) <=> \E u \in intersect(s, t) : Selects(u, cell)

\* "The intersection is equal to the ranges of `other`", if one side has none.
IntersectionSelects(s, t, cells) ==
    /\ (\A d \in DOMAIN s : s[d] # <<>> \/ t[d] # <<>>) => SelectsBoth(s, t, cells)
    /\ (\A d \in DOMAIN t : Len(t[d]) = 1) =>
          LET box == [d \in DOMAIN t |-> t[d][1]]
          IN  \A cell \in cells :
                 (Selects(s, cell) /\ Selects(t, cell))
                     <=> \E u \in intersect_ranges(s, box) : Selects(u, cell)

\* The library takes ranges exactly if each one suits its dimension, whether it is asked
\* for by index or by name; and what is read back selects those cells of the domain that
\* were asked for, in ranges joined or not, if none of them has two empty ends.
SubarrayAsGiven(dims, s, cells) ==
    LET built == dimension_ranges(dims, subarray_alloc(dims), s)
        pairs == UNION {{<<d, s[d][i]>> : i \in DOMAIN s[d]} : d \in DOMAIN s}
        Suits(d, r) == /\ check_dimension_compatibility(r, dims[d].datatype,
                              dimension_cell_val_num(dims[d].constraints)) = "Ok"
                       /\ InDomain(dims[d].constraints, r)
    IN  /\ built # {} <=> \A a \in pairs : Suits(a[1], a[2])
        /\ \A a \in pairs, c \in built :
              add_range(dims, c, Name(dims[a[1]].name), a[2]) = add_range(dims, c, Index(a[1] - 1), a[2])
        /\ (\A a \in pairs : a[2].lo # <<>> \/ a[2].hi # <<>>) =>
              \A c \in built, cell \in cells :
                 (\A d \in DOMAIN dims : \A r \in constraint_domain(dims[d].constraints) : Inside(cell[d], r))
                 => (Selects(ranges(dims, c), cell) <=> Selects(s, cell))
=============================================================================
