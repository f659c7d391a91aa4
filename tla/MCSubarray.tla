----------------------------- MODULE MCSubarray -----------------------------
(***************************************************************************)
(* Intersections of two subarrays of one or two dimensions of a type of    *)
(* three values, each with up to two ranges.                               *)
(***************************************************************************)
EXTENDS Integers, Sequences

VARIABLES s, t, met

Lowest(type) == 0
Highest(type) == 2
U == INSTANCE Subarray WITH TMin <- Lowest, TMax <- Highest, CountMax <- 20

Lists == UNION {[1..n -> U!ArbitrarySingle("u8")] : n \in 0..1}
         \cup {<<U!Single("u8", 0, 0), U!Single("u8", 1, 2)>>}

Subarrays == UNION {[1..n -> Lists] : n \in 1..2}

Init == /\ s \in Subarrays
        /\ t \in {x \in Subarrays : Len(x) = Len(s)}
        /\ met = FALSE

Intersect == met = FALSE /\ met' = TRUE /\ UNCHANGED <<s, t>>

Spec == Init /\ [][Intersect]_<<s, t, met>>

Cells == {[d \in DOMAIN s |-> <<v>>] : v \in 0..2}

\* An intersection selects what both subarrays select; a dimension without ranges selects
\* all coordinates and leaves the ranges of the other (pod/src/query/subarray.rs).
IntersectsAll == met => U!SelectsBoth(s, t, Cells)
=============================================================================
