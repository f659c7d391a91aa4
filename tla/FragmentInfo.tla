---------------------------- MODULE FragmentInfo ----------------------------
(***************************************************************************)
(* What an application sees of the fragments of an array: a                *)
(* FragmentInfoList is a snapshot that load() replaces, also under an      *)
(* iterator that counted its fragments before; an open Array is a snapshot *)
(* that reopening replaces.  Other processes write, consolidate and vacuum *)
(* meanwhile.                                                              *)
(***************************************************************************)
EXTENDS Naturals, Sequences

CONSTANTS
    VarSized,      \* VarSized[d] is TRUE for a string dimension
    Boxes,         \* the boxes a fragment may cover: two sequences of bytes for each dimension
    Leq(_, _),     \* the order of such sequences
    MaxFragments,  \* fragments of the array at a time
    MaxLoads       \* load() and reopen() of one behaviour

VARIABLES
    stored,    \* the fragments of the array: the box each one covers
    list,      \* those of the FragmentInfoList
    opened,    \* those of the Array
    iterator,  \* [num_fragments, index, of]: "of" is the list it counted
    visited,   \* what it has given: [index, among, is], "among" that many in the list
    domain,    \* the last answer of nonempty_domain: {} for None
    loads

fragmentVars == <<stored, list, opened, iterator, visited, domain, loads>>

Dims == DOMAIN VarSized

Least(S) == CHOOSE x \in S : \A y \in S : Leq(x, y)

Greatest(S) == CHOOSE x \in S : \A y \in S : Leq(y, x)

\* The least box that covers some.
Hull(boxes) ==
    [d \in Dims |-> <<Least({b[d][1] : b \in boxes}), Greatest({b[d][2] : b \in boxes})>>]

Covered(fragments) == {fragments[i] : i \in DOMAIN fragments}
-----------------------------------------------------------------------------
(***************************************************************************)
(* Reading one range: a fixed one in one call; a var-sized one in two, the *)
(* sizes of its ends first, which are the buffers of the second call.      *)
(***************************************************************************)
Ends(lo, hi) == [start |-> lo, end |-> hi]

fixed_size_non_empty_domain(box, d) == Ends(box[d][1], box[d][2])

Filled(data, size) == [i \in 1..size |-> IF i \in DOMAIN data THEN data[i] ELSE 0]

\* Mutant: both buffers have the size of the start.
var_sized_non_empty_domain_OneSize(box, d) ==
    Ends(Filled(box[d][1], Len(box[d][1])), Filled(box[d][2], Len(box[d][1])))

var_sized_non_empty_domain(box, d) ==
    Ends(Filled(box[d][1], Len(box[d][1])), Filled(box[d][2], Len(box[d][2])))

\* FragmentInfo::non_empty_domain, and FragmentInfo::mbr of the box of an MBR.
non_empty_domain(box) ==
    [d \in Dims |-> IF VarSized[d] THEN var_sized_non_empty_domain(box, d)
                    ELSE fixed_size_non_empty_domain(box, d)]

\* Array::dimension_nonempty_domain: None if the library says that it is empty.
dimension_nonempty_domain(fragments, d) ==
    IF fragments = <<>> THEN {}
    ELSE LET box == Hull(Covered(fragments))
         IN  {IF VarSized[d] THEN var_sized_non_empty_domain(box, d) ELSE fixed_size_non_empty_domain(box, d)}

\* None as soon as a dimension is.
nonempty_domain(fragments) ==
    LET ranges == [d \in Dims |-> dimension_nonempty_domain(fragments, d)]
    IN  IF \E d \in Dims : ranges[d] = {} THEN {}
        ELSE {[d \in Dims |-> CHOOSE r \in ranges[d] : TRUE]}

\* Mutant: the index of the end is taken for that of a fragment.
get_fragment_PastEnd(index) == IF index > Len(list) THEN {} ELSE {index}

\* A fragment of the list, {} for an index past its end.
get_fragment(index) == IF index >= Len(list) THEN {} ELSE {index}
-----------------------------------------------------------------------------
NoIterator == [num_fragments |-> 0, index |-> 0, of |-> <<>>]

FragmentInit ==
    /\ stored = <<>> /\ list = <<>> /\ opened = <<>>
    /\ iterator = NoIterator /\ visited = <<>> /\ domain = {} /\ loads = 0

Write ==
    /\ Len(stored) < MaxFragments
    /\ \E box \in Boxes : stored' = Append(stored, box)
    /\ UNCHANGED <<list, opened, iterator, visited, domain, loads>>

\* consolidate, then vacuum: one fragment is left.
Consolidate ==
    /\ Len(stored) > 1
    /\ stored' = <<Hull(Covered(stored))>>
    /\ UNCHANGED <<list, opened, iterator, visited, domain, loads>>

\* load() takes &self: an iterator over the list stays as it was.
load ==
    /\ loads < MaxLoads /\ loads' = loads + 1
    /\ list' = stored
    /\ UNCHANGED <<stored, opened, iterator, visited, domain>>

reopen ==
    /\ loads < MaxLoads /\ loads' = loads + 1
    /\ opened' = stored
    /\ domain' = nonempty_domain(stored)
    /\ UNCHANGED <<stored, list, iterator, visited>>

iter ==
    /\ iterator' = [num_fragments |-> Len(list), index |-> 0, of |-> list]
    /\ visited' = <<>>
    /\ UNCHANGED <<stored, list, opened, domain, loads>>

\* The count is that of the iterator, the fragment that of the list.
next ==
    /\ iterator.index < iterator.num_fragments
    /\ \A i \in DOMAIN visited : visited[i].is = "fragment"
    /\ LET fragment == get_fragment(iterator.index)
       IN  /\ visited' = Append(visited, [index |-> iterator.index, among |-> Len(list),
                                          is |-> IF fragment = {} THEN "panic" ELSE "fragment"])
           /\ iterator' = [iterator EXCEPT !.index = IF fragment = {} THEN @ ELSE @ + 1]
    /\ UNCHANGED <<stored, list, opened, domain, loads>>

FragmentNext == Write \/ Consolidate \/ load \/ reopen \/ iter \/ next

FragmentSpec == FragmentInit /\ [][FragmentNext]_fragmentVars
-----------------------------------------------------------------------------
(***************************************************************************)
(* Properties.                                                             *)
(***************************************************************************)
\* The two ways to ask agree: the domain of an array covers that of each fragment of a
\* list loaded from the same state, and no less would.
DomainCoversFragments ==
    list = opened /\ domain # {} =>
        LET whole == CHOOSE w \in domain : TRUE
            parts == {non_empty_domain(list[i]) : i \in DOMAIN list}
        IN  \A d \in Dims :
               /\ \A p \in parts : Leq(whole[d].start, p[d].start) /\ Leq(p[d].end, whole[d].end)
               /\ \E p \in parts : p[d].start = whole[d].start
               /\ \E p \in parts : p[d].end = whole[d].end

\* An iterator gives every fragment once and in order; it panics only over a list that has
\* been loaded again and lost fragments.
IterationWhole ==
    \A i \in DOMAIN visited :
        LET y == visited[i]
        IN  /\ y.index = i - 1 /\ y.index < Len(iterator.of)
            /\ y.is = "panic" <=> y.index >= y.among

FragmentsSeen == DomainCoversFragments /\ IterationWhole
=============================================================================
