------------------------- MODULE FragmentInfo_proofs -------------------------
(***************************************************************************)
(* Fragment lists and non-empty domains, for any number of fragments, of   *)
(* dimensions and of loads: an iterator gives every fragment of the list   *)
(* it counted once and in order, and the domain of an array is the least   *)
(* that covers the fragments.                                              *)
(***************************************************************************)
EXTENDS FragmentInfo, SequenceTheorems, WellFoundedInduction, TLAPS

EndBytes == Seq(Nat)    \* the bytes of an end of a range

Box == [Dims -> EndBytes \X EndBytes]

\* Boxes of some dimensions, whose ends are in a total order.
Ordered ==
    /\ VarSized \in [Dims -> BOOLEAN] /\ Dims # {}
    /\ Boxes \subseteq Box
    /\ \A x, y \in EndBytes : Leq(x, y) \/ Leq(y, x)
    /\ \A x, y, z \in EndBytes : Leq(x, y) /\ Leq(y, z) => Leq(x, z)

\* The fragments are boxes, the answer is the domain of the open array, and an iterator
\* is as far in the list it counted as it has given fragments.
FragmentInv ==
    /\ stored \in Seq(Box) /\ list \in Seq(Box) /\ opened \in Seq(Box)
    /\ domain = nonempty_domain(opened)
    /\ iterator \in [num_fragments : Nat, index : Nat, of : Seq(Box)]
    /\ iterator.num_fragments = Len(iterator.of)
    /\ visited \in Seq([index : Nat, among : Nat, is : {"fragment", "panic"}])
    /\ (\A i \in 1..Len(visited) : visited[i].is = "fragment") => Len(visited) = iterator.index
    /\ IterationWhole
-----------------------------------------------------------------------------
\* Of finitely many ends one is first in a total order; by a least number of them without.
LEMMA FirstExists ==
    ASSUME NEW R, NEW n \in Nat \ {0}, NEW f \in [1..n -> EndBytes],
           \A x, y \in EndBytes : <<x, y>> \in R \/ <<y, x>> \in R,
           \A x, y, z \in EndBytes : <<x, y>> \in R /\ <<y, z>> \in R => <<x, z>> \in R
    PROVE  \E i \in 1..n : \A j \in 1..n : <<f[i], f[j]>> \in R
<1> DEFINE First(g, m) == \E i \in 1..m : \A j \in 1..m : <<g[i], g[j]>> \in R
           Without == {m \in Nat \ {0} : \E g \in [1..m -> EndBytes] : ~ First(g, m)}
<1>1. SUFFICES ASSUME Without # {} PROVE FALSE
  OBVIOUS
<1>2. PICK m \in Without : \A k \in Without : ~ (k < m)
  <2>1. Without \subseteq Nat
    OBVIOUS
  <2> HIDE DEF Without
  <2>2. PICK m \in Without : \A k \in Without : ~ (<<k, m>> \in OpToRel(<, Nat))
    BY <1>1, <2>1, NatLessThanWellFounded, WFMin
  <2>3. \A k \in Without : k \in Nat /\ m \in Nat /\ ~ (k < m)
    BY <2>1, <2>2 DEF OpToRel
  <2> QED
    BY <2>3
<1>3. PICK g \in [1..m -> EndBytes] : ~ First(g, m)
  OBVIOUS
<1>4. m \in Nat \ {0}
  OBVIOUS
<1>5. CASE m = 1
  <2>1. g[1] \in EndBytes
    BY <1>3, <1>5
  <2>2. <<g[1], g[1]>> \in R
    BY <2>1
  <2> QED
    BY <1>3, <1>5, <2>2
<1>6. CASE m # 1
  <2>1. m - 1 \in Nat \ {0} /\ m - 1 < m
    BY <1>4, <1>6
  <2>2. m - 1 \notin Without
    BY <1>2, <2>1
  <2> DEFINE h == [j \in 1..(m - 1) |-> g[j]]
  <2>3. h \in [1..(m - 1) -> EndBytes]
    BY <1>3, <1>4
  <2>4. First(h, m - 1)
    BY <2>1, <2>2, <2>3
  <2>5. PICK i \in 1..(m - 1) : \A j \in 1..(m - 1) : <<g[i], g[j]>> \in R
    BY <2>4
  <2> HIDE DEF Without, h
  <2>6. i \in 1..m /\ m \in 1..m /\ \A j \in 1..m : g[j] \in EndBytes
    BY <1>3, <1>4, <2>5
  <2>7. \A j \in 1..m : j = m \/ j \in 1..(m - 1)
    BY <1>4
  <2>8. CASE <<g[i], g[m]>> \in R
    <3>1. \A j \in 1..m : <<g[i], g[j]>> \in R
      BY <2>5, <2>7, <2>8
    <3> QED
      BY <1>3, <2>6, <3>1
  <2>9. CASE <<g[m], g[i]>> \in R
    <3>1. ASSUME NEW j \in 1..m PROVE <<g[m], g[j]>> \in R
      <4>1. g[m] \in EndBytes /\ g[i] \in EndBytes /\ g[j] \in EndBytes
        BY <2>6
      <4>2. CASE j = m
        BY <4>1, <4>2
      <4>3. CASE j \in 1..(m - 1)
        <5>1. <<g[i], g[j]>> \in R
          BY <2>5, <4>3
        <5> QED
          BY <2>9, <4>1, <5>1
      <4> QED
        BY <2>7, <4>2, <4>3
    <3> QED
      BY <1>3, <2>6, <3>1
  <2> QED
    BY <2>6, <2>8, <2>9
<1> QED
  BY <1>5, <1>6

LEMMA LeastExists ==
    ASSUME Ordered, NEW n \in Nat \ {0}, NEW f \in [1..n -> EndBytes]
    PROVE  \E i \in 1..n : \A j \in 1..n : Leq(f[i], f[j])
<1> DEFINE R == {p \in EndBytes \X EndBytes : Leq(p[1], p[2])}
<1>1. \A x, y \in EndBytes : <<x, y>> \in R <=> Leq(x, y)
  OBVIOUS
<1> HIDE DEF R
<1>2. \E i \in 1..n : \A j \in 1..n : <<f[i], f[j]>> \in R
  <2>1. \A x, y \in EndBytes : <<x, y>> \in R \/ <<y, x>> \in R
    BY <1>1 DEF Ordered
  <2>2. \A x, y, z \in EndBytes : <<x, y>> \in R /\ <<y, z>> \in R => <<x, z>> \in R
    BY <1>1 DEF Ordered
  <2> QED
    BY <2>1, <2>2, FirstExists
<1>3. \A j \in 1..n : f[j] \in EndBytes
  OBVIOUS
<1> QED
  BY <1>1, <1>2, <1>3

LEMMA GreatestExists ==
    ASSUME Ordered, NEW n \in Nat \ {0}, NEW f \in [1..n -> EndBytes]
    PROVE  \E i \in 1..n : \A j \in 1..n : Leq(f[j], f[i])
<1> DEFINE R == {p \in EndBytes \X EndBytes : Leq(p[2], p[1])}
<1>1. \A x, y \in EndBytes : <<x, y>> \in R <=> Leq(y, x)
  OBVIOUS
<1> HIDE DEF R
<1>2. \E i \in 1..n : \A j \in 1..n : <<f[i], f[j]>> \in R
  <2>1. \A x, y \in EndBytes : <<x, y>> \in R \/ <<y, x>> \in R
    BY <1>1 DEF Ordered
  <2>2. \A x, y, z \in EndBytes : <<x, y>> \in R /\ <<y, z>> \in R => <<x, z>> \in R
    BY <1>1 DEF Ordered
  <2> QED
    BY <2>1, <2>2, FirstExists
<1>3. \A j \in 1..n : f[j] \in EndBytes
  OBVIOUS
<1> QED
  BY <1>1, <1>2, <1>3

\* The hull of some fragments is a box around each of them, with ends that are theirs.
LEMMA HullOfSome ==
    ASSUME Ordered, NEW s \in Seq(Box), s # <<>>
    PROVE  /\ Hull(Covered(s)) \in Box
           /\ \A d \in Dims :
                 /\ \A i \in 1..Len(s) : /\ Leq(Hull(Covered(s))[d][1], s[i][d][1])
                                         /\ Leq(s[i][d][2], Hull(Covered(s))[d][2])
                 /\ \E i \in 1..Len(s) : Hull(Covered(s))[d][1] = s[i][d][1]
                 /\ \E i \in 1..Len(s) : Hull(Covered(s))[d][2] = s[i][d][2]
<1> DEFINE n == Len(s)  boxes == Covered(s)
<1>1. n \in Nat \ {0} /\ DOMAIN s = 1..n /\ \A i \in 1..n : s[i] \in Box
  OBVIOUS
<1>2. boxes = {s[i] : i \in 1..n}
  BY <1>1 DEF Covered
<1> HIDE DEF boxes, n
<1>3. ASSUME NEW d \in Dims
      PROVE  /\ Least({b[d][1] : b \in boxes}) \in {s[i][d][1] : i \in 1..n}
             /\ \A i \in 1..n : Leq(Least({b[d][1] : b \in boxes}), s[i][d][1])
  <2> DEFINE f == [i \in 1..n |-> s[i][d][1]]  S == {b[d][1] : b \in boxes}
  <2>1. f \in [1..n -> EndBytes]
    BY <1>1 DEF Box
  <2>2. PICK i \in 1..n : \A j \in 1..n : Leq(f[i], f[j])
    BY <1>1, <2>1, LeastExists
  <2>3. S = {s[j][d][1] : j \in 1..n}
    BY <1>2
  <2>4. s[i][d][1] \in S /\ \A y \in S : Leq(s[i][d][1], y)
    BY <2>2, <2>3
  <2> HIDE DEF S
  <2>5. Least(S) \in S /\ \A y \in S : Leq(Least(S), y)
    BY <2>4 DEF Least
  <2> QED
    BY <2>3, <2>5 DEF S
<1>4. ASSUME NEW d \in Dims
      PROVE  /\ Greatest({b[d][2] : b \in boxes}) \in {s[i][d][2] : i \in 1..n}
             /\ \A i \in 1..n : Leq(s[i][d][2], Greatest({b[d][2] : b \in boxes}))
  <2> DEFINE f == [i \in 1..n |-> s[i][d][2]]  S == {b[d][2] : b \in boxes}
  <2>1. f \in [1..n -> EndBytes]
    BY <1>1 DEF Box
  <2>2. PICK i \in 1..n : \A j \in 1..n : Leq(f[j], f[i])
    BY <1>1, <2>1, GreatestExists
  <2>3. S = {s[j][d][2] : j \in 1..n}
    BY <1>2
  <2>4. s[i][d][2] \in S /\ \A y \in S : Leq(y, s[i][d][2])
    BY <2>2, <2>3
  <2> HIDE DEF S
  <2>5. Greatest(S) \in S /\ \A y \in S : Leq(y, Greatest(S))
    BY <2>4 DEF Greatest
  <2> QED
    BY <2>3, <2>5 DEF S
<1>5. \A d \in Dims : /\ Hull(boxes)[d][1] = Least({b[d][1] : b \in boxes})
                      /\ Hull(boxes)[d][2] = Greatest({b[d][2] : b \in boxes})
  BY DEF Hull
<1>6. Hull(boxes) \in Box
  <2>1. \A d \in Dims, i \in 1..n : s[i][d][1] \in EndBytes /\ s[i][d][2] \in EndBytes
    BY <1>1 DEF Box
  <2>2. \A d \in Dims : /\ Least({b[d][1] : b \in boxes}) \in EndBytes
                        /\ Greatest({b[d][2] : b \in boxes}) \in EndBytes
    BY <1>3, <1>4, <2>1
  <2> QED
    BY <2>2 DEF Hull, Box
<1> QED
  BY <1>3, <1>4, <1>5, <1>6 DEF boxes, n
-----------------------------------------------------------------------------
\* A buffer of the size the library gave is the end.
LEMMA FilledWhole ==
    ASSUME NEW s \in EndBytes
    PROVE  Filled(s, Len(s)) = s
  BY DEF Filled, EndBytes

\* What is read of a box is the box.
LEMMA DomainOfBox ==
    ASSUME Ordered, NEW box \in Box, NEW d \in Dims
    PROVE  /\ fixed_size_non_empty_domain(box, d) = Ends(box[d][1], box[d][2])
           /\ var_sized_non_empty_domain(box, d) = Ends(box[d][1], box[d][2])
           /\ non_empty_domain(box)[d] = Ends(box[d][1], box[d][2])
<1>1. box[d][1] \in EndBytes /\ box[d][2] \in EndBytes
  BY DEF Box
<1>2. fixed_size_non_empty_domain(box, d) = Ends(box[d][1], box[d][2])
  BY DEF fixed_size_non_empty_domain
<1>3. var_sized_non_empty_domain(box, d) = Ends(box[d][1], box[d][2])
  BY <1>1, FilledWhole DEF var_sized_non_empty_domain
<1> QED
  BY <1>2, <1>3 DEF non_empty_domain

\* The domain of an array with fragments is their hull.
LEMMA DomainOfArray ==
    ASSUME Ordered, NEW s \in Seq(Box)
    PROVE  nonempty_domain(s) =
             IF s = <<>> THEN {}
             ELSE {[d \in Dims |-> Ends(Hull(Covered(s))[d][1], Hull(Covered(s))[d][2])]}
<1> DEFINE hull == Hull(Covered(s))
           ranges == [d \in Dims |-> dimension_nonempty_domain(s, d)]
<1>1. CASE s = <<>>
  <2>1. PICK d \in Dims : TRUE
    BY DEF Ordered
  <2>2. ranges[d] = {}
    BY <1>1 DEF dimension_nonempty_domain
  <2> QED
    BY <1>1, <2>2 DEF nonempty_domain
<1>2. CASE s # <<>>
  <2>1. hull \in Box
    BY <1>2, HullOfSome
  <2>2. \A d \in Dims : dimension_nonempty_domain(s, d) = {Ends(hull[d][1], hull[d][2])}
    <3> HIDE DEF hull
    <3>1. SUFFICES ASSUME NEW d \in Dims
                   PROVE  dimension_nonempty_domain(s, d) = {Ends(hull[d][1], hull[d][2])}
      OBVIOUS
    <3>2. /\ fixed_size_non_empty_domain(hull, d) = Ends(hull[d][1], hull[d][2])
          /\ var_sized_non_empty_domain(hull, d) = Ends(hull[d][1], hull[d][2])
      BY <2>1, DomainOfBox
    <3> QED
      BY <1>2, <3>2 DEF dimension_nonempty_domain, hull
  <2> HIDE DEF hull
  <2>3. \A d \in Dims : ranges[d] = {Ends(hull[d][1], hull[d][2])}
    BY <2>2
  <2>4. ~ \E d \in Dims : ranges[d] = {}
    BY <2>3
  <2>5. nonempty_domain(s) = {[d \in Dims |-> CHOOSE r \in ranges[d] : TRUE]}
    BY <2>4 DEF nonempty_domain
  <2>6. \A d \in Dims : (CHOOSE r \in ranges[d] : TRUE) = Ends(hull[d][1], hull[d][2])
    BY <2>3
  <2> QED
    BY <1>2, <2>5, <2>6 DEF hull
<1> QED
  BY <1>1, <1>2

\* The invariant answers for both ways to ask.
LEMMA InvariantCovers ==
    ASSUME Ordered, FragmentInv
    PROVE  DomainCoversFragments
<1> DEFINE hull == Hull(Covered(list))
           parts == {non_empty_domain(list[i]) : i \in DOMAIN list}
<1>1. SUFFICES ASSUME list = opened, domain # {} PROVE DomainCoversFragments
  BY DEF DomainCoversFragments
<1>2. /\ list \in Seq(Box) /\ list # <<>>
      /\ domain = {[d \in Dims |-> Ends(hull[d][1], hull[d][2])]}
  BY <1>1, DomainOfArray DEF FragmentInv
<1>3. DOMAIN list = 1..Len(list) /\ \A i \in 1..Len(list) : list[i] \in Box
  BY <1>2
<1> DEFINE whole == CHOOSE w \in domain : TRUE
<1>4. \A d \in Dims : whole[d].start = hull[d][1] /\ whole[d].end = hull[d][2]
  <2> DEFINE answer == [d \in Dims |-> Ends(hull[d][1], hull[d][2])]
  <2>1. \A d \in Dims : answer[d].start = hull[d][1] /\ answer[d].end = hull[d][2]
    BY DEF Ends
  <2>2. domain = {answer}
    BY <1>2
  <2> HIDE DEF answer
  <2>3. whole = answer
    BY <2>2
  <2> QED
    BY <2>1, <2>3
<1>5. \A i \in 1..Len(list), d \in Dims : /\ non_empty_domain(list[i])[d].start = list[i][d][1]
                                          /\ non_empty_domain(list[i])[d].end = list[i][d][2]
  <2>1. SUFFICES ASSUME NEW i \in 1..Len(list), NEW d \in Dims
                 PROVE  /\ non_empty_domain(list[i])[d].start = list[i][d][1]
                        /\ non_empty_domain(list[i])[d].end = list[i][d][2]
    OBVIOUS
  <2>2. list[i] \in Box
    BY <1>3
  <2>3. non_empty_domain(list[i])[d] = Ends(list[i][d][1], list[i][d][2])
    BY <2>2, DomainOfBox
  <2> QED
    BY <2>3 DEF Ends
<1>6. \A d \in Dims :
         /\ \A i \in 1..Len(list) : Leq(hull[d][1], list[i][d][1]) /\ Leq(list[i][d][2], hull[d][2])
         /\ \E i \in 1..Len(list) : hull[d][1] = list[i][d][1]
         /\ \E i \in 1..Len(list) : hull[d][2] = list[i][d][2]
  BY <1>2, HullOfSome
<1> HIDE DEF hull, whole
<1>7. ASSUME NEW d \in Dims
      PROVE  /\ \A p \in parts : Leq(whole[d].start, p[d].start) /\ Leq(p[d].end, whole[d].end)
             /\ \E p \in parts : p[d].start = whole[d].start
             /\ \E p \in parts : p[d].end = whole[d].end
  BY <1>3, <1>4, <1>5, <1>6
<1> QED
  BY <1>7 DEF DomainCoversFragments, whole

LEMMA InvariantHoldsFirst ==
    ASSUME Ordered, FragmentInit
    PROVE  FragmentInv
<1>1. <<>> \in Seq(Box) /\ nonempty_domain(<<>>) = {}
  <2>1. <<>> \in Seq(Box)
    OBVIOUS
  <2> QED
    BY <2>1, DomainOfArray
<1> QED
  BY <1>1 DEF FragmentInit, FragmentInv, NoIterator, IterationWhole

\* Another writer leaves boxes.
LEMMA StoredStay ==
    ASSUME Ordered, FragmentInv, Write \/ Consolidate
    PROVE  stored' \in Seq(Box)
<1>1. CASE Write
  <2>1. PICK box \in Boxes : stored' = Append(stored, box)
    BY <1>1 DEF Write
  <2> QED
    BY <2>1 DEF Ordered, FragmentInv
<1>2. CASE Consolidate
  <2>1. stored # <<>> /\ stored \in Seq(Box)
    BY <1>2 DEF Consolidate, FragmentInv
  <2>2. Hull(Covered(stored)) \in Box
    BY <2>1, HullOfSome
  <2> QED
    BY <1>2, <2>2 DEF Consolidate
<1> QED
  BY <1>1, <1>2

\* The iterator moves on when the list has the fragment, and else panics.
LEMMA NextSteps ==
    ASSUME Ordered, FragmentInv, next
    PROVE  FragmentInv'
<1> DEFINE n == Len(visited)  index == iterator.index
           after == IF index >= Len(list) THEN index ELSE index + 1
           y == [index |-> index, among |-> Len(list),
                 is |-> IF index >= Len(list) THEN "panic" ELSE "fragment"]
<1>1. /\ visited \in Seq([index : Nat, among : Nat, is : {"fragment", "panic"}])
      /\ n = index /\ n \in Nat /\ Len(list) \in Nat
      /\ index < Len(iterator.of)
      /\ \A i \in 1..n : visited[i].is = "fragment"
  BY DEF next, FragmentInv
<1>2. /\ visited' = Append(visited, y)
      /\ iterator' = [iterator EXCEPT !.index = after]
  BY DEF next, get_fragment
<1>3. /\ y \in [index : Nat, among : Nat, is : {"fragment", "panic"}]
      /\ y.index = index /\ (y.is = "panic" <=> y.index >= y.among)
      /\ y.is = "fragment" => after = index + 1
      /\ after \in Nat
  BY <1>1
<1> HIDE DEF y, after
<1>4. /\ visited' \in Seq([index : Nat, among : Nat, is : {"fragment", "panic"}])
      /\ Len(visited') = n + 1 /\ visited'[n + 1] = y
      /\ \A i \in 1..n : visited'[i] = visited[i]
  BY <1>1, <1>2, <1>3, AppendProperties
<1>5. /\ iterator' \in [num_fragments : Nat, index : Nat, of : Seq(Box)]
      /\ iterator'.of = iterator.of /\ iterator'.num_fragments = iterator.num_fragments
      /\ iterator'.index = after
  <2>1. iterator \in [num_fragments : Nat, index : Nat, of : Seq(Box)]
    BY DEF FragmentInv
  <2> QED
    BY <1>2, <1>3, <2>1
<1>6. (\A i \in 1..Len(visited') : visited'[i].is = "fragment") => Len(visited') = iterator'.index
  <2>1. SUFFICES ASSUME visited'[n + 1].is = "fragment"
                 PROVE  n + 1 = iterator'.index
    BY <1>1, <1>4
  <2> QED
    BY <1>1, <1>3, <1>4, <1>5, <2>1
<1>7. ASSUME NEW i \in 1..(n + 1)
      PROVE  /\ visited'[i].index = i - 1 /\ visited'[i].index < Len(iterator'.of)
             /\ visited'[i].is = "panic" <=> visited'[i].index >= visited'[i].among
  <2>1. CASE i = n + 1
    BY <1>1, <1>3, <1>4, <1>5, <2>1
  <2>2. CASE i # n + 1
    <3>1. i \in 1..n /\ i \in DOMAIN visited
      BY <1>1, <2>2
    <3> QED
      BY <1>4, <1>5, <3>1 DEF FragmentInv, IterationWhole
  <2> QED
    BY <2>1, <2>2
<1>8. IterationWhole'
  BY <1>4, <1>7 DEF IterationWhole
<1> QED
  BY <1>4, <1>5, <1>6, <1>8 DEF next, FragmentInv

LEMMA InvariantKept ==
    ASSUME Ordered, FragmentInv, [FragmentNext]_fragmentVars
    PROVE  FragmentInv'
<1>1. CASE Write
  BY <1>1, StoredStay DEF Write, FragmentInv, IterationWhole
<1>2. CASE Consolidate
  BY <1>2, StoredStay DEF Consolidate, FragmentInv, IterationWhole
<1>3. CASE load
  BY <1>3 DEF load, FragmentInv, IterationWhole
<1>4. CASE reopen
  BY <1>4 DEF reopen, FragmentInv, IterationWhole
<1>5. CASE iter
  BY <1>5 DEF iter, FragmentInv, IterationWhole
<1>6. CASE next
  BY <1>6, NextSteps
<1>7. CASE UNCHANGED fragmentVars
  BY <1>7 DEF fragmentVars, FragmentInv, IterationWhole
<1> QED
  BY <1>1, <1>2, <1>3, <1>4, <1>5, <1>6, <1>7 DEF FragmentNext

\* Fragment iterators and non-empty domains (fragment_info.rs, array/mod.rs), whatever other
\* processes write and consolidate between two calls and however often the list is loaded.
THEOREM FragmentListsWhole ==
    ASSUME Ordered
    PROVE  FragmentSpec => []FragmentsSeen
<1>1. FragmentInit => FragmentInv
  BY InvariantHoldsFirst
<1>2. FragmentInv /\ [FragmentNext]_fragmentVars => FragmentInv'
  BY InvariantKept
<1>3. FragmentInv => FragmentsSeen
  BY InvariantCovers DEF FragmentsSeen, FragmentInv
<1> QED
  BY <1>1, <1>2, <1>3, PTL DEF FragmentSpec
=============================================================================
