----------------------------- MODULE Shrinking -----------------------------
(***************************************************************************)
(* The value trees the property tests shrink their inputs with             *)
(* (test-utils/strategy-ext): RecordsValueTree, which looks for the chunks *)
(* of records a failure needs, and SequenceValueTree, which cuts and       *)
(* regrows the end of a sequence.                                          *)
(*                                                                         *)
(* proptest's runner is external: it tests the current value, simplifies   *)
(* after a failure and complicates after a pass until the tree has no      *)
(* further step, and reports the value the tree is left at.  A test is a   *)
(* predicate on the set of records it is given.                            *)
(***************************************************************************)
EXTENDS Integers, Sequences, FiniteSets

CONSTANTS
    ExploreChunks,   \* CONTAINER_VALUE_TREE_DEFAULT_EXPLORE_CHUNKS, 8 in the code
    Inputs,          \* the inputs [kind, n, min, test]: records or sequence, length, min_records
    Fails(_, _)      \* Fails(test, S): the test fails on the records S

\* A level that explores one chunk only would not tell which records it needs; the
\* strategies draw at least min_records.
ASSUME ShrinkAssumption ==
    /\ ExploreChunks \in Nat /\ ExploreChunks >= 2
    /\ \A x \in Inputs : /\ x.kind \in {"records", "sequence"}
                         /\ x.n \in Nat /\ x.min \in Nat /\ x.min <= x.n

VARIABLES
    given,    \* the input that failed
    tree,     \* the value tree
    runner    \* "failed", "passed", "test", "giveup", "done" or "panic"

shrinkVars == <<given, tree, runner>>

Lesser(a, b) == IF a < b THEN a ELSE b
Ascending(n) == [i \in 1..n |-> i]
-----------------------------------------------------------------------------
(* RecordsValueTree. *)

Nones(n) == [i \in 1..n |-> "None"]

records_new(n) ==
    [included |-> Ascending(n), last |-> {}, search |-> "None", chunk |-> 0,
     results |-> Nones(Lesser(n, ExploreChunks))]

num_chunks(t) == Lesser(Len(t.included), Len(t.results))

\* Chunk c, from 0, of n; the last takes what the division leaves.
Chunk(t, c, n) ==
    LET approx == Len(t.included) \div n
    IN  SubSeq(t.included, c * approx + 1,
               IF c + 1 = n THEN Len(t.included) ELSE (c + 1) * approx)

Elements(s) == {s[i] : i \in DOMAIN s}

\* The records the tree's search asks for.
BySearch(t, n) ==
    CASE t.search = "None" -> 1..n
      [] t.search = "Explore" ->
             IF t.included = <<>> THEN {}
             ELSE Elements(t.included) \ Elements(Chunk(t, t.chunk, num_chunks(t)))
      [] t.search \in {"Recur", "Done"} -> Elements(t.included)

\* A mask filled up with the first records that are not in it.
FilledUp(mask, n, min) ==
    LET lack == min - Cardinality(mask)
    IN  IF lack <= 0 THEN mask
        ELSE mask \cup {i \in (1..n) \ mask : Cardinality((1..i) \ mask) <= lack}

record_mask(t, n, min) == FilledUp(BySearch(t, n), n, min)

\* The chunks without which the test passed.
Needed(t) ==
    LET n == num_chunks(t)
        kept[c \in 0..n] ==
            IF c = 0 THEN <<>>
            ELSE kept[c - 1] \o (IF t.results[c] = "passed" THEN Chunk(t, c - 1, n) ELSE <<>>)
    IN  kept[n]

explore_level_finished(t) ==
    LET taken == [t EXCEPT !.results = [i \in DOMAIN t.results |->
                                          IF i <= num_chunks(t) THEN "None" ELSE t.results[i]]]
    IN  IF Needed(t) = t.included THEN [taken EXCEPT !.search = "Done"]
        ELSE [taken EXCEPT !.last = {t.included}, !.included = Needed(t), !.search = "Recur"]

\* Mutant: a level that removed too much is not taken back.
TakeBack_Not(t) ==
    [t EXCEPT !.last = {}, !.results = Nones(Len(t.results) \div 2),
              !.search = "Explore", !.chunk = 0]

\* Mutant: the chunks do not grow.
TakeBack_SameChunks(t) ==
    [t EXCEPT !.last = {}, !.included = CHOOSE l \in t.last : TRUE,
              !.results = Nones(Len(t.results)), !.search = "Explore", !.chunk = 0]

\* More than one chunk is needed: again from the last level, in larger chunks.
TakeBack(t) ==
    [t EXCEPT !.last = {}, !.included = CHOOSE l \in t.last : TRUE,
              !.results = Nones(Len(t.results) \div 2),
              !.search = "Explore", !.chunk = 0]

Stepped(t) == [tree |-> t, more |-> "more"]

\* <<the tree, whether there is a further step>>.
explore_step(t, n, failed) ==
    CASE t.search = "None" ->
             IF failed /\ n > 0 THEN Stepped([t EXCEPT !.search = "Explore"])
             ELSE [tree |-> t, more |-> "none"]
      [] t.search = "Explore" ->
             LET u == [t EXCEPT !.results[t.chunk + 1] = IF failed THEN "failed" ELSE "passed"]
             IN  CASE t.chunk + 1 < num_chunks(t) -> Stepped([u EXCEPT !.chunk = t.chunk + 1])
                   [] t.chunk + 1 = num_chunks(t) -> Stepped(explore_level_finished(u))
                   [] OTHER -> [tree |-> u, more |-> "none"]
      [] t.search = "Recur" ->
             IF failed THEN Stepped([t EXCEPT !.search = "Explore", !.chunk = 0])
             ELSE IF Len(t.results) = 1 \/ t.last = {}
             THEN [tree |-> t, more |-> "unreachable"]
             ELSE Stepped(TakeBack(t))
      [] t.search = "Done" -> [tree |-> t, more |-> "none"]
-----------------------------------------------------------------------------
(* SequenceValueTree. *)

sequence_new(n) == [bound |-> n, current |-> n]

sequence_simplify(t) ==
    IF t.current > 0 THEN Stepped([bound |-> t.current, current |-> t.current \div 2])
    ELSE [tree |-> [t EXCEPT !.bound = t.current], more |-> "none"]

sequence_complicate(t) ==
    IF t.current < t.bound THEN Stepped([t EXCEPT !.current = t.current + 1])
    ELSE [tree |-> t, more |-> "none"]
-----------------------------------------------------------------------------
(* ValueTree of either kind. *)

IsRecords == given.kind = "records"

current == IF IsRecords THEN record_mask(tree, given.n, given.min) ELSE 1..tree.current

simplify == IF IsRecords THEN explore_step(tree, given.n, TRUE) ELSE sequence_simplify(tree)

complicate == IF IsRecords THEN explore_step(tree, given.n, FALSE) ELSE sequence_complicate(tree)

\* The runner shrinks an input that has failed.
ShrinkInit ==
    /\ given \in {x \in Inputs : Fails(x.test, 1..x.n)}
    /\ tree = IF IsRecords THEN records_new(given.n) ELSE sequence_new(given.n)
    /\ runner = "failed"

\* Where the runner goes after a step.
After(step, more) ==
    /\ tree' = step.tree
    /\ runner' = CASE step.more = "more" -> more
                   [] step.more = "none" -> "done"
                   [] OTHER -> "panic"
    /\ UNCHANGED given

Simplify == runner = "failed" /\ After(simplify, "test")

Complicate == runner = "passed" /\ After(complicate, "test")

RunTest ==
    /\ runner = "test"
    /\ runner' = IF Fails(given.test, current) THEN "failed" ELSE "passed"
    /\ UNCHANGED <<given, tree>>

\* At the limit of iterations, the runner complicates back to the last failure.
GiveUp ==
    /\ ~IsRecords
    /\ runner = "test"
    /\ runner' = "giveup"
    /\ UNCHANGED <<given, tree>>

MoveBack == runner = "giveup" /\ After(complicate, "giveup")

ShrinkNext == Simplify \/ Complicate \/ RunTest \/ GiveUp \/ MoveBack

ShrinkFairness == WF_shrinkVars(Simplify \/ Complicate \/ RunTest \/ MoveBack)

ShrinkSpec == ShrinkInit /\ [][ShrinkNext]_shrinkVars /\ ShrinkFairness
-----------------------------------------------------------------------------
(***************************************************************************)
(* Properties.                                                             *)
(***************************************************************************)
\* What the runner reports fails the test, keeps the minimum of records, and no
\* unreachable!() of the search is reached.  "In the best case, where exactly one record is
\* responsible for a test failure, we will find it": and nothing else is left.
ShrinkFindsCulprit ==
    /\ runner = "done" => Fails(given.test, current)
    /\ IsRecords => Cardinality(current) >= given.min
    /\ runner # "panic"
    /\ runner = "done" /\ IsRecords /\ given.min = 0 =>
          \A k \in 1..given.n :
              (\A S \in SUBSET (1..given.n) : Fails(given.test, S) <=> k \in S) => current = {k}

(***************************************************************************)
(* How much is left to do, most significant first: chunks to a level,      *)
(* records in it, tests of the level, and where the runner is.             *)
(***************************************************************************)
Left(t) == CASE t.search \in {"None", "Recur"} -> Len(t.results) + 2
             [] t.search = "Explore"            -> num_chunks(t) - t.chunk + 1
             [] t.search = "Done"               -> 0

Pending(r) == CASE r = "test"                              -> 2
                [] r \in {"failed", "passed", "giveup"}    -> 1
                [] OTHER                                   -> 0

Measure == IF IsRecords THEN <<Len(tree.results), Len(tree.included), Left(tree), Pending(runner)>>
                        ELSE <<0, 0, tree.bound - tree.current, Pending(runner)>>

Lower(m, n) == \E i \in 1..4 : m[i] < n[i] /\ \A j \in 1..(i - 1) : m[j] = n[j]

\* Every step of the search, and of the runner's way back, leaves less to do: larger chunks
\* make up for the records that are taken back with them, so neither goes on for ever.
ShrinkProgress ==
    [][IsRecords \/ runner = "giveup" =>
          /\ Measure \in [1..4 -> Nat] /\ Measure' \in [1..4 -> Nat]
          /\ Lower(Measure', Measure)]_shrinkVars

\* Shrinking records ends on its own.
ShrinkEnds == IsRecords ~> runner = "done"
=============================================================================
