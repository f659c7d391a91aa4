--------------------------- MODULE QueryCondition ---------------------------
(***************************************************************************)
(* Query conditions (query/condition/mod.rs): expressions over the fields  *)
(* of a cell, what the C library is given for them and what it selects;    *)
(* and the search for a smaller expression that still fails a test         *)
(* (query/condition/strategy.rs).                                          *)
(*                                                                         *)
(* An expression is the sequence of its nodes, each after its arguments,   *)
(* which it has by their indices; the last one is the whole.  A condition  *)
(* of the C library is a sequence of handles in the same way.              *)
(*                                                                         *)
(* A cell has for each field the sequence of its one value, or no value.   *)
(* Values are totally ordered: NaN is left out.                            *)
(***************************************************************************)
EXTENDS Integers, Sequences

Null == <<>>

IsCell(cell, fields) == \A f \in fields : cell[f] \in Seq(Int) /\ Len(cell[f]) <= 1

\* The bytes of a literal are those of its value, whatever its type.
Literal(value) == <<value>>

Predicate(kind, field, op, value, elem_size) ==
    [is |-> "Cond", kind |-> kind, field |-> field, op |-> op, value |-> value, elem_size |-> elem_size]

(* Field::lt ... not_null *)
Equality(field, op, value) == <<Predicate("Equality", field, op, Literal(value), 0)>>

SetMembership(field, op, elem_size, members) == <<Predicate("SetMembership", field, op, members, elem_size)>>

Nullness(field, op) == <<Predicate("Nullness", field, op, <<>>, 0)>>

Combination(lhs, rhs, op) == [is |-> "Comb", lhs |-> lhs, rhs |-> rhs, op |-> op]

Negation(arg) == [is |-> "Negate", arg |-> arg]

\* The nodes of an expression with n nodes of another one before them.
Behind(n, e) ==
    [i \in DOMAIN e |-> CASE e[i].is = "Cond"   -> e[i]
                          [] e[i].is = "Negate" -> Negation(n + e[i].arg)
                          [] e[i].is = "Comb"   -> Combination(n + e[i].lhs, n + e[i].rhs, e[i].op)]

Comb(lhs, rhs, op) ==
    lhs \o Behind(Len(lhs), rhs) \o <<Combination(Len(lhs), Len(lhs) + Len(rhs), op)>>

Negate(arg) == Append(arg, Negation(Len(arg)))

\* The expression a node stands for, of those its arguments do.
Whole(p, part) ==
    CASE p.is = "Cond"   -> <<p>>
      [] p.is = "Negate" -> Negate(part[p.arg])
      [] p.is = "Comb"   -> Comb(part[p.lhs], part[p.rhs], p.op)

Part(e, n) == LET part[i \in DOMAIN e] == Whole(e[i], part) IN part[n]

EqualityOps == {"Less", "LessEqual", "Equal", "NotEqual", "GreaterEqual", "Greater"}

IsPredicate(p) ==
    \/ /\ p = Predicate("Equality", p.field, p.op, p.value, 0)
       /\ p.op \in EqualityOps /\ p.value \in Seq(Int) /\ Len(p.value) = 1
    \/ /\ p = Predicate("SetMembership", p.field, p.op, p.value, p.elem_size)
       /\ p.op \in {"In", "NotIn"} /\ p.value \in Seq(Int) /\ p.elem_size \in Nat
    \/ /\ p = Predicate("Nullness", p.field, p.op, <<>>, 0)
       /\ p.op \in {"IsNull", "NotNull"}

IsNode(p, i) ==
    CASE p.is = "Cond"   -> IsPredicate(p)
      [] p.is = "Negate" -> p = Negation(p.arg) /\ p.arg \in 1..(i - 1)
      [] p.is = "Comb"   -> /\ p = Combination(p.lhs, p.rhs, p.op)
                            /\ p.lhs \in 1..(i - 1) /\ p.rhs \in 1..(i - 1)
                            /\ p.op \in {"And", "Or"}

IsExpression(e) ==
    /\ e \in Seq({e[i] : i \in DOMAIN e}) /\ e # <<>>
    /\ \A i \in DOMAIN e : e[i].is \in {"Cond", "Negate", "Comb"} /\ IsNode(e[i], i)
    /\ Part(e, Len(e)) = e

\* What an expression says of a cell, by the text it is shown as.
Compare(a, op, b) ==
    CASE op \in {"Less", "LT"}         -> a < b
      [] op \in {"LessEqual", "LE"}    -> a <= b
      [] op \in {"Equal", "EQ"}        -> a = b
      [] op \in {"NotEqual", "NE"}     -> a # b
      [] op \in {"GreaterEqual", "GE"} -> a >= b
      [] op \in {"Greater", "GT"}      -> a > b

(***************************************************************************)
(* An expression is shown as SQL, and says of a cell what this text does:  *)
(* a comparison with a null, or the membership of one, is neither true nor *)
(* false; NOT keeps that, AND is the less true of two and OR the truer.    *)
(***************************************************************************)
False   == 0
Unknown == 1
True    == 2

Truth(b) == IF b THEN True ELSE False

Holds(p, cell) ==
    CASE p.kind = "Nullness"       -> Truth((cell[p.field] = Null) = (p.op = "IsNull"))
      [] p.kind # "Nullness" /\ cell[p.field] = Null -> Unknown
      [] p.kind = "Equality" /\ cell[p.field] # Null ->
            Truth(Compare(cell[p.field][1], p.op, p.value[1]))
      [] p.kind = "SetMembership" /\ cell[p.field] # Null ->
            Truth((\E i \in DOMAIN p.value : p.value[i] = cell[p.field][1]) = (p.op = "In"))

NodeSays(p, cell, says) ==
    CASE p.is = "Cond"   -> Holds(p, cell)
      [] p.is = "Negate" -> True - says[p.arg]
      [] p.is = "Comb"   -> IF (p.op = "And") = (says[p.lhs] <= says[p.rhs]) THEN says[p.lhs]
                                                                         ELSE says[p.rhs]

Says(e, cell) == LET says[i \in DOMAIN e] == NodeSays(e[i], cell, says) IN says[Len(e)] = True
-----------------------------------------------------------------------------
(***************************************************************************)
(* What the library is given.                                              *)
(***************************************************************************)
VecHeader == 24

\* size_of_val of a &Vec is the size of its header, not of its elements.
as_ptr_and_size(members) == VecHeader

offsets_size == VecHeader

\* The offsets of members of one size, or one after another for strings (elem_size 0; each
\* value stands for a string of so many bytes).
Offsets(e) ==
    [i \in DOMAIN e.value |->
        IF e.elem_size > 0 THEN (i - 1) * e.elem_size
        ELSE LET before[k \in 0..(i - 1)] == IF k = 0 THEN 0 ELSE before[k - 1] + e.value[k] IN before[i - 1]]

DataSize(e) ==
    IF e.elem_size > 0 THEN as_ptr_and_size(e.value)
    ELSE IF e.value = <<>> THEN 0 ELSE Offsets(e)[Len(e.value)] + e.value[Len(e.value)]

\* The two buffers are described as they are.
Described(e) ==
    /\ offsets_size = 8 * Len(e.value)
    /\ e.elem_size > 0 => DataSize(e) = e.elem_size * Len(e.value)

EqualityEnum(op) ==
    CASE op = "Less" -> "LT" [] op = "LessEqual" -> "LE" [] op = "Equal" -> "EQ"
      [] op = "NotEqual" -> "NE" [] op = "GreaterEqual" -> "GE" [] op = "Greater" -> "GT"

SetMembershipEnum(op) == IF op = "In" THEN "IN" ELSE "NOT_IN"

\* Mutant: nullness is the other way round.
NullnessEnum_Swapped(op) == IF op = "IsNull" THEN "NE" ELSE "EQ"

\* A comparison with no value: EQ asks for nulls.
NullnessEnum(op) == IF op = "IsNull" THEN "EQ" ELSE "NE"

Capi(op, args) == [op |-> op, args |-> args]

\* tiledb_query_condition_init, _alloc_set_membership, _combine and _negate; {} is an error.
alloc(p) ==
    CASE p.is = "Cond" /\ p.kind = "Equality" ->
            {[field |-> p.field, op |-> EqualityEnum(p.op), value |-> p.value]}
      [] p.is = "Cond" /\ p.kind = "Nullness" ->
            {[field |-> p.field, op |-> NullnessEnum(p.op), value |-> <<>>]}
      [] p.is = "Cond" /\ p.kind = "SetMembership" ->
            {[field |-> p.field, op |-> SetMembershipEnum(p.op), value |-> m] : m \in {p.value} \ {<<>>}}
      [] p.is = "Negate" -> {Capi("NOT", <<p.arg>>)}
      [] p.is = "Comb"   -> {Capi(IF p.op = "And" THEN "AND" ELSE "OR", <<p.lhs, p.rhs>>)}

\* The arguments before the whole; the first error ends it.
build(e) ==
    IF \E i \in DOMAIN e : alloc(e[i]) = {} THEN {}
    ELSE {[i \in DOMAIN e |-> CHOOSE c \in alloc(e[i]) : TRUE]}

(***************************************************************************)
(* The C library (external).  It knows two values of truth, and has no     *)
(* NOT: tiledb_query_condition_negate pushes the negation down to what     *)
(* compares, and exchanges AND and OR on the way.  No comparison with a    *)
(* value and no set is for nulls, negated or not.                          *)
(***************************************************************************)
Matches(h, cell) ==
    IF h.value = Null THEN (cell[h.field] = Null) = (h.op = "EQ")
    ELSE /\ cell[h.field] # Null
         /\ IF h.op \in {"IN", "NOT_IN"}
            THEN (\E i \in DOMAIN h.value : h.value[i] = cell[h.field][1]) = (h.op = "IN")
            ELSE Compare(cell[h.field][1], h.op, h.value[1])

NegatedOp(op) ==
    CASE op = "LT" -> "GE" [] op = "GE" -> "LT" [] op = "GT" -> "LE" [] op = "LE" -> "GT"
      [] op = "EQ" -> "NE" [] op = "NE" -> "EQ" [] op = "IN" -> "NOT_IN" [] op = "NOT_IN" -> "IN"

Negated(h) == [h EXCEPT !.op = NegatedOp(@)]

\* What the library selects with a handle as it is, and with one negated.
HandleSelects(h, cell, selects) ==
    CASE h.op = "NOT" -> [plain   |-> selects[h.args[1]].negated,
                          negated |-> selects[h.args[1]].plain]
      [] h.op = "AND" -> [plain   |-> selects[h.args[1]].plain /\ selects[h.args[2]].plain,
                          negated |-> selects[h.args[1]].negated \/ selects[h.args[2]].negated]
      [] h.op = "OR"  -> [plain   |-> selects[h.args[1]].plain \/ selects[h.args[2]].plain,
                          negated |-> selects[h.args[1]].negated /\ selects[h.args[2]].negated]
      [] OTHER        -> [plain   |-> Matches(h, cell), negated |-> Matches(Negated(h), cell)]

Selects(c, cell) ==
    LET selects[i \in DOMAIN c] == HandleSelects(c[i], cell, selects) IN selects[Len(c)].plain

Sets(e) == {p \in {e[i] : i \in DOMAIN e} : p.is = "Cond" /\ p.kind = "SetMembership"}
-----------------------------------------------------------------------------
(***************************************************************************)
(* The value tree: a combination tries its left side alone, then its right *)
(* side, then both with their own parts shrunk.  A tree is an expression   *)
(* with an opstate for each of its nodes; only that of a combination       *)
(* matters.                                                                *)
(***************************************************************************)
OpStates == {"New", "TryLeft", "TryRight", "JustLeft", "JustRight", "Combine"}

tree_new(e) == [i \in DOMAIN e |-> "New"]

CurrentNode(p, opstate, now) ==
    CASE p.is = "Comb" /\ opstate \in {"TryLeft", "JustLeft"}   -> now[p.lhs]
      [] p.is = "Comb" /\ opstate \in {"TryRight", "JustRight"} -> now[p.rhs]
      [] OTHER                                                  -> Whole(p, now)

current(e, opstates) ==
    LET now[i \in DOMAIN e] == CurrentNode(e[i], opstates[i], now) IN now[Len(e)]

Result(opstates, ok) == [opstates |-> opstates, ok |-> ok]

To(opstates, i, state) == [opstates EXCEPT ![i] = state]

\* A step of the left side, or of the right side if the left has none.
LeftOrRight(left, right, t) == IF left[t].ok THEN left[t] ELSE right[left[t].opstates]

\* A step of the node i, whose arguments step as simplify says.
SimplifyNode(p, i, simplify, t) ==
    CASE p.is = "Cond"   -> Result(t, FALSE)
      [] p.is = "Negate" -> simplify[p.arg][t]
      [] p.is = "Comb"   ->
            CASE t[i] = "New"       -> Result(To(t, i, "TryLeft"), TRUE)
              [] t[i] = "TryLeft"   -> simplify[p.lhs][To(t, i, "JustLeft")]
              [] t[i] = "TryRight"  -> simplify[p.rhs][To(t, i, "JustRight")]
              [] t[i] = "JustLeft"  -> simplify[p.lhs][t]
              [] t[i] = "JustRight" -> simplify[p.rhs][t]
              [] t[i] = "Combine"   -> LeftOrRight(simplify[p.lhs], simplify[p.rhs], t)

\* For each node, what a step of its tree makes of the opstates.
Simplify(e) ==
    LET simplify[i \in DOMAIN e] ==
            [t \in [DOMAIN e -> OpStates] |-> SimplifyNode(e[i], i, simplify, t)]
    IN  simplify

\* Mutant: the right side is never tried alone.
TryOther_Never(left, right, t, i) == LeftOrRight(left, right, To(t, i, "Combine"))

\* The left side alone passes.
TryOther(left, right, t, i) == Result(To(t, i, "TryRight"), TRUE)

ComplicateNode(p, i, simplify, complicate, t) ==
    CASE p.is = "Cond"   -> Result(t, FALSE)
      [] p.is = "Negate" -> complicate[p.arg][t]
      [] p.is = "Comb"   ->
            CASE t[i] = "New"       -> Result(t, FALSE)
              [] t[i] = "TryLeft"   -> TryOther(simplify[p.lhs], simplify[p.rhs], t, i)
              [] t[i] = "TryRight"  -> LeftOrRight(simplify[p.lhs], simplify[p.rhs], To(t, i, "Combine"))
              [] t[i] = "JustLeft"  -> complicate[p.lhs][t]
              [] t[i] = "JustRight" -> complicate[p.rhs][t]
              [] t[i] = "Combine"   -> LeftOrRight(complicate[p.lhs], complicate[p.rhs], t)

Complicate(e) ==
    LET simplify == Simplify(e)
        complicate[i \in DOMAIN e] ==
            [t \in [DOMAIN e -> OpStates] |-> ComplicateNode(e[i], i, simplify, complicate, t)]
    IN  complicate

\* The fields an expression mentions.
Mentions(e) == {e[i].field : i \in {j \in DOMAIN e : e[j].is = "Cond"}}

(***************************************************************************)
(* proptest's runner, on a test that fails as soon as some fields are all  *)
(* mentioned.  A search is [e, culprits, opstates, best, going]: best is   *)
(* the last expression that failed.                                        *)
(***************************************************************************)
Search(e, culprits) ==
    [op |-> "search", e |-> e, culprits |-> culprits, opstates |-> tree_new(e), best |-> e, going |-> TRUE]

RunTest(x) ==
    LET now   == current(x.e, x.opstates)
        fails == x.culprits \subseteq Mentions(now)
        step  == (IF fails THEN Simplify(x.e) ELSE Complicate(x.e))[Len(x.e)][x.opstates]
    IN  [x EXCEPT !.opstates = step.opstates, !.best = IF fails THEN now ELSE @, !.going = step.ok]
-----------------------------------------------------------------------------
(***************************************************************************)
(* Properties.                                                             *)
(***************************************************************************)
\* The library selects the cells that the expression says, if the buffers of its sets are
\* described as they are; an expression is refused only for an empty set.
ConditionMeans(e, cells) ==
    /\ build(e) = {} <=> \E s \in Sets(e) : s.value = <<>>
    /\ (\A s \in Sets(e) : Described(s)) =>
           \A c \in build(e), cell \in cells : Selects(c, cell) = Says(e, cell)

\* What is reported fails the test; and in the end a combination is reduced to its left
\* side if that fails alone, or else to its right side if that does.
ConditionShrinks(x) ==
    /\ x.culprits \subseteq Mentions(x.best)
    /\ ~x.going /\ x.e[Len(x.e)].is = "Comb" =>
          LET left  == Mentions(Part(x.e, x.e[Len(x.e)].lhs))
              right == Mentions(Part(x.e, x.e[Len(x.e)].rhs))
          IN  /\ x.culprits \subseteq left => Mentions(x.best) \subseteq left
              /\ ~(x.culprits \subseteq left) /\ x.culprits \subseteq right
                    => Mentions(x.best) \subseteq right
=============================================================================
