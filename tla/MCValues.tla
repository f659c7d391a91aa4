------------------------------ MODULE MCValues ------------------------------
(***************************************************************************)
(* The modules without state of their own on small inputs: those Values    *)
(* takes, and more operations of the same form.                            *)
(***************************************************************************)
EXTENDS Values, FiniteSets

C == INSTANCE Cells
-----------------------------------------------------------------------------
(* Physical types of three values, and larger ones for dimensions; numbers *)
(* of cells fit 100.                                                       *)

MCTMin(type) == CASE type = "i8" -> -1 [] type = "i16" -> -6 [] type = "i32" -> -2 [] OTHER -> 0
MCTMax(type) == CASE type = "i8" -> 1 [] type = "i16" -> 5 [] type \in {"u16", "i32"} -> 9 [] OTHER -> 2

MCCellNumbers == 0..3

MCRangeInputs ==
    {ArbitrarySingle(type) : type \in {"u8", "f32"}}
    \cup {ArbitraryMulti("i8", 2), ArbitraryVar("u8", 1)}
    \cup {{MultiRange("u8", s, t) : s \in {<<0, 1, 2>>, <<0, 2, 0>>}, t \in {<<0, 2, 1>>, <<1, 0, 0>>}}}
    \cup {{MultiRange("i32", <<0, 3>>, <<u, 1>>) : u \in {1, 7, 8, 9}}}

MCRangeLists ==
    {{<<>>, <<Single("i8", 1, 1)>>} \cup {<<l, Single("i8", 0, 1)>> : l \in ArbitrarySingle("i8")},
     {<<>>, <<VarRange("u8", <<>>, <<1>>)>>, <<VarRange("u8", <<1>>, <<1, 0>>)>>}}

MCSlices == {<<>>, <<1>>, <<1, 2>>}
MCCoordinates == {<<v>> : v \in -1..2} \cup {<<>>, <<1, 0>>}

MCFilterInputs == {"UInt8", "Int32", "Float32", "Float64", "Boolean", "Blob", "Any", "Char",
                   "StringAscii", "StringUtf16", "DateTimeDay", "TimeHour"}

Axis(dt, cvn, extent, filtered) ==
    [datatype |-> dt, cvn |-> cvn, extent |-> extent, filtered |-> filtered]

MCContexts == {[c |-> "none"], [c |-> "Dimension", datatype |-> "StringAscii", cvn |-> 0]}
    \cup {[c |-> "SchemaCoordinates", domain |-> <<Axis("Float64", 1, {}, b)>>] : b \in BOOLEAN}
    \cup {[c |-> "SchemaAttribute", datatype |-> "UInt8", cvn |-> 1, array_type |-> "Dense",
            domain |-> <<Axis("UInt16", 1, {5}, FALSE), Axis("UInt16", 1, {e}, FALSE)>>] :
              e \in {5, 9, 16}}

MCAllowances == {AllAllowed, {"dict", "delta"}}

MCDimensionDatatypes == {"Int16", "UInt16", "StringAscii"}
MCLimits == (0..4) \cup {9, 27}
-----------------------------------------------------------------------------
(* Cells of two fields. *)

Ramp(n) == [i \in 1..n |-> i]
Columns(n) == [1..n -> 0..2]
TwoFields(a, b) == [f \in {"a", "b"} |-> C!Field("Int32", IF f = "a" THEN a ELSE b)]

TakeCells ==
    /\ input.op = "none"
    /\ \E n \in 0..3 : \E a, b \in Columns(n) : \E keys \in {<<"a">>, <<"a", "b">>, <<"b", "a">>} :
          input' = [op |-> "cells", c |-> TwoFields(a, b), keys |-> keys]

TakeOverlay ==
    /\ input.op = "none"
    /\ \E m, n \in 0..3 :
          input' = [op |-> "overlay",
                    c |-> TwoFields(Ramp(m), [i \in 1..m |-> 1]),
                    d |-> TwoFields([i \in 1..n |-> 0], [i \in 1..n |-> 10 * i])]

TakeSlice ==
    /\ input.op = "none"
    /\ \E dims \in [1..2 -> 1..3] \cup {<<2, 1, 2>>} :
       \E lo, hi \in [DOMAIN dims -> 0..3] :
          /\ \A d \in DOMAIN dims : lo[d] < dims[d] /\ hi[d] <= dims[d]
          /\ input' = [op |-> "slice", dims |-> dims,
                       ranges |-> [d \in DOMAIN dims |-> <<lo[d], hi[d]>>]]

\* See Cells: dedup and sort, copy_from, and the odometer of slice (cells/src/lib.rs).
CellsAlgebra ==
    /\ input.op = "cells" => C!DedupKeepsFirsts(input.c, input.keys) /\ C!SortGroupsRecords(input.c, input.keys)
    /\ input.op = "overlay" => C!CopyOverlays(input.c, input.d)
    /\ input.op = "slice" =>
          LET n == IF Len(input.dims) = 2 THEN input.dims[1] * input.dims[2] ELSE 4
          IN  C!SliceIsBox(input.dims, TwoFields(Ramp(n), Ramp(n)), input.ranges)
-----------------------------------------------------------------------------
(* Subarrays of one or two dimensions. *)

Axis1(name, type, constraints) == [name |-> name, datatype |-> type, constraints |-> constraints]

MCGrids == {<<Axis1("x", "UInt8", Bounded("u8", 0, 2, {})), Axis1("y", "Int8", Bounded("i8", 0, 1, {}))>>,
          <<Axis1("s", "StringAscii", StringAscii)>>}

MCAsked ==
    {<<>>, <<Single("u8", 0, 1)>>, <<Single("u8", 0, 0), Single("u8", 1, 2)>>, <<Single("u8", 2, 1)>>,
     <<Single("i8", 0, 1), Single("i8", 0, 0)>>, <<Single("i8", 1, 1), VarRange("i8", <<1>>, <<1>>)>>,
     <<Single("i8", -1, 1)>>}
    \cup {<<r>> : r \in ArbitraryVar("u8", 1)}
    \cup {<<q, r>> : q \in {VarRange("u8", <<>>, <<1>>), Single("u8", 0, 0)}, r \in ArbitraryVar("u8", 1)}
-----------------------------------------------------------------------------
(* Drawn schemas, what shrinking leaves of them, and enumerations. *)

LOCAL Least(type) == IF type = "i8" THEN -6 ELSE 0
LOCAL Greatest(type) == IF type = "i8" THEN 5 ELSE 9
S == INSTANCE ArrowSchema WITH TMin <- Least, TMax <- Greatest, CountMax <- 200

Attribute(name, dt, cvn, nullable, valid, filters) ==
    [name |-> name, datatype |-> dt, nullability |-> {nullable}, cvn |-> {cvn},
     fill |-> {[type |-> S!physical(dt), values |-> [i \in 1..(IF cvn = 0 THEN 3 ELSE cvn) |-> 7],
                nullability |-> {nullable /\ valid}]},
     filters |-> filters, enumeration |-> {}]

FirstAttributes ==
    {Attribute("a", k[1], k[2], nullable, valid, <<>>) :
        k \in {<<"UInt8", 1>>, <<"Int32", 2>>, <<"Any", 0>>, <<"Boolean", 1>>}, nullable, valid \in BOOLEAN}
    \cup {[Attribute("a", "Float32", 1, nullable, TRUE, <<>>) EXCEPT !.fill = IF nullable THEN @ ELSE {}] :
              nullable \in BOOLEAN}

SecondAttributes ==
    {Attribute("b", "Int32", 2, TRUE, TRUE, <<>>),
     Attribute("b", "UInt8", 1, FALSE, FALSE, <<S!Plain("BitShuffle")>>)}

Enumeration(name, dt, cvn, data, offsets) ==
    [name |-> name, datatype |-> dt, cvn |-> {cvn}, ordered |-> {FALSE}, data |-> data, offsets |-> offsets]

Candidates == <<Enumeration("e", "UInt8", 1, <<5, 6, 7>>, {}),
                Enumeration("f", "StringAscii", 0, <<1, 2, 1>>, {<<0, 2>>})>>

Key(name, dt) ==
    [name |-> name, datatype |-> dt, filters |-> {},
     constraints |-> IF dt = "StringAscii" THEN S!StringAscii ELSE S!Bounded(S!physical(dt), 1, 4, {2})]

DrawnSchema(array_type, dt, order, attributes) ==
    [array_type |-> array_type, domain |-> <<Key("d", dt), Key("k", "Int8")>>, capacity |-> {5},
     cell_order |-> {order}, tile_order |-> {"ColumnMajor"}, dups |-> {array_type = "Sparse"},
     attributes |-> attributes, enumerations |-> <<>>, coords |-> <<>>,
     offsets |-> <<S!Plain("ByteShuffle")>>, nullity |-> <<>>]

TakeSchema ==
    /\ input.op = "none"
    /\ \E a \in FirstAttributes, b \in SecondAttributes, mapping \in [1..2 -> {{}, {1}, {2}}] :
       \E k \in {<<"Dense", "Int8">>, <<"Sparse", "DateTimeDay">>, <<"Sparse", "StringAscii">>} :
       \E order \in S!DrawnCellOrders(k[1]), kept \in SUBSET (1..2) \ {{}}, keys \in {{1}, {1, 2}} :
          input' = [op |-> "schema",
                    s |-> S!current(S!prop_schema_for_domain(DrawnSchema(k[1], k[2], order, <<a, b>>),
                                                             Candidates, mapping), kept, keys)]

TakeEnumeration ==
    /\ input.op = "none"
    /\ \E cvn \in 0..2, dt \in {"UInt8", "Int16"}, n \in 1..3 :
       \E variants \in [1..n -> {v \in {<<1>>, <<2>>, <<1, 2>>, <<>>, <<2, 2>>} : cvn \in {0, Len(v)}}] :
          input' = [op |-> "enumeration", enumeration |-> S!prop_enumeration("e", dt, cvn, variants)]

\* See Schema: drawn schemas and enumerations through the C library and back, the fields
\* found in them, the scratch space allocated for them, and their Arrow schemas.
SchemaRoundTrip ==
    /\ input.op = "schema" =>
          /\ S!SchemaRoundTrip(input.s) /\ S!FieldsAgree(input.s)
          /\ \A c \in S!schema_create(input.s) : S!ArrowSchemaRoundTrip(c) /\ S!UnknownTypesLeftOut(c)
          /\ \A c \in S!schema_create(input.s), limit \in {1, 64, 100, 300} : S!AllocatorFits(c, limit)
    /\ input.op = "enumeration" => S!EnumerationRoundTrip(input.enumeration)
    /\ input.op = "arrow" => S!ForeignFieldKept(input.arrow)
-----------------------------------------------------------------------------
(* Query conditions on cells of a field and a nullable one. *)

MCConditionCells == {[f \in {"a", "n"} |-> IF f = "a" THEN <<k[1]>> ELSE k[2]] :
                        k \in (1..3) \X {Q!Null, <<1>>, <<2>>, <<3>>}}

Leaves == {Q!Equality(f, op, 2) : f \in {"a", "n"}, op \in Q!EqualityOps}
          \cup {Q!Nullness("n", op) : op \in {"IsNull", "NotNull"}}
          \cup {Q!SetMembership("n", op, 8, m) : op \in {"In", "NotIn"}, m \in {<<1, 2, 2>>, <<>>, <<2>>}}

Literals == Leaves \cup {Q!Negate(l) : l \in Leaves}

MCConditions ==
    Literals \cup {Q!Comb(l, r, op) : l \in Literals, r \in Leaves, op \in {"And", "Or"}}
             \cup {Q!Negate(Q!Comb(Q!Comb(l, r, "And"), Q!Negate(l), "Or")) : l, r \in Leaves}

\* Trees of leaves that each mention one field: two levels of combinations, negated or not.
Mention(f) == Q!Nullness(f, "IsNull")
Trees(below) == below \cup {Q!Comb(l, r, "And") : l, r \in below}
Flat == {Mention("a"), Mention("b"), Q!Negate(Mention("n"))}

MCFailing == Trees(Trees(Flat)) \cup {Q!Negate(t) : t \in Trees(Flat)}
-----------------------------------------------------------------------------
MoreNext ==
    \/ TakeCells
    \/ TakeOverlay
    \/ TakeSlice
    \/ TakeSchema
    \/ TakeEnumeration
=============================================================================
