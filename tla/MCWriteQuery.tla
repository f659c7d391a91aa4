---------------------------- MODULE MCWriteQuery ----------------------------
(***************************************************************************)
(* Instances of WriteQuery for TLC.  The subarray has two cells.  Field    *)
(* "num" has two values per cell, "str" is variable-length and nullable,   *)
(* "opt" has single nullable values.                                       *)
(***************************************************************************)
EXTENDS WriteQuery

MCCellValNum == [f \in Fields |-> CASE f = "num" -> 2 [] f = "str" -> Var [] f = "opt" -> 1]

Value(kind, cells, nulls) ==
    [kind |-> kind, cells |-> cells, nulls |-> nulls,
     before |-> <<>>, after |-> <<>>, width |-> 0]

Sliced(before, cells, nulls, after) ==
    [Value("list", cells, nulls) EXCEPT !.before = before, !.after = after]

FixedSize(width, cells, nulls) == [Value("fixed_size", cells, nulls) EXCEPT !.width = width]

\* Rust values; one more cell than the subarray has; cells of another length.
Pairs   == Value("nested", <<<<1, 2>>, <<3, 4>>>>, {})
Triple  == Value("nested", <<<<1, 2>>, <<3, 4>>, <<5, 6>>>>, {})
Uneven  == Value("nested", <<<<>>, <<5, 6>>>>, {})
Flat    == Value("slice", <<<<1>>, <<2>>, <<3>>, <<4>>>>, {})
Singles == Value("slice", <<<<7>>, <<8>>>>, {})

\* Arrow arrays: with a null, of fixed-size cells, slices of longer arrays.
SomeNull  == Value("list", <<<<5, 6>>, <<>>>>, {2})
PairArray == FixedSize(2, <<<<5, 6>>, <<7, 8>>>>, {})
PairNull  == FixedSize(2, <<<<5, 6>>, <<7, 8>>>>, {1})
Single    == Value("primitive", <<<<7>>, <<8>>>>, {1})
Odd       == Value("primitive", <<<<7>>, <<8>>, <<9>>>>, {})
FirstTwo  == Sliced(<<>>, <<<<1, 2>>, <<3, 4>>>>, {}, <<5, 6>>)
LastTwo   == Sliced(<<9, 9>>, <<<<1, 2>>, <<3, 4>>>>, {}, <<>>)

\* Query buffers as long as their enum is large, of pairs and of cells with offsets;
\* with a validity or without; and shorter ones.
Buffers(own, width, cells, nulls) ==
    [p \in {"own"} |-> own] @@ [Value("buffers", cells, nulls) EXCEPT !.width = width]

PairBuffers  == Buffers({}, 2, <<<<1, 2>>, <<3, 4>>>>, {})
ValidPairs   == Buffers({"validity"}, 2, <<<<1, 2>>, <<3, 4>>>>, {})
VarBuffers   == Buffers({"offsets", "validity"}, 0, <<<<1>>, <<2, 3, 4>>>>, {2})
BareBuffers  == Buffers({"offsets"}, 0, <<<<1>>, <<2, 3, 4>>>>, {})
ShortBuffers == Buffers({"offsets", "validity"}, 0, <<<<>>, <<5, 6>>>>, {})

Offered(num, str, opt) ==
    [f \in Fields |-> CASE f = "num" -> num [] f = "str" -> str [] f = "opt" -> opt]

\* Values of all kinds, Misfits among them, and values that lack a part.
AllValues ==
    Offered({Pairs, Triple, Uneven, Flat, PairBuffers, ValidPairs, PairArray, PairNull, FirstTwo,
             Single, Odd},
            {Uneven, Triple, Flat, VarBuffers, BareBuffers, ShortBuffers, SomeNull, PairArray,
             FirstTwo, LastTwo},
            {Singles, Single})

\* A flat value for a variable-length field brings no offsets.
FlatValues == Offered({Pairs}, {Uneven, Flat}, {})

\* Rows of values which divide into cells of two, or do not.
Rows == Offered({Value("primitive", <<<<6>>, <<7>>, <<8>>, <<9>>>>, {}), Odd}, {Uneven}, {})

Column(f, v) == [field |-> f, value |-> v]

\* Two columns; a column of other cells than the field's; a field twice.
MCBatches == {<<Column("num", PairArray), Column("str", SomeNull)>>,
              <<Column("str", SomeNull), Column("num", Single)>>,
              <<Column("str", LastTwo), Column("str", SomeNull)>>}

MCLeftovers == {<<>>, <<0, 1>>, <<0, 2, 4>>}
=============================================================================
