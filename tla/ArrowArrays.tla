---------------------------- MODULE ArrowArrays ----------------------------
(***************************************************************************)
(* The Arrow arrays which a read output is turned into                     *)
(* (query/buffer/arrow.rs).  One is [kind, values, width, offsets, nulls], *)
(* of the kinds "primitive", "fixed_size" and "list"; nulls is a set of at *)
(* most one NullBuffer, a sequence of BOOLEANs.                            *)
(***************************************************************************)
EXTENDS QueryBuffers

CONSTANT MaxListWidth   \* i32::MAX: the longest cell of a FixedSizeListArray

ASSUME ListWidthAssumption == MaxListWidth \in Nat \ {0}

\* The mutant keeps the whole capacity of an owned buffer.
ScalarBuffer_All(n, b) == IF b.own = "owned" THEN b.items ELSE SubSeq(b.items, 1, n)
\* Celled<Buffer>: the first n values, all of them if there are less.
ScalarBuffer(n, b) == IF n < Len(b.items) THEN SubSeq(b.items, 1, n) ELSE b.items

NullBuffer(n, b) == LET v == ScalarBuffer(n, b) IN [i \in DOMAIN v |-> v[i] # 0]

\* One more than there are cells, and 0 if there are none.
ListOffsets(n, o) == IF n = 0 \/ o = Empty THEN <<0>> ELSE ScalarBuffer(n + 1, o)

Nulls(n, q) == {NullBuffer(n, v) : v \in q.validity}

PrimitiveArray(n, q) ==
    {[kind |-> "primitive", values |-> ScalarBuffer(n, q.data), width |-> 1,
      offsets |-> <<>>, nulls |-> Nulls(n, q)]}

FixedArray(n, q) ==
    {[kind |-> "fixed_size", values |-> ScalarBuffer(n * w, q.data), width |-> w,
      offsets |-> <<>>, nulls |-> Nulls(n, q)] : w \in {q.cells.width} \cap 1..MaxListWidth}

VarArray(n, q) ==
    LET o == ListOffsets(n, Only(q.cells.offsets))
    IN  {[kind |-> "list", values |-> ScalarBuffer(Last(o), q.data), width |-> 0,
          offsets |-> o, nulls |-> Nulls(n, q)]}

QueryBufferArrowArray(n, q) ==
    IF SingleAccepts(q) THEN PrimitiveArray(n, q)
    ELSE IF FixedAccepts(q) THEN FixedArray(n, q)
    ELSE VarArray(n, q)

\* The physical type of the values becomes the logical one of the field: lists
\* of Datatype::Blob are rebuilt as binary arrays, with the same layout.
IntoArrow(n, tq) == QueryBufferArrowArray(n, Inner(tq))

\* What the constructors of the Arrow arrays assert; they panic otherwise.
WellFormed(a) ==
    LET len == CASE a.kind = "primitive"  -> Len(a.values)
                 [] a.kind = "fixed_size" -> Len(a.values) \div a.width
                 [] a.kind = "list"       -> Len(a.offsets) - 1
    IN  /\ a.kind = "fixed_size" => Len(a.values) % a.width = 0
        /\ a.kind = "list" => /\ Last(a.offsets) <= Len(a.values)
                              /\ \A i \in 1..len : a.offsets[i] <= a.offsets[i + 1]
        /\ \A v \in a.nulls : Len(v) = len

\* An Arrow array as a value of WriteInput: the application writes it back.
ArrowValue(a) ==
    LET cells == CASE a.kind = "primitive"  -> [i \in DOMAIN a.values |-> <<a.values[i]>>]
                   [] a.kind = "fixed_size" ->
                        [i \in 1..Len(a.values) \div a.width |->
                            SubSeq(a.values, (i - 1) * a.width + 1, i * a.width)]
                   [] a.kind = "list"       ->
                        [i \in 1..Len(a.offsets) - 1 |->
                            SubSeq(a.values, a.offsets[i] + 1, a.offsets[i + 1])]
    IN  [kind |-> a.kind, cells |-> cells, before |-> <<>>,
         after |-> IF a.kind = "list"
                   THEN SubSeq(a.values, Last(a.offsets) + 1, Len(a.values)) ELSE <<>>,
         nulls |-> {i \in DOMAIN cells : \E v \in a.nulls : ~v[i]}, width |-> a.width]
-----------------------------------------------------------------------------
(***************************************************************************)
(* The application writes an array to a field of its cell structure: the   *)
(* providers of WriteInput take it, and the C library finds records in     *)
(* what they make of it.                                                   *)
(***************************************************************************)
ArrowFields == [width : 0..MaxListWidth, nullable : BOOLEAN]

FieldLike(q) == [width |-> q.cells.width, nullable |-> q.validity # {}]

W == INSTANCE WriteInput WITH Fields <- ArrowFields, CellValNum <- [f \in ArrowFields |-> f.width],
                              Nullable <- {f \in ArrowFields : f.nullable}, BufferSize <- 24

\* The records of an output.
Records(n, q) ==
    [i \in 1..n |-> IF i \in NullsOf(n, q) THEN W!Null ELSE CellsOf(n, q)[i]]

\* An array that Arrow takes without a panic, that a provider takes for the field, and in
\* which the C library then finds these records and no others.
Carries(a, f, records) ==
    /\ WellFormed(a)
    /\ \E in \in W!query_buffers(ArrowValue(a), f) : W!Readable(in, f) /\ W!RecordsIn(in, f) = records
=============================================================================
