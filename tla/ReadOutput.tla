----------------------------- MODULE ReadOutput -----------------------------
(***************************************************************************)
(* The iterators over the cells of a read output (query/read/output/):     *)
(* CellStructureSingleIterator copies values, FixedDataIterator and        *)
(* VarDataIterator hand out slices of the data, with the lifetime of the   *)
(* data and not of the iterator.  Or the output is made into an Arrow      *)
(* array, from the buffers as they are, from borrowed ones or from scratch *)
(* space.                                                                  *)
(***************************************************************************)
EXTENDS ArrowArrays

CONSTANT Outputs    \* the outputs to iterate over, [n, q] with IsOutput(n, q)

VARIABLES
    state,      \* "none", "open", "dropped" or "array", or the error of try_new
    kind,       \* "single", "fixed" or "var", or "arrow" for an Arrow array
    output,     \* ncells and the buffers
    index,      \* the cells gone by: index, or offset_cursor of VarDataIterator
    yielded,    \* what next() has returned, None left out
    nones,      \* whether next() has returned None
    array       \* the Arrow array, at most one

outputVars == <<state, kind, output, index, yielded, nones, array>>

Kinds == {"single", "fixed", "var", "arrow"}

OutputInit ==
    /\ state = "none" /\ kind \in Kinds /\ output \in Outputs
    /\ index = 0 /\ yielded = <<>> /\ nones = FALSE /\ array = {}

\* Mutant: variable-length data may be owned.
Accepts_OwnedVar(k, q) ==
    \/ k = "single" /\ SingleAccepts(q)
    \/ k = "fixed" /\ FixedAccepts(q) /\ q.data.own # "owned"
    \/ k = "var" /\ VarAccepts(q)

\* The proof type each iterator asks for: slices are not cut from owned data.
Accepts(k, q) ==
    \/ k = "single" /\ SingleAccepts(q)
    \/ k = "fixed" /\ FixedAccepts(q) /\ q.data.own # "owned"
    \/ k = "var" /\ VarAccepts(q) /\ q.data.own # "owned"

TryNew ==
    /\ state = "none" /\ kind # "arrow"
    /\ state' = IF Accepts(kind, output.q) THEN "open"
                ELSE IF kind # "single" /\ output.q.data.own = "owned" THEN "InvalidArgument"
                ELSE "UnexpectedCellStructure"
    /\ UNCHANGED <<kind, output, index, yielded, nones, array>>

\* The cell after the index, as the iterator of this kind finds it.
Cell(i) ==
    LET data == output.q.data.items
        w    == output.q.cells.width
        o    == Only(output.q.cells.offsets).items
    IN  IF kind = "single" THEN <<data[i + 1]>>
        ELSE IF kind = "fixed" THEN SubSeq(data, i * w + 1, (i + 1) * w)
        ELSE SubSeq(data, o[i + 1] + 1, o[i + 2])

\* Mutant: goes on to the end of the buffer, not of the cells in it.
More_Buffer == index < IF kind = "single" THEN Len(output.q.data.items) ELSE output.n

More == index < output.n

NextSome ==
    /\ state = "open" /\ More
    /\ yielded' = Append(yielded, Cell(index))
    /\ index' = index + 1
    /\ UNCHANGED <<state, kind, output, nones, array>>

\* VarDataIterator counts the calls that return None too; two are enough here.
NextNone ==
    /\ state = "open" /\ ~More /\ index < output.n + 2
    /\ index' = IF kind = "var" THEN index + 1 ELSE index
    /\ nones' = TRUE
    /\ UNCHANGED <<state, kind, output, yielded, array>>

\* The iterator goes, with the buffers it owns; its items may stay.
DropIterator ==
    /\ state = "open"
    /\ state' = "dropped"
    /\ UNCHANGED <<kind, output, index, yielded, nones, array>>

\* The same buffers, borrowed, or as scratch space and back.
Forms(q) == {q} \cup OfType(Typed("Int32", as_shared(q)), "Int32") \cup ScratchSpace(q)

IntoArray ==
    /\ state = "none" /\ kind = "arrow"
    /\ \E q \in Forms(output.q) : array' = IntoArrow(output.n, Typed("Int32", q))
    /\ state' = "array"
    /\ UNCHANGED <<kind, output, index, yielded, nones>>

OutputNext == TryNew \/ NextSome \/ NextNone \/ DropIterator \/ IntoArray

OutputSpec == OutputInit /\ [][OutputNext]_outputVars

size_hint == output.n - index
-----------------------------------------------------------------------------
(***************************************************************************)
(* Properties.                                                             *)
(***************************************************************************)
\* The items are the cells of the output, in order; None comes after the last and
\* not before, however large the buffers are; size_hint is exact until then.
YieldsCells ==
    /\ Len(yielded) <= output.n
    /\ \A i \in DOMAIN yielded : yielded[i] = CellsOf(output.n, output.q)[i]
    /\ nones => Len(yielded) = output.n
    /\ state = "open" /\ ~nones => size_hint = output.n - Len(yielded)

\* A slice is handed out only of data that outlives the iterator.
SlicesLive == state = "dropped" /\ kind # "single" /\ yielded # <<>>
              => output.q.data.own # "owned"

\* An output made into an Arrow array can be written back: the field gets the cells and
\* nulls of the output and no others, wherever the capacity of the buffers ends and
\* whoever owns them.  Only cells that are too wide for Arrow are refused.
ArrowRoundTrip == state = "array" =>
    /\ array = {} => output.q.cells.width > MaxListWidth
    /\ \A a \in array : Carries(a, FieldLike(output.q), Records(output.n, output.q))
=============================================================================
