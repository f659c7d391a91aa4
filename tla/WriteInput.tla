----------------------------- MODULE WriteInput -----------------------------
(***************************************************************************)
(* The query inputs an application's values are turned into                *)
(* (query/write/input/), and what the C library reads in them.             *)
(*                                                                         *)
(* A value is [kind, cells, nulls, before, after, width]: the cells an     *)
(* application sees in it, each a sequence of values, and the indices of   *)
(* the null ones; before and after are the values around a sliced Arrow    *)
(* list; width is the fixed length of the cells of a fixed-size array, or  *)
(* of a CellStructure::Fixed.  Query buffers have a value's own field, own: *)
(* the parts they have beside their data.                                  *)
(*                                                                         *)
(* An input (QueryBuffers) is a function from the parts it has, "data",    *)
(* and for some "offsets" and "validity", to their contents.  A Result is  *)
(* the set of the inputs it holds: {} is Err.                              *)
(***************************************************************************)
EXTENDS Integers, SequencesExt

CONSTANTS
    Fields,        \* the fields of the array's schema
    CellValNum,    \* the values per cell of each, Var for CellValNum::Var
    Nullable,      \* the nullable fields
    BufferSize     \* size_of::<Buffer<C>>(), 24 on 64-bit targets

Var == 0

ASSUME SchemaAssumption ==
    CellValNum \in [Fields -> Nat] /\ Nullable \subseteq Fields /\ BufferSize \in Nat

Parts == {"data", "offsets", "validity"}

\* The parts the C library has buffers for of a field: it asks for all of them,
\* and refuses to register another.
NeededParts(f) == {"data"} \cup {p \in {"offsets"} : CellValNum[f] = Var}
                           \cup {p \in {"validity"} : f \in Nullable}
-----------------------------------------------------------------------------
(***************************************************************************)
(* Memory of a value: its values in a row, and for lists the offsets.      *)
(***************************************************************************)
\* What a value can be: Rust's have no nulls, only lists are slices, the cells of
\* flat rows are single, those of a fixed-size array of one width; and query buffers
\* have cells of one width unless they have offsets, and nulls if they have a validity.
IsValue(v) ==
    /\ v.kind \in {"slice", "nested", "buffers", "primitive", "fixed_size", "list"}
    /\ v.cells \in Seq(Seq(Nat)) /\ v.nulls \subseteq DOMAIN v.cells
    /\ v.before \in Seq(Nat) /\ v.after \in Seq(Nat) /\ v.width \in Nat
    /\ v.kind # "list" => v.before = <<>> /\ v.after = <<>>
    /\ v.kind \in {"slice", "nested"} => v.nulls = {}
    /\ v.kind \in {"slice", "primitive"} => \A i \in DOMAIN v.cells : Len(v.cells[i]) = 1
    /\ v.kind = "fixed_size" => \A i \in DOMAIN v.cells : Len(v.cells[i]) = v.width
    /\ v.kind = "buffers" =>
          /\ v.own \subseteq {"offsets", "validity"}
          /\ "offsets" \in v.own \/ \A i \in DOMAIN v.cells : Len(v.cells[i]) = v.width
          /\ "validity" \in v.own \/ v.nulls = {}

ValuesOf(v) == v.before \o FlattenSeq(v.cells) \o v.after

\* Where each cell ends, and before them the first: the offset_accumulator.
Ends(first, cells) ==
    LET end[i \in 0..Len(cells)] == IF i = 0 THEN first ELSE end[i - 1] + Len(cells[i])
    IN  end

\* Mutant: the leading 0 is forgotten.
OffsetsFrom_NoLeading(first, cells) == [i \in 1..Len(cells) |-> Ends(first, cells)[i]]

\* One offset per cell, the first of them given, and one for the end.
OffsetsFrom(first, cells) == [i \in 1..Len(cells) + 1 |-> Ends(first, cells)[i - 1]]

Input(data, offsets, validity) ==
    [p \in {"data"} \cup {q \in {"offsets"} : offsets # {}}
                    \cup {q \in {"validity"} : validity # {}} |->
        CASE p = "data"     -> data
          [] p = "offsets"  -> CHOOSE o \in offsets : TRUE
          [] p = "validity" -> CHOOSE b \in validity : TRUE]

AllValid(n) == [i \in 1..n |-> 1]

\* The cell structure of cells that carry their lengths: {} if the field is
\* fixed and one of them does not fit, or else the set of what offsets there are.
cell_structure(first, cells, f) ==
    IF CellValNum[f] = Var THEN {{OffsetsFrom(first, cells)}}
    ELSE IF \A i \in DOMAIN cells : Len(cells[i]) = CellValNum[f] THEN {{}}
    ELSE {}

\* For fixed-size arrays: as many offsets as cells.
cell_structure_fixed(width, ncells, f) ==
    IF CellValNum[f] = Var THEN {{[i \in 1..ncells |-> (i - 1) * width]}}
    ELSE IF width = CellValNum[f] THEN {{}}
    ELSE {}

\* The nulls of a value, one byte for each cell.
ValidityOf(v) == [i \in DOMAIN v.cells |-> IF i \in v.nulls THEN 0 ELSE 1]

\* Mutant: nulls are dropped silently.
validity_buffer_Ignored(v, f) ==
    IF f \in Nullable THEN {{AllValid(Len(v.cells))}} ELSE {{}}

\* The validity of an Arrow array, {} if it has nulls the field cannot hold.
validity_buffer(v, f) ==
    IF f \in Nullable
    THEN {{ValidityOf(v)}}
    ELSE IF v.nulls = {} THEN {{}} ELSE {}

\* Mutant: no validity.
NoNulls_Missing(n, f) == {}

\* A validity for Rust values, none of which is null.
NoNulls(n, f) == IF f \in Nullable THEN {AllValid(n)} ELSE {}
-----------------------------------------------------------------------------
(***************************************************************************)
(* DataProvider::query_buffers, by the kind of the value.                  *)
(***************************************************************************)

\* [C] and Vec<C>: each value is a cell, whatever the field says.
SliceInput(v, f) ==
    {Input(ValuesOf(v), {}, NoNulls(Len(ValuesOf(v)), f))}

\* Vec<Vec<C>>, Vec<&str>, Vec<String>
NestedInput(v, f) ==
    {Input(ValuesOf(v), offsets, NoNulls(Len(v.cells), f)) :
        offsets \in cell_structure(0, v.cells, f)}

\* PrimitiveArray: the cells of a field with more values per cell are taken
\* only if the values do NOT divide into cells.
PrimitiveInput(v, f) ==
    IF CellValNum[f] = 1
    THEN {Input(ValuesOf(v), {}, validity) : validity \in validity_buffer(v, f)}
    ELSE IF CellValNum[f] = Var \/ Len(ValuesOf(v)) % CellValNum[f] = 0 \/ v.nulls # {}
    THEN {}
    ELSE {Input(ValuesOf(v), {}, {})}

\* FixedSizeBinaryArray and FixedSizeListArray
FixedSizeInput(v, f) ==
    {Input(ValuesOf(v), o, b) :
        o \in cell_structure_fixed(v.width, Len(v.cells), f), b \in validity_buffer(v, f)}

\* LargeBinaryArray, LargeStringArray and GenericListArray<i64>
ListInput(v, f) ==
    {Input(ValuesOf(v), o, b) :
        o \in cell_structure(Len(v.before), v.cells, f), b \in validity_buffer(v, f)}

\* QueryBuffers and QueryBuffersMut: the cell structure and the validity they have,
\* whatever the field needs.  Their data is taken to be as long as the enum that holds
\* it is large.
Beyond == -2   \* memory beyond the end of a buffer
BuffersInput(v) ==
    {Input([i \in 1..BufferSize |->
               IF i \in DOMAIN ValuesOf(v) THEN ValuesOf(v)[i] ELSE Beyond],
           {OffsetsFrom(0, v.cells) : p \in v.own \cap {"offsets"}},
           {ValidityOf(v) : p \in v.own \cap {"validity"}})}

query_buffers(v, f) ==
    CASE v.kind = "slice"      -> SliceInput(v, f)
      [] v.kind = "nested"     -> NestedInput(v, f)
      [] v.kind = "buffers"    -> BuffersInput(v)
      [] v.kind = "primitive"  -> PrimitiveInput(v, f)
      [] v.kind = "fixed_size" -> FixedSizeInput(v, f)
      [] v.kind = "list"       -> ListInput(v, f)

\* What an Arrow RecordBatch says of a column of such cells, if anything.
from_arrow(v) ==
    CASE v.kind = "list"       -> {Var}
      [] v.kind = "fixed_size" -> {v.width} \ {0}
      [] v.kind = "primitive"  -> {1}

\* RecordBatchTileDBInputs::next: the column has to agree with the field.
batch_buffers(v, f) == IF CellValNum[f] \in from_arrow(v) THEN query_buffers(v, f) ELSE {}
-----------------------------------------------------------------------------
(***************************************************************************)
(* The C library (external), as WriteBuilder::new configures it: offsets   *)
(* count values ("elements"), and one more than there are cells says where *)
(* the last one ends ("extra_element").                                    *)
(***************************************************************************)
ReadOffsets(in) ==
    [i \in 1..Len(in["offsets"]) - 1 |->
        SubSeq(in["data"], in["offsets"][i] + 1, in["offsets"][i + 1])]

ReadFixed(in, k) ==
    [i \in 1..Len(in["data"]) \div k |-> SubSeq(in["data"], (i - 1) * k + 1, i * k)]

CellsIn(in, f) == IF CellValNum[f] = Var THEN ReadOffsets(in) ELSE ReadFixed(in, CellValNum[f])

\* What the C library checks of a field before it writes.
Readable(in, f) ==
    /\ DOMAIN in = NeededParts(f)
    /\ IF CellValNum[f] = Var
       THEN /\ in["offsets"] # <<>>
            /\ Last(in["offsets"]) = Len(in["data"])
       ELSE Len(in["data"]) % CellValNum[f] = 0
    /\ f \in Nullable => Len(in["validity"]) = Len(CellsIn(in, f))

\* The records it writes: a cell, or null.
Null == <<-1>>   \* equal to no cell
RecordsIn(in, f) ==
    [i \in DOMAIN CellsIn(in, f) |->
        IF f \in Nullable /\ in["validity"][i] = 0 THEN Null ELSE CellsIn(in, f)[i]]

(***************************************************************************)
(* What the application means by a value: the cells it sees in it.  A      *)
(* flat row of values has those the field divides it into.                 *)
(***************************************************************************)
RecordsOf(v, f) ==
    IF v.kind \in {"slice", "primitive"} /\ CellValNum[f] # Var
    THEN LET cells == ReadFixed([p \in {"data"} |-> ValuesOf(v)], CellValNum[f])
         IN  [i \in DOMAIN cells |-> IF i \in v.nulls THEN Null ELSE cells[i]]
    ELSE [i \in DOMAIN v.cells |-> IF i \in v.nulls THEN Null ELSE v.cells[i]]

\* The needed parts that a value's input lacks: Rust's flat rows bring no offsets, Arrow's
\* with more values per cell no validity, and buffers nothing that they have not.
Missing(v, f) ==
    {p \in NeededParts(f) :
        \/ p = "offsets" /\ v.kind = "slice"
        \/ p = "validity" /\ v.kind = "primitive" /\ CellValNum[f] # 1
        \/ p # "data" /\ v.kind = "buffers" /\ p \notin v.own}

(***************************************************************************)
(* Values that a provider accepts for a field although the C library reads *)
(* other cells in them, or none: with a part missing; without the offset   *)
(* of the end; with the values around a slice; values that do not divide   *)
(* into cells; a validity per value; and buffers, whose length is their    *)
(* enum's and whose cells need not be the field's.                         *)
(***************************************************************************)
Misfit(v, f) ==
    \/ Missing(v, f) # {}
    \/ v.kind = "fixed_size" /\ CellValNum[f] = Var
    \/ v.kind = "list" /\ (v.after # <<>> \/ (CellValNum[f] # Var /\ v.before # <<>>))
    \/ v.kind = "primitive" /\ CellValNum[f] > 1
    \/ v.kind = "slice" /\ f \in Nullable /\ CellValNum[f] # 1
    \/ v.kind = "slice" /\ CellValNum[f] # Var /\ Len(v.cells) % CellValNum[f] # 0
    \/ v.kind = "buffers"
=============================================================================
