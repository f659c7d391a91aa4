---------------------------- MODULE QueryBuffers ----------------------------
(***************************************************************************)
(* The buffers of a query (query/buffer/), and how cells are found in      *)
(* them.                                                                   *)
(*                                                                         *)
(* A buffer is [own, items]: Empty, Borrowed or Owned, and its contents.   *)
(* A cell structure is [width, offsets]: a fixed number of values per cell *)
(* and no offsets, or 0 and the buffer of the offsets.  QueryBuffers are   *)
(* [data, cells, validity], of which validity and offsets are sets of at   *)
(* most one buffer.  A Result is the set of what it holds: {} is Err.      *)
(***************************************************************************)
EXTENDS Integers, SequencesExt

Only(s) == CHOOSE x \in s : TRUE

Empty       == [own |-> "empty", items |-> <<>>]
Borrowed(s) == [own |-> "borrowed", items |-> s]
Owned(s)    == [own |-> "owned", items |-> s]

\* A buffer that shares the memory of this one.
borrow(b) == Borrowed(b.items)

Fixed(n) == [width |-> n, offsets |-> {}]
VarCells(o) == [width |-> 0, offsets |-> {o}]

is_single(c) == c.width = 1
is_var(c)    == c.offsets # {}
is_fixed(c)  == c.offsets = {}

\* QueryBuffers::borrow, QueryBuffersMut::as_shared: every part is borrowed.
as_shared(q) ==
    [data     |-> borrow(q.data),
     cells    |-> [q.cells EXCEPT !.offsets = {borrow(o) : o \in @}],
     validity |-> {borrow(v) : v \in q.validity}]

\* The proof types: which buffers they accept.
SingleAccepts(q) == is_single(q.cells)
FixedAccepts(q)  == is_fixed(q.cells) /\ q.cells.width # 1
VarAccepts(q)    == is_var(q.cells)

(***************************************************************************)
(* TypedQueryBuffers: a tag for the physical type of the values.           *)
(***************************************************************************)
Typed(type, q) == [type |-> type, buffers |-> q]

\* typed_query_buffers_go: the same for every tag.
Inner(tq) == tq.buffers

\* The conversion back to buffers of a type: Err for another tag.
OfType(tq, type) == IF tq.type = type THEN {Inner(tq)} ELSE {}
-----------------------------------------------------------------------------
(***************************************************************************)
(* ScratchSpace: memory that a handle may resize.  A buffer that is        *)
(* borrowed belongs to somebody else; and offsets have to be there.        *)
(***************************************************************************)
ScratchCells(c) == IF \A o \in c.offsets : o.own = "owned" THEN {c} ELSE {}

ScratchSpace(q) ==
    {[data |-> Owned(q.data.items), cells |-> c, validity |-> {Owned(v.items) : v \in q.validity}] :
        c \in IF \A b \in {q.data} \cup q.validity : b.own # "borrowed"
              THEN ScratchCells(q.cells) ELSE {}}
-----------------------------------------------------------------------------
(***************************************************************************)
(* What a read leaves in the buffers: ncells cells and whatever was there  *)
(* behind them.  With extra_element n > 0 cells have n + 1 offsets.        *)
(***************************************************************************)
\* RawReadOutput::nvalues
nvalues(n, q) ==
    IF is_fixed(q.cells) THEN n * q.cells.width
    ELSE LET o == Only(q.cells.offsets).items IN IF o = <<>> THEN 0 ELSE o[n + 1]

\* An output the C library can have left (external): the buffers hold it.
IsOutput(n, q) ==
    /\ \A o \in q.cells.offsets :
          IF n = 0 THEN o.items # <<>> => o.items[1] = 0
          ELSE /\ n < Len(o.items)
               /\ o.items[1] = 0
               /\ \A i \in 1..n : o.items[i] <= o.items[i + 1]
    /\ nvalues(n, q) <= Len(q.data.items)
    /\ \A v \in q.validity : n <= Len(v.items)

\* The cells of an output, where the null ones are.
CellsOf(n, q) ==
    [i \in 1..n |->
        IF is_fixed(q.cells)
        THEN SubSeq(q.data.items, (i - 1) * q.cells.width + 1, i * q.cells.width)
        ELSE LET o == Only(q.cells.offsets).items IN SubSeq(q.data.items, o[i] + 1, o[i + 1])]

NullsOf(n, q) == {i \in 1..n : \E v \in q.validity : v.items[i] = 0}
=============================================================================
