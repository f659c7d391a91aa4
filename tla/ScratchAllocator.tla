--------------------------- MODULE ScratchAllocator ---------------------------
(***************************************************************************)
(* The scratch space allocators of query/read/output/mod.rs.               *)
(*                                                                         *)
(* A scratch space is the set of buffers one field of a read query is      *)
(* written into: the values, the cell offsets of a variable-length field,  *)
(* and the validity bytes of a nullable one.  What an allocator promises   *)
(* is only about lengths, so a space is modelled by the lengths of its     *)
(* buffers, each counted in its own elements; a buffer the space does not  *)
(* have (Option::None, CellStructure::Fixed) has length NoBuffer.          *)
(***************************************************************************)
EXTENDS Integers

NoBuffer == -1

Length == Nat \cup {NoBuffer}

Space == [data : Nat, offsets : Length, validity : Length]

Kinds == {"NonVarSized", "NullableNonVarSized", "VarSized",
          "NullableVarSized", "FieldScratchAllocator"}

\* The two kinds that always answer with CellStructure::Fixed.
FixedKinds == {"NonVarSized", "NullableNonVarSized"}

\* The two kinds that always answer with no validity buffer.
NotNullableKinds == {"NonVarSized", "VarSized"}

(***************************************************************************)
(* An allocator is its kind and the lengths of its first space.  Only      *)
(* FieldScratchAllocator rules out empty buffers: its record_capacity is a *)
(* NonZeroUsize, and every length is a multiple of it.                     *)
(***************************************************************************)
Allocators ==
    {a \in [kind : Kinds, space : Space] :
        /\ a.kind \in FixedKinds       => a.space.offsets = NoBuffer
        /\ a.kind \in NotNullableKinds => a.space.validity = NoBuffer
        /\ a.kind \in {"VarSized", "NullableVarSized"} => a.space.offsets # NoBuffer
        /\ a.kind \in {"NullableNonVarSized", "NullableVarSized"}
                                       => a.space.validity # NoBuffer
        /\ a.kind = "FieldScratchAllocator"
              => /\ a.space.data > 0
                 /\ a.space.offsets # 0
                 /\ a.space.validity # 0}

alloc(a) == a.space

\* Mutants of Grown: an off-by-one, and a doubling that cannot leave zero.
Grown_OffByOne(kind, n) == IF n = NoBuffer THEN NoBuffer ELSE 2 * n - 1
Grown_Doubles(kind, n)  == IF n = NoBuffer THEN NoBuffer ELSE 2 * n

\* Vec::resize of one buffer: how each kind picks the new length.
Grown(kind, n) ==
    CASE n = NoBuffer                        -> NoBuffer
      [] n # NoBuffer /\ kind = "NonVarSized" -> 2 * (n + 1)
      [] n # NoBuffer /\ kind = "FieldScratchAllocator" -> 2 * n
      [] OTHER                               -> 2 * n + 1

realloc(a, old) ==
    [data     |-> Grown(a.kind, old.data),
     offsets  |-> IF a.kind \in FixedKinds THEN NoBuffer
                  ELSE Grown(a.kind, old.offsets),
     validity |-> IF a.kind \in NotNullableKinds THEN NoBuffer
                  ELSE Grown(a.kind, old.validity)]

(***************************************************************************)
(* A space is roomier than another when each buffer they have is longer.   *)
(***************************************************************************)
Roomier(new, old) ==
    /\ new.data > old.data
    /\ old.offsets # NoBuffer  => new.offsets > old.offsets
    /\ old.validity # NoBuffer => new.validity > old.validity
    /\ (new.offsets = NoBuffer) = (old.offsets = NoBuffer)
    /\ (new.validity = NoBuffer) = (old.validity = NoBuffer)
=============================================================================
