----------------------------- MODULE MCReadQuery -----------------------------
(***************************************************************************)
(* Instances of ReadQuery for TLC.  The result has three cells.  Field     *)
(* "num" has two values per cell; "str" is variable-length, with an empty  *)
(* cell and one longer than the first buffers; "opt" is nullable.          *)
(***************************************************************************)
EXTENDS ReadQuery

MCCellValNum == [f \in Fields |-> IF f = "num" THEN 2 ELSE 1]

MCCellEnd == [f \in Fields |->
    CASE f = "num" -> [i \in 0..NCells |-> 2 * i]
      [] f = "str" -> [i \in 0..NCells |-> <<0, 1, 1, 4, 5>>[i + 1]]
      [] OTHER     -> [i \in 0..NCells |-> i]]

\* One handle per field, named after it.
MCFieldOf == [h \in Handles |-> h]

Sized(d, o, v) == [data |-> d, offsets |-> o, validity |-> v]

Tight ==
    [num |-> [kind |-> "NonVarSized", space |-> Sized(1, NoBuffer, NoBuffer)],
     str |-> [kind |-> "VarSized", space |-> Sized(0, 1, NoBuffer)],
     opt |-> [kind |-> "NullableNonVarSized", space |-> Sized(1, NoBuffer, 0)]]

\* FieldScratchAllocator, and a nullable variable-length field.
Default ==
    [num |-> [kind |-> "FieldScratchAllocator", space |-> Sized(2, NoBuffer, NoBuffer)],
     str |-> [kind |-> "NullableVarSized", space |-> Sized(1, 2, 1)],
     opt |-> [kind |-> "FieldScratchAllocator", space |-> Sized(1, NoBuffer, 1)]]

TightAllocator == [h \in Managed |-> Tight[h]]
DefaultAllocator == [h \in Managed |-> Default[h]]

\* The buffers an application may supply: too small, and roomy enough.
MCUserSpaces == [h \in Handles \ Managed |->
    CASE h = "num" -> {Sized(1, NoBuffer, NoBuffer), Sized(4, NoBuffer, NoBuffer)}
      [] h = "str" -> {Sized(3, 0, NoBuffer), Sized(3, 3, NoBuffer), Sized(1, 2, NoBuffer)}
      [] OTHER     -> {Sized(2, NoBuffer, 1), Sized(3, NoBuffer, 3)}]

Adapter(kind, args) == [kind |-> kind, args |-> args]

\* Three typed results, one field each, as in examples/reading_incomplete.rs.
CollectStack == <<Adapter("callback", <<"num">>), Adapter("callback", <<"str">>),
                  Adapter("callback", <<"opt">>)>>

\* Raw buffers below a two-argument callback.
MixedStack == <<Adapter("raw", <<"opt">>), Adapter("callback", <<"num", "str">>)>>

\* A CallbackVarArgReadQuery below a raw adapter.
VarArgStack == <<Adapter("raw", <<"num", "str">>), Adapter("callback_var", <<>>),
                 Adapter("raw", <<"opt">>)>>

\* CallbackVarArgReadQuery alone, over handles it manages itself.
ManagedVarArgStack == <<Adapter("raw", <<"num", "str">>), Adapter("callback_var", <<>>)>>

Blank    == [k \in Layers |-> "blank"]
Uncleared == [k \in Layers |-> "none"]
Cloned   == [k \in Layers |-> "clone"]
=============================================================================
