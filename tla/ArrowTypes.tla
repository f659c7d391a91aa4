----------------------------- MODULE ArrowTypes -----------------------------
(***************************************************************************)
(* Datatypes and cell value numbers as Arrow types, and back               *)
(* (common/src/datatype/arrow.rs).                                         *)
(*                                                                         *)
(* An Arrow type is a record with its name in "type"; time types have a    *)
(* "unit", lists an "item" type, its "nullable" and its "hint": the        *)
(* datatype in the item's metadata, or "none".  CellValNum is a number of  *)
(* values per cell, or Var.  A result has the kind "Exact", "Inexact" or   *)
(* "None", of which the types are left out.                                *)
(***************************************************************************)
EXTENDS Datatype

Var == 0    \* CellValNum::Var; Fixed(n) is n > 0

Arrow(type) == [type |-> type]
Timed(type, unit) == [type |-> type, unit |-> unit]
FixedSizeBinary(n) == [type |-> "FixedSizeBinary", len |-> n]
Item(arrow, hint) == [arrow |-> arrow, nullable |-> FALSE, hint |-> hint]
FixedSizeList(item, n) == [type |-> "FixedSizeList", item |-> item, len |-> n]
LargeList(item) == [type |-> "LargeList", item |-> item]

Exact(r) == [kind |-> "Exact", is |-> r]
Inexact(r) == [kind |-> "Inexact", is |-> r]
None == [kind |-> "None"]

is_exact(res) == res.kind = "Exact"
is_inexact(res) == res.kind = "Inexact"

\* Of arrow_schema: the width of the primitive types, 0 for the others.
primitive_width(arrow) ==
    CASE arrow.type \in {"Int8", "UInt8"} -> 1
      [] arrow.type \in {"Int16", "UInt16", "Float16"} -> 2
      [] arrow.type \in {"Int32", "UInt32", "Float32", "Date32", "Time32"} -> 4
      [] arrow.type \in {"Int64", "UInt64", "Float64", "Timestamp", "Date64", "Time64",
                         "Duration"} -> 8
      [] OTHER -> 0
-----------------------------------------------------------------------------

\* One value per cell: Arrow has a type of the same meaning and width, or only the width.
to_arrow_single(dt) ==
    CASE dt \in {"Int8", "Int16", "Int32", "Int64", "UInt8", "UInt16", "UInt32", "UInt64",
                 "Float32", "Float64"}   -> Exact(Arrow(dt))
      [] dt = "DateTimeSecond"           -> Exact(Timed("Timestamp", "Second"))
      [] dt = "DateTimeMillisecond"      -> Exact(Timed("Timestamp", "Millisecond"))
      [] dt = "DateTimeMicrosecond"      -> Exact(Timed("Timestamp", "Microsecond"))
      [] dt = "DateTimeNanosecond"       -> Exact(Timed("Timestamp", "Nanosecond"))
      [] dt = "TimeMicrosecond"          -> Exact(Timed("Time64", "Microsecond"))
      [] dt = "TimeNanosecond"           -> Exact(Timed("Time64", "Nanosecond"))
      [] dt = "Char"                     -> Inexact(Arrow("Int8"))
      [] dt \in {"StringAscii", "StringUtf8", "Blob", "Boolean", "GeometryWkb",
                 "GeometryWkt", "Any"}   -> Inexact(Arrow("UInt8"))
      [] dt \in {"StringUtf16", "StringUcs2"} -> Inexact(Arrow("UInt16"))
      [] dt \in {"StringUtf32", "StringUcs4"} -> Inexact(Arrow("UInt32"))
      [] OTHER                           -> Inexact(Arrow("Int64"))

\* Mutant: the list forgets what its items were.
ListItem_NoHint(dt) == Item(to_arrow_single(dt).is, "none")

\* The item of a list of the datatype, with a hint if the item alone is inexact.
ListItem(dt) ==
    LET single == to_arrow_single(dt)
    IN  Item(single.is, IF is_inexact(single) THEN dt ELSE "none")

\* unimplemented!() for more than i32::MAX values per cell, which are left out.
to_arrow(dt, cvn) ==
    CASE cvn = 1   -> to_arrow_single(dt)
      [] cvn = Var -> IF dt = "Blob" THEN Exact(Arrow("LargeBinary"))
                      ELSE Exact(LargeList(ListItem(dt)))
      [] OTHER     -> IF dt = "Blob" THEN Exact(FixedSizeBinary(cvn))
                      ELSE Exact(FixedSizeList(ListItem(dt), cvn))
-----------------------------------------------------------------------------
\* The types that are no list: a pair of a datatype and a CellValNum.
from_arrow_item(arrow) ==
    CASE arrow.type \in {"Int8", "Int16", "Int32", "Int64", "UInt8", "UInt16", "UInt32",
                         "UInt64", "Float32", "Float64"}  -> Exact(<<arrow.type, 1>>)
      [] arrow.type = "Float16"                           -> Inexact(<<"UInt16", 1>>)
      [] arrow.type = "Timestamp" /\ arrow.unit = "Second"      -> Exact(<<"DateTimeSecond", 1>>)
      [] arrow.type = "Timestamp" /\ arrow.unit = "Millisecond" -> Exact(<<"DateTimeMillisecond", 1>>)
      [] arrow.type = "Timestamp" /\ arrow.unit = "Microsecond" -> Exact(<<"DateTimeMicrosecond", 1>>)
      [] arrow.type = "Timestamp" /\ arrow.unit = "Nanosecond"  -> Exact(<<"DateTimeNanosecond", 1>>)
      [] arrow.type \in {"Date32", "Time32"}              -> Inexact(<<"Int32", 1>>)
      [] arrow.type = "Date64"                            -> Inexact(<<"DateTimeMillisecond", 1>>)
      [] arrow.type = "Time64" /\ arrow.unit = "Microsecond" -> Exact(<<"TimeMicrosecond", 1>>)
      [] arrow.type = "Time64" /\ arrow.unit = "Nanosecond"  -> Exact(<<"TimeNanosecond", 1>>)
      [] arrow.type = "Time64" /\ arrow.unit \in {"Second", "Millisecond"} -> Inexact(<<"UInt64", 1>>)
      [] arrow.type = "LargeBinary"                       -> Exact(<<"Blob", Var>>)
      [] arrow.type = "LargeUtf8"                         -> Inexact(<<"StringUtf8", Var>>)
      [] arrow.type = "FixedSizeBinary" -> IF arrow.len > 0 THEN Exact(<<"Blob", arrow.len>>) ELSE None
      [] OTHER                                            -> None

\* Lists: of primitive items that are not nullable, the hint before the item's type.
from_arrow(arrow) ==
    IF arrow.type \notin {"FixedSizeList", "LargeList"} THEN from_arrow_item(arrow)
    ELSE LET cvn  == IF arrow.type = "LargeList" THEN Var ELSE arrow.len
             item == from_arrow_item(arrow.item.arrow)
         IN  IF \/ arrow.type = "FixedSizeList" /\ arrow.len <= 0
                \/ arrow.item.nullable \/ primitive_width(arrow.item.arrow) = 0 THEN None
             ELSE IF from_str(arrow.item.hint) # {} THEN Exact(<<arrow.item.hint, cvn>>)
             ELSE IF item = None THEN None
             ELSE [item EXCEPT !.is = <<item.is[1], cvn>>]

\* What an inexact conversion must keep of the type it came from.
is_physical_type_match(in, out) ==
    LET items(a, b) == a = b \/ (primitive_width(a) > 0 /\ primitive_width(a) = primitive_width(b))
    IN  \/ items(in, out)
        \/ in.type = "FixedSizeList" /\ out.type = "FixedSizeList"
           /\ in.len = out.len /\ items(in.item.arrow, out.item.arrow)
        \/ in.type = "LargeList" /\ out.type = "LargeList" /\ items(in.item.arrow, out.item.arrow)
        \/ in.type = "FixedSizeList" /\ in.len = 1 /\ items(in.item.arrow, out)
        \/ in.type = "LargeUtf8" /\ out.type = "LargeList"
           /\ out.item.arrow = Arrow("UInt8") /\ ~out.item.nullable
-----------------------------------------------------------------------------
(***************************************************************************)
(* Properties.                                                             *)
(***************************************************************************)
\* A datatype comes back from Arrow: the same one if the conversion calls itself exact,
\* else one of the same physical width; the cell value number always.
DatatypeRoundTrip(dt, cvn) ==
    LET there == to_arrow(dt, cvn)
        back  == from_arrow(there.is)
    IN  /\ back # None
        /\ back.is[2] = cvn
        /\ IF is_exact(there) THEN is_exact(back) /\ back.is[1] = dt
           ELSE size(back.is[1]) = size(dt) /\ primitive_width(there.is) = size(dt)

\* An Arrow type comes back from TileDB: the same one if the conversion calls itself
\* exact, else one of the same physical shape.  A list of one per cell comes back as its
\* item, and a binary of one byte as that byte: TileDB has no lists of one.
ArrowRoundTripsType(arrow) ==
    LET there == from_arrow(arrow)
        back  == to_arrow(there.is[1], there.is[2])
    IN  IF there = None THEN TRUE
        ELSE IF is_inexact(there) THEN is_physical_type_match(arrow, back.is)
        ELSE CASE arrow.type = "FixedSizeList" /\ arrow.len = 1 -> back.is = arrow.item.arrow
               [] arrow = FixedSizeBinary(1)                    -> back.is = Arrow("UInt8")
               [] OTHER -> is_exact(back) /\ back.is = arrow
=============================================================================
