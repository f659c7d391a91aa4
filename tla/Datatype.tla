------------------------------ MODULE Datatype ------------------------------
(***************************************************************************)
(* The logical types of TileDB, the physical type under each, and the      *)
(* tables the library keeps about them (common/src/datatype).              *)
(*                                                                         *)
(* The tables are written out separately in the code, so they are here:    *)
(* nothing but TablesAgree makes them agree.  Physical values are          *)
(* numbered along bits_cmp; a float has both zeros and both NaNs.          *)
(***************************************************************************)
EXTENDS Integers, SequencesExt, FiniteSetsExt

PhysicalType == {"u8", "u16", "u32", "u64", "i8", "i16", "i32", "i64", "f32", "f64"}

SizeOf(T) == CASE T \in {"u8", "i8"} -> 1 [] T \in {"u16", "i16"} -> 2
               [] T \in {"u32", "i32", "f32"} -> 4 [] OTHER -> 8

\* The variants in the order of their C values, which count from 0.
Variants == <<"Int32", "Int64", "Float32", "Float64", "Char", "Int8", "UInt8", "Int16",
    "UInt16", "UInt32", "UInt64", "StringAscii", "StringUtf8", "StringUtf16", "StringUtf32",
    "StringUcs2", "StringUcs4", "Any", "DateTimeYear", "DateTimeMonth", "DateTimeWeek",
    "DateTimeDay", "DateTimeHour", "DateTimeMinute", "DateTimeSecond", "DateTimeMillisecond",
    "DateTimeMicrosecond", "DateTimeNanosecond", "DateTimePicosecond", "DateTimeFemtosecond",
    "DateTimeAttosecond", "TimeHour", "TimeMinute", "TimeSecond", "TimeMillisecond",
    "TimeMicrosecond", "TimeNanosecond", "TimePicosecond", "TimeFemtosecond",
    "TimeAttosecond", "Blob", "Boolean", "GeometryWkb", "GeometryWkt">>

Datatypes == ToSet(Variants)

to_ffi(dt) == CHOOSE i \in 0..(Len(Variants) - 1) : Variants[i + 1] = dt

try_from_ffi(n) == IF n < Len(Variants) THEN Variants[n + 1] ELSE "InvalidDiscriminant"
-----------------------------------------------------------------------------
is_datetime_type(dt) == dt \in {"DateTimeYear", "DateTimeMonth", "DateTimeWeek", "DateTimeDay",
    "DateTimeHour", "DateTimeMinute", "DateTimeSecond", "DateTimeMillisecond",
    "DateTimeMicrosecond", "DateTimeNanosecond", "DateTimePicosecond",
    "DateTimeFemtosecond", "DateTimeAttosecond"}

is_time_type(dt) == dt \in {"TimeHour", "TimeMinute", "TimeSecond", "TimeMillisecond",
    "TimeMicrosecond", "TimeNanosecond", "TimePicosecond", "TimeFemtosecond", "TimeAttosecond"}

is_integral_type(dt) == dt \in {"Boolean", "Int8", "Int16", "Int32", "Int64",
                                "UInt8", "UInt16", "UInt32", "UInt64"}

is_real_type(dt) == dt \in {"Float32", "Float64"}

is_string_type(dt) == dt \in {"StringAscii", "StringUtf8", "StringUtf16", "StringUtf32",
                              "StringUcs2", "StringUcs4"}

is_byte_type(dt) == dt \in {"Blob", "GeometryWkb", "GeometryWkt"}

\* LogicalType::PhysicalType of the type a macro binds for the datatype.
physical(dt) ==
    IF dt \in {"UInt8", "StringAscii", "StringUtf8", "Any", "Blob", "Boolean",
               "GeometryWkb", "GeometryWkt"} THEN "u8"
    ELSE IF dt \in {"UInt16", "StringUtf16", "StringUcs2"} THEN "u16"
    ELSE IF dt \in {"UInt32", "StringUtf32", "StringUcs4"} THEN "u32"
    ELSE IF dt = "UInt64" THEN "u64"
    ELSE IF dt \in {"Int8", "Char"} THEN "i8"
    ELSE IF dt = "Int16" THEN "i16"
    ELSE IF dt = "Int32" THEN "i32"
    ELSE IF dt = "Float32" THEN "f32"
    ELSE IF dt = "Float64" THEN "f64"
    ELSE "i64"    \* Int64, and every date and time

\* Mutant: the types are the 64-bit ones, but for the local times.
is_compatible_type_NoTimes(dt, T) ==
    IF is_time_type(dt) THEN FALSE ELSE physical(dt) = T

\* The table by physical type, written apart from the one above.
is_compatible_type(dt, T) ==
    CASE T = "f32" -> dt = "Float32"
      [] T = "f64" -> dt = "Float64"
      [] T = "i8"  -> dt \in {"Char", "Int8"}
      [] T = "u8"  -> dt \in {"Any", "Blob", "Boolean", "GeometryWkb", "GeometryWkt",
                              "StringAscii", "StringUtf8", "UInt8"}
      [] T = "i16" -> dt = "Int16"
      [] T = "u16" -> dt \in {"StringUtf16", "StringUcs2", "UInt16"}
      [] T = "i32" -> dt = "Int32"
      [] T = "u32" -> dt \in {"StringUtf32", "StringUcs4", "UInt32"}
      [] T = "i64" -> dt = "Int64" \/ dt \in {"DateTimeYear", "DateTimeMonth", "DateTimeWeek",
                         "DateTimeDay", "DateTimeHour", "DateTimeMinute", "DateTimeSecond",
                         "DateTimeMillisecond", "DateTimeMicrosecond", "DateTimeNanosecond",
                         "DateTimePicosecond", "DateTimeFemtosecond", "DateTimeAttosecond",
                         "TimeHour", "TimeMinute", "TimeSecond", "TimeMillisecond",
                         "TimeMicrosecond", "TimeNanosecond", "TimePicosecond",
                         "TimeFemtosecond", "TimeAttosecond"}
      [] T = "u64" -> dt = "UInt64"
      [] OTHER     -> FALSE

physical_type_go(dt, then(_)) == then(physical(dt))

size(dt) == physical_type_go(dt, SizeOf)

same_physical_type(dt, other) ==
    physical_type_go(dt, LAMBDA Mine : physical_type_go(other, LAMBDA Theirs : Mine = Theirs))

\* A name, in any case, is the string its datatype is shown as; {} for another string.
from_str(name) == {name} \cap Datatypes

\* Any is under every type, another only under itself.
datatype_option_subset(dt, other) == dt = "Any" \/ dt = other
-----------------------------------------------------------------------------
is_allowed_attribute_type_for_enumeration(dt) == is_integral_type(dt)

\* The bits of the largest key: DT::MAX as usize - 1 variants for an integer.  Those past
\* 16 are left out, no enumeration being as large.
KeyBits(dt) == LET T    == physical(dt)
                   bits == 8 * SizeOf(T) - (IF T \in {"i8", "i16", "i32", "i64"} THEN 1 ELSE 0)
               IN  IF bits > 16 THEN 16 ELSE bits

\* {} for None.
max_enumeration_variants(dt) ==
    IF dt = "Boolean" THEN {2}
    ELSE IF is_allowed_attribute_type_for_enumeration(dt) THEN {2 ^ KeyBits(dt) - 2}
    ELSE {}

is_allowed_dimension_type_dense(dt) ==
    dt # "Boolean" /\ (is_integral_type(dt) \/ is_datetime_type(dt) \/ is_time_type(dt))

is_allowed_dimension_type_sparse(dt) ==
    /\ dt # "Boolean"
    /\ \/ is_integral_type(dt) \/ is_datetime_type(dt) \/ is_time_type(dt)
       \/ dt \in {"Float32", "Float64", "StringAscii"}

\* The tables the strategies draw from.
DATATYPES == Datatypes \ {"Any"}

DENSE_DIMENSION_DATATYPES ==
    {"Int8", "Int16", "Int32", "Int64", "UInt8", "UInt16", "UInt32", "UInt64",
     "DateTimeYear", "DateTimeMonth", "DateTimeWeek", "DateTimeDay", "DateTimeHour",
     "DateTimeMinute", "DateTimeSecond", "DateTimeMillisecond", "DateTimeMicrosecond",
     "DateTimeNanosecond", "DateTimePicosecond", "DateTimeFemtosecond",
     "DateTimeAttosecond", "TimeHour", "TimeMinute", "TimeSecond", "TimeMillisecond",
     "TimeMicrosecond", "TimeNanosecond", "TimePicosecond", "TimeFemtosecond",
     "TimeAttosecond"}

SPARSE_DIMENSION_DATATYPES ==
    DENSE_DIMENSION_DATATYPES \cup {"Float32", "Float64", "StringAscii"}

DELTA_FILTER_REINTERPRET_DATATYPES ==
    DENSE_DIMENSION_DATATYPES
        \cup {"Any", "Float32", "Float64", "Boolean", "Blob", "GeometryWkb", "GeometryWkt"}

\* DatatypeContext of the strategy, and the datatypes it draws.
Drawn(context) ==
    CASE context = "Any"             -> Datatypes
      [] context = "NotAny"          -> Datatypes \ {"Any"}
      [] context = "DenseDimension"  -> DENSE_DIMENSION_DATATYPES
      [] context = "SparseDimension" -> SPARSE_DIMENSION_DATATYPES
      [] context = "DeltaFilterReinterpretDatatype" -> DELTA_FILTER_REINTERPRET_DATATYPES
      [] OTHER                       -> {context}   \* Fixed
-----------------------------------------------------------------------------
(* Values of a physical type compared by their bits. *)

Less == -1
Equal == 0
Greater == 1

bits_cmp(v, w) == IF v < w THEN Less ELSE IF v = w THEN Equal ELSE Greater

bits_eq(v, w) == v = w

\* Slices: the first difference decides, then the length.
slice_bits_eq(s, t) == Len(s) = Len(t) /\ \A i \in DOMAIN s : bits_eq(s[i], t[i])

slice_bits_cmp(s, t) ==
    LET differ == {i \in DOMAIN s \cap DOMAIN t : bits_cmp(s[i], t[i]) # Equal}
    IN  IF differ # {} THEN bits_cmp(s[Min(differ)], t[Min(differ)])
        ELSE bits_cmp(Len(s), Len(t))

\* {} if the assertion that the interval is not a point fails.
bits_clamp(v, min, max) ==
    IF bits_cmp(min, max) # Less THEN {}
    ELSE {IF bits_cmp(v, min) = Less THEN min ELSE IF bits_cmp(v, max) = Less THEN v ELSE max}

PhysicalValue(T, v) == [tag |-> T, value |-> v]

\* try_from a PhysicalValue: the variant is the type, or PhysicalTypeMismatch.
try_from_physical(T, p) == IF p.tag = T THEN {p.value} ELSE {}
-----------------------------------------------------------------------------
(***************************************************************************)
(* Properties.                                                             *)
(***************************************************************************)
\* The tables about one datatype agree: the physical type the macro binds is the one
\* compatible type, a dimension may be drawn of a type exactly if it may be made of it, and
\* the C value of a type names that type.
TablesAgree(dt) ==
    /\ {T \in PhysicalType : is_compatible_type(dt, T)} = {physical(dt)}
    /\ dt \in DENSE_DIMENSION_DATATYPES <=> is_allowed_dimension_type_dense(dt)
    /\ dt \in SPARSE_DIMENSION_DATATYPES <=> is_allowed_dimension_type_sparse(dt)
    /\ try_from_ffi(to_ffi(dt)) = dt
=============================================================================
