------------------------------ MODULE Filters ------------------------------
(***************************************************************************)
(* Filters and filter pipelines: the C filter made of a FilterData and the *)
(* FilterData read back from it (api/src/filter), what a filter makes of a *)
(* datatype (common/src/filter), and the pipelines the strategies of       *)
(* pod/src/filter draw.                                                    *)
(*                                                                         *)
(* Option<T> is a set of at most one element.  A C filter is [type,        *)
(* option]: the C value of its type and the values of its options.         *)
(***************************************************************************)
EXTENDS Datatype, TLC

CompressionType == {"Bzip2", "Dictionary", "Gzip", "Lz4", "Rle", "Zstd"}
DeltaType == {"Delta", "DoubleDelta"}

Plain(f) == [f |-> f]    \* None, BitShuffle, ByteShuffle, Xor, ChecksumMd5, ChecksumSha256
Windowed(f, max_window) == [f |-> f, max_window |-> max_window]
Compression(kind, reinterpret, level) ==
    [f |-> "Compression", kind |-> kind, reinterpret |-> reinterpret, level |-> level]
ScaleFloat(byte_width, factor, offset) ==
    [f |-> "ScaleFloat", byte_width |-> byte_width, factor |-> factor, offset |-> offset]
WebP(input_format, lossless, quality) ==
    [f |-> "WebP", input_format |-> input_format, lossless |-> lossless, quality |-> quality]

ByteWidths == <<"I8", "I16", "I32", "I64">>
width_to_ffi(w) == CASE w = "I8" -> 1 [] w = "I16" -> 2 [] w = "I32" -> 4 [] w = "I64" -> 8
width_from_ffi(n) == {w \in ToSet(ByteWidths) : width_to_ffi(w) = n}
output_datatype(w) == CASE w = "I8" -> "Int8" [] w = "I16" -> "Int16"
                        [] w = "I32" -> "Int32" [] w = "I64" -> "Int64"

Formats == <<"Rgb", "Bgr", "Rgba", "Bgra">>    \* from 1; 0 is no format
format_to_ffi(x) == CHOOSE i \in DOMAIN Formats : Formats[i] = x
format_from_ffi(n) == IF n \in DOMAIN Formats THEN {Formats[n]} ELSE {}
-----------------------------------------------------------------------------
(* The C filter. *)

\* By C value from 0; there is no 11, and 17 is deprecated.
FilterTypes == <<"None", "Gzip", "Zstd", "Lz4", "Rle", "Bzip2", "DoubleDelta",
    "BitWidthReduction", "BitShuffle", "ByteShuffle", "PositiveDelta", "", "ChecksumMd5",
    "ChecksumSha256", "Dictionary", "ScaleFloat", "Xor", "", "WebP", "Delta">>

FilterOptions == <<"CompressionLevel", "BitWidthMaxWindow", "PositiveDeltaMaxWindow",
    "ScaleFloatByteWidth", "ScaleFloatFactor", "ScaleFloatOffset", "WebPQuality",
    "WebPInputFormat", "WebPLossless", "CompressionReinterpretDatatype">>

\* The C value of a member of such a table, and the member of a C value.
code(table, x) == (CHOOSE i \in DOMAIN table : table[i] = x) - 1
decode(table, n) == IF n + 1 \in DOMAIN table /\ table[n + 1] # "" THEN {table[n + 1]} ELSE {}

filter_type_t(t) == code(FilterTypes, t)
filter_option_t(o) == code(FilterOptions, o)

filter_type(fd) == IF fd.f = "Compression" THEN fd.kind ELSE fd.f

\* The library fills in what is not set, whatever it is.
Default(o) ==
    CASE o = "ScaleFloatByteWidth" -> 8
      [] o = "WebPInputFormat" -> 0
      [] o = "CompressionReinterpretDatatype" -> to_ffi("Any")
      [] OTHER -> -1

\* Mutant: the type is asked of a Delta only.
Reinterprets_Delta(fd) == fd.kind = "Delta"

\* The kinds that reinterpret their input.
Reinterprets(fd) == fd.kind \in DeltaType

\* What create sets: <<option, C value>>.
Options(fd) ==
    LET some(o, v) == {<<o, x>> : x \in v}
    IN  CASE fd.f = "BitWidthReduction" -> some("BitWidthMaxWindow", fd.max_window)
          [] fd.f = "PositiveDelta"     -> some("PositiveDeltaMaxWindow", fd.max_window)
          [] fd.f = "Compression" ->
                 some("CompressionLevel", fd.level)
                   \cup (IF Reinterprets(fd)
                         THEN some("CompressionReinterpretDatatype",
                                   {to_ffi(dt) : dt \in fd.reinterpret})
                         ELSE {})
          [] fd.f = "ScaleFloat" ->
                 some("ScaleFloatByteWidth", {width_to_ffi(w) : w \in fd.byte_width})
                   \cup some("ScaleFloatFactor", fd.factor)
                   \cup some("ScaleFloatOffset", fd.offset)
          [] fd.f = "WebP" ->
                 some("WebPInputFormat", {format_to_ffi(fd.input_format)})
                   \cup some("WebPLossless", {IF l THEN 1 ELSE 0 : l \in fd.lossless})
                   \cup some("WebPQuality", fd.quality)
          [] OTHER -> {}

create(fd) ==
    [type   |-> filter_type_t(filter_type(fd)),
     option |-> [n \in 0..(Len(FilterOptions) - 1) |->
                   LET o   == FilterOptions[n + 1]
                       set == {x[2] : x \in {y \in Options(fd) : filter_option_t(y[1]) = n}}
                   IN  IF set = {} THEN Default(o) ELSE CHOOSE v \in set : TRUE]]

get_option(c, o) == c.option[filter_option_t(o)]

\* {} for an error: a type, width or format that is none.
filter_data(c) ==
    UNION {CASE t \in CompressionType ->
                   {Compression(t, {}, {get_option(c, "CompressionLevel")})}
             [] t \in DeltaType ->
                   {Compression(t, {dt}, {get_option(c, "CompressionLevel")}) :
                       dt \in {try_from_ffi(get_option(c, "CompressionReinterpretDatatype"))}
                                \ {"InvalidDiscriminant"}}
             [] t = "BitWidthReduction" -> {Windowed(t, {get_option(c, "BitWidthMaxWindow")})}
             [] t = "PositiveDelta" -> {Windowed(t, {get_option(c, "PositiveDeltaMaxWindow")})}
             [] t = "ScaleFloat" ->
                   {ScaleFloat({w}, {get_option(c, "ScaleFloatFactor")},
                               {get_option(c, "ScaleFloatOffset")}) :
                       w \in width_from_ffi(get_option(c, "ScaleFloatByteWidth"))}
             [] t = "WebP" ->
                   {WebP(x, {get_option(c, "WebPLossless") # 0}, {get_option(c, "WebPQuality")}) :
                       x \in format_from_ffi(get_option(c, "WebPInputFormat"))}
             [] OTHER -> {Plain(t)} :
           t \in decode(FilterTypes, c.type)}

filter_eq(c, d) == filter_data(c) # {} /\ filter_data(c) = filter_data(d)

\* A filter list keeps the order its filters are added in.
create_list(fds) == [i \in DOMAIN fds |-> create(fds[i])]

\* The data of the list, {} if one of its filters has none; and a list of that data, which
\* is how a list travels in the metadata of an Arrow field.
list_data(l) ==
    IF \E i \in DOMAIN l : filter_data(l[i]) = {} THEN {}
    ELSE {[i \in DOMAIN l |-> CHOOSE fd \in filter_data(l[i]) : TRUE]}

FilterMetadata(l) == {create_list(fds) : fds \in list_data(l)}

list_eq(l, m) == Len(l) = Len(m) /\ \A i \in DOMAIN l : filter_eq(l[i], m[i])

\* None is under everything; an enum is under its own variant, field by field.
option_subset(mine, theirs, under(_, _)) ==
    \A x \in mine : \E y \in theirs : under(x, y)

filter_option_subset(fd, other) ==
    /\ DOMAIN fd = DOMAIN other
    /\ \A x \in DOMAIN fd :
          CASE x = "reinterpret" -> option_subset(fd[x], other[x], datatype_option_subset)
            [] x \in {"f", "kind", "input_format"} -> fd[x] = other[x]
            [] OTHER -> option_subset(fd[x], other[x], LAMBDA a, b : a = b)
-----------------------------------------------------------------------------
(* What a filter makes of a datatype; {} if it does not accept it. *)

\* The types BitWidthReduction and PositiveDelta accept.
Reducible(dt) ==
    is_integral_type(dt) \/ is_datetime_type(dt) \/ is_time_type(dt) \/ is_byte_type(dt)

transform_datatype(fd, dt) ==
    CASE fd.f \in {"BitWidthReduction", "PositiveDelta"} -> IF Reducible(dt) THEN {dt} ELSE {}
      [] fd.f = "Compression" ->
             IF fd.reinterpret = {} THEN {dt} ELSE {to \in fd.reinterpret : ~is_real_type(to)}
      [] fd.f = "ScaleFloat" ->
             IF size(dt) \in {4, 8}
             THEN {output_datatype(w) : w \in IF fd.byte_width = {} THEN {"I64"} ELSE fd.byte_width}
             ELSE {}
      [] fd.f = "WebP" -> IF dt = "UInt8" THEN {dt} ELSE {}
      [] fd.f = "Xor"  -> CASE size(dt) = 1 -> {"Int8"} [] size(dt) = 2 -> {"Int16"}
                            [] size(dt) = 4 -> {"Int32"} [] size(dt) = 8 -> {"Int64"}
                            [] OTHER -> {}
      [] OTHER -> {dt}
-----------------------------------------------------------------------------
(* The strategies.  Requirements are [input: Option<Datatype>, context,    *)
(* position: Option<usize>, allow: the filters allowed]; a dimension of a  *)
(* context's domain is [datatype, cvn, extent, filtered]: cvn 0 is Var,    *)
(* extent is None where there is none, filtered if its filter list is not  *)
(* empty.                                                                  *)

begins_pipeline(req) == req.position \in {{}, {0}}

pipeline_input_datatypes(context) ==
    CASE context.c = "none" -> {}
      [] context.c = "SchemaCoordinates" -> {<<d.datatype, d.cvn>> : d \in ToSet(context.domain)}
      [] OTHER -> {<<context.datatype, context.cvn>>}

is_rle_viable(req) ==
    /\ "rle" \in req.allow
    /\ \/ begins_pipeline(req)
       \/ \A x \in pipeline_input_datatypes(req.context) : ~(x[2] = 0 /\ is_string_type(x[1]))

\* Random values by the ends of their ranges.
Windows == {8, 1024}
Levels  == {1, 9}
Quality == {0, 100}

validate_type(input, to) ==
    /\ ~is_real_type(to)
    /\ \A dt \in input : /\ ~(is_real_type(dt) /\ to = "Any")
                         /\ size(dt) % size(to) = 0

TryDelta(req) ==
    /\ "delta" \in req.allow
    /\ begins_pipeline(req)
    /\ req.context.c = "SchemaCoordinates" =>
          \A d \in ToSet(req.context.domain) : ~(is_real_type(d.datatype) /\ ~d.filtered)

prop_compression(req) ==
    LET kinds == {"Bzip2", "Gzip", "Lz4", "Zstd"}
                 \cup (IF is_rle_viable(req) THEN {"Rle"} ELSE {})
                 \cup (IF "dict" \in req.allow /\ is_rle_viable(req) THEN {"Dictionary"} ELSE {})
        delta == {dt \in Drawn("DeltaFilterReinterpretDatatype") : validate_type(req.input, dt)}
    IN  {Compression(k, {}, {l}) : k \in kinds, l \in Levels}
        \cup (IF TryDelta(req)
              THEN UNION {{Compression(k, {dt}, {l}) : k \in DeltaType, l \in Levels} : dt \in delta}
              ELSE {})

MaxExtent == 16383

\* Formats the second dimension's extent leaves: a pixel of three or of four values.
WebPFormats(extent) ==
    UNION {{x \in ToSet(Formats) : LET depth == IF x \in {"Rgb", "Bgr"} THEN 3 ELSE 4
                                   IN  e \div depth <= MaxExtent /\ e % depth = 0} : e \in extent}

prop_webp(req) ==
    IF /\ "webp" \in req.allow
       /\ req.context.c = "SchemaAttribute"
       /\ req.context.datatype = "UInt8" /\ req.input = {"UInt8"}
       /\ req.context.array_type # "Sparse"
       /\ Len(req.context.domain) = 2
       /\ is_integral_type(req.context.domain[1].datatype)
       /\ req.context.domain[1].datatype = req.context.domain[2].datatype
       /\ \E e \in req.context.domain[1].extent : e <= MaxExtent
    THEN UNION {{WebP(x, {l}, {q}) : l \in BOOLEAN, q \in Quality} :
                   x \in WebPFormats(req.context.domain[2].extent)}
    ELSE {}

\* Mutant: the input is not asked.
ok_positive_delta_Any(req) == "positive_delta" \in req.allow

ok_positive_delta(req) ==
    "positive_delta" \in req.allow /\ \A dt \in req.input : Reducible(dt)

prop_filter(req) ==
    LET accepts(P(_)) == \A dt \in req.input : P(dt)
        when(b, fs)   == IF b THEN fs ELSE {}
    IN  {Plain("ChecksumMd5"), Plain("ChecksumSha256")}
        \cup when("bit_reduction" \in req.allow /\ accepts(Reducible),
                  {Windowed("BitWidthReduction", w) : w \in {{}} \cup {{x} : x \in Windows}})
        \cup when("bit_shuffle" \in req.allow, {Plain("BitShuffle")})
        \cup when("byte_shuffle" \in req.allow, {Plain("ByteShuffle")})
        \cup when(ok_positive_delta(req),
                  {Windowed("PositiveDelta", {w}) : w \in Windows})
        \cup prop_compression(req)
        \cup when("scale_float" \in req.allow /\ begins_pipeline(req)
                    /\ accepts(LAMBDA dt : size(dt) \in {4, 8}),
                  {ScaleFloat({w}, {1}, {0}) : w \in ToSet(ByteWidths)})
        \cup prop_webp(req)
        \cup when("xor" \in req.allow /\ accepts(LAMBDA dt : size(dt) \in {1, 2, 4, 8}),
                  {Plain("Xor")})

AllAllowed == {"bit_reduction", "bit_shuffle", "byte_shuffle", "positive_delta", "scale_float",
               "xor", "rle", "dict", "delta", "webp"}

MaxFilters == 4

\* One round of new_tree: a filter for the input, and the requirements of the next round.
Draws(req) ==
    {<<f, [req EXCEPT !.input = UNION {transform_datatype(f, dt) : dt \in req.input},
                      !.position = {p + 1 : p \in req.position}]>> : f \in prop_filter(req)}
-----------------------------------------------------------------------------
(***************************************************************************)
(* Properties.                                                             *)
(***************************************************************************)
\* Each filter a strategy draws is read back from the C filter with all that was asked of
\* it: create and filter_data name the same options of the same type.  A list is itself
\* again after a trip through Arrow's metadata.
DrawnFiltersReturn(req) ==
    \A f \in prop_filter(req) :
        /\ \E g \in filter_data(create(f)) : filter_option_subset(f, g)
        /\ LET l == create_list(<<Plain("BitShuffle"), f>>)
           IN  \E m \in FilterMetadata(l) : list_eq(m, l)

\* A pipeline has a type at each position: what a strategy draws there accepts what the
\* filters before it make ("If the transformed datatype is None then we have a bug").
PipelineTransforms(req) == req.input # {}
=============================================================================
