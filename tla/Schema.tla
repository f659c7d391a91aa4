------------------------------- MODULE Schema -------------------------------
(***************************************************************************)
(* Attributes, enumerations and array schemas: the C schema made of a      *)
(* SchemaData and the SchemaData read back from it (api/src/array/schema   *)
(* and the modules it uses), the lookup of its fields, and the schemas the *)
(* strategy of pod/src/array/schema draws.                                 *)
(*                                                                         *)
(* A builder's call gives a set, {} if the C library refuses; Option<T> is *)
(* a set of at most one element.                                           *)
(***************************************************************************)
EXTENDS Dimensions

\* The C states of a builder after a call on each, if there is something to call with.
Step(S, call(_)) == UNION {call(c) : c \in S}
IfSome(S, option, call(_, _)) ==
    IF option = {} THEN S ELSE UNION {call(c, v) : c \in S, v \in option}
ForEach(S, seq, call(_, _)) == FoldLeft(LAMBDA T, x : UNION {call(c, x) : c \in T}, S, seq)

\* Every element at its first place.
unique(seq) == FoldLeft(LAMBDA s, x : IF x \in ToSet(s) THEN s ELSE Append(s, x), <<>>, seq)
-----------------------------------------------------------------------------
(* Attributes: [name, datatype, nullability, cvn, fill, filters, enumeration], fill being *)
(* [type, values, nullability]; the C attribute's fill is [values, valid].                *)

Unfilled(cvn) == [values |-> [i \in 1..(IF cvn = CellValNumVar THEN 1 ELSE cvn) |-> 0], valid |-> FALSE]

attribute_alloc(name, dt) ==
    LET cvn == IF dt = "Any" THEN CellValNumVar ELSE 1
    IN  [name |-> name, type |-> dt, nullable |-> FALSE, cvn |-> cvn, fill |-> Unfilled(cvn),
         filters |-> <<>>, enumeration |-> {}]

\* The library forgets the fill value here.
set_cell_val_num(c, cvn) ==
    IF c.type = "Any" THEN {} ELSE {[c EXCEPT !.cvn = cvn, !.fill = Unfilled(cvn)]}

Fits(c, values) == values # <<>> /\ (c.cvn # CellValNumVar => Len(values) = c.cvn)
set_fill_value(c, values) ==
    IF c.nullable \/ ~Fits(c, values) THEN {} ELSE {[c EXCEPT !.fill.values = values]}
set_fill_value_nullable(c, values, valid) ==
    IF ~c.nullable \/ ~Fits(c, values) THEN {} ELSE {[c EXCEPT !.fill = [values |-> values, valid |-> valid]]}

fill_value(c, fill) ==
    IF ~is_compatible_type(c.type, fill.type) THEN {} ELSE set_fill_value(c, fill.values)

fill_value_nullability(c, fill, valid) ==
    IF ~c.nullable /\ ~valid THEN fill_value(c, fill)
    ELSE IF ~is_compatible_type(c.type, fill.type) THEN {}
    ELSE set_fill_value_nullable(c, fill.values, valid)

SetFill(c, fill) ==
    IF fill.nullability = {} THEN fill_value(c, fill)
    ELSE UNION {fill_value_nullability(c, fill, valid) : valid \in fill.nullability}

attribute_create(a) ==
    LET new      == {[attribute_alloc(a.name, a.datatype) EXCEPT !.filters = create_list(a.filters)]}
        nullable == IfSome(new, a.nullability, LAMBDA c, n : {[c EXCEPT !.nullable = n]})
        sized    == IfSome(nullable, IF a.datatype = "Any" THEN a.cvn \ {CellValNumVar} ELSE a.cvn,
                           set_cell_val_num)
        filled   == IfSome(sized, a.fill, SetFill)
    IN  IfSome(filled, a.enumeration, LAMBDA c, e : {[c EXCEPT !.enumeration = {e}]})

\* The fill value and whether it is valid, of a nullable attribute.
fill_value_nullable(c) == [values |-> c.fill.values, valid |-> c.nullable /\ c.fill.valid]

attribute_data(c) ==
    {[name |-> c.name, datatype |-> c.type, nullability |-> {c.nullable}, cvn |-> {c.cvn},
      fill |-> {[type |-> physical(c.type), values |-> fill_value_nullable(c).values,
                 nullability |-> {fill_value_nullable(c).valid}]},
      filters |-> fs, enumeration |-> c.enumeration] : fs \in list_data(c.filters)}

\* The enumeration is not looked at.
attribute_eq(c, d) ==
    /\ c.name = d.name /\ c.type = d.type /\ c.nullable = d.nullable /\ c.cvn = d.cvn
    /\ list_eq(c.filters, d.filters)
    /\ fill_value_nullable(c) = fill_value_nullable(d)

SomeEqual(mine, theirs) == option_subset(mine, theirs, LAMBDA x, y : x = y)
Pairwise(s, t, under(_, _)) == Len(s) = Len(t) /\ \A i \in DOMAIN s : under(s[i], t[i])

attribute_option_subset(a, b) ==
    /\ a.name = b.name /\ datatype_option_subset(a.datatype, b.datatype)
    /\ SomeEqual(a.nullability, b.nullability) /\ SomeEqual(a.cvn, b.cvn)
    /\ option_subset(a.fill, b.fill, LAMBDA x, y : /\ x.type = y.type /\ x.values = y.values
                                                   /\ SomeEqual(x.nullability, y.nullability))
    /\ Pairwise(a.filters, b.filters, filter_option_subset)
    /\ SomeEqual(a.enumeration, b.enumeration)
-----------------------------------------------------------------------------
(* Enumerations: [name, datatype, cvn, ordered, data, offsets], data and offsets in bytes. *)

FixedWidth(e) == size(e.datatype) * (IF e.cvn = {} THEN 1 ELSE CHOOSE n \in e.cvn : TRUE)

num_variants(e) ==
    IF e.offsets # {} THEN Len(CHOOSE o \in e.offsets : TRUE) ELSE Len(e.data) \div FixedWidth(e)

\* The bytes of each variant; the last reaches to the end of the data.
records(e) ==
    IF e.offsets = {} THEN [i \in 1..num_variants(e) |->
                              SubSeq(e.data, (i - 1) * FixedWidth(e) + 1, i * FixedWidth(e))]
    ELSE LET o == CHOOSE x \in e.offsets : TRUE
         IN  [i \in DOMAIN o |-> SubSeq(e.data, o[i] + 1, IF i = Len(o) THEN Len(e.data) ELSE o[i + 1])]

\* <<data, offsets>>; {} if the length of no variants at all underflows.
variants_from_records(cvn, variants) ==
    LET data == FlattenSeq(variants)
        ends == FoldLeft(LAMBDA o, v : Append(o, Last(o) + Len(v)), <<0>>, variants)
    IN  IF cvn # CellValNumVar THEN {<<data, {}>>}
        ELSE IF variants = <<>> THEN {} ELSE {<<data, {Front(ends)}>>}

\* The variants are different, and of the width the number of values says.
enumeration_build(name, dt, cvn, ordered, data, offsets) ==
    LET e == [name |-> name, datatype |-> dt, cvn |-> {cvn}, ordered |-> {ordered},
              data |-> data, offsets |-> offsets]
    IN  IF \/ (cvn = CellValNumVar) # (offsets # {})
           \/ cvn # CellValNumVar /\ Len(data) % FixedWidth(e) # 0
           \/ ~IsInjective(records(e)) THEN {}
        ELSE {e}

enumeration_create(e) ==
    enumeration_build(e.name, e.datatype, IF e.cvn = {} THEN 1 ELSE CHOOSE n \in e.cvn : TRUE,
                      e.ordered = {TRUE}, e.data, e.offsets)

enumeration_data(c) == c

\* The variants given come behind those there are.
enumeration_extend(c, data, offsets) ==
    IF (offsets = {}) # (c.offsets = {}) THEN {}
    ELSE enumeration_build(c.name, c.datatype, CHOOSE n \in c.cvn : TRUE, c.ordered = {TRUE},
             c.data \o data,
             {o \o [i \in DOMAIN p |-> p[i] + Len(c.data)] : o \in c.offsets, p \in offsets})

enumeration_eq(c, d) == c = d

enumeration_option_subset(e, f) ==
    /\ e.name = f.name /\ datatype_option_subset(e.datatype, f.datatype)
    /\ SomeEqual(e.cvn, f.cvn) /\ SomeEqual(e.ordered, f.ordered)
    /\ e.data = f.data /\ SomeEqual(e.offsets, f.offsets)

\* Sets an enumeration if the attribute's values can be its keys.
try_set_enumeration(a, e) ==
    LET most == max_enumeration_variants(a.datatype)
    IN  IF a.cvn \notin {{}, {1}} \/ \A m \in most : m < num_variants(e) THEN a
        ELSE [a EXCEPT !.enumeration = {e.name}]
\* Values below 256 as the bytes of a datatype.
Bytes(dt, values) == FlattenSeq([i \in DOMAIN values |-> <<values[i]>> \o [j \in 1..(size(dt) - 1) |-> 0]])

Below(v, w) == \/ IsPrefix(v, w) /\ v # w
               \/ \E i \in DOMAIN v \cap DOMAIN w :
                     v[i] < w[i] /\ \A j \in 1..(i - 1) : v[j] = w[j]

\* Mutant: sorted, but not freed of duplicates.
to_enumeration_values_Sorted(drawn) == SortSeq(drawn, Below)

to_enumeration_values(drawn) == SetToSortSeq(ToSet(drawn), Below)

\* The enumeration of the variants drawn, each a sequence of values.
prop_enumeration(name, dt, cvn, drawn) ==
    LET variants == to_enumeration_values(drawn)
        starts   == [i \in DOMAIN variants |-> Len(FlattenSeq(SubSeq(variants, 1, i - 1)))]
    IN  [name |-> name, datatype |-> dt, cvn |-> {cvn}, ordered |-> {FALSE},
         data |-> Bytes(dt, FlattenSeq(variants)),
         offsets |-> IF cvn # CellValNumVar THEN {} ELSE {[i \in DOMAIN variants |-> starts[i] * size(dt)]}]

\* The value tree with some of the variants.
enumeration_current(e, selected) ==
    {[e EXCEPT !.data = d[1], !.offsets = d[2]] :
        d \in UNION {variants_from_records(cvn, Selected(records(e), selected)) : cvn \in e.cvn}}

\* The datatypes of attributes that can be its keys.
key_datatypes(e) == {dt \in Datatypes : \E most \in max_enumeration_variants(dt) : num_variants(e) <= most}
-----------------------------------------------------------------------------
(* Schemas. *)

\* C values of an order: the place in the table, from 0.
CellOrders == <<"RowMajor", "ColumnMajor", "Global", "Unordered", "Hilbert">>
TileOrders == <<"RowMajor", "ColumnMajor">>
ArrayTypes == <<"Dense", "Sparse">>

\* What the strategy draws as a cell order of an array of the type.
DrawnCellOrders(array_type) ==
    {"RowMajor", "ColumnMajor"} \cup (IF array_type = "Sparse" THEN {"Hilbert"} ELSE {})

\* The library's own filters of coordinates, offsets and validity.
LibraryFilters == create_list(<<Plain("BitShuffle")>>)

schema_alloc(array_type) ==
    [array_type |-> code(ArrayTypes, array_type), domain |-> <<>>, capacity |-> 10000,
     cell_order |-> 0, tile_order |-> 0, dups |-> FALSE, attributes |-> <<>>,
     enumerations |-> <<>>, coords |-> LibraryFilters, offsets |-> LibraryFilters,
     nullity |-> LibraryFilters]

IsDense(c) == decode(ArrayTypes, c.array_type) = {"Dense"}

set_domain(c, domain) ==
    LET types == {domain[i].type : i \in DOMAIN domain}
    IN  IF IsDense(c) /\ (Cardinality(types) # 1 \/ \E dt \in types : ~is_allowed_dimension_type_dense(dt))
        THEN {} ELSE {[c EXCEPT !.domain = domain]}
set_allows_dups(c, dups) == IF dups /\ IsDense(c) THEN {} ELSE {[c EXCEPT !.dups = dups]}
set_capacity(c, n) == IF n = 0 THEN {} ELSE {[c EXCEPT !.capacity = n]}
set_cell_order(c, order) ==
    IF order = "Unordered" \/ (order = "Hilbert" /\ IsDense(c)) THEN {}
    ELSE {[c EXCEPT !.cell_order = code(CellOrders, order)]}
set_tile_order(c, order) == {[c EXCEPT !.tile_order = code(TileOrders, order)]}
add_enumeration(c, e) ==
    IF e.name \in {c.enumerations[i].name : i \in DOMAIN c.enumerations} THEN {}
    ELSE {[c EXCEPT !.enumerations = Append(@, e)]}
add_attribute(c, a) ==
    IF \/ a.name \in {c.attributes[i].name : i \in DOMAIN c.attributes}
       \/ ~(a.enumeration \subseteq {c.enumerations[i].name : i \in DOMAIN c.enumerations}) THEN {}
    ELSE {[c EXCEPT !.attributes = Append(@, a)]}
schema_check(c) ==
    LET names == [i \in DOMAIN c.domain |-> c.domain[i].name] \o [i \in DOMAIN c.attributes |-> c.attributes[i].name]
    IN  IF c.attributes = <<>> \/ ~IsInjective(names) THEN {} ELSE {c}

AddEnumerations(S, s) == ForEach(S, s.enumerations, LAMBDA c, e : Step(enumeration_create(e), LAMBDA x : add_enumeration(c, x)))
AddAttributes(S, s) == ForEach(S, s.attributes, LAMBDA c, a : Step(attribute_create(a), LAMBDA x : add_attribute(c, x)))

\* Mutant: attributes before the enumerations they refer to.
AddParts_AttributesFirst(S, s) == AddEnumerations(AddAttributes(S, s), s)

AddParts(S, s) == AddAttributes(AddEnumerations(S, s), s)

\* Builder::new and the calls on it.  The lists are set also if they are empty.
schema_create(s) ==
    LET new      == Step(domain_create(s.domain), LAMBDA d : set_domain(schema_alloc(s.array_type), d))
        filtered == {[c EXCEPT !.coords = create_list(s.coords), !.offsets = create_list(s.offsets),
                               !.nullity = create_list(s.nullity)] : c \in new}
        parts    == AddParts(filtered, s)
        options  == IfSome(IfSome(IfSome(IfSome(parts, s.capacity, set_capacity),
                        s.dups, set_allows_dups), s.cell_order, set_cell_order),
                        s.tile_order, set_tile_order)
    IN  Step(options, schema_check)

\* The enumeration of a name.
schema_enumeration(c, name) == {e \in ToSet(c.enumerations) : e.name = name}

\* The enumerations attributes refer to, in the order they do.
enumerations(c) ==
    LET names == unique(FlattenSeq([i \in DOMAIN c.attributes |-> SetToSeq(c.attributes[i].enumeration)]))
    IN  All([i \in DOMAIN names |-> schema_enumeration(c, names[i])])

schema_data(c) ==
    {[array_type |-> CHOOSE t \in decode(ArrayTypes, c.array_type) : TRUE, domain |-> d,
      capacity |-> {c.capacity}, cell_order |-> decode(CellOrders, c.cell_order),
      tile_order |-> decode(TileOrders, c.tile_order), dups |-> {c.dups}, attributes |-> as,
      enumerations |-> es, coords |-> fs, offsets |-> os, nullity |-> ns] :
        d \in domain_data(c.domain), es \in enumerations(c),
        as \in All([i \in DOMAIN c.attributes |-> attribute_data(c.attributes[i])]),
        fs \in list_data(c.coords), os \in list_data(c.offsets), ns \in list_data(c.nullity)}

schema_eq(c, d) ==
    /\ c.array_type = d.array_type /\ c.capacity = d.capacity /\ c.dups = d.dups
    /\ c.cell_order = d.cell_order /\ c.tile_order = d.tile_order
    /\ list_eq(c.coords, d.coords) /\ list_eq(c.offsets, d.offsets) /\ list_eq(c.nullity, d.nullity)
    /\ Pairwise(c.attributes, d.attributes, attribute_eq)
    /\ domain_eq(c.domain, d.domain)

schema_option_subset(s, t) ==
    /\ s.array_type = t.array_type /\ SomeEqual(s.capacity, t.capacity) /\ SomeEqual(s.dups, t.dups)
    /\ SomeEqual(s.cell_order, t.cell_order) /\ SomeEqual(s.tile_order, t.tile_order)
    /\ Pairwise(s.domain, t.domain, LAMBDA d, e :
            /\ d.name = e.name /\ datatype_option_subset(d.datatype, e.datatype)
            /\ d.constraints = e.constraints
            /\ option_subset(d.filters, e.filters, LAMBDA f, g : Pairwise(f, g, filter_option_subset)))
    /\ Pairwise(s.attributes, t.attributes, attribute_option_subset)
    /\ Pairwise(s.enumerations, t.enumerations, enumeration_option_subset)
    /\ Pairwise(s.coords, t.coords, filter_option_subset)
    /\ Pairwise(s.offsets, t.offsets, filter_option_subset)
    /\ Pairwise(s.nullity, t.nullity, filter_option_subset)
\* {} for a dense domain of which it is not known (an unwrap).
schema_cells_per_tile(s) ==
    IF s.array_type = "Dense" THEN num_cells_per_tile(s.domain)
    ELSE IF s.capacity = {} THEN {10000} ELSE s.capacity
-----------------------------------------------------------------------------
(* Fields: a dimension or an attribute, looked up by index or name. *)

attribute(c, k) ==
    IF k.by = "index" THEN {c.attributes[i] : i \in DOMAIN c.attributes \cap {k.key + 1}}
    ELSE {a \in ToSet(c.attributes) : a.name = k.key}

\* Of the C schema: a name is first looked for among the dimensions.
field(c, k) ==
    LET n == Len(c.domain)
        isdim == IF k.by = "index" THEN k.key < n ELSE has_dimension(c.domain, k)
    IN  IF isdim THEN {[kind |-> "Dimension", field |-> d] : d \in dimension(c.domain, k)}
        ELSE {[kind |-> "Attribute", field |-> a] :
                a \in attribute(c, IF k.by = "index" THEN Index(k.key - n) ELSE k)}

\* Mutant: behind the dimensions, one attribute too far.
data_field_Next(s, k) ==
    LET all == [i \in DOMAIN s.domain |-> [kind |-> "Dimension", field |-> s.domain[i]]]
               \o [i \in DOMAIN s.attributes |-> [kind |-> "Attribute", field |-> s.attributes[i]]]
    IN  {all[i] : i \in IF k.by = "index" THEN {k.key + 2} \cap DOMAIN all
                        ELSE {j \in DOMAIN all : all[j].field.name = k.key}}

\* Of the SchemaData: the first of the name.
data_field(s, k) ==
    LET all == [i \in DOMAIN s.domain |-> [kind |-> "Dimension", field |-> s.domain[i]]]
               \o [i \in DOMAIN s.attributes |-> [kind |-> "Attribute", field |-> s.attributes[i]]]
        named == {j \in DOMAIN all : all[j].field.name = k.key}
    IN  {all[i] : i \in IF k.by = "index" THEN {k.key + 1} \cap DOMAIN all
                        ELSE {j \in named : j = Min(named)}}

field_data(f) ==
    IF f.kind = "Dimension" THEN {[kind |-> "Dimension", field |-> d] : d \in dimension_data(f.field)}
    ELSE {[kind |-> "Attribute", field |-> a] : a \in attribute_data(f.field)}

\* fields() of either: each index below num_fields.
num_fields(s) == Len(s.domain) + Len(s.attributes)
fields(s, lookup(_, _)) == [i \in 1..num_fields(s) |-> lookup(s, Index(i - 1))]

field_cell_val_num(f) == f.field.cvn
field_nullability(f) == f.kind = "Attribute" /\ f.field.nullable

\* The cells a memory limit has room for, 64 values being taken for a variable number; {}
\* if it has room for none (unwrap of a NonZeroUsize).
query_scratch_allocator(f, memory_limit) ==
    LET values   == IF field_cell_val_num(f) = CellValNumVar THEN 64 ELSE field_cell_val_num(f)
        capacity == memory_limit \div (values * size(f.field.type))
    IN  IF capacity = 0 THEN {}
        ELSE {[cell_val_num |-> field_cell_val_num(f), record_capacity |-> capacity,
               is_nullable |-> field_nullability(f)]}
-----------------------------------------------------------------------------
(* The strategy: attributes and candidate enumerations, then which attribute uses which. *)

\* mapping[i] is a set of at most one index of a candidate.
prop_schema_for_domain(s, candidates, mapping) ==
    [s EXCEPT !.attributes = [i \in DOMAIN s.attributes |->
                 IF mapping[i] = {} THEN s.attributes[i]
                 ELSE try_set_enumeration(s.attributes[i], candidates[CHOOSE e \in mapping[i] : TRUE])],
              !.enumerations = LET used == unique(FlattenSeq([i \in DOMAIN mapping |-> SetToSeq(mapping[i])]))
                               IN  [i \in DOMAIN used |-> candidates[used[i]]]]

\* The value tree with some of the attributes and dimensions: the enumerations are those
\* the attributes name.
current(s, selected, dims) ==
    LET as    == Selected(s.attributes, selected)
        names == unique(FlattenSeq([i \in DOMAIN as |-> SetToSeq(as[i].enumeration)]))
        named(n) == CHOOSE e \in ToSet(s.enumerations) : e.name = n
    IN  [s EXCEPT !.attributes = as, !.enumerations = [i \in DOMAIN names |-> named(names[i])],
                  !.domain = domain_current(@, dims)]
-----------------------------------------------------------------------------
(***************************************************************************)
(* Properties.                                                             *)
(***************************************************************************)
\* The library takes a drawn schema, also one a shrink step left some attributes of; what
\* is read back of it has everything the schema asks for, and makes an equal schema again.
SchemaRoundTrip(s) ==
    /\ schema_create(s) # {}
    /\ \A c \in schema_create(s) :
          /\ schema_data(c) # {}
          /\ \A t \in schema_data(c) :
                /\ schema_option_subset(s, t)
                /\ schema_create(t) # {}
                /\ \A again \in schema_create(t) : schema_eq(c, again)

\* A field looked up in the C schema, by index or by name, is that of the data it was read
\* back as; all the indices together are all the fields, and each name finds one.
FieldsAgree(s) ==
    \A c \in schema_create(s) : \A t \in schema_data(c) :
        LET names == {a.name : a \in ToSet(t.domain) \cup ToSet(t.attributes)}
            keys  == {Index(i) : i \in 0..num_fields(t)} \cup {Name(n) : n \in names}
        IN  /\ num_fields(c) = num_fields(t) /\ Cardinality(names) = num_fields(t)
            /\ \A k \in keys : UNION {field_data(f) : f \in field(c, k)} = data_field(t, k)
            /\ All(fields(t, data_field)) # {}
            /\ \A n \in names : \A f \in field(c, Name(n)) : f.field.name = n

\* What a memory limit has room for does not take more than the limit.
AllocatorFits(c, memory_limit) ==
    \A i \in 0..(num_fields(c) - 1) : \A f \in field(c, Index(i)) :
        \A a \in query_scratch_allocator(f, memory_limit) :
           a.record_capacity * size(f.field.type) * Max({1, a.cell_val_num}) <= memory_limit

\* The library takes a drawn enumeration, also with some of its variants only, as the
\* variants it stands for; put behind the others again, they are all there; and a key
\* of the datatypes chosen for it tells them apart.
EnumerationRoundTrip(e) ==
    /\ enumeration_create(e) # {}
    /\ \A selected \in SUBSET (1..num_variants(e)) \ {{}} : \A t \in enumeration_current(e, selected) :
          LET rest == enumeration_current(e, (1..num_variants(e)) \ selected)
          IN  /\ records(t) = Selected(records(e), selected)
              /\ \A c \in enumeration_create(t) :
                    /\ enumeration_eq(c, t) /\ num_variants(enumeration_data(c)) = Cardinality(selected)
                    /\ \A u \in rest : \A x \in enumeration_extend(c, u.data, u.offsets) :
                          records(x) = records(t) \o records(u)
              /\ enumeration_create(t) # {}
    /\ \A dt \in key_datatypes(e) : \A a \in {[datatype |-> dt, cvn |-> {1}, enumeration |-> {}]} :
          try_set_enumeration(a, e).enumeration = {e.name}
=============================================================================
