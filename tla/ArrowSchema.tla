----------------------------- MODULE ArrowSchema -----------------------------
(***************************************************************************)
(* Arrow schemas of array schemas, and array schemas of Arrow's            *)
(* (api/src/array/{schema,dimension,attribute}/arrow.rs).                  *)
(*                                                                         *)
(* A field is [name, type, nullable, metadata], a schema [fields,          *)
(* metadata], where metadata is what is under the key "tiledb", a set of   *)
(* at most one record.  It travels as JSON, which keeps all of it but      *)
(* floats that are not finite.  A conversion gives a set, {} if it fails,  *)
(* of results as in ArrowTypes: Exact, Inexact or None.                    *)
(***************************************************************************)
EXTENDS Schema

T == INSTANCE ArrowTypes

\* The values at both ends of bits_cmp are the infinities and the NaNs.
IsFinite(type, v) == type \in Floats => TMin(type) + 1 < v /\ v < TMax(type) - 1

\* json!: an array of numbers, or nulls.
Json(type, values) == [i \in DOMAIN values |-> {v \in {values[i]} : IsFinite(type, v)}]

\* An Option of such an array read back: a null in it is an error.
Decoded(option) == IF option = {} THEN {{}} ELSE {{v} : v \in UNION {All(json) : json \in option}}

\* The Arrow field of a dimension or an attribute, with the result of converting its type.
ArrowField(c, nullable, metadata) ==
    LET there == T!to_arrow(c.type, c.cvn)
    IN  {[there EXCEPT !.is = [name |-> c.name, type |-> @, nullable |-> nullable, metadata |-> {m}]] :
            m \in metadata}

\* The other way; construct(datatype, cell value number) makes what the result holds.
FromField(f, construct(_, _)) ==
    LET from == T!from_arrow(f.type)
    IN  IF from = T!None THEN {T!None}
        ELSE {[from EXCEPT !.is = c] : c \in construct(from.is[1], from.is[2])}
-----------------------------------------------------------------------------
(* Dimensions. *)

DimensionMetadata(c) ==
    {[domain |-> {Json(physical(c.type), b) : b \in c.domain},
      extent |-> {Json(physical(c.type), <<e>>) : e \in c.extent}, filters |-> fs] :
        fs \in list_data(c.filters)}

dimension_to_arrow(c) == ArrowField(c, FALSE, DimensionMetadata(c))

\* An extent without a domain is an error, neither of them a string.
ConstraintsIn(m, dt) ==
    UNION {IF d = {} THEN (IF e = {} THEN {StringAscii} ELSE {})
           ELSE {Bounded(physical(dt), b[1], b[2], {x[1] : x \in e}) : b \in d} :
              d \in Decoded(m.domain), e \in Decoded(m.extent)}

dimension_from_arrow(f) ==
    FromField(f, LAMBDA dt, cvn :
        UNION {UNION {{[s EXCEPT !.filters = create_list(m.filters)] : s \in dimension_set_cell_val_num(c, cvn)} :
                         c \in UNION {dimension_new(f.name, dt, k) : k \in ConstraintsIn(m, dt)}} :
                  m \in f.metadata})
-----------------------------------------------------------------------------
(* Attributes. *)

AttributeMetadata(c) ==
    {[fill |-> Json(physical(c.type), fill_value_nullable(c).values), valid |-> fill_value_nullable(c).valid,
      filters |-> fs, enumeration |-> c.enumeration] : fs \in list_data(c.filters)}

\* Mutant: the attribute loses its enumeration.
apply_NoEnumeration(m, c) ==
    UNION {fill_value_nullability([c EXCEPT !.filters = create_list(m.filters)],
                                  [type |-> physical(c.type), values |-> values], m.valid) : values \in All(m.fill)}

\* AttributeMetadata::apply, of the type the attribute has now.
apply(m, c) ==
    UNION {fill_value_nullability([c EXCEPT !.filters = create_list(m.filters), !.enumeration = m.enumeration],
                                  [type |-> physical(c.type), values |-> values], m.valid) : values \in All(m.fill)}

attribute_to_arrow(c) == ArrowField(c, c.nullable, AttributeMetadata(c))

\* Without metadata the attribute keeps the library's fill value.
attribute_from_arrow(f) ==
    FromField(f, LAMBDA dt, cvn :
        LET new   == [attribute_alloc(f.name, dt) EXCEPT !.nullable = f.nullable]
            sized == IF dt = "Any" /\ cvn = CellValNumVar THEN {new} ELSE set_cell_val_num(new, cvn)
        IN  IF f.metadata = {} THEN sized ELSE UNION {apply(m, a) : m \in f.metadata, a \in sized})
-----------------------------------------------------------------------------
(* Schemas. *)

SchemaMetadata(c) ==
    {[info |-> [x \in {"array_type", "capacity", "dups", "cell_order", "tile_order", "enumerations",
                       "coords", "offsets", "nullity"} |-> s[x]],
      ndim |-> Len(c.domain)] : s \in schema_data(c)}

schema_to_arrow(c) ==
    LET all == All([i \in DOMAIN c.domain |-> dimension_to_arrow(c.domain[i])]
                      \o [i \in DOMAIN c.attributes |-> attribute_to_arrow(c.attributes[i])])
    IN  {[kind |-> IF \A i \in DOMAIN fs : T!is_exact(fs[i]) THEN "Exact" ELSE "Inexact",
          is |-> [fields |-> [i \in DOMAIN fs |-> fs[i].is], metadata |-> {m}]] :
            fs \in all, m \in SchemaMetadata(c)}

\* The first ndim fields, and the others.
dimensions(a, m) == SubSeq(a.fields, 1, m.ndim)
attributes(a, m) == SubSeq(a.fields, m.ndim + 1, Len(a.fields))

\* The schema builder, set up from the metadata.
Builder(m, domain, attrs) ==
    LET s        == m.info
        options  == IfSome(IfSome(IfSome(IfSome(set_domain(schema_alloc(s.array_type), domain),
                        s.capacity, set_capacity), s.dups, set_allows_dups),
                        s.cell_order, set_cell_order), s.tile_order, set_tile_order)
        filtered == {[c EXCEPT !.coords = create_list(s.coords), !.offsets = create_list(s.offsets),
                               !.nullity = create_list(s.nullity)] : c \in options}
    IN  ForEach(AddEnumerations(filtered, s), attrs, add_attribute)

Converted(results) ==
    LET some == SelectSeq(results, LAMBDA r : r # T!None) IN [i \in DOMAIN some |-> some[i].is]

\* Nothing without metadata or a dimension; an attribute without a datatype is left out.
FromFields(a, m) ==
    LET dims  == [i \in DOMAIN dimensions(a, m) |-> dimension_from_arrow(dimensions(a, m)[i])]
        attrs == [i \in DOMAIN attributes(a, m) |-> attribute_from_arrow(attributes(a, m)[i])]
        none  == {i \in DOMAIN dims : dims[i] = {T!None} /\ \A j \in 1..(i - 1) : dims[j] # {}}
    IN  IF none # {} THEN {T!None}
        ELSE UNION {{[kind |-> IF \A r \in ToSet(ds \o as) : T!is_exact(r) THEN "Exact" ELSE "Inexact", is |-> c] :
                        c \in Builder(m, Converted(ds), Converted(as))} : ds \in All(dims), as \in All(attrs)}

schema_from_arrow(a) ==
    IF a.metadata = {} THEN {T!None}
    ELSE UNION {FromFields(a, m) : m \in {n \in a.metadata : Len(a.fields) >= n.ndim}}
-----------------------------------------------------------------------------
(***************************************************************************)
(* Properties.                                                             *)
(***************************************************************************)
FillsFinite(c) ==
    \A i \in DOMAIN c.attributes : \A v \in ToSet(fill_value_nullable(c.attributes[i]).values) :
        IsFinite(physical(c.attributes[i].type), v)

\* The data with the datatypes of other data, of the same size.
Retyped(s, t) ==
    [s EXCEPT !.domain = [i \in DOMAIN @ |-> [@[i] EXCEPT !.datatype = t.domain[i].datatype]],
              !.attributes = [i \in DOMAIN @ |-> [@[i] EXCEPT !.datatype = t.attributes[i].datatype]]]

SameSizes(s, t) ==
    /\ \A i \in DOMAIN s.domain : size(s.domain[i].datatype) = size(t.domain[i].datatype)
    /\ \A i \in DOMAIN s.attributes : size(s.attributes[i].datatype) = size(t.attributes[i].datatype)

\* A schema whose float fill values are finite comes back from Arrow: with all it has if
\* the conversion calls itself exact, else with other datatypes of the same size, and at
\* least one other.  One with a fill value that is not finite does not come back.
ArrowSchemaRoundTrip(c) ==
    /\ schema_to_arrow(c) # {}
    /\ \A a \in schema_to_arrow(c) :
          LET back == schema_from_arrow(a.is)
          IN  /\ \A m \in a.is.metadata :
                    /\ [i \in 1..m.ndim |-> dimensions(a.is, m)[i].name] = [i \in DOMAIN c.domain |-> c.domain[i].name]
                    /\ Len(attributes(a.is, m)) = Len(c.attributes)
              /\ back = {} <=> ~FillsFinite(c)
              /\ \A b \in back :
                    /\ schema_check(b.is) # {}
                    /\ \A s \in schema_data(c), t \in schema_data(b.is) :
                          IF T!is_exact(a) THEN T!is_exact(b) /\ schema_eq(c, b.is) /\ s = t
                          ELSE s # t /\ SameSizes(s, t) /\ Retyped(s, t) = t

\* A field of a type TileDB does not have: no schema if it is a dimension, the schema
\* without it and an inexact result if it is an attribute.
UnknownTypesLeftOut(c) ==
    FillsFinite(c) => \A a \in schema_to_arrow(c) : \A i \in DOMAIN a.is.fields :
        LET n    == Len(c.domain)
            back == schema_from_arrow([a.is EXCEPT !.fields[i].type = T!Arrow("Null")])
        IN  IF i <= n THEN back = {T!None}
            ELSE back # {} /\ \A b \in back : /\ b.kind = "Inexact"
                                              /\ [j \in DOMAIN b.is.attributes |-> b.is.attributes[j].name]
                                                   = [j \in 1..(Len(c.attributes) - 1) |->
                                                        c.attributes[IF j < i - n THEN j ELSE j + 1].name]

\* A field without metadata makes an attribute if its type has a datatype, and that a field
\* of the same name, nullability and physical type.
ForeignFieldKept(type) ==
    \A nullable \in BOOLEAN :
        LET f == [name |-> "f", type |-> type, nullable |-> nullable, metadata |-> {}]
        IN  /\ attribute_from_arrow(f) # {}
            /\ \A r \in attribute_from_arrow(f) \ {T!None} : \A g \in attribute_to_arrow(r.is) :
                  /\ g.is.name = f.name /\ g.is.nullable = nullable
                  /\ \/ T!is_physical_type_match(type, g.is.type)
                     \/ T!is_exact(r) /\ type.type \in {"FixedSizeList", "FixedSizeBinary"} /\ type.len = 1
=============================================================================
