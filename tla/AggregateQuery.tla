--------------------------- MODULE AggregateQuery ---------------------------
(***************************************************************************)
(* Aggregates over a read query (query/read/aggregate/mod.rs): a builder   *)
(* applies one aggregate after another to the default channel of the C     *)
(* query, each becomes an adapter around those before it, and a step       *)
(* registers the result buffer of every adapter, from the outside in,      *)
(* submits, and returns the answers.  aggregate_physical_value and its     *)
(* adapters (queries/src/aggregate.rs) pick the type T themselves.         *)
(*                                                                         *)
(* The C query checks the buffers of aggregates when it is submitted; a    *)
(* query of aggregates alone completes or fails.                           *)
(***************************************************************************)
EXTENDS Datatype

CONSTANTS
    Requests,    \* sequences of [function, field, type]: "any" for aggregate_physical_value
    FieldOf(_),  \* FieldOf(name): [datatype, cvn, nullable], a field of the schema
    MaxSteps     \* steps of one behaviour

VARIABLES
    phase,       \* "building", "built" or "refused"
    todo,        \* the requests not applied yet
    adapters,    \* innermost first: [function, field, type, data, size, validity]
    applied,     \* the aggregates on the channel of the C query
    registered,  \* the adapters' buffers the C query has: their address, and [data, validity]
    address,     \* where the adapters are; they move with the query
    submission,  \* what became of the last submission
    truth,       \* what the C query answered it
    result,      \* [is, answers] of the last step: "none", "Err", or "Final", outermost first
    resets,      \* a failed submission has left sizes at 0
    steps

aggregateVars == <<phase, todo, adapters, applied, registered, address, submission, truth,
                   result, resets, steps>>

\* argument_name is None for Count only.
Argument(r) == IF r.function = "Count" THEN {} ELSE {r.field}

IntegerTypes == {"i8", "i16", "i32", "i64"}

\* Mutant: sums are signed.
result_type_Signed(r) ==
    LET f == FieldOf(r.field)
    IN  IF r.function \in {"Count", "NullCount"} THEN {"UInt64"}
        ELSE IF f.cvn # 1 THEN {}
        ELSE IF r.function = "Mean" THEN {"Float64"}
        ELSE IF r.function \in {"Min", "Max"} THEN {f.datatype}
        ELSE IF is_integral_type(f.datatype) THEN {"Int64"}
        ELSE IF is_real_type(f.datatype) THEN {"Float64"}
        ELSE {}

\* The Datatype of the result; {} if there is none.
result_type(r) ==
    LET f == FieldOf(r.field)
    IN  IF r.function \in {"Count", "NullCount"} THEN {"UInt64"}
        ELSE IF f.cvn # 1 THEN {}
        ELSE IF r.function = "Mean" THEN {"Float64"}
        ELSE IF r.function \in {"Min", "Max"} THEN {f.datatype}
        ELSE IF f.datatype \in {"Int8", "Int16", "Int32", "Int64"} THEN {"Int64"}
        ELSE IF f.datatype \in {"UInt8", "UInt16", "UInt32", "UInt64"} THEN {"UInt64"}
        ELSE IF f.datatype \in {"Float32", "Float64"} THEN {"Float64"}
        ELSE {}

\* What the C library writes: by its own tables, of the physical type of the field.
WrittenType(r) ==
    LET T == physical(FieldOf(r.field).datatype)
    IN  IF r.function \in {"Count", "NullCount"} THEN "u64"
        ELSE IF r.function = "Mean" THEN "f64"
        ELSE IF r.function \in {"Min", "Max"} THEN T
        ELSE IF T \in {"f32", "f64"} THEN "f64"
        ELSE IF T \in IntegerTypes THEN "i64"
        ELSE "u64"

WritesValidity(r) == r.function \notin {"Count", "NullCount"} /\ FieldOf(r.field).nullable

\* What it refuses to put on a channel.
Applicable(r) ==
    /\ [function |-> r.function, field |-> Argument(r)] \notin applied
    /\ r.function = "NullCount" => FieldOf(r.field).nullable
    /\ r.function \in {"Sum", "Mean"} => is_integral_type(FieldOf(r.field).datatype)
                                         \/ is_real_type(FieldOf(r.field).datatype)
-----------------------------------------------------------------------------
AggregateInit ==
    /\ todo \in Requests
    /\ phase = "building" /\ adapters = <<>> /\ applied = {}
    /\ registered = <<>> /\ address = 0
    /\ submission = "none" /\ truth = <<>> /\ result = [is |-> "none", answers |-> <<>>] /\ resets = FALSE /\ steps = 0

\* A refusal drops the builder.
Refuse ==
    /\ phase' = "refused"
    /\ UNCHANGED <<todo, adapters, applied, registered, address, submission, truth, result, resets, steps>>

\* apply_aggregate, and what build() makes of the aggregate.
ApplyAggregate ==
    /\ phase = "building" /\ todo # <<>>
    /\ LET r     == Head(todo)
           types == {dt \in result_type(r) : r.type = "any" \/ is_compatible_type(dt, r.type)}
       IN  \/ types = {} /\ Refuse
           \/ types # {} /\ ~Applicable(r) /\ Refuse
           \/ /\ types # {} /\ Applicable(r)
              /\ LET T == physical(CHOOSE dt \in types : TRUE)
                 IN  adapters' = Append(adapters,
                         [function |-> r.function, field |-> r.field, type |-> T, data |-> 0,
                          size |-> SizeOf(T), validity |-> {}])
              /\ applied' = applied \cup {[function |-> r.function, field |-> Argument(r)]}
              /\ todo' = Tail(todo)
              /\ UNCHANGED <<phase, registered, address, submission, truth, result, resets, steps>>

Build ==
    /\ phase = "building" /\ todo = <<>>
    /\ phase' = "built"
    /\ UNCHANGED <<todo, adapters, applied, registered, address, submission, truth, result, resets, steps>>

\* The application moves the query, and every adapter in it.
Move ==
    /\ phase = "built"
    /\ address' = 1 - address
    /\ UNCHANGED <<phase, todo, adapters, applied, registered, submission, truth, result, resets, steps>>
-----------------------------------------------------------------------------
\* Mutant: counts of nulls have a validity buffer too.
needs_validity_NullCount(a) == Argument(a) # {} /\ FieldOf(a.field).nullable

needs_validity(a) ==
    Argument(a) # {} /\ a.function # "NullCount" /\ FieldOf(a.field).nullable

Register(a) == [a EXCEPT !.validity = IF needs_validity(a) THEN {1} ELSE @]

NotRegistered == [address |-> -1, validity |-> FALSE]

\* The last n adapters have set their buffers: the outer do before the inner.
Registered(n) ==
    [i \in DOMAIN adapters |->
        IF i > Len(adapters) - n THEN [address |-> address, validity |-> needs_validity(adapters[i])]
        ELSE IF i \in DOMAIN registered THEN registered[i] ELSE NotRegistered]

Fits(a) == /\ a.size = SizeOf(WrittenType(a))
           /\ needs_validity(a) = WritesValidity(a)

\* The size of a validity buffer is a local of a block that has ended: the library reads
\* there what was written, or something else, and may refuse the buffer.
Dangling == \E i \in DOMAIN adapters : needs_validity(adapters[i])

\* A step that ends before it submits: an adapter could not set its buffer.
StepNotSubmitted(n) ==
    /\ registered' = Registered(n)
    /\ adapters' = [i \in DOMAIN adapters |->
                       IF i > Len(adapters) - n THEN Register(adapters[i]) ELSE adapters[i]]
    /\ result' = [is |-> "Err", answers |-> <<>>]
    /\ UNCHANGED <<submission, truth, resets>>

\* The C query refuses the buffers, or fails: the sizes are what they were, or 0.
StepFails ==
    /\ registered' = Registered(Len(adapters))
    /\ \E reset \in BOOLEAN :
          /\ adapters' = [i \in DOMAIN adapters |->
                             IF reset THEN [Register(adapters[i]) EXCEPT !.size = 0] ELSE Register(adapters[i])]
          /\ resets' = (resets \/ reset)
    /\ submission' = IF \E i \in DOMAIN adapters : ~Fits(adapters[i]) THEN "misfit"
                     ELSE IF Dangling THEN "dangling" ELSE "failed"
    /\ result' = [is |-> "Err", answers |-> <<>>]
    /\ UNCHANGED truth

\* An answer: None if the validity is 0.
Answer(a) == IF a.validity = {0} THEN {} ELSE {[type |-> a.type, value |-> a.data]}

\* The library writes where it was told to.
Written(i, null, value) ==
    LET a == Register(adapters[i])
    IN  IF Registered(Len(adapters))[i].address # address THEN a
        ELSE [a EXCEPT !.data = value, !.validity = IF @ = {} THEN {} ELSE IF null THEN {0} ELSE {1}]

Reversed(s) == [i \in DOMAIN s |-> s[Len(s) + 1 - i]]

\* The C query completes with a value, or null, for each aggregate.
StepCompletes ==
    /\ \A i \in DOMAIN adapters : Fits(adapters[i])
    /\ registered' = Registered(Len(adapters))
    /\ \E nulls \in SUBSET {i \in DOMAIN adapters : WritesValidity(adapters[i])} :
          /\ adapters' = [i \in DOMAIN adapters |-> Written(i, i \in nulls, steps + i)]
          /\ truth' = [i \in DOMAIN adapters |->
                          IF i \in nulls THEN {} ELSE {[type |-> WrittenType(adapters[i]), value |-> steps + i]}]
          /\ result' = [is |-> "Final", answers |->
                          Reversed([i \in DOMAIN adapters |-> Answer(Written(i, i \in nulls, steps + i))])]
    /\ submission' = "completed"
    /\ UNCHANGED resets

Step ==
    /\ phase = "built" /\ steps < MaxSteps
    /\ steps' = steps + 1
    /\ \/ \E n \in 0..(Len(adapters) - 1) : StepNotSubmitted(n)
       \/ StepFails
       \/ StepCompletes
    /\ UNCHANGED <<phase, todo, applied, address>>

AggregateNext == ApplyAggregate \/ Build \/ Move \/ Step

AggregateSpec == AggregateInit /\ [][AggregateNext]_aggregateVars
-----------------------------------------------------------------------------
(***************************************************************************)
(* Properties.                                                             *)
(***************************************************************************)
\* The answers of a step are those of its own submission, of the aggregate asked for at
\* each place and of the type the library writes for it, and null only if it says so.
AnswersRight == result.is = "Final" => result.answers = Reversed(truth)

\* A query whose buffers the library refuses has had sizes reset by an earlier failure;
\* no aggregate that could be applied is refused when it is submitted.
BuffersFit == submission = "misfit" => resets
=============================================================================
