------------------------ MODULE AggregateQuery_proofs ------------------------
(***************************************************************************)
(* Aggregates, for every schema and every list of requests: an answer has  *)
(* the type the C library writes, comes from the step's own submission,    *)
(* and buffers that could be applied are not refused later.                *)
(***************************************************************************)
EXTENDS AggregateQuery, SequenceTheorems, TLAPS

Functions == {"Count", "NullCount", "Min", "Max", "Sum", "Mean"}

Request == [function : Functions, field : STRING, type : STRING]

\* An adapter as it is once applied: its buffer is of the type the library writes.
Adapter ==
    {a \in [function : Functions, field : STRING, type : PhysicalType, data : Int,
            size : {0} \cup {SizeOf(T) : T \in PhysicalType}, validity : SUBSET {0, 1}] :
       /\ a.type = WrittenType(a)
       /\ a.size \in {0, SizeOf(a.type)}
       /\ ~needs_validity(a) => a.validity = {}}

\* The size of a buffer is 0 only after a failure; a refusal needs one that is; and the
\* last answers are those of the last submission that completed.
AggregateInv ==
    /\ todo \in Seq(Request)
    /\ adapters \in Seq(Adapter)
    /\ steps \in Nat
    /\ ~resets => \A i \in 1..Len(adapters) : adapters[i].size = SizeOf(adapters[i].type)
    /\ BuffersFit
    /\ AnswersRight

\* The type of a result is the one the library writes, by tables written apart.
LEMMA TypesAgree ==
    ASSUME NEW r \in Request, NEW dt \in result_type(r)
    PROVE  physical(dt) = WrittenType(r)
<1>1. CASE r.function \in {"Count", "NullCount"}
  BY <1>1 DEF result_type, WrittenType, physical
<1>2. CASE r.function = "Mean"
  BY <1>2 DEF result_type, WrittenType, physical
<1>3. CASE r.function \in {"Min", "Max"}
  BY <1>3 DEF result_type, WrittenType
<1>4. CASE r.function = "Sum"
  <2>1. \/ FieldOf(r.field).datatype \in {"Int8", "Int16", "Int32", "Int64"} /\ dt = "Int64"
        \/ FieldOf(r.field).datatype \in {"UInt8", "UInt16", "UInt32", "UInt64"} /\ dt = "UInt64"
        \/ FieldOf(r.field).datatype \in {"Float32", "Float64"} /\ dt = "Float64"
    BY <1>4 DEF result_type
  <2> QED
    BY <1>4, <2>1 DEF WrittenType, physical, IntegerTypes
<1> QED
  BY <1>1, <1>2, <1>3, <1>4 DEF Request, Functions

\* Whether an adapter has a validity buffer is whether the library writes one.
LEMMA ValidityAgrees ==
    ASSUME NEW a, a.function \in Functions
    PROVE  needs_validity(a) <=> WritesValidity(a)
<1>1. Argument(a) = {} <=> a.function = "Count"
  BY DEF Argument
<1> QED
  BY <1>1 DEF needs_validity, WritesValidity

LEMMA AdapterTyped ==
    ASSUME NEW a \in Adapter
    PROVE  /\ a \in [function : Functions, field : STRING, type : PhysicalType, data : Int,
                     size : {0} \cup {SizeOf(T) : T \in PhysicalType}, validity : SUBSET {0, 1}]
           /\ a.type = WrittenType(a)
           /\ a.size \in {0, SizeOf(a.type)}
           /\ ~needs_validity(a) => a.validity = {}
  BY DEF Adapter

\* What a step may change of an adapter: the data, the size to 0, and a validity it needs.
LEMMA AdapterStays ==
    ASSUME NEW a \in Adapter, NEW data \in Int, NEW left \in {0, a.size},
           NEW validity \in SUBSET {0, 1}, ~needs_validity(a) => validity = {}
    PROVE  /\ [a EXCEPT !.data = data, !.size = left, !.validity = validity] \in Adapter
           /\ [a EXCEPT !.data = data, !.size = left, !.validity = validity].type = a.type
           /\ [a EXCEPT !.data = data, !.size = left, !.validity = validity].size = left
<1> DEFINE b == [a EXCEPT !.data = data, !.size = left, !.validity = validity]
<1>1. /\ b \in [function : Functions, field : STRING, type : PhysicalType, data : Int,
                size : {0} \cup {SizeOf(T) : T \in PhysicalType}, validity : SUBSET {0, 1}]
      /\ b.type = a.type /\ b.function = a.function /\ b.field = a.field
      /\ b.size = left /\ b.validity = validity
  BY AdapterTyped
<1> HIDE DEF b
<1>2. WrittenType(b) = WrittenType(a) /\ (needs_validity(b) <=> needs_validity(a))
  BY <1>1 DEF WrittenType, needs_validity, Argument
<1>3. b.type = WrittenType(b) /\ b.size \in {0, SizeOf(b.type)}
  BY <1>1, <1>2, AdapterTyped
<1>4. b \in Adapter
  BY <1>1, <1>2, <1>3 DEF Adapter
<1> QED
  BY <1>1, <1>4 DEF b

\* Registering its buffers leaves an adapter what it is.
LEMMA RegisterKeeps ==
    ASSUME NEW a \in Adapter
    PROVE  /\ Register(a) \in Adapter
           /\ Register(a).type = a.type /\ Register(a).size = a.size
           /\ Register(a).function = a.function /\ Register(a).field = a.field
           /\ Register(a).data = a.data
           /\ Register(a).validity = {} <=> ~needs_validity(a)
           /\ [Register(a) EXCEPT !.size = 0] \in Adapter
<1>1. a \in [function : Functions, field : STRING, type : PhysicalType, data : Int,
             size : {0} \cup {SizeOf(T) : T \in PhysicalType}, validity : SUBSET {0, 1}]
  BY AdapterTyped
<1> DEFINE v == IF needs_validity(a) THEN {1} ELSE a.validity
<1>2. v \in SUBSET {0, 1} /\ (~needs_validity(a) => v = {}) /\ (v = {} <=> ~needs_validity(a))
  BY <1>1, AdapterTyped
<1>3. Register(a) = [a EXCEPT !.data = a.data, !.size = a.size, !.validity = v]
  BY <1>1 DEF Register
<1>4. [Register(a) EXCEPT !.size = 0] = [a EXCEPT !.data = a.data, !.size = 0, !.validity = v]
  BY <1>1 DEF Register
<1> HIDE DEF v
<1>5. [a EXCEPT !.data = a.data, !.size = 0, !.validity = v] \in Adapter
  BY <1>1, <1>2, AdapterStays
<1>6. [a EXCEPT !.data = a.data, !.size = a.size, !.validity = v] \in Adapter
  BY <1>1, <1>2, AdapterStays
<1>7. /\ Register(a).type = a.type /\ Register(a).size = a.size
      /\ Register(a).function = a.function /\ Register(a).field = a.field
      /\ Register(a).data = a.data /\ Register(a).validity = v
  BY <1>1, <1>3
<1> QED
  BY <1>2, <1>3, <1>4, <1>5, <1>6, <1>7
-----------------------------------------------------------------------------
LEMMA AggregateStart ==
    ASSUME Requests \subseteq Seq(Request), AggregateInit
    PROVE  AggregateInv
  BY DEF AggregateInit, AggregateInv, BuffersFit, AnswersRight

LEMMA ApplyKeeps ==
    ASSUME AggregateInv, ApplyAggregate
    PROVE  AggregateInv'
<1> DEFINE r     == Head(todo)
           types == {dt \in result_type(r) : r.type = "any" \/ is_compatible_type(dt, r.type)}
           T     == physical(CHOOSE dt \in types : TRUE)
<1>1. CASE Refuse
  BY <1>1 DEF Refuse, AggregateInv, BuffersFit, AnswersRight
<1>2. CASE ~Refuse
  <2>1. /\ types # {} /\ todo # <<>>
        /\ adapters' = Append(adapters, [function |-> r.function, field |-> r.field, type |-> T,
                                         data |-> 0, size |-> SizeOf(T), validity |-> {}])
        /\ todo' = Tail(todo)
        /\ UNCHANGED <<submission, truth, result, resets, steps>>
    BY <1>2 DEF ApplyAggregate
  <2>2. r \in Request
    BY <2>1 DEF AggregateInv
  <2>3. PICK dt \in types : T = physical(dt)
    BY <2>1
  <2>4. T = WrittenType(r) /\ T \in PhysicalType
    <3>1. dt \in result_type(r)
      OBVIOUS
    <3> HIDE DEF r, T
    <3>2. T = WrittenType(r)
      BY <2>2, <2>3, <3>1, TypesAgree
    <3>3. physical(dt) \in PhysicalType
      BY DEF physical, PhysicalType
    <3> QED
      BY <2>3, <3>2, <3>3
  <2> DEFINE a == [function |-> r.function, field |-> r.field, type |-> T, data |-> 0,
                   size |-> SizeOf(T), validity |-> {}]
  <2>5. WrittenType(a) = WrittenType(r)
    BY DEF WrittenType
  <2> HIDE DEF T, r
  <2>6. a \in Adapter /\ a.size = SizeOf(a.type)
    <3>1. r.function \in Functions /\ r.field \in STRING
      BY <2>2 DEF Request
    <3>2. SizeOf(T) \in {0} \cup {SizeOf(U) : U \in PhysicalType}
      BY <2>4
    <3>3. a \in [function : Functions, field : STRING, type : PhysicalType, data : Int,
                 size : {0} \cup {SizeOf(U) : U \in PhysicalType}, validity : SUBSET {0, 1}]
      BY <2>4, <3>1, <3>2
    <3>4. a.type = WrittenType(a) /\ a.size = SizeOf(a.type) /\ a.validity = {}
      BY <2>4, <2>5
    <3> HIDE DEF a
    <3> QED
      BY <3>3, <3>4 DEF Adapter
  <2> HIDE DEF a
  <2>7. adapters' = Append(adapters, a)
    BY <2>1 DEF a
  <2>8. /\ adapters' \in Seq(Adapter)
        /\ ~resets => \A i \in 1..Len(adapters') : adapters'[i].size = SizeOf(adapters'[i].type)
    BY <2>6, <2>7 DEF AggregateInv
  <2>9. todo' \in Seq(Request)
    BY <2>1 DEF AggregateInv
  <2> QED
    BY <2>1, <2>8, <2>9 DEF AggregateInv, BuffersFit, AnswersRight
<1> QED
  BY <1>1, <1>2

\* One adapter after the other, in a sequence as long.
LEMMA Mapped ==
    ASSUME NEW S, NEW s \in Seq(S), NEW t, t = [i \in 1..Len(s) |-> t[i]],
           \A i \in 1..Len(s) : t[i] \in S
    PROVE  t \in Seq(S) /\ Len(t) = Len(s)
<1>1. Len(s) \in Nat
  OBVIOUS
<1>2. t \in [1..Len(s) -> S]
  OBVIOUS
<1> QED
  BY <1>1, <1>2, IsASeq, LenProperties

LEMMA NotSubmittedKeeps ==
    ASSUME AggregateInv, NEW n \in 0..(Len(adapters) - 1), StepNotSubmitted(n),
           steps' = steps + 1, UNCHANGED todo
    PROVE  AggregateInv'
<1>1. adapters' = [i \in DOMAIN adapters |->
                      IF i > Len(adapters) - n THEN Register(adapters[i]) ELSE adapters[i]]
  BY DEF StepNotSubmitted
<1>2. /\ Len(adapters) \in Nat /\ DOMAIN adapters = 1..Len(adapters)
      /\ \A i \in 1..Len(adapters) : adapters[i] \in Adapter
  BY DEF AggregateInv
<1>3. \A i \in 1..Len(adapters) : /\ adapters'[i] \in Adapter
                                  /\ adapters'[i].type = adapters[i].type
                                  /\ adapters'[i].size = adapters[i].size
  BY <1>1, <1>2, RegisterKeeps
<1>4. adapters' \in Seq(Adapter) /\ Len(adapters') = Len(adapters)
  <2>1. adapters' = [i \in 1..Len(adapters) |-> adapters'[i]]
    BY <1>1, <1>2
  <2> QED
    BY <1>3, <2>1, Mapped DEF AggregateInv
<1>5. /\ result' = [is |-> "Err", answers |-> <<>>]
      /\ UNCHANGED <<submission, resets>>
  BY DEF StepNotSubmitted
<1> QED
  BY <1>3, <1>4, <1>5 DEF AggregateInv, BuffersFit, AnswersRight

LEMMA FailsKeeps ==
    ASSUME AggregateInv, StepFails, steps' = steps + 1, UNCHANGED todo
    PROVE  AggregateInv'
<1>1. PICK reset \in BOOLEAN :
        /\ adapters' = [i \in DOMAIN adapters |->
                           IF reset THEN [Register(adapters[i]) EXCEPT !.size = 0]
                           ELSE Register(adapters[i])]
        /\ resets' = (resets \/ reset)
  BY DEF StepFails
<1>2. /\ Len(adapters) \in Nat /\ DOMAIN adapters = 1..Len(adapters)
      /\ \A i \in 1..Len(adapters) : adapters[i] \in Adapter
  BY DEF AggregateInv
<1>3. \A i \in 1..Len(adapters) :
        /\ adapters'[i] \in Adapter
        /\ ~reset => adapters'[i].type = adapters[i].type /\ adapters'[i].size = adapters[i].size
  BY <1>1, <1>2, RegisterKeeps
<1>4. adapters' \in Seq(Adapter) /\ Len(adapters') = Len(adapters)
  <2>1. adapters' = [i \in 1..Len(adapters) |-> adapters'[i]]
    BY <1>1, <1>2
  <2> QED
    BY <1>3, <2>1, Mapped DEF AggregateInv
<1>5. ~resets' => \A i \in 1..Len(adapters') : adapters'[i].size = SizeOf(adapters'[i].type)
  BY <1>1, <1>3, <1>4 DEF AggregateInv
<1>6. ~resets => \A i \in DOMAIN adapters : Fits(adapters[i])
  <2> SUFFICES ASSUME ~resets, NEW i \in 1..Len(adapters) PROVE Fits(adapters[i])
    BY DEF AggregateInv
  <2>1. adapters[i].size = SizeOf(WrittenType(adapters[i]))
    BY <1>2, AdapterTyped DEF AggregateInv
  <2>2. needs_validity(adapters[i]) = WritesValidity(adapters[i])
    <3>1. adapters[i].function \in Functions
      BY <1>2, AdapterTyped
    <3> QED
      BY <3>1, ValidityAgrees DEF needs_validity, WritesValidity
  <2> QED
    BY <2>1, <2>2 DEF Fits
<1>7. submission' = "misfit" => resets'
  BY <1>1, <1>6 DEF StepFails
<1>8. result'.is = "Err"
  BY DEF StepFails
<1> QED
  BY <1>4, <1>5, <1>7, <1>8 DEF AggregateInv, BuffersFit, AnswersRight

LEMMA CompletesKeeps ==
    ASSUME AggregateInv, StepCompletes, steps' = steps + 1, UNCHANGED todo
    PROVE  AggregateInv'
<1> DEFINE n == Len(adapters)
<1>1. PICK nulls \in SUBSET {i \in DOMAIN adapters : WritesValidity(adapters[i])} :
        /\ adapters' = [i \in DOMAIN adapters |-> Written(i, i \in nulls, steps + i)]
        /\ truth' = [i \in DOMAIN adapters |->
                        IF i \in nulls THEN {}
                        ELSE {[type |-> WrittenType(adapters[i]), value |-> steps + i]}]
        /\ result' = [is |-> "Final", answers |->
                        Reversed([i \in DOMAIN adapters |-> Answer(Written(i, i \in nulls, steps + i))])]
  BY DEF StepCompletes
<1>2. n \in Nat /\ DOMAIN adapters = 1..n /\ \A i \in 1..n : adapters[i] \in Adapter
  BY DEF AggregateInv
<1>3. ASSUME NEW i \in 1..n
      PROVE  /\ Written(i, i \in nulls, steps + i) \in Adapter
             /\ Written(i, i \in nulls, steps + i).type = adapters[i].type
             /\ Written(i, i \in nulls, steps + i).size = adapters[i].size
             /\ Answer(Written(i, i \in nulls, steps + i))
                  = IF i \in nulls THEN {}
                    ELSE {[type |-> WrittenType(adapters[i]), value |-> steps + i]}
  <2> DEFINE a == Register(adapters[i])
             v == IF a.validity = {} THEN {} ELSE IF i \in nulls THEN {0} ELSE {1}
  <2>1. Registered(n)[i].address = address
    BY <1>2 DEF Registered
  <2>2. Written(i, i \in nulls, steps + i) = [a EXCEPT !.data = steps + i, !.validity = v]
    BY <2>1 DEF Written
  <2>3. /\ a \in Adapter /\ a.type = adapters[i].type /\ a.size = adapters[i].size
        /\ a.validity = {} <=> ~needs_validity(adapters[i])
        /\ needs_validity(a) <=> needs_validity(adapters[i])
    BY <1>2, RegisterKeeps DEF needs_validity, Argument
  <2> HIDE DEF a
  <2>4. v \in SUBSET {0, 1} /\ (~needs_validity(a) => v = {})
    BY <2>3
  <2>5. a \in [function : Functions, field : STRING, type : PhysicalType, data : Int,
               size : {0} \cup {SizeOf(T) : T \in PhysicalType}, validity : SUBSET {0, 1}]
    BY <2>3, AdapterTyped
  <2>6. i \in nulls => a.validity # {}
    <3>1. adapters[i].function \in Functions
      BY <1>2, AdapterTyped
    <3> QED
      BY <1>1, <2>3, <3>1, ValidityAgrees
  <2>7. v = {0} <=> i \in nulls
    BY <2>6
  <2> HIDE DEF v
  <2>8. [a EXCEPT !.data = steps + i, !.validity = v]
          = [a EXCEPT !.data = steps + i, !.size = a.size, !.validity = v]
    BY <2>5
  <2>9. steps + i \in Int
    BY DEF AggregateInv
  <2>10. LET w == [a EXCEPT !.data = steps + i, !.validity = v]
         IN  /\ w \in Adapter /\ w.type = a.type /\ w.size = a.size
             /\ w.data = steps + i /\ w.validity = v
    BY <2>3, <2>4, <2>5, <2>8, <2>9, AdapterStays
  <2>11. adapters[i].type = WrittenType(adapters[i])
    BY <1>2, AdapterTyped
  <2> QED
    BY <2>2, <2>3, <2>7, <2>10, <2>11 DEF Answer
<1>4. adapters' \in Seq(Adapter) /\ Len(adapters') = n
  <2>1. adapters' = [i \in 1..n |-> adapters'[i]] /\ \A i \in 1..n : adapters'[i] \in Adapter
    BY <1>1, <1>2, <1>3
  <2> QED
    BY <2>1, Mapped DEF AggregateInv
<1>5. ~resets => \A i \in 1..n : adapters'[i].size = SizeOf(adapters'[i].type)
  BY <1>1, <1>2, <1>3 DEF AggregateInv
<1>6. result'.answers = Reversed(truth')
  <2>1. [i \in DOMAIN adapters |-> Answer(Written(i, i \in nulls, steps + i))] = truth'
    BY <1>1, <1>2, <1>3
  <2> QED
    BY <1>1, <2>1
<1>7. submission' = "completed" /\ UNCHANGED resets
  BY DEF StepCompletes
<1> QED
  BY <1>4, <1>5, <1>6, <1>7 DEF AggregateInv, BuffersFit, AnswersRight
-----------------------------------------------------------------------------
LEMMA AggregateKept ==
    ASSUME AggregateInv, [AggregateNext]_aggregateVars
    PROVE  AggregateInv'
<1>1. CASE ApplyAggregate
  BY <1>1, ApplyKeeps
<1>2. CASE Build
  BY <1>2 DEF Build, AggregateInv, BuffersFit, AnswersRight
<1>3. CASE Move
  BY <1>3 DEF Move, AggregateInv, BuffersFit, AnswersRight
<1>4. CASE Step
  BY <1>4, NotSubmittedKeeps, FailsKeeps, CompletesKeeps DEF Step
<1>5. CASE UNCHANGED aggregateVars
  BY <1>5 DEF aggregateVars, AggregateInv, BuffersFit, AnswersRight
<1> QED
  BY <1>1, <1>2, <1>3, <1>4, <1>5 DEF AggregateNext

LEMMA AggregateAlways ==
    ASSUME Requests \subseteq Seq(Request)
    PROVE  AggregateSpec => []AggregateInv
<1>1. AggregateInit => AggregateInv
  BY AggregateStart
<1>2. AggregateInv /\ [AggregateNext]_aggregateVars => AggregateInv'
  BY AggregateKept
<1> QED
  BY <1>1, <1>2, PTL DEF AggregateSpec

\* The answers of a step are those of its own submission, each of the type the library
\* wrote, and null exactly where it said so, for every schema and every list of requests
\* (query/read/aggregate/mod.rs).
THEOREM AggregatesAnswerRight ==
    ASSUME Requests \subseteq Seq(Request)
    PROVE  AggregateSpec => []AnswersRight
<1>1. AggregateInv => AnswersRight
  BY DEF AggregateInv
<1> QED
  BY <1>1, AggregateAlways, PTL

\* The library refuses the buffers of aggregates only where an earlier failure has left a
\* size at 0.
THEOREM AggregateBuffersFit ==
    ASSUME Requests \subseteq Seq(Request)
    PROVE  AggregateSpec => []BuffersFit
<1>1. AggregateInv => BuffersFit
  BY DEF AggregateInv
<1> QED
  BY <1>1, AggregateAlways, PTL
=============================================================================
