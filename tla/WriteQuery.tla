----------------------------- MODULE WriteQuery -----------------------------
(***************************************************************************)
(* A write query (query/write/mod.rs): a WriteBuilder is given the values  *)
(* of each field, turns them into inputs and registers their memory with   *)
(* the C query; the WriteQuery it builds may be submitted more than once,  *)
(* and is finalized or dropped.                                            *)
(*                                                                         *)
(* The C query keeps raw pointers: reg[f][p] is the number of the input    *)
(* whose part p, with its boxed size, was last registered for field f.     *)
(* RawWriteInput keeps this memory alive in the builder's map of inputs,   *)
(* from which it goes when the field is given another input.               *)
(***************************************************************************)
EXTENDS WriteInput

CONSTANTS
    Values,        \* the values an application may give a field, by field
    Batches,       \* the Arrow record batches: sequences of [field, value]
    SubarrayCells, \* the cells the (dense) write covers
    Leftovers,     \* what freed memory may be found to hold
    MaxInputs,     \* bound: values given to one builder
    MaxErrors      \* bound: errors of the C library

ASSUME WriteAssumption ==
    /\ SubarrayCells \in Nat /\ MaxInputs \in Nat /\ MaxErrors \in Nat
    /\ Leftovers # {}
    /\ \A f \in Fields : \A v \in Values[f] : IsValue(v)
    /\ Batches \subseteq Seq(UNION {[field : {f}, value : Values[f]] : f \in Fields})
    /\ \A b \in Batches : b # <<>>

VARIABLES
    phase,     \* "builder", "query", "freed" (the C query is), "dropped"
    pc,        \* where a call of buffers() is
    pending,   \* what data() or records() has still to give to buffers()
    call,      \* the input in the hands of buffers()
    inputs,    \* InputMap
    reg,       \* the C query: field -> part -> number of an input, 0 if none
    made,      \* how many inputs there have been
    given,     \* history: the value each field was last given
    outcome,   \* what the last submission came to
    fragment,  \* the records it wrote, by field
    errors

vars == <<phase, pc, pending, call, inputs, reg, made, given, outcome, fragment, errors>>

Unregistered == [f \in Fields |-> [p \in Parts |-> 0]]

Init ==
    /\ phase = "builder" /\ pc = "idle"
    /\ pending = <<>> /\ call = {}
    /\ inputs = << >> /\ given = << >>
    /\ reg = Unregistered
    /\ made = 0 /\ errors = 0
    /\ outcome = "none" /\ fragment = << >>
-----------------------------------------------------------------------------
(***************************************************************************)
(* The builder.  data(), data_typed() and records() hand one input after   *)
(* another to buffers(); each `?` on the way drops the builder, which was  *)
(* moved into the call: its query is freed, then its inputs.               *)
(***************************************************************************)
Idle(ph) == phase = ph /\ pc = "idle"

Items == UNION {[field : {f}, value : Values[f], from : {"data", "batch"}] : f \in Fields}

Item(f, v, from) == [field |-> f, value |-> v, from |-> from]

Data ==
    /\ Idle("builder")
    /\ made < MaxInputs
    /\ \E f \in Fields : \E v \in Values[f] : pending' = <<Item(f, v, "data")>>
    /\ pc' = "provide"
    /\ UNCHANGED <<phase, call, inputs, reg, made, given, outcome, fragment, errors>>

Records ==
    /\ Idle("builder")
    /\ \E b \in Batches :
         /\ made + Len(b) <= MaxInputs
         /\ pending' = [i \in DOMAIN b |-> Item(b[i].field, b[i].value, "batch")]
    /\ pc' = "provide"
    /\ UNCHANGED <<phase, call, inputs, reg, made, given, outcome, fragment, errors>>

Provided(item) ==
    IF item.from = "batch" THEN batch_buffers(item.value, item.field)
                           ELSE query_buffers(item.value, item.field)

Provide ==
    /\ pc = "provide"
    /\ \E in \in Provided(Head(pending)) :
         call' = {[field |-> Head(pending).field, value |-> Head(pending).value,
                   input |-> in, id |-> made + 1]}
    /\ made' = made + 1
    /\ pending' = Tail(pending)
    /\ pc' = "data"
    /\ UNCHANGED <<phase, inputs, reg, given, outcome, fragment, errors>>

\* The query goes; the inputs are still to go.
FreeQuery ==
    /\ phase' = "freed"
    /\ pc' = "idle" /\ pending' = <<>> /\ call' = {}
    /\ reg' = Unregistered

ProvideFails ==
    /\ pc = "provide"
    /\ Provided(Head(pending)) = {}
    /\ FreeQuery
    /\ UNCHANGED <<inputs, made, given, outcome, fragment, errors>>

AfterPart == [data |-> "offsets", offsets |-> "validity", validity |-> "insert"]

\* Mutant: a buffer is registered only if none was.
SetBuffer_Once(c) ==
    reg' = IF pc \in DOMAIN c.input /\ reg[c.field][pc] = 0
           THEN [reg EXCEPT ![c.field][pc] = c.id] ELSE reg

\* tiledb_query_set_{data,offsets,validity}_buffer, for the parts there are.
SetBuffer(c) ==
    reg' = IF pc \in DOMAIN c.input THEN [reg EXCEPT ![c.field][pc] = c.id] ELSE reg

\* The C library has no buffer for this part of the field.
Unwanted(c) == pc \in DOMAIN c.input \ NeededParts(c.field)

Register ==
    /\ pc \in Parts
    /\ \E c \in call : ~Unwanted(c) /\ SetBuffer(c)
    /\ pc' = AfterPart[pc]
    /\ UNCHANGED <<phase, pending, call, inputs, made, given, outcome, fragment, errors>>

RegisterRefused ==
    /\ pc \in Parts
    /\ \E c \in call : Unwanted(c)
    /\ FreeQuery
    /\ UNCHANGED <<inputs, made, given, outcome, fragment, errors>>

RegisterFails ==
    /\ pc \in Parts
    /\ \E c \in call : pc \in DOMAIN c.input
    /\ errors < MaxErrors
    /\ errors' = errors + 1
    /\ FreeQuery
    /\ UNCHANGED <<inputs, made, given, outcome, fragment>>

With(map, f, x) == [g \in DOMAIN map \cup {f} |-> IF g = f THEN x ELSE map[g]]

\* Mutant: the first input of a field is kept.
Held_First(c) ==
    IF c.field \in DOMAIN inputs THEN inputs
    ELSE With(inputs, c.field, [id |-> c.id, input |-> c.input])

\* self.inputs.insert(): what the field had before is freed.
Held(c) == With(inputs, c.field, [id |-> c.id, input |-> c.input])

Insert ==
    /\ pc = "insert"
    /\ \E c \in call :
         /\ inputs' = Held(c)
         /\ given' = With(given, c.field, c.value)
    /\ call' = {}
    /\ pc' = IF pending = <<>> THEN "idle" ELSE "provide"
    /\ UNCHANGED <<phase, pending, reg, made, outcome, fragment, errors>>

Build ==
    /\ Idle("builder")
    /\ phase' = "query"
    /\ UNCHANGED <<pc, pending, call, inputs, reg, made, given, outcome, fragment, errors>>
-----------------------------------------------------------------------------
(***************************************************************************)
(* The query.  A submission reads whatever the registered pointers point   *)
(* to; memory that was freed may hold any leftover.                        *)
(***************************************************************************)
Live(f, p) == f \in DOMAIN inputs /\ inputs[f].id = reg[f][p] /\ p \in DOMAIN inputs[f].input

Memory(f, leftover) ==
    [p \in {q \in Parts : reg[f][q] # 0} |->
        IF Live(f, p) THEN inputs[f].input[p] ELSE leftover]

Writable(leftover) ==
    \A f \in Fields :
        /\ Readable(Memory(f, leftover), f)
        /\ Len(CellsIn(Memory(f, leftover), f)) = SubarrayCells

SubmitWrites ==
    /\ Idle("query")
    /\ \E x \in Leftovers :
         /\ Writable(x)
         /\ fragment' = [f \in Fields |-> RecordsIn(Memory(f, x), f)]
    /\ outcome' = "written"
    /\ UNCHANGED <<phase, pc, pending, call, inputs, reg, made, given, errors>>

SubmitRefused ==
    /\ Idle("query")
    /\ \E x \in Leftovers : ~Writable(x)
    /\ outcome' = "refused" /\ fragment' = << >>
    /\ UNCHANGED <<phase, pc, pending, call, inputs, reg, made, given, errors>>

SubmitFails ==
    /\ Idle("query")
    /\ errors < MaxErrors
    /\ errors' = errors + 1
    /\ outcome' = "failed" /\ fragment' = << >>
    /\ UNCHANGED <<phase, pc, pending, call, inputs, reg, made, given>>

\* finalize(), which takes the query, or a drop of the builder or the query.
\* The fields of the struct are dropped in order: base, then _inputs.
FinalizeOrDrop ==
    /\ pc = "idle" /\ phase \in {"builder", "query"}
    /\ FreeQuery
    /\ UNCHANGED <<inputs, made, given, outcome, fragment, errors>>

DropInputs ==
    /\ phase = "freed"
    /\ phase' = "dropped" /\ inputs' = << >>
    /\ UNCHANGED <<pc, pending, call, reg, made, given, outcome, fragment, errors>>

Next ==
    \/ Data \/ Records \/ Provide \/ ProvideFails
    \/ Register \/ RegisterRefused \/ RegisterFails \/ Insert \/ Build
    \/ SubmitWrites \/ SubmitRefused \/ SubmitFails
    \/ FinalizeOrDrop \/ DropInputs

Spec == Init /\ [][Next]_vars
-----------------------------------------------------------------------------
(***************************************************************************)
(* Properties                                                              *)
(***************************************************************************)

\* If the C library accepts the input, it reads the records of the value in it.
Faithful(in, v, f) ==
    Readable(in, f) /\ Len(CellsIn(in, f)) = SubarrayCells
        => RecordsIn(in, f) = RecordsOf(v, f)

\* An input that the query works with has the parts its field needs, and no other,
\* whatever was registered before or refused, but for the parts the value is known
\* not to bring: each of those leaves the pointer to an earlier one in place.
CompleteInputs ==
    \A f \in DOMAIN inputs : DOMAIN inputs[f].input = NeededParts(f) \ Missing(given[f], f)

\* Every input that buffers() is given holds the records of the value, if it can
\* be read at all: the provider has got their lengths, their order and their
\* nulls right.
ProvidersFaithful == \A c \in call : Faithful(c.input, c.value, c.field)

\* The types of the variables; an input is held, or in the hands of buffers(),
\* for the value it was made of.
TypeOK ==
    /\ phase \in {"builder", "query", "freed", "dropped"}
    /\ pc \in {"idle", "provide", "insert"} \cup Parts
    /\ pc # "idle" => phase = "builder"
    /\ pc \in Parts \cup {"insert"} <=> call # {}
    /\ \A c, d \in call : c = d
    /\ pc = "provide" => pending # <<>>
    /\ pending \in Seq(Items)
    /\ \A c \in call : /\ c.field \in Fields /\ c.value \in Values[c.field]
                       /\ c.input \in query_buffers(c.value, c.field)
                       /\ c.id = made /\ c.id # 0
    /\ DOMAIN inputs \subseteq DOMAIN given /\ DOMAIN given \subseteq Fields
    /\ \A f \in DOMAIN given : given[f] \in Values[f]
    /\ \A f \in DOMAIN inputs : /\ inputs[f].input \in query_buffers(given[f], f)
                                /\ inputs[f].id \in 1..made
    /\ reg \in [Fields -> [Parts -> 0..made]]
    /\ made \in Nat /\ errors \in 0..MaxErrors
    /\ outcome \in {"none", "written", "refused", "failed"}

\* As long as there is a C query, the memory registered with it is alive: each
\* pointer is to a part of the input the map holds for its field, or of the one
\* that a call of buffers() has at hand.
RegisteredLive ==
    phase \in {"builder", "query"} =>
        \A f \in Fields : \A p \in Parts :
            reg[f][p] # 0 =>
                \/ Live(f, p)
                \/ \E c \in call : c.field = f /\ c.id = reg[f][p] /\ p \in DOMAIN c.input

\* A pointer is stale only to a part that the field's last value does not bring, and
\* that an earlier one brought: nothing else of what is replaced, refused or failed
\* half-way leaves the C query with freed memory.
StaleOnlyIfMissing ==
    phase \in {"builder", "query"} =>
        \A f \in Fields : \A p \in Parts :
            reg[f][p] # 0 =>
                \/ Live(f, p)
                \/ \E c \in call : c.field = f /\ c.id = reg[f][p] /\ p \in DOMAIN c.input
                \/ f \in DOMAIN inputs /\ p \in Missing(given[f], f)

\* A fragment holds, for each field, the records of the value which the application
\* gave for it last: in their order, with their lengths and nulls.  Only of a field
\* whose last value lacks a part it may hold what freed memory held.
FragmentIsGiven ==
    outcome = "written" =>
        \A f \in Fields : /\ f \in DOMAIN given
                          /\ Missing(given[f], f) = {} => fragment[f] = RecordsOf(given[f], f)

\* The C library refuses nothing that the provider has accepted, unless a field
\* is missing, has not as many records as the subarray has cells, or was given
\* a Misfit: there is no other value that only looks fine.
AcceptedIsWritten ==
    outcome = "refused" =>
        \E f \in Fields : \/ f \notin DOMAIN given
                          \/ Len(RecordsOf(given[f], f)) # SubarrayCells
                          \/ Misfit(given[f], f)

\* "The number of values per cell is a specific fixed number": the values of a
\* fixed field divide into its cells.
FixedCellsFit ==
    \A f \in DOMAIN inputs :
        CellValNum[f] # Var => Len(inputs[f].input["data"]) % CellValNum[f] = 0
=============================================================================
