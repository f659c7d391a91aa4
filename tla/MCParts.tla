------------------------------ MODULE MCParts -------------------------------
(***************************************************************************)
(* The parts of the system that do not share state, each on its own small  *)
(* instance: the operations on values of MCValues, and the components with *)
(* a state, of which a behaviour runs one and leaves the others alone.     *)
(***************************************************************************)
EXTENDS MCValues, ReadOutput, AggregateQuery, FragmentInfo, Lifecycle, Shrinking

VARIABLE part   \* the one that runs

OutputIdle == /\ state = "none" /\ kind = "none" /\ output = [n |-> 0]
              /\ index = 0 /\ yielded = <<>> /\ nones = FALSE /\ array = {}
AggregateIdle == /\ phase = "idle" /\ todo = <<>> /\ adapters = <<>> /\ applied = {} /\ registered = <<>>
                 /\ address = 0 /\ submission = "none" /\ truth = <<>>
                 /\ result = [is |-> "none", answers |-> <<>>] /\ resets = FALSE /\ steps = 0
ShrinkIdle == given = [kind |-> "none", min |-> 0] /\ tree = [current |-> 0] /\ runner = "idle"
-----------------------------------------------------------------------------
(* Results of up to two cells in buffers of values 1, 2, ... up to a        *)
(* capacity; cells of width 1, 2, 3 or variable.                            *)

Memory(s) == IF s = <<>> THEN {Empty, Owned(s)} ELSE {Borrowed(s), Owned(s)}

Validities == {{}} \cup {{m} : m \in UNION {Memory(v) : v \in {<<>>, <<1, 0>>, <<0, 1, 1>>}}}
Structures == {Fixed(w) : w \in 1..3}
              \cup {VarCells(m) : m \in UNION {Memory(o) :
                        o \in {<<>>, <<0, 2>>, <<0, 1, 1>>, <<0, 2, 3>>, <<0, 0, 2, 9>>}}}

MCOutputs ==
    {o \in [n : 0..2,
            q : [data : UNION {Memory(Ramp(cap)) : cap \in {0, 3, 4}}, cells : Structures,
                 validity : Validities]] : IsOutput(o.n, o.q)}
-----------------------------------------------------------------------------
(* One or two aggregates over three fields. *)

MCFieldOf(name) ==
    CASE name = "a" -> [datatype |-> "UInt8", cvn |-> 1, nullable |-> TRUE]
      [] name = "b" -> [datatype |-> "Int32", cvn |-> 1, nullable |-> FALSE]
      [] name = "v" -> [datatype |-> "StringAscii", cvn |-> 0, nullable |-> TRUE]

MCRequests ==
    {<<r>> : r \in [function : {"Count", "NullCount", "Min", "Max", "Sum", "Mean"},
                    field : {"a", "b", "v"}, type : {"any", "u8", "u64", "i64"}]}
    \cup ([function : {"Count", "NullCount", "Min"}, field : {"a", "b"}, type : {"any"}]
          \X [function : {"Max", "Sum", "Mean", "Min"}, field : {"a", "b"}, type : {"any"}])
-----------------------------------------------------------------------------
(* Two fragments with a fixed and a string dimension. *)

MCVarSized == <<FALSE, TRUE>>

\* Byte by byte, a prefix first.
MCLeq(a, b) ==
    \/ a = b
    \/ \E n \in 0..Len(a) : /\ n < Len(b)
                            /\ SubSeq(a, 1, n) = SubSeq(b, 1, n)
                            /\ Len(a) = n \/ a[n + 1] < b[n + 1]

MCBoxes == {<< <<1>>, <<1>> >>, << <<1>>, <<2>> >>}
           \X {<< <<1>>, <<1, 2>> >>, << <<1, 2>>, <<2>> >>, << <<2>>, <<2>> >>}
-----------------------------------------------------------------------------
(* Up to seven records in three chunks, and sequences; tests that need     *)
(* some records or a number of them, and every test of three records.      *)

MCFails(test, kept) ==
    CASE test.is = "needs"   -> test.all \subseteq kept
      [] test.is = "atleast" -> Cardinality(kept) >= test.k
      [] test.is = "table"   -> kept \in test.failing

MCTests(n, tests) == [kind : {"records"}, n : n, min : 0..2, test : tests]
                     \cup [kind : {"sequence"}, n : n, min : {0}, test : tests]

MCInputs ==
    {x \in MCTests(0..7, [is : {"needs"}, all : {all \in SUBSET (1..7) : Cardinality(all) <= 2}]
                         \cup [is : {"atleast"}, k : 0..3])
           \cup MCTests({3}, [is : {"table"}, failing : SUBSET SUBSET (1..3)]) : x.min <= x.n}
-----------------------------------------------------------------------------
Init ==
    /\ part \in {"values", "output", "aggregate", "fragments", "handles", "shrinking"}
    /\ ValuesInit
    /\ IF part = "output"    THEN OutputInit    ELSE OutputIdle
    /\ IF part = "aggregate" THEN AggregateInit ELSE AggregateIdle
    /\ FragmentInit
    /\ LifecycleInit
    /\ IF part = "shrinking" THEN ShrinkInit    ELSE ShrinkIdle

Next ==
    \/ /\ part = "values" /\ (ValuesNext \/ MoreNext)
       /\ UNCHANGED <<part, outputVars, aggregateVars, fragmentVars, lifecycleVars, shrinkVars>>
    \/ /\ part = "output" /\ OutputNext
       /\ UNCHANGED <<part, input, aggregateVars, fragmentVars, lifecycleVars, shrinkVars>>
    \/ /\ part = "aggregate" /\ AggregateNext
       /\ UNCHANGED <<part, input, outputVars, fragmentVars, lifecycleVars, shrinkVars>>
    \/ /\ part = "fragments" /\ FragmentNext
       /\ UNCHANGED <<part, input, outputVars, aggregateVars, lifecycleVars, shrinkVars>>
    \/ /\ part = "handles" /\ LifecycleNext
       /\ UNCHANGED <<part, input, outputVars, aggregateVars, fragmentVars, shrinkVars>>
    \/ /\ part = "shrinking" /\ ShrinkNext
       /\ UNCHANGED <<part, input, outputVars, aggregateVars, fragmentVars, lifecycleVars>>

partsVars == <<part, input, outputVars, aggregateVars, fragmentVars, lifecycleVars, shrinkVars>>

\* The runner's steps, but for its giving up.
ShrinkGoesOn ==
    /\ part = "shrinking" /\ (Simplify \/ Complicate \/ RunTest \/ MoveBack)
    /\ UNCHANGED <<part, input, outputVars, aggregateVars, fragmentVars, lifecycleVars>>

Spec == Init /\ [][Next]_partsVars /\ WF_partsVars(ShrinkGoesOn)
=============================================================================
