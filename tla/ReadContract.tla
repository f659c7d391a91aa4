----------------------------- MODULE ReadContract -----------------------------
(***************************************************************************)
(* What ReadStepOutput (query/read/mod.rs) promises the caller of          *)
(* ReadQuery::step, with everything below the outermost call hidden.       *)
(*                                                                         *)
(* A query result is NCells cells in a fixed order.  The caller sees a     *)
(* position in that order and the last output it was given:                *)
(*   NotEnoughSpace   nothing was consumed, the position has not moved;    *)
(*   Intermediate     at least one further cell, never past the end;       *)
(*   Final            the rest, possibly nothing; the next submission      *)
(*                    starts over from the beginning.                      *)
(* An error promises only that the position does not go back, except to    *)
(* the beginning.                                                          *)
(***************************************************************************)
EXTENDS Integers

CONSTANT NCells   \* cells in the result of the query

VARIABLES pos,    \* cells handed over since the query (re)started
          ret     \* the last output, "none" before the first

vars == <<pos, ret>>

Outputs == {"none", "NotEnoughSpace", "Intermediate", "Final", "Err"}

TypeOK == pos \in 0..NCells /\ ret \in Outputs

Init == pos = 0 /\ ret = "none"

NotEnoughSpace == ret' = "NotEnoughSpace" /\ UNCHANGED pos

Intermediate == /\ pos' \in (pos + 1)..NCells
                /\ ret' = "Intermediate"

\* The query is complete: everything has been handed over, start over.
Final == pos' = 0 /\ ret' = "Final"

Error == /\ pos' = 0 \/ pos' \in pos..NCells
         /\ ret' = "Err"

\* The caller does something of its own with the buffers between two steps.
Forget == ret' = "none" /\ UNCHANGED pos

Next == NotEnoughSpace \/ Intermediate \/ Final \/ Error \/ Forget

Spec == Init /\ [][Next]_vars
=============================================================================
