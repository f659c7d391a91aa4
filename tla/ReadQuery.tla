------------------------------ MODULE ReadQuery ------------------------------
(***************************************************************************)
(* The read path of tiledb-api: a stack of read-query adapters over one    *)
(* QueryBase, driven by an application through ReadQuery::step,            *)
(* ReadQuery::execute or ReadQueryIterator (query/mod.rs, query/read/).    *)
(*                                                                         *)
(* A call of step() descends the stack, outermost adapter first: each      *)
(* adapter registers the buffers of its handles with the C query           *)
(* (RawReadHandle::attach_query) and calls its base.  QueryBase submits.   *)
(* The result then climbs back, and each adapter interprets it: it may     *)
(* turn it into NotEnoughSpace, reallocate, run its callback, fail or      *)
(* panic.  The descent, the submission and each adapter's half of the way  *)
(* back are separate actions; the order between them is the code's.        *)
(*                                                                         *)
(* The TileDB C library is external: CoreReturns is the contract the code  *)
(* relies on.  A cell is its number in the order of the result, a buffer   *)
(* the sequence of cells last written to it.                               *)
(***************************************************************************)
EXTENDS Sequences, ScratchAllocator

CONSTANTS
    Fields,        \* the fields (attributes and dimensions) being read
    VarFields,     \* those with CellValNum::Var
    CellValNum,    \* values per cell of each other field
    NCells,        \* the number of cells in the result of the query
    CellEnd,       \* CellEnd[f][i]: values in the first i cells of f
    Handles,       \* the RawReadHandles of the stack
    FieldOf,       \* the field each handle reads
    Managed,       \* the handles with a ManagedBuffer
    Allocator,     \* the allocator of each managed handle
    UserSpaces,    \* the buffers an application may supply for the others
    Stack,         \* the adapters, innermost first: [kind, args]
    ClearedBy,     \* what each adapter's callback answers to cleared()
    Drivers,       \* how the application runs the query
    MaxSpace,      \* bound: no further call of step() with a larger buffer
    MaxErrors      \* bound: errors of the C library and of the callbacks

Layers == 1..Len(Stack)

(***************************************************************************)
(* "raw" is RawReadQuery and VarRawReadQuery, "callback" the four queries  *)
(* of the macro query_read_callback, and "callback_var" the upper half of  *)
(* CallbackVarArgReadQuery, whose lower half is the "raw" adapter beneath. *)
(***************************************************************************)
LayerKinds == {"raw", "callback", "callback_var"}

Callbacks == {k \in Layers : Stack[k].kind # "raw"}

\* The handles adapter k attaches, in order, and those its callback is given.
Owned(k) == {Stack[k].args[i] : i \in DOMAIN Stack[k].args}
Given(k) == IF Stack[k].kind = "callback_var" THEN Owned(k - 1) ELSE Owned(k)

NoHandle == "NoHandle"
NoSpace  == [data |-> 0, offsets |-> NoBuffer, validity |-> NoBuffer]
NoResult == <<-1>>   \* equal to no sequence of cells
Stale    == 0    \* a read of buffer memory the last submission did not write

Prefix(n) == [i \in 1..n |-> i]

ASSUME FieldAssumption ==
    /\ NCells \in Nat
    /\ VarFields \subseteq Fields
    /\ CellValNum \in [Fields -> Nat \ {0}]
    /\ CellEnd \in [Fields -> [0..NCells -> Nat]]
    /\ \A f \in Fields :
         /\ \A i, j \in 0..NCells : i <= j => CellEnd[f][i] <= CellEnd[f][j]
         /\ f \notin VarFields =>
              \A i \in 0..NCells : CellEnd[f][i] = i * CellValNum[f]

ASSUME HandleAssumption ==
    /\ FieldOf \in [Handles -> Fields]
    /\ NoHandle \notin Handles
    /\ Managed \subseteq Handles
    /\ Allocator \in [Managed -> Allocators]
    /\ UserSpaces \in [Handles \ Managed -> SUBSET Space]
    /\ \A h \in Handles \ Managed : UserSpaces[h] # {}
    /\ \A h \in Managed :
         (Allocator[h].space.offsets # NoBuffer) <=> (FieldOf[h] \in VarFields)
    /\ \A h \in Handles \ Managed : \A s \in UserSpaces[h] :
         (s.offsets # NoBuffer) <=> (FieldOf[h] \in VarFields)

ASSUME StackAssumption ==
    /\ Stack \in Seq([kind : LayerKinds, args : Seq(Handles)])
    /\ Stack # <<>>
    /\ ClearedBy \in [Layers -> {"blank", "clone", "none"}]
    /\ \A k \in Layers :   \* register_var_raw over no handles is left out
         IF Stack[k].kind = "callback_var"
         THEN /\ Stack[k].args = <<>>
              /\ k > 1
              /\ Stack[k - 1].kind = "raw"
         ELSE Stack[k].args # <<>>
    /\ \A h \in Handles : \E k \in Layers : h \in Owned(k)
    /\ Drivers \subseteq {"step", "execute", "next"}
    /\ MaxSpace \in Nat /\ MaxErrors \in Nat

(***************************************************************************)
(* No two handles of the stack, in one adapter or in two, read the same    *)
(* field.  The builder does not check this.                                *)
(***************************************************************************)
DistinctFields ==
    /\ \A g, h \in Handles : FieldOf[g] = FieldOf[h] => g = h
    /\ \A j, k \in Layers : \A h \in Handles :
         h \in Owned(j) /\ h \in Owned(k) => j = k

VARIABLES
    \* the C query
    cursor,    \* cells returned since the query (re)started
    status,    \* what tiledb_query_get_status answers
    batch,     \* cells returned by the last submission
    reg,       \* field -> the handle and the buffers registered for it
    \* the read handles
    size,      \* the in/out size pointers handed to the C query
    cap,       \* the lengths of the buffers in the handle's location
    mem,       \* the cells the C query last wrote into them
    \* the callbacks
    callback,  \* is the Option<T> of each adapter Some?
    acc,       \* the cells each callback has been given, by argument
    out,       \* the cells of its last final_result
    missed,    \* has an error kept cells, or its reset, from this callback?
    \* control
    pc, layer, \* where the call is
    base,      \* the result on its way up
    driver,    \* what is calling step()
    query,     \* who owns the query: the application, its iterator, nobody
    ret,       \* the last output of the outermost step()
    errors     \* how many errors there have been

core      == <<cursor, status, batch, reg>>
handles   == <<size, cap, mem>>
callbacks == <<callback, acc, out, missed>>
control   == <<pc, layer, base, driver, query, ret, errors>>
vars      == <<core, handles, callbacks, control>>
-----------------------------------------------------------------------------
(***************************************************************************)
(* RawReadHandle                                                           *)
(***************************************************************************)

Spaces(h) == IF h \in Managed THEN {alloc(Allocator[h])} ELSE UserSpaces[h]

\* Mutant: the extra offset is counted as a cell.
last_read_ncells_CountsOffsets(h) ==
    IF FieldOf[h] \in VarFields THEN size[h].offsets
    ELSE size[h].data \div CellValNum[FieldOf[h]]

\* The cells the size pointers speak of.  With extra_element on, n > 0 cells
\* of a variable-length field come with n + 1 offsets, and none with none.
last_read_ncells(h) ==
    IF FieldOf[h] \in VarFields
    THEN IF size[h].offsets = 0 THEN 0 ELSE size[h].offsets - 1
    ELSE size[h].data \div CellValNum[FieldOf[h]]

\* The cells a reader of the buffers gets when it takes that many.
Chunk(h) == [i \in 1..last_read_ncells(h) |->
                IF i \in DOMAIN mem[h] THEN mem[h][i] ELSE Stale]

\* Mutant: a field is registered once only.
AttachAll_OnlyOnce(hs) ==
    /\ size' = [h \in Handles |-> IF h \in hs THEN cap[h] ELSE size[h]]
    /\ reg' = [f \in Fields |->
                 IF reg[f].handle = NoHandle /\ \E h \in hs : FieldOf[h] = f
                 THEN LET h == CHOOSE h \in hs : FieldOf[h] = f
                      IN  [handle |-> h, space |-> cap[h]]
                 ELSE reg[f]]

\* attach_query on each handle of the set hs, all of which succeed.
AttachAll(hs) ==
    /\ size' = [h \in Handles |-> IF h \in hs THEN cap[h] ELSE size[h]]
    /\ reg' = [f \in Fields |->
                 IF \E h \in hs : FieldOf[h] = f
                 THEN LET h == CHOOSE h \in hs : FieldOf[h] = f
                      IN  [handle |-> h, space |-> cap[h]]
                 ELSE reg[f]]

\* Mutant: nothing is reallocated.
ReallocManaged_Nothing(hs) == cap' = cap

\* realloc_if_managed on each handle of the set hs.
ReallocManaged(hs) ==
    cap' = [h \in Handles |-> IF h \in hs \cap Managed
                              THEN realloc(Allocator[h], cap[h]) ELSE cap[h]]

EmptyArgs(k) == {i \in DOMAIN Stack[k].args : last_read_ncells(Stack[k].args[i]) = 0}
-----------------------------------------------------------------------------
(***************************************************************************)
(* The C query (external).  A submission writes the next cells, in order,  *)
(* to the buffers registered for each field, the same number for all, and  *)
(* sets the registered size pointers.  It makes progress whenever one cell *)
(* fits all of them; it is COMPLETED only with the last cell, and a        *)
(* COMPLETED query that is submitted again starts over.                    *)
(***************************************************************************)
Start == IF status = "COMPLETED" THEN 0 ELSE cursor

Registered == {f \in Fields : reg[f].handle # NoHandle}

Fits(f, n) ==
    LET room == size[reg[f].handle]
    IN  /\ CellEnd[f][Start + n] - CellEnd[f][Start] <= room.data
        /\ room.offsets # NoBuffer  => n = 0 \/ n + 1 <= room.offsets
        /\ room.validity # NoBuffer => n <= room.validity

Remaining == NCells - Start

FitsAll(n) == \A f \in Registered : Fits(f, n)

Target(h) == reg[FieldOf[h]].handle = h

CoreReturns(n) ==
    /\ n \in 0..Remaining
    /\ FitsAll(n)
    /\ n = 0 /\ Remaining > 0 => ~FitsAll(1)
    /\ cursor' = Start + n
    /\ batch' = n
    /\ size' = [h \in Handles |->
         IF ~Target(h) THEN size[h] ELSE
         [data     |-> CellEnd[FieldOf[h]][Start + n] - CellEnd[FieldOf[h]][Start],
          offsets  |-> IF size[h].offsets = NoBuffer THEN NoBuffer
                       ELSE IF n = 0 THEN 0 ELSE n + 1,
          validity |-> IF size[h].validity = NoBuffer THEN NoBuffer ELSE n]]
    /\ mem' = [h \in Handles |->
         IF Target(h) THEN [i \in 1..n |-> Start + i] ELSE mem[h]]
    /\ UNCHANGED <<reg, cap>>
-----------------------------------------------------------------------------
Init ==
    /\ cursor = 0 /\ batch = 0 /\ status = "UNINITIALIZED"
    /\ reg = [f \in Fields |-> [handle |-> NoHandle, space |-> NoSpace]]
    /\ cap \in {c \in [Handles -> UNION {Spaces(h) : h \in Handles}] :
                  \A h \in Handles : c[h] \in Spaces(h)}
    /\ size = cap
    /\ mem = [h \in Handles |-> <<>>]
    /\ callback = [k \in Layers |-> k \in Callbacks]
    /\ acc = [h \in Handles |-> <<>>]
    /\ out = [h \in Handles |-> NoResult]
    /\ missed = [k \in Layers |-> FALSE]
    /\ pc = "idle" /\ layer = 0 /\ base = "none" /\ driver = "none"
    /\ query = "application" /\ ret = "none" /\ errors = 0
-----------------------------------------------------------------------------
(***************************************************************************)
(* The application, between two calls.                                     *)
(***************************************************************************)

\* It calls step() or execute(), or asks its iterator for the next item.
Call(d) ==
    /\ pc = "idle"
    /\ d \in Drivers
    /\ query = IF d = "next" THEN "iterator" ELSE "application"
    /\ \A h \in Managed : cap[h].data <= MaxSpace
    /\ pc' = "attach" /\ layer' = Len(Stack) /\ driver' = d
    /\ UNCHANGED <<core, handles, callbacks, base, query, ret, errors>>

\* into_iter moves the query into a ReadQueryIterator.
IntoIter ==
    /\ pc = "idle"
    /\ "next" \in Drivers
    /\ query = "application"
    /\ query' = "iterator"
    /\ UNCHANGED <<core, handles, callbacks, pc, layer, base, driver, ret, errors>>

\* It puts other buffers into the RefCell of a handle it manages itself.
ReplaceBuffers(h) ==
    /\ pc = "idle"
    /\ h \in Handles \ Managed
    /\ \E s \in UserSpaces[h] \ {cap[h]} : cap' = [cap EXCEPT ![h] = s]
    /\ mem' = [mem EXCEPT ![h] = <<>>]
    /\ ret' = "none"
    /\ UNCHANGED <<core, size, callbacks, pc, layer, base, driver, query, errors>>
-----------------------------------------------------------------------------
(***************************************************************************)
(* The way down: every adapter attaches its handles and calls its base.    *)
(***************************************************************************)

\* An error leaves through every adapter's `?'; an iterator drops the query.
Fail ==
    /\ errors < MaxErrors
    /\ errors' = errors + 1
    /\ pc' = "idle" /\ ret' = "Err"
    /\ query' = IF driver = "next" THEN "nobody" ELSE query
    /\ UNCHANGED <<layer, base, driver>>

Attach ==
    /\ pc = "attach" /\ layer > 0
    /\ AttachAll(Owned(layer))
    /\ layer' = layer - 1
    /\ UNCHANGED <<cursor, status, batch, cap, mem, callbacks,
                   pc, base, driver, query, ret, errors>>

\* The C library refuses a buffer: the handles before it stay attached.
AttachFails ==
    /\ pc = "attach" /\ layer > 0
    /\ \E j \in DOMAIN Stack[layer].args :
         AttachAll({Stack[layer].args[i] : i \in 1..(j - 1)})
    /\ Fail
    /\ UNCHANGED <<cursor, status, batch, cap, mem, callbacks>>

(***************************************************************************)
(* QueryBase::step submits and translates the status.                      *)
(***************************************************************************)
Submit(s, output) ==
    /\ pc = "attach" /\ layer = 0
    /\ status' = s
    /\ base' = output
    /\ pc' = "return" /\ layer' = 1
    /\ UNCHANGED <<callbacks, driver, query, ret, errors>>

SubmitComplete == CoreReturns(Remaining) /\ Submit("COMPLETED", "Final")

SubmitIncomplete ==
    /\ Remaining > 0
    /\ \E n \in 0..Remaining : CoreReturns(n)
    /\ Submit("INCOMPLETE", "Intermediate")

\* tiledb_query_submit fails, or leaves the query in status FAILED.
SubmitFails ==
    /\ pc = "attach" /\ layer = 0
    /\ Fail
    /\ UNCHANGED <<core, handles, callbacks>>
-----------------------------------------------------------------------------
(***************************************************************************)
(* The way up, at the adapter called `layer'.                              *)
(***************************************************************************)
Climb(output) == base' = output /\ layer' = layer + 1

At(kinds) == /\ pc = "return" /\ layer \in Layers
             /\ Stack[layer].kind \in kinds

\* Mutants: any Intermediate, or none, is turned into NotEnoughSpace.
RawNoRoom_Always(k) == base = "Intermediate"
RawNoRoom_Never(k)  == FALSE

RawNoRoom(k) == base = "Intermediate" /\ EmptyArgs(k) # {}

\* RawReadQuery::step and VarRawReadQuery::step after base.step().
RawReturn ==
    /\ At({"raw"})
    /\ \/ /\ base = "NotEnoughSpace"
          /\ ReallocManaged(Owned(layer))
          /\ Climb("NotEnoughSpace")
       \/ /\ RawNoRoom(layer)
          /\ UNCHANGED cap
          /\ Climb("NotEnoughSpace")
       \/ /\ base # "NotEnoughSpace" /\ ~RawNoRoom(layer)
          /\ UNCHANGED cap
          /\ Climb(base)
    /\ UNCHANGED <<core, size, mem, callbacks, pc, driver, query, ret, errors>>

(***************************************************************************)
(* The macro looks at its arguments in order and borrows the location of   *)
(* each before it looks at the next, so an argument before the first empty *)
(* one is still borrowed when all the managed buffers are reallocated.     *)
(***************************************************************************)
NoRoom_BaseOnly(k) == base = "NotEnoughSpace"        \* mutant: no cell is counted
NoRoom_NotBase(k)  ==                                \* mutant: only INCOMPLETE is
    base = "Intermediate" /\ EmptyArgs(k) # {}

NoRoom(k) ==
    IF Stack[k].kind = "callback_var" THEN base = "NotEnoughSpace"
    ELSE base # "Final" /\ EmptyArgs(k) # {}

BorrowedAtRealloc(k) ==
    \E i \in DOMAIN Stack[k].args :
        Stack[k].args[i] \in Managed /\ \A j \in EmptyArgs(k) : i < j

\* NotEnoughSpace, with every managed buffer of this adapter reallocated.
CallbackNotEnoughSpace ==
    /\ At({"callback", "callback_var"})
    /\ NoRoom(layer)
    /\ ~BorrowedAtRealloc(layer)
    /\ ReallocManaged(Owned(layer))
    /\ Climb("NotEnoughSpace")
    /\ UNCHANGED <<core, size, mem, callbacks, pc, driver, query, ret, errors>>

\* The adapter has cells for its callback, and the callback is there.
CanRun(output) ==
    /\ At({"callback", "callback_var"})
    /\ base = output /\ ~NoRoom(layer)
    /\ callback[layer]

\* Mutant: the cells replace those of the step before.
Taken_Overwrites(k) == [h \in Handles |-> IF h \in Given(k) THEN Chunk(h) ELSE acc[h]]

Taken(k) == [h \in Handles |-> IF h \in Given(k) THEN acc[h] \o Chunk(h) ELSE acc[h]]

CallbackIntermediate ==
    /\ CanRun("Intermediate")
    /\ acc' = Taken(layer)
    /\ Climb(base)
    /\ UNCHANGED <<core, handles, callback, out, missed, pc, driver, query, ret, errors>>

\* Mutants: the old callback is put back; nothing is put back.
Clear_KeepsOld(k) == UNCHANGED <<callback, acc>>

Clear_Takes(k) ==
    /\ callback' = [callback EXCEPT ![k] = FALSE]
    /\ acc' = [h \in Handles |-> IF h \in Given(k) THEN <<>> ELSE acc[h]]

\* take() the callback, put cleared() in its place.
Clear(k) ==
    /\ callback' = [callback EXCEPT ![k] = ClearedBy[k] # "none"]
    /\ acc' = [h \in Handles |->
                 IF h \in Given(k) /\ ClearedBy[k] # "clone" THEN <<>> ELSE acc[h]]

\* Mutant: final_result forgets the cells that came with it.
CallbackFinal_DropsLast ==
    /\ CanRun("Final")
    /\ Clear(layer)
    /\ out' = [h \in Handles |-> IF h \in Given(layer) THEN acc[h] ELSE out[h]]
    /\ missed' = [missed EXCEPT ![layer] = FALSE]
    /\ Climb(base)
    /\ UNCHANGED <<core, handles, pc, driver, query, ret, errors>>

CallbackFinal ==
    /\ CanRun("Final")
    /\ Clear(layer)
    /\ out' = [h \in Handles |-> IF h \in Given(layer) THEN Taken(layer)[h] ELSE out[h]]
    /\ missed' = [missed EXCEPT ![layer] = FALSE]
    /\ Climb(base)
    /\ UNCHANGED <<core, handles, pc, driver, query, ret, errors>>

(***************************************************************************)
(* intermediate_result or final_result answers Err.  The C query has       *)
(* already moved on: this callback and those above never see the cells,    *)
(* and after a Final those above are not cleared either.                   *)
(***************************************************************************)
CallbackFails ==
    /\ \/ /\ CanRun("Intermediate")
          /\ missed' = [k \in Layers |-> missed[k] \/ k >= layer]
          /\ UNCHANGED <<callback, acc>>
       \/ /\ CanRun("Final")
          /\ missed' = [k \in Layers |-> (missed[k] /\ k # layer) \/ k > layer]
          /\ Clear(layer)
    /\ Fail
    /\ UNCHANGED <<core, handles, out>>

\* replace() of a borrowed RefCell; unreachable!(); unimplemented!().
Panics(k) ==
    \/ NoRoom(k) /\ BorrowedAtRealloc(k)
    \/ ~NoRoom(k) /\ base = "NotEnoughSpace"
    \/ ~NoRoom(k) /\ base # "NotEnoughSpace" /\ ~callback[k]

CallbackPanics ==
    /\ At({"callback", "callback_var"})
    /\ Panics(layer)
    /\ pc' = "panic"
    /\ UNCHANGED <<core, handles, callbacks, layer, base, driver, query, ret, errors>>

\* Mutant: the iterator keeps a query that is final.
Return_KeepsQuery ==
    /\ pc = "return" /\ layer = Len(Stack) + 1
    /\ ret' = base
    /\ pc' = "idle"
    /\ UNCHANGED <<core, handles, callbacks, layer, base, driver, query, errors>>

\* The outermost adapter returns to step(), execute()'s loop, or next().
Return ==
    /\ pc = "return" /\ layer = Len(Stack) + 1
    /\ ret' = base
    /\ IF driver = "execute" /\ base # "Final"
       THEN pc' = "attach" /\ layer' = Len(Stack) /\ UNCHANGED query
       ELSE /\ pc' = "idle" /\ UNCHANGED layer
            /\ query' = IF driver = "next" /\ base = "Final" THEN "nobody" ELSE query
    /\ UNCHANGED <<core, handles, callbacks, base, driver, errors>>
-----------------------------------------------------------------------------
Running ==
    \/ Attach \/ AttachFails
    \/ SubmitComplete \/ SubmitIncomplete \/ SubmitFails
    \/ RawReturn
    \/ CallbackNotEnoughSpace \/ CallbackIntermediate \/ CallbackFinal
    \/ CallbackFails \/ CallbackPanics
    \/ Return

Next ==
    \/ \E d \in Drivers : Call(d)
    \/ IntoIter
    \/ \E h \in Handles : ReplaceBuffers(h)
    \/ Running

Spec == Init /\ [][Next]_vars

(***************************************************************************)
(* A call runs on the caller's thread: once made, it goes on by itself.    *)
(* What the application does between calls is not forced.                  *)
(***************************************************************************)
FairSpec == Spec /\ WF_vars(Running)
-----------------------------------------------------------------------------
(***************************************************************************)
(* Properties.                                                             *)
(***************************************************************************)
CoreOK ==
    /\ cursor \in 0..NCells /\ batch \in 0..cursor
    /\ status \in {"UNINITIALIZED", "INCOMPLETE", "COMPLETED"}
    /\ reg \in [Fields -> [handle : Handles \cup {NoHandle}, space : Space]]

HandlesOK ==
    /\ size \in [Handles -> Space] /\ cap \in [Handles -> Space]
    /\ mem \in [Handles -> Seq(1..NCells)]

CallbacksOK ==
    /\ callback \in [Layers -> BOOLEAN] /\ missed \in [Layers -> BOOLEAN]
    /\ acc \in [Handles -> Seq(0..NCells)]
    /\ out \in [Handles -> Seq(0..NCells) \cup {NoResult}]

ControlOK ==
    /\ pc \in {"idle", "attach", "return", "panic"}
    /\ layer \in 0..(Len(Stack) + 1) /\ (pc = "attach" => layer <= Len(Stack))
    /\ base \in {"none", "NotEnoughSpace", "Intermediate", "Final"}
    /\ pc = "return" => layer > 0 /\ base # "none"
    /\ driver \in Drivers \cup {"none"}
    /\ query \in {"application", "iterator", "nobody"}
    /\ ret \in {"none", "NotEnoughSpace", "Intermediate", "Final", "Err"}
    /\ errors \in 0..MaxErrors

TypeOK == CoreOK /\ HandlesOK /\ CallbacksOK /\ ControlOK

\* The cells that adapter k should have seen since the query last (re)started.
Seen(k) == IF pc = "return" /\ layer <= k THEN cursor - batch ELSE Start

(***************************************************************************)
(* Unless an error came between, every callback of the stack has been      *)
(* given each cell the C query has returned exactly once and in order,     *)
(* for each of its arguments, however NotEnoughSpace, reallocations,       *)
(* failed submissions and restarts were interleaved (callback.rs step).    *)
(***************************************************************************)
ExactlyOnce ==
    pc # "panic" =>
        \A k \in Callbacks : callback[k] /\ ~missed[k] =>
            \A h \in Given(k) : acc[h] = Prefix(Seen(k))

(***************************************************************************)
(* A final_result is built from the whole query result, once, whichever    *)
(* execution of the query it closes (ReadStepOutput::Final).               *)
(***************************************************************************)
FinalIsWhole ==
    [][\A k \in Callbacks : ~missed[k] =>
          \A h \in Given(k) : out'[h] # out[h] => out'[h] = Prefix(NCells)]_vars

(***************************************************************************)
(* An application that reads the buffers itself after a step finds in them *)
(* exactly the cells that step returned: the ncells of RawReadQuery::step  *)
(* count cells this submission wrote, and none was overwritten on the way. *)
(***************************************************************************)
RawBuffersFresh ==
    pc = "idle" /\ ret \in {"Intermediate", "Final"} =>
        \A h \in Handles : Chunk(h) = [i \in 1..batch |-> cursor - batch + i]

(***************************************************************************)
(* The C query keeps raw pointers to buffers between submissions, and the  *)
(* buffers move when they are reallocated or replaced.  At each submission *)
(* every field has been registered anew with the current buffers of its    *)
(* handle, at their full length (RawReadHandle::attach_query).             *)
(***************************************************************************)
SubmitsCurrentBuffers ==
    pc = "attach" /\ layer = 0 =>
        \A h \in Handles :
            /\ reg[FieldOf[h]] = [handle |-> h, space |-> cap[h]]
            /\ size[h] = cap[h]

\* The managed buffers that are reallocated on the way up.  A "raw" adapter
\* right above QueryBase reallocates nothing.
Reallocatable == {h \in Managed : \E k \in Layers :
                     h \in Owned(k) /\ (k > 1 \/ Stack[k].kind # "raw")}

(***************************************************************************)
(* When step() answers NotEnoughSpace, every buffer the query manages has  *)
(* become longer than what this step offered to the C query, so that       *)
(* repeating the call is not in vain (ManagedBuffer::realloc).             *)
(***************************************************************************)
NotEnoughSpaceGrows ==
    pc = "return" /\ layer = Len(Stack) + 1 /\ base = "NotEnoughSpace" =>
        \A h \in Reallocatable : Roomier(cap[h], reg[FieldOf[h]].space)

\* unreachable!(), unimplemented!() and BorrowMutError are never reached.
NoPanic == pc # "panic"

(***************************************************************************)
(* The only panic of the adapters is unimplemented!(), for a callback that *)
(* was consumed by a final_result and had no cleared() instance.           *)
(***************************************************************************)
PanicsOnlyUncleared == pc = "panic" => layer \in Callbacks /\ ~callback[layer]

(***************************************************************************)
(* execute() "runs the query to completion": once called it returns, with  *)
(* the final result or an error.                                           *)
(***************************************************************************)
ExecuteReturns == (driver = "execute" /\ pc # "idle") ~> (pc = "idle")

\* Seen from outside, the stack keeps the contract of ReadStepOutput.
Position == IF pc \in {"return", "panic"} THEN cursor - batch ELSE Start

Contract == INSTANCE ReadContract WITH pos <- Position, ret <- ret

KeepsContract == Contract!Spec
-----------------------------------------------------------------------------
(***************************************************************************)
(* The inductive invariant of a stack with DistinctFields, none of whose   *)
(* callbacks answers cleared() with a clone.                               *)
(***************************************************************************)
NoClones == \A k \in Layers : ClearedBy[k] # "clone"

\* On the way down, the adapters above have registered their buffers.
Attached ==
    pc = "attach" =>
        \A j \in Layers : j > layer =>
            \A h \in Owned(j) :
                /\ reg[FieldOf[h]] = [handle |-> h, space |-> cap[h]]
                /\ size[h] = cap[h]

\* A handle has offsets if and only if its field is variable-length, and a
\* managed one is still a space of its allocator.
Shaped ==
    /\ \A h \in Handles : cap[h].offsets # NoBuffer <=> FieldOf[h] \in VarFields
    /\ \A h \in Managed : [kind |-> Allocator[h].kind, space |-> cap[h]] \in Allocators

\* The cells of the last submission.
Batch == [i \in 1..batch |-> cursor - batch + i]

\* What the buffers hold until they are offered again, or replaced.
Fresh ==
    pc = "return" \/ (pc = "idle" /\ ret \in {"Intermediate", "Final"}) =>
        \A h \in Handles : last_read_ncells(h) = batch /\ mem[h] = Batch

\* Every adapter judges a submission alike: the first one has decided.
Judged ==
    pc = "return" =>
        /\ base = "Final" <=> status = "COMPLETED"
        /\ base = "Final" => cursor = NCells
        /\ base = "NotEnoughSpace" => batch = 0
        /\ base = "Intermediate" /\ layer > 1 => batch > 0

\* On the way up, the buffers above are those that were offered, and with
\* NotEnoughSpace those below have grown.
Offered ==
    pc = "return" =>
        \A j \in Layers : \A h \in Owned(j) :
            /\ j >= layer => cap[h] = reg[FieldOf[h]].space
            /\ /\ base = "NotEnoughSpace" /\ j < layer
               /\ h \in Managed /\ (j > 1 \/ Stack[j].kind # "raw")
               => Roomier(cap[h], reg[FieldOf[h]].space)

\* A callback that can always be cleared is always there.
Present ==
    (\A k \in Callbacks : ClearedBy[k] # "none") => \A k \in Callbacks : callback[k]

Inductive ==
    /\ Attached /\ Shaped /\ Fresh /\ Judged /\ Offered /\ Present
    /\ ExactlyOnce /\ PanicsOnlyUncleared
=============================================================================
