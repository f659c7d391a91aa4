----------------------------- MODULE Lifecycle ------------------------------
(***************************************************************************)
(* The C handles behind the wrapper types, and who frees them.  A wrapper  *)
(* value owns handles of the C library and usually a clone of the Context; *)
(* an operation is a call of the library that may fail, and a value that   *)
(* an operation consumes is dropped if it does.  Dropping a value drops    *)
(* its fields in the order of their declaration, and the last clone of the *)
(* Context frees the C context.                                            *)
(*                                                                         *)
(* The library is an interpreter of the calls it gets: it notes each one   *)
(* on a handle or a context that is gone.  One thread runs all of this:    *)
(* Context is not Send.                                                    *)
(***************************************************************************)
EXTENDS Naturals, FiniteSets, SequencesExt

CONSTANTS
    MaxHandles,  \* handles of one behaviour
    MaxFailures  \* failed calls of one behaviour

VARIABLES
    library,   \* [context, handle, misused]: handle[h] is [kind, live, open, of]
    values,    \* what the application holds: [type, handles, borrows]
    thread,    \* "running", "unwinding" after a panic, or "aborted"
    leaked,    \* the live handles that no value owns any more
    unclosed,  \* a drop could not close what it dropped
    failures

lifecycleVars == <<library, values, thread, leaked, unclosed, failures>>

Contextless == {"Config", "ConfigIterator"}

Value(type, handles, borrows) == [type |-> type, handles |-> handles, borrows |-> borrows]

\* The handle the library would give out now.
NewHandle == Len(library.handle) + 1

\* A handle that refers to those of "of".
AllocatedFrom(kind, of) ==
    [library EXCEPT !.handle = Append(@, [kind |-> kind, live |-> TRUE, open |-> FALSE, of |-> of])]

Referring == {"subarray", "config_iter"}

Allocated(kind) == AllocatedFrom(kind, {})

\* What a call of the library does; handle 0 is the context.
Called(s, call) ==
    LET h    == call.handle
        gone == \/ h # 0 /\ ~s.handle[h].live
                \/ call.op # "free" /\ \E q \in s.handle[h].of : ~s.handle[q].live
                \/ call.op # "free" /\ s.context = "freed" /\ s.handle[h].kind \notin {"config", "config_iter"}
    IN  [(IF h = 0 THEN [s EXCEPT !.context = "freed"]
          ELSE CASE call.op = "free"  -> [s EXCEPT !.handle[h].live = FALSE]
                 [] call.op = "open"  -> [s EXCEPT !.handle[h].open = TRUE]
                 [] call.op = "close" -> [s EXCEPT !.handle[h].open = FALSE]
                 [] OTHER             -> s)
         EXCEPT !.misused = @ \/ gone]

\* One call after another.
Calls(s, calls) ==
    LET after[i \in 0..Len(calls)] == IF i = 0 THEN s ELSE Called(after[i - 1], calls[i])
    IN  after[Len(calls)]

On(op, h) == [op |-> op, handle |-> h]
-----------------------------------------------------------------------------
(***************************************************************************)
(* Dropping.                                                               *)
(***************************************************************************)
\* Array::drop and Group::drop ask whether the handle is open, and close it if it is.
CloseCalls(h) ==
    <<On("is_open", h)>> \o (IF library.handle[h].open THEN <<On("close", h)>> ELSE <<>>)

Closes(v) == v.type \in {"Array", "ArrayOpener", "ArrayReopener", "Query", "SubarrayBuilder", "Group"}

HoldsContext(v) == v.type \notin Contextless

\* The last clone of the Context, when v goes.
LastContext(v) == HoldsContext(v) /\ \A w \in values \ {v} : ~HoldsContext(w)

\* The fields after it: the context of the value or of the array in it, then the handles.
FieldCalls(v) ==
    (IF LastContext(v) /\ library.context = "live" THEN <<On("free", 0)>> ELSE <<>>)
    \o [i \in DOMAIN v.handles |-> On("free", v.handles[i])]

DropCalls(v) == (IF Closes(v) THEN CloseCalls(v.handles[1]) ELSE <<>>) \o FieldCalls(v)

\* The library fails one of the calls of Drop: the drop panics, and its fields go all the same.
DropPanics(v) ==
    /\ Closes(v) /\ failures < MaxFailures
    /\ library' = Calls(library, <<On("is_open", v.handles[1])>> \o FieldCalls(v))
    /\ unclosed' = (unclosed \/ library.handle[v.handles[1]].open)
    /\ failures' = failures + 1
    /\ thread' = IF thread = "unwinding" THEN "aborted" ELSE "unwinding"

DropQuietly(v) ==
    /\ library' = Calls(library, DropCalls(v))
    /\ UNCHANGED <<thread, unclosed, failures>>

\* Nothing borrows from v, so it may be moved or dropped.
Movable(v) == \A w \in values : w.borrows \cap ToSet(v.handles) = {}

\* The end of a scope, or what is left of the stack when it unwinds.
DropValue ==
    \E v \in values :
        /\ Movable(v) /\ thread # "aborted"
        /\ values' = values \ {v}
        /\ DropQuietly(v) \/ DropPanics(v)
        /\ UNCHANGED leaked
-----------------------------------------------------------------------------
(***************************************************************************)
(* Calls that fail.  capi_call asks the context for its last error, whose  *)
(* handle goes as soon as it is read; without one it panics.               *)
(***************************************************************************)
CallFails(keeps) ==
    /\ failures < MaxFailures
    /\ failures' = failures + 1
    /\ thread' \in {"running", "unwinding"}
    /\ library' = keeps
    /\ UNCHANGED values

\* A handle that the failed call leaves without an owner.
Leaks(kind) ==
    CallFails(Allocated(kind)) /\ leaked' = leaked \cup {NewHandle} /\ UNCHANGED unclosed

CallFailed == CallFails(library) /\ UNCHANGED <<leaked, unclosed>>

\* The call consumed v: it is dropped on the way out.
FailsDropping(v) ==
    /\ values' = values \ {v}
    /\ \/ /\ failures < MaxFailures
          /\ library' = Calls(library, DropCalls(v))
          /\ failures' = failures + 1
          /\ thread' \in {"running", "unwinding"}
          /\ UNCHANGED unclosed
       \/ /\ failures + 1 < MaxFailures
          /\ Closes(v)
          /\ library' = Calls(library, <<On("is_open", v.handles[1])>> \o FieldCalls(v))
          /\ unclosed' = (unclosed \/ library.handle[v.handles[1]].open)
          /\ failures' = failures + 2
          /\ thread' \in {"unwinding", "aborted"}
    /\ UNCHANGED leaked

Room == thread = "running" /\ Len(library.handle) < MaxHandles

HasContext == \E v \in values : HoldsContext(v)

\* A call on v that gives out a handle, which gets its owner at once.
Creates(v, type, kind, borrows) ==
    /\ library' = Calls(AllocatedFrom(kind, IF kind \in Referring THEN ToSet(v.handles) ELSE {}),
                       [i \in DOMAIN v.handles |-> On("get", v.handles[i])])
    /\ values' = values \cup {Value(type, <<NewHandle>>, borrows)}
    /\ UNCHANGED <<thread, leaked, unclosed, failures>>

\* A call on v that leaves it as it was.
Uses(v, op) ==
    /\ library' = Calls(library, <<On(op, v.handles[1])>>)
    /\ UNCHANGED <<values, thread, leaked, unclosed, failures>>

\* v becomes another value, with other handles.
Becomes(v, type, handles, after) ==
    /\ values' = (values \ {v}) \cup {Value(type, handles, {})}
    /\ library' = after
    /\ UNCHANGED <<thread, leaked, unclosed, failures>>

Of(types) == {v \in values : v.type \in types /\ thread = "running"}
-----------------------------------------------------------------------------
LifecycleInit ==
    /\ library = [context |-> "live", handle |-> <<>>, misused |-> FALSE]
    /\ values = {Value("Context", <<>>, {})}
    /\ thread = "running" /\ leaked = {} /\ unclosed = FALSE /\ failures = 0

(* Config and Context *)
config_new == Room /\ (CallFailed \/ Creates(Value("", <<>>, {}), "Config", "config", {}))

\* An iterator that cannot be had is a panic.
config_iter ==
    Room /\ \E v \in Of({"Config"}) :
        \/ CallFailed /\ thread' = "unwinding"
        \/ Creates(v, "ConfigIterator", "config_iter", ToSet(v.handles))

\* Setters take the Config exclusively.
config_set == \E v \in Of({"Config"}) : Movable(v) /\ (CallFailed \/ Uses(v, "set"))

config_next == \E v \in Of({"ConfigIterator"}) : Uses(v, "next")

get_config ==
    Room /\ \E v \in Of({"Context", "VFS", "Group", "FragmentInfoList"}) :
                CallFailed \/ Creates(v, "Config", "config", {})

(* Arrays *)
opener_new ==
    Room /\ HasContext /\ (CallFailed \/ Creates(Value("", <<>>, {}), "ArrayOpener", "array", {}))

opener_set ==
    \E v \in Of({"ArrayOpener", "ArrayReopener"}) : FailsDropping(v) \/ Uses(v, "set")

\* An array that is open is not opened, one that is not open is not reopened.
opener_open ==
    \E v \in Of({"ArrayOpener", "ArrayReopener"}) :
        LET h == v.handles[1]
        IN  \/ FailsDropping(v)
            \/ /\ library.handle[h].open = (v.type = "ArrayReopener")
               /\ Becomes(v, "Array", v.handles, Calls(library, <<On("open", h)>>))

array_reopen ==
    \E v \in Of({"Array"}) : Movable(v) /\ Becomes(v, "ArrayReopener", v.handles, library)

array_metadata == \E v \in Of({"Array"}) : CallFailed \/ Uses(v, "metadata")

array_schema == Room /\ \E v \in Of({"Array"}) : CallFailed \/ Creates(v, "Schema", "schema", {})

get_enumeration == Room /\ \E v \in Of({"Array"}) : CallFailed \/ Creates(v, "Enumeration", "enumeration", {})

(* Schemas: Builder::new sets the domain before the handle has its owner *)
schema_builder_new ==
    Room /\ HasContext
    /\ (CallFailed \/ Leaks("schema") \/ Creates(Value("", <<>>, {}), "Schema", "schema", {}))

evolution_new == Room /\ HasContext /\ (CallFailed \/ Creates(Value("", <<>>, {}), "SchemaEvolution", "evolution", {}))

evolution_set == \E v \in Of({"SchemaEvolution"}) : FailsDropping(v) \/ Uses(v, "set")

\* evolve consumes the evolution.
evolve ==
    \E v \in Of({"SchemaEvolution"}) :
        \/ FailsDropping(v)
        \/ /\ values' = values \ {v}
           /\ library' = Calls(library, <<On("evolve", v.handles[1])>> \o DropCalls(v))
           /\ UNCHANGED <<thread, leaked, unclosed, failures>>

(* Queries own their array *)
builder_new ==
    Room /\ \E v \in Of({"Array"}) :
        /\ Movable(v)
        /\ FailsDropping(v) \/ Becomes(v, "Query", Append(v.handles, NewHandle), Allocated("query"))

query_set == \E v \in Of({"Query", "SubarrayBuilder"}) : Movable(v) /\ (FailsDropping(v) \/ Uses(v, "set"))

\* Mutant: a subarray without the lifetime of its query.
query_subarray_Untied ==
    Room /\ \E v \in Of({"Query"}) :
        CallFailed \/ Leaks("subarray") \/ Creates(v, "Subarray", "subarray", {})

\* The subarray the query has: it borrows the query.  Its schema is asked for after it.
query_subarray ==
    Room /\ \E v \in Of({"Query"}) :
        CallFailed \/ Leaks("subarray") \/ Creates(v, "Subarray", "subarray", ToSet(v.handles))

subarray_ranges == \E v \in Of({"Subarray"}) : CallFailed \/ Uses(v, "ranges")

start_subarray ==
    Room /\ \E v \in Of({"Query"}) :
        /\ Movable(v)
        /\ FailsDropping(v) \/ Becomes(v, "SubarrayBuilder", Append(v.handles, NewHandle), Allocated("subarray"))

finish_subarray ==
    \E v \in Of({"SubarrayBuilder"}) :
        \/ FailsDropping(v)
        \/ Becomes(v, "Query", Front(v.handles),
                   Calls(library, <<On("set", v.handles[2]), On("free", Last(v.handles))>>))

finalize ==
    \E v \in Of({"Query"}) :
        /\ Movable(v)
        /\ \/ FailsDropping(v)
           \/ Becomes(v, "Array", <<v.handles[1]>>,
                      Calls(library, <<On("finalize", v.handles[2]), On("free", v.handles[2])>>))

(* Groups: the handle has no owner until the configuration is set *)
group_open ==
    Room /\ HasContext
    /\ \/ CallFailed
       \/ Leaks("group")
       \/ \E opened \in BOOLEAN :  \* a RawGroup frees what it holds without closing it
             /\ CallFails(Calls(Allocated("group"), (IF opened THEN <<On("open", NewHandle)>> ELSE <<>>)
                                                    \o <<On("free", NewHandle)>>))
             /\ unclosed' = (unclosed \/ opened)
             /\ UNCHANGED leaked
       \/ /\ library' = Calls(Allocated("group"), <<On("open", NewHandle), On("is_open", NewHandle)>>)
          /\ values' = values \cup {Value("Group", <<NewHandle>>, {})}
          /\ UNCHANGED <<thread, leaked, unclosed, failures>>

group_metadata == \E v \in Of({"Group"}) : CallFailed \/ Uses(v, "metadata")

\* By index, the library gives out the URI and the name as strings; the URI has no owner
\* yet when the name turns out not to be UTF-8.
group_member ==
    /\ Room
    /\ \E v \in Of({"Group"}) : CallFailed \/ Leaks("string") \/ Uses(v, "member")

\* delete_group consumes the group; the library may have closed it.
delete_group ==
    \E v \in Of({"Group"}) :
        \/ FailsDropping(v)
        \/ /\ values' = values \ {v}
           /\ \E closed \in BOOLEAN :
                 LET h == v.handles[1]
                     after == Calls(library, IF closed THEN <<On("delete", h), On("close", h)>> ELSE <<On("delete", h)>>)
                 IN  library' = Calls(after, <<On("is_open", h)>>
                                  \o (IF after.handle[h].open THEN <<On("close", h)>> ELSE <<>>) \o FieldCalls(v))
           /\ UNCHANGED <<thread, leaked, unclosed, failures>>

(* Files and fragment information *)
vfs_new == Room /\ HasContext /\ \E v \in Of({"Config"}) : CallFailed \/ Creates(v, "VFS", "vfs", {})

vfs_call == \E v \in Of({"VFS"}) : CallFailed \/ Uses(v, "vfs")

vfs_open ==
    Room /\ \E v \in Of({"VFS"}) :
        \/ CallFailed
        \/ /\ library' = Calls(Allocated("fh"), <<On("get", v.handles[1]), On("open", NewHandle)>>)
           /\ values' = values \cup {Value("VFSHandle", <<NewHandle>>, {})}
           /\ UNCHANGED <<thread, leaked, unclosed, failures>>

handle_call ==
    \E v \in Of({"VFSHandle"}), op \in {"close", "read", "write", "sync"} : CallFailed \/ Uses(v, op)

\* build() loads the list, and drops it if it cannot.
fragment_info ==
    Room /\ HasContext
    /\ \/ CallFailed
       \/ CallFails(Calls(Allocated("fragment_info"), <<On("free", NewHandle)>>)) /\ UNCHANGED <<leaked, unclosed>>
       \/ Creates(Value("", <<>>, {}), "FragmentInfoList", "fragment_info", {})

ConfigNext == config_new \/ config_iter \/ config_set \/ config_next \/ get_config

ArrayNext == opener_new \/ opener_set \/ opener_open \/ array_reopen \/ array_metadata \/ array_schema
             \/ get_enumeration \/ schema_builder_new \/ evolution_new \/ evolution_set \/ evolve

QueryNext == builder_new \/ query_set \/ query_subarray \/ subarray_ranges \/ start_subarray
             \/ finish_subarray \/ finalize

GroupNext == group_open \/ group_metadata \/ group_member \/ delete_group

FileNext == vfs_new \/ vfs_call \/ vfs_open \/ handle_call \/ fragment_info

LifecycleNext == DropValue \/ ConfigNext \/ ArrayNext \/ QueryNext \/ GroupNext \/ FileNext

LifecycleSpec == LifecycleInit /\ [][LifecycleNext]_lifecycleVars
-----------------------------------------------------------------------------
(***************************************************************************)
(* Properties.                                                             *)
(***************************************************************************)
Owners(h) == {v \in values : h \in ToSet(v.handles)}

\* No call reaches a handle or a context that has been freed; a live handle has one owner,
\* or none at a place that loses it; only a failed drop or a file frees what is open; one
\* failure of the library does not end the process.
HandlesFreedOnce ==
    /\ ~library.misused
    /\ \A h \in DOMAIN library.handle :
          LET x == library.handle[h]
          IN  /\ x.live => Cardinality(Owners(h)) = IF h \in leaked THEN 0 ELSE 1
              /\ ~x.live => Owners(h) = {} /\ (x.open /\ ~unclosed => x.kind = "fh")
    /\ library.context = "freed" <=> ~HasContext
    /\ thread = "aborted" => failures >= 2
=============================================================================
