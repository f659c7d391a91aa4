# TLA+ models of tiledb-rs

tiledb-rs is a Rust interface to the TileDB storage engine, a C library. The
crate `tiledb/api` wraps the C handles in safe types; the code of its own that
is more than a call is concentrated in how queries are built and run
(`tiledb/api/src/query`). This directory models that code in TLA+, checks the
models with TLC on small instances, and proves the central facts with TLAPS for
every instance.

## 1. Inventory

Paths are relative to `src/tiledb/api/src` unless they start with another
directory of `src`.

| Component | State it keeps | Operations | What makes it correct |
|---|---|---|---|
| Read query adapters (`query/read/{mod,raw,callback,typed}.rs`) | for each adapter its handles (size pointers, buffers, allocator) and its `Option<callback>`; the C query's position and registered pointers | `step`, `execute`, `into_iter`/`next`; within a step `attach_query`, submit, `last_read_ncells`, `realloc_if_managed`, `intermediate_result`, `final_result`, `cleared` | every callback sees every cell once and in order; `NotEnoughSpace` makes room; a restart starts clean; no panic is reachable |
| Scratch allocators (`query/read/output/mod.rs`) | none | `alloc`, `realloc` | each reallocation is larger in every buffer |
| Read output iterators (`query/read/output/mod.rs`) | an index | `next`, `size_hint` | yields exactly `ncells` records, within the buffers |
| Query buffers (`query/buffer/mod.rs`) | owned, borrowed or empty buffers, a cell structure | conversions, `as_shared`, size accessors | conversions keep the cells |
| Query base (`query/mod.rs`) | the C query handle | `step`, `do_submit`, `finalize`, `BuilderBase` | each status is translated once |
| Aggregate queries (`query/read/aggregate/mod.rs`) | a value, its size, a validity byte | `apply_aggregate`, `step` | the result type, pointers valid at submission |
| Write queries (`query/write/mod.rs`) | the C query's registered pointers; a map from field to pinned sizes and buffers | `data`, `records`, `buffers`, `build`, `submit`, `finalize`, drop | registered memory outlives the query; what is written is what was given last |
| Write inputs (`query/write/input`) | none | `query_buffers` for slices, vectors, Arrow arrays, record batches | the buffers hold the value's cells, offsets and nulls, or an error is returned |
| Query conditions (`query/condition/mod.rs`) | an expression tree | `build`, `and`, `or`, `not`, set membership | the built condition means what the tree says |
| Subarrays (`query/subarray.rs`) | the C subarray | `add_range`, `add_point_ranges`, `ranges` | ranges are type checked and read back as added |
| Arrays (`array/mod.rs`) | the C array, its URI | open, reopen, metadata, non-empty domain, drop | closed exactly once; two-call reads are consistent |
| Groups (`group/mod.rs`), VFS (`vfs.rs`) | C handles | open, members, `delete_group`, drop; file handles, `ls` callbacks | handles closed and freed once, callbacks stop when told to |
| Context (`context.rs`) | a shared C context | `capi_call`, `get_last_error` | each failing call yields its error |
| Schema (`array/schema`, `attribute`, `dimension`, `domain`, `enumeration`, `evolution`) | C handles | builders and getters | cell-val-num, domain and tile-extent checks |
| Ranges (`tiledb/common/src/range.rs`) | none | constructors, checks, union, intersection | agree with sets of coordinates |
| Datatypes, filters, metadata, fragment info, config | none of their own | tables and getters | agree with the C library's tables |
| Test support (`test-utils`, `tiledb/pod`, `tiledb/utils`) | none | `Cells` sort/dedup/copy, shrinking of records, `OptionSubset` | the reference the property tests compare against |

**How they interact.** An application opens an `Array` with a `Context`, wraps
it in a `ReadBuilder`, and registers raw buffers and callbacks; each
registration wraps the builder in one more adapter and adds one or more
`RawReadHandle`s. A call of `step` descends the adapters from the outermost to
`QueryBase`, each one registering its buffers with the C query, and `QueryBase`
submits. The result climbs back, and each adapter interprets it on the way.
The C query and the adapters communicate through memory: the C library holds
the raw pointers it was given and writes lengths and cells through them.
Buffers live in a `RefCell` which the application or the handle's
`ManagedBuffer` may replace between two steps.

To write, an application gives a `WriteBuilder` a value for each field, or the
columns of a record batch. A `DataProvider` turns each value into buffers, the
builder registers their addresses with the C query and keeps them in a map, and
`WriteQuery::submit` has the C library read them.

**What is hard.** Nothing runs concurrently: a query belongs to one thread, and
the submission is synchronous. What is hard is order. One result is judged
several times, by adapters that do not see each other; each may turn it into
`NotEnoughSpace`, in which case the adapters below it must not have consumed
anything; reallocation invalidates pointers which another component keeps; the
in/out size pointers hold lengths at one time and results at another; an error
in the middle leaves the C query ahead of some callbacks; a final result
consumes the callbacks and the next call restarts the query. In a write the
same memory is described three times: by the provider's cell structure, by the
pointers of the C query, which stay until they are replaced one by one, and by
the map that keeps the buffers alive. `PROJECT.json`
lists each of these hazards at its line.

Around the queries, C handles refer to each other and must be freed in an order
that depends on which error path was taken; values pass through conversions (to
the C library, to Arrow, to data structures and back) which are written
separately for each direction and must agree; snapshots of an array are read
while other processes write; and the property tests that guard all this rely on
strategies, comparisons and a shrinking search of their own.

## 2. Modules

| Module | Models |
|---|---|
| `ScratchAllocator` | the five allocators of `query/read/output/mod.rs`, as functions on buffer lengths |
| `ReadContract` | what `ReadStepOutput` promises a caller of `step`: a position in the result and the last output |
| `ReadQuery` | the read path: handles, adapters, callbacks, `execute`, `ReadQueryIterator`, over an external C query |
| `MCReadQuery` | instances of `ReadQuery` for TLC |
| `ReadQuery_proofs` | lemmas about the helpers of `ReadQuery`, its type correctness, its inductive invariant, the safety theorems and the refinement of `ReadContract` |
| `WriteInput` | the providers of `query/write/input`, as functions from values to buffers, and how the C library reads them |
| `WriteQuery` | `WriteBuilder` and `WriteQuery`: the registered memory, the map of inputs, submissions and drops; extends `WriteInput` |
| `MCWriteQuery` | instances of `WriteQuery` for TLC |
| `WriteQuery_proofs` | what the providers make of a value and how it is read, life of registered memory, content of fragments, causes of refusals |
| `QueryBuffers` | the buffers of `query/buffer/mod.rs`: owned, borrowed or empty, their cell structures and proof types, the conversions to scratch space, and where the cells of a result are in them |
| `ArrowArrays` | the Arrow arrays a result is turned into (`query/buffer/arrow.rs`), and back by an instance of `WriteInput`; extends `QueryBuffers` |
| `ReadOutput` | the iterators over a result and its conversion to Arrow (`query/read/output`); extends `ArrowArrays` |
| `ReadOutput_proofs` | what they yield, how long it lives, and what comes back from Arrow, for all outputs |
| `Datatype` | the logical and physical types and the tables about them (`common/src/datatype`) |
| `ArrowTypes` | datatypes as Arrow types and back (`common/src/datatype/arrow.rs`); extends `Datatype` |
| `Range` | ranges of one dimension (`common/src/range.rs`); extends `Datatype` |
| `Filters` | filters, filter lists, what a filter makes of a datatype, the pipelines the strategies draw; extends `Datatype` |
| `Dimensions` | dimensions and domains, and the constraints and subarrays the strategies draw; extends `Filters` and `Range` |
| `Schema` | attributes, enumerations and schemas: built from data, read back, looked up and drawn; extends `Dimensions` |
| `ArrowSchema` | schemas as Arrow schemas and back (`array/{schema,dimension,attribute}/arrow.rs`); extends `Schema` and uses `ArrowTypes` |
| `Subarray` | `SubarrayData` and its intersection, the subarray builder and `ranges()`; extends `Dimensions` |
| `MCSubarray` | pairs of subarrays for TLC |
| `Values` | operations on values, one at a time: datatypes, ranges, filters, dimensions, subarrays and query conditions, with the assumptions on their arguments; extends `Subarray` and `ArrowTypes`, uses `QueryCondition` |
| `Values_proofs` | what these operations make of their arguments, for types, bounds and lists of any size |
| `QueryCondition` | condition expressions (sequences of nodes, each after its arguments, which it names by index), what they say as SQL of cells with nulls, what the C library is given for them, what it selects, and their value tree with proptest's runner |
| `Cells` | `Cells` and `StructuredCells` of the test support: sort, dedup, `copy_from`, `slice` |
| `Shrinking` | `RecordsValueTree` and `SequenceValueTree` under proptest's runner |
| `Shrinking_proofs` | what it reports, for every test, number of records and of chunks |
| `AggregateQuery` | aggregates: applied, registered, stepped; extends `Datatype` |
| `AggregateQuery_proofs` | types, buffers and answers for all schemas and requests |
| `Lifecycle` | which value owns which C handle, and what the C library sees as values are made, moved and dropped |
| `Lifecycle_proofs` | that nothing is used after it was freed, for any number of handles and failures |
| `FragmentInfo` | fragment lists, their iterators, and non-empty domains, while other processes write |
| `FragmentInfo_proofs` | that both are whole, for any number of fragments and dimensions |
| `MCValues` | `Values` on small sets of arguments, and more operations of the same form on the other modules without variables |
| `MCParts` | `MCValues`, `ReadOutput`, `AggregateQuery`, `FragmentInfo`, `Lifecycle` and `Shrinking` in one state space: a behaviour runs one of them, and the others stay where they are |

An operation that can fail gives the set of its results, empty if it fails. An
`Option` is a set of at most one element. Where the code leaves something to the
C library, `PROJECT.json` marks the definition as external.

### ReadQuery: state

| Variable | Code |
|---|---|
| `cursor`, `status`, `batch` | the C query: cells returned since it (re)started, `tiledb_query_get_status`, cells returned by the last submission |
| `reg` | the buffers registered with `tiledb_query_set_{data,offsets,validity}_buffer`, by field: whose they are and how long they were |
| `size` | `RawReadHandle::{data,offsets,validity}_size`, in elements |
| `cap` | the lengths of the buffers in `RawReadHandle::location` |
| `mem` | the cells last written to these buffers |
| `callback` | is the adapter's `Option<T>` `Some`? |
| `acc`, `out` | what the callback of a handle's adapter has been given, and what its last `final_result` returned |
| `missed` | history: has an error kept cells, or its `cleared()`, from this callback? |
| `pc`, `layer`, `base` | where a call is: on the way down (`attach`) or up (`return`), at which adapter, and the result on its way up |
| `driver`, `query`, `ret`, `errors` | which of `step`, `execute`, `next` is running; whether the application, its iterator or nobody owns the query; the last output; a bound |

A cell is its number in the order of the result. Buffers are lengths; values
are left out, since no adapter looks at one.

### ReadQuery: actions

| Action | Code |
|---|---|
| `Call`, `IntoIter`, `ReplaceBuffers` | the application between two calls: `step()`, `execute()`, `next()`, `into_iter()`, a new value for the `RefCell` of a handle it owns |
| `Attach`, `AttachFails` | one adapter attaches its handles and calls its base; the C library refuses one of them |
| `SubmitComplete`, `SubmitIncomplete`, `SubmitFails` | `QueryBase::step` |
| `RawReturn` | `RawReadQuery::step` and `VarRawReadQuery::step` after their base returns |
| `CallbackNotEnoughSpace`, `CallbackIntermediate`, `CallbackFinal`, `CallbackFails`, `CallbackPanics` | the macro `query_read_callback` and `CallbackVarArgReadQuery::step` after their base returns |
| `Return` | the outermost adapter returns to `step`, `execute`'s loop or `ReadQueryIterator::next` |

`TypedReadQuery` passes every output through and is not a layer of its own. A
`callback_var` adapter is the upper half of `CallbackVarArgReadQuery`; the
`VarRawReadQuery` it contains is the `raw` adapter beneath it.

**External.** `CoreReturns` is what the code relies on the C library for, and no
more: a submission fills the buffers registered for every field with the same
number of cells, the next ones in order (`query/mod.rs:178-180` states this
assumption); it returns at least one cell if one fits; it is complete with the
last one; with `sm.var_offsets.extra_element` (`read/mod.rs:410`) `n > 0` cells
have `n + 1` offsets; a completed query starts over when submitted again
(`read/mod.rs:34`).

### WriteInput: values and inputs

A value is the sequence of its cells with the indices of its nulls, the values
around it if it is a slice of a longer Arrow list, and its width if its cells
have one. Query buffers are also a value; they say themselves which parts they
have beside their data (`own`: offsets, a validity, both or none), whether the
field needs them or not. An input is what a provider makes of it: `data`, and where there are
any `offsets` and `validity`, with their contents. A `Result` is a set of at
most one input; the empty set is `Err`.

| Operator | Code |
|---|---|
| `SliceInput`, `NestedInput` | `DataProvider` for `[C]`, `Vec<C>`; for `Vec<Vec<C>>`, `Vec<String>`, `Vec<&str>` (`input/mod.rs`) |
| `PrimitiveInput`, `FixedSizeInput`, `ListInput` | `DataProvider` for the Arrow arrays (`input/arrow.rs`) |
| `BuffersInput` | `DataProvider` for `QueryBuffers`, `QueryBuffersMut`: it ignores the field, never fails, and passes on the cell structure and the validity that the buffers have (`input/mod.rs:53-99`) |
| `batch_buffers`, `from_arrow` | `RecordBatchTileDBInputs::next`: the column has to agree with the field |
| `cell_structure`, `cell_structure_fixed`, `validity_buffer` | the helpers of the same names |
| `RecordsIn`, `Readable` | external: how the C library reads and checks an input, with offsets that count elements and one offset more than there are cells, as `WriteBuilder::new` configures it (`write/mod.rs:81-105`) |
| `RecordsOf` | the records an application sees in a value, the reference for the others |

### WriteQuery: state and actions

| Variable | Code |
|---|---|
| `phase` | whether there is a `WriteBuilder`, a `WriteQuery`, inputs whose query has been freed, or nothing |
| `pc`, `pending`, `call` | where a call of `buffers()` is, the columns after it, and the input in its hands |
| `inputs` | the `InputMap`: which input each field has |
| `reg` | the C query: the number of the input each pointer points into, 0 for none |
| `given` | history: the value each field was given last |
| `outcome`, `fragment` | what the last submission came to, and what it wrote |
| `made`, `errors` | counters, bounded by `MaxInputs` and `MaxErrors` |

| Action | Code |
|---|---|
| `Data`, `Records` | the application calls `data()`, `data_typed()` or `records()` |
| `Provide`, `ProvideFails` | `query_buffers` of the value, or its error |
| `Register`, `RegisterFails` | one of `tiledb_query_set_{data,offsets,validity}_buffer` in `buffers()` |
| `RegisterRefused` | the same, for offsets of a field of fixed size or the validity of one that is not nullable, which the C library refuses (external): query buffers can bring them |
| `Insert` | the input goes into the map, and what the field had before is dropped |
| `Build` | `build()` |
| `SubmitWrites`, `SubmitRefused`, `SubmitFails` | `submit()`: the C library reads the registered memory and writes it, refuses it, or fails |
| `FinalizeOrDrop`, `DropInputs` | the two fields of the struct are dropped in order: the query, then the inputs |

`data()`, `records()` and `buffers()` take the builder by value, so every `?` on
the way drops it. The locals of the failing call go before the builder does, but
the C library is not called in between, so a failure is one step to `freed`.
Memory that was freed holds one of `Leftovers`: whatever the allocator left.

### ReadOutput: state and actions

| Variable | Code |
|---|---|
| `kind`, `output` | which iterator, over which `RawReadOutput`; or `"arrow"`, for the conversion to Arrow |
| `state` | whether `try_new` has been called, its error, or the iterator's life; or `"array"`, after the conversion |
| `index` | `index`, or `offset_cursor` of `VarDataIterator`, which counts calls after the end too |
| `yielded`, `nones` | what `next` has returned |
| `array` | the Arrow array, at most one |

`TryNew` is `try_new` with the proof types of `query/buffer/mod.rs`; `NextSome`
and `NextNone` are `next`; `DropIterator` drops the buffers the iterator owns,
while the application keeps the slices. `IntoArray` is `try_from` of
`read/output/arrow.rs`, with the buffers as they are, borrowed, or given as scratch
space and back (`Forms`).

### AggregateQuery: state and actions

| Variable | Code |
|---|---|
| `todo`, `adapters`, `phase` | the aggregates to apply, the stack of `AggregateQuery`s, and how far the builder is |
| `applied` | the aggregates on the default channel of the C query |
| `registered`, `address` | the buffers the C query was given and where the adapters are now: moving the query moves them |
| `submission`, `truth`, `result` | what became of the last submission, what the C library answered, and what `step` returned |
| `resets`, `steps` | history: has a failure left sizes at 0; a counter |

`ApplyAggregate` is `apply_aggregate` with its checks of the argument and of the
type, `Build` is `build`, `Move` a move of the value between two steps. A `Step`
registers data and validity from the outermost adapter in, and either stops
before the submission (`StepNotSubmitted`), fails in it (`StepFails`) or
completes (`StepCompletes`), and then the answers are read from the inside out.
The library checks the buffers against the type it computes itself
(`WrittenType`, external).

### Lifecycle: state and actions

| Variable | Code |
|---|---|
| `library` | the C library's side: its context, each handle with its kind, whether it is live and open, and the handles it refers to; `misused` as soon as a call reaches something freed |
| `values` | the Rust values: their type, the handles in the order in which they are dropped, and what they borrow |
| `thread` | running, unwinding, or aborted by a second panic |
| `leaked`, `unclosed`, `failures` | handles lost on an error path, whether a drop has failed to close, a counter |

There is an action for each operation that makes, consumes or frees a handle:
`config_*`, `opener_*`, `array_reopen` (`Array::reopen`), `array_schema`, `get_enumeration`,
`schema_builder_new`, `evolution_*`, `evolve`, `builder_new`, `query_set`,
`query_subarray`, `start_subarray`, `finish_subarray`, `finalize`,
`group_*`, `delete_group`, `vfs_*`, `handle_call`, `fragment_info`. Each may
fail. What it has consumed is dropped then, field by field, the context before
the handles as the structs declare them; what it has allocated and not yet
wrapped is lost (`Leaks`). `DropValue` drops a value nobody borrows from; a drop
that asks the library and fails panics, and aborts if the thread was unwinding
already.

### FragmentInfo: state and actions

| Variable | Code |
|---|---|
| `stored` | the fragments of the array, which other processes change |
| `list`, `opened` | the snapshots of a `FragmentInfoList` and of an open `Array` |
| `iterator`, `visited` | `FragmentInfoListIterator` with the count it took, and what it has given |
| `domain`, `loads` | the last answer of `nonempty_domain`; a counter |

`Write` and `Consolidate` are other processes. `load`, `reopen`, `iter` and
`next` are the calls of these names. `load` takes `&self`, so it may change the
list under an iterator. The bytes of the two ends of a variable-length domain
are read into buffers whose sizes an earlier call gave, which the model writes
out (`Filled`).

### Shrinking: state and actions

`tree` is the value tree, `runner` where proptest's loop is: `RunTest` tests the
current value, `Simplify` and `Complicate` are the tree's methods after a failure
and a pass, `GiveUp` and `MoveBack` are the runner at its limit of iterations
(external).

## 3. Runs

All instances of the read path have a result of three cells (four in
`ReadIterator`) over up to three fields: `num`, with two values per cell; `str`, variable-length, with an
empty cell and a cell longer than the buffers; `opt`, nullable. Three cells are
enough for a result delivered in a single batch, in several, and one with a
cell that needs two reallocations in between; with four the iterator run
passes 100 states.

| Run | Question | Result |
|---|---|---|
| `ReadCollect` | three callbacks over managed buffers too small for one cell (the shape of `examples/reading_incomplete.rs`), `step()` and `execute()`, restarts, up to two errors | holds |
| `ReadMixed` | buffers owned by the application, which replaces them between steps, beneath a two-argument callback that cannot be cleared: the only panic is `unimplemented!()` | holds |
| `ReadVarArg` | a var-arg callback between raw adapters; the outer one is reallocated on `NotEnoughSpace` from below | holds |
| `ReadIterator` | `ReadQueryIterator` over callbacks that cannot be cleared | holds |
| `ReadManagedVarArg` | does `execute()` return when `CallbackVarArgReadQuery` manages its own buffers? | violated |
| `ReadRestart` | can a completed query be run again with any callback? | violated |
| `ReadCloned` | does `FnMutAdapter` start clean when the query is run again? | violated |
| `WriteInputs` | values of all kinds for three fields, one by one and in record batches, replaced, refused by a provider, failing half-way, submitted again | holds |
| `WriteStale` | is registered memory alive when a field is given strings and then a flat slice? | violated |
| `WriteRows` | do the values of an Arrow primitive array divide into the cells of a field with two values per cell? | violated |
| `Parts` | the parts that do not share state with a query: values, iterators, aggregates and fragments; up to four C handles and two failures, in every order in which wrapper values are made, consumed and dropped; value trees over up to seven records with a minimum of up to two, for tests that need up to two given records or a number of them and for every test of three records, and over sequences | holds |
| `SubarrayIntersect` | does the intersection of two subarrays select what both select? | violated |

The array of `WriteInputs` has three fields of the same kinds, `str` being
nullable too, and a write covers two cells of it. The values include empty
cells, nulls, a cell too many, Arrow slices with values before or after them,
cells of a width that is not the field's, rows that do not divide into
cells, and query buffers that lack the offsets or the validity their field needs, or
have a validity that it has no use for.

### Properties

- `ExactlyOnce`: outside of errors, each callback has been given, for each of
  its arguments, exactly the cells the C query has returned, in order. A result
  that reaches some adapters as `Intermediate` and others as `NotEnoughSpace`
  would break it.
- `FinalIsWhole`: a `final_result` is the whole result, whichever execution it
  closes.
- `SubmitsCurrentBuffers`: at each submission every field is registered with
  the present buffers of its handle, at full length.
- `RawBuffersFresh`: an application that reads its own buffers after a step
  finds the cells of that step.
- `NotEnoughSpaceGrows`: when `step` answers `NotEnoughSpace`, every buffer that
  can be reallocated has grown over what this step offered.
- `NoPanic`, `PanicsOnlyUncleared`: `unreachable!()`, `unimplemented!()` and a
  `RefCell` borrowed twice are out of reach, or only the second is reached.
- `ExecuteReturns`: `execute()` comes back.
- `KeepsContract`: the stack, seen from outside, implements `ReadContract`, with
  the position `cursor`, or `cursor - batch` while a result is on its way up.

- `RegisteredLive`: as long as there is a C query, each of its pointers is into
  the input that the map holds for the field, or into the one `buffers()` has at
  hand. It does not hold (`WriteStale`); `StaleOnlyIfMissing` is what does: the only
  stale pointers are to parts that the field's last value does not bring (`Missing`:
  the offsets of a flat row, the validity of an Arrow row of several values per cell,
  what query buffers do not have).
- `FragmentIsGiven`: a fragment holds the records of the values given last, with
  their lengths, order and nulls, for every field whose last value has all parts.
- `AcceptedIsWritten`: what a provider has accepted the C library does not
  refuse. `Misfit` names the values for which this is known to be false.
- `CompleteInputs`: an input the query works with has the parts its field needs and
  no other, but for those its value does not bring.
- `ProvidersFaithful`: an input that can be read reads as the value it was made of.
- `FixedCellsFit`: the data of a fixed field divides into cells.

In `Parts`, one operation on every input of a small set:

- `CellsAlgebra`: `dedup` keeps the first record of each key, `sort` is by key
  and keeps records together, `copy_from` overlays and leaves the rest, and the
  odometer of `slice` visits the box asked for in row-major order.
- `DatatypesAgree`: the tables of `common/src/datatype`, which are written out
  separately, agree with each other, and a datatype made into an Arrow type comes
  back as it was if the conversion calls itself exact, and of the same physical
  type if not.
- `RangeAlgebra`: `num_cells` counts, intersection and union are those of the
  sets of cells, `from_slices` accepts what fits its type, and an intersection of
  subarrays selects the cells of both.
- `SubarraysAsGiven`: a subarray built in the C library takes each range exactly if
  it suits its dimension, by index or by name, and read back selects the cells
  asked for.
- `FilterRoundTrip`: every filter a strategy draws makes a C filter that reads
  back as what was drawn, also through Arrow's metadata, and a drawn pipeline can
  transform its input type from end to end.
- `DrawnDimensionsFit`: drawn constraints, extents and subarrays are inside their
  type, also where the domain is rounded up to whole tiles, and the C library
  accepts them; drawn tiles have no more cells than asked for.
- `SchemaRoundTrip`: a schema drawn, shrunk and created reads back as its data,
  its fields are found by index and name, and the scratch space for it fits; as an
  Arrow schema it comes back whole if the conversion calls itself exact, with
  other datatypes of the same size if not, and not at all if a fill value is not
  finite. A field of a type without a datatype is left out, or refused if it
  is a dimension.
- `ConditionMeans`: what the C library selects for a built condition is what the
  expression says. The two sides read nulls and negations differently. An expression
  is shown as SQL, so it has three values of truth: of a null a comparison is unknown,
  and so is its negation (`Says`). The library has two and no NOT:
  `tiledb_query_condition_negate` exchanges each comparison with its opposite and AND
  with OR, and neither a comparison nor its opposite is for nulls (`Selects`,
  external). Did the library negate by taking the cells it did not select before,
  `NOT (n < 2)` would select the null cells and the run would show it.
- `ConditionShrinks`: at every step of the search what is reported fails the test,
  and a combination ends at a part of its left side if that fails alone, or else of
  its right side if that does. The tests are those that fail on every expression
  which mentions some given fields.

and over behaviours of a component:

- `YieldsCells`, `SlicesLive`: the iterators give the cells in order, and no slice
  outlives the memory it was cut from.
- `ArrowRoundTrip`: a result made into an Arrow array can be written back: Arrow takes
  the array without a panic, the write provider of a field of that cell structure
  takes it too, and the C library finds the cells and nulls of the result in the input
  and no others, whatever the capacity and the owner of the memory. Only cells that
  are too wide for Arrow are refused.
- `ShrinkFindsCulprit`, `ShrinkEnds`: what shrinking reports fails the test, has
  the minimum of records, is the culprit alone if there is exactly one, and no
  `unreachable!()` is reached; the search among records ends.
- `ShrinkProgress`: each step of that search, whatever the test answers, lowers a
  tuple of four natural numbers (records, levels and steps that are left).
- `AnswersRight`, `BuffersFit`: the answers of a step are its own submission's,
  with the types and nulls the C library wrote; buffers that could be applied are
  refused only after a failure has reset a size.
- `HandlesFreedOnce`: no call reaches what was freed; each live handle has one
  owner, except at places that lose it; open handles are closed before they are
  freed, except where a close fails and for file handles; the context is freed with
  the last value that holds it; no single failure aborts the process.
- `FragmentsSeen`: an iterator gives every fragment of the list it counted once
  and in order, and panics only if the list was loaded again and shrank; a
  non-empty domain is the least that covers the fragments.

Where a property has an exception, the exception is what the code does: the
places are listed at the end of the next section.

### Bounds

`MaxErrors` bounds the errors of the C library and of callbacks; two are enough
for an error before and one after a restart. `MaxSpace` stops the application
from calling `step` again once a buffer is large; it does not cut a call short,
and it exceeds what the whole result needs, so `execute()` is never kept from
returning by it. Queries may be restarted without bound: the state after a
restart is one of the states before it.

`MaxInputs` bounds the values given to one builder. Four are one for each field
and one that replaces another. `MaxErrors` is one in `WriteInputs`, since an
error ends the builder, or is that of a submission, which may be repeated
without bound. `BufferSize`, 24 on 64-bit targets, is four,
so that buffers (`BuffersInput`) of that size and shorter ones are both small.

In `Parts`, a physical type has three values (up to twelve for tiles, so that a
domain can end at either limit of its type and in the middle of a tile), each an
interval around or above 0 as the code's are, and counts fit `CountMax` = 100, which
some products of the multi-value ranges exceed; `Limits` on tiles and cells go up
to 27 and include 0 and 1; buffers
have up to four values for up to two cells, ranges bounds of up to two values,
and schemas two dimensions and two attributes: the code treats two of a kind as
it treats more. Pipelines have up to `MaxFilters` filters, drawn one after
another. Two aggregates are an inner and an outer one; three steps are one before
and one after a failure. `MaxFragments` and `MaxLoads` are two: a list that grew,
shrank, or changed before an iterator has ended.

Also in `Parts`, `MaxHandles` is four: an array, a query on it and a subarray of
that is the longest chain, beside one handle more; `MaxFailures` is two, the
least that could abort. Seven records in three chunks (eight in the
code) give levels with one record per chunk, several, and a rest.

`CHECK_DEADLOCK FALSE` is used where the system stops: an exhausted iterator, a
panic, a query that has been dropped, an operation that has been done.
Elsewhere the application can always make another call.

### Fairness

`FairSpec` adds weak fairness of `Running`, the steps of a call that has been
made. A call runs on its caller's thread without waiting for anything else, so
it continues by itself. Nothing forces the application to call, replace buffers
or stop. `MaxErrors` bounds failures, which only end a call. `Shrinking`,
and `MCParts` with it (`ShrinkGoesOn`), has weak fairness of the steps of proptest's
runner, which tests, simplifies and complicates as long as it can; `GiveUp`, its limit of iterations,
is not part of it. `ShrinkProgress` is the variant behind `ShrinkEnds`: the tuples are
well ordered, so every scheduling of these steps ends, fair or not, and fairness only
says that there are steps. The other modules have no loop that waits for anything, and
no fairness.

## 4. Findings

1. **Managed buffers right above the query never grow.**
   `VarRawReadQuery::step` (and `RawReadQuery::step`) reallocate when the
   adapter *below* answers `NotEnoughSpace`, but not when they themselves turn
   an `Intermediate` without cells into it (`raw.rs:637-652`). With
   `register_callback_var` over `RawReadHandle::managed` handles, which
   `query/strategy.rs:133-144` builds, `execute()` offers the same buffers for
   ever (`ReadManagedVarArg`).
2. **Not every query can be re-submitted after `Final`.** `read/mod.rs:35` says
   re-submitting starts over; callbacks without `cleared()` (`Vec<C>`,
   `(Vec<C>, Vec<u8>)` and every `Map*` adapter, also over a callback that has
   one) panic in `unimplemented!()` (`ReadRestart`).
3. **`FnMutAdapter::cleared` is not blank.** It clones the closure with what it
   has captured (`ReadCloned`).
4. **A replaced input can leave pointers behind.** `buffers()` registers only the
   parts its input has and then drops the field's former input
   (`write/mod.rs:182-189`). If a variable-length field was given strings first
   and a flat slice then, the query keeps the offsets of the strings, which are
   freed (`WriteStale`).
5. **Rows of an Arrow primitive array** for a field with several values per cell
   are refused if they divide into cells and accepted if they do not
   (`arrow.rs:270`, `WriteRows`).

6. **Two subarrays without ranges have no intersection.** A list without ranges
   means all coordinates, but `SubarrayData::intersect` takes the empty list for
   an empty intersection and answers `None` (`tiledb/pod/src/query/subarray.rs:143`,
   `SubarrayIntersect`).

More divergences are named by `Misfit` and not run separately.
`cell_structure_fixed` (`arrow.rs:66`) makes one offset per cell, as
`buffer/mod.rs:70-71` describes it, while `WriteBuilder::new` asks the C library
for one more, as `cell_structure` of `input/mod.rs` provides: fixed-size Arrow
cells for a variable-length field are accepted and then refused. `query_buffers`
of `QueryBuffers` (`input/mod.rs:65`) takes the size of the `Buffer` enum for the
number of its elements, and ignores what the field needs: buffers without its offsets
or its validity are accepted and then refused by the submission, or read with a stale
part of an earlier input. A sliced Arrow list keeps the values after the slice,
where the C library expects the data to end with the last cell. A flat slice for
a nullable field with several values per cell has a validity byte per value.

Further observations, each of them either in the model as an exception of a
property or outside of it:

- *Arrow metadata.* A fill value that is not finite becomes `null` in JSON and the
  schema does not come back (`array/attribute/arrow.rs:59`); the library's own
  default for floats is NaN. `FixedSizeBinary(1)` is called exact and comes back
  as `UInt8`; the timezone of a timestamp is dropped (`common/src/datatype/arrow.rs`).
- *Aggregates.* The size pointer of the validity buffer is that of a local that is
  gone (`aggregate/mod.rs:268`): such a submission is `Dangling`. `data_size` is
  not set again before a step (`:245`), so one failure may spoil the next step.
- *Conditions.* The sizes of the data and offsets of a set are those of a `Vec`
  header (`condition/mod.rs:290`); `ConditionMeans` is about sets whose size
  happens to be right (`Described`). Values are totally ordered in the model: of NaN,
  which is neither `< 2` nor `>= 2`, the library's negation says less than SQL's.
  When the strategy combines two halves, the right one is not shrunk.
- *Subarrays.* `add_point_ranges` refuses exactly the types that fit
  (`subarray.rs:317`). `ranges()` takes a range from the empty string to the empty
  string for no range at all, as its comment says.
- *Handles.* `Group::open` loses its handle if the configuration is refused
  (`group/mod.rs:100`) and the test `c_open < 0` can never be true; if the
  call before it fails, an open group is freed without being closed. A member's URI
  is lost if its name is not UTF-8. `VFSHandle` frees without closing. Values that
  have a context drop it before their handles, so the last one frees the context
  before its handles are freed; the model lets a handle be freed, and nothing
  else be done with it, without a context. Losses also in
  `Query::subarray`, in the schema builder and in `Group::dump`, if a call
  between the allocation and the wrapper fails.
- *VFS.* `is_bucket` asks whether the bucket is empty (`vfs.rs:102-115`).
- *Fragments.* The iterator panics if `load()` shortens its list
  (`fragment_info.rs:659`).
- *Iterators.* `size_hint` of `VarDataIterator` underflows once `next` has
  returned `None` (`output/mod.rs:843`, `:855`).
- *Scratch space.* A memory limit below one cell panics
  (`array/schema/mod.rs:97-120`).
- *Test support.* `max_sparse_tile_capacity_default` returns the minimum
  (`pod/src/array/schema/strategy.rs:54-56`); `prop_schema_for_domain` keeps
  enumerations whose attribute refused them; a subarray of a bounded number of
  cells may have one more; when `complicate`
  of a `SequenceValueTree` has found no further step, `simplify` may still take
  one, which the test `sequence_shrinking` denies (`sequence.rs:107-108`); simplifying
  `RecordsValueTree` twice on one record and then complicating it reaches
  `unreachable!()`, an order which proptest's runner does not produce.
- *Ranges.* `from_slices` reports the length of the start for a truncated end.
- *Comparison.* `attribute_eq` ignores the enumeration. A schema read back into
  data has only the enumerations its attributes name.

## 5. Proofs

Everything about `ReadQuery` holds for every stack of adapters, every allocator,
every result and every bound that satisfies its assumptions.

`ReadQuery_proofs`: `TypeCorrect`, `Spec => []TypeOK`. The other theorems of the
module assume in addition `DistinctFields` (no two handles of
the stack read the same field; the builder does not check it, see the hazard at
`raw.rs:257`) and `NoClones` (no callback answers `cleared()` with a clone of
itself: finding 3 shows why). `InductiveInvariant` proves `Spec => []Inductive`,
and the run `ReadVarArg` checks `Inductive` on an instance. Its parts need each
other:

- `Attached`: on the way down, the adapters above have registered their present
  buffers at full length. Needed at the submission by
- `Fresh`: after a submission every handle counts `batch` cells and holds these
  cells. It needs `Shaped` (a handle has offsets exactly if its field is
  variable-length), since cells are counted by offsets or by values, and by it
  all handles of an adapter are empty or none is (`EmptyTogether`). This gives
- `Judged`: the adapter that sees a submission first decides for all: a
  `NotEnoughSpace` has no cells, an `Intermediate` above the first adapter has
  some, a `Final` is the end of the result. This is the step that makes the
  composition of adapters correct, and from it follow
- `ExactlyOnce`, `PanicsOnlyUncleared` and `Present` (a callback that can be
  cleared is there), for `NoPanic`, and
- `Offered`: the buffers of the adapters above are those offered to the C query,
  those below have grown if the result is `NotEnoughSpace`, for
  `NotEnoughSpaceGrows` (by `ReallocGrows`, a lemma on all five allocators).

Each part has a lemma `...Next`. From the invariant follow the theorems
`CallbacksSeeExactlyOnce`, `FinalHasEverything`, `CurrentBuffersSubmitted`,
`FreshAfterStep`, `RoomIsMade`, `OnlyUnclearedPanics`, `ClearableNeverPanics`
(for callbacks that all have a blank instance) and `ImplementsContract`: each
step of the stack is a step of `ReadContract` or a stutter.

`WriteQuery_proofs` holds for every schema, all values and batches, and every
content of freed memory.

Its first part is about the providers. Where the cells of a value are in its
memory (`EndsAre`), what the memory holds (`FlatIs`) and that the offsets cut it
into the cells again (`ByOffsets`), or equal lengths do (`ByNumber`), follows for
values of any length from one lemma, `Induction`: a property of the numbers from 0
to n that were not kept would first fail at one of them, and the well-foundedness of
the naturals gives that number. Then each provider has a lemma on the parts of its
input (`...Made`) and one on what the C library reads in it (`...Right`). `AllParts`
says of every value which parts its input has: those the field needs, less the
`Missing` ones; query buffers may have more. Nothing is assumed about missing parts;
one hypothesis about the values on offer remains, for two of the theorems:

- `NoneMisread`: none of the four kinds of values which a provider accepts
  although the C library reads something else in them: the offsets of empty cells of
  a fixed size, the values around a slice, the memory beyond a short buffer, and
  buffers whose cells have another size than the field's, each only if it happens to
  fill up the number of cells that is read.

The values of the run `WriteInputs` satisfy it; many of them are a `Misfit`, but none
is misread as two cells. The theorems:

- `WriteTypeCorrect`, `Spec => []TypeOK`: in particular an input stays together
  with the value it was made of.
- `InputsAreComplete`, `Spec => []CompleteInputs`. The invariant is strengthened by
  `Registered`, the parts of the input at hand that the query already points to, and
  `Accepted`: the query points to no part that the C library has no buffer for, since
  `RegisterRefused` ends the builder there.
- `InputsAreFaithful`, `Spec => []ProvidersFaithful`, if `NoneMisread`.
- `InputsLiveLongEnough`, `Spec => []StaleOnlyIfMissing`, from the same invariant:
  when the former input is dropped in `Insert`, all its pointers have been taken
  over but those to missing parts.
- `FragmentsAreGiven`, `Spec => []FragmentIsGiven`, if `NoneMisread`. By
  `MemoryIsInput` the C library reads exactly one live input for each field whose last
  value has all parts.
- `RefusalsHaveCause`, `Spec => []AcceptedIsWritten`. The invariant is strengthened
  by `Pointed`: each field that was given a value has a pointer for each part of its
  input. Then a refusal has one of the causes the property names. `Misfit` has one
  of them from this proof: a slice for a field of fixed size whose values do not
  divide into cells is accepted by its provider.

`ReadOutput_proofs` holds for all outputs that the C library can leave
(`AreOutputs`: a cell structure is a width or offsets, each part has at most one
buffer, and the buffers hold the cells). `Progress`, which says where the index is and
that what was yielded is the first cells, is inductive; from it follow
`IteratorYieldsCells` and `IteratorSlicesLive`.

`ArraysRoundTrip` is about an array that is written back. `Made`, which says what the
array was made of, is inductive; the rest is about the operators. An output is values
*cut* at ends that do not go down (`Cut`): an array of each of the three kinds keeps
the values up to the last end and shows the application the same cells (`FixedCut`,
`PrimitiveCarries`, `FixedCarries`, `ListCarries`). From such cells the provider adds up
the ends they were cut at (`EndsAreCuts`, `OffsetsMade`) and joins the values they
were cut from (`CellsJoined`), both by induction along the recursive functions that do
it, so the C library finds the cells again by offsets or by division (`CellsFound`,
`FoundAgain`). Borrowing and scratch space leave the items as they are
(`FormsAlike`, `SameOutput`). That `MaxListWidth` is positive is all that is assumed
of it.

`Values_proofs` holds for physical types of any size, and for lists, slices and
pipelines of any length. `InputsTaken` says of the operation at hand that its
arguments are some that the code can be given; it is inductive (`InputsAreTaken`), a
pipeline being drawn a filter at a time and a condition shrunk a test at a time, and
the properties follow from it. The
assumptions are those of the code: types are intervals of integers (`TypesAreIntervals`),
from 0 or two's complement (`IntegersAre`), ranges are of one kind and type and in order
(`RangesAreAlike`, `ListsAreAlike`), and the rest gives the sets of arguments their types.

- *Ranges* (`RangesAreAlgebra`). Slices are compared by the first difference and then
  by length, which is shown to be a total order (`Total`, `Transitive`): the first
  difference is a least element of a set of indices and comes from the
  well-foundedness of the naturals. `RangesMeetAndJoin` then takes the kinds apart.
  That `num_cells` counts is shown by numbering the slices of a length in base *F*, the
  number of values of the type: the cells between two bounds are then an interval of
  numbers, and the fold in the code computes the difference of the ends. Its hypothesis
  on overflow is part of the property: the code multiplies before it adds, so the count
  is only certain to be returned if it fits together with one factor. The intersection
  of two lists of ranges, a flattened list of lists, is taken apart by `Induction`.
- *Datatypes* (`DatatypesAndArrowAgree`): the tables one by one, and every Arrow type.
- *Filters* (`DrawnFiltersRoundTrip`): each option is read back from its code, and the
  type a filter leaves is one the next can start from, so a pipeline of any length
  transforms its input from end to end.
- *Dimensions* (`DrawnDimensionsAreFit`): the largest extent and the rounding up to
  whole tiles stay in the type, `Root` and `Power` bound the cells of a tile
  (`Product` of extents, each at most the root), and the checks of the C library hold.
- *Subarrays* (`SubarraysReadBack`). Names that differ make the index of a dimension and
  its name the same key (`AddsOne`). A range added to the ones a dimension holds, joined
  to the last or not, changes the cells they cover by its own (`Coalesces`), so by
  induction over the ranges and the dimensions each one holds what it was given
  (`Entry`, `AddsEach`, `GivesEach`); what is read back leaves out only what is taken
  for none, which with no range of its own is the unlimited one (`DimensionReadBack`).
  The cells of a bounded dimension are single values in its domain.
- *Conditions* (`ConditionsMean`). An expression is a sequence of nodes, so what the
  code does by recursion over a tree is a recursive function on the indices, each node
  by those of its arguments before it. `Recursion` shows once that such a function
  exists and is what its equation says; `NodeInduction` compares two of them node by
  node. What is said by a node and what its handle selects are not the same: the
  induction is on `Answers`, that a node is true exactly of the cells its handle selects
  and false exactly of those its negation does (`AllocMeans`), so that unknown is the
  third case of both and a negation exchanges the first two. An error is one of
  `AllocFails`. `Described` stays a hypothesis of the property: the sizes the code gives
  for sets are mostly wrong (section 4).
- *Shrinking of conditions* (`ConditionsShrink`). What is left of an expression mentions
  no more than the expression (`LeftMentions`) and is all of it where nothing was tried
  (`AllIsLeft`); a step of a node leaves the states behind it alone (`SimplifyOfNodes`,
  `ComplicateOfNodes`), so the state of the root goes through `TestOfRoot`. `SearchFits`
  is the invariant: while only the sides as a whole have been tried nothing in them is
  shrunk, and afterwards it is known which of them does not fail alone.

`AggregateQuery_proofs` holds for every schema and every list of requests.
`AggregateInv` says that every adapter's buffer is of the type the library writes
(`Adapter`) and has that type's size unless a failure has reset it; `TypesAgree` is the heart of it: the code's table of result types
is the library's. From it follow `AggregatesAnswerRight` and
`AggregateBuffersFit`.

`FragmentInfo_proofs` holds for any number of dimensions, fragments and loads, and
any total order of ends (`Ordered`). The least end of several exists by
well-foundedness, on a list that is cut off at its first counterexample
(`FirstExists`); `FilledWhole` says that an end read into a buffer of its own
size is whole, which is false if both buffers get one size; `FragmentListsWhole`
combines both halves of `FragmentsSeen`.

`Lifecycle_proofs` holds for any number of handles and failures. The library goes
through the calls of an operation one by one (`Calls`), so the first part shows how
a list of calls splits (by `Induction` again). `LifecycleInv` relates both
sides: each live handle is owned by one value or was lost at one of the places
that lose it (`Held`), what a value's handles refer to is borrowed from a value
that still owns it (`Lent`), and the context is live as long as a value holds it
(`ContextKept`). A few lemmas say what keeps it, for
a call on an owned handle, a handle that comes, a value that takes it, changes or
goes; every operation, with each of its failures, is made of these, and
`HandlesAreFreedOnce` follows.

`Shrinking_proofs` holds for every test, any number of records and at least two
chunks. `ShrinkInv` says of a search among records that its level fails as a whole
(`AtLevel`), that the results entered are those of the chunks left out (`Recorded`),
and that a level in one chunk which led to the next is followed by one that fails
(`AtRecur`): this is why the runner never complicates where the code has
`unreachable!()`. `HuntInv` follows the one record that decides a test: the levels
have no repetitions, it is in exactly one chunk of each (`OneChunkHasIt`, from the
arithmetic of the chunks), so one chunk is kept, and a level that is kept as a whole
is one record long (`ChunkWhole`). `FilledEnough` is about `min_records`.
`ShrinkingFindsTheCulprit` combines them. `ShrinkingGoesDown` shows `ShrinkProgress`
from `ShrinkInv`, and `NothingLowersForEver` that the order of its tuples is
well-founded: no infinite sequence goes down at every step. Together they prove of the
search everything about its end but the scheduling.

Only model-checked:

- liveness (`ExecuteReturns`, `ShrinkEnds`), since fairness and `ENABLED` are outside
  the reach of the prover;
- `CellsAlgebra` and `SchemaRoundTrip`: they rest on folds and sorts that take an
  operator as an argument;
- the six properties that are violated.

## 6. What is not modelled

Values of cells, datatypes and field metadata (`physical_type_go!` dispatch),
statistics, and logging are left out of `ReadQuery`: no step depends on them. A
stack whose `register_var_raw` is given no handle is excluded by
`StackAssumption`. A field read by two handles of one stack is outside the
claims about handles (`DistinctFields`); the builder does not exclude it.

Of the write path, element types and nulls inside Arrow lists (both only lead to
errors), layouts, and the C library's writing itself are left out.

- *Getters* that are one call of the C library and keep nothing: most of
  `fragment_info.rs`, `config.rs`, schema and group getters, statistics.
- *Metadata values* of arrays and groups: a conversion without a decision.
- *Schema evolution*: what it changes is decided by the C library; the handle and
  `evolve` are in `Lifecycle`.
- *`add_point_ranges`*: its check is inverted, so there is no behaviour to state.
- *Timestamps, encryption and access times* of arrays, contents of files, and the
  callbacks of `ls`, which run inside one C call.
- *Strategies that draw cells and write sequences*, and the derive macro of
  `OptionSubset`: generators without a state; the comparisons are used as equality.
- *`tiledb/sys*`*: declarations. *`tools/api-coverage`*: a scanner that nothing
  depends on. Examples and tests are read for what they state, not modelled.

What would be next, in order: proofs about `Cells` and `Schema`; schema evolution against `Schema`; the write sequences of
`test-utils/cells/src/write` as a composition of `Cells` and `FragmentInfo`.
