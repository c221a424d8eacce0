# A TLA+ model of quickjs-rust

quickjs-rust is an ECMAScript engine: a lexer and a parser, a bytecode compiler, a virtual machine,
a module linker, the standard library, and a command-line host. Most of it is sequential code over
unbounded data. This project models the parts whose correctness depends on the *order* in which
things happen, or on several pieces of state that must agree after every one of a long sequence of
calls: shared memory between the threads of an agent cluster, the cluster itself, promises and their
job queue, the promise combinators, the module graph, async generators, `using` blocks, iterator
helpers, maps walked while they change, the table of property keys, the caches of inherited properties,
and the storage of arrays.

Paths below are relative to `crates/qjs-runtime/src/` unless they begin with `crates/`.

## 1. Inventory

| Component | State it keeps | Operations | What makes it correct | Here |
|---|---|---|---|---|
| Shared memory (`array_buffer/shared_backing.rs`, `array_buffer/shared.rs`, `atomics.rs`, `typed_array/element.rs`) | bytes, waiter list, next waiter id, one mutex, one condition variable | load, store, read-modify-write, compareExchange, `ta[i] = v`, grow, wait, notify | operations on one element are atomic; no lost wakeup; notify's count is exact and in order; waits with a deadline return | `SharedBacking`, `AtomicMemory` |
| Agent cluster (`agent.rs`) | queue of reports, a sender per worker, a receiver per context | start, broadcast, receiveBroadcast, report, getReport | every broadcast after a start reaches the worker, in one order for all | `AgentCluster` |
| Promises, async functions, jobs (`promise.rs`, `promise/jobs.rs`, `promise/capability.rs`, `async_function.rs`, `bytecode/vm_jobs.rs`) | state, result and reactions of each promise; the realm's queue; the batch of each drain | new Promise, resolve, reject, then, await, import(), the drains | a pending promise has one way to settle; every registration is answered once; jobs run once and in order | `PromiseJobs` |
| Promise combinators (`promise/perform.rs`, `all.rs`, `all_settled.rs`, `any.rs`, `race.rs`) | the array, the count, an alreadyCalled cell per element | the loop over the iterable, the element functions | settled with the right thing at the right moment; the array is final | `PromiseCombinators`, `CombinatorOutcome` |
| Module graph (`module/*.rs`, `bytecode/vm_module.rs`, `vm_import.rs`) | status per module, async bodies, the mark of static evaluation, the realm's queue | load, link, evaluate, import jobs, the nested drain | dependencies first, each body once; statuses set back after an error; a failure fails the one it concerns | `ModuleGraph` |
| Async generators (`async_generator.rs`, `bytecode/vm_generator.rs`) | suspended frame, request queue, draining flag | next, return, throw, the reactions of its awaits | one driver at a time; requests answered once and in order | `AsyncGenerator`, `AsyncGeneratorRequests` |
| `using` blocks (`bytecode/vm_dispose.rs`) | stack of resources, awaits owed, the pending completion | register, leave, dispose, await | each resource disposed once, in reverse order, every error kept, every await paid | `Disposal` |
| Iterator helpers (`iterator/helpers.rs`, `zip.rs`, `protocol.rs`) | kind, flags, the underlying and inner iterators, the records of zip | map .. flatMap, concat, zip, zipKeyed, next, return | every iterator that was opened is over or closed, once, in reverse order | `IteratorHelpers` |
| Map and Set (`map.rs`, `set.rs`, `value/map.rs`, `value/set.rs`) | ordered entries with holes, an index, a count, positions of walks | set, delete, clear, getOrInsertComputed, next, forEach | a walk visits each live entry once | `LiveMap` |
| Property keys (`property/atom.rs`) | the table, the leases of each record, free ids, the sweep limit | intern, clone, drop, sweep | a live key is one record with an id of its own | `AtomTable` |
| Prototype caches (`value/layout/prototype.rs`, `bytecode/named_property_cache.rs`) | a validity cell per prototype, users, the work list of an invalidation, the entries of a site | read, write, define, delete, setPrototypeOf | a hit returns what a lookup would | `PrototypeCaches` |
| Array storage (`value/array.rs`, `property/array.rs`) | a vector, holes, a table of indexed properties, flags | assignment, definition, deletion, length, freeze, push .. splice, sort | the pieces never disagree about a property | `ArrayStorage`, `ArrayObject` |
| Weak references, finalization | targets, registrations, cleanup queue | deref, register, unregister | no cleanup before the target is gone | candidate |
| Bindings and scopes | cells, tables | declare, initialise, read, write | TDZ, one cell per binding | candidate |
| Proxy, Reflect | target and handler | the traps | invariants of the results of traps | candidate |
| Bytecode compiler, VM, its specialised tiers | code, frames, stacks | compile, execute | tiers agree with the interpreter | not modelled |
| Functions, contexts, realms | activations | call, construct | plumbing without a protocol | not modelled |
| Typed arrays, DataView, unshared buffers | bytes | element access | sequential | not modelled, but for the access to shared bytes |
| Strings, numbers, dates, JSON, regular expressions, array algorithms, errors, symbols, maths | data | library functions | pure functions of unbounded data | not modelled |
| Lexer, parser, AST, Unicode | text and trees | parse | pure functions | not modelled |
| CLI, allocator, Test262 host, scripts, benchmarks | - | I/O, measuring | - | not modelled |

### How the components interact

- The **agents** of a cluster are engines on OS threads of their own. Nothing of an engine is shared
  but two things: the `Arc<AgentCluster>` and the `Arc<SharedBacking>` of each broadcast buffer. A
  worker gets the backing in a `BroadcastMessage` and wraps it in a `SharedArrayBuffer` of its own.
- Inside one engine everything runs on one thread. **Callbacks** are the only interleaving: user code
  runs in the middle of a native (a then method inside a thenable job, a disposer inside the
  disposal of a block, a callback of `forEach`, the body of a generator inside its own loop) and may
  call whatever it has been handed.
- Promises, async functions, async generators, async disposal and `import()` meet in the **job queue**
  of the realm. The host drains it (`run_jobs`, the CLI, `vm_import.rs`). An import job reaches the
  module graph, and the graph drains the same queue from inside the job. `PromiseJobs` has the queue
  with every kind of user code and one module of no dependencies; `ModuleGraph` has the graph, and
  of the queue the two kinds of jobs that matter to it.
- Property keys, layouts and prototype cells are **shared structure** below every object. Nobody calls
  a cache when something changes: the one who changes an object must invalidate what depends on it.

### What is hard here

1. Operations that take the backing's lock more than once (`Atomics.store`, `grow`, every bulk write),
   with other agents in between; `wait` parks and re-parks; deadlines pass while a thread is parked
   or is queueing for the lock.
2. A drain that holds its batch in a local while jobs enqueue, fail, or drain again.
3. Resolving functions that outlive what they settle, are called twice, by anybody, at any time.
4. Combinators whose elements answer before the loop has ended, or more than once.
5. Threads that end while others wait for them.
6. Three depth-first walks over one graph, which fail at any depth and are started again later on what
   the failed walk has left.
7. A generator whose queue grows while its body runs, while it awaits, and while it is completed.
8. A position kept in storage that is compacted, cleared and refilled under it.
9. An invalidation that prunes itself by an invariant of the cells, and a cache that stops caching.
10. Several iterators held open, any of whose calls may throw, close the others, or call the helper again.
11. One fact, that an index has a property, kept in three places, and written by a dozen short cuts that
    each check a different part of it.

`PROJECT.json` lists each hazard at its line, with the properties that cover it.

## 2. Modules

| Module | Models | Extends or instantiates |
|---|---|---|
| `AtomicOps` | the pure part of `atomics.rs`: coercion to a width, the read-modify-write operators | - |
| `AtomicMemory` | *abstract*: shared memory as the agents are promised it | `AtomicOps` |
| `SharedBacking` | the lock, the bytes, the waiter list and all operations on them | `AtomicOps`; `AtomicMemory` by a refinement mapping |
| `MCSharedBacking` | programs of agents for TLC | `SharedBacking` |
| `AgentCluster` | `agent.rs` | - |
| `PromiseJobs` | promises, jobs, drains, async functions, the import job | - |
| `CombinatorOutcome` | *abstract*: which outcome each combinator promises | - |
| `PromiseCombinators` | the code of the combinators | `CombinatorOutcome` by a refinement mapping |
| `ModuleGraph`, `MCModuleGraph` | the module graph; graphs of sources for TLC | - |
| `AsyncGeneratorRequests` | *abstract*: the replies a generator promises | - |
| `AsyncGenerator` | the queue, the loop, the reactions | `AsyncGeneratorRequests` by a refinement mapping |
| `Disposal` | one `using` block | - |
| `IteratorHelpers` | one helper and the iterators it opens | - |
| `LiveMap` | a map and its walks | - |
| `AtomTable` | property keys | - |
| `MCEngine` | the composition of seven of these for TLC | `PromiseCombinators`, `AsyncGenerator`, `LiveMap`, `Disposal`, `IteratorHelpers`, `AtomTable`, `AgentCluster` |
| `PrototypeCaches` | a read site and the validity cells | - |
| `ArrayObject` | *abstract*: an array as scripts are promised it | - |
| `ArrayStorage` | the storage of an array | `ArrayObject` by a refinement mapping |
| `MCObjects` | the composition of the two for TLC | `PrototypeCaches`, `ArrayStorage` |
| `SharedMemory_proofs` | theorems about `SharedBacking`, and that it implements `AtomicMemory` | `SharedBacking` |
| `AgentCluster_proofs`, `PromiseJobs_proofs`, `PromiseCombinators_proofs`, `AsyncGenerator_proofs`, `ModuleGraph_proofs` | theorems | the module they are named for |
| `Iteration_proofs` | theorems about walks, helpers and disposal | `LiveMap`, `IteratorHelpers`, `Disposal` |
| `Objects_proofs` | theorems about keys, arrays and caches | `AtomTable`, `ArrayStorage`, `PrototypeCaches` |

Operators whose comment begins "Variant of" (or "Variant:") are deliberate corruptions of the operator
below them, one plausible bug each. No specification uses them: `PROJECT.json` ("mutants") says which
property each of them must break, which is how the properties are known to have teeth.

### 2.1 SharedBacking

One buffer, many agents. `bytes`, `waiters` and `next_id` are the fields of `Inner`; `pc`, `req`,
`snap` and `id` are the call frame of the operation an agent is in (`snap` is the private copy that
`buffer_bytes` returns, `id` the local of `SharedBacking::wait`). `ret` and `outcome` are what the
operations gave the script. `woken`, `resumed` and `settled` are history variables.

**One action is one section of the lock.** An operation first checks its index against the length
(`Accept`, `Refuse`: `to_atomic_index`), gives the lock up, and takes it again for what it does:

- `Load`, `ReadModifyWriteStep`, `CompareExchange`, `Write`: one section more.
- `Measure`, `StoreCopy`, `StoreSet`: `Atomics.store` and every bulk write measure the view, copy *all*
  the bytes, change the copy, and put it back. Between the sections the bytes are free.
- `GrowCheck`, `GrowCopy`, `GrowSet`: `grow` the same way.
- `WaitRefused`, `WaitNotEqual`, `WaitPark`, `Expire`, `Wake`, `GiveUp`: the comparison and the parking
  are one section, since `Condvar::wait` gives the lock up only once the thread is queued.
  `Expire` is the passing of the deadline, after which the thread queues for the lock; `GiveUp` is
  the second look it takes once it has it.
- `Notify`: the walk over the list and `notify_all`.

The order of the list is the order of the ids, so `waiters` is a set of records. Elements are numbers
of `Width` bits and lengths are counted in elements: all views are length-tracking views of one
integer kind at offset 0. `CanBlock` is the set of agents that may be suspended.

### 2.2 AgentCluster

`senders`, `reports` are the two mutex-protected fields; `channel[w]` and `receivers` are the channel of a
worker and whether its receiver lives; `inbox` is `AgentContext.inbox`. `Register` and `Spawn` are
the two halves of `start`. `Receive` takes the receiver and blocks, `Received` is the return of
`recv`, `CallbackReturns` drops the receiver. `HoldsCluster` says who keeps the
`Arc<AgentCluster>` - and so every sender - alive: each agent that lives, the blocked one included.

### 2.3 PromiseJobs

`state`, `result` and `reactions` are the internal slots; what `reactions` holds are *registrations*, each of
which stands for the pair of entries `then` makes, one in the list of either outcome, of which settling
keeps one half and drops the other. A resolving *pair* is a number; `target` maps
it to its promise, `resolved` is the set of pairs whose alreadyResolved cell is set, and `held` the
pairs the script holds. `jobs` is the realm's queue; `batch` and `inner` are the
locals of `drain_promise_jobs_with_mode`, of the host's drain and of the drain nested in an import
job. `running` is the user code on the stack; `body` and `promise_of` belong to async functions.

User code is free: while some runs, `New`, `CallResolving`, `Then`, `CallAsync`
and `dynamic_import` may happen, until it completes (`ScriptEnds`, `HandlerEnds`, `ThenMethodEnds`,
`ModuleEnds`, `AwaitAgain`, `BodyEnds`). `TakeBatch` is the replacement of the queue by an empty one,
`RunReaction`, `RunThenable` and `RunImport` are the job functions, `FailDrain` is the `?` that
leaves the loop, `EndNestedDrain` is the mode that stops before an import job,
`SettleImport` the end of an import job.

Left out: `finally` (its two functions are a handler and a `then`), the jobs of async disposal,
`Promise.try`, `withResolvers` (both are `New` and `CallResolving`). An imported module has no
dependencies of its own here; that is `ModuleGraph`. `Symbol.species` is represented by the one
case that matters to the queue: a constructor whose functions throw. Once such a function has failed a
drain, jobs are gone (finding 2 of section 5), and what the other invariants say of promises would be
broken by that alone; so they are stated of the states in which `NoJobLost` still holds, and the run
`promise_import`, where nothing fails a drain, shows that it holds in all of them.

### 2.4 PromiseCombinators

`values` is the array (of errors, for `any`), `remaining` the shared count, `called` the elements whose
alreadyCalled cell is set, `settled` the first call of the capability. `on_element`, `on_complete` and
`abort` are the loop; `settle_element(i, how, v)` is a call of either function of element `i`, by
anybody, at any time. `Array` stands for the array *by reference*: what the script sees in it is
`values`, now and later, which is why `ArrayIsFinal` is worth stating.

### 2.5 ModuleGraph

A module is its canonical key; what its text and the host's resolver make of it is its `source`: the
list of its requests, whether it is found and parses, whether its imports resolve, how its body ends or
what it awaits, and what it calls `import()` with. `status` is the registry, `static_evaluation` the
flag of that name, `body` where the evaluation of each body is. `stack` is the Rust call stack of
the depth-first walk the engine is in, one frame per module with the index of its next
request, and `phase` says which of the walks it is: `insert_and_load_dependencies`; `EnterLink`,
`LinkDependency`, `ValidateImports` (`link`); `EnterEvaluate`, `EvaluateDependency`, `BeginSettle`,
`ResumeNested`, `settle_started_async_dependencies`, `evaluate_body` (`evaluate_with_drain`).
An error unwinds the whole stack in one action, with what each frame does about it: a loading error
leaves what was inserted, a linking error leaves `Linking`, an evaluation error sets every module of the
stack back to `Linked`. `jobs` and `batch` are the queue and the host's batch, with two kinds of
jobs: an import, and the resumption of a body. `import` is the import job that runs, which starts the
same walks at another module.

### 2.6 AsyncGenerator

`generator`, `requests` and `draining` are the fields. `driver` says where the thread is:
in the loop of `drain_requests`, in the body, or elsewhere. `waiting` holds the reactions of the promises
the generator awaits, by the four functions that schedule them: `await` and `returnResume` lead back
into the body, `yield` answers a request (or leads back when it is rejected), `return` answers a
return of a completed generator. A request is the number of its call; `requested` and `replies`
record all calls and what each was answered. `enqueue` may happen at any time - in the body, between
jobs, or inside the loop, which runs getters of the values it resolves with. The body ends
each of its runs as it likes.

### 2.7 Disposal

`resources`, `needs_await`, `has_awaited` and `deferred_error` are `DisposableScope`, `completion` the
pending completion of the finalizer. A sync block is disposed by `dispose_sync` alone; a block with `await
using` by the turns of the loop around `dispose_async_step`, each of which does the first that
applies: `chain_deferred`, `await_owed`, `skip`, `call_disposer`. A *fallback* is an `await using` whose
value has only `Symbol.dispose`, a *skipped* one was null or undefined and owes an await. Errors are kept
as the list `SuppressedError` nests. `registered`, `left` and `disposal` are history variables.

### 2.8 LiveMap

`entries` is the vector with its holes, `index` the positions, `live` the count. A walk is an iterator or a
`forEach`; `next` is its position. `owed` and `cut` are history: what the walk has to visit
still, and whether the storage was emptied under it. `map_delete` of the last live entry
drops the vector (`compact_if_sparse` and what it does at 0), which is where walks lose their place.
A set is the same storage. Values, and the hashing of keys, are left out.

### 2.9 AtomTable

`records` are all `KeyRecord`s ever made, `leases` their strong counts, `table` what `entries` and
`symbols` find (weakly) by text or by the address of a symbol. `next_id`, `free_ids` and
`sweep_at` are the fields. `object[a]` numbers the objects that have lain at address `a`: `new_symbol`
may reuse an address only when neither the program nor a record holds the old object.

### 2.10 PrototypeCaches

`proto` and `slots` are the objects, with one property. `mode`, `parent`, `users`, `direct_trackable`,
`trackable` and `valid` are the `PrototypeState`s and their cells, `value_writes` the count after which a
holder is read live. `pending` is the work list of `invalidate`, one state per action; nothing else
acts before it is empty. `set_prototype` and `reparent` are the two halves of a change of a prototype's
prototype, with an invalidation after each. `site` is the set of entries of one read site, `mega` that
it has given up. A registration that a `rebase` leaves behind, which `invalidate` drops when it meets
it, is dropped at once; so is an entry whose cell is invalid, which no lookup returns. The write and
call sites and the for-in key caches take tokens of the same cells (`enumerate_keys`) and are not modelled further.

### 2.11 ArrayStorage

`elements` may be shorter than `array_length`; `holes` are positions in it; `named` is the table,
for indices only; the four flags are those of `PackedState`. `set`, `define_property` and `set_len`
are the primitives of `ArrayRef`; the actions are their callers, in the order of their checks:
`Overwrite`, `StoreDense`, `StoreGeneric` are the three ways of an assignment, `DefineProperty` and
`CreateDataProperty` the two of a definition, `define_array_length_property` is `ArraySetLength`
with the deletions before it, and `with_plain_dense_mutation`, `define_plain_elements`,
`replace_dense_elements` and `hole_tail_append` are the short cuts of natives and loops. A
property is a value, writable and configurable; enumerability, accessors and other names than indices are left
out, and a generic algorithm that calls user code between its steps is its steps.
`ArrayObject` is what a script is promised: a property per index, `Set`, `Define`, `Delete`,
`SetSize`, and so on.

The code departs from that promise in four places. With `Careful` scripts keep clear of them, and
then `ImplementsArray` holds; without, the run `array_closed` shows the first. (1) A new length takes the
part of the vector that `new Array(n)` left out for elements (`Materialised`). (2) An
assignment to an index whose property is in the table loses its attributes (`Overwritable`).
(3) A shorter length deletes elements of the vector before it meets a sparse property that must stay
(`KeptPast`). (4) A definition of an existing property past the vector on an array that
is not extensible is dropped (`Definable`).

### 2.12 IteratorHelpers

One helper from its construction to its end. `helper`, `budget`, `active` and the three flags are its slots
(`active` is `HELPER_INNER` of flatMap and `CONCAT_ACTIVE` of concat), `entry_open` the flags of
the records in `ZipState`; `at`, `produced` and `matching` are locals of `advance_zip_state`, where `matching`
is the inner loop of strict mode. `native` and `calling` say which native is on the stack and which user code it is
calling; every such call is a step with an outcome: a value, an end, an error, and "bad" for an argument, an
item or a result that is refused after the call. `Closes` is the start of closing the iterators of a list, and
`close_one` the `return` of the first of them: helpers leave with the first error that is not
hidden by an earlier one (`Propagates`), zip goes on. Iterators are numbered as they are opened; `opened`, `over`
(exhausted, or its `next` or a result failed) and `closed` are history variables.

User code called from a native may call the helper again. That is no action: `next` and `return` of a helper that is
executing or done answer at once, and `EveryIteratorReleased` says that it is one or the other whenever such a call can happen.

## 3. Runs

| Run | Bounds | Shows |
|---|---|---|
| `backing_atomic` | 3 agents, 2 elements of 2 bits, arguments 0 and 5 (wider than an element), 3 calls | `ImplementsAtomicMemory`; `NotifiedWaitReturns`, `FiniteWaitReturns` under fairness |
| `backing_all` | 3 agents, 1-2 elements of 1 bit, 4 calls: store, grow, add, `ta[i] = v`, both waits, a refused wait, notify | `TypeOK`, `ListOK`, `NoSleepAfterNotify`, `NoLostWakeup`, `WokenAccounted`, `NotifiedInOrder`, `NotifyBeatsTimeout` |
| `engine` | combinators: 3 elements, 2 answers, all four kinds | `RemainingExact`, `ArrayIsFinal`, `ImplementsOutcome` |
| | async generator: 4 calls, 2 awaits | `OneDriver`, `ImplementsRequests`, `EveryRequestReplied` |
| | map: 3 keys, 2 walks, 4 positions | `WalksOweTheRest` |
| | block: 4 resources | `EveryResourceDisposed` |
| | helper: all seven kinds and three modes of zip, 4 iterators besides the underlying one | `EveryIteratorReleased` |
| | atoms: 2 texts, 1 address with 2 objects, 3 ids, 4 records, 2 leases of each | `LeasesIdentifyKeys` |
| | cluster: main and 2 workers, 2 broadcasts, 2 reports | `FirstBroadcastReceived`, `ChannelsAgree`, `BroadcastArrives` |
| `promise` | 4 promises, 4 calls, a thenable, a poisoned object, an async function, species | `JobMatchesPromise`, `ReactsOnce`, `OneWayToSettle`, `AdoptedOutcome`, `SuspendedHasOneResume`, `JobsInOrder` |
| `promise_import` | 3 promises, 3 calls, a thenable, an async function, imports | `NoJobLost`, `EveryJobStarts` |
| `modules` | 3 modules, 3 requests, 2 modules that do not simply complete, 2 imports, every graph and every root | `BodyIsReady`, `EvaluatingIsOnStack`, `SettledUnlessImport`, `StaticFailsForItself`, `ImportReachesAll` |
| `objects` | caches: 3 objects, 2 values, a Proxy, 1 write, 1 entry | `CacheIsFresh`, `ValidUpwards` |
| | array: length 3, a vector of 2, one value and undefined | `ImplementsArray`, `FrozenForever` |
| `backing_store_race`, `promise_lost_job`, `modules_relink`, `generator_reply`, `array_closed` | smallest that show it | the findings of section 5 |

**Two compositions.** `MCEngine` and `MCObjects` put components that share no state side by side. In each
behaviour one of them acts (`acting`, `storing`) and the others rest in an initial state, so the states
of the run are the sum and not the product of theirs: nothing is gained from an interleaving of steps that
cannot disturb each other.

**Why the bounds are enough.** `MaxCalls` counts calls, not steps. Three agents are one that changes
memory and two that wait, the fewest for order among waiters and for a wakeup that goes to the wrong
thread; two waits, a change and a notify are four calls. Two elements are the
fewest for an operation on one to disturb another, or a wakeup to be meant for another index. One and
two bits wrap, carry and borrow; 5 is coerced. Two broadcasts are the fewest that can be
ordered differently by two workers. For promises, four calls make a promise, resolve it with another,
register at it, and settle the other, with handlers, then methods and async bodies calling what is
left; pairs are bounded so high that none of these runs can exhaust them. Three elements are the
fewest where a first, a middle and a last answer differ. Three modules with three requests are the
smallest cycle, the smallest diamond but for its top, and a chain; two of them may fail or
await while the third is what they hurt. A generator with four calls can have one served, one
awaited and two in its queue. Four records of zip have one that fails, one that is over before it, and two
behind it whose order shows. Four positions hold three keys and one that has moved. Three objects are
the shortest chain with something above and something below the holder that changes; the
limits of writes and of entries are lowered to one, so that both of their sides are reached. An array of
length 3 over a vector limited to 2 has an index in the vector, one at its end and one past it, each of which
may be an element, a hole, or in the table. What the bounds cut off is
covered by the theorems of section 4: every invariant a run checks is proved there for every value of the
constants, and so are the action properties and the refinements. Liveness is not.

**Symmetry.** Modules are interchangeable in `modules`, since the set of graphs is closed under
renaming; so are objects and values of the caches in `objects`, whose properties are safety. `ImplementsArray`
and `FrozenForever` are about steps and mention none of what is permuted.

Deadlock is not checked: a behaviour ends when scripts have made their calls, when every agent waits
for a notify that nobody sends, when every thread has ended, or when a part has reached its bound.

**Fairness.** `SharedBacking`: weak fairness of what an agent does inside an operation. Threads are
scheduled, the lock is released with `unlock_fair`, so a queued thread gets it, and a
finite deadline passes. *Calling* an operation is never fair. `AgentCluster`: started threads begin, starts
complete, `recv` returns when it can, callbacks and scripts end; natives are not fair
(`ClusterFairness`; `ClusterActsFairly` is the same while it is the cluster that acts). `PromiseJobs`: the
engine takes its next step, and the user code on the stack completes; that the embedder drains is not
assumed, `EveryJobStarts` is about what happens once it does. `AsyncGenerator`
(`GeneratorFairness`): the loop goes on, jobs are drained, what is awaited settles and each run of the body
ends; calls are not fair. A body that awaits or yields for ever is cut off by `MaxAwaited`.

## 4. Proofs

Checked by TLAPS for every value of the constants that satisfies the named assumptions
(`WidthAssumption`, `BackingAssumption`, `NoRequestAssumption`, `ClusterAssumption`, `PromiseAssumption`,
`CombinatorAssumption`, `ModuleAssumption`, `GeneratorAssumption`, `LiveMapAssumption`, `HelperAssumption`,
`DisposalAssumption`, `AtomAssumption`, `ArrayAssumption`, `SentinelsApart`, `CacheAssumption`): any finite set
of agents, any programs, any graph of modules, any lengths, any width, any number of calls, promises,
elements, resources, keys, objects or records. They only say what the code cannot be built without: a bound
is a natural number, a vector is not longer than the longest array, a value that stands for none is not one of
the others.

Every proof has the same shape: an invariant that TLC checked first, one lemma per action that keeps it
(named for the action, ending in `Keeps`), and lemmas about the operators they share.

*SharedMemory_proofs.*
`TypeCorrect` proves `TypeOK` with `FramesOK` (which kind of operation can be at which step), which is
the strengthening that makes it inductive: a grow puts back a copy whose length was checked two
sections ago, so the checked length must be remembered in the frame.
`WaiterListCorrect` proves `ListInv`, the conjunction of `ListOK`, `NoSleepAfterNotify`,
`NotifiedInOrder` and `NoLostWakeup`; `OneWaiterEach`, `NobodyOversleeps` and `FirstComeFirstWoken` state
the parts. None is inductive alone: that nobody is left unnotified after a
notify needs the list to be exactly the parked agents, with unique ids; that notify marks in order
needs earlier marks to be in order. The steps are sorted into quiet ones (`QuietSteps`), which
leave list and frames alone and may only take indices out of `settled`, and the four that are not:
`ParkKeeps`, `LeaveKeeps`, `SleepAgainKeeps`, `NotifyKeeps`. It holds with racing stores and grows, although the memory
itself goes wrong then. `NotifiedReturnsOk` proves the action property `NotifyBeatsTimeout` from it.
`NotifyCountExact` proves `WokenAccounted`, by counting the notified waiters through the library's
theorems on cardinality: `NotifyCounts` (marking n waiters makes n more) and `LeaveCounts`.
`MemoryIsAtomic` proves that `SharedBacking` implements `AtomicMemory` under the hypothesis
`NoCopies` - no program stores or grows; `backing_store_race` shows why it is needed. The
invariant it rests on is `InBounds`: an index once accepted stays in the buffer. The mapping shows an
operation as pending from its `Accept` to its last section, where `Perform` happens; every other step
is a stutter.

*AgentCluster_proofs.* `ClusterInv` says what a channel carries (`Carried`): exactly the broadcasts from the
next one due to the last one sent, a *window* of the numbers; and how a receiver lives (`Lives`): a
worker inside somebody's start is registered, unborn, and inside one start only, and has received nothing
before its callback. `FirstBroadcastReaches` and `OneOrderOfBroadcasts` follow. The lemmas on
windows (`WindowGrows`, `WindowShrinks`) are the sequences of the channel.

*PromiseJobs_proofs.* `Types` proves `AInv`, which the others build on: types; the jobs of the two batches and of
the queue are in the order of their numbers, none of them started (`QueueInv`); whatever a job, a
registration or the code on the stack mentions has been made (`Known`); a job carries what its promise
was settled with (`Matches`); and of the two halves of an await, and of the job made from one, there is never more
than one (`ResumeInv`). Every step is summed up by the jobs that leave and those that are new (`Moved`), and the
invariants are kept step by step in those terms. `JobMatches`, `OneResume`, `ReactOnce` (`PlaceInv`: a registration is in one
list, or due in one job, or answered), `OneWaySettles` (`WaysInv`: a pending promise has one way to settle - a
pair, a thenable job or a body) and `AdoptsOutcome` (`AdoptInv`: where the one way of an adopting promise comes from,
for both outcomes, is the promise it adopts) are the five invariants of the runs. Like the invariants they are about states in which `NoJobLost` holds;
that it does is `NothingLost`, whose hypothesis `"species" \notin Features` is the absence of finding 2's
cause. `FirstInFirstOut` proves `JobsInOrder`, under the hypothesis `"import" \notin Features`, as a drain nested in an
import job does start jobs out of order (section 5).

*PromiseCombinators_proofs.*
`CountInv` says that the count is the number of open elements plus one for the loop, that the array is
delivered only after the loop with no element open, and that a called element has its answer. From
it follow `RemainingIsExact`, `ArrayNeverWritten`, and `CombinatorsImplement`, the refinement of
`CombinatorOutcome`: every step is mapped to `Element`, `Complete`, `Abort` or `Answer`, or to a stutter
(`StepMaps`).

*ModuleGraph_proofs.* `WalksAreTyped` proves `BaseInv`: a module is on the stack once and with the status its frame
says, which gives `EvaluatingTakenBack` (`EvaluatingIsOnStack`). `SuspendedIsResumedOnce` proves that a suspended body
has one job that resumes it and no other module has one. `BodiesRunInOrder` and `AwaitsSettleFirst` are `BodyIsReady` and
`SettledUnlessImport`, from `RunInv`: every request a frame has passed was visited, and the top moves past the drain that
follows them only when the queue is empty or an import is at its head (`FramesInv`). `GraphInvariant` adds `ReachInv`:
each frame was reached from those below it (`PathInv`), and what an evaluated module requests was entered and not set
back, unless something it reaches threw or a body was rejected (`EvaluatedInv`). `RootFailsForItself` and `ImportsReachAll`
are what is left of that when a walk ends.

*AsyncGenerator_proofs.* `DriverInv` strengthens `OneDriver` by `DriverMatches`: the body runs in the
state running and under a request, and a reaction that leads into the body waits only while it is
suspended. `ReplyInv` adds the relation of the queue to the calls (`QueueInv`: the queue is the calls not
yet replied, in order), that a generator whose reply said done is completed (`DoneInv`), and whose
value a return awaits (`ReturnInv`). `GeneratorImplements` is the refinement of
`AsyncGeneratorRequests`; it holds with finding 4, as the abstract specification promises of the value
of a return only that it is that of some return.

*Iteration_proofs.* `MapInv` is `WalksOweTheRest` with types and `Positions`: a walk whose storage was not
emptied under it is at most one past the end - without it, an entry appended later might fall behind
the walk. `WalksAreExact` follows.
`IteratorsReleased` proves `EveryIteratorReleased` from `HelperInv`. Its core, `OpenIsOwed`, says for each phase of a helper
which iterators are open, and that they are exactly those somebody is going to release: those held by an idle
helper, those of the list being closed, or those of the round of zip that has been passed over or is to
come. `ClosedInOrder` keeps the list free of repetitions and, for zip, in decreasing order; that the order in
which zip closes exists at all is `ZipOrderDecreases`, by counting for each position how many are not before it.
`ResourcesDisposed` proves `EveryResourceDisposed`. `DisposalInv` relates the history to the list: what is no
longer in it was called, once and downwards (`CallsDone`), awaited if it must be (`AwaitsDone`), and left behind what it
owes (`AwaitsOwed`); the completion carries what failed except the one error a fallback's await holds back
(`Carries`, `DeferredIsLast`), so that the errors stay in the order of the calls although that one is chained late.

*Objects_proofs.* `AtomInv` says that ids handed out and free ids lie below `next_id` and are in one place
(`IdsApart`), and that a live record is the one its place in the table names, under the key it has
now (`LiveFound`), which for a symbol needs the record to pin its object. `KeysIdentified` follows.
`FrozenStays` proves `FrozenForever`, without any assumption on the values, and
for scripts that do not keep clear of the divergences as well. `FrozenInv` says that the table holds
properties, and that a frozen array is sealed, closed, of fixed length, with fixed properties in its table. The
steps of a frozen array are refused (`FrozenRefusesStores`), set flags that are set, or move a property
from the vector to the table as it is (`FrozenDefine`, by `FixedStays`: no definition that is compatible
changes a fixed property).
`CellsValidUpwards` and `HitsAreGeneric` prove `ValidUpwards` and `CacheIsFresh` from `CacheInv`: a state knows the state
of its object's prototype, and that one knows it (`StatesLinked`), so that the walk from a changed state reaches
all that depend on it; an entry with a token has a valid cell and either is fresh or has a state on its chain that the
walk has yet to visit (`EntriesGuarded`). `ValidUpwards` makes it sound that the walk stops where a
cell is invalid already. Chains have no cycle (`Acyclic`, kept by `RebaseIsSound` across the two halves of a
reparenting), so that the holder an entry names is the one the lookup reaches first.

`ArraysImplement` proves that `ArrayStorage` implements `ArrayObject` under the hypothesis `Careful`, which stands for
the divergences of section 2.11; `array_closed` shows why it is needed. `StorageInv` says that holes lie in the
vector, that a closed array has no attribute its flags deny, and where the table may have an entry: below the
length, and past the vector only where the vector cannot reach (`EntryOK`). An entry behind an element
is possible, as a write leaves it there, and harmless because it has the element's attributes; so a property is kept
from deletion exactly when it says it is not configurable (`KeptIs`). Writes and definitions map to `Put`
(`SetWrites`, `DefineWrites`), and a new length to `SetSize`: what delete_indices_from and set_len leave is the
last property that stays, whichever of the vector and the table has it (`LengthImplements`). An operation that
is refused silently is a stutter.

**Only model-checked:** all liveness (the proof system does not do fairness or ENABLED). What the bit operators of
`AtomicOps` compute is checked by TLC within `ImplementsAtomicMemory` and proved only to be an element.
No RECURSIVE operator occurs in any module; induction over data is not needed.

## 5. Findings

1. **`Atomics.store` loses concurrent updates** (`backing_store_race`). `set_view_elements`
   (`typed_array/element.rs:555-563`) copies all the bytes in one section of the lock and sets them in
   another, and takes back whatever happened to *any* element in between. `atomics.rs:279-280` states
   the opposite intent for the read-modify-write operations, whose update is the one that is lost.
2. **A failing job drops the rest of its batch** (`promise_lost_job`). `promise/jobs.rs:144` empties the
   queue into a local, and `?` (lines 156-162) leaves with it. `bytecode/mod.rs:385` and `395-397` describe a
   queue that is preserved and drained until it is empty.
3. **A module that does not link is evaluated the second time** (`modules_relink`). A failed `link` leaves the
   status `Linking`, and `link` returns `Ok` for every status but `Unlinked` (`module/link.rs:391-392`);
   the header of the file (`module/link.rs:5-6`) has unresolvable imports reported as SyntaxErrors.
4. **A return gets the value of another one** (`generator_reply`). On a completed generator a return is awaited
   while its request stays at the front and the drain lowers its flag
   (`async_generator.rs:384-385`); the next call awaits the same front again, and the second of the two
   reactions settles the second request with the first one's value. The comment at
   `async_generator.rs:618-620` counts on the front to stay what it is.
5. **A larger length gives a closed array properties** (`array_closed`). `set_len` pads the vector from its
   own end but records holes only from the old length on (`value/array.rs:1031-1037`): after
   `new Array(1)`, `Object.preventExtensions` and `length = 2`, index 0 exists. The comment at
   `value/array.rs:1025-1027` promises holes, not properties.

Met while modelling, and not the subject of a run:

- Racing grows can shrink a buffer: `grow` checks, copies and sets in three sections (`array_buffer/shared.rs:170-185`),
  while the comment at `shared_backing.rs:115` relies on `grow` never invalidating a waited offset.
- A worker that waits for a broadcast outlives the main agent: the comment at `agent.rs:251-253` expects the
  senders to be dropped, but they are in the cluster that the waiting worker's own context keeps alive.
- The drain nested in an import job (`module/link.rs:197`, `647`) starts what was enqueued later than the
  rest of the outer drain's batch; the comment at `bytecode/vm_module.rs:109-110` has draining deferred to
  the outer loop. A top-level await may therefore be overtaken by the body that depends on it, which is the
  exception in `SettledUnlessImport`.
- After an evaluation error the status is `Linked` again (`module/link.rs:551`), so a second import evaluates the
  body again instead of repeating the error; and members of a cycle that had finished stay `Evaluated` after
  the cycle's root has failed, which is the exception in `ImportReachesAll`.
- The check after an import looks at every module (`module/link.rs:630`), so a top-level await rejected
  earlier rejects every later import. A module whose dependency was rejected *dynamically* runs nevertheless
  when a static walk reaches it, as only marked rejections count there.
- When loading a dependency fails, what has been inserted stays, and the next import of it meets a request that is
  not in the registry: the walks index it and panic (the phase "panicked").
- A walk over a map whose storage was emptied in the middle keeps its position and misses what is added in front of
  it (`value/map.rs:133-139`, `150-156`); `cut` in `LiveMap` excepts it.
- `AsyncDisposableStack.prototype.disposeAsync` calls its disposers one after another without awaiting between them
  (`disposable_stack.rs:760-797`).
- An error in the value of a result of flatMap's inner iterator leaves the underlying one open
  (`iterator/helpers.rs:632`), while the comment at line 639 has an inner failure close it; and when the inner
  iterator's `return` throws, `close_helper_iterators` leaves before it closes the underlying one (line 770), which
  the comment at lines 722-723 does not foresee. `inner_failed` in `IteratorHelpers` excepts both.
- The three further divergences of arrays of section 2.11.

## 6. Not modelled, and why

- *Views at offsets and of several element kinds over one backing, float elements, slice, the fallbacks of
  Atomics on unshared buffers*: the lock does not distinguish them; what they compute is a conversion.
- *Synthetic modules, resolution of export names, namespaces*: data of a record once its status is known.
- *Synchronous generators and the inner iterator of `yield*`*: nothing is queued; a second call while one runs
  is refused at once.
- *`DisposableStack` objects*: the same disposal as a block's, without the block.
- *Set methods over set-likes, hashing of keys.*
- *Write and call sites, layouts' own index, exotic objects*: the caches' other half; they rest on the same
  validity cells.
- *Compiler, virtual machine, typed loops, compact functions*: most of the repository's lines. Their correctness is
  that a translation preserves meaning and that the specialised tiers agree with the interpreter: a statement
  about all programs of a large language, whose data TLC does not reach.
- *Strings, numbers, dates, JSON, regular expressions, array algorithms, lexer, parser*: pure functions of unbounded
  data, which Test262 covers.
- *Weak references and finalization*: reclamation is Rust's reference counting.
- *Eager iterator methods, `Iterator.from`, and arrays that `zip` reads without an iterator*: nothing is held open between
  calls.
- *Bindings, Proxy*: candidates below.

## 7. Plan

In the order of what they would add:

1. An abstract specification of promises that `PromiseJobs` implements; its invariants are those already proved.
2. Two hosts over one module graph.
3. Bindings captured by closures across loop iterations; the frame pool.
4. The composition of `PromiseCombinators` with `PromiseJobs`, elements being promises of the engine.
