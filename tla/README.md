# xlog in TLA+

xlog is a Datalog engine that keeps its relations in GPU memory: a Rust front
end compiles programs to plans, an executor runs them stratum by stratum, and a
CUDA layer owns the memory, the streams and the kernels.  This directory holds
TLA+ models of the parts of it where the order of steps decides whether the
program is right, TLC configurations that check them on small instances, and
TLAPS proofs that hold for every size.

## 1. The system

Sources are under `src/crates/`.  "Hard" is what a unit test hardly reaches.

| component | state | operations | hard | what makes it correct |
|---|---|---|---|---|
| memory admission and accounting (`xlog-cuda`: `memory.rs` GpuMemoryManager, `device_runtime/{budget,runtime,async_resource}.rs`) | local charge, admitted total, promises, ledger of outstanding and reclaimed bytes, pending tally, one ticket per allocation | allocate, reserve, allocate from a reservation, drop a reservation, deallocate, reap | four counters under four locks; a reap inside an allocation; a failure after the driver handed out memory | the limit holds; a promise is honoured; every counter settles once |
| allocation lifecycle and cold retirement (`memory.rs` RawDeviceAllocation, AllocationLifecycleExclusion, `cuda_graph.rs` queue) | permit of the context, retained failure, retirement queue, pending queue, state of each driver free | allocate, drop, drain, reap, retry | retirements that queue retirements, failed and unknown frees, waiting while draining | one owner in the driver; no owner lost or freed twice; calls return |
| block-use registry (`device_runtime/resource.rs`) | registered storages, admission groups, read and write frontiers, leases | register, retain, admit, prepare, publish, reclaim | an operation admitted while its block is being reclaimed; two handles on the same bytes | conflicting work runs in the order of its submission; no reuse before the last event; no free under a lease |
| launch recorder (`launch.rs`), memory operations (`memory.rs`) | phase of a transaction, prepared uses, streams | prepare, enqueue, commit, abort, quarantine | a step of the commit fails in the middle | uses are ended exactly once, after their kernel |
| stream capture and graphs (`cuda_graph.rs`) | active capture, exclusions, executing pins, retained graphs | begin, end, launch, close | a capture races driver calls | the driver and a capture never overlap |
| stream pool (`device_runtime/stream_pool.rs`) | idle and leased streams | lease, return | return during shutdown | a stream has one user |
| executor, recursion (`xlog-runtime/executor/recursive.rs`, `delta.rs`) | store, deltas per relation, batches of heads | seed, iterate, merge, clean up | several recursive scans in a rule, mutual recursion, errors half way | the least model, nothing more |
| relation sessions and incremental recompute (`xlog-gpu/logic.rs`, `pyxlog/logic.rs`, `executor/rewrite.rs`) | authoritative store, snapshot, retained executor | put, remove, clear, evaluate, apply a delta, commit | three copies of one truth, failures half way, results that a delta must take back | a snapshot is the model of what was handed in |
| delta batches (`xlog-gpu/logic.rs`) | net insert and delete per relation | update, commit, discard | rows named often and in both directions | a net delta does what its updates do |
| store and join index cache (`xlog-runtime/relation.rs`, `executor/{mod,join_cache}.rs`) | relation versions, cached indexes, byte total | put, remove, mutate, look up, insert, evict | version restarts, mutation that bypasses the invalidation | an index is never served for other content |
| worst-case optimal joins, resident graphs (`executor/{wcoj_dispatch,resident}.rs`, `resident_graph.rs`) | plans, resident buffers | match, dispatch, fall back | fallback half way | same result as binary joins |
| front end (`xlog-logic`: parser, resolver, lower) | syntax trees | parse, resolve, lower | - | meaning is kept |
| stratification, magic sets (`xlog-logic/{stratify,magic_sets}.rs`) | dependency graph | order, rewrite | negation through recursion | strata respect negation; a query keeps its answers |
| optimiser (`xlog-logic/{optimizer,promote}.rs`, `xlog-stats`) | plans, statistics | rewrite, promote | - | rewrites keep results |
| epistemic reasoning | world views, workspaces | enumerate, test, publish | order of publication | the accepted world views are the right ones |
| probabilistic inference (`xlog-prob`) | three-valued sets and provenance of a component, circuits, caches, samples | evaluate, compile, count, cache | cycles through negation, cache keys, partial files | the well-founded model; cached circuits match their program |
| solver services (`xlog-solve`) | trail, clauses, budgets | decide, propagate, prove | budgets | answers are proved |
| semantic transitions, tensors, DLPack, Arrow (`xlog-cuda`) | resident buffers | publish, restore, exchange | ownership hand-over | one owner per buffer |
| kernels and provider (`xlog-cuda/provider`, `device.rs`) | device buffers | relational kernels | - | each kernel computes its operator |
| neural bridge, rule induction; core types and IR; command line, Python, facade | - | - | - | - |

How they interact.  The executor calls the provider, which allocates through
`GpuMemoryManager`.  The manager claims its local budget, the
`XlogDeviceRuntime` below it takes the promise mutex and asks
`GlobalDeviceBudget`, which may call back into the backend to reap, and the
backend (`AsyncCudaResource`) calls the driver under the lifecycle exclusion of
the CUDA context.  A freed buffer goes the other way: its block leaves the live
map, waits in the backend's pending queue until a reap proves that every event
has passed and no lease remains, and its ticket settles every counter.  What
cannot be released on the spot goes to the process-wide cold retirement queue,
which any call that ends a capture, loads a module, reaps or drops an owner may
drain, unless a stream capture is active.

Above the executor stands a relation session.  A caller hands in relations, which
the authoritative store keeps; an evaluation runs the plan stratum by stratum in
an executor, whose store starts as a copy, and keeps both a snapshot of the result
and the executor.  A delta (one, or the net of a batch) is applied to the retained
executor, which executes again only what depends on the changed relations, and on
success the changed relations are copied back to the authoritative store.  Inside
an executor two caches ride on the store: join indexes, which outlive an
evaluation, and results that the rules of one plan share.

Between the executor and the kernels every operation on device memory goes through
the block-use registry: a recorder or memory operation names the storages it reads
and writes, the registry adds whatever other handle covers the same bytes, and the
operation queues waits for their events on its stream, submits, and publishes an
event of its own.  A stream that is being captured into a graph takes no ordinary
work; whoever submits is told by the capture registry which of the two he does.

## 2. Modules

| module | models | extends / instance |
|---|---|---|
| `MemoryClaims` | abstract: a byte is free, promised or used | - |
| `DeviceMemory`, `DeviceMemory_proofs` | admission, refund, reservations, reap and settlement over the four layers | implements `MemoryClaims` |
| `AllocationLifecycle`, `AllocationLifecycle_proofs` | the driver exclusion, the cold queue, pending batches, leases, captures | - |
| `OrderedUse` | abstract: conflicting work takes effect in the order of its submission, memory is given back after it | - |
| `BlockUse`, `BlockUse_proofs` | storages and their aliases, the registry, the transaction of an operation, streams with events | implements `OrderedUse` |
| `StreamCapture`, `StreamCapture_proofs` | captures of streams against ordinary, captured and exclusive submissions | - |
| `LeastModel` | ground positive programs: rule instances, consequences, the least model | - |
| `Saturation` | abstract: a store grows by what follows and answers when saturated | `LeastModel` |
| `SemiNaive`, `SemiNaive_proofs` | semi-naive evaluation of one recursive component, both routes of a variant | `LeastModel`, implements `Saturation` |
| `Stratification` | the plan of a program: dependency graph, components, strata, order of execution | - |
| `Stratified` | stratified programs: what a component, and a whole plan, computes | - |
| `RelationCache`, `RelationCache_proofs` | a relation store, its join indexes and shared results | - |
| `RelationSession` | a session with its three stores, evaluation, deltas, failures | `Stratified` |
| `Updates` | abstract: a batch happens as a whole or not at all, as its updates would one by one | - |
| `DeltaBatch` (proofs in `BatchSession_proofs`) | merging the updates of a batch into a net delta | implements `Updates` |
| `BatchSession`, `BatchSession_proofs` | a session and its batches together | `RelationSession`, implements `DeltaBatch` and so `Updates` |
| `WellFounded`, `WellFounded_proofs` | the well-founded evaluation of a component with cycles through negation | - |
| `MC*` | the instance TLC checks: programs, layouts, symmetry sets | the module checked |

The modules on memory look at the same code at different levels.  `DeviceMemory`
keeps the counters and forgets queues and order: whether a release succeeds is left
open.  `AllocationLifecycle` keeps the queues, the permits and the order and
forgets the counters.  `BlockUse` keeps what streams execute and forgets why a free
may be refused; `StreamCapture` keeps the captures, of which `AllocationLifecycle`
has the begin and the end only.  The modules on evaluation do the same: `SemiNaive`
keeps every step of one recursive component, and `RelationSession` takes what a
component computes from `Stratified` (a recursive one still grows in rounds, so that
a failure finds it half done) and keeps the steps between components, stores and
calls.  Its plan is the one `Stratification` makes of the program: the assumption
`ExecutionAssumption` of `MCRelationSession` compares the two on every run.

### DeviceMemory

An action is one critical section.  The promise mutex of `XlogDeviceRuntime` is
the variable `promiseLock`, held from `Lock` to `Unlock` as in
`XlogDeviceRuntime::materialize`; the mutexes of the budget, of the ledger and
of the local accounting are held inside one action only, as in the code.

| action | code |
|---|---|
| `Alloc`, `TokenAlloc` | `GpuMemoryManager::alloc_raw`, `GpuMemoryReservation::alloc_raw`, with `LocalAllocationAttempt::new` |
| `ReserveBytes`, `ReserveLocal`, `DropToken`, `DropPromise` | `reserve_bytes`: the promise, the local half; the two halves of the drop |
| `Lock` | `materialize` of the runtime or of a reservation: spend the promise, sample the pressure |
| `Admit`, `Readmit` | the two passes of `GlobalDeviceBudget::allocate_with_pressure` |
| `Malloc`, `MallocRefused`, `Publish`, `Initialize` | `initialize_allocation` and the ticket's `acquired` |
| `RefundBudget`, `Unlock`, `UnwindLocal` | the drops of `BudgetReservation`, `RuntimeReservationAttempt`, `LocalAllocationAttempt`, in the order Rust runs them |
| `Deallocate`, `Enqueue`, `Reap`, `TakeBatch`, `ReleaseNext`, `ReapDone`, `ReleaseCold` | `deallocate`, `reap_pending`, the batch, the cold queue |
| `Free`, `FreeFails`, `SettleLocal`, `SettleLedger` | `RawDeviceAllocation::release` and `AllocationReclamation::complete` |

A checked subtraction of the code is a guard: where the code would report an
underflow and poison the accounting the model stops, and `CallsReturn` would
report the thread that is stuck.

### AllocationLifecycle

`active`, `failed` and `permit` are `AllocationLifecycleExclusion`; `queue`,
`retry`, `unknown` and `retiring` are the retirement half of
`StreamCaptureRegistry`; `pending`, `batch` and `kept` are the pending queue and
a `PendingReclamationBatch`; `lease` says whether another owner shares the
allocation, and whether one still may.  A thread's call stack is `pc`, `cur` (the
allocation it makes), `item` (the retirement it executes), `rel` (the owner it
releases) and `then` (where it goes after a drain).

### BlockUse

A storage is an allocation or a re-import that leases one; its bytes are a set, so
that two storages may share some.  A stream is a queue of waits and works that
executes in order; an event is a position in a stream, and waiting for it means
that the stream has executed that far.

| action | code (`device_runtime/resource.rs` unless said otherwise) |
|---|---|
| `Allocate`, `Import`, `DropHandle` | `RawDeviceAllocation::allocate`, `DeviceStorage::new` and `drop` (`memory.rs`), with `register_storage` |
| `Reclaim`, `Free`, `Released` | `with_reclamation_admission`, `DeviceAccessDependencies::synchronize`, the free and the end of the release |
| `Admit` | `admit_memory_access` (`memory.rs`): `retain_storage_uses` finds every live owner of the bytes, `reserve_context_memory_uses` refuses a conflict, under one lock |
| `CancelAdmitted`, `BeginEnqueue` | the two ways out of `enqueue_operation_with` before its work (`launch.rs`) |
| `Prepare`, `Submit`, `Finish` | `MemoryOperationOwner::prepare` owner by owner, the enqueue, one event published to all owners by `finish` |
| `PrepareFails`, `OperationFails`, `Abort`, `CancelSynchronized`, `SynchronizeFails`, `Retire`, `CancelRetired` | `abort_with`, `commit_with` and `quarantine_owner_and_pending` (`launch.rs`) |
| `Execute` | external: a stream executes its next item |

`log` is history: the order in which work was submitted.

### StreamCapture

`active` and `exclusions` are the lock-protected counts of `StreamCaptureRegistry`,
`entry` and `executing` the registered captures with their pins, `capture` what the
driver captures a stream into.  A capturer goes through `DriverStreamCapture::begin`
(`Lease`, `Begin`, or `BeginUnregistered`, `BeginRefused`), its closure
(`Recorded`, `RecordFails`), `finish` (`Close`, `EndCapture`, `EndUnknown`,
`Complete`) and `drop` (`AfterUnknown`, `GiveBack`).  A submitter selects a phase
(`AcquireOrdinary`, `AcquireCaptured`, `AcquireExclusive`: `from_capture_info`,
`reserve_capture_exclusion`), pins it, submits through the gate of the capture
(`EnterGate`, `Enqueue`, `EnqueueFails`, `Outcome`, `Unpin`) and drops it, possibly
long after the capture ended.  `Drain` and `Drained` are a drain of retirements.
`spoilt` and `graphs` are history.

### SemiNaive

A rule is a head predicate and a sequence of scanned predicates; an instance of it
is a ground body and a ground head.  Relations and deltas are sets of facts.

| action | code (`executor/recursive.rs` unless said otherwise) |
|---|---|
| `Insert` | the union of an insertion in `apply_deltas_and_recompute` (`rewrite.rs`), before a run |
| `Start` | `execute_recursive_scc`: fresh deltas, nothing accumulated |
| `Seed` | the seed pass: every rule of the component once, against the full store |
| `Install` | per head: union into the relation, difference with its old content as the first delta |
| `StartRound` | a turn of the loop over `max_iterations`; the variants are those with a non-empty delta |
| `Factorize` | `try_dispatch_factorized_delta` (`wcoj_dispatch.rs`): the bound of the chain, then new tuples only |
| `Join` | a rewritten body evaluated as joins: derived tuples, new or not |
| `BeginFinalize`, `Finalize` | per head: combine both routes, take the difference if the join route contributed |
| `Converged` | `any_changed` is false: `Ok` |
| `BeginMerge`, `Merge` | per head: union of the delta into the relation |
| `LimitExceeded`, `Fail` | the error after the loop; every `?` on the way |

Abstractions.  Heads are visited in any order (the code's order is that of a hash
map or of the plan).  The names and ids of delta relations, statistics and
profiling are left out.  Lower strata do not change during a run, so a negated atom
of one is decided when the ground instances are formed.

### RelationCache

| action | code (`executor/mod.rs` unless said otherwise) |
|---|---|
| `JoinLookup`, `JoinBuild`, with `Accepts`, `Touch`, `InsertIndex`, `Evicted` | `execute_join` (`node_dispatch.rs`), `JoinIndexCache::get`, `insert`, `evict_until_fits` (`join_cache.rs`), the row-count check of `hash_join_v2_with_index` |
| `Evaluate`, `SharedResult` | `execute_node` and `common_subexpression_key` |
| `Install`, `PutDelta`, `RemoveDelta`, `EmptyHead` | the `store_put` and `store_remove` calls of plans, fixpoints and recomputes |
| `StartPlan`, `StartRecompute`, `EndPlan` | `execute_plan`, `apply_deltas_and_recompute` |
| `EndBaseline`, `AttemptCandidate`, `Adopt`, `RollBack`, `CompareFails`, `Return` | `execute_plan_with_adaptive_candidate`, `clone_store_snapshot`, `plan_outputs_match`, `restore_store_snapshot`, `clone_final_plan_output` |
| `PutRelation`, `TakeResult`, `Reset`, `ResetRelations`, `ResetRelationsFails` | callers between plans: `put_relation`, the result of a query taken out of the store, `reset_for_mc`, `reset_for_ilp`, `reset_for_mc_relations` |

A relation is a set of rows with a version; an index keeps the rows it was built on,
which is what `NoStaleIndex` compares with the relation it is used for.

### Stratification

Operators, no state: `BuildDependencyGraph`, `FindSccs` (Tarjan's algorithm over a
record of its state), `HasNegationCycle`, `StratumMap`, `Stratify`
(`xlog-logic/src/stratify.rs`), `LowerProgram` (`lower.rs`: strata, components,
which are recursive) and `ExecutionOrder` (`executor/mod.rs`).  `PlanSound` says by
paths in the graph what the plan must be: refused exactly when a cycle goes through
a negation or an aggregate (unless the program is probabilistic), each predicate in
one component, mutually dependent ones together, premises before, and negated ones
in an earlier stratum.  It is an assumption of `MCRelationSession` over all small
programs, so both runs on sessions evaluate it.

### RelationSession, DeltaBatch, BatchSession

| action | code |
|---|---|
| `Put`, `Clear`, `DropRuntime` | `put_relation` and `remove_relation` (a put of nothing), `clear_relations` (`pyxlog/logic.rs`); the Rust interface that keeps only the snapshot |
| `BeginEvaluate`, `BeginDelta` | what `evaluate` and the delta path take out of the two slots |
| `Execute`, `Grow` | one component of the plan; the rounds of a recursive one |
| `Evaluated`, `DeltaExecuted`, `Answer`, `Proceed`, `Accept` | the end of the plan and `enforce_constraints_in_store` |
| `Update`, `ClearRecomputed`, with `Affected` and `Recomputed` | steps 1 to 5 of `apply_deltas_and_recompute` (`rewrite.rs`) |
| `Commit`, `Fail` | `PreparedRelationDeltaCommit::commit`; the error exits of an evaluation and of a delta |
| `MergeUpdate`, `NetDelta` | `merge_insert_delta`, then `merge_delete_delta`, per update; what is left of them (`xlog-gpu/logic.rs`) |
| `ApplyBatch`, `Cancelled`, `MergeFails`, `Ends` | `apply_relation_delta_batch_with_session_runtime`: the net delta goes the way of any delta; an empty one leaves both slots alone; a failed merge never reaches the session |

`stored`, `cache` and `runtime` are the three copies; `working` is the store of the
executor in use, whose slot is empty meanwhile.  `given` is history: what callers
handed in and did not delete, the reference the copies are compared with.  In a
batch `current` is history: what the updates would have made of the relations one
by one, each deleting before it inserts, as the direct path does.  `effective` says
that no update so far was idle (inserted a present row or deleted an absent one).
The code merges relation by relation; the model merges the rows of all relations at
once, which is the same because a row belongs to one relation.

### WellFounded

`evaluate_wfs_rules` (`xlog-prob/src/wfs.rs`): a round suspects every atom that is
not true (`Suspect`), takes out what a rule may still support, sweep by sweep
(`Sweep`, `rule_is_potentially_supporting`), marks the rest false (`MarkFalse`) and
derives what follows now (`Derive`, `derive_consequences`); it ends when neither
found anything, or with an error at the limit.  A provenance node is the set of
worlds (choices of the probabilistic facts) in which it holds: conjunction is
intersection, disjunction union.  A sweep removes all supported atoms at once; the
code removes them at the end of each pass over the set.

## 3. What the runs check

| run | instance | distinct states | shows |
|---|---|---|---|
| `memory` | 2 threads, 3 tickets, sizes 1 and 2, limit 3, a block of 1 from before | 362,743 | no interleaving exceeds the limit, breaks a promise, loses an owner or leaves a counter wrong; every step implements `MemoryClaims`; every call returns |
| `lifecycle_safety` | 2 threads, 2 allocations, one of every failure, one capture, one lease | 84,692 | one owner in the driver; capture and driver exclude each other; no free under a lease; owners kept in exactly one place; a free is submitted once |
| `lifecycle_liveness` | no refused malloc; one failed wait, one capture, one lease | 99,380 | every call returns; dropped memory is freed unless the driver fails |
| `block_use` | an allocation of two bytes and a re-import of its second; 3 operations on 2 streams, 2 failures | 73,801 | conflicting work runs in the order of submission through whatever handles; memory is given back after its last use; every operation settles; what is dropped is given back |
| `stream_capture` | 2 capturers, 2 submitters, 2 streams, 2 captures, 1 failure | 296,034 | work lands where its admission found it may; no graph is handed out that lost work; a stream that may still be captured stays reserved; ending a capture returns |
| `seminaive_safety` | 10 ground facts, a self-join, mutual recursion, 2 iterations | 1,416 | every `Ok` is the least model of all facts handed in, after failed and limited runs too; no new combination is missed; no round is idle; every step implements `Saturation` |
| `relation_cache` | 1 derived relation, 1 delta, 2 rows, 2 shared results, 2 key kinds, a budget of two small indexes, versions up to 2 | 656,005 | no index and no shared result of an old content is used; the budget and its count hold; what an adaptive call leaves when it returns is what was there when its baseline ended |
| `session_safety` | 8 predicates: base relations, recursion, negation, a constraint; batches of any length | 108,208 | every snapshot is the model of what was handed in, the store stays a correct seed, a retained executor can be used again, a batch is atomic; every small program has a sound plan |
| `well_founded` | every set of up to 3 rules over 3 atoms in 2 worlds, bodies of up to 2 literals, limit 4 | 107,037 | the answer is the well-founded model; whatever is decided agrees with every stable model; the limit suffices; provenance has a derivation in each of its worlds |
| `drain_deadlock` | one refused malloc | - | finding 1 |
| `forbidden_key` | the program of `seminaive_safety` with an unpackable tuple, 4 iterations | - | finding 2 |
| `session_mixed` | an inline fact of a predicate that also has rules | - | finding 3 |

What TLAPS proves for all constants and another checked property implies is not
checked again by a run (`DeltasNew`, `NothingUntracked`, `ReleaseUncontended`,
`ClaimsWithinLimit`, the net delta of a batch, most type invariants).

Bounds.  Two threads are enough to put a second actor between any two critical
sections of the first; limit 3 with requests of 1 and 2 and an old block of 1
makes admission fail, succeed after a reap, and fail after a reap; three tickets
let one allocation live, one be in progress and one be released at a time.  Two
allocations in the lifecycle, one native and one of the backend, put either kind
in front of the other in every queue; every failure happens at most once, at any
point, because a second one meets the same queues as the first.

In `block_use` two streams write disjoint bytes of the allocation, one of them
through the import, and the first stream reads both: the read must wait for a write
it can only find through an alias, and a stream publishes to a history that another
stream published to.  Two failures let an abort be followed by a failed
synchronisation, so that an operation reaches the quarantine.  In `stream_capture`
two captures let a phase outlive the capture it was selected in and meet the next
one on its stream, and a second stream shows what a capture does to work elsewhere.
In `relation_cache` the budget holds two small indexes or one large one, so both
the eviction of some and that of all happen; versions up to 2 let a relation be put,
removed and put again at the version an old index was built for.  One of the two
shared results does not read the head, so a candidate can derive a row there that the
baseline did not, and its outputs differ.

The program of `seminaive_safety` has what makes the deltas hard: a rule whose two
scans are both recursive (a new fact must meet new and old ones at either
position), heads that feed each other, a head with both routes, and facts of the
recursive predicates that are handed in.  With two iterations some insertions
converge and some run into the limit and leave a partial result for the next run.
`session_safety` has one component of every kind a delta treats differently: a base
relation that only adds, a base relation read under negation, a recursive component,
one that may lose results, one that depends on that one, one that does not, and a
constraint over a derived and a base relation.  Every set of changed base relations
and every delete and insert set over them is tried; batches need no bound, since
what is merged and what it stands for are sets of rows.  The three rules and three
atoms of `well_founded` make an odd loop, an even loop, a positive loop, and each of
them fed by a rule that only one world has; a model of n atoms is decided in n + 1
rounds, so a limit of four never ends such a program.

Symmetry is used where it is sound: over the threads of `lifecycle_safety` and over
the atoms of `well_founded`, neither of which checks a temporal formula that needs
fairness.

Deadlock.  The check is on everywhere except in `lifecycle_safety` and
`well_founded`.  `AllocationLifecycle` may stop for good when a retained failure
keeps the exclusion (that is what the code documents), when a capture is never
ended, or in the state of finding 1; a well-founded evaluation ends.  Where it is on,
some call can always start: an idle thread can reap, an idle executor can be run, an
idle session can be handed a relation.  `BlockUse` rests explicitly when every handle
is dropped.

Fairness.  It is assumed in `memory`, `lifecycle_liveness`, `block_use` and
`stream_capture` only.  A thread inside a call keeps running: the host threads are
scheduled by the operating system and every wait in the code is on a mutex or
condition variable that is modelled as a guard.  Nothing obliges a thread to start a
call, except that `AllocationLifecycle` assumes callers reap now and then (every
allocation, drop and capture does), that a capture ends and that a lease is dropped:
each is a scoped Rust value.  For the latter two fairness is strong because another
thread's call may disable the action for a while.  In `BlockUse` the device executes
what is on its streams, an operation that began is carried to its end, and a dropped
storage is released (its drop is what starts the release); nothing obliges anybody to
retry an operation in quarantine, and `OpsSettle` and `DroppedGivenBack` say what
follows without it.  In `StreamCapture` an admitted submission goes on and a thread
that ends its capture goes on; nothing is assumed of holders of a phase or of the
closure that records.  The executor and the session are synchronous calls with an
iteration limit; nothing of theirs waits.

## 4. What is proved

All of it for every value of the constants, from the named assumptions of the
module (positive sizes, limits that are naturals, model values that are distinct from
what they stand beside, well-formed programs) and those mentioned here.

`DeviceMemory_proofs`, for any threads, tickets, sizes and limit: `TypeCorrect` (no
counter is negative), `WithinLimit` (what is admitted and promised never exceeds the
limit), `Honoured` (an allocation that spends a reservation passes the first
admission) and `Implements` (the stack implements `MemoryClaims`).  None of the
invariants is inductive alone.  `ClaimsWithinLimit` breaks if an attempt that spends
a promise is added back by `Unlock` after another thread used the bytes; that cannot
happen because the promise mutex is held, so `IInv` says who holds it and whose
attempt may differ from idle (`Mutex`), that a ticket belongs to one attempt and
keeps its size (`Attempts`), that the two halves of a reservation agree up to what
is lent to the attempt in progress (`Reservations`), and what exactly is admitted but
neither published nor refunded (`Inflight`, `Limits`).  `StepClaims` maps every step
to a step of `MemoryClaims` or a stutter (bytes that an attempt carries between
`Lock` and its admission count as promised).
A second invariant, `Accounts`, is about the sums: what the stage of a ticket says of
its flags (`Staged`, `Trying`), which thread has an owner that left its queue and how
far its release is (`Owners`), and what each counter is the sum of (`Tallies`): the
ledger counts the acquired tickets that are neither freed nor about to be published,
the local tally those of them whose charge is not settled, the local budget the
charged tickets and the open reservations.  A sum is the number of units of its
elements, so that no recursion is needed (`SumAdd`, `SumDrop`, `SumMoved`); the sets
and the reservations need not be finite, only what they sum to.  From it follow
`OwnerInOneHand`, `HeldWithinLimit` (the driver holds what the ledger counts and at
most the allocation about to be published, which the budget has admitted) and
`CountersSettle` (between calls all these sets are those of the memory held).

`AllocationLifecycle_proofs`, for any threads, allocations and bounds: `TypeCorrect`,
`ExclusiveDriver`, `NoCallInCapture`, `LeaseKeepsMemory`, `OwnersNeverLost` and
`SubmittedOnce`, which state the six safety properties of `lifecycle_safety`.  None is
inductive alone.  `IInv` says what each place of the code leaves in a thread's hands
(`Threads`), how far its attempt or its release is (`Attempts`, `Releases`), that the
exclusion is taken exactly while one owner has the permit, and whom a retained failure
belongs to (`Exclusion`), that the count of exclusions is the number of threads in the
driver (`Excluders`, by cardinalities), that an owner on its way to the driver, or
whose attempt failed, is closed to leases (`Closed`), and where a dropped owner is
(`Tracked`).  `Closed` is what makes `NoFreeUnderLease` inductive: that an owner is not
leased when its release starts says nothing about the next step, that no handle can
lease it any more does.  `Tracked` has a place for every container (queues,
batches, hands, the unknown and the leased), each with at most one entry of an owner, and
no two with the same; every step either leaves the places of an owner alone, or moves
all owners of one container into another (`Sent`), or adds or removes one (`Arrived`,
`Left`), and `OwnerKept`, a cardinality, follows at the end.

`BlockUse_proofs`, for any operations, streams, failures and layout of storages:
`NoRaceEver`, `WorkIsTracked`, `FreedAfterItsUse`, `ReleasesAreUncontended` and
`OrderedEver` (it implements `OrderedUse`).  `IInv` says who owns a storage and
retains what (`Owners`), which operations and releases the registry keeps apart
(`Apart`), where the work of an operation stands (`Placed`), that the log is the
order of submission (`Logged`), that a wait which was executed is over (`WaitsOver`),
and that work on another stream is behind a wait for what it conflicts with
(`Waits`).  What makes it inductive is `Foreseen`: an operation that was admitted but
has yet to queue its waits will still find, in the history of a storage it has yet to
visit or among the waits it has queued, every conflicting work before it.  It carries
the order from admission to submission, across whatever other operations publish in
between.

`StreamCapture_proofs`, for any threads, streams, captures and failures:
`WorkLandsWhereAdmitted`, `GraphsAreWhole` and `CapturesAreKeyed`.  `IInv` adds to
them who reserves which stream (`Reserved`), that a thread stands behind every
capture (`Captures`), that the counts of the registry are those of the threads
(`Counts`, by cardinalities), what a phase refers to (`Phased`), that a failed
submission is noticed before it returns (`Noticed`) and that a graph that was handed
out is out of reach (`Handed`).

`SemiNaive_proofs`, for any facts, rules, ground instances, insertions and iteration
limit: `Soundness` (the store never holds more than follows from the facts),
`DeltasAreNew`, `Exactness` (if every tuple can be packed, `Ok` leaves exactly the
least model), `DeltasReach` (under the same condition every round starts with deltas
that reach what is missing), `RoundsAddTuples` (over finitely many facts every round
but the last adds a tuple) and `Refinement` (it implements `Saturation`).  Two
invariants carry the proof.  `IInv` says where every accumulated tuple comes from:
the store lies between the facts and their least model (`Grounded`), what is
accumulated follows at once from the store (`Pending`), which tuples of the deltas the
store already holds, stage by stage (`Current`), that a round without a change has
left every visited delta empty (`Unchanged`), and that stage and outcome agree
(`Running`).  `Covered` says why nothing is forgotten: an instance whose premises hold
has its head in the store, among what the round has found or a delta still to be
merged, or reads a delta at a position the round has yet to visit.  It needs every
tuple to be packable; finding 2 is the case where it fails.  When a run converges,
`Covered` leaves only the first possibility: the store is closed under every instance,
and `Grounded` makes it the least such store.

`BatchSession_proofs` has three parts.  The first is about `DeltaBatch` on its own, for
any facts and any number of updates (`Batch!Spec`: the relations change in any way
between batches): the net delta of a batch without idle updates is the difference it
makes (`NetIsExact`), a pending row agrees with its last update (`LastUpdateWins`), and
a batch implements `Updates` (`BatchRefinement`).

The second part is about the session, for any stratified program and plan, any calls
and failures: `TypeCorrect`, `ConstraintsEver` (if constraint relations can be read
back) and `SessionImplementsBatch` (on the relations without rules the session does what
`DeltaBatch` says), from which `Refinement` follows with the first part: through
evaluation, recompute, constraints and every failure a batch is applied whole or not at
all, and leaves in the updated relations what its updates would.
`BatchAssumption` is needed: callers
change predicates without rules only, each a component of its own.  The invariant is
`BasesFollow`: on the updated relations the executor in use and both slots agree with
the store, and once the running delta is applied with what it makes of them.  Its hard
case is the recompute, which empties predicates between the two: the proof shows from
the dependency graph that nothing it empties is an updated relation
(`ClearSparesBases`), and that components add facts of their heads only
(`SaturateAdds`).

The third part is what an incremental session is for: whatever deltas, batches and
failures led to it, a snapshot is what evaluating from nothing would give
(`SnapshotsAreExact`), an executor left in its slot can be used again
(`RetainedIsSound`), and the store is a correct seed (`SeedIsExact`).  They are for any
stratified program and any plan of it.  `MeaningIsLeast` says what executing a plan from
nothing gives; it is proved by induction over the components, where the library's
theorem on minimal elements of well-founded relations stands for induction
(`LeastNumber`, `Upwards`).  `StoresAreExplained` has the invariant.  A store is
`Towards` the meaning of its base facts when it contains them, holds nothing that does
not follow, and has all heads of the components that are done.  Executing the next
component makes that one done too, and so does executing it from a store that a failed
run left half way (`ExecuteAdvances`).  The hard case is again the recompute.  A
component that a delta does not reach has the same heads before and after
(`Untouched`); inserts take nothing from a component that is not recomputed (`Spared`);
so emptying what may have lost a result leaves a store that is `Towards` the meaning of
the new base facts (`RecomputeStarts`).  Two things are assumed of the plan: its
components share no predicate, and every predicate of a rule is in one.  Both hold
because a component is a strongly connected component of the graph of all predicates
(`stratify.rs`), and the plan the runs execute, which `Stratification` computes,
satisfies them.  `SnapshotsAreExact` and `RetainedIsSound` have the hypothesis
`FactsApart`: no inline fact is of a predicate with rules.  Finding 3 is what happens
otherwise.

A session executes a component in one step (`Execute`) after some rounds (`Grow`).
`ComponentAlone` is why that stands for the rounds of `SemiNaive`: for the ground
instances of a component that no negated premise blocks, the facts that follow at once,
the stores a run may answer with and the least model are the same in `LeastModel`, which
`SemiNaive` and `Saturation` extend, and in `Stratified`.  Together with `Exactness` and
`Refinement` of `SemiNaive_proofs` a run of the component, whatever its strategy, is a
sequence of steps the session allows (but for a tuple that cannot be packed, finding 2).

`WellFounded_proofs`, for any rules over finitely many atoms, any worlds and any limit:
`NeverBoth`, `DecidedIsStable`, `ProvenanceIsSound`, `AnswerIsExact` and `LimitIsEnough`.
The first two rest on three facts about a stable model that agrees with what was decided
so far: its atoms have rules (`StableHasRules`), it has none of the atoms the sweeps
leave (`UnfoundedIsFalse`) and it has the head of every rule that fires (`HoldsIsTrue`).
`AnswerIsExact` needs to know what the reference computes: a chain of sets that grows
out of the empty one ends, after as many steps as there are atoms, in the least set its
monotone function does not leave (`ChainEnds`), once for the atoms derived with negation
read in a given set (`ReductIsLeast`), once for the true atoms of the model
(`TrueIsLeast`).  The invariant `Modelled` then has two sides.  What is decided is
decided so in the model; and what a finished sweep leaves out of the unfounded set would
follow if all that is not true were false, so that when a round derives nothing the true
atoms are already closed in the sense of which the model is the least (`NothingLeft`).
`Progress` counts: every round but the last has decided an atom, so that a limit above
the number of atoms with rules is never reached.

`RelationCache_proofs`, for any relations, rows, subexpressions, sizes of indexes and
budget: `TypeCorrect`, `IndexesAreFresh`, `SharedAreFresh`, `BudgetKept` and
`AdaptiveIsExact`.  `NoStaleIndex` is not inductive: it says nothing of an index whose
version the relation will have later.  `Fresh` does: an index of a relation with rows is
of the version of the relation or an older one.  It survives what leaves the caches
alone because a result taken out of the store leaves no rows, and the next put drops the
indexes.  A rollback is the hard case, as it puts every relation back at a new version
without telling the caches.  `Kept` says why it may: since the snapshot the relation has
either not changed, or has only indexes of versions below the one a rollback gives it.
The bytes counted are again the units of the indexes (`TotalDrop`, `TotalAdd`), and
`CacheOK` holds the order of use, which `Evicted` follows.

`AdaptiveExact` compares with the history variable `baseline`, which `EndBaseline` sets
to the content of every relation and no action reads: neither the snapshot, taken in a
later step, nor the comparison and the rollback, which use the snapshot, can make it
true by themselves.  `Traced` is what makes it inductive.  Nothing happens to the store
between the end of the baseline and the snapshot; while the candidate runs the snapshot
equals the history; and no step of a candidate takes a row from a head, because every
install is a union with what is there (`install_plain_head_batch`,
`install_dispatched_head_batch`, `execute_recursive_scc`).  A snapshot of the heads only,
one taken after the candidate's first put, a comparison that only looks whether a head is
there, a rollback that leaves what the candidate added, and an install that replaces a
head each violate the property under the run's bounds; the second is its mutant.

Every invariant, action property and refinement of a passing run is stated by a theorem.
Only model-checked are the plans of `Stratification`, a recursive algorithm, and all
liveness.  The bound `MaxVersion` stands for versions that are saturating 64-bit counters
in the code; the theorems hold for any bound.

## 5. Findings

1. `drain_deadlock`.  When the driver refuses a malloc the owner goes to the end
   of the cold queue with the permit of the exclusion (`memory.rs:1475`).  If a
   draining thread waits for that permit for an earlier owner (`memory.rs:829`),
   the permit sits behind it in the queue it drains, nobody else may drain, and
   the context stops.
2. `forbidden_key`.  The sparse pipeline cannot pack the tuple
   `(u32::MAX, u32::MAX)`.  The only guard is the bound of a chain, read at the
   first attempt of a run and kept (`wcoj_dispatch.rs:1661`); when another rule of
   the component brings that id in later, the run answers without the tuple, where
   the code says it fails closed.
3. `session_mixed`.  A delta that deletes rows empties every affected predicate it
   does not name (`rewrite.rs:333`) and executes its rules again.  Inline facts of a
   predicate that also has rules are not rules, and are lost.

Known limitations, met while modelling and kept out of the properties by an
assumption or a condition that names them:

* Idle updates.  Coalescing does not look at the relation
  (`xlog-gpu/src/logic.rs:8200`): a batch with an idle update, or with a row inserted
  and deleted by the same update, differs from its updates one by one, which
  `ROADMAP.md:1583` promises to be equal.  `Updates` says what holds for the others.
* Unread constraints.  A constraint relation whose read fails counts as empty
  (`xlog-gpu/src/logic.rs:5892`); with `ReadFails = TRUE` a violating result is
  committed and `ConstraintsHold` does not hold.
* A batch of a reap stops at its first error (`memory.rs:1412`), so an owner whose
  fence wait failed once waits behind every other; `DroppedIsFreed` excepts it.
* Updated predicates with rules.  The code accepts a delta that names the head of a
  rule; `commit` then copies that relation, derived tuples included, into the
  authoritative store (`xlog-gpu/src/logic.rs:3460`), so that tuples stay when what
  they were derived from goes, while `logic.rs:1011` calls that store a correct seed.
  `BatchAssumption` leaves them out.
* An adaptive candidate runs on a store that still has the baseline's heads, and its
  outputs are compared after the union with them: what it fails to derive itself
  cannot show: it is adopted, and the answer is still the baseline's.
* A comparison that fails (`mod.rs:1359`) returns its error without the rollback, with
  the candidate's rows in the store, although `mod.rs:1283` says that "divergent or
  failing candidates roll back to the baseline relation/statistics snapshot".
  `CompareFails` does what the code does; of this way out `AdaptiveExact` says only that
  no row of a head is lost.
* The plans of an adaptive call have the same heads in the model.  The code compares the
  heads of the baseline (`mod.rs:1324`) and answers with the last head of the candidate
  (`mod.rs:1400`); a candidate with another last head would answer with a relation
  that was not compared.  The statistics a rollback restores are not modelled.
* Grounding for the well-founded semantics takes rules only (`provenance.rs:763`,
  `wfs.rs:193`): a fact of a predicate of the component does not reach its rules, and
  in `s(1). t(2,1). s(X) :- t(X,Y), not s(Y).` the atom `s(2)` becomes true.
* In several worlds negation is read in what was decided for all of them, and
  derivations found after an atom became true are dropped.  So `ProvenanceSound`
  speaks of negation as decided, and nothing here says that the probabilities are
  those of `docs/reference/language.mdx:1568`.

## 6. Not modelled, and the plan

`PROJECT.json` lists every component with its status.  The set of runs is kept small
enough to be run on every change; a new property takes the place of one that is
proved.  In this order:

1. Resident execution (`executor/resident.rs`, `resident_graph.rs`): reuse of a
   prepared graph by identity and epoch, its staged commit, `mutation_epoch` of the
   relation store; composed with `RelationCache`.
2. Captures: nested and child captures, instantiation and replay of graphs; the
   stream pool; `BlockUse` over two contexts with peer copies.
3. The magic-set rewrite and `dependency_closed_subplan` as operators over small
   programs, against the least model; `execute_fixpoint` of `recursive.rs`, which an
   error leaves with its temporary relations in the store.  The rewrite differs from
   its documentation in ways the models would have to name: the rules of its target
   are restricted although others read it (`docs/language-guide/pragmas.mdx:109`),
   `auto` refuses an unbound recursive call (`magic_sets.rs:671`), and it is off by
   default (`magic_sets.rs:388`).
4. The circuit caches of `xlog-prob` (`gpu_cache.rs`, `disk_cache.rs`): a key is
   claimed before its circuit is compiled, a slot is evicted while others use it, two
   processes write the same temporary file.
5. Later: grounding, the order of publication in the epistemic engine, the budgets of
   `xlog-solve`, publication and restoration of semantic transitions.

Left out for good: the numerical and data-parallel parts (kernels, training,
tensors), whose content is arithmetic on large buffers; the deterministic
translations of syntax trees; the layers that only call others.  They make up most of
the lines of the repository (the semantic transition engine and its bindings alone
are a hundred thousand), which is why the map covers a small share of it.

Within the modelled components these are left out: peak and monotonic statistics
and observer records of the memory manager, its direct backend and logging wrapper;
panics that unwind through a drain or an enqueue, several contexts; how a recorder
collects its uses before preflight, strict and permissive modes; captures begun
outside this code; the heat that decides when an index is built, the mutation epoch;
in the session, result formatting, evidence metadata, the resident selection mode and
one-shot evaluation; in a batch, the trace of cancelled tuples.
