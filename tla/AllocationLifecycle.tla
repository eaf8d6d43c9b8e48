-------------------------- MODULE AllocationLifecycle --------------------------
(***************************************************************************)
(* Physical allocation and release of device memory in one CUDA context    *)
(* (crates/xlog-cuda): the exclusion that serialises the driver's address  *)
(* reuse (AllocationLifecycleExclusion), the cold retirement queue of      *)
(* cuda_graph.rs, the pending queue of AsyncCudaResource, the leases that  *)
(* keep an owner alive, and managed stream capture, which excludes them.   *)
(*                                                                         *)
(* One action is one critical section or one driver call.  The condition   *)
(* variable of the exclusion is the guard that waits for it.               *)
(***************************************************************************)
EXTENDS Integers, Sequences, FiniteSets, SequencesExt

CONSTANTS
  Procs,        \* host threads
  Allocs,       \* allocations; each is made once
  Native,       \* those owned by their storage, not by a runtime's backend
  MaxRefusals,  \* bound: mallocs the driver refuses
  MaxFaults,    \* bound: failed initialisations and failed fence waits
  MaxUnknown,   \* bound: driver frees whose outcome is unknown
  MaxCaptures,  \* bound: stream captures
  MaxLeases,    \* bound: leases taken
  None

ASSUME NativeAssumption == Native \subseteq Allocs
ASSUME BoundAssumption ==
  {MaxRefusals, MaxFaults, MaxUnknown, MaxCaptures, MaxLeases} \subseteq Nat

VARIABLES
  active,      \* AllocationLifecycleState.active
  failed,      \* the owner whose failure is retained, or None
  permit,      \* which owners hold the permit of the exclusion
  phase,       \* what became of every allocation
  acquired,    \* the driver handed out memory
  freeState,   \* DriverReleaseState
  lease,       \* whether another owner shares it, and whether one still may
  queue,       \* StreamCaptureRegistry.deferred
  retry,       \* DriverMutationReservation.retry of the draining thread
  unknown,     \* StreamCaptureRegistry.retained_unknown
  retiring,    \* the draining thread, or None
  capturing,   \* the thread whose stream capture is active, or None
  exclusions,  \* StreamCaptureRegistry.capture_exclusions
  pending,     \* AsyncCudaResource.pending_per_stream, one stream
  pc,          \* where every thread is
  cur,         \* the allocation a thread is making, or None
  item,        \* the retirement a thread is executing, or None
  batch,       \* owners a reaping thread has still to visit
  kept,        \* leased owners it has passed
  rel,         \* the owner it is releasing, or None
  then,        \* what a thread does after it has drained the queue
  used         \* how much of every bound is spent

exclusionVars == <<active, failed, permit>>
ownerVars     == <<phase, acquired, freeState, lease>>
coldVars      == <<queue, retry, unknown, retiring>>
captureVars   == <<capturing, exclusions>>
threadVars    == <<cur, item, batch, kept, rel, then>>
vars == <<exclusionVars, ownerVars, coldVars, captureVars, pending, threadVars, pc, used>>

\* A queued retirement: a storage wrapper's drop, the retry of a block's
\* detach and reap, or the release of a raw owner.
Retirement == [kind : {"storage", "block", "raw"}, owner : Allocs]
Storage(a) == [kind |-> "storage", owner |-> a]
Block(a)   == [kind |-> "block", owner |-> a]
Raw(a)     == [kind |-> "raw", owner |-> a]

ASSUME NoneAssumption == None \notin Procs \cup Allocs \cup Retirement

Bounds == [refusals |-> MaxRefusals, faults |-> MaxFaults,
           unknown |-> MaxUnknown, captures |-> MaxCaptures, leases |-> MaxLeases]

Spend(kind) ==
  /\ used[kind] < Bounds[kind]
  /\ used' = [used EXCEPT ![kind] = @ + 1]

PCs == {"idle", "enter", "uncaptured", "malloc", "init", "enqueue", "drain", "item",
        "reap", "visit", "release", "exclude", "fences", "free", "begin"}
Phases == {"none", "attempt", "live", "dropped", "orphan", "freed", "refused"}

TypeOK ==
  /\ active \in BOOLEAN /\ failed \in Allocs \cup {None}
  /\ permit \in [Allocs -> BOOLEAN] /\ phase \in [Allocs -> Phases]
  /\ acquired \in [Allocs -> BOOLEAN] /\ lease \in [Allocs -> {"none", "held", "closed"}]
  /\ freeState \in [Allocs -> {"owned", "unknown", "submitted"}]
  /\ queue \in Seq(Retirement) /\ retry \in Seq(Retirement)
  /\ unknown \subseteq Allocs
  /\ retiring \in Procs \cup {None} /\ capturing \in Procs \cup {None}
  /\ exclusions \in Nat
  /\ pending \in Seq(Allocs)
  /\ pc \in [Procs -> PCs]
  /\ cur \in [Procs -> Allocs \cup {None}] /\ rel \in [Procs -> Allocs \cup {None}]
  /\ item \in [Procs -> Retirement \cup {None}]
  /\ batch \in [Procs -> Seq(Allocs)] /\ kept \in [Procs -> Seq(Allocs)]
  /\ then \in [Procs -> {"return", "reap", "capture"}]
  /\ used \in [DOMAIN Bounds -> Nat] /\ \A k \in DOMAIN Bounds : used[k] <= Bounds[k]

Init ==
  /\ active = FALSE /\ failed = None /\ permit = [a \in Allocs |-> FALSE]
  /\ phase = [a \in Allocs |-> "none"] /\ acquired = [a \in Allocs |-> FALSE]
  /\ freeState = [a \in Allocs |-> "owned"] /\ lease = [a \in Allocs |-> "none"]
  /\ queue = <<>> /\ retry = <<>> /\ unknown = {} /\ retiring = None
  /\ capturing = None /\ exclusions = 0 /\ pending = <<>>
  /\ pc = [p \in Procs |-> "idle"]
  /\ cur = [p \in Procs |-> None] /\ rel = [p \in Procs |-> None]
  /\ item = [p \in Procs |-> None]
  /\ batch = [p \in Procs |-> <<>>] /\ kept = [p \in Procs |-> <<>>]
  /\ then = [p \in Procs |-> "return"]
  /\ used = [k \in DOMAIN Bounds |-> 0]

Goto(p, from, to) == pc[p] = from /\ pc' = [pc EXCEPT ![p] = to]

\* Mutant: the last permit goes and the exclusion stays taken.
DropPermitOnly(a) == permit' = [permit EXCEPT ![a] = FALSE] /\ UNCHANGED active
\* AllocationLifecyclePermit::drop, unless a failure is retained.
DropPermit(a) ==
  /\ permit' = [permit EXCEPT ![a] = FALSE]
  /\ active' = (failed' # None)

\* AllocationLifecyclePermit::retain_failure: the first failure stays.
RetainFailure(a) ==
  /\ failed' = IF permit[a] /\ acquired[a] /\ failed = None THEN a ELSE failed
  /\ UNCHANGED <<active, permit>>

\* Mutant: uniqueness is a count that is read, the weak handles keep working.
CloseByCount(a) == UNCHANGED lease
\* Arc::try_unwrap wins, or no Arc was published: no handle can mint a lease.
Close(a) == lease' = [lease EXCEPT ![a] = "closed"]

-----------------------------------------------------------------------------
(* RawDeviceAllocation::allocate                                           *)

Allocate(p, a) ==
  /\ Goto(p, "idle", "enter")
  /\ phase[a] = "none"
  /\ phase' = [phase EXCEPT ![a] = "attempt"]
  /\ cur' = [cur EXCEPT ![p] = a]
  /\ UNCHANGED <<exclusionVars, acquired, freeState, lease, coldVars, captureVars, pending,
                 item, batch, kept, rel, then, used>>

\* Mutant: an entrant looks for a retained failure and waits for nobody.
MayEnterActive == failed = None
\* AllocationLifecycleExclusion::enter waits while another owner is active and
\* refuses while a failure is retained.
MayEnter == failed = None /\ ~active

Enter(p) ==
  /\ Goto(p, "enter", "uncaptured")
  /\ MayEnter
  /\ active' = TRUE
  /\ permit' = [permit EXCEPT ![cur[p]] = TRUE]
  /\ UNCHANGED <<failed, ownerVars, coldVars, captureVars, pending, threadVars, used>>

EnterRefused(p) ==
  /\ Goto(p, "enter", "idle")
  /\ failed # None
  /\ phase' = [phase EXCEPT ![cur[p]] = "refused"]
  /\ cur' = [cur EXCEPT ![p] = None]
  /\ UNCHANGED <<exclusionVars, acquired, freeState, lease, coldVars, captureVars, pending,
                 item, batch, kept, rel, then, used>>

\* reserve_uncaptured_stream
Uncaptured(p) ==
  /\ Goto(p, "uncaptured", "malloc")
  /\ capturing = None
  /\ exclusions' = exclusions + 1
  /\ UNCHANGED <<exclusionVars, ownerVars, coldVars, capturing, pending, threadVars, used>>

CaptureRefused(p) ==
  /\ Goto(p, "uncaptured", "idle")
  /\ capturing # None
  /\ failed' = failed /\ DropPermit(cur[p])
  /\ phase' = [phase EXCEPT ![cur[p]] = "refused"]
  /\ cur' = [cur EXCEPT ![p] = None]
  /\ UNCHANGED <<acquired, freeState, lease, coldVars, captureVars, pending,
                 item, batch, kept, rel, then, used>>

Malloc(p) ==
  /\ Goto(p, "malloc", "init")
  /\ acquired' = [acquired EXCEPT ![cur[p]] = TRUE]
  /\ UNCHANGED <<exclusionVars, phase, freeState, lease, coldVars, captureVars, pending,
                 threadVars, used>>

\* The armed owner is dropped with the permit in its payload: to the cold queue.
MallocRefused(p) ==
  /\ Goto(p, "malloc", "enqueue")
  /\ Spend("refusals")
  /\ phase' = [phase EXCEPT ![cur[p]] = "dropped"]
  /\ Close(cur[p])
  /\ item' = [item EXCEPT ![p] = Raw(cur[p])]
  /\ UNCHANGED <<exclusionVars, acquired, freeState, coldVars, captureVars, pending,
                 cur, batch, kept, rel, then>>

\* The owner is published and the permit released.
Publish(p) ==
  /\ Goto(p, "init", "idle")
  /\ phase' = [phase EXCEPT ![cur[p]] = "live"]
  /\ failed' = failed /\ DropPermit(cur[p])
  /\ exclusions' = exclusions - 1
  /\ cur' = [cur EXCEPT ![p] = None]
  /\ UNCHANGED <<acquired, freeState, lease, coldVars, capturing, pending,
                 item, batch, kept, rel, then, used>>

\* A failure after the driver handed out memory is retained with its owner.
InitFails(p) ==
  /\ Goto(p, "init", "enqueue")
  /\ Spend("faults")
  /\ phase' = [phase EXCEPT ![cur[p]] = "dropped"]
  /\ Close(cur[p])
  /\ RetainFailure(cur[p])
  /\ item' = [item EXCEPT ![p] = Raw(cur[p])]
  /\ UNCHANGED <<acquired, freeState, coldVars, captureVars, pending,
                 cur, batch, kept, rel, then>>

-----------------------------------------------------------------------------
(* The owner's handles: storage wrappers, runtime blocks, leases.          *)

\* DeviceStorage::drop queues the drop of its backing.
DropStorage(p, a) ==
  /\ Goto(p, "idle", "enqueue")
  /\ phase[a] = "live"
  /\ phase' = [phase EXCEPT ![a] = "dropped"]
  /\ item' = [item EXCEPT ![p] = Storage(a)]
  /\ UNCHANGED <<exclusionVars, acquired, freeState, lease, coldVars, captureVars, pending,
                 cur, batch, kept, rel, then, used>>

\* RuntimeAllocBlock::drop detaches and reaps on the spot.
DropBlock(p, a) ==
  /\ Goto(p, "idle", "reap")
  /\ phase[a] = "live" /\ a \notin Native
  /\ phase' = [phase EXCEPT ![a] = "dropped"]
  /\ pending' = Append(pending, a)
  /\ item' = [item EXCEPT ![p] = Storage(a)]
  /\ UNCHANGED <<exclusionVars, acquired, freeState, lease, coldVars, captureVars,
                 cur, batch, kept, rel, then, used>>

\* BlockUseRegistry::retain_storage_uses upgrades the registered weak handle of
\* whatever overlaps an operation, also of an owner that waits for its release.
Lease(p, a) ==
  /\ pc[p] = "idle" /\ phase[a] \in {"live", "dropped"} /\ lease[a] = "none"
  /\ Spend("leases")
  /\ lease' = [lease EXCEPT ![a] = "held"]
  /\ UNCHANGED <<exclusionVars, phase, acquired, freeState, coldVars, captureVars, pending,
                 threadVars, pc>>

\* The last owner of a native allocation sends it to the cold queue.
DropLease(p, a) ==
  /\ pc[p] = "idle" /\ lease[a] = "held"
  /\ IF phase[a] = "orphan"
     THEN /\ pc' = [pc EXCEPT ![p] = "enqueue"]
          /\ item' = [item EXCEPT ![p] = Raw(a)]
          /\ phase' = [phase EXCEPT ![a] = "dropped"]
          /\ Close(a)
     ELSE /\ lease' = [lease EXCEPT ![a] = "none"]
          /\ UNCHANGED <<pc, item, phase>>
  /\ UNCHANGED <<exclusionVars, acquired, freeState, coldVars, captureVars, pending,
                 cur, batch, kept, rel, then, used>>

-----------------------------------------------------------------------------
(* The cold retirement queue.                                              *)

\* Mutant: every finished drain gives an exclusion back.
ExclusionsAlways(p) == exclusions - 1
ExclusionsAfter(p) == IF cur[p] = None THEN exclusions ELSE exclusions - 1

\* A finished call: an allocation gives back its capture exclusion.
Return(p) ==
  /\ pc' = [pc EXCEPT ![p] = CASE then[p] = "reap" -> "reap"
                               [] then[p] = "capture" -> "begin"
                               [] OTHER -> "idle"]
  /\ then' = [then EXCEPT ![p] = "return"]
  /\ cur' = [cur EXCEPT ![p] = None]
  /\ exclusions' = ExclusionsAfter(p)

\* drain_capture_retirements leaves the queue alone during a capture and while
\* another thread, or this one further up, is draining.
Drainable == capturing = None /\ retiring = None

\* enqueue_retirement
Enqueue(p) ==
  /\ pc[p] = "enqueue"
  /\ queue' = Append(queue, item[p])
  /\ item' = [item EXCEPT ![p] = None]
  /\ IF Drainable \/ retiring = p
     THEN /\ retiring' = p
          /\ pc' = [pc EXCEPT ![p] = "drain"]
          /\ UNCHANGED <<then, cur, exclusions>>
     ELSE /\ Return(p)
          /\ UNCHANGED retiring
  /\ UNCHANGED <<exclusionVars, ownerVars, retry, unknown, capturing, pending,
                 batch, kept, rel, used>>

\* A call that drains what is queued and goes on.
DrainThen(p, next, otherwise) ==
  IF Drainable /\ queue # <<>>
  THEN /\ retiring' = p
       /\ pc' = [pc EXCEPT ![p] = "drain"]
       /\ then' = [then EXCEPT ![p] = next]
  ELSE /\ pc' = [pc EXCEPT ![p] = otherwise]
       /\ UNCHANGED <<retiring, then>>

\* XlogDeviceRuntime::reap_pending
Reap(p) ==
  /\ pc[p] = "idle"
  /\ DrainThen(p, "reap", "reap")
  /\ UNCHANGED <<exclusionVars, ownerVars, queue, retry, unknown, captureVars, pending,
                 cur, item, batch, kept, rel, used>>

DrainNext(p) ==
  /\ Goto(p, "drain", "item")
  /\ queue # <<>>
  /\ item' = [item EXCEPT ![p] = Head(queue)]
  /\ queue' = Tail(queue)
  /\ UNCHANGED <<exclusionVars, ownerVars, retry, unknown, retiring, captureVars, pending,
                 cur, batch, kept, rel, then, used>>

\* The unfinished retirements are queued again for the next drain.
DrainDone(p) ==
  /\ pc[p] = "drain" /\ queue = <<>>
  /\ queue' = retry /\ retry' = <<>> /\ retiring' = None
  /\ Return(p)
  /\ UNCHANGED <<exclusionVars, ownerVars, unknown, capturing, pending,
                 item, batch, kept, rel, used>>

\* The drop of a native backing: the raw owner is queued, unless it is leased.
RetireNative(p, a) ==
  /\ pc[p] = "item" /\ item[p] = Storage(a) /\ a \in Native
  /\ IF lease[a] = "held"
     THEN /\ phase' = [phase EXCEPT ![a] = "orphan"]
          /\ item' = [item EXCEPT ![p] = None]
          /\ pc' = [pc EXCEPT ![p] = "drain"]
          /\ UNCHANGED lease
     ELSE /\ Close(a)
          /\ item' = [item EXCEPT ![p] = Raw(a)]
          /\ pc' = [pc EXCEPT ![p] = "enqueue"]
          /\ UNCHANGED phase
  /\ UNCHANGED <<exclusionVars, acquired, freeState, coldVars, captureVars, pending,
                 cur, batch, kept, rel, then, used>>

\* The drop of a runtime backing: logical detach, then a reap of the backend.
RetireRuntime(p, a) ==
  /\ Goto(p, "item", "reap")
  /\ item[p] = Storage(a) /\ a \notin Native
  /\ pending' = Append(pending, a)
  /\ UNCHANGED <<exclusionVars, ownerVars, coldVars, captureVars, threadVars, used>>

\* ResourceBlockRetirement::release once detached: done, or another reap.
RetireBlock(p, a) ==
  /\ pc[p] = "item" /\ item[p] = Block(a)
  /\ IF phase[a] = "freed"
     THEN /\ item' = [item EXCEPT ![p] = None]
          /\ pc' = [pc EXCEPT ![p] = "drain"]
     ELSE /\ pc' = [pc EXCEPT ![p] = "reap"]
          /\ UNCHANGED item
  /\ UNCHANGED <<exclusionVars, ownerVars, coldVars, captureVars, pending,
                 cur, batch, kept, rel, then, used>>

RetireRaw(p, a) ==
  /\ Goto(p, "item", "release")
  /\ item[p] = Raw(a)
  /\ rel' = [rel EXCEPT ![p] = a]
  /\ UNCHANGED <<exclusionVars, ownerVars, coldVars, captureVars, pending,
                 cur, item, batch, kept, then, used>>

-----------------------------------------------------------------------------
(* reap_pending: the batch of the backend's pending queue.                 *)

TakeBatch(p) ==
  /\ Goto(p, "reap", "visit")
  /\ batch' = [batch EXCEPT ![p] = pending]
  /\ pending' = <<>>
  /\ UNCHANGED <<exclusionVars, ownerVars, coldVars, captureVars,
                 cur, item, kept, rel, then, used>>

\* reclaim_shared_allocation: a leased owner stays in its slot.
VisitLeased(p) ==
  /\ pc[p] = "visit" /\ batch[p] # <<>> /\ lease[Head(batch[p])] = "held"
  /\ kept' = [kept EXCEPT ![p] = Append(@, Head(batch[p]))]
  /\ batch' = [batch EXCEPT ![p] = Tail(@)]
  /\ UNCHANGED <<exclusionVars, ownerVars, coldVars, captureVars, pending,
                 cur, item, rel, then, pc, used>>

VisitUnique(p) ==
  /\ Goto(p, "visit", "release")
  /\ batch[p] # <<>> /\ lease[Head(batch[p])] # "held"
  /\ Close(Head(batch[p]))
  /\ rel' = [rel EXCEPT ![p] = Head(batch[p])]
  /\ batch' = [batch EXCEPT ![p] = Tail(@)]
  /\ UNCHANGED <<exclusionVars, phase, acquired, freeState, coldVars, captureVars, pending,
                 cur, item, kept, then, used>>

\* After a reap: a block whose memory is not free yet is retried by the cold
\* queue; a reap of its own returns.
AfterReap(p) ==
  LET blocked == item[p] # None /\ phase[item[p].owner] # "freed"
      inDrain == retiring = p
  IN CASE blocked /\ item[p].kind = "storage" ->
            /\ item' = [item EXCEPT ![p] = Block(item[p].owner)]
            /\ pc' = [pc EXCEPT ![p] = "enqueue"]
            /\ UNCHANGED retry
       [] blocked /\ item[p].kind = "block" ->
            /\ retry' = Append(retry, item[p])
            /\ item' = [item EXCEPT ![p] = None]
            /\ pc' = [pc EXCEPT ![p] = "drain"]
       [] OTHER ->
            /\ item' = [item EXCEPT ![p] = None]
            /\ pc' = [pc EXCEPT ![p] = IF inDrain THEN "drain" ELSE "idle"]
            /\ UNCHANGED retry

\* Mutant: the leased owners that a reap has passed are not put back.
MergeRest(p, rest) == pending' = pending \o rest
\* PendingReclamationBatch::drop puts what is left behind what was queued since.
Merge(p, rest) == pending' = pending \o kept[p] \o rest

ReapDone(p) ==
  /\ pc[p] = "visit" /\ batch[p] = <<>>
  /\ Merge(p, <<>>)
  /\ kept' = [kept EXCEPT ![p] = <<>>]
  /\ AfterReap(p)
  /\ UNCHANGED <<exclusionVars, ownerVars, queue, unknown, retiring, captureVars,
                 cur, batch, rel, then, used>>

-----------------------------------------------------------------------------
(* RawDeviceAllocation::release                                            *)

\* Mutant: a free that returned an error is submitted again.
Resubmit(a) == TRUE
\* DriverReleaseState::require_known
RequireKnown(a) == freeState[a] # "unknown"

\* A release that a step of failed: the owner goes back where it came from.  A
\* failing owner ends the whole batch of a reap.
ReleaseFails(p) ==
  LET a == rel[p] IN
  /\ rel' = [rel EXCEPT ![p] = None]
  /\ IF item[p] = Raw(a)
     THEN /\ IF freeState'[a] = "unknown"
             THEN unknown' = unknown \cup {a} /\ UNCHANGED retry
             ELSE retry' = Append(retry, item[p]) /\ UNCHANGED unknown
          /\ item' = [item EXCEPT ![p] = None]
          /\ pc' = [pc EXCEPT ![p] = "drain"]
          /\ UNCHANGED <<pending, batch, kept>>
     ELSE /\ Merge(p, <<a>> \o batch[p])
          /\ batch' = [batch EXCEPT ![p] = <<>>]
          /\ kept' = [kept EXCEPT ![p] = <<>>]
          /\ AfterReap(p)
          /\ UNCHANGED unknown

\* A release that is through: the permit goes, with the failure it retained.
ReleaseDone(p) ==
  /\ failed' = IF permit[rel[p]] /\ acquired[rel[p]] THEN None ELSE failed
  /\ DropPermit(rel[p])
  /\ rel' = [rel EXCEPT ![p] = None]
  /\ IF item[p] = Raw(rel[p])
     THEN /\ item' = [item EXCEPT ![p] = None]
          /\ pc' = [pc EXCEPT ![p] = "drain"]
     ELSE /\ pc' = [pc EXCEPT ![p] = "visit"]
          /\ UNCHANGED item

\* No memory was acquired: nothing to free.
ReleaseUnacquired(p) ==
  /\ pc[p] = "release" /\ ~acquired[rel[p]]
  /\ phase' = [phase EXCEPT ![rel[p]] = "refused"]
  /\ ReleaseDone(p)
  /\ UNCHANGED <<acquired, freeState, lease, coldVars, captureVars, pending,
                 cur, batch, kept, then, used>>

\* The permit is entered unless a failed attempt kept it.
ReleaseEnter(p) ==
  LET a == rel[p] IN
  /\ Goto(p, "release", "exclude")
  /\ acquired[a]
  /\ permit[a] \/ MayEnter
  /\ permit' = [permit EXCEPT ![a] = TRUE]
  /\ active' = TRUE
  /\ UNCHANGED <<failed, ownerVars, coldVars, captureVars, pending, threadVars, used>>

ReleaseRefused(p) ==
  /\ pc[p] = "release" /\ acquired[rel[p]] /\ ~permit[rel[p]] /\ failed # None
  /\ UNCHANGED <<exclusionVars, ownerVars>>
  /\ ReleaseFails(p)
  /\ UNCHANGED <<queue, retiring, captureVars, cur, then, used>>

\* A free whose outcome is unknown is never entered again, and no free enters
\* during a capture.
ReleaseExcluded(p) ==
  LET a == rel[p] IN
  /\ pc[p] = "exclude"
  /\ ~RequireKnown(a) \/ capturing # None
  /\ RetainFailure(a)
  /\ UNCHANGED ownerVars
  /\ ReleaseFails(p)
  /\ UNCHANGED <<queue, retiring, captureVars, cur, then, used>>

ReleaseExclude(p) ==
  /\ Goto(p, "exclude", "fences")
  /\ RequireKnown(rel[p]) /\ capturing = None
  /\ exclusions' = exclusions + 1
  /\ UNCHANGED <<exclusionVars, ownerVars, coldVars, capturing, pending, threadVars, used>>

\* DeviceAccessDependencies::synchronize
AwaitFences(p) ==
  /\ Goto(p, "fences", "free")
  /\ UNCHANGED <<exclusionVars, ownerVars, coldVars, captureVars, pending, threadVars, used>>

FencesFail(p) ==
  /\ pc[p] = "fences"
  /\ Spend("faults")
  /\ RetainFailure(rel[p])
  /\ UNCHANGED ownerVars
  /\ exclusions' = exclusions - 1
  /\ ReleaseFails(p)
  /\ UNCHANGED <<queue, retiring, capturing, cur, then>>

\* DriverReleaseState::submit, then the settlement of the ticket.
Free(p) ==
  /\ pc[p] = "free"
  /\ freeState' = [freeState EXCEPT ![rel[p]] = "submitted"]
  /\ phase' = [phase EXCEPT ![rel[p]] = "freed"]
  /\ exclusions' = exclusions - 1
  /\ ReleaseDone(p)
  /\ UNCHANGED <<acquired, lease, coldVars, capturing, pending, cur, batch, kept, then, used>>

FreeUnknown(p) ==
  /\ pc[p] = "free"
  /\ Spend("unknown")
  /\ freeState' = [freeState EXCEPT ![rel[p]] = "unknown"]
  /\ RetainFailure(rel[p])
  /\ UNCHANGED <<phase, acquired, lease>>
  /\ exclusions' = exclusions - 1
  /\ ReleaseFails(p)
  /\ UNCHANGED <<queue, retiring, capturing, cur, then>>

-----------------------------------------------------------------------------
(* Managed stream capture.                                                 *)

\* try_acquire_stream_capture_key drains first ...
BeginCapture(p) ==
  /\ pc[p] = "idle" /\ capturing # p
  /\ Spend("captures")
  /\ DrainThen(p, "capture", "begin")
  /\ UNCHANGED <<exclusionVars, ownerVars, queue, retry, unknown, captureVars, pending,
                 cur, item, batch, kept, rel>>

\* Mutant: a capture looks at the other captures and at the drain only.
CaptureFreeOfDrain == capturing = None /\ retiring = None
CaptureFree == capturing = None /\ retiring = None /\ exclusions = 0

\* ... and is refused while anything excludes capture.
AcquireCapture(p) ==
  /\ Goto(p, "begin", "idle")
  /\ capturing' = IF CaptureFree THEN p ELSE capturing
  /\ UNCHANGED <<exclusionVars, ownerVars, coldVars, exclusions, pending, threadVars, used>>

\* release_stream_capture_key drains what the capture held back.
EndCapture(p) ==
  /\ pc[p] = "idle" /\ capturing = p
  /\ capturing' = None
  /\ IF retiring = None /\ queue # <<>>
     THEN retiring' = p /\ pc' = [pc EXCEPT ![p] = "drain"]
     ELSE UNCHANGED <<retiring, pc>>
  /\ UNCHANGED <<exclusionVars, ownerVars, queue, retry, unknown, exclusions, pending,
                 threadVars, used>>

-----------------------------------------------------------------------------
Request(p) ==
  \/ \E a \in Allocs : \/ Allocate(p, a) \/ DropStorage(p, a) \/ DropBlock(p, a)
                       \/ Lease(p, a) \/ DropLease(p, a)
  \/ BeginCapture(p) \/ EndCapture(p) \/ Reap(p)

Continue(p) ==
  \/ Enter(p) \/ EnterRefused(p) \/ Uncaptured(p) \/ CaptureRefused(p)
  \/ Malloc(p) \/ MallocRefused(p) \/ Publish(p) \/ InitFails(p)
  \/ Enqueue(p) \/ DrainNext(p) \/ DrainDone(p)
  \/ \E a \in Allocs :
       RetireNative(p, a) \/ RetireRuntime(p, a) \/ RetireBlock(p, a) \/ RetireRaw(p, a)
  \/ TakeBatch(p) \/ VisitLeased(p) \/ VisitUnique(p) \/ ReapDone(p)
  \/ ReleaseUnacquired(p) \/ ReleaseEnter(p) \/ ReleaseRefused(p)
  \/ ReleaseExcluded(p) \/ ReleaseExclude(p) \/ AwaitFences(p) \/ FencesFail(p)
  \/ Free(p) \/ FreeUnknown(p) \/ AcquireCapture(p)

Next == \E p \in Procs : Request(p) \/ Continue(p)

Spec == Init /\ [][Next]_vars

\* A thread inside a call keeps running.  Callers reap now and then, and every
\* capture and every lease has an owner whose scope ends.
FairSpec ==
  /\ Spec
  /\ \A p \in Procs : WF_vars(Continue(p)) /\ WF_vars(Reap(p)) /\ SF_vars(EndCapture(p))
  /\ \A a \in Allocs : SF_vars(\E p \in Procs : DropLease(p, a))

-----------------------------------------------------------------------------
(* What the lifecycle promises.                                            *)

Holders == {a \in Allocs : permit[a]}

\* At most one owner is between its entry and its settlement in the driver, the
\* exclusion is taken exactly while one is, and a retained failure belongs to
\* that owner, so nothing but its own completed release can lift the refusal
\* ("Only the original owner's completed reclamation permits retiring this
\* uncertainty").
PermitExclusive ==
  /\ active <=> Holders # {}
  /\ \A a, b \in Holders : a = b
  /\ failed # None => failed \in Holders /\ acquired[failed] /\ freeState[failed] # "submitted"

\* No driver allocation or free runs while a stream capture is active: the
\* capture check and the driver call cannot be separated by a BeginCapture.
CaptureExcludesDriver ==
  capturing # None =>
    \A p \in Procs : pc[p] \notin {"malloc", "init", "fences", "free"}

\* The driver frees no memory that an operation or a graph still leases, however
\* the reap, the last handle and a new lease interleave.
NoFreeUnderLease ==
  \A a \in Allocs :
    lease[a] = "held" => phase[a] # "freed" /\ \A p \in Procs : rel[p] # a

\* The places in which a is kept for a release.
PlacesOf(a) ==
  {<<"queue", i>> : i \in {i \in DOMAIN queue : queue[i] \in {Storage(a), Raw(a)}}}
  \cup {<<"retry", i>> : i \in {i \in DOMAIN retry : retry[i] \in {Storage(a), Raw(a)}}}
  \cup {<<"pending", i>> : i \in {i \in DOMAIN pending : pending[i] = a}}
  \cup {<<"unknown", x>> : x \in unknown \cap {a}}
  \cup {<<"leased", x>> : x \in {x \in {a} : phase[x] = "orphan"}}
  \cup (UNION {{<<p, "batch", i>> : i \in {i \in DOMAIN batch[p] : batch[p][i] = a}}
                \cup {<<p, "kept", i>> : i \in {i \in DOMAIN kept[p] : kept[p][i] = a}}
                : p \in Procs})
  \cup {<<p, "item">> : p \in {p \in Procs :
         \/ item[p] = Storage(a) /\ pc[p] \in {"enqueue", "item"}
         \/ item[p] = Raw(a)
         \/ rel[p] = a /\ item[p] # Raw(a)}}

\* An owner its user dropped is kept in exactly one place until its memory is
\* free: no retry, failing reap, unwind of a batch or drain that is cut short
\* loses it or lists it twice.
OwnerKept ==
  \A a \in Allocs :
    /\ phase[a] \in {"dropped", "orphan"} => Cardinality(PlacesOf(a)) = 1
    /\ phase[a] \in {"freed", "refused"} => PlacesOf(a) = {}

\* A driver free is submitted once: neither a confirmed free nor one whose
\* outcome is unknown is ever submitted again.
FreeSubmittedOnce ==
  [][\A a \in Allocs : freeState[a] # "owned" => freeState'[a] = freeState[a]]_vars

\* Every call returns: no thread waits for ever for the exclusion, and no drain
\* feeds itself.
CallsReturn == \A p \in Procs : pc[p] # "idle" ~> pc[p] = "idle"

\* Memory that was dropped is freed unless the driver fails: leases, captures,
\* other reaps and the merge of their batches only delay it.
Failures == used.faults + used.unknown
DroppedIsFreed ==
  \A a \in Allocs :
    phase[a] \in {"dropped", "orphan"} ~> phase[a] = "freed" \/ Failures > 0

\* The drain of the cold queue runs without locks that the work in the queue
\* needs: no retirement waits for the exclusion whose permit is in an owner
\* behind it in the same queue (cuda_graph.rs, reap_capture_retirements).
DrainWithoutNeededPermit ==
  \A p \in Procs :
    /\ pc[p] = "release" /\ retiring = p /\ acquired[rel[p]] /\ ~permit[rel[p]] /\ failed = None
    => \A i \in DOMAIN queue : queue[i].kind = "raw" => ~permit[queue[i].owner]
=============================================================================
