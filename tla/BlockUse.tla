------------------------------- MODULE BlockUse -------------------------------
(***************************************************************************)
(* Admission of device work in one CUDA context (crates/xlog-cuda): the    *)
(* registry of storages and pending uses (BlockUseRegistry), the event     *)
(* frontiers of every storage (DeviceAccessDependencies), the transaction  *)
(* of one operation (RecorderTransaction over MemoryOperationOwner), and   *)
(* the release that follows the last owner.  The driver's streams and      *)
(* events are modelled as the code uses them.                              *)
(*                                                                         *)
(* An event is a position of the stream it was recorded on: it is complete *)
(* once the stream has executed that many items.                           *)
(***************************************************************************)
EXTENDS Integers, Sequences, FiniteSets, SequencesExt

CONSTANTS
  Ops,        \* operations; each is admitted at most once
  Streams,
  Storages,   \* owners the registry knows; each is created at most once
  Native,     \* those XLOG allocated; the others are imports
  BytesOf,    \* the address range of a storage
  LeaseOn,    \* the native storage an import re-imports, or None
  StreamOf,   \* the stream an operation is submitted to
  SourcesOf,  \* the storages it names
  ReadsOf,    \* the bytes it reads
  WritesOf,   \* the bytes it writes
  MaxFaults,  \* bound: driver calls that fail
  None

Touches(o) == ReadsOf[o] \cup WritesOf[o]

ASSUME StorageAssumption ==
  /\ Native \subseteq Storages
  /\ LeaseOn \in [Storages -> Native \cup {None}]
  /\ \A x \in Native : LeaseOn[x] = None
  /\ None \notin Storages \cup Streams \cup Ops
  /\ IsFiniteSet(Streams)
ASSUME OpAssumption ==
  /\ StreamOf \in [Ops -> Streams]
  /\ SourcesOf \in [Ops -> SUBSET Storages]
  /\ \A o \in Ops : /\ Touches(o) \subseteq UNION {BytesOf[x] : x \in SourcesOf[o]}
                    /\ \A x \in SourcesOf[o] : BytesOf[x] \cap Touches(o) # {}
ASSUME FaultAssumption == MaxFaults \in Nat

VARIABLES
  stage,     \* the life of every storage
  handle,    \* whether the program still holds it
  phase,     \* the transaction of every operation
  retained,  \* the owners an operation keeps: MemoryOperationOwner.retained
  left,      \* the owners whose events it has still to wait for
  fence,     \* what a synchronisation in progress waits for, per stream
  writes,    \* outstanding_writes: the event of every stream, 0 for none
  reads,     \* outstanding_reads
  queue,     \* what every stream was given
  done,      \* how much of it the device has executed
  at,        \* where the work of an operation stands in its stream, 0 for nowhere
  log,       \* the order of submission, for the properties only
  faults

storageVars == <<stage, handle>>
opVars      == <<phase, retained, left, fence>>
eventVars   == <<writes, reads>>
deviceVars  == <<queue, done, at, log>>
vars == <<storageVars, opVars, eventVars, deviceVars, faults>>

Work(o)    == [op |-> o, on |-> None, upto |-> 0]
Wait(s, n) == [op |-> None, on |-> s, upto |-> n]
Item == [op : Ops \cup {None}, on : Streams \cup {None}, upto : Nat]

\* An operation's group is in the registry from its admission to its release.
Open == {o \in Ops : phase[o] \notin {"none", "closed"}}
\* Weak entries of the registry whose release is not proved yet.
Registered == {x \in Storages : stage[x] \in {"owned", "reclaiming", "freed"}}

Overlap(x, y) == BytesOf[x] \cap BytesOf[y] # {}

\* MemoryUse::conflicts, over every span of two operations.
Conflict(o, p) ==
  \/ WritesOf[o] \cap Touches(p) # {}
  \/ Touches(o) \cap WritesOf[p] # {}

\* An import of our own memory keeps the native owner until its deleter ran.
Held(x) ==
  \/ handle[x]
  \/ \E o \in Ops : x \in retained[o]
  \/ \E y \in Storages : LeaseOn[y] = x /\ stage[y] = "owned"

\* Weak::upgrade of a registered owner.
Upgrades(x) == stage[x] = "owned" /\ Held(x)

TypeOK ==
  /\ stage \in [Storages -> {"none", "owned", "reclaiming", "freed", "released"}]
  /\ handle \in [Storages -> BOOLEAN]
  /\ phase \in [Ops -> {"none", "admitted", "preparing", "enqueued", "aborting",
                        "quarantined", "retiring", "closed"}]
  /\ retained \in [Ops -> SUBSET Storages]
  /\ left \in [Ops -> SUBSET Storages]
  /\ fence \in [Ops -> [Streams -> Nat]]
  /\ writes \in [Storages -> [Streams -> Nat]]
  /\ reads \in [Storages -> [Streams -> Nat]]
  /\ queue \in [Streams -> Seq(Item)]
  /\ done \in [Streams -> Nat]
  /\ \A s \in Streams : done[s] <= Len(queue[s])
  /\ \A o \in Ops, s \in Streams : fence[o][s] <= Len(queue[s])
  /\ \A x \in Storages, s \in Streams :
       writes[x][s] <= Len(queue[s]) /\ reads[x][s] <= Len(queue[s])
  /\ at \in [Ops -> Nat]
  /\ log \in Seq(Ops)
  /\ faults \in 0..MaxFaults

NoFence == [s \in Streams |-> 0]

Init ==
  /\ stage = [x \in Storages |-> "none"]
  /\ handle = [x \in Storages |-> FALSE]
  /\ phase = [o \in Ops |-> "none"]
  /\ retained = [o \in Ops |-> {}]
  /\ left = [o \in Ops |-> {}]
  /\ fence = [o \in Ops |-> NoFence]
  /\ writes = [x \in Storages |-> NoFence]
  /\ reads = [x \in Storages |-> NoFence]
  /\ queue = [s \in Streams |-> <<>>]
  /\ done = [s \in Streams |-> 0]
  /\ at = [o \in Ops |-> 0]
  /\ log = <<>>
  /\ faults = 0

Step(o, from, to) == phase[o] \in from /\ phase' = [phase EXCEPT ![o] = to]

Fault == faults < MaxFaults /\ faults' = faults + 1

-----------------------------------------------------------------------------
(* Storages                                                                *)

\* RawDeviceAllocation::allocate.  The permit of the allocation lifecycle is
\* held from here to the proof of a release, so the driver reuses no address
\* before that proof.
Allocate(x) ==
  /\ x \in Native
  /\ stage[x] = "none"
  /\ \A y \in Native : stage[y] \notin {"reclaiming", "freed"}
  /\ \A y \in Registered : ~Overlap(x, y)
  /\ stage' = [stage EXCEPT ![x] = "owned"]
  /\ handle' = [handle EXCEPT ![x] = TRUE]
  /\ UNCHANGED <<opVars, eventVars, deviceVars, faults>>

\* DeviceStorage::new over Backing::Foreign: the history starts empty, and the
\* memory may be known to the registry under other wrappers.
Import(x) ==
  /\ x \in Storages \ Native
  /\ stage[x] = "none"
  /\ IF LeaseOn[x] = None
     THEN \A y \in Registered \cap Native : ~Overlap(x, y)
     ELSE handle[LeaseOn[x]]
  /\ stage' = [stage EXCEPT ![x] = "owned"]
  /\ handle' = [handle EXCEPT ![x] = TRUE]
  /\ UNCHANGED <<opVars, eventVars, deviceVars, faults>>

DropHandle(x) ==
  /\ handle[x]
  /\ handle' = [handle EXCEPT ![x] = FALSE]
  /\ UNCHANGED <<stage, opVars, eventVars, deviceVars, faults>>

\* reserve_reclamation: the last owner of an allocation is gone, and its range
\* is reserved for the release.
Reclaim(x) ==
  /\ x \in Native
  /\ stage[x] = "owned" /\ ~Held(x)
  /\ \A y \in Native : stage[y] \notin {"reclaiming", "freed"}
  /\ \A o \in Open : BytesOf[x] \cap Touches(o) = {}
  /\ stage' = [stage EXCEPT ![x] = "reclaiming"]
  /\ UNCHANGED <<handle, opVars, eventVars, deviceVars, faults>>

\* Every event of a storage is complete.
Fenced(x) == \A s \in Streams : writes[x][s] <= done[s] /\ reads[x][s] <= done[s]

\* The driver's free, or the deleter of an import, once every recorded event
\* has been synchronised.
Free(x) ==
  /\ IF x \in Native THEN stage[x] = "reclaiming" ELSE stage[x] = "owned" /\ ~Held(x)
  /\ Fenced(x)
  /\ stage' = [stage EXCEPT ![x] = "freed"]
  /\ UNCHANGED <<handle, opVars, eventVars, deviceVars, faults>>

\* AllocationReclamation::complete publishes the release.
Released(x) ==
  /\ stage[x] = "freed"
  /\ stage' = [stage EXCEPT ![x] = "released"]
  /\ UNCHANGED <<handle, opVars, eventVars, deviceVars, faults>>

-----------------------------------------------------------------------------
(* Operations                                                              *)

Overlapping(o) == {x \in Registered : BytesOf[x] \cap Touches(o) # {}}

\* Mutant: an operation retains the owners it names, and looks for no alias.
RetainedSources(o) == SourcesOf[o]
\* retain_storage_uses: the owners the operation names, and every registered
\* owner of a range it overlaps.
Retains(o) == SourcesOf[o] \cup Overlapping(o)

\* Mutant: an operation that has submitted its work conflicts no more.
AdmissibleEarly(o) ==
  /\ \A x \in Overlapping(o) : Upgrades(x)
  /\ \A p \in Open : phase[p] # "enqueued" => ~Conflict(o, p)
  /\ \A x \in Native : stage[x] \in {"reclaiming", "freed"} => BytesOf[x] \cap Touches(o) = {}
\* reserve_owned_memory_uses: an overlapping owner that is retiring without a
\* proved release refuses the operation, and so does a conflicting operation or
\* a release in progress.
Admissible(o) ==
  /\ \A x \in Overlapping(o) : Upgrades(x)
  /\ \A p \in Open : ~Conflict(o, p)
  /\ \A x \in Native : stage[x] \in {"reclaiming", "freed"} => BytesOf[x] \cap Touches(o) = {}

\* admit_memory_access, under the lock of the registry.
Admit(o) ==
  /\ Step(o, {"none"}, "admitted")
  /\ \A x \in SourcesOf[o] : handle[x]
  /\ Admissible(o)
  /\ retained' = [retained EXCEPT ![o] = Retains(o)]
  /\ UNCHANGED <<storageVars, left, fence, eventVars, deviceVars, faults>>

\* Mutant: the owner outlives its transaction.
ForgetNothing(o) == UNCHANGED retained
\* The group leaves the registry, and the operation's owner is dropped.
Forget(o) == retained' = [retained EXCEPT ![o] = {}]

\* A stale submission phase, or a recorder dropped before its enqueue: nothing
\* was enqueued, so the group is cancelled without waiting.
CancelAdmitted(o) ==
  /\ Step(o, {"admitted"}, "closed")
  /\ Forget(o)
  /\ UNCHANGED <<storageVars, left, fence, eventVars, deviceVars, faults>>

\* mark_may_have_enqueued, before the first wait.
BeginEnqueue(o) ==
  /\ Step(o, {"admitted"}, "preparing")
  /\ left' = [left EXCEPT ![o] = retained[o]]
  /\ UNCHANGED <<storageVars, retained, fence, eventVars, deviceVars, faults>>

WritesTo(o, x) == WritesOf[o] \cap BytesOf[x] # {}

\* AccessDependencies::prepare: the events of the other streams' writers, and of
\* their readers if the operation writes.
EventsBefore(o, x) ==
  LET writers == {s \in Streams \ {StreamOf[o]} : writes[x][s] > 0}
      readers == {s \in Streams \ {StreamOf[o]} : WritesTo(o, x) /\ reads[x][s] > 0}
  IN {Wait(s, writes[x][s]) : s \in writers} \cup {Wait(s, reads[x][s]) : s \in readers}

Enqueue(s, items) == queue' = [queue EXCEPT ![s] = @ \o items]

\* DeviceAccessDependencies::prepare for one retained owner.
Prepare(o, x) ==
  /\ phase[o] = "preparing"
  /\ x \in left[o]
  /\ left' = [left EXCEPT ![o] = @ \ {x}]
  /\ Enqueue(StreamOf[o], SetToSeq(EventsBefore(o, x)))
  /\ UNCHANGED <<storageVars, phase, retained, fence, eventVars, done, at, log, faults>>

\* Mutant: the abort synchronises nothing.
NoPrefix(o) == NoFence
\* Mutant: one item more than the stream has.
BeyondPrefix(o) == [NoFence EXCEPT ![StreamOf[o]] = Len(queue[StreamOf[o]]) + 1]
\* The end of the operation's stream, for a synchronisation that starts now.
StreamPrefix(o) == [NoFence EXCEPT ![StreamOf[o]] = Len(queue[StreamOf[o]])]

\* The end of every stream, for a barrier on the context.
ContextPrefix == [s \in Streams |-> Len(queue[s])]

\* A wait cannot be queued.
PrepareFails(o) ==
  /\ Step(o, {"preparing"}, "aborting")
  /\ left[o] # {}
  /\ left' = [left EXCEPT ![o] = {}]
  /\ fence' = [fence EXCEPT ![o] = StreamPrefix(o)]
  /\ Fault
  /\ UNCHANGED <<storageVars, retained, eventVars, deviceVars>>

Submit(o) ==
  /\ Step(o, {"preparing"}, "enqueued")
  /\ left[o] = {}
  /\ Enqueue(StreamOf[o], <<Work(o)>>)
  /\ at' = [at EXCEPT ![o] = Len(queue[StreamOf[o]]) + 1]
  /\ log' = Append(log, o)
  /\ UNCHANGED <<storageVars, retained, left, fence, eventVars, done, faults>>

\* The enqueue operation returns an error before it submitted anything; after it
\* did, the abort is that of an enqueued launch.
OperationFails(o) ==
  /\ Step(o, {"preparing"}, "aborting")
  /\ left[o] = {}
  /\ fence' = [fence EXCEPT ![o] = StreamPrefix(o)]
  /\ Fault
  /\ UNCHANGED <<storageVars, retained, left, eventVars, deviceVars>>

\* AccessDependencies::publish: a stream's new event replaces its earlier ones,
\* save that the event of a reader leaves that of a writer.
Published(o, x, n) ==
  IF WritesTo(o, x)
  THEN <<[writes[x] EXCEPT ![StreamOf[o]] = n], [reads[x] EXCEPT ![StreamOf[o]] = 0]>>
  ELSE <<writes[x], [reads[x] EXCEPT ![StreamOf[o]] = n]>>

\* MemoryOperationOwner::finish: one event for the whole operation, published to
\* every retained owner under their locks, and then the group is released.
Finish(o) ==
  /\ Step(o, {"enqueued"}, "closed")
  /\ LET end == Len(queue[StreamOf[o]]) IN
     /\ writes' = [x \in Storages |-> IF x \in retained[o] THEN Published(o, x, end)[1]
                                                           ELSE writes[x]]
     /\ reads' = [x \in Storages |-> IF x \in retained[o] THEN Published(o, x, end)[2]
                                                          ELSE reads[x]]
  /\ Forget(o)
  /\ UNCHANGED <<storageVars, left, fence, deviceVars, faults>>

\* The event cannot be recorded, the operation failed after it had submitted, or
\* the launch is aborted or dropped without a commit.
Abort(o) ==
  /\ Step(o, {"enqueued"}, "aborting")
  /\ fence' = [fence EXCEPT ![o] = StreamPrefix(o)]
  /\ UNCHANGED <<storageVars, retained, left, eventVars, deviceVars, faults>>

Synchronized(o) == \A s \in Streams : fence[o][s] <= done[s]

\* abort_with, or the tail of a failed commit: the work has ended, and the group
\* is cancelled.
CancelSynchronized(o) ==
  /\ Step(o, {"aborting"}, "closed")
  /\ Synchronized(o)
  /\ Forget(o)
  /\ UNCHANGED <<storageVars, left, fence, eventVars, deviceVars, faults>>

\* quarantine_owner_and_pending: the owners and the group go to the cold queue.
Quarantine(o) == phase' = [phase EXCEPT ![o] = "quarantined"] /\ UNCHANGED retained

SynchronizeFails(o) ==
  /\ phase[o] \in {"aborting", "retiring"}
  /\ Quarantine(o)
  /\ Fault
  /\ UNCHANGED <<storageVars, left, fence, eventVars, deviceVars>>

\* synchronize_retired: the thread of the stream may be gone, so the queue waits
\* for the whole context.
Retire(o) ==
  /\ Step(o, {"quarantined"}, "retiring")
  /\ fence' = [fence EXCEPT ![o] = ContextPrefix]
  /\ UNCHANGED <<storageVars, retained, left, eventVars, deviceVars, faults>>

\* cancel_retired, and the owner is dropped.
CancelRetired(o) ==
  /\ Step(o, {"retiring"}, "closed")
  /\ Synchronized(o)
  /\ Forget(o)
  /\ UNCHANGED <<storageVars, left, fence, eventVars, deviceVars, faults>>

-----------------------------------------------------------------------------
(* The device                                                              *)

Pending(s) == done[s] < Len(queue[s])
NextItem(s) == queue[s][done[s] + 1]

Ready(s) ==
  /\ Pending(s)
  /\ NextItem(s).on # None => NextItem(s).upto <= done[NextItem(s).on]

Execute(s) ==
  /\ Ready(s)
  /\ done' = [done EXCEPT ![s] = @ + 1]
  /\ UNCHANGED <<storageVars, opVars, eventVars, queue, at, log, faults>>

StorageStep(x) ==
  \/ Allocate(x) \/ Import(x) \/ DropHandle(x)
  \/ Reclaim(x) \/ Free(x) \/ Released(x)

OpStep(o) ==
  \/ Admit(o) \/ CancelAdmitted(o) \/ BeginEnqueue(o)
  \/ \E x \in Storages : Prepare(o, x)
  \/ PrepareFails(o) \/ Submit(o) \/ OperationFails(o)
  \/ Finish(o) \/ Abort(o)
  \/ CancelSynchronized(o) \/ SynchronizeFails(o)
  \/ Retire(o) \/ CancelRetired(o)

\* A program that has dropped everything may do nothing more; what is in flight
\* then is for the liveness properties.
Rest == (\A x \in Storages : ~handle[x]) /\ UNCHANGED vars

Next ==
  \/ \E x \in Storages : StorageStep(x)
  \/ \E o \in Ops : OpStep(o)
  \/ \E s \in Streams : Execute(s)
  \/ Rest

Spec == Init /\ [][Next]_vars

\* What a thread does with an operation it holds: it commits it, or drops it.
Carry(o) ==
  \/ CancelAdmitted(o) \/ BeginEnqueue(o)
  \/ \E x \in Storages : Prepare(o, x)
  \/ PrepareFails(o) \/ Submit(o) \/ OperationFails(o)
  \/ Finish(o) \/ Abort(o)
  \/ CancelSynchronized(o) \/ SynchronizeFails(o)

\* The device executes, a thread carries on with the operation it holds, and the
\* drop of a last owner drains the cold queue.  Nothing obliges a program to
\* make the later call that retries a quarantined operation.
Fairness ==
  /\ \A s \in Streams : WF_vars(Execute(s))
  /\ \A o \in Ops : WF_vars(Carry(o))
  /\ \A x \in Storages : WF_vars(Reclaim(x) \/ Free(x) \/ Released(x))

FairSpec == Spec /\ Fairness

-----------------------------------------------------------------------------
(* Properties                                                              *)

Submitted == {o \in Ops : at[o] > 0}
Ran == {o \in Submitted : at[o] <= done[StreamOf[o]]}
Running(o) == o \in Submitted /\ at[o] = done[StreamOf[o]] + 1

\* No two streams ever have conflicting work at their head, and work that is
\* about to run is preceded by no conflicting work that has not run: the waits
\* an operation queues cover every alias of the memory it touches.
NoRace ==
  \A i, j \in 1..Len(log) :
    (i < j /\ Conflict(log[i], log[j]) /\ Running(log[j])) => log[i] \in Ran

\* Work the device has not executed is still in the registry with its owners, or
\* an event of its stream behind it stands in the history of every storage it
\* names, among the writers if it writes there: nothing in flight is untracked,
\* whichever step of the transaction failed.
NothingUntracked ==
  \A o \in Submitted \ Ran :
    \/ o \in Open /\ SourcesOf[o] \subseteq retained[o]
    \/ \A x \in SourcesOf[o] :
         \/ at[o] <= writes[x][StreamOf[o]]
         \/ ~WritesTo(o, x) /\ at[o] <= reads[x][StreamOf[o]]

\* A storage is freed, or handed to its importer's deleter, only when no open
\* operation names it and no work that named it is left on the device.
FreedAfterUse ==
  \A x \in Storages : stage[x] \in {"freed", "released"} =>
    \A o \in Open \cup (Submitted \ Ran) : x \notin SourcesOf[o]

\* When the last owner of an allocation is gone no group overlaps it, so the
\* release is never refused by the registry it has to pass.
ReleaseUncontended ==
  \A x \in Native : (stage[x] = "owned" /\ ~Held(x)) =>
    \A o \in Open : BytesOf[x] \cap Touches(o) = {}

Quarantined == {o \in Ops : phase[o] \in {"quarantined", "retiring"}}
Anchored(x) == handle[x] \/ \E o \in Quarantined : x \in retained[o]

\* An admitted operation is closed, or is quarantined until a later call: no
\* wait it queued and no synchronisation it started is for something that never
\* happens.
OpsSettle ==
  \A o \in Ops : phase[o] = "admitted" ~> phase[o] = "closed" \/ o \in Quarantined

\* A storage the program has dropped is given back, unless a quarantined
\* operation, or an import of it that is still held, keeps it.
DroppedGivenBack ==
  \A x \in Storages :
    (stage[x] = "owned" /\ ~handle[x]) ~>
      \/ stage[x] = "released" \/ Anchored(x)
      \/ \E y \in Storages : LeaseOn[y] = x /\ stage[y] = "owned" /\ Anchored(y)

\* The promise of module OrderedUse.
Gone == {x \in Storages : stage[x] \in {"freed", "released"}}
Abstract == INSTANCE OrderedUse WITH ran <- Ran, gone <- Gone
Ordered == Abstract!Spec
=============================================================================
