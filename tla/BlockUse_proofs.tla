---------------------------- MODULE BlockUse_proofs ----------------------------
(***************************************************************************)
(* Proofs about BlockUse, for any number of operations, streams, storages  *)
(* and faults, and any layout of the storages in memory.                   *)
(***************************************************************************)
EXTENDS BlockUse, FiniteSetTheorems, TLAPS

\* Who owns what: what an open operation retains stays owned, and it retains at
\* least what it names.
Owners ==
  /\ \A x \in Storages : handle[x] => stage[x] = "owned"
  /\ \A x \in Storages : stage[x] = "owned" /\ LeaseOn[x] # None => stage[LeaseOn[x]] = "owned"
  /\ \A o \in Ops \ Open : retained[o] = {}
  /\ \A o \in Open : SourcesOf[o] \subseteq retained[o]
  /\ \A o \in Ops : left[o] \subseteq (IF phase[o] = "preparing" THEN retained[o] ELSE {})
  /\ \A o \in Ops : \A x \in retained[o] : stage[x] = "owned"
  /\ \A o \in Ops : phase[o] # "none" => \A x \in SourcesOf[o] : stage[x] # "none"

\* What the registry keeps apart: open operations do not conflict, and no
\* release meets one.
Apart ==
  /\ \A o, p \in Open : o # p => ~ Conflict(o, p)
  /\ \A x \in Native, o \in Open : BytesOf[x] \cap Touches(o) # {} =>
       /\ stage[x] \notin {"reclaiming", "freed"}
       /\ stage[x] = "owned" => x \in retained[o]

\* Where the work of an operation stands, and what a synchronisation covers.
Placed ==
  \A o \in Ops :
    /\ at[o] <= Len(queue[StreamOf[o]])
    /\ phase[o] \in {"none", "admitted", "preparing"} => at[o] = 0
    /\ phase[o] = "enqueued" => at[o] > 0
    /\ phase[o] \in {"aborting", "retiring"} => at[o] <= fence[o][StreamOf[o]]

\* The log is the order of submission, and so that of every stream.
Logged ==
  /\ \A o \in Ops : at[o] > 0 <=> \E i \in 1..Len(log) : log[i] = o
  /\ \A i, j \in 1..Len(log) : i < j =>
       /\ log[i] # log[j]
       /\ StreamOf[log[i]] = StreamOf[log[j]] => at[log[i]] < at[log[j]]

\* A wait that was executed is over.
WaitsOver ==
  \A s \in Streams : \A k \in 1..done[s] :
    queue[s][k].on # None => queue[s][k].upto <= done[queue[s][k].on]

\* Among the first n items of a stream is a wait for the work of p.
Awaited(p, s, n) ==
  \E k \in 1..n : queue[s][k].on = StreamOf[p] /\ at[p] <= queue[s][k].upto

\* Work on another stream is behind a wait for what it conflicts with.
Waits ==
  \A i, j \in 1..Len(log) :
    (i < j /\ Conflict(log[i], log[j]) /\ StreamOf[log[i]] # StreamOf[log[j]]) =>
      log[i] \in Ran \/ Awaited(log[i], StreamOf[log[j]], at[log[j]] - 1)

\* The history of x tells o of the work of p.
Told(o, p, x) ==
  \/ at[p] <= writes[x][StreamOf[p]]
  \/ WritesTo(o, x) /\ at[p] <= reads[x][StreamOf[p]]

\* The owners whose histories o has still to read.
Unread(o) == IF phase[o] = "admitted" THEN retained[o] ELSE left[o]

\* An operation that has not submitted yet waits already for what it conflicts
\* with, or will find it in a history.
Foreseen ==
  \A o \in Ops, p \in Submitted :
    (phase[o] \in {"admitted", "preparing"} /\ Conflict(p, o) /\ StreamOf[p] # StreamOf[o]) =>
      \/ p \in Ran
      \/ \E x \in Unread(o) : Told(o, p, x)
      \/ Awaited(p, StreamOf[o], Len(queue[StreamOf[o]]))

IInv ==
  /\ TypeOK /\ Owners /\ Apart /\ Placed /\ Logged /\ WaitsOver /\ Waits /\ Foreseen
  /\ NothingUntracked /\ FreedAfterUse

USE StorageAssumption, OpAssumption, FaultAssumption
    DEF storageVars, opVars, eventVars, deviceVars

-----------------------------------------------------------------------------
(* Sequences and sets.                                                     *)

\* A finite set as a sequence: its elements and no others.
LEMMA SequenceOfSet ==
  ASSUME NEW S, IsFiniteSet(S)
  PROVE  /\ SetToSeq(S) \in Seq(S)
         /\ \A e \in S : \E k \in 1..Len(SetToSeq(S)) : SetToSeq(S)[k] = e
<1> DEFINE n == Cardinality(S)
           f == SetToSeq(S)
<1>1. n \in Nat
  BY FS_CardinalityType
<1>2. \E g \in [1..n -> S] : IsInjective(g)
  <2>1. ExistsBijection(1..n, S)
    BY FS_CardinalityType
  <2>2. PICK g : g \in Bijection(1..n, S)
    BY <2>1 DEF ExistsBijection
  <2> QED BY <2>2 DEF Bijection, Injection, IsInjective
<1>3. f \in [1..n -> S] /\ IsInjective(f)
  BY <1>2 DEF SetToSeq
<1>4. f \in Seq(S) /\ Len(f) = n
  BY <1>1, <1>3
<1>5. f \in Surjection(1..n, S)
  <2>1. IsFiniteSet(1..n) /\ Cardinality(1..n) = n
    BY <1>1, FS_Interval
  <2>2. f \in Injection(1..n, S)
    BY <1>3 DEF Injection, IsInjective
  <2> QED BY <2>1, <2>2, FS_Injection DEF Bijection
<1> QED
  BY <1>4, <1>5 DEF Surjection

\* Items are only added to a stream, at its end.
Grows ==
  \A s \in Streams :
    /\ queue'[s] \in Seq(Item)
    /\ Len(queue[s]) <= Len(queue'[s])
    /\ \A k \in 1..Len(queue[s]) : queue'[s][k] = queue[s][k]

LEMMA EventsAreItems ==
  ASSUME TypeOK, NEW o \in Ops, NEW x \in Storages
  PROVE  /\ EventsBefore(o, x) \subseteq Item
         /\ IsFiniteSet(EventsBefore(o, x))
<1> DEFINE W == {s \in Streams \ {StreamOf[o]} : writes[x][s] > 0}
           R == {s \in Streams \ {StreamOf[o]} : WritesTo(o, x) /\ reads[x][s] > 0}
           EW == {Wait(s, writes[x][s]) : s \in W}
           ER == {Wait(s, reads[x][s]) : s \in R}
<1>1. IsFiniteSet(W) /\ IsFiniteSet(R)
  BY FS_Subset
<1>2. IsFiniteSet(EW) /\ IsFiniteSet(ER)
  <2>1. [s \in W |-> Wait(s, writes[x][s])] \in Surjection(W, EW)
    BY DEF Surjection
  <2>2. [s \in R |-> Wait(s, reads[x][s])] \in Surjection(R, ER)
    BY DEF Surjection
  <2> QED BY <1>1, <2>1, <2>2, FS_Surjection
<1>3. \A s \in Streams : writes[x][s] \in Nat /\ reads[x][s] \in Nat
  BY DEF TypeOK
<1>4. \A s \in Streams : \A n \in Nat : Wait(s, n) \in Item
  BY DEF Wait, Item
<1>5. EW \subseteq Item /\ ER \subseteq Item
  BY <1>3, <1>4
<1> QED
  BY <1>2, <1>5, FS_Union DEF EventsBefore

-----------------------------------------------------------------------------
(* Frames and types.                                                       *)

LEMMA StorageFrame ==
  ASSUME NEW x \in Storages, StorageStep(x)
  PROVE  UNCHANGED <<opVars, eventVars, deviceVars, faults>>
BY DEF StorageStep, Allocate, Import, DropHandle, Reclaim, Free, Released

LEMMA OpFrame ==
  ASSUME NEW o \in Ops, OpStep(o)
  PROVE  UNCHANGED <<stage, handle, done>>
BY DEF OpStep, Admit, CancelAdmitted, BeginEnqueue, Prepare, PrepareFails, Submit, OperationFails,
       Finish, Abort, CancelSynchronized, SynchronizeFails, Retire, CancelRetired

\* What an operation does to the streams.
LEMMA OpDevice ==
  ASSUME NEW o \in Ops, OpStep(o)
  PROVE  \/ UNCHANGED <<queue, at, log>>
         \/ \E x \in Storages : Prepare(o, x)
         \/ Submit(o)
BY DEF OpStep, Admit, CancelAdmitted, BeginEnqueue, PrepareFails, OperationFails, Finish, Abort,
       CancelSynchronized, SynchronizeFails, Retire, CancelRetired

LEMMA AppendGrows ==
  ASSUME TypeOK, NEW s \in Streams, NEW items \in Seq(Item), Enqueue(s, items)
  PROVE  /\ Grows
         /\ queue' \in [Streams -> Seq(Item)]
         /\ Len(queue'[s]) = Len(queue[s]) + Len(items)
         /\ \A k \in 1..Len(items) : queue'[s][Len(queue[s]) + k] = items[k]
         /\ \A z \in Streams \ {s} : queue'[z] = queue[z]
<1>1. queue[s] \in Seq(Item) /\ \A z \in Streams : queue[z] \in Seq(Item)
  BY DEF TypeOK
<1>2. queue'[s] = queue[s] \o items /\ \A z \in Streams \ {s} : queue'[z] = queue[z]
  BY DEF Enqueue, TypeOK
<1>3. queue' \in [Streams -> Seq(Item)]
  BY <1>1 DEF Enqueue, TypeOK
<1>4. /\ Len(queue[s] \o items) = Len(queue[s]) + Len(items)
      /\ \A k \in 1..Len(queue[s]) : (queue[s] \o items)[k] = queue[s][k]
      /\ \A k \in 1..Len(items) : (queue[s] \o items)[Len(queue[s]) + k] = items[k]
  BY <1>1
<1>5. ASSUME NEW z \in Streams
      PROVE  /\ queue'[z] \in Seq(Item)
             /\ Len(queue[z]) <= Len(queue'[z])
             /\ \A k \in 1..Len(queue[z]) : queue'[z][k] = queue[z][k]
  <2>1. Len(queue[z]) \in Nat /\ Len(items) \in Nat /\ queue'[z] \in Seq(Item)
    BY <1>1, <1>3
  <2> QED BY <2>1, <1>2, <1>4
<1>6. Grows
  BY <1>5 DEF Grows
<1> QED
  BY <1>2, <1>3, <1>4, <1>6

LEMMA PrepareGrows ==
  ASSUME TypeOK, NEW o \in Ops, NEW x \in Storages, Prepare(o, x)
  PROVE  /\ Grows /\ queue' \in [Streams -> Seq(Item)]
         /\ \A e \in EventsBefore(o, x) :
              \E k \in 1..Len(queue'[StreamOf[o]]) : queue'[StreamOf[o]][k] = e
<1> DEFINE E == EventsBefore(o, x)
           s == StreamOf[o]
           items == SetToSeq(E)
<1>1. items \in Seq(Item) /\ \A e \in E : \E k \in 1..Len(items) : items[k] = e
  <2>1. items \in Seq(E) /\ E \subseteq Item
    BY EventsAreItems, SequenceOfSet
  <2>2. items \in Seq(Item)
    BY <2>1
  <2> QED BY <2>2, EventsAreItems, SequenceOfSet
<1>2. s \in Streams /\ Enqueue(s, items)
  BY DEF Prepare
<1> HIDE DEF items, E
<1>3. /\ Grows /\ queue' \in [Streams -> Seq(Item)]
      /\ Len(queue'[s]) = Len(queue[s]) + Len(items)
      /\ \A k \in 1..Len(items) : queue'[s][Len(queue[s]) + k] = items[k]
  BY <1>1, <1>2, AppendGrows
<1>4. ASSUME NEW e \in E PROVE \E k \in 1..Len(queue'[s]) : queue'[s][k] = e
  <2>1. PICK k \in 1..Len(items) : items[k] = e
    BY <1>1
  <2>2. Len(queue[s]) \in Nat /\ Len(items) \in Nat
    BY <1>1, <1>2 DEF TypeOK
  <2>3. Len(queue[s]) + k \in 1..Len(queue'[s])
    BY <1>3, <2>2
  <2> QED BY <1>3, <2>1, <2>3
<1> QED
  BY <1>3, <1>4 DEF E

LEMMA SubmitGrows ==
  ASSUME TypeOK, NEW o \in Ops, Submit(o)
  PROVE  /\ Grows /\ queue' \in [Streams -> Seq(Item)]
         /\ at' = [at EXCEPT ![o] = Len(queue[StreamOf[o]]) + 1]
         /\ at'[o] = Len(queue'[StreamOf[o]])
         /\ log' = Append(log, o)
<1> DEFINE items == <<Work(o)>>
<1>1. items \in Seq(Item) /\ Len(items) = 1
  BY DEF Work, Item
<1>2. StreamOf[o] \in Streams /\ Enqueue(StreamOf[o], items)
  BY DEF Submit
<1> HIDE DEF items
<1>3. /\ Grows /\ queue' \in [Streams -> Seq(Item)]
      /\ Len(queue'[StreamOf[o]]) = Len(queue[StreamOf[o]]) + Len(items)
  BY <1>1, <1>2, AppendGrows
<1> QED
  BY <1>1, <1>3 DEF Submit, TypeOK

LEMMA OpGrows ==
  ASSUME TypeOK, NEW o \in Ops, OpStep(o)
  PROVE  Grows /\ queue' \in [Streams -> Seq(Item)]
<1>1. UNCHANGED queue => Grows /\ queue' \in [Streams -> Seq(Item)]
  BY DEF Grows, TypeOK
<1> QED
  BY <1>1, OpDevice, PrepareGrows, SubmitGrows

LEMMA StorageTypes ==
  ASSUME TypeOK, NEW x \in Storages, StorageStep(x)
  PROVE  TypeOK'
<1>1. UNCHANGED <<opVars, eventVars, deviceVars, faults>>
  BY StorageFrame
<1>2. stage' \in [Storages -> {"none", "owned", "reclaiming", "freed", "released"}]
      /\ handle' \in [Storages -> BOOLEAN]
  BY DEF TypeOK, StorageStep, Allocate, Import, DropHandle, Reclaim, Free, Released
<1> QED
  BY <1>1, <1>2 DEF TypeOK

\* The ends of streams are numbers.
LEMMA PrefixType ==
  ASSUME TypeOK, NEW o \in Ops
  PROVE  /\ StreamPrefix(o) \in [Streams -> Nat] /\ ContextPrefix \in [Streams -> Nat]
         /\ \A s \in Streams : StreamPrefix(o)[s] <= Len(queue[s]) /\ ContextPrefix[s] <= Len(queue[s])
         /\ StreamPrefix(o)[StreamOf[o]] = Len(queue[StreamOf[o]])
<1>1. \A s \in Streams : Len(queue[s]) \in Nat
  BY DEF TypeOK
<1> QED
  BY <1>1 DEF StreamPrefix, ContextPrefix, NoFence

LEMMA OpTypes ==
  ASSUME TypeOK, Owners, NEW o \in Ops, OpStep(o)
  PROVE  TypeOK'
<1> DEFINE Opened == {"none", "admitted", "preparing", "enqueued", "aborting", "quarantined",
                      "retiring", "closed"}
<1>1. UNCHANGED <<stage, handle, done>>
  BY OpFrame
<1>2. queue' \in [Streams -> Seq(Item)]
      /\ \A s \in Streams : Len(queue[s]) \in Nat /\ Len(queue'[s]) \in Nat
                            /\ Len(queue[s]) <= Len(queue'[s])
  BY OpGrows DEF Grows, TypeOK
<1>3. phase' \in [Ops -> Opened]
  BY DEF TypeOK, OpStep, Admit, CancelAdmitted, BeginEnqueue, Prepare, PrepareFails, Submit,
         OperationFails, Finish, Abort, CancelSynchronized, SynchronizeFails, Retire, CancelRetired,
         Step, Quarantine
<1>4. retained' \in [Ops -> SUBSET Storages]
  <2>1. Retains(o) \subseteq Storages
    BY DEF Retains, Overlapping, Registered
  <2> QED
    BY <2>1 DEF TypeOK, OpStep, Admit, CancelAdmitted, BeginEnqueue, Prepare, PrepareFails, Submit,
         OperationFails, Finish, Abort, CancelSynchronized, SynchronizeFails, Retire, CancelRetired,
         Forget, Quarantine
<1>5. left' \in [Ops -> SUBSET Storages]
  <2>1. \/ UNCHANGED left
        \/ left' = [left EXCEPT ![o] = retained[o]]
        \/ left' = [left EXCEPT ![o] = {}]
        \/ \E x \in Storages : left' = [left EXCEPT ![o] = @ \ {x}]
    BY DEF OpStep, Admit, CancelAdmitted, BeginEnqueue, Prepare, PrepareFails, Submit,
         OperationFails, Finish, Abort, CancelSynchronized, SynchronizeFails, Retire, CancelRetired
  <2>2. left \in [Ops -> SUBSET Storages] /\ retained[o] \in SUBSET Storages
        /\ \A x : left[o] \ {x} \in SUBSET Storages
    BY DEF TypeOK
  <2> QED BY <2>1, <2>2
<1>6. /\ fence' \in [Ops -> [Streams -> Nat]]
      /\ \A p \in Ops, s \in Streams : fence'[p][s] <= Len(queue[s])
  <2>1. \/ UNCHANGED fence
        \/ fence' = [fence EXCEPT ![o] = StreamPrefix(o)]
        \/ fence' = [fence EXCEPT ![o] = ContextPrefix]
    BY DEF OpStep, Admit, CancelAdmitted, BeginEnqueue, Prepare, PrepareFails, Submit,
         OperationFails, Finish, Abort, CancelSynchronized, SynchronizeFails, Retire, CancelRetired
  <2>2. ASSUME NEW f \in [Streams -> Nat], \A s \in Streams : f[s] <= Len(queue[s]),
               fence' = [fence EXCEPT ![o] = f]
        PROVE  /\ fence' \in [Ops -> [Streams -> Nat]]
               /\ \A p \in Ops, s \in Streams : fence'[p][s] <= Len(queue[s])
    BY <2>2 DEF TypeOK
  <2>3. CASE UNCHANGED fence
    BY <2>3 DEF TypeOK
  <2> QED BY <2>1, <2>2, <2>3, PrefixType
<1>7. /\ writes' \in [Storages -> [Streams -> Nat]] /\ reads' \in [Storages -> [Streams -> Nat]]
      /\ \A x \in Storages, s \in Streams : writes'[x][s] <= Len(queue[s])
                                            /\ reads'[x][s] <= Len(queue[s])
  <2>1. UNCHANGED <<writes, reads>> \/ Finish(o)
    BY DEF OpStep, Admit, CancelAdmitted, BeginEnqueue, Prepare, PrepareFails, Submit,
         OperationFails, Abort, CancelSynchronized, SynchronizeFails, Retire, CancelRetired
  <2>2. CASE Finish(o)
    BY <2>2, <1>2 DEF Finish, Published, TypeOK
  <2> QED BY <2>1, <2>2 DEF TypeOK
<1>8. at' \in [Ops -> Nat] /\ log' \in Seq(Ops)
  <2>1. CASE UNCHANGED <<at, log>>
    BY <2>1 DEF TypeOK
  <2>2. CASE Submit(o)
    BY <2>2, <1>2 DEF Submit, TypeOK
  <2> QED BY <2>1, <2>2, OpDevice DEF Prepare
<1>9. faults' \in 0..MaxFaults
  <2>1. UNCHANGED faults \/ Fault
    BY DEF OpStep, Admit, CancelAdmitted, BeginEnqueue, Prepare, PrepareFails, Submit,
         OperationFails, Finish, Abort, CancelSynchronized, SynchronizeFails, Retire, CancelRetired
  <2> QED BY <2>1 DEF Fault, TypeOK
<1>10. \A s \in Streams : done'[s] <= Len(queue'[s])
  BY <1>1, <1>2 DEF TypeOK
<1>11. \A p \in Ops, s \in Streams : fence'[p][s] <= Len(queue'[s])
  <2>1. SUFFICES ASSUME NEW p \in Ops, NEW s \in Streams
                 PROVE  fence'[p][s] <= Len(queue'[s])
    OBVIOUS
  <2>2. fence'[p][s] \in Nat /\ fence'[p][s] <= Len(queue[s])
    BY <1>6
  <2>3. Len(queue[s]) \in Nat /\ Len(queue'[s]) \in Nat /\ Len(queue[s]) <= Len(queue'[s])
    BY <1>2
  <2> QED BY <2>2, <2>3
<1>12. \A x \in Storages, s \in Streams :
         writes'[x][s] <= Len(queue'[s]) /\ reads'[x][s] <= Len(queue'[s])
  <2>1. SUFFICES ASSUME NEW x \in Storages, NEW s \in Streams
                 PROVE  writes'[x][s] <= Len(queue'[s]) /\ reads'[x][s] <= Len(queue'[s])
    OBVIOUS
  <2>2. /\ writes'[x][s] \in Nat /\ writes'[x][s] <= Len(queue[s])
        /\ reads'[x][s] \in Nat /\ reads'[x][s] <= Len(queue[s])
    BY <1>7
  <2>3. Len(queue[s]) \in Nat /\ Len(queue'[s]) \in Nat /\ Len(queue[s]) <= Len(queue'[s])
    BY <1>2
  <2> QED BY <2>2, <2>3
<1>13. stage' \in [Storages -> {"none", "owned", "reclaiming", "freed", "released"}]
       /\ handle' \in [Storages -> BOOLEAN] /\ done' \in [Streams -> Nat]
  BY <1>1 DEF TypeOK
<1> QED
  BY <1>2, <1>3, <1>4, <1>5, <1>6, <1>7, <1>8, <1>9, <1>10, <1>11, <1>12, <1>13 DEF TypeOK

LEMMA ExecuteTypes ==
  ASSUME TypeOK, NEW s \in Streams, Execute(s)
  PROVE  TypeOK'
<1>1. UNCHANGED <<storageVars, opVars, eventVars, queue, at, log, faults>>
  BY DEF Execute
<1>2. Len(queue[s]) \in Nat /\ done[s] \in Nat /\ done[s] < Len(queue[s])
  BY DEF Execute, Ready, Pending, TypeOK
<1>3. done' \in [Streams -> Nat] /\ \A z \in Streams : done'[z] <= Len(queue[z])
  BY <1>2 DEF Execute, TypeOK
<1> QED
  BY <1>1, <1>3 DEF TypeOK

-----------------------------------------------------------------------------
(* Owners.                                                                 *)

LEMMA InitHolds == Init => IInv
<1> SUFFICES ASSUME Init PROVE IInv
  OBVIOUS
<1>1. TypeOK
  BY DEF Init, TypeOK, NoFence
<1>2. Open = {} /\ Submitted = {} /\ Ran = {}
  BY DEF Init, Open, Submitted, Ran
<1>3. Owners /\ Apart
  BY <1>2 DEF Init, Owners, Apart
<1>4. Placed /\ Logged /\ WaitsOver
  <2>1. Len(log) = 0 /\ \A s \in Streams : Len(queue[s]) = 0
    BY DEF Init
  <2> QED BY <2>1 DEF Init, Placed, Logged, WaitsOver
<1>5. Waits /\ Foreseen
  BY <1>2 DEF Init, Waits, Foreseen
<1>6. NothingUntracked /\ FreedAfterUse
  BY <1>2 DEF Init, NothingUntracked, FreedAfterUse
<1> QED
  BY <1>1, <1>3, <1>4, <1>5, <1>6 DEF IInv

LEMMA StorageOwners ==
  ASSUME TypeOK, Owners, NEW x \in Storages, StorageStep(x)
  PROVE  Owners'
<1>1. UNCHANGED <<phase, retained, left>> /\ Open' = Open
  BY StorageFrame DEF Open
<1> USE <1>1 DEF TypeOK, Owners
<1>2. CASE Allocate(x)
  BY <1>2 DEF Allocate
<1>3. CASE Import(x)
  BY <1>3 DEF Import
<1>4. CASE DropHandle(x)
  BY <1>4 DEF DropHandle
<1>5. CASE Reclaim(x)
  BY <1>5 DEF Reclaim, Held
<1>6. CASE Free(x)
  BY <1>6 DEF Free, Held
<1>7. CASE Released(x)
  BY <1>7 DEF Released
<1> QED
  BY <1>2, <1>3, <1>4, <1>5, <1>6, <1>7 DEF StorageStep

\* An operation that stays open keeps its owners.
LEMMA OpKeepsOwners ==
  ASSUME TypeOK, NEW o \in Ops, OpStep(o), ~ Admit(o)
  PROVE  /\ Open' = Open \/ Open' = Open \ {o}
         /\ o \in Open /\ phase[o] # "none" /\ phase'[o] # "none"
         /\ \A p \in Ops \ {o} : phase'[p] = phase[p] /\ retained'[p] = retained[p] /\ left'[p] = left[p]
         /\ o \in Open' => retained'[o] = retained[o]
         /\ o \notin Open' => retained'[o] = {}
BY DEF TypeOK, Open, OpStep, CancelAdmitted, BeginEnqueue, Prepare, PrepareFails, Submit,
       OperationFails, Finish, Abort, CancelSynchronized, SynchronizeFails, Retire, CancelRetired,
       Step, Forget, Quarantine

LEMMA AdmitKeepsOwners ==
  ASSUME TypeOK, Owners, NEW o \in Ops, Admit(o)
  PROVE  /\ Open' = Open \cup {o} /\ o \notin Open
         /\ retained' = [retained EXCEPT ![o] = Retains(o)]
         /\ phase' = [phase EXCEPT ![o] = "admitted"]
         /\ Retains(o) \subseteq Storages
         /\ \A x \in Retains(o) : stage[x] = "owned"
<1>1. \A x \in Overlapping(o) : stage[x] = "owned"
  BY DEF Admit, Admissible, Upgrades
<1>2. \A x \in SourcesOf[o] : stage[x] = "owned"
  BY DEF Admit, Owners
<1>3. Retains(o) \subseteq Storages
  BY DEF Retains, Overlapping, Registered
<1>4. Open' = Open \cup {o} /\ o \notin Open
  BY DEF Admit, Step, TypeOK, Open
<1> QED
  BY <1>1, <1>2, <1>3, <1>4 DEF Admit, Step, Retains

LEMMA OpOwners ==
  ASSUME TypeOK, Owners, Placed, NEW o \in Ops, OpStep(o)
  PROVE  Owners'
<1>1. UNCHANGED <<stage, handle>>
  BY OpFrame
<1>2. CASE Admit(o)
  <2>1. left' = left /\ left[o] = {}
    BY <1>2 DEF Admit, Step, Owners
  <2>2. \A x \in SourcesOf[o] : stage[x] = "owned" /\ x \in Retains(o)
    BY <1>2 DEF Admit, Owners, Retains
  <2>3. retained' = [retained EXCEPT ![o] = Retains(o)] /\ phase' = [phase EXCEPT ![o] = "admitted"]
        /\ Open' = Open \cup {o} /\ o \notin Open /\ \A x \in Retains(o) : stage[x] = "owned"
    BY <1>2, AdmitKeepsOwners
  <2>4. /\ phase'[o] = "admitted" /\ retained'[o] = Retains(o) /\ phase[o] # "preparing"
        /\ \A p \in Ops \ {o} : phase'[p] = phase[p] /\ retained'[p] = retained[p]
    BY <1>2, <2>3 DEF TypeOK, Admit, Step
  <2>5. \A p \in Ops : left'[p] \subseteq (IF phase'[p] = "preparing" THEN retained'[p] ELSE {})
    BY <2>1, <2>4 DEF Owners
  <2>6. \A p \in Open' : SourcesOf[p] \subseteq retained'[p]
    BY <2>2, <2>3, <2>4 DEF Owners, Open
  <2>7. \A p \in Ops \ Open' : retained'[p] = {}
    BY <2>3, <2>4 DEF Owners
  <2>8. \A p \in Ops : \A x \in retained'[p] : stage[x] = "owned"
    BY <2>3, <2>4 DEF Owners
  <2>9. \A p \in Ops : phase'[p] # "none" => \A x \in SourcesOf[p] : stage[x] # "none"
    BY <2>2, <2>4 DEF Owners
  <2> QED BY <1>1, <2>5, <2>6, <2>7, <2>8, <2>9 DEF Owners
<1>3. CASE ~ Admit(o)
  <2>1. left'[o] \subseteq (IF phase'[o] = "preparing" THEN retained'[o] ELSE {})
    <3>1. CASE BeginEnqueue(o) \/ \E x \in Storages : Prepare(o, x)
      BY <3>1 DEF BeginEnqueue, Prepare, Step, TypeOK, Owners
    <3>2. CASE PrepareFails(o) \/ Submit(o) \/ OperationFails(o)
      BY <3>2 DEF PrepareFails, Submit, OperationFails, Step, TypeOK
    <3>3. CASE CancelAdmitted(o) \/ Finish(o) \/ Abort(o) \/ CancelSynchronized(o)
               \/ SynchronizeFails(o) \/ Retire(o) \/ CancelRetired(o)
      <4>1. left' = left /\ phase[o] # "preparing" /\ phase'[o] # "preparing"
        BY <3>3 DEF CancelAdmitted, Finish, Abort, CancelSynchronized, SynchronizeFails, Retire,
             CancelRetired, Step, Quarantine, TypeOK
      <4> QED BY <4>1 DEF Owners
    <3> QED BY <1>3, <3>1, <3>2, <3>3 DEF OpStep
  <2>2. /\ Open' = Open \/ Open' = Open \ {o}
        /\ o \in Open /\ phase[o] # "none" /\ phase'[o] # "none"
        /\ \A p \in Ops \ {o} : phase'[p] = phase[p] /\ retained'[p] = retained[p] /\ left'[p] = left[p]
        /\ o \in Open' => retained'[o] = retained[o]
        /\ o \notin Open' => retained'[o] = {}
    BY <1>3, OpKeepsOwners
  <2>3. \A p \in Ops : left'[p] \subseteq (IF phase'[p] = "preparing" THEN retained'[p] ELSE {})
    BY <2>1, <2>2 DEF Owners
  <2>4. \A p \in Ops : retained'[p] = retained[p] \/ retained'[p] = {}
    BY <2>2
  <2>5. \A p \in Open' : SourcesOf[p] \subseteq retained'[p]
    <3>1. SUFFICES ASSUME NEW p \in Open' PROVE SourcesOf[p] \subseteq retained'[p]
      OBVIOUS
    <3>2. p \in Open /\ p \in Ops
      BY <2>2 DEF Open
    <3>3. retained'[p] = retained[p]
      BY <2>2, <3>2
    <3> QED BY <3>2, <3>3 DEF Owners
  <2>6. \A p \in Ops \ Open' : retained'[p] = {}
    BY <2>2 DEF Owners
  <2>7. \A p \in Ops : phase'[p] # "none" => phase[p] # "none"
    BY <2>2
  <2> QED BY <1>1, <2>3, <2>4, <2>5, <2>6, <2>7 DEF Owners
<1> QED
  BY <1>2, <1>3

-----------------------------------------------------------------------------
(* What the registry keeps apart.                                          *)

\* The bytes an open operation touches belong to owners the registry knows.
LEMMA TouchesOwned ==
  ASSUME Owners, NEW o \in Open, NEW b \in Touches(o)
  PROVE  \E y \in SourcesOf[o] : y \in retained[o] /\ stage[y] = "owned" /\ b \in BytesOf[y]
<1>1. o \in Ops
  BY DEF Open
<1>2. PICK y \in SourcesOf[o] : b \in BytesOf[y]
  BY <1>1
<1> QED
  BY <1>1, <1>2 DEF Owners

LEMMA StorageApart ==
  ASSUME TypeOK, Owners, Apart, NEW x \in Storages, StorageStep(x)
  PROVE  Apart'
<1>1. UNCHANGED retained /\ Open' = Open
  BY StorageFrame DEF Open
<1> USE <1>1 DEF TypeOK, Apart
<1>2. CASE Allocate(x)
  <2>1. \A o \in Open : BytesOf[x] \cap Touches(o) = {}
    <3>1. SUFFICES ASSUME NEW o \in Open, NEW b \in BytesOf[x] \cap Touches(o) PROVE FALSE
      OBVIOUS
    <3>2. PICK y \in SourcesOf[o] : stage[y] = "owned" /\ b \in BytesOf[y]
      BY TouchesOwned
    <3>3. y \in Registered
      BY <3>2 DEF Registered, Open
    <3> QED BY <1>2, <3>2, <3>3 DEF Allocate, Overlap
  <2> QED BY <1>2, <2>1 DEF Allocate
<1>3. CASE Import(x) \/ DropHandle(x)
  BY <1>3 DEF Import, DropHandle
<1>4. CASE Reclaim(x)
  BY <1>4 DEF Reclaim
<1>5. CASE Free(x) \/ Released(x)
  <2>1. \A y \in Storages : stage'[y] = IF y = x THEN stage'[x] ELSE stage[y]
    BY <1>5 DEF Free, Released
  <2>2. x \in Native => stage[x] \in {"reclaiming", "freed"}
    BY <1>5 DEF Free, Released
  <2>3. stage'[x] # "owned"
    BY <1>5 DEF Free, Released
  <2>4. x \in Native => \A o \in Open : BytesOf[x] \cap Touches(o) = {}
    BY <2>2
  <2> QED BY <2>1, <2>3, <2>4
<1> QED
  BY <1>2, <1>3, <1>4, <1>5 DEF StorageStep

LEMMA OpApart ==
  ASSUME TypeOK, Owners, Apart, NEW o \in Ops, OpStep(o)
  PROVE  Apart'
<1>1. UNCHANGED stage
  BY OpFrame
<1>2. CASE Admit(o)
  <2>1. /\ Open' = Open \cup {o} /\ o \notin Open
        /\ retained' = [retained EXCEPT ![o] = Retains(o)]
    BY <1>2, AdmitKeepsOwners
  <2>2. \A p \in Open : ~ Conflict(o, p) /\ ~ Conflict(p, o)
    BY <1>2 DEF Admit, Admissible, Conflict
  <2>3. \A x \in Native : BytesOf[x] \cap Touches(o) # {} =>
          /\ stage[x] \notin {"reclaiming", "freed"}
          /\ stage[x] = "owned" => x \in Retains(o)
    BY <1>2 DEF Admit, Admissible, Retains, Overlapping, Registered
  <2>4. retained'[o] = Retains(o) /\ \A p \in Open : p # o /\ retained'[p] = retained[p]
    BY <2>1 DEF TypeOK, Open
  <2>5. \A p, q \in Open' : p # q => ~ Conflict(p, q)
    BY <2>1, <2>2 DEF Apart
  <2>6. \A x \in Native, p \in Open' : BytesOf[x] \cap Touches(p) # {} =>
          /\ stage[x] \notin {"reclaiming", "freed"}
          /\ stage[x] = "owned" => x \in retained'[p]
    BY <2>1, <2>3, <2>4 DEF Apart
  <2> QED BY <1>1, <2>5, <2>6 DEF Apart
<1>3. CASE ~ Admit(o)
  <2>1. Open' \subseteq Open /\ \A p \in Open' : retained'[p] = retained[p]
    BY <1>3, OpKeepsOwners DEF Open
  <2> QED BY <1>1, <2>1 DEF Apart
<1> QED
  BY <1>2, <1>3

-----------------------------------------------------------------------------
(* Where work stands, and in which order.                                  *)

\* A step of a storage changes nothing of an operation or of the device.
LEMMA StorageKeepsDevice ==
  ASSUME Placed, Logged, WaitsOver, Waits, Foreseen, NothingUntracked,
         NEW x \in Storages, StorageStep(x)
  PROVE  (Placed /\ Logged /\ WaitsOver /\ Waits /\ Foreseen /\ NothingUntracked)'
<1>1. UNCHANGED <<opVars, eventVars, deviceVars>>
  BY StorageFrame
<1> USE <1>1
<1>2. Open' = Open /\ Submitted' = Submitted /\ Ran' = Ran
  BY DEF Open, Submitted, Ran
<1>3. Placed' /\ Logged' /\ WaitsOver'
  BY DEF Placed, Logged, WaitsOver
<1>4. Waits'
  BY <1>2 DEF Waits, Awaited
<1>5. Foreseen'
  BY <1>2 DEF Foreseen, Awaited, Told, Unread
<1>6. NothingUntracked'
  BY <1>2 DEF NothingUntracked
<1> QED
  BY <1>3, <1>4, <1>5, <1>6

\* A step of one operation leaves the transactions of the others alone.
LEMMA OpOthers ==
  ASSUME TypeOK, NEW o \in Ops, OpStep(o), NEW p \in Ops \ {o}
  PROVE  /\ phase'[p] = phase[p] /\ retained'[p] = retained[p]
         /\ left'[p] = left[p] /\ fence'[p] = fence[p] /\ at'[p] = at[p]
BY DEF TypeOK, OpStep, Admit, CancelAdmitted, BeginEnqueue, Prepare, PrepareFails, Submit,
       OperationFails, Finish, Abort, CancelSynchronized, SynchronizeFails, Retire, CancelRetired,
       Step, Forget, Quarantine

LEMMA OpPlaced ==
  ASSUME TypeOK, Placed, NEW o \in Ops, OpStep(o)
  PROVE  Placed'
<1>1. \A s \in Streams : Len(queue[s]) \in Nat /\ Len(queue'[s]) \in Nat
                         /\ Len(queue[s]) <= Len(queue'[s])
  BY OpGrows DEF Grows, TypeOK
<1>2. \A p \in Ops : at[p] \in Nat /\ StreamOf[p] \in Streams
  BY DEF TypeOK
<1> DEFINE Stands(p) ==
             /\ at'[p] <= Len(queue'[StreamOf[p]])
             /\ phase'[p] \in {"none", "admitted", "preparing"} => at'[p] = 0
             /\ phase'[p] = "enqueued" => at'[p] > 0
             /\ phase'[p] \in {"aborting", "retiring"} => at'[p] <= fence'[p][StreamOf[p]]
<1>3. ASSUME NEW p \in Ops \ {o} PROVE Stands(p)
  <2>1. phase'[p] = phase[p] /\ fence'[p] = fence[p] /\ at'[p] = at[p]
    BY OpOthers
  <2> QED BY <1>1, <1>2, <2>1 DEF Placed
<1>4. CASE Submit(o)
  <2>1. at'[o] = Len(queue[StreamOf[o]]) + 1 /\ phase'[o] = "enqueued"
    BY <1>4 DEF Submit, Step, TypeOK
  <2>2. at'[o] = Len(queue'[StreamOf[o]])
    BY <1>4, SubmitGrows
  <2> QED BY <1>1, <1>2, <1>3, <2>1, <2>2 DEF Placed
<1>5. CASE at' = at
  <2>1. at[o] <= Len(queue[StreamOf[o]]) /\ at'[o] <= Len(queue'[StreamOf[o]])
    BY <1>1, <1>2, <1>5 DEF Placed
  <2>2. phase'[o] \in {"none", "admitted", "preparing"} => at'[o] = 0
    BY <1>5 DEF Placed, TypeOK, OpStep, Admit, CancelAdmitted, BeginEnqueue, Prepare, PrepareFails,
         Submit, OperationFails, Finish, Abort, CancelSynchronized, SynchronizeFails, Retire,
         CancelRetired, Step, Quarantine
  <2>3. CASE Submit(o)
    BY <1>4, <2>3
  <2>4. CASE ~ Submit(o)
    <3>1. phase'[o] # "enqueued"
      BY <2>4 DEF TypeOK, OpStep, Admit, CancelAdmitted, BeginEnqueue, Prepare, PrepareFails,
         OperationFails, Finish, Abort, CancelSynchronized, SynchronizeFails, Retire,
         CancelRetired, Step, Quarantine
    <3>2. phase'[o] \in {"aborting", "retiring"} =>
            fence'[o] = StreamPrefix(o) \/ fence'[o] = ContextPrefix
      BY <2>4 DEF TypeOK, OpStep, Admit, CancelAdmitted, BeginEnqueue, Prepare, PrepareFails,
         OperationFails, Finish, Abort, CancelSynchronized, SynchronizeFails, Retire,
         CancelRetired, Step, Quarantine
    <3>3. StreamPrefix(o)[StreamOf[o]] = Len(queue[StreamOf[o]])
          /\ ContextPrefix[StreamOf[o]] = Len(queue[StreamOf[o]])
      BY PrefixType DEF ContextPrefix
    <3>4. Stands(o)
      BY <1>5, <2>1, <2>2, <3>1, <3>2, <3>3
    <3> QED BY <1>3, <3>4 DEF Placed
  <2> QED BY <2>3, <2>4
<1> QED
  BY <1>4, <1>5, OpDevice DEF Prepare

LEMMA OpLogged ==
  ASSUME TypeOK, Placed, Logged, NEW o \in Ops, OpStep(o)
  PROVE  Logged'
<1>1. CASE UNCHANGED <<at, log>>
  BY <1>1 DEF Logged
<1>2. CASE Submit(o)
  <2>1. log \in Seq(Ops) /\ Len(log) \in Nat /\ log' = Append(log, o)
    BY <1>2 DEF Submit, TypeOK
  <2>2. /\ Len(log') = Len(log) + 1 /\ log'[Len(log) + 1] = o
        /\ \A i \in 1..Len(log) : log'[i] = log[i] /\ log[i] \in Ops
    BY <2>1
  <2>3. \A i \in 1..Len(log') : i \in 1..Len(log) \/ i = Len(log) + 1
    BY <2>1, <2>2
  <2>4. at[o] = 0 /\ at'[o] = Len(queue[StreamOf[o]]) + 1
        /\ \A p \in Ops \ {o} : at'[p] = at[p]
    BY <1>2 DEF Submit, Step, Placed, TypeOK
  <2>5. \A i \in 1..Len(log) : log[i] # o /\ at'[log[i]] = at[log[i]]
    BY <2>2, <2>4 DEF Logged
  <2>6. \A p \in Ops : at[p] \in Nat /\ Len(queue[StreamOf[p]]) \in Nat
                       /\ at[p] <= Len(queue[StreamOf[p]])
    BY DEF TypeOK, Placed
  <2>7. ASSUME NEW p \in Ops
        PROVE  at'[p] > 0 <=> \E i \in 1..Len(log') : log'[i] = p
    <3>1. CASE p = o
      BY <3>1, <2>1, <2>2, <2>4, <2>6
    <3>2. CASE p # o
      <4>1. at'[p] > 0 <=> \E i \in 1..Len(log) : log[i] = p
        BY <3>2, <2>4 DEF Logged
      <4>2. \A i \in 1..Len(log) : i \in 1..Len(log')
        BY <2>1, <2>2
      <4> QED BY <3>2, <4>1, <4>2, <2>2, <2>3
    <3> QED BY <3>1, <3>2
  <2>8. ASSUME NEW i \in 1..Len(log'), NEW j \in 1..Len(log'), i < j
        PROVE  /\ log'[i] # log'[j]
               /\ StreamOf[log'[i]] = StreamOf[log'[j]] => at'[log'[i]] < at'[log'[j]]
    <3>1. i \in 1..Len(log)
      BY <2>8, <2>1, <2>2
    <3>2. CASE j \in 1..Len(log)
      BY <2>8, <3>1, <3>2, <2>2, <2>5 DEF Logged
    <3>3. CASE j = Len(log) + 1
      <4>1. log'[j] = o /\ log'[i] = log[i] /\ log[i] \in Ops /\ log[i] # o
            /\ at'[log[i]] = at[log[i]]
        BY <3>1, <3>3, <2>2, <2>5
      <4> QED BY <4>1, <2>4, <2>6
    <3> QED BY <2>3, <3>2, <3>3
  <2> QED BY <2>7, <2>8 DEF Logged
<1> QED
  BY <1>1, <1>2, OpDevice DEF Prepare

LEMMA OpWaitsOver ==
  ASSUME TypeOK, WaitsOver, NEW o \in Ops, OpStep(o)
  PROVE  WaitsOver'
<1>1. done' = done
  BY OpFrame
<1>2. SUFFICES ASSUME NEW s \in Streams, NEW k \in 1..done[s]
               PROVE  queue'[s][k].on # None => queue'[s][k].upto <= done[queue'[s][k].on]
  BY <1>1 DEF WaitsOver
<1>3. k \in 1..Len(queue[s])
  BY DEF TypeOK
<1>4. queue'[s][k] = queue[s][k]
  BY <1>3, OpGrows DEF Grows
<1> QED
  BY <1>4 DEF WaitsOver

\* The device goes forward on one stream, by one item.
LEMMA ExecuteForward ==
  ASSUME TypeOK, NEW s \in Streams, Execute(s)
  PROVE  /\ done'[s] = done[s] + 1 /\ \A z \in Streams \ {s} : done'[z] = done[z]
         /\ \A z \in Streams : done[z] \in Nat /\ done'[z] \in Nat /\ done[z] <= done'[z]
         /\ UNCHANGED <<storageVars, opVars, eventVars, queue, at, log>>
         /\ Ran \subseteq Ran'
<1>1. /\ done'[s] = done[s] + 1 /\ \A z \in Streams \ {s} : done'[z] = done[z]
      /\ UNCHANGED <<storageVars, opVars, eventVars, queue, at, log>>
  BY DEF Execute, TypeOK
<1>2. \A z \in Streams : done[z] \in Nat
  BY DEF TypeOK
<1>3. \A z \in Streams : done[z] \in Nat /\ done'[z] \in Nat /\ done[z] <= done'[z]
  <2>1. SUFFICES ASSUME NEW z \in Streams
                 PROVE  done[z] \in Nat /\ done'[z] \in Nat /\ done[z] <= done'[z]
    OBVIOUS
  <2>2. done'[z] = done[z] \/ done'[z] = done[z] + 1
    BY <1>1
  <2> QED BY <1>2, <2>2
<1>4. Ran \subseteq Ran'
  <2>1. SUFFICES ASSUME NEW p \in Ran PROVE p \in Ran'
    OBVIOUS
  <2>2. p \in Ops /\ at[p] \in Nat /\ StreamOf[p] \in Streams /\ at[p] > 0
        /\ at[p] <= done[StreamOf[p]] /\ at'[p] = at[p]
    BY <1>1 DEF Ran, Submitted, TypeOK
  <2> QED BY <1>3, <2>2 DEF Ran, Submitted
<1> QED
  BY <1>1, <1>3, <1>4

LEMMA ExecuteWaitsOver ==
  ASSUME TypeOK, WaitsOver, NEW s \in Streams, Execute(s)
  PROVE  WaitsOver'
<1>1. SUFFICES ASSUME NEW z \in Streams, NEW k \in 1..done'[z], queue[z][k].on # None
               PROVE  queue[z][k].upto <= done'[queue[z][k].on]
  BY ExecuteForward DEF WaitsOver
<1>2. k \in 1..Len(queue[z]) /\ queue[z] \in Seq(Item)
  <2>1. queue[z] \in Seq(Item) /\ done'[z] \in Nat /\ queue'[z] = queue[z]
    BY ExecuteForward DEF TypeOK
  <2>2. TypeOK'
    BY ExecuteTypes
  <2>3. done'[z] <= Len(queue'[z])
    BY <2>2 DEF TypeOK
  <2> QED BY <2>1, <2>3
<1>3. queue[z][k].on \in Streams /\ queue[z][k].upto \in Nat
  <2>1. queue[z][k] \in Item
    BY <1>2
  <2> QED BY <1>1, <2>1 DEF Item
<1>4. queue[z][k].upto <= done[queue[z][k].on]
  <2>1. CASE k \in 1..done[z]
    BY <1>1, <2>1 DEF WaitsOver
  <2>2. CASE k \notin 1..done[z]
    <3>1. z = s /\ k = done[s] + 1
      BY <2>2, ExecuteForward
    <3> QED BY <1>1, <3>1 DEF Execute, Ready, NextItem
  <2> QED BY <2>1, <2>2
<1> QED
  BY <1>3, <1>4, ExecuteForward

-----------------------------------------------------------------------------
(* Work in flight is tracked, and a storage outlives it.                   *)

\* A history forgets no reader but for a later writer, and no writer.
LEMMA HistoryGrows ==
  ASSUME TypeOK, NEW o \in Ops, OpStep(o), NEW x \in Storages, NEW s \in Streams
  PROVE  /\ writes[x][s] <= writes'[x][s]
         /\ reads[x][s] <= reads'[x][s] \/ reads[x][s] <= writes'[x][s]
         /\ writes[x][s] \in Nat /\ reads[x][s] \in Nat
         /\ writes'[x][s] \in Nat /\ reads'[x][s] \in Nat
<1>1. /\ writes[x][s] \in Nat /\ reads[x][s] \in Nat /\ Len(queue[s]) \in Nat
      /\ writes[x][s] <= Len(queue[s]) /\ reads[x][s] <= Len(queue[s])
  BY DEF TypeOK
<1>2. CASE UNCHANGED <<writes, reads>>
  BY <1>1, <1>2
<1>3. CASE Finish(o)
  <2> DEFINE n == Len(queue[StreamOf[o]])
  <2>1. /\ writes'[x] = IF x \in retained[o] THEN Published(o, x, n)[1] ELSE writes[x]
        /\ reads'[x] = IF x \in retained[o] THEN Published(o, x, n)[2] ELSE reads[x]
    BY <1>3 DEF Finish
  <2>2. /\ writes[x] \in [Streams -> Nat] /\ reads[x] \in [Streams -> Nat]
    BY DEF TypeOK
  <2>3. CASE x \notin retained[o]
    BY <1>1, <2>1, <2>3
  <2>4. CASE x \in retained[o] /\ WritesTo(o, x)
    <3>1. writes'[x] = [writes[x] EXCEPT ![StreamOf[o]] = n]
          /\ reads'[x] = [reads[x] EXCEPT ![StreamOf[o]] = 0]
      BY <2>1, <2>4 DEF Published
    <3> QED BY <1>1, <2>2, <3>1
  <2>5. CASE x \in retained[o] /\ ~ WritesTo(o, x)
    <3>1. writes'[x] = writes[x] /\ reads'[x] = [reads[x] EXCEPT ![StreamOf[o]] = n]
      BY <2>1, <2>5 DEF Published
    <3> QED BY <1>1, <2>2, <3>1
  <2> QED BY <2>3, <2>4, <2>5
<1>4. UNCHANGED <<writes, reads>> \/ Finish(o)
  BY DEF OpStep, Admit, CancelAdmitted, BeginEnqueue, Prepare, PrepareFails, Submit, OperationFails,
     Abort, CancelSynchronized, SynchronizeFails, Retire, CancelRetired
<1> QED
  BY <1>2, <1>3, <1>4

\* What a step of an operation submits was open.
LEMMA OpSubmits ==
  ASSUME TypeOK, NEW o \in Ops, OpStep(o), NEW p \in Submitted' \ Ran'
  PROVE  /\ p \in Ops /\ at[p] \in Nat /\ StreamOf[p] \in Streams
         /\ \/ p = o /\ Submit(o) /\ o \in Open
            \/ p \in Submitted \ Ran /\ at'[p] = at[p]
<1>1. p \in Ops /\ done' = done /\ at[p] \in Nat
  BY OpFrame DEF Submitted, TypeOK
<1>2. CASE p = o /\ Submit(o)
  BY <1>1, <1>2 DEF Submit, Step, Open
<1>3. CASE ~ (p = o /\ Submit(o))
  <2>1. at'[p] = at[p]
    BY <1>1, <1>3, OpDevice, OpOthers DEF Prepare
  <2> QED BY <1>1, <2>1 DEF Submitted, Ran
<1> QED
  BY <1>1, <1>2, <1>3

\* An operation that leaves the registry has run, or is in the histories of all
\* it names.
LEMMA ClosedTracked ==
  ASSUME TypeOK, Owners, Placed, NEW o \in Ops, OpStep(o), o \in Submitted \ Ran, o \notin Open',
         ~ Admit(o), NEW x \in SourcesOf[o]
  PROVE  \/ at[o] <= writes'[x][StreamOf[o]]
         \/ ~ WritesTo(o, x) /\ at[o] <= reads'[x][StreamOf[o]]
<1>1. /\ at[o] \in Nat /\ at[o] > 0 /\ at[o] <= Len(queue[StreamOf[o]])
      /\ ~ (at[o] <= done[StreamOf[o]]) /\ StreamOf[o] \in Streams
      /\ done[StreamOf[o]] \in Nat /\ fence[o][StreamOf[o]] \in Nat
  BY DEF Submitted, Ran, TypeOK, Placed
<1>2. o \in Open /\ phase[o] \notin {"none", "admitted", "preparing"}
  BY <1>1, OpKeepsOwners DEF Placed
<1>3. ~ (CancelSynchronized(o) \/ CancelRetired(o))
  <2>1. SUFFICES ASSUME CancelSynchronized(o) \/ CancelRetired(o) PROVE FALSE
    OBVIOUS
  <2>2. fence[o][StreamOf[o]] <= done[StreamOf[o]] /\ phase[o] \in {"aborting", "retiring"}
    BY <1>1, <2>1 DEF CancelSynchronized, CancelRetired, Synchronized, Step
  <2>3. at[o] <= fence[o][StreamOf[o]]
    BY <2>2 DEF Placed
  <2> QED BY <1>1, <2>2, <2>3
<1>4. Finish(o)
  BY <1>2, <1>3 DEF OpStep, CancelAdmitted, BeginEnqueue, Prepare, PrepareFails, Submit,
     OperationFails, Abort, SynchronizeFails, Retire, Step, Quarantine, Open, TypeOK
<1>5. x \in retained[o] /\ x \in Storages
  BY <1>2 DEF Owners, TypeOK
<1>6. /\ writes'[x] = Published(o, x, Len(queue[StreamOf[o]]))[1]
      /\ reads'[x] = Published(o, x, Len(queue[StreamOf[o]]))[2]
      /\ writes[x] \in [Streams -> Nat] /\ reads[x] \in [Streams -> Nat]
  BY <1>4, <1>5 DEF Finish, TypeOK
<1> QED
  BY <1>1, <1>6 DEF Published

LEMMA OpUntracked ==
  ASSUME TypeOK, Owners, Placed, NothingUntracked, NEW o \in Ops, OpStep(o)
  PROVE  NothingUntracked'
<1> DEFINE Listed(p, x) ==
             \/ at'[p] <= writes'[x][StreamOf[p]]
             \/ ~ WritesTo(p, x) /\ at'[p] <= reads'[x][StreamOf[p]]
<1>1. SUFFICES ASSUME NEW p \in Submitted' \ Ran', p \notin Open', NEW x \in SourcesOf[p]
               PROVE  Listed(p, x)
  <2>1. \A p \in Open' : SourcesOf[p] \subseteq retained'[p]
    BY OpOwners DEF Owners
  <2> QED BY <2>1 DEF NothingUntracked
<1>2. p \in Ops /\ p \in Submitted \ Ran /\ at'[p] = at[p] /\ at[p] \in Nat
      /\ StreamOf[p] \in Streams /\ x \in Storages
  <2>1. ~ (p = o /\ Submit(o))
    BY <1>1 DEF Submit, Step, Open, TypeOK
  <2> QED BY <2>1, OpSubmits
<1>3. CASE p = o
  <2>1. ~ Admit(o)
    BY <1>1, <1>3, AdmitKeepsOwners
  <2> QED BY <1>1, <1>2, <1>3, <2>1, ClosedTracked
<1>4. CASE p # o
  <2>1. p \notin Open
    BY <1>1, <1>2, <1>4, OpKeepsOwners, AdmitKeepsOwners
  <2>2. \/ at[p] <= writes[x][StreamOf[p]]
        \/ ~ WritesTo(p, x) /\ at[p] <= reads[x][StreamOf[p]]
    BY <1>1, <1>2, <2>1 DEF NothingUntracked
  <2>3. /\ writes[x][StreamOf[p]] <= writes'[x][StreamOf[p]]
        /\ reads[x][StreamOf[p]] <= reads'[x][StreamOf[p]]
           \/ reads[x][StreamOf[p]] <= writes'[x][StreamOf[p]]
        /\ writes[x][StreamOf[p]] \in Nat /\ reads[x][StreamOf[p]] \in Nat
        /\ writes'[x][StreamOf[p]] \in Nat /\ reads'[x][StreamOf[p]] \in Nat
    BY <1>2, HistoryGrows
  <2> QED BY <1>2, <2>2, <2>3
<1> QED
  BY <1>3, <1>4

LEMMA ExecuteUntracked ==
  ASSUME TypeOK, NothingUntracked, FreedAfterUse, NEW s \in Streams, Execute(s)
  PROVE  (NothingUntracked /\ FreedAfterUse)'
<1>1. /\ UNCHANGED <<storageVars, opVars, eventVars, at>>
      /\ Submitted' = Submitted /\ Ran \subseteq Ran' /\ Open' = Open
  BY ExecuteForward DEF Submitted, Open
<1>2. Submitted' \ Ran' \subseteq Submitted \ Ran
  BY <1>1
<1>3. NothingUntracked'
  BY <1>1, <1>2 DEF NothingUntracked
<1>4. FreedAfterUse'
  BY <1>1, <1>2 DEF FreedAfterUse
<1> QED
  BY <1>3, <1>4

LEMMA OpFreed ==
  ASSUME TypeOK, Owners, FreedAfterUse, NEW o \in Ops, OpStep(o)
  PROVE  FreedAfterUse'
<1>1. SUFFICES ASSUME NEW x \in Storages, stage[x] \in {"freed", "released"},
                      NEW p \in Open' \cup (Submitted' \ Ran'), x \in SourcesOf[p]
               PROVE  FALSE
  BY OpFrame DEF FreedAfterUse
<1>2. CASE p \in Open \cup (Submitted \ Ran)
  BY <1>1, <1>2 DEF FreedAfterUse
<1>3. CASE p \notin Open \cup (Submitted \ Ran)
  <2>1. p \in Open'
    BY <1>1, <1>3, OpSubmits
  <2>2. Admit(o) /\ p = o
    BY <1>3, <2>1, OpKeepsOwners, AdmitKeepsOwners
  <2>3. handle[x] /\ stage[x] = "owned"
    BY <1>1, <2>2 DEF Admit, Owners
  <2> QED BY <1>1, <2>3
<1> QED
  BY <1>2, <1>3

\* One storage changes its stage, only a free makes it gone, and what is gone stays so.
LEMMA StageMoves ==
  ASSUME TypeOK, NEW x \in Storages, StorageStep(x)
  PROVE  /\ \A y \in Storages \ {x} : stage'[y] = stage[y]
         /\ stage'[x] \in {"freed", "released"} => stage[x] \in {"freed", "released"} \/ Free(x)
         /\ stage[x] \in {"freed", "released"} => stage'[x] \in {"freed", "released"}
<1>1. stage \in [Storages -> {"none", "owned", "reclaiming", "freed", "released"}]
  BY DEF TypeOK
<1>2. CASE Allocate(x)
  <2>1. stage[x] = "none" /\ stage' = [stage EXCEPT ![x] = "owned"]
    BY <1>2 DEF Allocate
  <2> QED BY <1>1, <2>1
<1>3. CASE Import(x)
  <2>1. stage[x] = "none" /\ stage' = [stage EXCEPT ![x] = "owned"]
    BY <1>3 DEF Import
  <2> QED BY <1>1, <2>1
<1>4. CASE DropHandle(x)
  <2>1. stage' = stage
    BY <1>4 DEF DropHandle
  <2> QED BY <2>1
<1>5. CASE Reclaim(x)
  <2>1. stage[x] = "owned" /\ stage' = [stage EXCEPT ![x] = "reclaiming"]
    BY <1>5 DEF Reclaim
  <2> QED BY <1>1, <2>1
<1>6. CASE Free(x)
  <2>1. stage' = [stage EXCEPT ![x] = "freed"]
    BY <1>6 DEF Free
  <2> QED BY <1>1, <1>6, <2>1
<1>7. CASE Released(x)
  <2>1. stage[x] = "freed" /\ stage' = [stage EXCEPT ![x] = "released"]
    BY <1>7 DEF Released
  <2> QED BY <1>1, <2>1
<1> QED BY <1>2, <1>3, <1>4, <1>5, <1>6, <1>7 DEF StorageStep

LEMMA StorageFreed ==
  ASSUME TypeOK, Owners, NothingUntracked, FreedAfterUse, NEW x \in Storages, StorageStep(x)
  PROVE  FreedAfterUse'
<1>1. /\ UNCHANGED <<opVars, eventVars, deviceVars>>
      /\ Open' = Open /\ Submitted' = Submitted /\ Ran' = Ran
  BY StorageFrame DEF Open, Submitted, Ran
<1>2. /\ \A y \in Storages \ {x} : stage'[y] = stage[y]
      /\ stage'[x] \in {"freed", "released"} => stage[x] \in {"freed", "released"} \/ Free(x)
  BY StageMoves
<1>3. ASSUME Free(x), NEW o \in Open \cup (Submitted \ Ran), x \in SourcesOf[o] PROVE FALSE
  <2>1. o \in Ops
    BY DEF Open, Submitted
  <2>2. CASE o \in Open
    <3>1. x \in retained[o] /\ stage[x] = "owned"
      BY <1>3, <2>1, <2>2 DEF Owners
    <3> QED BY <1>3, <2>1, <3>1 DEF Free, Held
  <2>3. CASE o \notin Open
    <3>1. /\ at[o] \in Nat /\ StreamOf[o] \in Streams /\ o \in Submitted \ Ran
          /\ writes[x][StreamOf[o]] \in Nat /\ reads[x][StreamOf[o]] \in Nat
          /\ done[StreamOf[o]] \in Nat
      BY <1>3, <2>1, <2>3 DEF TypeOK
    <3>2. at[o] <= writes[x][StreamOf[o]] \/ at[o] <= reads[x][StreamOf[o]]
      BY <1>3, <2>3, <3>1 DEF NothingUntracked
    <3>3. writes[x][StreamOf[o]] <= done[StreamOf[o]] /\ reads[x][StreamOf[o]] <= done[StreamOf[o]]
      BY <1>3, <3>1 DEF Free, Fenced
    <3>4. o \in Ran
      BY <3>1, <3>2, <3>3 DEF Ran
    <3> QED BY <3>1, <3>4
  <2> QED BY <2>2, <2>3
<1>4. SUFFICES ASSUME NEW y \in Storages, stage'[y] \in {"freed", "released"},
                      NEW o \in Open \cup (Submitted \ Ran), y \in SourcesOf[o]
               PROVE  FALSE
  BY <1>1 DEF FreedAfterUse
<1> QED
  BY <1>2, <1>3, <1>4 DEF FreedAfterUse

-----------------------------------------------------------------------------
(* What an operation has to wait for.                                      *)

\* Awaited in the next state, for a number of items that is given now.
AwaitedNext(p, s, n) ==
  \E k \in 1..n : queue'[s][k].on = StreamOf[p] /\ at'[p] <= queue'[s][k].upto

\* Waits stay in a stream, and what the histories tell stays told.
LEMMA AwaitedGrows ==
  ASSUME TypeOK, NEW o \in Ops, OpStep(o), NEW p \in Ops, at'[p] = at[p],
         NEW s \in Streams, NEW n \in Nat, n <= Len(queue[s]), Awaited(p, s, n),
         NEW m \in Nat, n <= m
  PROVE  AwaitedNext(p, s, m)
<1>1. PICK k \in 1..n : queue[s][k].on = StreamOf[p] /\ at[p] <= queue[s][k].upto
  BY DEF Awaited
<1>2. k \in 1..Len(queue[s]) /\ k \in 1..m
  BY DEF TypeOK
<1>3. queue'[s][k] = queue[s][k]
  BY <1>2, OpGrows DEF Grows
<1> QED
  BY <1>1, <1>2, <1>3 DEF AwaitedNext

LEMMA ToldGrows ==
  ASSUME TypeOK, NEW o \in Ops, OpStep(o), NEW p \in Ops, at'[p] = at[p],
         NEW q \in Ops, NEW x \in Storages, Told(q, p, x)
  PROVE  Told(q, p, x)'
<1>1. at[p] \in Nat /\ StreamOf[p] \in Streams
  BY DEF TypeOK
<1>2. /\ writes[x][StreamOf[p]] <= writes'[x][StreamOf[p]]
      /\ reads[x][StreamOf[p]] <= reads'[x][StreamOf[p]]
         \/ reads[x][StreamOf[p]] <= writes'[x][StreamOf[p]]
      /\ writes[x][StreamOf[p]] \in Nat /\ reads[x][StreamOf[p]] \in Nat
      /\ writes'[x][StreamOf[p]] \in Nat /\ reads'[x][StreamOf[p]] \in Nat
  BY <1>1, HistoryGrows
<1> QED
  BY <1>1, <1>2 DEF Told

\* The histories that an operation reads tell it of all conflicting work that
\* is closed and has not run.
LEMMA AdmittedForeseen ==
  ASSUME TypeOK, Owners, Placed, NothingUntracked, FreedAfterUse,
         NEW o \in Ops, Admit(o), NEW p \in Submitted \ Ran, Conflict(p, o)
  PROVE  \E x \in Retains(o) : Told(o, p, x)
<1>1. p \in Ops /\ at[p] > 0
  BY DEF Submitted
<1>2. p \notin Open /\ phase[p] # "none"
  BY <1>1 DEF Admit, Admissible, Conflict, Placed
<1>3. PICK b \in Touches(p) \cap Touches(o) : b \in WritesOf[p] \/ b \in WritesOf[o]
  BY DEF Conflict, Touches
<1>4. PICK x \in SourcesOf[p] : b \in BytesOf[x]
  BY <1>1, <1>3
<1>5. x \in Storages /\ stage[x] \in {"owned", "reclaiming"}
  <2>1. stage[x] # "none" /\ x \in Storages
    BY <1>1, <1>2, <1>4 DEF Owners
  <2>2. stage[x] \notin {"freed", "released"}
    BY <1>1, <1>4, <2>1 DEF FreedAfterUse
  <2> QED BY <2>1, <2>2 DEF TypeOK
<1>6. x \in Retains(o)
  BY <1>3, <1>4, <1>5 DEF Retains, Overlapping, Registered
<1>7. Told(o, p, x)
  <2>1. \/ at[p] <= writes[x][StreamOf[p]]
        \/ ~ WritesTo(p, x) /\ at[p] <= reads[x][StreamOf[p]]
    BY <1>2, <1>4 DEF NothingUntracked
  <2>2. ~ WritesTo(p, x) => WritesTo(o, x)
    BY <1>3, <1>4 DEF WritesTo
  <2> QED BY <2>1, <2>2 DEF Told
<1> QED
  BY <1>6, <1>7

\* What a history tells is waited for once it was read.
LEMMA PreparedAwaited ==
  ASSUME TypeOK, NEW o \in Ops, NEW x \in Storages, Prepare(o, x),
         NEW p \in Submitted, StreamOf[p] # StreamOf[o], Told(o, p, x)
  PROVE  Awaited(p, StreamOf[o], Len(queue[StreamOf[o]]))'
<1>1. p \in Ops /\ at[p] \in Nat /\ at[p] > 0 /\ at'[p] = at[p] /\ StreamOf[p] \in Streams
  BY DEF Submitted, TypeOK, Prepare
<1>2. writes[x][StreamOf[p]] \in Nat /\ reads[x][StreamOf[p]] \in Nat
  BY <1>1 DEF TypeOK
<1>3. PICK e \in EventsBefore(o, x) : e.on = StreamOf[p] /\ at[p] <= e.upto
  <2>1. CASE at[p] <= writes[x][StreamOf[p]]
    <3>1. Wait(StreamOf[p], writes[x][StreamOf[p]]) \in EventsBefore(o, x)
      BY <1>1, <1>2, <2>1 DEF EventsBefore
    <3> QED BY <2>1, <3>1 DEF Wait
  <2>2. CASE WritesTo(o, x) /\ at[p] <= reads[x][StreamOf[p]]
    <3>1. Wait(StreamOf[p], reads[x][StreamOf[p]]) \in EventsBefore(o, x)
      BY <1>1, <1>2, <2>2 DEF EventsBefore
    <3> QED BY <2>2, <3>1 DEF Wait
  <2> QED BY <2>1, <2>2 DEF Told
<1>4. PICK k \in 1..Len(queue'[StreamOf[o]]) : queue'[StreamOf[o]][k] = e
  BY PrepareGrows
<1> QED
  BY <1>1, <1>3, <1>4 DEF Awaited

LEMMA OpForeseen ==
  ASSUME TypeOK, Owners, Apart, Placed, NothingUntracked, FreedAfterUse, Foreseen,
         NEW o \in Ops, OpStep(o)
  PROVE  Foreseen'
<1> DEFINE Knows(q, p) ==
             \/ p \in Ran'
             \/ \E x \in Unread(q)' : Told(q, p, x)'
             \/ Awaited(p, StreamOf[q], Len(queue[StreamOf[q]]))'
<1>1. SUFFICES ASSUME NEW q \in Ops, NEW p \in Submitted', p \notin Ran',
                      phase'[q] \in {"admitted", "preparing"}, Conflict(p, q),
                      StreamOf[p] # StreamOf[q]
               PROVE  Knows(q, p)
  BY DEF Foreseen
<1>2. /\ p \in Ops /\ at[p] \in Nat /\ StreamOf[p] \in Streams
      /\ \/ p = o /\ Submit(o) /\ o \in Open
         \/ p \in Submitted \ Ran /\ at'[p] = at[p]
  BY <1>1, OpSubmits
<1>3. CASE q = o /\ Admit(o)
  <2>1. p \in Submitted \ Ran /\ at'[p] = at[p]
    BY <1>2, <1>3 DEF Admit, Submit, Step
  <2>2. PICK x \in Retains(o) : Told(o, p, x)
    BY <1>1, <1>3, <2>1, AdmittedForeseen
  <2>3. Unread(o)' = Retains(o) /\ x \in Storages
    <3>1. retained' = [retained EXCEPT ![o] = Retains(o)] /\ Retains(o) \subseteq Storages
          /\ phase' = [phase EXCEPT ![o] = "admitted"]
      BY <1>3, AdmitKeepsOwners
    <3> QED BY <3>1 DEF Unread, TypeOK
  <2>4. Told(o, p, x)'
    BY <1>2, <2>1, <2>2, <2>3, ToldGrows
  <2> QED BY <1>3, <2>2, <2>3, <2>4
<1>4. CASE ~ (q = o /\ Admit(o))
  <2>1. phase[q] \in {"admitted", "preparing"} /\ q \in Open
    <3>1. CASE q = o
      <4>1. phase[o] \in {"admitted", "preparing"}
        BY <1>1, <1>4, <3>1 DEF TypeOK, OpStep, CancelAdmitted, BeginEnqueue, Prepare, PrepareFails,
           Submit, OperationFails, Finish, Abort, CancelSynchronized, SynchronizeFails, Retire,
           CancelRetired, Step, Quarantine
      <4> QED BY <3>1, <4>1 DEF Open
    <3>2. CASE q # o
      BY <1>1, <3>2, OpOthers DEF Open
    <3> QED BY <3>1, <3>2
  <2>2. p \in Submitted \ Ran /\ at'[p] = at[p]
    <3>1. CASE p = o /\ Submit(o) /\ o \in Open
      BY <1>1, <2>1, <3>1 DEF Apart
    <3> QED BY <1>2, <3>1
  <2>3. \/ \E x \in Unread(q) : Told(q, p, x)
        \/ Awaited(p, StreamOf[q], Len(queue[StreamOf[q]]))
    BY <1>1, <2>1, <2>2 DEF Foreseen
  <2>4. CASE Awaited(p, StreamOf[q], Len(queue[StreamOf[q]]))
    <3>1. \A s \in Streams : Len(queue[s]) \in Nat /\ Len(queue'[s]) \in Nat
                             /\ Len(queue[s]) <= Len(queue'[s])
      <4>1. Grows /\ \A s \in Streams : queue[s] \in Seq(Item)
        BY OpGrows DEF TypeOK
      <4> QED BY <4>1 DEF Grows
    <3>2. AwaitedNext(p, StreamOf[q], Len(queue'[StreamOf[q]]))
      BY <1>2, <2>2, <2>4, <3>1, AwaitedGrows
    <3> QED BY <3>2 DEF AwaitedNext, Awaited
  <2>5. ASSUME NEW x \in Unread(q), Told(q, p, x) PROVE Knows(q, p)
    <3>1. x \in Storages
      BY DEF Unread, TypeOK
    <3>2. Told(q, p, x)'
      BY <1>2, <2>2, <2>5, <3>1, ToldGrows
    <3>3. CASE x \in Unread(q)'
      BY <3>2, <3>3
    <3>4. CASE x \notin Unread(q)'
      <4>1. q = o
        BY <1>1, <3>4, OpOthers DEF Unread
      <4>2. Prepare(o, x)
        <5>1. BeginEnqueue(o) \/ \E y \in Storages : Prepare(o, y)
          BY <1>1, <1>4, <4>1 DEF TypeOK, OpStep, CancelAdmitted, PrepareFails,
             Submit, OperationFails, Finish, Abort, CancelSynchronized, SynchronizeFails, Retire,
             CancelRetired, Step, Quarantine
        <5>2. ~ BeginEnqueue(o)
          BY <2>5, <3>4, <4>1 DEF BeginEnqueue, Step, Unread, TypeOK
        <5>3. PICK y \in Storages : Prepare(o, y)
          BY <5>1, <5>2
        <5>4. y = x
          BY <2>5, <3>4, <4>1, <5>3 DEF Prepare, Unread, TypeOK
        <5> QED BY <5>3, <5>4
      <4> QED BY <1>1, <2>2, <2>5, <3>1, <4>1, <4>2, PreparedAwaited
    <3> QED BY <3>3, <3>4
  <2> QED BY <2>3, <2>4, <2>5
<1> QED
  BY <1>3, <1>4

LEMMA OpWaits ==
  ASSUME TypeOK, Owners, Placed, Logged, Waits, Foreseen, NEW o \in Ops, OpStep(o)
  PROVE  Waits'
<1>1. SUFFICES ASSUME NEW i \in 1..Len(log'), NEW j \in 1..Len(log'), i < j,
                      Conflict(log'[i], log'[j]), StreamOf[log'[i]] # StreamOf[log'[j]],
                      log'[i] \notin Ran'
               PROVE  AwaitedNext(log'[i], StreamOf[log'[j]], at'[log'[j]] - 1)
  BY DEF Waits, Awaited, AwaitedNext
<1>2. log \in Seq(Ops) /\ Len(log) \in Nat
  BY DEF TypeOK
<1>3. \/ UNCHANGED <<at, log>>
      \/ Submit(o) /\ log' = Append(log, o) /\ at' = [at EXCEPT ![o] = Len(queue[StreamOf[o]]) + 1]
  BY OpDevice, SubmitGrows DEF Prepare
<1>4. /\ i \in 1..Len(log)
      /\ j \in 1..Len(log) \/ (j = Len(log) + 1 /\ log'[j] = o /\ Submit(o))
  <2>1. CASE log' = log
    BY <1>1, <2>1
  <2>2. CASE Submit(o) /\ log' = Append(log, o)
    <3>1. Len(log') = Len(log) + 1 /\ log'[Len(log) + 1] = o
      BY <1>2, <2>2
    <3>2. i \in 1..(Len(log) + 1) /\ j \in 1..(Len(log) + 1) /\ i < j /\ Len(log) \in Nat
      BY <1>1, <1>2, <3>1
    <3>3. i \in 1..Len(log) /\ (j \in 1..Len(log) \/ j = Len(log) + 1)
      BY <3>2
    <3> QED BY <2>2, <3>1, <3>3
  <2> QED BY <1>3, <2>1, <2>2
<1> DEFINE p == log[i]
<1>5. log'[i] = p /\ p \in Ops /\ p \in Submitted /\ at[p] \in Nat
  <2>1. log'[i] = p /\ p \in Ops
    BY <1>2, <1>3, <1>4
  <2> QED BY <1>4, <2>1 DEF Logged, Submitted, TypeOK
<1>6. \A q \in Ops : at'[q] = at[q] \/ (q = o /\ Submit(o) /\ at[o] = 0)
  <2>1. Submit(o) => at[o] = 0
    BY DEF Submit, Step, Placed
  <2> QED BY <1>3, <2>1 DEF TypeOK
<1>7. at'[p] = at[p] /\ p \notin Ran
  <2>1. at'[p] = at[p]
    BY <1>5, <1>6 DEF Submitted
  <2> QED BY <1>1, <1>5, <2>1, OpFrame DEF Ran, Submitted
<1>8. CASE j \in 1..Len(log)
  <2> DEFINE q == log[j]
  <2>1. log'[j] = q /\ q \in Ops /\ q \in Submitted /\ at[q] \in Nat
    <3>1. log'[j] = q /\ q \in Ops
      BY <1>2, <1>3, <1>8
    <3> QED BY <1>8, <3>1 DEF Logged, Submitted, TypeOK
  <2>2. at'[q] = at[q] /\ at[q] > 0
    BY <2>1, <1>6 DEF Submitted
  <2>3. Awaited(p, StreamOf[q], at[q] - 1)
    BY <1>1, <1>4, <1>5, <1>7, <1>8, <2>1 DEF Waits
  <2>4. at[q] - 1 \in Nat /\ at[q] - 1 <= Len(queue[StreamOf[q]]) /\ StreamOf[q] \in Streams
    <3>1. StreamOf[q] \in Streams /\ at[q] <= Len(queue[StreamOf[q]])
      BY <2>1 DEF Placed
    <3>2. Len(queue[StreamOf[q]]) \in Nat
      BY <3>1 DEF TypeOK
    <3> QED BY <2>1, <2>2, <3>1, <3>2
  <2> DEFINE n == at[q] - 1
  <2>5. n <= n
    BY <2>4
  <2>6. AwaitedNext(p, StreamOf[q], n)
    <3>1. n \in Nat /\ n <= Len(queue[StreamOf[q]]) /\ Awaited(p, StreamOf[q], n)
      BY <2>3, <2>4
    <3> HIDE DEF n
    <3> QED BY <1>5, <1>7, <2>4, <2>5, <3>1, AwaitedGrows
  <2>7. log'[i] = p /\ log'[j] = q /\ at'[q] = at[q]
    BY <1>5, <2>1, <2>2
  <2> QED BY <2>6, <2>7
<1>9. CASE j = Len(log) + 1 /\ log'[j] = o /\ Submit(o)
  <2>1. phase[o] = "preparing" /\ Unread(o) = {} /\ at'[o] - 1 = Len(queue[StreamOf[o]])
    <3>1. Len(queue[StreamOf[o]]) \in Nat
      BY DEF TypeOK
    <3> QED BY <1>3, <1>9, <3>1 DEF Submit, Step, Unread, TypeOK, Placed
  <2>2. Awaited(p, StreamOf[o], Len(queue[StreamOf[o]]))
    BY <1>1, <1>5, <1>7, <1>9, <2>1 DEF Foreseen
  <2> DEFINE n == Len(queue[StreamOf[o]])
  <2>3. n \in Nat /\ n <= n /\ StreamOf[o] \in Streams
    BY DEF TypeOK
  <2>4. AwaitedNext(p, StreamOf[o], n)
    BY <1>5, <1>7, <2>2, <2>3, AwaitedGrows
  <2> QED BY <1>5, <1>9, <2>1, <2>4
<1> QED
  BY <1>4, <1>8, <1>9

LEMMA ExecuteWaits ==
  ASSUME TypeOK, Waits, Foreseen, NEW s \in Streams, Execute(s)
  PROVE  (Waits /\ Foreseen)'
<1>1. /\ UNCHANGED <<opVars, eventVars, queue, at, log>>
      /\ Submitted' = Submitted /\ Ran \subseteq Ran'
  BY ExecuteForward DEF Submitted
<1>2. Waits'
  BY <1>1 DEF Waits, Awaited
<1>3. Foreseen'
  BY <1>1 DEF Foreseen, Awaited, Told, Unread
<1> QED
  BY <1>2, <1>3

LEMMA ExecuteKeeps ==
  ASSUME Owners, Apart, Placed, Logged, NEW s \in Streams, Execute(s)
  PROVE  (Owners /\ Apart /\ Placed /\ Logged)'
<1>1. UNCHANGED <<storageVars, opVars, queue, at, log>> /\ Open' = Open
  BY DEF Execute, Open
<1> QED
  BY <1>1 DEF Owners, Apart, Placed, Logged

-----------------------------------------------------------------------------
(* The invariant, and what it gives.                                       *)

LEMMA StepKeeps == IInv /\ [Next]_vars => IInv'
<1> SUFFICES ASSUME IInv, [Next]_vars PROVE IInv'
  OBVIOUS
<1> USE DEF IInv
<1>1. ASSUME NEW x \in Storages, StorageStep(x) PROVE IInv'
  <2>1. TypeOK' /\ Owners' /\ Apart'
    BY <1>1, StorageTypes, StorageOwners, StorageApart
  <2>2. (Placed /\ Logged /\ WaitsOver /\ Waits /\ Foreseen /\ NothingUntracked)'
    BY <1>1, StorageKeepsDevice
  <2>3. FreedAfterUse'
    BY <1>1, StorageFreed
  <2> QED BY <2>1, <2>2, <2>3
<1>2. ASSUME NEW o \in Ops, OpStep(o) PROVE IInv'
  <2>1. TypeOK' /\ Owners' /\ Apart'
    BY <1>2, OpTypes, OpOwners, OpApart
  <2>2. Placed' /\ Logged' /\ WaitsOver'
    BY <1>2, OpPlaced, OpLogged, OpWaitsOver
  <2>3. Waits' /\ Foreseen'
    BY <1>2, OpWaits, OpForeseen
  <2>4. NothingUntracked' /\ FreedAfterUse'
    BY <1>2, OpUntracked, OpFreed
  <2> QED BY <2>1, <2>2, <2>3, <2>4
<1>3. ASSUME NEW s \in Streams, Execute(s) PROVE IInv'
  <2>1. TypeOK' /\ (Owners /\ Apart /\ Placed /\ Logged)'
    BY <1>3, ExecuteTypes, ExecuteKeeps
  <2>2. WaitsOver' /\ (Waits /\ Foreseen)'
    BY <1>3, ExecuteWaitsOver, ExecuteWaits
  <2>3. (NothingUntracked /\ FreedAfterUse)'
    BY <1>3, ExecuteUntracked
  <2> QED BY <2>1, <2>2, <2>3
<1>4. CASE UNCHANGED vars
  <2>1. UNCHANGED <<storageVars, opVars, eventVars, deviceVars, faults>>
        /\ Open' = Open /\ Submitted' = Submitted /\ Ran' = Ran
    BY <1>4 DEF vars, Open, Submitted, Ran
  <2>2. TypeOK' /\ Owners' /\ Apart' /\ Placed' /\ Logged' /\ WaitsOver'
    BY <2>1 DEF TypeOK, Owners, Apart, Placed, Logged, WaitsOver
  <2>3. Waits' /\ Foreseen'
    BY <2>1 DEF Waits, Foreseen, Awaited, Told, Unread
  <2>4. NothingUntracked' /\ FreedAfterUse'
    BY <2>1 DEF NothingUntracked, FreedAfterUse
  <2> QED BY <2>2, <2>3, <2>4
<1> QED
  BY <1>1, <1>2, <1>3, <1>4 DEF Next, Rest

\* The inductive invariant of the registry, of the histories and of the streams.
THEOREM Invariant == Spec => []IInv
<1> QED
  BY InitHolds, StepKeeps, PTL DEF Spec

\* Every variable keeps its type, and no event, fence or execution is past the
\* end of its stream.
THEOREM TypeCorrect == Spec => []TypeOK
<1>1. IInv => TypeOK
  BY DEF IInv
<1> QED
  BY <1>1, Invariant, PTL

LEMMA WaitsPreventRaces == IInv => NoRace
<1> SUFFICES ASSUME IInv, NEW i \in 1..Len(log), NEW j \in 1..Len(log), i < j,
                    Conflict(log[i], log[j]), Running(log[j]), log[i] \notin Ran
             PROVE  FALSE
  BY DEF NoRace
<1> DEFINE p == log[i]
           s == StreamOf[log[j]]
<1>1. log \in Seq(Ops) /\ Len(log) \in Nat
  BY DEF IInv, TypeOK
<1>2. p \in Ops /\ log[j] \in Ops /\ s \in Streams /\ StreamOf[p] \in Streams
  BY <1>1
<1>3. /\ at[p] \in Nat /\ at[log[j]] \in Nat /\ done[s] \in Nat /\ done[StreamOf[p]] \in Nat
      /\ done[s] <= Len(queue[s]) /\ queue[s] \in Seq(Item)
  BY <1>2 DEF IInv, TypeOK
<1>4. at[p] > 0 /\ at[log[j]] = done[s] + 1 /\ ~ (at[p] <= done[StreamOf[p]])
  BY <1>2 DEF IInv, Logged, Running, Ran, Submitted
<1>5. CASE StreamOf[p] = s
  <2>1. at[p] < at[log[j]]
    BY <1>5 DEF IInv, Logged
  <2> QED BY <1>3, <1>4, <1>5, <2>1
<1>6. CASE StreamOf[p] # s
  <2>1. Awaited(p, s, at[log[j]] - 1)
    BY <1>6 DEF IInv, Waits
  <2>2. at[log[j]] - 1 = done[s]
    BY <1>3, <1>4
  <2>3. PICK k \in 1..done[s] : queue[s][k].on = StreamOf[p] /\ at[p] <= queue[s][k].upto
    BY <2>1, <2>2 DEF Awaited
  <2>4. queue[s][k].upto <= done[StreamOf[p]] /\ StreamOf[p] # None
    BY <1>2, <2>3 DEF IInv, WaitsOver
  <2>5. queue[s][k].upto \in Nat
    <3>1. k \in 1..Len(queue[s])
      BY <1>3
    <3>2. queue[s][k] \in Item
      BY <1>3, <3>1
    <3> QED BY <3>2 DEF Item
  <2> QED BY <1>3, <1>4, <2>3, <2>4, <2>5
<1> QED
  BY <1>5, <1>6

\* Whatever the streams, work whose turn has come is preceded by no conflicting
\* work that has not run: the histories an operation reads under its reservation
\* name every event it has to wait for.
THEOREM NoRaceEver == Spec => []NoRace
<1> QED
  BY Invariant, WaitsPreventRaces, PTL

\* No failure of a transaction leaves work in flight that no history and no
\* group knows.
THEOREM WorkIsTracked == Spec => []NothingUntracked
<1>1. IInv => NothingUntracked
  BY DEF IInv
<1> QED
  BY <1>1, Invariant, PTL

\* Memory is given back after its last use, whoever dropped the last owner and
\* however the operations on it ended.
THEOREM FreedAfterItsUse == Spec => []FreedAfterUse
<1>1. IInv => FreedAfterUse
  BY DEF IInv
<1> QED
  BY <1>1, Invariant, PTL

\* The registry refuses no release of an allocation whose last owner is gone.
THEOREM ReleasesAreUncontended == Spec => []ReleaseUncontended
<1>1. IInv => ReleaseUncontended
  <2> SUFFICES ASSUME IInv, NEW x \in Native, stage[x] = "owned", ~ Held(x), NEW o \in Open
               PROVE  BytesOf[x] \cap Touches(o) = {}
    BY DEF ReleaseUncontended
  <2>1. BytesOf[x] \cap Touches(o) # {} => x \in retained[o]
    BY DEF IInv, Apart
  <2> QED BY <2>1 DEF Held, Open
<1> QED
  BY <1>1, Invariant, PTL

-----------------------------------------------------------------------------
(* The refinement of OrderedUse.                                           *)

LEMMA LogIsSubmitted ==
  ASSUME IInv
  PROVE  Abstract!Submitted = Submitted
<1>1. log \in Seq(Ops)
  BY DEF IInv, TypeOK
<1>2. \A o \in Ops : o \in Submitted <=> \E i \in 1..Len(log) : log[i] = o
  BY DEF IInv, Logged, Submitted
<1> QED
  BY <1>1, <1>2 DEF Abstract!Submitted, Submitted

LEMMA StorageRefines ==
  ASSUME IInv, IInv', NEW x \in Storages, StorageStep(x)
  PROVE  [Abstract!Next]_<<log, Ran, Gone>>
<1>1. log' = log /\ Ran' = Ran
  BY StorageFrame DEF Ran, Submitted
<1>2. CASE Free(x)
  <2>1. /\ stage'[x] = "freed" /\ \A y \in Storages \ {x} : stage'[y] = stage[y]
    BY <1>2 DEF Free, IInv, TypeOK
  <2>2. Gone' = Gone \cup {x}
    BY <2>1 DEF Gone
  <2>3. \A o \in Submitted \ Ran : x \notin SourcesOf[o]
    BY <1>1, <2>1, StorageFrame DEF IInv, FreedAfterUse, Submitted
  <2> QED BY <1>1, <2>2, <2>3, LogIsSubmitted DEF Abstract!Next, Abstract!GiveBack
<1>3. CASE ~ Free(x)
  <2>1. \A y \in Storages : stage'[y] \in {"freed", "released"} <=> stage[y] \in {"freed", "released"}
    BY <1>3, StageMoves DEF IInv
  <2>2. Gone' = Gone
    BY <2>1 DEF Gone
  <2> QED BY <1>1, <2>2
<1> QED
  BY <1>2, <1>3

LEMMA OpRefines ==
  ASSUME IInv, NEW o \in Ops, OpStep(o)
  PROVE  [Abstract!Next]_<<log, Ran, Gone>>
<1>1. Gone' = Gone /\ done' = done
  BY OpFrame DEF Gone
<1>2. CASE UNCHANGED <<at, log>>
  BY <1>1, <1>2 DEF Ran, Submitted
<1>3. CASE Submit(o)
  <2>1. /\ at'[o] = Len(queue[StreamOf[o]]) + 1 /\ \A p \in Ops \ {o} : at'[p] = at[p]
        /\ log' = Append(log, o) /\ at[o] = 0 /\ o \in Open
    BY <1>3 DEF Submit, Step, Open, IInv, TypeOK, Placed
  <2>2. done[StreamOf[o]] \in Nat /\ Len(queue[StreamOf[o]]) \in Nat
        /\ done[StreamOf[o]] <= Len(queue[StreamOf[o]])
    BY DEF IInv, TypeOK
  <2>3. Ran' = Ran
    BY <1>1, <2>1, <2>2 DEF Ran, Submitted
  <2>4. o \notin Submitted
    BY <2>1 DEF Submitted
  <2>5. SourcesOf[o] \cap Gone = {}
    BY <2>1 DEF IInv, FreedAfterUse, Gone
  <2> QED BY <1>1, <2>1, <2>3, <2>4, <2>5, LogIsSubmitted DEF Abstract!Next, Abstract!Submit
<1> QED
  BY <1>2, <1>3, OpDevice DEF IInv, Prepare

\* The device executes at most one operation at a time.
LEMMA ExecuteRuns ==
  ASSUME IInv, NEW s \in Streams, Execute(s)
  PROVE  Ran' = Ran \/ \E i \in 1..Len(log) : Running(log[i]) /\ log[i] \notin Ran
                                              /\ Ran' = Ran \cup {log[i]}
<1>1. /\ done'[s] = done[s] + 1 /\ \A z \in Streams \ {s} : done'[z] = done[z]
      /\ UNCHANGED <<at, log>> /\ Ran \subseteq Ran' /\ done[s] \in Nat
  BY ExecuteForward DEF IInv
<1>2. \A o \in Ops : at[o] \in Nat /\ StreamOf[o] \in Streams
  BY DEF IInv, TypeOK
<1>3. ASSUME NEW o \in Ran' \ Ran
      PROVE  o \in Ops /\ StreamOf[o] = s /\ at[o] = done[s] + 1 /\ o \in Submitted
  <2>1. o \in Ops /\ at[o] > 0 /\ at[o] <= done'[StreamOf[o]] /\ ~ (at[o] <= done[StreamOf[o]])
    BY <1>1 DEF Ran, Submitted
  <2>2. StreamOf[o] = s
    BY <1>1, <1>2, <2>1
  <2> QED BY <1>1, <1>2, <2>1, <2>2 DEF Submitted
<1>4. ASSUME NEW o \in Ran' \ Ran, NEW p \in Ran' \ Ran PROVE o = p
  <2>1. /\ o \in Ops /\ p \in Ops /\ StreamOf[o] = StreamOf[p] /\ at[o] = at[p]
        /\ at[o] > 0 /\ at[p] > 0 /\ at[o] \in Nat
    BY <1>2, <1>3 DEF Submitted
  <2>2. PICK i \in 1..Len(log) : log[i] = o
    BY <2>1 DEF IInv, Logged
  <2>3. PICK j \in 1..Len(log) : log[j] = p
    BY <2>1 DEF IInv, Logged
  <2>4. ~ (i < j) /\ ~ (j < i)
    BY <2>1, <2>2, <2>3 DEF IInv, Logged
  <2> QED BY <2>2, <2>3, <2>4
<1>5. CASE Ran' \ Ran # {}
  <2>1. PICK o \in Ran' \ Ran : TRUE
    BY <1>5
  <2>2. Ran' = Ran \cup {o} /\ o \notin Ran
    BY <1>1, <1>4, <2>1
  <2>3. Running(o) /\ \E i \in 1..Len(log) : log[i] = o
    BY <1>3, <2>1 DEF Running, Submitted, IInv, Logged
  <2> QED BY <2>2, <2>3
<1> QED
  BY <1>1, <1>5

LEMMA ExecuteRefines ==
  ASSUME IInv, NEW s \in Streams, Execute(s)
  PROVE  [Abstract!Next]_<<log, Ran, Gone>>
<1>1. log' = log /\ Gone' = Gone
  BY DEF Execute, Gone
<1>2. ASSUME NEW i \in 1..Len(log), Running(log[i]), log[i] \notin Ran, Ran' = Ran \cup {log[i]}
      PROVE  Abstract!Next
  <2>1. \A j \in 1..(i - 1) : j \in 1..Len(log) /\ j < i
    BY DEF IInv, TypeOK
  <2>2. \A j \in 1..(i - 1) : Conflict(log[j], log[i]) => log[j] \in Ran
    BY <1>2, <2>1, WaitsPreventRaces DEF NoRace
  <2>3. Abstract!Run(i)
    BY <1>1, <1>2, <2>2 DEF Abstract!Run
  <2> QED BY <2>3 DEF Abstract!Next
<1> QED
  BY <1>1, <1>2, ExecuteRuns

\* The registry, the histories and the streams together keep the promise of
\* OrderedUse: conflicting work takes effect in the order of its submission.
THEOREM OrderedEver == Spec => Ordered
<1>1. Init => Abstract!Init
  <2> SUFFICES ASSUME Init PROVE Abstract!Init
    OBVIOUS
  <2>1. log = <<>> /\ Ran = {} /\ Gone = {}
    BY DEF Init, Ran, Submitted, Gone
  <2> QED BY <2>1 DEF Abstract!Init
<1>2. IInv /\ IInv' /\ [Next]_vars => [Abstract!Next]_<<log, Ran, Gone>>
  <2> SUFFICES ASSUME IInv, IInv', [Next]_vars PROVE [Abstract!Next]_<<log, Ran, Gone>>
    OBVIOUS
  <2>1. CASE UNCHANGED vars
    BY <2>1 DEF vars, Ran, Submitted, Gone
  <2> QED BY <2>1, StorageRefines, OpRefines, ExecuteRefines DEF Next, Rest
<1> QED
  BY <1>1, <1>2, Invariant, PTL DEF Spec, Ordered, Abstract!Spec

=============================================================================
