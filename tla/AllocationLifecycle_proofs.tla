----------------------- MODULE AllocationLifecycle_proofs -----------------------
(***************************************************************************)
(* Proofs about AllocationLifecycle, for any number of threads and of      *)
(* allocations and any bounds on the failures.                             *)
(***************************************************************************)
EXTENDS AllocationLifecycle, FiniteSetTheorems, SequenceTheorems, TLAPS

Attempting == {"enter", "uncaptured", "malloc", "init"}
Releasing  == {"release", "exclude", "fences", "free"}

\* What a thread has in its hands in every state.
Threads ==
  \A p \in Procs :
    /\ pc[p] \in Attempting => cur[p] # None
    /\ pc[p] \in {"idle", "begin"} => cur[p] = None
    /\ cur[p] # None => pc[p] \in Attempting \cup {"enqueue"} \/ retiring = p
    /\ pc[p] \in {"drain", "item"} => retiring = p
    /\ pc[p] \in Attempting \cup {"idle", "begin", "drain"} => item[p] = None
    /\ pc[p] \in {"enqueue", "item"} => item[p] # None
    /\ rel[p] # None <=> pc[p] \in Releasing
    /\ pc[p] \notin Releasing \cup {"visit"} => batch[p] = <<>> /\ kept[p] = <<>>
    /\ item[p] # None /\ item[p].kind = "block" => pc[p] = "enqueue" \/ retiring = p
    /\ item[p] # None /\ item[p].kind = "raw" =>
         /\ pc[p] \in {"enqueue", "item"} \cup Releasing
         /\ pc[p] \in Releasing => /\ rel[p] = item[p].owner /\ retiring = p
                                   /\ batch[p] = <<>> /\ kept[p] = <<>>

\* How far an attempt is, and which states an owner has no permit or no memory in.
Attempts ==
  /\ \A p \in Procs :
       /\ pc[p] \in Attempting => /\ phase[cur[p]] = "attempt"
                                  /\ pc[p] # "enter" => permit[cur[p]]
                                  /\ acquired[cur[p]] <=> pc[p] = "init"
       /\ \A q \in Procs : cur[p] # None /\ cur[p] = cur[q] => p = q
  /\ \A a \in Allocs :
       /\ phase[a] = "none" => ~acquired[a] /\ \A p \in Procs : cur[p] # a
       /\ phase[a] \in {"live", "orphan"} => acquired[a]
       /\ phase[a] = "dropped" /\ ~acquired[a] => permit[a]
       /\ permit[a] => phase[a] \in {"attempt", "dropped"}

\* How far a release is.
Releases ==
  /\ \A p \in Procs :
       /\ pc[p] \in {"exclude", "fences", "free"} => permit[rel[p]] /\ acquired[rel[p]]
       /\ pc[p] \in {"fences", "free"} => freeState[rel[p]] = "owned"
  /\ \A a \in Allocs : freeState[a] = "submitted" <=> phase[a] = "freed"

\* The exclusion, and the failure it retains.
Exclusion ==
  /\ active <=> \E a \in Allocs : permit[a]
  /\ \A a, b \in Allocs : permit[a] /\ permit[b] => a = b
  /\ failed # None => permit[failed] /\ acquired[failed] /\ phase[failed] = "dropped"

\* Whether a sequence has an element of V, and whether it has two.
Has(s, V)    == \E i \in DOMAIN s : s[i] \in V
Single(s, V) == \A i, j \in DOMAIN s : s[i] \in V /\ s[j] \in V => i = j

\* An owner that is on its way to the driver, or whose attempt failed, can no
\* longer be leased.
Departing(a) ==
  \/ phase[a] = "freed"
  \/ phase[a] = "dropped" /\ permit[a]
  \/ Has(queue, {Raw(a)}) \/ Has(retry, {Raw(a)})
  \/ \E p \in Procs : rel[p] = a \/ item[p] = Raw(a)

Closed == \A a \in Allocs : Departing(a) => lease[a] = "closed"

\* Who excludes stream capture: an allocation from its reservation until its
\* call returns, and a release around the driver's free.
Making  == {p \in Procs : cur[p] # None /\ pc[p] \notin {"enter", "uncaptured"}}
Freeing == {p \in Procs : pc[p] \in {"fences", "free"}}

Excluders ==
  /\ IsFiniteSet(Making) /\ IsFiniteSet(Freeing)
  /\ exclusions = Cardinality(Making) + Cardinality(Freeing)
  /\ capturing # None =>
       \A p \in Procs : pc[p] \notin {"malloc", "init", "fences", "free"}

OwnerItems(a) == {Storage(a), Raw(a)}

InHand(p, a) ==
  \/ item[p] = Storage(a) /\ pc[p] \in {"enqueue", "item"}
  \/ item[p] = Raw(a)
  \/ rel[p] = a /\ item[p] # Raw(a)

\* The containers that keep an owner; those of no thread are of None.
Kinds == {"queue", "retry", "pending", "unknown", "leased", "batch", "kept", "hand"}
Place(a, p, k) ==
  \/ p = None /\ k = "queue"   /\ Has(queue, OwnerItems(a))
  \/ p = None /\ k = "retry"   /\ Has(retry, OwnerItems(a))
  \/ p = None /\ k = "pending" /\ Has(pending, {a})
  \/ p = None /\ k = "unknown" /\ a \in unknown
  \/ p = None /\ k = "leased"  /\ phase[a] = "orphan"
  \/ p \in Procs /\ k = "batch" /\ Has(batch[p], {a})
  \/ p \in Procs /\ k = "kept"  /\ Has(kept[p], {a})
  \/ p \in Procs /\ k = "hand"  /\ InHand(p, a)

Holder == Procs \cup {None}

\* An owner that is dropped, and no other, is in a container, in one only, and
\* only once.
Tracked ==
  \A a \in Allocs :
    /\ phase[a] \in {"dropped", "orphan"} <=> \E p \in Holder, k \in Kinds : Place(a, p, k)
    /\ \A p, q \in Holder, k, l \in Kinds : Place(a, p, k) /\ Place(a, q, l) => p = q /\ k = l
    /\ Single(queue, OwnerItems(a)) /\ Single(retry, OwnerItems(a)) /\ Single(pending, {a})
    /\ \A p \in Procs : Single(batch[p], {a}) /\ Single(kept[p], {a})

IInv == /\ TypeOK /\ Threads /\ Attempts /\ Releases /\ Exclusion /\ Closed
        /\ Excluders /\ Tracked

-----------------------------------------------------------------------------
\* The three kinds of retirements: which fields they have and that these tell
\* them apart.
LEMMA Items ==
  /\ \A a \in Allocs :
       /\ Storage(a) \in Retirement /\ Storage(a).kind = "storage" /\ Storage(a).owner = a
       /\ Block(a) \in Retirement /\ Block(a).kind = "block" /\ Block(a).owner = a
       /\ Raw(a) \in Retirement /\ Raw(a).kind = "raw" /\ Raw(a).owner = a
       /\ Storage(a) # None /\ Block(a) # None /\ Raw(a) # None
  /\ \A r \in Retirement :
       /\ r.owner \in Allocs /\ r.kind \in {"storage", "block", "raw"} /\ r # None
       /\ r.kind = "storage" => r = Storage(r.owner)
       /\ r.kind = "block" => r = Block(r.owner)
       /\ r.kind = "raw" => r = Raw(r.owner)
  BY NoneAssumption DEF Retirement, Storage, Block, Raw

-----------------------------------------------------------------------------
\* The operations on queues stay in their type.
LEMMA OwnerQueues ==
  /\ <<>> \in Seq(Allocs)
  /\ \A s \in Seq(Allocs), x \in Allocs : Append(s, x) \in Seq(Allocs) /\ <<x>> \in Seq(Allocs)
  /\ \A s, t \in Seq(Allocs) : s \o t \in Seq(Allocs)
  /\ \A s \in Seq(Allocs) : s # <<>> => Head(s) \in Allocs /\ Tail(s) \in Seq(Allocs)
  BY EmptySeq, AppendProperties, ConcatProperties, HeadTailProperties

\* The same for queues of retirements.
LEMMA ItemQueues ==
  /\ <<>> \in Seq(Retirement)
  /\ \A s \in Seq(Retirement), x \in Retirement : Append(s, x) \in Seq(Retirement)
  /\ \A s \in Seq(Retirement) : s # <<>> => Head(s) \in Retirement /\ Tail(s) \in Seq(Retirement)
  BY EmptySeq, AppendProperties, HeadTailProperties

-----------------------------------------------------------------------------
(* Types.                                                                  *)

ThreadTypes ==
  /\ pc \in [Procs -> PCs]
  /\ cur \in [Procs -> Allocs \cup {None}] /\ rel \in [Procs -> Allocs \cup {None}]
  /\ item \in [Procs -> Retirement \cup {None}]
  /\ then \in [Procs -> {"return", "reap", "capture"}]
  /\ retiring \in Procs \cup {None} /\ capturing \in Procs \cup {None}

QueueTypes ==
  /\ queue \in Seq(Retirement) /\ retry \in Seq(Retirement) /\ pending \in Seq(Allocs)
  /\ batch \in [Procs -> Seq(Allocs)] /\ kept \in [Procs -> Seq(Allocs)]

OwnerTypes ==
  /\ active \in BOOLEAN /\ failed \in Allocs \cup {None}
  /\ permit \in [Allocs -> BOOLEAN] /\ phase \in [Allocs -> Phases]
  /\ acquired \in [Allocs -> BOOLEAN] /\ lease \in [Allocs -> {"none", "held", "closed"}]
  /\ freeState \in [Allocs -> {"owned", "unknown", "submitted"}]
  /\ unknown \subseteq Allocs
  /\ used \in [DOMAIN Bounds -> Nat] /\ \A k \in DOMAIN Bounds : used[k] <= Bounds[k]

\* The type invariant, in its three parts.
LEMMA TypeParts ==
  /\ TypeOK <=> ThreadTypes /\ QueueTypes /\ OwnerTypes /\ exclusions \in Nat
  /\ TypeOK' <=> ThreadTypes' /\ QueueTypes' /\ OwnerTypes' /\ exclusions' \in Nat
  BY DEF TypeOK, ThreadTypes, QueueTypes, OwnerTypes

-----------------------------------------------------------------------------
\* What a thread does after a reap: its block goes back to the cold queue, is
\* kept for the next drain, or is done with.
ReapedTo(p) ==
  \/ /\ item[p] \in Retirement /\ item[p].kind = "storage" /\ phase[item[p].owner] # "freed"
     /\ item' = [item EXCEPT ![p] = Block(item[p].owner)]
     /\ pc' = [pc EXCEPT ![p] = "enqueue"] /\ retry' = retry
  \/ /\ item[p] \in Retirement /\ item[p].kind = "block" /\ phase[item[p].owner] # "freed"
     /\ retry' = Append(retry, item[p])
     /\ item' = [item EXCEPT ![p] = None] /\ pc' = [pc EXCEPT ![p] = "drain"]
  \/ /\ item[p] # None => item[p].kind = "raw" \/ phase[item[p].owner] = "freed"
     /\ item' = [item EXCEPT ![p] = None] /\ retry' = retry
     /\ pc' = [pc EXCEPT ![p] = IF retiring = p THEN "drain" ELSE "idle"]

\* A reap that ends does one of these.
LEMMA ReapOutcome ==
  ASSUME ThreadTypes, NEW p \in Procs, AfterReap(p)
  PROVE  ReapedTo(p)
<1> USE DEF ReapedTo
<1> DEFINE blocked == item[p] # None /\ phase[item[p].owner] # "freed"
<1>0. item[p] = None \/ item[p] \in Retirement
  BY DEF ThreadTypes
<1>1. CASE blocked /\ item[p].kind = "storage"
  BY <1>0, <1>1, Items DEF AfterReap
<1>2. CASE blocked /\ item[p].kind = "block"
  <2>1. ~(blocked /\ item[p].kind = "storage")
    BY <1>2
  <2> QED BY <1>0, <1>2, <2>1, Items DEF AfterReap
<1>3. CASE ~blocked \/ item[p].kind \notin {"storage", "block"}
  <2>1. item[p] # None => item[p].kind = "raw" \/ phase[item[p].owner] = "freed"
    BY <1>0, <1>3, Items
  <2>2. /\ item' = [item EXCEPT ![p] = None] /\ retry' = retry
        /\ pc' = [pc EXCEPT ![p] = IF retiring = p THEN "drain" ELSE "idle"]
    BY <1>3 DEF AfterReap
  <2> QED BY <2>1, <2>2
<1> QED BY <1>1, <1>2, <1>3

\* A release that fails keeps its owner: with the unknown ones, for the next
\* drain, or in the pending queue with the rest of the batch.
Fails(p) == ReleaseRefused(p) \/ ReleaseExcluded(p) \/ FencesFail(p) \/ FreeUnknown(p)

FailedTo(p) ==
  /\ pc[p] \in Releasing /\ rel[p] \in Allocs
  /\ rel' = [rel EXCEPT ![p] = None]
  /\ UNCHANGED <<phase, acquired, lease, permit, active, queue, retiring, capturing, cur, then>>
  /\ \/ /\ item[p] = Raw(rel[p])
        /\ \/ unknown' = unknown \cup {rel[p]} /\ retry' = retry
           \/ unknown' = unknown /\ retry' = Append(retry, Raw(rel[p]))
        /\ item' = [item EXCEPT ![p] = None] /\ pc' = [pc EXCEPT ![p] = "drain"]
        /\ UNCHANGED <<pending, batch, kept>>
     \/ /\ item[p] # Raw(rel[p])
        /\ pending' = pending \o kept[p] \o (<<rel[p]>> \o batch[p])
        /\ batch' = [batch EXCEPT ![p] = <<>>] /\ kept' = [kept EXCEPT ![p] = <<>>]
        /\ unknown' = unknown
        /\ ReapedTo(p)

\* Every failing release does this.
LEMMA FailOutcome ==
  ASSUME ThreadTypes, Threads, NEW p \in Procs, Fails(p)
  PROVE  FailedTo(p)
<1> USE DEF Releasing, ownerVars, exclusionVars, captureVars
<1>1. ReleaseFails(p)
  BY DEF Fails, ReleaseRefused, ReleaseExcluded, FencesFail, FreeUnknown
<1>2. /\ pc[p] \in Releasing /\ rel[p] \in Allocs
      /\ rel' = [rel EXCEPT ![p] = None]
      /\ UNCHANGED <<phase, acquired, lease, permit, active, queue, retiring, capturing, cur, then>>
  BY <1>1 DEF ThreadTypes, Threads, Fails, ReleaseFails, ReleaseRefused, ReleaseExcluded,
              FencesFail, FreeUnknown, RetainFailure
<1>3. CASE item[p] = Raw(rel[p])
  BY <1>1, <1>2, <1>3 DEF ReleaseFails, FailedTo
<1>4. CASE item[p] # Raw(rel[p])
  <2>1. AfterReap(p)
    BY <1>1, <1>4 DEF ReleaseFails
  <2> QED BY <1>1, <1>2, <1>4, <2>1, ReapOutcome DEF ReleaseFails, Merge, FailedTo
<1> QED BY <1>3, <1>4

\* Both leave queues behind them.
LEMMA ReapedQueue ==
  ASSUME QueueTypes, NEW p \in Procs, ReapedTo(p)
  PROVE  retry' \in Seq(Retirement)
<1>0. retry \in Seq(Retirement)
  BY DEF QueueTypes
<1>2. CASE retry' = Append(retry, item[p]) /\ item[p] \in Retirement
  BY <1>0, <1>2, ItemQueues
<1>3. CASE retry' = retry
  BY <1>3, <1>0
<1> QED BY <1>2, <1>3 DEF ReapedTo

\* A failing release leaves queues behind it.
LEMMA FailedQueues ==
  ASSUME QueueTypes, NEW p \in Procs, FailedTo(p)
  PROVE  QueueTypes'
<1>0. retry \in Seq(Retirement)
  BY DEF QueueTypes
<1>1. ReapedTo(p) \/ retry' = retry \/ retry' = Append(retry, Raw(rel[p]))
  BY DEF FailedTo
<1>2. Raw(rel[p]) \in Retirement
  BY Items DEF FailedTo
<1>3. Append(retry, Raw(rel[p])) \in Seq(Retirement)
  BY <1>0, <1>2, ItemQueues
<1>4. retry' \in Seq(Retirement)
  BY <1>0, <1>1, <1>3, ReapedQueue
<1>5. pending' \in Seq(Allocs)
  <2>1. /\ rel[p] \in Allocs /\ batch[p] \in Seq(Allocs) /\ kept[p] \in Seq(Allocs)
        /\ pending \in Seq(Allocs)
    BY DEF QueueTypes, FailedTo
  <2>2. <<rel[p]>> \o batch[p] \in Seq(Allocs) /\ pending \o kept[p] \in Seq(Allocs)
    BY <2>1, OwnerQueues
  <2>3. pending \o kept[p] \o (<<rel[p]>> \o batch[p]) \in Seq(Allocs)
    BY <2>2, OwnerQueues
  <2> QED BY <2>1, <2>3 DEF FailedTo
<1>6. batch' \in [Procs -> Seq(Allocs)] /\ kept' \in [Procs -> Seq(Allocs)]
  BY OwnerQueues DEF QueueTypes, FailedTo
<1>7. queue' \in Seq(Retirement)
  BY DEF QueueTypes, FailedTo
<1> QED BY <1>4, <1>5, <1>6, <1>7 DEF QueueTypes

\* A bound that is spent stays a bound.
LEMMA Spending ==
  ASSUME OwnerTypes, NEW kind \in DOMAIN Bounds, Spend(kind)
  PROVE  used' \in [DOMAIN Bounds -> Nat] /\ \A k \in DOMAIN Bounds : used'[k] <= Bounds[k]
<1>1. used \in [DOMAIN Bounds -> Nat] /\ \A k \in DOMAIN Bounds : used[k] <= Bounds[k]
  BY DEF OwnerTypes
<1>2. \A k \in DOMAIN Bounds : Bounds[k] \in Nat
  BY BoundAssumption DEF Bounds
<1> QED BY <1>1, <1>2 DEF Spend

\* The names of the bounds.
LEMMA BoundKinds == DOMAIN Bounds = {"refusals", "faults", "unknown", "captures", "leases"}
  BY DEF Bounds

-----------------------------------------------------------------------------
\* Whether a sequence has an element of V, and has only one, after an element
\* was put at its end, its head was taken, and another was put behind it.
LEMMA HasNone ==
  /\ \A V : ~Has(<<>>, V) /\ Single(<<>>, V)
  /\ \A x, V : (Has(<<x>>, V) <=> x \in V) /\ Single(<<x>>, V)
  BY DEF Has, Single

\* What an element put at the end changes.
LEMMA HasAppend ==
  ASSUME NEW S, NEW s \in Seq(S), NEW x \in S, NEW V
  PROVE  /\ Has(Append(s, x), V) <=> Has(s, V) \/ x \in V
         /\ Single(s, V) /\ ~(Has(s, V) /\ x \in V) => Single(Append(s, x), V)
<1> DEFINE t == Append(s, x)
<1>1. /\ DOMAIN s = 1..Len(s) /\ DOMAIN t = 1..Len(s) + 1 /\ Len(s) \in Nat
      /\ \A i \in 1..Len(s) : t[i] = s[i]
      /\ t[Len(s) + 1] = x
  BY AppendProperties, LenProperties
<1> HIDE DEF t
<1>2. Has(t, V) <=> Has(s, V) \/ x \in V
  <2>1. \A i \in DOMAIN t : i \in DOMAIN s \/ i = Len(s) + 1
    BY <1>1
  <2> QED BY <1>1, <2>1 DEF Has
<1>3. ASSUME Single(s, V), ~(Has(s, V) /\ x \in V) PROVE Single(t, V)
  <2>1. \A i \in DOMAIN t : i \in DOMAIN s \/ i = Len(s) + 1
    BY <1>1
  <2> QED BY <1>1, <1>3, <2>1 DEF Has, Single
<1> QED BY <1>2, <1>3 DEF t

\* What a head that is taken changes.
LEMMA HasTail ==
  ASSUME NEW S, NEW s \in Seq(S), s # <<>>, NEW V
  PROVE  /\ Has(s, V) <=> Head(s) \in V \/ Has(Tail(s), V)
         /\ Single(s, V) => Single(Tail(s), V) /\ ~(Head(s) \in V /\ Has(Tail(s), V))
<1> DEFINE t == Tail(s)
<1>1. /\ DOMAIN s = 1..Len(s) /\ DOMAIN t = 1..Len(s) - 1 /\ Len(s) \in Nat \ {0}
      /\ \A i \in 1..Len(s) - 1 : t[i] = s[i + 1]
      /\ Head(s) = s[1]
  BY HeadTailProperties, LenProperties, EmptySeq
<1> HIDE DEF t
<1>2. \A i \in DOMAIN s : i = 1 \/ (i - 1 \in DOMAIN t /\ s[i] = t[i - 1])
  BY <1>1
<1>3. \A i \in DOMAIN t : i + 1 \in DOMAIN s /\ s[i + 1] = t[i] /\ i + 1 # 1
  BY <1>1
<1>4. 1 \in DOMAIN s
  BY <1>1
<1>5. Has(s, V) <=> Head(s) \in V \/ Has(t, V)
  BY <1>1, <1>2, <1>3, <1>4 DEF Has
<1>6. ASSUME Single(s, V) PROVE Single(t, V) /\ ~(Head(s) \in V /\ Has(t, V))
  <2>1. Single(t, V)
    <3> SUFFICES ASSUME NEW i \in DOMAIN t, NEW j \in DOMAIN t, t[i] \in V, t[j] \in V PROVE i = j
      BY DEF Single
    <3>1. i + 1 = j + 1
      BY <1>3, <1>6 DEF Single
    <3> QED BY <1>1, <3>1
  <2>2. ~(Head(s) \in V /\ Has(t, V))
    BY <1>1, <1>3, <1>4, <1>6 DEF Has, Single
  <2> QED BY <2>1, <2>2
<1> QED BY <1>5, <1>6 DEF t

\* What a sequence put behind another changes.
LEMMA HasConcat ==
  ASSUME NEW S, NEW s \in Seq(S), NEW t \in Seq(S), NEW V
  PROVE  /\ Has(s \o t, V) <=> Has(s, V) \/ Has(t, V)
         /\ Single(s, V) /\ Single(t, V) /\ ~(Has(s, V) /\ Has(t, V)) => Single(s \o t, V)
<1> DEFINE u == s \o t
<1>1. /\ DOMAIN s = 1..Len(s) /\ DOMAIN t = 1..Len(t) /\ DOMAIN u = 1..Len(s) + Len(t)
      /\ Len(s) \in Nat /\ Len(t) \in Nat
      /\ \A i \in 1..Len(s) + Len(t) : u[i] = IF i <= Len(s) THEN s[i] ELSE t[i - Len(s)]
  BY ConcatProperties, LenProperties
<1> HIDE DEF u
<1>2. \A i \in DOMAIN u : \/ i \in DOMAIN s /\ u[i] = s[i]
                          \/ i - Len(s) \in DOMAIN t /\ u[i] = t[i - Len(s)]
  <2>1. \A i \in DOMAIN u : i \in DOMAIN s => u[i] = s[i]
    BY <1>1
  <2>2. \A i \in DOMAIN u : i \notin DOMAIN s => i - Len(s) \in DOMAIN t /\ u[i] = t[i - Len(s)]
    BY <1>1
  <2> QED BY <2>1, <2>2
<1>3. /\ \A i \in DOMAIN s : i \in DOMAIN u /\ u[i] = s[i]
      /\ \A i \in DOMAIN t : i + Len(s) \in DOMAIN u /\ u[i + Len(s)] = t[i]
  BY <1>1
<1>4. Has(u, V) <=> Has(s, V) \/ Has(t, V)
  BY <1>2, <1>3 DEF Has
<1>5. ASSUME Single(s, V), Single(t, V), ~(Has(s, V) /\ Has(t, V)) PROVE Single(u, V)
  <2> SUFFICES ASSUME NEW i \in DOMAIN u, NEW j \in DOMAIN u, u[i] \in V, u[j] \in V PROVE i = j
    BY DEF Single
  <2>1. CASE i \in DOMAIN s /\ u[i] = s[i] /\ j \in DOMAIN s /\ u[j] = s[j]
    BY <2>1, <1>5 DEF Single
  <2>2. CASE /\ i - Len(s) \in DOMAIN t /\ u[i] = t[i - Len(s)]
             /\ j - Len(s) \in DOMAIN t /\ u[j] = t[j - Len(s)]
    <3>1. i - Len(s) = j - Len(s)
      BY <2>2, <1>5 DEF Single
    <3> QED BY <3>1, <1>1
  <2> QED BY <1>2, <1>5, <2>1, <2>2 DEF Has
<1> QED BY <1>4, <1>5 DEF u

-----------------------------------------------------------------------------
(* How the containers change.                                              *)

Singles ==
  \A a \in Allocs :
    /\ Single(queue, OwnerItems(a)) /\ Single(retry, OwnerItems(a)) /\ Single(pending, {a})
    /\ \A p \in Procs : Single(batch[p], {a}) /\ Single(kept[p], {a})

Waiting(a) == phase[a] \in {"dropped", "orphan"}

\* No owner moves.
Stays ==
  /\ \A a \in Allocs, r \in Holder, m \in Kinds : Place(a, r, m)' <=> Place(a, r, m)
  /\ \A a \in Allocs : Waiting(a)' <=> Waiting(a)

\* The owners of A, which are in containers of p, go to another one.
Sends(A, p, K, q, l) ==
  /\ \A a \in Allocs : a \in A => \E k \in K : Place(a, p, k)
  /\ \A a \in Allocs, r \in Holder, m \in Kinds :
       Place(a, r, m)' <=> \/ Place(a, r, m) /\ ~(a \in A /\ r = p /\ m \in K)
                           \/ a \in A /\ r = q /\ m = l
  /\ \A a \in Allocs : Waiting(a)' <=> Waiting(a)

\* Owner b is dropped into a container.
Arrives(b, q, l) ==
  /\ \A a \in Allocs : a = b => ~Waiting(a) /\ Waiting(a)'
  /\ \A a \in Allocs, r \in Holder, m \in Kinds :
       Place(a, r, m)' <=> Place(a, r, m) \/ (a = b /\ r = q /\ m = l)
  /\ \A a \in Allocs : a # b => (Waiting(a)' <=> Waiting(a))

\* Owner b leaves its container for good.
Leaves(b, p, k) ==
  /\ \A a \in Allocs : a = b => Place(a, p, k) /\ ~Waiting(a)'
  /\ \A a \in Allocs, r \in Holder, m \in Kinds :
       Place(a, r, m)' <=> Place(a, r, m) /\ ~(a = b /\ r = p /\ m = k)
  /\ \A a \in Allocs : a # b => (Waiting(a)' <=> Waiting(a))

\* An owner that stays is tracked.
LEMMA Stayed ==
  ASSUME Tracked, Stays, Singles'
  PROVE  Tracked'
<1> SUFFICES ASSUME NEW a \in Allocs
             PROVE  /\ Waiting(a)' <=> \E r \in Holder, m \in Kinds : Place(a, r, m)'
                    /\ \A r, s \in Holder, m, n \in Kinds :
                         Place(a, r, m)' /\ Place(a, s, n)' => r = s /\ m = n
  BY DEF Tracked, Singles, Waiting
<1>1. /\ Waiting(a) <=> \E r \in Holder, m \in Kinds : Place(a, r, m)
      /\ \A r, s \in Holder, m, n \in Kinds : Place(a, r, m) /\ Place(a, s, n) => r = s /\ m = n
  BY DEF Tracked, Waiting
<1> QED BY <1>1 DEF Stays

\* An owner that is sent is in the other container and in no other.
LEMMA Sent ==
  ASSUME Tracked, NEW A, NEW p \in Holder, NEW K \in SUBSET Kinds, NEW q \in Holder,
         NEW l \in Kinds, Sends(A, p, K, q, l), Singles'
  PROVE  Tracked'
<1> SUFFICES ASSUME NEW a \in Allocs
             PROVE  /\ Waiting(a)' <=> \E r \in Holder, m \in Kinds : Place(a, r, m)'
                    /\ \A r, s \in Holder, m, n \in Kinds :
                         Place(a, r, m)' /\ Place(a, s, n)' => r = s /\ m = n
  BY DEF Tracked, Singles, Waiting
<1>1. /\ Waiting(a) <=> \E r \in Holder, m \in Kinds : Place(a, r, m)
      /\ \A r, s \in Holder, m, n \in Kinds : Place(a, r, m) /\ Place(a, s, n) => r = s /\ m = n
  BY DEF Tracked, Waiting
<1>2. Waiting(a)' <=> Waiting(a)
  BY DEF Sends
<1>3. CASE a \in A
  <2>1. PICK k \in K : Place(a, p, k)
    BY <1>3 DEF Sends
  <2>3. \A r \in Holder, m \in Kinds : Place(a, r, m) => r = p /\ m \in K
    BY <1>1, <2>1
  <2>2. \A r \in Holder, m \in Kinds : Place(a, r, m)' <=> r = q /\ m = l
    BY <1>3, <2>3 DEF Sends
  <2> QED BY <1>1, <1>2, <2>1, <2>2
<1>4. CASE a \notin A
  <2>1. \A r \in Holder, m \in Kinds : Place(a, r, m)' <=> Place(a, r, m)
    BY <1>4 DEF Sends
  <2> QED BY <1>1, <1>2, <2>1
<1> QED BY <1>3, <1>4

\* An owner that arrives was nowhere.
LEMMA Arrived ==
  ASSUME Tracked, NEW b \in Allocs, NEW q \in Holder, NEW l \in Kinds, Arrives(b, q, l), Singles'
  PROVE  Tracked'
<1> SUFFICES ASSUME NEW a \in Allocs
             PROVE  /\ Waiting(a)' <=> \E r \in Holder, m \in Kinds : Place(a, r, m)'
                    /\ \A r, s \in Holder, m, n \in Kinds :
                         Place(a, r, m)' /\ Place(a, s, n)' => r = s /\ m = n
  BY DEF Tracked, Singles, Waiting
<1>1. /\ Waiting(a) <=> \E r \in Holder, m \in Kinds : Place(a, r, m)
      /\ \A r, s \in Holder, m, n \in Kinds : Place(a, r, m) /\ Place(a, s, n) => r = s /\ m = n
  BY DEF Tracked, Waiting
<1>2. CASE a = b
  <2>1. \A r \in Holder, m \in Kinds : Place(a, r, m)' <=> r = q /\ m = l
    BY <1>1, <1>2 DEF Arrives
  <2> QED BY <1>2, <2>1 DEF Arrives
<1>3. CASE a # b
  <2>1. \A r \in Holder, m \in Kinds : Place(a, r, m)' <=> Place(a, r, m)
    BY <1>3 DEF Arrives
  <2> QED BY <1>1, <1>3, <2>1 DEF Arrives
<1> QED BY <1>2, <1>3

\* An owner that leaves is nowhere.
LEMMA Left ==
  ASSUME Tracked, NEW b \in Allocs, NEW p \in Holder, NEW k \in Kinds, Leaves(b, p, k), Singles'
  PROVE  Tracked'
<1> SUFFICES ASSUME NEW a \in Allocs
             PROVE  /\ Waiting(a)' <=> \E r \in Holder, m \in Kinds : Place(a, r, m)'
                    /\ \A r, s \in Holder, m, n \in Kinds :
                         Place(a, r, m)' /\ Place(a, s, n)' => r = s /\ m = n
  BY DEF Tracked, Singles, Waiting
<1>1. /\ Waiting(a) <=> \E r \in Holder, m \in Kinds : Place(a, r, m)
      /\ \A r, s \in Holder, m, n \in Kinds : Place(a, r, m) /\ Place(a, s, n) => r = s /\ m = n
  BY DEF Tracked, Waiting
<1>2. CASE a = b
  <2>1. \A r \in Holder, m \in Kinds : ~Place(a, r, m)'
    BY <1>1, <1>2 DEF Leaves
  <2> QED BY <1>2, <2>1 DEF Leaves
<1>3. CASE a # b
  <2>1. \A r \in Holder, m \in Kinds : Place(a, r, m)' <=> Place(a, r, m)
    BY <1>3 DEF Leaves
  <2> QED BY <1>1, <1>3, <2>1 DEF Leaves
<1> QED BY <1>2, <1>3

\* The containers of a thread and of none, and that they tell each other apart.
LEMMA HolderKinds ==
  /\ None \in Holder /\ \A p \in Procs : p \in Holder /\ p # None
  /\ {"queue", "retry", "pending", "unknown", "leased", "batch", "kept", "hand"} \subseteq Kinds
  BY NoneAssumption DEF Holder, Kinds

\* Whatever does not touch the queues leaves at most one entry of each owner.
LEMMA SameSingles ==
  ASSUME Tracked, UNCHANGED <<queue, retry, pending, batch, kept>>
  PROVE  Singles'
  BY DEF Tracked, Singles

\* What a thread has in its hands: the owner that it releases, or that of the
\* retirement it is about to queue or has taken from the queue.
HandOf(p, a) ==
  IF pc[p] \in Releasing THEN a = rel[p]
  ELSE pc[p] \in {"enqueue", "item"} /\ item[p] \in OwnerItems(a)

\* That is all a thread can have in its hands.
LEMMA Hands ==
  /\ ThreadTypes /\ Threads => \A p \in Procs, a \in Allocs : InHand(p, a) <=> HandOf(p, a)
  /\ ThreadTypes' /\ Threads' => \A p \in Procs, a \in Allocs : InHand(p, a)' <=> HandOf(p, a)'
<1>1. ThreadTypes /\ Threads => \A p \in Procs, a \in Allocs : InHand(p, a) <=> HandOf(p, a)
  BY NoneAssumption, Items DEF ThreadTypes, Threads, InHand, HandOf, OwnerItems, Releasing
<1>2. (ThreadTypes /\ Threads => \A p \in Procs, a \in Allocs : InHand(p, a) <=> HandOf(p, a))'
  BY <1>1, PTL
<1> QED BY <1>1, <1>2

\* A thread's step leaves the hands of the others alone.
LEMMA OtherHands ==
  ASSUME NEW p \in Procs,
         \A q \in Procs : q # p => item'[q] = item[q] /\ pc'[q] = pc[q] /\ rel'[q] = rel[q]
  PROVE  \A q \in Procs, a \in Allocs : q # p => (InHand(q, a)' <=> InHand(q, a))
  BY DEF InHand

\* What a reap leaves in the retry queue names no owner that waits for its
\* release, and the thread has none in its hands.
LEMMA Reaped ==
  ASSUME ThreadTypes, QueueTypes, NEW p \in Procs, ReapedTo(p)
  PROVE  /\ \A x \in Allocs : /\ Has(retry', OwnerItems(x)) <=> Has(retry, OwnerItems(x))
                              /\ Single(retry, OwnerItems(x)) => Single(retry', OwnerItems(x))
         /\ \A q \in Procs : q # p => item'[q] = item[q] /\ pc'[q] = pc[q]
         /\ pc'[p] \in {"enqueue", "drain", "idle"}
         /\ \A x \in Allocs : pc'[p] = "enqueue" => item'[p] \notin OwnerItems(x)
<1>1. \A x, o \in Allocs : Block(o) \notin OwnerItems(x) /\ Block(o) \in Retirement
  BY Items DEF OwnerItems
<1>2. retry \in Seq(Retirement)
  BY DEF QueueTypes
<1>3. retry' # retry => \E o \in Allocs : retry' = Append(retry, Block(o))
  BY Items DEF ReapedTo
<1>4. \A x, o \in Allocs :
        /\ Has(Append(retry, Block(o)), OwnerItems(x)) <=> Has(retry, OwnerItems(x))
        /\ Single(retry, OwnerItems(x)) => Single(Append(retry, Block(o)), OwnerItems(x))
  BY <1>1, <1>2, HasAppend
<1>5. \A x \in Allocs : pc'[p] = "enqueue" => item'[p] \notin OwnerItems(x)
  BY <1>1, Items DEF ReapedTo, ThreadTypes
<1>6. /\ \A q \in Procs : q # p => item'[q] = item[q] /\ pc'[q] = pc[q]
      /\ pc'[p] \in {"enqueue", "drain", "idle"}
  BY DEF ReapedTo, ThreadTypes
<1> QED BY <1>3, <1>4, <1>5, <1>6

-----------------------------------------------------------------------------
(* What a thread has in its hands.                                         *)

\* Every step leaves a thread with what its place in the code needs, and with no more.
LEMMA ThreadsStep ==
  ASSUME TypeOK, Threads, [Next]_vars
  PROVE  Threads'
<1> USE DEF TypeOK, Threads, Attempting, Releasing, exclusionVars, ownerVars,
          coldVars, captureVars, threadVars
<1>1. CASE UNCHANGED vars
  BY <1>1 DEF vars
<1>2. ASSUME NEW p \in Procs, Request(p) \/ Continue(p) PROVE Threads'
  <2>1. ASSUME NEW a \in Allocs, Allocate(p, a) PROVE Threads'
    BY <2>1, NoneAssumption, Items DEF Allocate, Goto
  <2>2. ASSUME NEW a \in Allocs, DropStorage(p, a) PROVE Threads'
    BY <2>2, NoneAssumption, Items DEF DropStorage, Goto
  <2>3. ASSUME NEW a \in Allocs, DropBlock(p, a) PROVE Threads'
    BY <2>3, NoneAssumption, Items DEF DropBlock, Goto
  <2>4. ASSUME NEW a \in Allocs, Lease(p, a) PROVE Threads'
    BY <2>4, NoneAssumption, Items DEF Lease, Spend
  <2>5. ASSUME NEW a \in Allocs, DropLease(p, a) PROVE Threads'
    <3>1. CASE phase[a] = "orphan"
      <4>1. /\ item' = [item EXCEPT ![p] = Raw(a)] /\ pc' = [pc EXCEPT ![p] = "enqueue"]
            /\ UNCHANGED <<cur, rel, retiring, batch, kept>> /\ pc[p] = "idle"
        BY <2>5, <3>1 DEF DropLease
      <4>2. Raw(a) # None /\ Raw(a).kind = "raw"
        BY Items
      <4>3. rel[p] = None /\ cur[p] = None /\ batch[p] = <<>> /\ kept[p] = <<>>
        BY <4>1
      <4> QED BY <4>1, <4>2, <4>3
    <3>2. CASE phase[a] # "orphan"
      BY <2>5, <3>2 DEF DropLease
    <3> QED BY <3>1, <3>2
  <2>6. CASE BeginCapture(p)
    BY <2>6, NoneAssumption, Items DEF BeginCapture, Spend, DrainThen,
    Drainable
  <2>7. CASE EndCapture(p)
    BY <2>7, NoneAssumption, Items DEF EndCapture
  <2>8. CASE Reap(p)
    BY <2>8, NoneAssumption, Items DEF Reap, DrainThen, Drainable
  <2>9. CASE Enter(p)
    BY <2>9, NoneAssumption, Items DEF Enter, Goto, MayEnter
  <2>10. CASE EnterRefused(p)
    BY <2>10, NoneAssumption, Items DEF EnterRefused, Goto
  <2>11. CASE Uncaptured(p)
    BY <2>11, NoneAssumption, Items DEF Uncaptured, Goto
  <2>12. CASE CaptureRefused(p)
    BY <2>12, NoneAssumption, Items DEF CaptureRefused, Goto, DropPermit
  <2>13. CASE Malloc(p)
    BY <2>13, NoneAssumption, Items DEF Malloc, Goto
  <2>14. CASE MallocRefused(p)
    BY <2>14, NoneAssumption, Items DEF MallocRefused, Goto, Spend, Close
  <2>15. CASE Publish(p)
    BY <2>15, NoneAssumption, Items DEF Publish, Goto, DropPermit
  <2>16. CASE InitFails(p)
    BY <2>16, NoneAssumption, Items DEF InitFails, Goto, Spend, Close,
    RetainFailure
  <2>17. CASE Enqueue(p)
    BY <2>17, NoneAssumption, Items DEF Enqueue, Drainable, Return,
    ExclusionsAfter
  <2>18. CASE DrainNext(p)
    BY <2>18, NoneAssumption, Items DEF DrainNext, Goto
  <2>19. CASE DrainDone(p)
    BY <2>19, NoneAssumption, Items DEF DrainDone, Return, ExclusionsAfter
  <2>20. ASSUME NEW a \in Allocs, RetireNative(p, a) PROVE Threads'
    BY <2>20, NoneAssumption, Items DEF RetireNative, Close
  <2>21. ASSUME NEW a \in Allocs, RetireRuntime(p, a) PROVE Threads'
    BY <2>21, NoneAssumption, Items DEF RetireRuntime, Goto
  <2>22. ASSUME NEW a \in Allocs, RetireBlock(p, a) PROVE Threads'
    <3>1. CASE phase[a] = "freed"
      BY <2>22, <3>1, NoneAssumption, Items DEF RetireBlock
    <3>2. CASE ~(phase[a] = "freed")
      BY <2>22, <3>2, NoneAssumption, Items DEF RetireBlock
    <3> QED BY <3>1, <3>2
  <2>23. ASSUME NEW a \in Allocs, RetireRaw(p, a) PROVE Threads'
    BY <2>23, NoneAssumption, Items DEF RetireRaw, Goto
  <2>24. CASE TakeBatch(p)
    BY <2>24, NoneAssumption, Items DEF TakeBatch, Goto
  <2>25. CASE VisitLeased(p)
    BY <2>25, NoneAssumption, Items DEF VisitLeased
  <2>26. CASE VisitUnique(p)
    BY <2>26, NoneAssumption, Items DEF VisitUnique, Goto, Close
  <2>27. CASE ReapDone(p)
    BY <2>27, NoneAssumption, Items DEF ReapDone, Merge, AfterReap
  <2>28. CASE ReleaseUnacquired(p)
    BY <2>28, NoneAssumption, Items DEF ReleaseUnacquired, ReleaseDone,
    DropPermit
  <2>29. CASE ReleaseEnter(p)
    BY <2>29, NoneAssumption, Items DEF ReleaseEnter, Goto, MayEnter
  <2>30. CASE ReleaseRefused(p)
    <3>1. CASE item[p] = Raw(rel[p])
      BY <2>30, <3>1, NoneAssumption, Items DEF ReleaseRefused, ReleaseFails, Merge,
      AfterReap
    <3>2. CASE ~(item[p] = Raw(rel[p]))
      BY <2>30, <3>2, NoneAssumption, Items DEF ReleaseRefused, ReleaseFails, Merge,
      AfterReap
    <3> QED BY <3>1, <3>2
  <2>31. CASE ReleaseExcluded(p)
    BY <2>31, NoneAssumption, Items DEF ReleaseExcluded, RequireKnown,
    RetainFailure, ReleaseFails, Merge, AfterReap
  <2>32. CASE ReleaseExclude(p)
    BY <2>32, NoneAssumption, Items DEF ReleaseExclude, Goto, RequireKnown
  <2>33. CASE AwaitFences(p)
    BY <2>33, NoneAssumption, Items DEF AwaitFences, Goto
  <2>34. CASE FencesFail(p)
    <3>1. CASE item[p] = Raw(rel[p])
      BY <2>34, <3>1, NoneAssumption, Items DEF FencesFail, Spend, RetainFailure,
      ReleaseFails, Merge, AfterReap
    <3>2. CASE ~(item[p] = Raw(rel[p]))
      BY <2>34, <3>2, NoneAssumption, Items DEF FencesFail, Spend, RetainFailure,
      ReleaseFails, Merge, AfterReap
    <3> QED BY <3>1, <3>2
  <2>35. CASE Free(p)
    BY <2>35, NoneAssumption, Items DEF Free, ReleaseDone, DropPermit
  <2>36. CASE FreeUnknown(p)
    BY <2>36, NoneAssumption, Items DEF FreeUnknown, Spend, RetainFailure,
    ReleaseFails, Merge, AfterReap
  <2>37. CASE AcquireCapture(p)
    BY <2>37, NoneAssumption, Items DEF AcquireCapture, Goto
  <2> QED
    BY <1>2, <2>1, <2>2, <2>3, <2>4, <2>5, <2>6, <2>7, <2>8, <2>9, <2>10,
    <2>11, <2>12, <2>13, <2>14, <2>15, <2>16, <2>17, <2>18, <2>19, <2>20,
    <2>21, <2>22, <2>23, <2>24, <2>25, <2>26, <2>27, <2>28, <2>29, <2>30,
    <2>31, <2>32, <2>33, <2>34, <2>35, <2>36, <2>37 DEF Request, Continue
<1> QED BY <1>1, <1>2 DEF Next

-----------------------------------------------------------------------------
(* Types.                                                                  *)

\* Every step keeps the threads' variables in their types.
LEMMA ThreadTypesStep ==
  ASSUME ThreadTypes, QueueTypes, Threads, [Next]_vars
  PROVE  ThreadTypes'
<1>a. \A p \in Procs : (Fails(p) => FailedTo(p)) /\ (AfterReap(p) => ReapedTo(p))
  BY FailOutcome, ReapOutcome
<1> USE DEF ThreadTypes, Threads, Attempting, Releasing, PCs, exclusionVars,
          ownerVars, coldVars, captureVars, threadVars
<1>1. CASE UNCHANGED vars
  BY <1>1 DEF vars
<1>2. ASSUME NEW p \in Procs, Request(p) \/ Continue(p) PROVE ThreadTypes'
  <2>1. ASSUME NEW a \in Allocs, Allocate(p, a) PROVE ThreadTypes'
    BY <2>1, NoneAssumption, Items DEF Allocate, Goto
  <2>2. ASSUME NEW a \in Allocs, DropStorage(p, a) PROVE ThreadTypes'
    BY <2>2, NoneAssumption, Items DEF DropStorage, Goto
  <2>3. ASSUME NEW a \in Allocs, DropBlock(p, a) PROVE ThreadTypes'
    BY <2>3, NoneAssumption, Items DEF DropBlock, Goto
  <2>4. ASSUME NEW a \in Allocs, Lease(p, a) PROVE ThreadTypes'
    BY <2>4, NoneAssumption, Items DEF Lease
  <2>5. ASSUME NEW a \in Allocs, DropLease(p, a) PROVE ThreadTypes'
    <3>1. CASE phase[a] = "orphan"
      BY <2>5, <3>1, NoneAssumption, Items DEF DropLease, Close
    <3>2. CASE ~(phase[a] = "orphan")
      BY <2>5, <3>2, NoneAssumption, Items DEF DropLease, Close
    <3> QED BY <3>1, <3>2
  <2>6. CASE BeginCapture(p)
    <3>1. CASE Drainable /\ queue # <<>>
      BY <2>6, <3>1, NoneAssumption, Items DEF BeginCapture, DrainThen, Drainable
    <3>2. CASE ~(Drainable /\ queue # <<>>)
      BY <2>6, <3>2, NoneAssumption, Items DEF BeginCapture, DrainThen, Drainable
    <3> QED BY <3>1, <3>2
  <2>7. CASE EndCapture(p)
    <3>1. CASE retiring = None /\ queue # <<>>
      BY <2>7, <3>1, NoneAssumption, Items DEF EndCapture
    <3>2. CASE ~(retiring = None /\ queue # <<>>)
      BY <2>7, <3>2, NoneAssumption, Items DEF EndCapture
    <3> QED BY <3>1, <3>2
  <2>8. CASE Reap(p)
    <3>1. CASE Drainable /\ queue # <<>>
      BY <2>8, <3>1, NoneAssumption, Items DEF Reap, DrainThen, Drainable
    <3>2. CASE ~(Drainable /\ queue # <<>>)
      BY <2>8, <3>2, NoneAssumption, Items DEF Reap, DrainThen, Drainable
    <3> QED BY <3>1, <3>2
  <2>9. CASE Enter(p)
    BY <2>9, NoneAssumption, Items DEF Enter, Goto, MayEnter
  <2>10. CASE EnterRefused(p)
    BY <2>10, NoneAssumption, Items DEF EnterRefused, Goto
  <2>11. CASE Uncaptured(p)
    BY <2>11, NoneAssumption, Items DEF Uncaptured, Goto
  <2>12. CASE CaptureRefused(p)
    BY <2>12, NoneAssumption, Items DEF CaptureRefused, Goto, DropPermit
  <2>13. CASE Malloc(p)
    BY <2>13, NoneAssumption, Items DEF Malloc, Goto
  <2>14. CASE MallocRefused(p)
    BY <2>14, NoneAssumption, Items DEF MallocRefused, Goto, Close
  <2>15. CASE Publish(p)
    BY <2>15, NoneAssumption, Items DEF Publish, Goto, DropPermit
  <2>16. CASE InitFails(p)
    BY <2>16, NoneAssumption, Items DEF InitFails, Goto, Close, RetainFailure
  <2>17. CASE Enqueue(p)
    <3>1. CASE Drainable \/ retiring = p
      BY <2>17, <3>1, Items DEF Enqueue
    <3>2. CASE ~(Drainable \/ retiring = p)
      <4>1. \E s \in {"reap", "begin", "idle"} : pc' = [pc EXCEPT ![p] = s]
        BY <2>17, <3>2 DEF Enqueue, Return
      <4>2. /\ cur' = [cur EXCEPT ![p] = None] /\ item' = [item EXCEPT ![p] = None]
            /\ then' = [then EXCEPT ![p] = "return"] /\ UNCHANGED <<rel, retiring, capturing>>
        BY <2>17, <3>2 DEF Enqueue, Return
      <4> QED BY <4>1, <4>2
    <3> QED BY <3>1, <3>2
  <2>18. CASE DrainNext(p)
    <3>1. Head(queue) \in Retirement
      BY <2>18, ItemQueues DEF DrainNext, QueueTypes
    <3> QED BY <2>18, <3>1 DEF DrainNext, Goto
  <2>19. CASE DrainDone(p)
    BY <2>19, NoneAssumption, Items DEF DrainDone, Return, ExclusionsAfter
  <2>20. ASSUME NEW a \in Allocs, RetireNative(p, a) PROVE ThreadTypes'
    <3>1. CASE lease[a] = "held"
      BY <2>20, <3>1, NoneAssumption, Items DEF RetireNative, Close
    <3>2. CASE ~(lease[a] = "held")
      BY <2>20, <3>2, NoneAssumption, Items DEF RetireNative, Close
    <3> QED BY <3>1, <3>2
  <2>21. ASSUME NEW a \in Allocs, RetireRuntime(p, a) PROVE ThreadTypes'
    BY <2>21, NoneAssumption, Items DEF RetireRuntime, Goto
  <2>22. ASSUME NEW a \in Allocs, RetireBlock(p, a) PROVE ThreadTypes'
    <3>1. CASE phase[a] = "freed"
      BY <2>22, <3>1, NoneAssumption, Items DEF RetireBlock
    <3>2. CASE ~(phase[a] = "freed")
      BY <2>22, <3>2, NoneAssumption, Items DEF RetireBlock
    <3> QED BY <3>1, <3>2
  <2>23. ASSUME NEW a \in Allocs, RetireRaw(p, a) PROVE ThreadTypes'
    BY <2>23, NoneAssumption, Items DEF RetireRaw, Goto
  <2>24. CASE TakeBatch(p)
    BY <2>24, NoneAssumption, Items DEF TakeBatch, Goto
  <2>25. CASE VisitLeased(p)
    BY <2>25, NoneAssumption, Items DEF VisitLeased
  <2>26. CASE VisitUnique(p)
    <3>1. Head(batch[p]) \in Allocs
      BY <2>26, OwnerQueues DEF VisitUnique, QueueTypes
    <3> QED BY <2>26, <3>1 DEF VisitUnique, Goto
  <2>27. CASE ReapDone(p)
    <3>1. ReapedTo(p)
      BY <2>27, <1>a DEF ReapDone
    <3>2. item' \in [Procs -> Retirement \cup {None}] /\ pc' \in [Procs -> PCs]
      BY <3>1, Items DEF ReapedTo
    <3> QED BY <2>27, <3>2 DEF ReapDone
  <2>28. CASE ReleaseUnacquired(p)
    <3>1. CASE item[p] = Raw(rel[p])
      BY <2>28, <3>1, NoneAssumption, Items DEF ReleaseUnacquired, ReleaseDone,
      DropPermit
    <3>2. CASE ~(item[p] = Raw(rel[p]))
      BY <2>28, <3>2, NoneAssumption, Items DEF ReleaseUnacquired, ReleaseDone,
      DropPermit
    <3> QED BY <3>1, <3>2
  <2>29. CASE ReleaseEnter(p)
    BY <2>29, NoneAssumption, Items DEF ReleaseEnter, Goto, MayEnter
  <2>30. CASE ReleaseExclude(p)
    BY <2>30, NoneAssumption, Items DEF ReleaseExclude, Goto, RequireKnown
  <2>31. CASE AwaitFences(p)
    BY <2>31, NoneAssumption, Items DEF AwaitFences, Goto
  <2>32. CASE Free(p)
    <3>1. CASE item[p] = Raw(rel[p])
      BY <2>32, <3>1, NoneAssumption, Items DEF Free, ReleaseDone, DropPermit
    <3>2. CASE ~(item[p] = Raw(rel[p]))
      BY <2>32, <3>2, NoneAssumption, Items DEF Free, ReleaseDone, DropPermit
    <3> QED BY <3>1, <3>2
  <2>33. CASE AcquireCapture(p)
    BY <2>33, NoneAssumption, Items DEF AcquireCapture, Goto, CaptureFree
  <2>34. CASE Fails(p)
    <3>1. FailedTo(p)
      BY <2>34, <1>a DEF Fails
    <3>2. UNCHANGED <<cur, then, retiring, capturing>> /\ rel' = [rel EXCEPT ![p] = None]
      BY <3>1 DEF FailedTo
    <3>3. item' \in [Procs -> Retirement \cup {None}] /\ pc' \in [Procs -> PCs]
      <4>1. CASE item[p] = Raw(rel[p])
        BY <3>1, <4>1 DEF FailedTo
      <4>2. CASE item[p] # Raw(rel[p])
        <5>1. ReapedTo(p)
          BY <3>1, <4>2 DEF FailedTo
        <5> QED BY <5>1, Items DEF ReapedTo
      <4> QED BY <4>1, <4>2
    <3> QED BY <3>2, <3>3
  <2> QED
    BY <1>2, <2>1, <2>2, <2>3, <2>4, <2>5, <2>6, <2>7, <2>8, <2>9, <2>10,
    <2>11, <2>12, <2>13, <2>14, <2>15, <2>16, <2>17, <2>18, <2>19, <2>20,
    <2>21, <2>22, <2>23, <2>24, <2>25, <2>26, <2>27, <2>28, <2>29, <2>30,
    <2>31, <2>32, <2>33, <2>34 DEF Request, Continue, Fails
<1> QED BY <1>1, <1>2 DEF Next

\* Every step keeps the owners' states in their types, and every bound.
LEMMA OwnerTypesStep ==
  ASSUME ThreadTypes, OwnerTypes, Threads, [Next]_vars
  PROVE  OwnerTypes'
<1>a. \A p \in Procs : Fails(p) => FailedTo(p)
  BY FailOutcome
<1> USE DEF ThreadTypes, OwnerTypes, Threads, Attempting, Releasing, Phases,
          exclusionVars, ownerVars, coldVars, captureVars, threadVars
<1>1. CASE UNCHANGED vars
  BY <1>1 DEF vars
<1>2. ASSUME NEW p \in Procs, Request(p) \/ Continue(p) PROVE OwnerTypes'
  <2>1. ASSUME NEW a \in Allocs, Allocate(p, a) PROVE OwnerTypes'
    BY <2>1, NoneAssumption, Items DEF Allocate, Goto
  <2>2. ASSUME NEW a \in Allocs, DropStorage(p, a) PROVE OwnerTypes'
    BY <2>2, NoneAssumption, Items DEF DropStorage, Goto
  <2>3. ASSUME NEW a \in Allocs, DropBlock(p, a) PROVE OwnerTypes'
    BY <2>3, NoneAssumption, Items DEF DropBlock, Goto
  <2>4. ASSUME NEW a \in Allocs, Lease(p, a) PROVE OwnerTypes'
    BY <2>4, NoneAssumption, Items, Spending, BoundKinds DEF Lease
  <2>5. ASSUME NEW a \in Allocs, DropLease(p, a) PROVE OwnerTypes'
    <3>1. CASE phase[a] = "orphan"
      <4>1. lease' \in [Allocs -> {"none", "held", "closed"}] /\ phase' \in [Allocs -> Phases]
        BY <2>5, <3>1 DEF DropLease, Close
      <4>2. UNCHANGED <<active, failed, permit, acquired, freeState, unknown, used>>
        BY <2>5 DEF DropLease
      <4> QED BY <4>1, <4>2
    <3>2. CASE phase[a] # "orphan"
      BY <2>5, <3>2 DEF DropLease
    <3> QED BY <3>1, <3>2
  <2>6. CASE BeginCapture(p)
    <3>1. CASE Drainable /\ queue # <<>>
      BY <2>6, <3>1, NoneAssumption, Items, Spending,
      BoundKinds DEF BeginCapture, DrainThen, Drainable
    <3>2. CASE ~(Drainable /\ queue # <<>>)
      BY <2>6, <3>2, NoneAssumption, Items, Spending,
      BoundKinds DEF BeginCapture, DrainThen, Drainable
    <3> QED BY <3>1, <3>2
  <2>7. CASE EndCapture(p)
    <3>1. CASE retiring = None /\ queue # <<>>
      BY <2>7, <3>1, NoneAssumption, Items DEF EndCapture
    <3>2. CASE ~(retiring = None /\ queue # <<>>)
      BY <2>7, <3>2, NoneAssumption, Items DEF EndCapture
    <3> QED BY <3>1, <3>2
  <2>8. CASE Reap(p)
    <3>1. CASE Drainable /\ queue # <<>>
      BY <2>8, <3>1, NoneAssumption, Items DEF Reap, DrainThen, Drainable
    <3>2. CASE ~(Drainable /\ queue # <<>>)
      BY <2>8, <3>2, NoneAssumption, Items DEF Reap, DrainThen, Drainable
    <3> QED BY <3>1, <3>2
  <2>9. CASE Enter(p)
    BY <2>9, NoneAssumption, Items DEF Enter, Goto, MayEnter
  <2>10. CASE EnterRefused(p)
    BY <2>10, NoneAssumption, Items DEF EnterRefused, Goto
  <2>11. CASE Uncaptured(p)
    BY <2>11, NoneAssumption, Items DEF Uncaptured, Goto
  <2>12. CASE CaptureRefused(p)
    BY <2>12, NoneAssumption, Items DEF CaptureRefused, Goto, DropPermit
  <2>13. CASE Malloc(p)
    BY <2>13, NoneAssumption, Items DEF Malloc, Goto
  <2>14. CASE MallocRefused(p)
    BY <2>14, NoneAssumption, Items, Spending, BoundKinds DEF MallocRefused,
    Goto, Close
  <2>15. CASE Publish(p)
    BY <2>15, NoneAssumption, Items DEF Publish, Goto, DropPermit
  <2>16. CASE InitFails(p)
    BY <2>16, NoneAssumption, Items, Spending, BoundKinds DEF InitFails, Goto,
    Close, RetainFailure
  <2>17. CASE Enqueue(p)
    <3>1. CASE Drainable \/ retiring = p
      BY <2>17, <3>1, NoneAssumption, Items DEF Enqueue, Drainable, Return,
      ExclusionsAfter
    <3>2. CASE ~(Drainable \/ retiring = p)
      BY <2>17, <3>2, NoneAssumption, Items DEF Enqueue, Drainable, Return,
      ExclusionsAfter
    <3> QED BY <3>1, <3>2
  <2>18. CASE DrainNext(p)
    BY <2>18, NoneAssumption, Items DEF DrainNext, Goto
  <2>19. CASE DrainDone(p)
    BY <2>19, NoneAssumption, Items DEF DrainDone, Return, ExclusionsAfter
  <2>20. ASSUME NEW a \in Allocs, RetireNative(p, a) PROVE OwnerTypes'
    <3>1. CASE lease[a] = "held"
      BY <2>20, <3>1, NoneAssumption, Items DEF RetireNative, Close
    <3>2. CASE ~(lease[a] = "held")
      BY <2>20, <3>2, NoneAssumption, Items DEF RetireNative, Close
    <3> QED BY <3>1, <3>2
  <2>21. ASSUME NEW a \in Allocs, RetireRuntime(p, a) PROVE OwnerTypes'
    BY <2>21, NoneAssumption, Items DEF RetireRuntime, Goto
  <2>22. ASSUME NEW a \in Allocs, RetireBlock(p, a) PROVE OwnerTypes'
    <3>1. CASE phase[a] = "freed"
      BY <2>22, <3>1, NoneAssumption, Items DEF RetireBlock
    <3>2. CASE ~(phase[a] = "freed")
      BY <2>22, <3>2, NoneAssumption, Items DEF RetireBlock
    <3> QED BY <3>1, <3>2
  <2>23. ASSUME NEW a \in Allocs, RetireRaw(p, a) PROVE OwnerTypes'
    BY <2>23, NoneAssumption, Items DEF RetireRaw, Goto
  <2>24. CASE TakeBatch(p)
    BY <2>24, NoneAssumption, Items DEF TakeBatch, Goto
  <2>25. CASE VisitLeased(p)
    BY <2>25, NoneAssumption, Items DEF VisitLeased
  <2>26. CASE VisitUnique(p)
    BY <2>26, NoneAssumption, Items DEF VisitUnique, Goto, Close
  <2>27. CASE ReapDone(p)
    BY <2>27 DEF ReapDone
  <2>28. CASE ReleaseUnacquired(p)
    <3>1. CASE item[p] = Raw(rel[p])
      BY <2>28, <3>1, NoneAssumption, Items DEF ReleaseUnacquired, ReleaseDone,
      DropPermit
    <3>2. CASE ~(item[p] = Raw(rel[p]))
      BY <2>28, <3>2, NoneAssumption, Items DEF ReleaseUnacquired, ReleaseDone,
      DropPermit
    <3> QED BY <3>1, <3>2
  <2>29. CASE ReleaseEnter(p)
    BY <2>29, NoneAssumption, Items DEF ReleaseEnter, Goto, MayEnter
  <2>30. CASE ReleaseRefused(p)
    <3>1. FailedTo(p)
      BY <2>30, <1>a DEF Fails
    <3>2. /\ rel[p] \in Allocs
          /\ unknown' = unknown \/ unknown' = unknown \cup {rel[p]}
      BY <3>1 DEF FailedTo
    <3>3. UNCHANGED <<exclusionVars, ownerVars, used>>
      BY <2>30 DEF ReleaseRefused
    <3>4. unknown' \subseteq Allocs
      BY <3>2
    <3> QED BY <3>3, <3>4
  <2>31. CASE ReleaseExcluded(p)
    <3>1. FailedTo(p)
      BY <2>31, <1>a DEF Fails
    <3> QED BY <2>31, <3>1 DEF ReleaseExcluded, FailedTo, RetainFailure
  <2>32. CASE ReleaseExclude(p)
    BY <2>32, NoneAssumption, Items DEF ReleaseExclude, Goto, RequireKnown
  <2>33. CASE AwaitFences(p)
    BY <2>33, NoneAssumption, Items DEF AwaitFences, Goto
  <2>34. CASE FencesFail(p)
    <3>1. FailedTo(p)
      BY <2>34, <1>a DEF Fails
    <3> QED BY <2>34, <3>1, Spending, BoundKinds DEF FencesFail, FailedTo, RetainFailure
  <2>35. CASE Free(p)
    <3>1. CASE item[p] = Raw(rel[p])
      BY <2>35, <3>1, NoneAssumption, Items DEF Free, ReleaseDone, DropPermit
    <3>2. CASE ~(item[p] = Raw(rel[p]))
      BY <2>35, <3>2, NoneAssumption, Items DEF Free, ReleaseDone, DropPermit
    <3> QED BY <3>1, <3>2
  <2>36. CASE FreeUnknown(p)
    <3>1. FailedTo(p)
      BY <2>36, <1>a DEF Fails
    <3> QED BY <2>36, <3>1, Spending, BoundKinds DEF FreeUnknown, FailedTo, RetainFailure
  <2>37. CASE AcquireCapture(p)
    BY <2>37, NoneAssumption, Items DEF AcquireCapture, Goto, CaptureFree
  <2> QED
    BY <1>2, <2>1, <2>2, <2>3, <2>4, <2>5, <2>6, <2>7, <2>8, <2>9, <2>10,
    <2>11, <2>12, <2>13, <2>14, <2>15, <2>16, <2>17, <2>18, <2>19, <2>20,
    <2>21, <2>22, <2>23, <2>24, <2>25, <2>26, <2>27, <2>28, <2>29, <2>30,
    <2>31, <2>32, <2>33, <2>34, <2>35, <2>36, <2>37 DEF Request, Continue
<1> QED BY <1>1, <1>2 DEF Next

\* Every step leaves queues of retirements and of owners.
LEMMA QueueTypesStep ==
  ASSUME ThreadTypes, QueueTypes, Threads, [Next]_vars
  PROVE  QueueTypes'
<1>a. \A p \in Procs : AfterReap(p) => retry' \in Seq(Retirement)
  BY ReapOutcome, ReapedQueue
<1>b. ASSUME NEW p \in Procs, Fails(p) PROVE QueueTypes'
  BY <1>b, FailOutcome, FailedQueues
<1> USE DEF ThreadTypes, QueueTypes, Threads, Attempting, Releasing,
          exclusionVars, ownerVars, coldVars, captureVars, threadVars
<1>1. CASE UNCHANGED vars
  BY <1>1 DEF vars
<1>2. ASSUME NEW p \in Procs, Request(p) \/ Continue(p) PROVE QueueTypes'
  <2>1. ASSUME NEW a \in Allocs, Allocate(p, a) PROVE QueueTypes'
    BY <2>1, NoneAssumption, Items DEF Allocate, Goto
  <2>2. ASSUME NEW a \in Allocs, DropStorage(p, a) PROVE QueueTypes'
    BY <2>2, NoneAssumption, Items DEF DropStorage, Goto
  <2>3. ASSUME NEW a \in Allocs, DropBlock(p, a) PROVE QueueTypes'
    BY <2>3, NoneAssumption, Items DEF DropBlock, Goto
  <2>4. ASSUME NEW a \in Allocs, Lease(p, a) PROVE QueueTypes'
    BY <2>4, NoneAssumption, Items DEF Lease
  <2>5. ASSUME NEW a \in Allocs, DropLease(p, a) PROVE QueueTypes'
    <3>1. CASE phase[a] = "orphan"
      BY <2>5, <3>1, NoneAssumption, Items DEF DropLease, Close
    <3>2. CASE ~(phase[a] = "orphan")
      BY <2>5, <3>2, NoneAssumption, Items DEF DropLease, Close
    <3> QED BY <3>1, <3>2
  <2>6. CASE BeginCapture(p)
    <3>1. CASE Drainable /\ queue # <<>>
      BY <2>6, <3>1, NoneAssumption, Items DEF BeginCapture, DrainThen, Drainable
    <3>2. CASE ~(Drainable /\ queue # <<>>)
      BY <2>6, <3>2, NoneAssumption, Items DEF BeginCapture, DrainThen, Drainable
    <3> QED BY <3>1, <3>2
  <2>7. CASE EndCapture(p)
    <3>1. CASE retiring = None /\ queue # <<>>
      BY <2>7, <3>1, NoneAssumption, Items DEF EndCapture
    <3>2. CASE ~(retiring = None /\ queue # <<>>)
      BY <2>7, <3>2, NoneAssumption, Items DEF EndCapture
    <3> QED BY <3>1, <3>2
  <2>8. CASE Reap(p)
    <3>1. CASE Drainable /\ queue # <<>>
      BY <2>8, <3>1, NoneAssumption, Items DEF Reap, DrainThen, Drainable
    <3>2. CASE ~(Drainable /\ queue # <<>>)
      BY <2>8, <3>2, NoneAssumption, Items DEF Reap, DrainThen, Drainable
    <3> QED BY <3>1, <3>2
  <2>9. CASE Enter(p)
    BY <2>9, NoneAssumption, Items DEF Enter, Goto, MayEnter
  <2>10. CASE EnterRefused(p)
    BY <2>10, NoneAssumption, Items DEF EnterRefused, Goto
  <2>11. CASE Uncaptured(p)
    BY <2>11, NoneAssumption, Items DEF Uncaptured, Goto
  <2>12. CASE CaptureRefused(p)
    BY <2>12, NoneAssumption, Items DEF CaptureRefused, Goto, DropPermit
  <2>13. CASE Malloc(p)
    BY <2>13, NoneAssumption, Items DEF Malloc, Goto
  <2>14. CASE MallocRefused(p)
    BY <2>14, NoneAssumption, Items DEF MallocRefused, Goto, Close
  <2>15. CASE Publish(p)
    BY <2>15, NoneAssumption, Items DEF Publish, Goto, DropPermit
  <2>16. CASE InitFails(p)
    BY <2>16, NoneAssumption, Items DEF InitFails, Goto, Close, RetainFailure
  <2>17. CASE Enqueue(p)
    <3>1. CASE Drainable \/ retiring = p
      BY <2>17, <3>1, NoneAssumption, Items DEF Enqueue, Drainable, Return,
      ExclusionsAfter
    <3>2. CASE ~(Drainable \/ retiring = p)
      BY <2>17, <3>2, NoneAssumption, Items DEF Enqueue, Drainable, Return,
      ExclusionsAfter
    <3> QED BY <3>1, <3>2
  <2>18. CASE DrainNext(p)
    BY <2>18, NoneAssumption, Items DEF DrainNext, Goto
  <2>19. CASE DrainDone(p)
    BY <2>19, NoneAssumption, Items DEF DrainDone, Return, ExclusionsAfter
  <2>20. ASSUME NEW a \in Allocs, RetireNative(p, a) PROVE QueueTypes'
    <3>1. CASE lease[a] = "held"
      BY <2>20, <3>1, NoneAssumption, Items DEF RetireNative, Close
    <3>2. CASE ~(lease[a] = "held")
      BY <2>20, <3>2, NoneAssumption, Items DEF RetireNative, Close
    <3> QED BY <3>1, <3>2
  <2>21. ASSUME NEW a \in Allocs, RetireRuntime(p, a) PROVE QueueTypes'
    BY <2>21, NoneAssumption, Items DEF RetireRuntime, Goto
  <2>22. ASSUME NEW a \in Allocs, RetireBlock(p, a) PROVE QueueTypes'
    <3>1. CASE phase[a] = "freed"
      BY <2>22, <3>1, NoneAssumption, Items DEF RetireBlock
    <3>2. CASE ~(phase[a] = "freed")
      BY <2>22, <3>2, NoneAssumption, Items DEF RetireBlock
    <3> QED BY <3>1, <3>2
  <2>23. ASSUME NEW a \in Allocs, RetireRaw(p, a) PROVE QueueTypes'
    BY <2>23, NoneAssumption, Items DEF RetireRaw, Goto
  <2>24. CASE TakeBatch(p)
    BY <2>24, NoneAssumption, Items DEF TakeBatch, Goto
  <2>25. CASE VisitLeased(p)
    BY <2>25, NoneAssumption, Items DEF VisitLeased
  <2>26. CASE VisitUnique(p)
    BY <2>26, NoneAssumption, Items DEF VisitUnique, Goto, Close
  <2>27. CASE ReapDone(p)
    <3>0. AfterReap(p)
      BY <2>27 DEF ReapDone
    <3>1. retry' \in Seq(Retirement)
      BY <3>0, <1>a
    <3>2. pending' \in Seq(Allocs)
      BY <2>27, OwnerQueues DEF ReapDone, Merge
    <3> QED BY <2>27, <3>1, <3>2, OwnerQueues DEF ReapDone
  <2>28. CASE ReleaseUnacquired(p)
    <3>1. CASE item[p] = Raw(rel[p])
      BY <2>28, <3>1, NoneAssumption, Items DEF ReleaseUnacquired, ReleaseDone,
      DropPermit
    <3>2. CASE ~(item[p] = Raw(rel[p]))
      BY <2>28, <3>2, NoneAssumption, Items DEF ReleaseUnacquired, ReleaseDone,
      DropPermit
    <3> QED BY <3>1, <3>2
  <2>29. CASE ReleaseEnter(p)
    BY <2>29, NoneAssumption, Items DEF ReleaseEnter, Goto, MayEnter
  <2>30. CASE ReleaseExclude(p)
    BY <2>30, NoneAssumption, Items DEF ReleaseExclude, Goto, RequireKnown
  <2>31. CASE AwaitFences(p)
    BY <2>31, NoneAssumption, Items DEF AwaitFences, Goto
  <2>32. CASE Free(p)
    <3>1. CASE item[p] = Raw(rel[p])
      BY <2>32, <3>1, NoneAssumption, Items DEF Free, ReleaseDone, DropPermit
    <3>2. CASE ~(item[p] = Raw(rel[p]))
      BY <2>32, <3>2, NoneAssumption, Items DEF Free, ReleaseDone, DropPermit
    <3> QED BY <3>1, <3>2
  <2>33. CASE AcquireCapture(p)
    BY <2>33, NoneAssumption, Items DEF AcquireCapture, Goto, CaptureFree
  <2>34. CASE Fails(p)
    BY <2>34, <1>b
  <2> QED
    BY <1>2, <2>1, <2>2, <2>3, <2>4, <2>5, <2>6, <2>7, <2>8, <2>9, <2>10,
    <2>11, <2>12, <2>13, <2>14, <2>15, <2>16, <2>17, <2>18, <2>19, <2>20,
    <2>21, <2>22, <2>23, <2>24, <2>25, <2>26, <2>27, <2>28, <2>29, <2>30,
    <2>31, <2>32, <2>33, <2>34 DEF Request, Continue, Fails
<1> QED BY <1>1, <1>2 DEF Next

-----------------------------------------------------------------------------
(* Where the dropped owners are.                                           *)

\* The owner of a failed attempt goes to its thread's hands.
LEMMA MallocRefusedTracked ==
  ASSUME ThreadTypes, QueueTypes, Threads, Attempts, Tracked,
         ThreadTypes', Threads', NEW p \in Procs, MallocRefused(p), OwnerTypes
  PROVE  Tracked'
<1>0. cur[p] \in Allocs /\ phase[cur[p]] = "attempt" /\ pc[p] \notin Releasing \cup {"enqueue", "item"}
  BY DEF MallocRefused, Goto, ThreadTypes, Threads, Attempts, Attempting, Releasing
<1>1. /\ UNCHANGED <<queue, retry, pending, unknown, batch, kept, rel>>
      /\ phase' = [phase EXCEPT ![cur[p]] = "dropped"] /\ item'[p] = Raw(cur[p]) /\ pc'[p] = "enqueue"
      /\ \A q \in Procs : q # p => item'[q] = item[q] /\ pc'[q] = pc[q] /\ rel'[q] = rel[q]
  BY DEF MallocRefused, Goto, ThreadTypes, coldVars
<1>2. \A q \in Procs, x \in Allocs : q # p => (InHand(q, x)' <=> InHand(q, x))
  BY <1>1, OtherHands DEF ThreadTypes
<1>3. \A x \in Allocs : ~InHand(p, x) /\ (InHand(p, x)' <=> x = cur[p])
  BY <1>0, <1>1, Hands, Items DEF HandOf, OwnerItems, Releasing
<1>5. Arrives(cur[p], p, "hand")
  BY <1>0, <1>1, <1>2, <1>3, HolderKinds DEF Arrives, Place, Waiting, OwnerTypes
<1>6. Singles'
  BY <1>1, SameSingles
<1> QED BY <1>5, <1>6, Arrived, <1>0, HolderKinds

\* The owner of a failed attempt goes to its thread's hands.
LEMMA InitFailsTracked ==
  ASSUME ThreadTypes, QueueTypes, Threads, Attempts, Tracked,
         ThreadTypes', Threads', NEW p \in Procs, InitFails(p), OwnerTypes
  PROVE  Tracked'
<1>0. cur[p] \in Allocs /\ phase[cur[p]] = "attempt" /\ pc[p] \notin Releasing \cup {"enqueue", "item"}
  BY DEF InitFails, Goto, ThreadTypes, Threads, Attempts, Attempting, Releasing
<1>1. /\ UNCHANGED <<queue, retry, pending, unknown, batch, kept, rel>>
      /\ phase' = [phase EXCEPT ![cur[p]] = "dropped"] /\ item'[p] = Raw(cur[p]) /\ pc'[p] = "enqueue"
      /\ \A q \in Procs : q # p => item'[q] = item[q] /\ pc'[q] = pc[q] /\ rel'[q] = rel[q]
  BY DEF InitFails, Goto, ThreadTypes, coldVars
<1>2. \A q \in Procs, x \in Allocs : q # p => (InHand(q, x)' <=> InHand(q, x))
  BY <1>1, OtherHands DEF ThreadTypes
<1>3. \A x \in Allocs : ~InHand(p, x) /\ (InHand(p, x)' <=> x = cur[p])
  BY <1>0, <1>1, Hands, Items DEF HandOf, OwnerItems, Releasing
<1>5. Arrives(cur[p], p, "hand")
  BY <1>0, <1>1, <1>2, <1>3, HolderKinds DEF Arrives, Place, Waiting, OwnerTypes
<1>6. Singles'
  BY <1>1, SameSingles
<1> QED BY <1>5, <1>6, Arrived, <1>0, HolderKinds

\* A storage that is dropped is in the hands of the thread that drops it.
LEMMA DropStorageTracked ==
  ASSUME ThreadTypes, QueueTypes, Threads, Attempts, Tracked,
         ThreadTypes', Threads', NEW p \in Procs, NEW a \in Allocs, DropStorage(p, a), OwnerTypes
  PROVE  Tracked'
<1>0. phase[a] = "live" /\ pc[p] \notin Releasing \cup {"enqueue", "item"}
  BY DEF DropStorage, Goto, Releasing
<1>1. /\ UNCHANGED <<queue, retry, pending, unknown, batch, kept, rel>>
      /\ phase' = [phase EXCEPT ![a] = "dropped"] /\ item'[p] = Storage(a) /\ pc'[p] = "enqueue"
      /\ \A q \in Procs : q # p => item'[q] = item[q] /\ pc'[q] = pc[q] /\ rel'[q] = rel[q]
  BY DEF DropStorage, Goto, ThreadTypes, coldVars
<1>2. \A q \in Procs, x \in Allocs : q # p => (InHand(q, x)' <=> InHand(q, x))
  BY <1>1, OtherHands DEF ThreadTypes
<1>3. \A x \in Allocs : ~InHand(p, x) /\ (InHand(p, x)' <=> x = a)
  BY <1>0, <1>1, Hands, Items DEF HandOf, OwnerItems, Releasing
<1>5. Arrives(a, p, "hand")
  BY <1>0, <1>1, <1>2, <1>3, HolderKinds DEF Arrives, Place, Waiting, OwnerTypes
<1>6. Singles'
  BY <1>1, SameSingles
<1> QED BY <1>5, <1>6, Arrived, HolderKinds

\* A block that is dropped is in the backend's pending queue.
LEMMA DropBlockTracked ==
  ASSUME ThreadTypes, QueueTypes, Threads, Attempts, Tracked,
         ThreadTypes', Threads', NEW p \in Procs, NEW a \in Allocs, DropBlock(p, a), OwnerTypes
  PROVE  Tracked'
<1>0. phase[a] = "live" /\ pc[p] \notin Releasing \cup {"enqueue", "item"} /\ pending \in Seq(Allocs)
  BY DEF DropBlock, Goto, Releasing, QueueTypes
<1>1. /\ UNCHANGED <<queue, retry, unknown, batch, kept, rel>> /\ pending' = Append(pending, a)
      /\ phase' = [phase EXCEPT ![a] = "dropped"] /\ pc'[p] = "reap"
      /\ \A q \in Procs : q # p => item'[q] = item[q] /\ pc'[q] = pc[q] /\ rel'[q] = rel[q]
  BY DEF DropBlock, Goto, ThreadTypes, coldVars
<1>2. \A q \in Procs, x \in Allocs : q # p => (InHand(q, x)' <=> InHand(q, x))
  BY <1>1, OtherHands DEF ThreadTypes
<1>3. \A x \in Allocs : ~InHand(p, x) /\ ~InHand(p, x)'
  BY <1>0, <1>1, Hands DEF HandOf, Releasing
<1>4. \A x \in Allocs : /\ Has(pending', {x}) <=> Has(pending, {x}) \/ x = a
                        /\ Single(pending, {x}) /\ ~(Has(pending, {x}) /\ x = a) => Single(pending', {x})
  BY <1>0, <1>1, HasAppend
<1>5. Arrives(a, None, "pending")
  BY <1>0, <1>1, <1>2, <1>3, <1>4, HolderKinds DEF Arrives, Place, Waiting, OwnerTypes
<1>6. Singles'
  <2>1. ~Has(pending, {a})
    BY <1>0, HolderKinds DEF Place, Tracked
  <2> QED BY <1>1, <1>4, <2>1 DEF Singles, Tracked
<1> QED BY <1>5, <1>6, Arrived, HolderKinds

\* The last lease of an orphan gives its owner to the thread that drops it.
LEMMA DropLeaseTracked ==
  ASSUME ThreadTypes, QueueTypes, Threads, Attempts, Tracked,
         ThreadTypes', Threads', NEW p \in Procs, NEW a \in Allocs, DropLease(p, a), OwnerTypes, phase[a] = "orphan"
  PROVE  Tracked'
<1>0. pc[p] \notin Releasing \cup {"enqueue", "item"}
  BY DEF DropLease, Releasing
<1>1. /\ UNCHANGED <<queue, retry, pending, unknown, batch, kept, rel>>
      /\ phase' = [phase EXCEPT ![a] = "dropped"] /\ item'[p] = Raw(a) /\ pc'[p] = "enqueue"
      /\ \A q \in Procs : q # p => item'[q] = item[q] /\ pc'[q] = pc[q] /\ rel'[q] = rel[q]
  BY DEF DropLease, ThreadTypes, coldVars
<1>2. \A q \in Procs, x \in Allocs : q # p => (InHand(q, x)' <=> InHand(q, x))
  BY <1>1, OtherHands DEF ThreadTypes
<1>3. \A x \in Allocs : ~InHand(p, x) /\ (InHand(p, x)' <=> x = a)
  BY <1>0, <1>1, Hands, Items DEF HandOf, OwnerItems, Releasing
<1>5. Sends({a}, None, {"leased"}, p, "hand")
  <2>1. \A x \in Allocs : x \in {a} => \E k \in {"leased"} : Place(x, None, k)
    BY <1>1 DEF Place
  <2>2. \A x \in Allocs, r \in Holder, m \in Kinds :
          Place(x, r, m)' <=> \/ Place(x, r, m) /\ ~(x \in {a} /\ r = None /\ m \in {"leased"})
                              \/ x \in {a} /\ r = p /\ m = "hand"
    BY <1>0, <1>1, <1>2, <1>3, NoneAssumption DEF Place, Holder, OwnerTypes
  <2>3. \A x \in Allocs : Waiting(x)' <=> Waiting(x)
    BY <1>1 DEF Waiting, OwnerTypes
  <2> QED BY <2>1, <2>2, <2>3 DEF Sends
<1>6. Singles'
  BY <1>1, SameSingles
<1> QED BY <1>5, <1>6, Sent, HolderKinds

\* The owner in a thread's hands is queued.
LEMMA EnqueueTracked ==
  ASSUME ThreadTypes, QueueTypes, Threads, Attempts, Tracked,
         ThreadTypes', Threads', NEW p \in Procs, Enqueue(p)
  PROVE  Tracked'
<1> DEFINE A == {x \in Allocs : item[p] \in OwnerItems(x)}
<1>0. pc[p] = "enqueue" /\ item[p] \in Retirement /\ queue \in Seq(Retirement)
  BY DEF Enqueue, Threads, ThreadTypes, QueueTypes
<1>1. /\ UNCHANGED <<phase, retry, pending, unknown, batch, kept, rel>>
      /\ queue' = Append(queue, item[p]) /\ item'[p] = None
      /\ \A q \in Procs : q # p => item'[q] = item[q] /\ pc'[q] = pc[q] /\ rel'[q] = rel[q]
  BY DEF Enqueue, Return, ThreadTypes, ownerVars
<1>2. \A q \in Procs, x \in Allocs : q # p => (InHand(q, x)' <=> InHand(q, x))
  BY <1>1, OtherHands DEF ThreadTypes
<1>3. \A x \in Allocs : (InHand(p, x) <=> item[p] \in OwnerItems(x)) /\ ~InHand(p, x)'
  BY <1>0, <1>1, Hands, Items, NoneAssumption DEF HandOf, OwnerItems, Releasing, Threads, ThreadTypes
<1>4. \A x \in Allocs : /\ Has(queue', OwnerItems(x)) <=> Has(queue, OwnerItems(x)) \/ x \in A
                        /\ Single(queue, OwnerItems(x)) /\ ~(Has(queue, OwnerItems(x)) /\ x \in A)
                               => Single(queue', OwnerItems(x))
  BY <1>0, <1>1, HasAppend
<1>5. Sends(A, p, {"hand"}, None, "queue")
  <2>1. \A x \in Allocs : x \in A => \E k \in {"hand"} : Place(x, p, k)
    BY <1>3 DEF Place
  <2>2. \A x \in Allocs, r \in Holder, m \in Kinds :
          Place(x, r, m)' <=> \/ Place(x, r, m) /\ ~(x \in A /\ r = p /\ m \in {"hand"})
                              \/ x \in A /\ r = None /\ m = "queue"
    BY <1>1, <1>2, <1>3, <1>4, NoneAssumption DEF Place, Holder
  <2>3. \A x \in Allocs : Waiting(x)' <=> Waiting(x)
    BY <1>1 DEF Waiting
  <2> QED BY <2>1, <2>2, <2>3 DEF Sends
<1>6. Singles'
  <2>1. \A x \in Allocs : ~(Has(queue, OwnerItems(x)) /\ x \in A)
    BY <1>3, HolderKinds DEF Place, Tracked
  <2> QED BY <1>1, <1>4, <2>1 DEF Singles, Tracked
<1> QED BY <1>5, <1>6, Sent, HolderKinds

\* The owner at the head of the queue is taken into the hands of the draining thread.
LEMMA DrainNextTracked ==
  ASSUME ThreadTypes, QueueTypes, Threads, Attempts, Tracked,
         ThreadTypes', Threads', NEW p \in Procs, DrainNext(p)
  PROVE  Tracked'
<1> DEFINE A == {x \in Allocs : Head(queue) \in OwnerItems(x)}
<1>0. pc[p] \notin Releasing \cup {"enqueue", "item"} /\ queue \in Seq(Retirement) /\ queue # <<>>
  BY DEF DrainNext, Goto, Releasing, QueueTypes
<1>1. /\ UNCHANGED <<phase, retry, pending, unknown, batch, kept, rel>>
      /\ queue' = Tail(queue) /\ item'[p] = Head(queue) /\ pc'[p] = "item"
      /\ \A q \in Procs : q # p => item'[q] = item[q] /\ pc'[q] = pc[q] /\ rel'[q] = rel[q]
  BY DEF DrainNext, Goto, ThreadTypes, ownerVars
<1>2. \A q \in Procs, x \in Allocs : q # p => (InHand(q, x)' <=> InHand(q, x))
  BY <1>1, OtherHands DEF ThreadTypes
<1>3. \A x \in Allocs : ~InHand(p, x) /\ (InHand(p, x)' <=> Head(queue) \in OwnerItems(x))
  BY <1>0, <1>1, Hands DEF HandOf, Releasing
<1>4. \A x \in Allocs : /\ Has(queue, OwnerItems(x)) <=> x \in A \/ Has(queue', OwnerItems(x))
                        /\ Single(queue, OwnerItems(x)) =>
                               Single(queue', OwnerItems(x)) /\ ~(x \in A /\ Has(queue', OwnerItems(x)))
  BY <1>0, <1>1, HasTail
<1>5. Sends(A, None, {"queue"}, p, "hand")
  <2>0. \A x \in Allocs : Single(queue, OwnerItems(x))
    BY DEF Tracked
  <2>1. \A x \in Allocs : x \in A => \E k \in {"queue"} : Place(x, None, k)
    BY <1>4 DEF Place
  <2>2. \A x \in Allocs, r \in Holder, m \in Kinds :
          Place(x, r, m)' <=> \/ Place(x, r, m) /\ ~(x \in A /\ r = None /\ m \in {"queue"})
                              \/ x \in A /\ r = p /\ m = "hand"
    BY <1>1, <1>2, <1>3, <1>4, <2>0, NoneAssumption DEF Place, Holder
  <2>3. \A x \in Allocs : Waiting(x)' <=> Waiting(x)
    BY <1>1 DEF Waiting
  <2> QED BY <2>1, <2>2, <2>3 DEF Sends
<1>6. Singles'
  BY <1>1, <1>4 DEF Singles, Tracked
<1> QED BY <1>5, <1>6, Sent, HolderKinds

\* What a drain could not finish is queued again.
LEMMA DrainDoneTracked ==
  ASSUME ThreadTypes, QueueTypes, Threads, Attempts, Tracked,
         ThreadTypes', Threads', NEW p \in Procs, DrainDone(p)
  PROVE  Tracked'
<1> DEFINE A == {x \in Allocs : Has(retry, OwnerItems(x))}
<1>0. pc[p] \notin Releasing \cup {"enqueue", "item"} /\ queue = <<>>
  BY DEF DrainDone, Releasing
<1>1. /\ UNCHANGED <<phase, pending, unknown, batch, kept, rel, item>>
      /\ queue' = retry /\ retry' = <<>> /\ pc'[p] \in {"idle", "reap", "begin"}
      /\ \A q \in Procs : q # p => item'[q] = item[q] /\ pc'[q] = pc[q] /\ rel'[q] = rel[q]
  BY DEF DrainDone, Return, ThreadTypes, ownerVars
<1>2. \A q \in Procs, x \in Allocs : q # p => (InHand(q, x)' <=> InHand(q, x))
  BY <1>1, OtherHands DEF ThreadTypes
<1>3. \A x \in Allocs : ~InHand(p, x) /\ ~InHand(p, x)'
  BY <1>0, <1>1, Hands DEF HandOf, Releasing
<1>4. \A x \in Allocs : /\ ~Has(queue, OwnerItems(x)) /\ ~Has(retry', OwnerItems(x))
                        /\ Single(retry', OwnerItems(x))
  BY <1>0, <1>1, HasNone
<1>5. Sends(A, None, {"retry"}, None, "queue")
  <2>1. \A x \in Allocs : x \in A => \E k \in {"retry"} : Place(x, None, k)
    BY DEF Place
  <2>2. \A x \in Allocs, r \in Holder, m \in Kinds :
          Place(x, r, m)' <=> \/ Place(x, r, m) /\ ~(x \in A /\ r = None /\ m \in {"retry"})
                              \/ x \in A /\ r = None /\ m = "queue"
    BY <1>1, <1>2, <1>3, <1>4, NoneAssumption DEF Place, Holder
  <2>3. \A x \in Allocs : Waiting(x)' <=> Waiting(x)
    BY <1>1 DEF Waiting
  <2> QED BY <2>1, <2>2, <2>3 DEF Sends
<1>6. Singles'
  BY <1>1, <1>4 DEF Singles, Tracked
<1> QED BY <1>5, <1>6, Sent, HolderKinds

\* A leased native owner waits for its last lease.
LEMMA RetireNativeTracked ==
  ASSUME ThreadTypes, QueueTypes, Threads, Attempts, Tracked,
         ThreadTypes', Threads', NEW p \in Procs, NEW a \in Allocs, RetireNative(p, a), OwnerTypes, lease[a] = "held"
  PROVE  Tracked'
<1>0. pc[p] = "item" /\ item[p] = Storage(a)
  BY DEF RetireNative
<1>1. /\ UNCHANGED <<queue, retry, pending, unknown, batch, kept, rel>>
      /\ phase' = [phase EXCEPT ![a] = "orphan"] /\ item'[p] = None /\ pc'[p] = "drain"
      /\ \A q \in Procs : q # p => item'[q] = item[q] /\ pc'[q] = pc[q] /\ rel'[q] = rel[q]
  BY DEF RetireNative, ThreadTypes, coldVars
<1>2. \A q \in Procs, x \in Allocs : q # p => (InHand(q, x)' <=> InHand(q, x))
  BY <1>1, OtherHands DEF ThreadTypes
<1>3. \A x \in Allocs : (InHand(p, x) <=> x = a) /\ ~InHand(p, x)'
  BY <1>0, <1>1, Hands, Items DEF HandOf, OwnerItems, Releasing
<1>5. Sends({a}, p, {"hand"}, None, "leased")
  <2>0. phase[a] \in {"dropped", "orphan"}
    BY <1>3, HolderKinds DEF Place, Tracked
  <2>1. \A x \in Allocs : x \in {a} => \E k \in {"hand"} : Place(x, p, k)
    BY <1>3 DEF Place
  <2>2. \A x \in Allocs, r \in Holder, m \in Kinds :
          Place(x, r, m)' <=> \/ Place(x, r, m) /\ ~(x \in {a} /\ r = p /\ m \in {"hand"})
                              \/ x \in {a} /\ r = None /\ m = "leased"
    BY <1>0, <1>1, <1>2, <1>3, NoneAssumption DEF Place, Holder, OwnerTypes
  <2>3. \A x \in Allocs : Waiting(x)' <=> Waiting(x)
    BY <1>1, <2>0 DEF Waiting, OwnerTypes
  <2> QED BY <2>1, <2>2, <2>3 DEF Sends
<1>6. Singles'
  BY <1>1, SameSingles
<1> QED BY <1>5, <1>6, Sent, HolderKinds

\* A block that is detached is in the backend's pending queue.
LEMMA RetireRuntimeTracked ==
  ASSUME ThreadTypes, QueueTypes, Threads, Attempts, Tracked,
         ThreadTypes', Threads', NEW p \in Procs, NEW a \in Allocs, RetireRuntime(p, a)
  PROVE  Tracked'
<1>0. pc[p] = "item" /\ item[p] = Storage(a) /\ pending \in Seq(Allocs)
  BY DEF RetireRuntime, Goto, QueueTypes
<1>1. /\ UNCHANGED <<phase, queue, retry, unknown, batch, kept, rel>>
      /\ pending' = Append(pending, a) /\ pc'[p] = "reap"
      /\ \A q \in Procs : q # p => item'[q] = item[q] /\ pc'[q] = pc[q] /\ rel'[q] = rel[q]
  BY DEF RetireRuntime, Goto, ThreadTypes, coldVars, ownerVars, threadVars
<1>2. \A q \in Procs, x \in Allocs : q # p => (InHand(q, x)' <=> InHand(q, x))
  BY <1>1, OtherHands DEF ThreadTypes
<1>3. \A x \in Allocs : (InHand(p, x) <=> x = a) /\ ~InHand(p, x)'
  BY <1>0, <1>1, Hands, Items DEF HandOf, OwnerItems, Releasing
<1>4. \A x \in Allocs : /\ Has(pending', {x}) <=> Has(pending, {x}) \/ x = a
                        /\ Single(pending, {x}) /\ ~(Has(pending, {x}) /\ x = a) => Single(pending', {x})
  BY <1>0, <1>1, HasAppend
<1>5. Sends({a}, p, {"hand"}, None, "pending")
  <2>1. \A x \in Allocs : x \in {a} => \E k \in {"hand"} : Place(x, p, k)
    BY <1>3 DEF Place
  <2>2. \A x \in Allocs, r \in Holder, m \in Kinds :
          Place(x, r, m)' <=> \/ Place(x, r, m) /\ ~(x \in {a} /\ r = p /\ m \in {"hand"})
                              \/ x \in {a} /\ r = None /\ m = "pending"
    BY <1>0, <1>1, <1>2, <1>3, <1>4, NoneAssumption DEF Place, Holder
  <2>3. \A x \in Allocs : Waiting(x)' <=> Waiting(x)
    BY <1>1 DEF Waiting
  <2> QED BY <2>1, <2>2, <2>3 DEF Sends
<1>6. Singles'
  <2>1. ~Has(pending, {a})
    BY <1>3, HolderKinds DEF Place, Tracked
  <2> QED BY <1>1, <1>4, <2>1 DEF Singles, Tracked
<1> QED BY <1>5, <1>6, Sent, HolderKinds

\* A reap takes the whole pending queue.
LEMMA TakeBatchTracked ==
  ASSUME ThreadTypes, QueueTypes, Threads, Attempts, Tracked,
         ThreadTypes', Threads', NEW p \in Procs, TakeBatch(p)
  PROVE  Tracked'
<1> DEFINE A == {x \in Allocs : Has(pending, {x})}
<1>0. pc[p] \notin Releasing \cup {"enqueue", "item"} /\ batch[p] = <<>>
  BY DEF TakeBatch, Goto, Releasing, Threads
<1>1. /\ UNCHANGED <<phase, queue, retry, unknown, kept, rel, item>>
      /\ pending' = <<>> /\ batch' = [batch EXCEPT ![p] = pending] /\ pc'[p] = "visit"
      /\ \A q \in Procs : q # p => item'[q] = item[q] /\ pc'[q] = pc[q] /\ rel'[q] = rel[q]
  BY DEF TakeBatch, Goto, ThreadTypes, coldVars, ownerVars
<1>2. \A q \in Procs, x \in Allocs : q # p => (InHand(q, x)' <=> InHand(q, x))
  BY <1>1, OtherHands DEF ThreadTypes
<1>3. \A x \in Allocs : ~InHand(p, x) /\ ~InHand(p, x)'
  BY <1>0, <1>1, Hands DEF HandOf, Releasing
<1>4. \A x \in Allocs : ~Has(pending', {x}) /\ Single(pending', {x}) /\ ~Has(batch[p], {x})
  BY <1>0, <1>1, HasNone
<1>5. Sends(A, None, {"pending"}, p, "batch")
  <2>1. \A x \in Allocs : x \in A => \E k \in {"pending"} : Place(x, None, k)
    BY DEF Place
  <2>2. \A x \in Allocs, r \in Holder, m \in Kinds :
          Place(x, r, m)' <=> \/ Place(x, r, m) /\ ~(x \in A /\ r = None /\ m \in {"pending"})
                              \/ x \in A /\ r = p /\ m = "batch"
    BY <1>1, <1>2, <1>3, <1>4, NoneAssumption DEF Place, Holder, QueueTypes
  <2>3. \A x \in Allocs : Waiting(x)' <=> Waiting(x)
    BY <1>1 DEF Waiting
  <2> QED BY <2>1, <2>2, <2>3 DEF Sends
<1>6. Singles'
  BY <1>1, <1>4 DEF Singles, Tracked, QueueTypes
<1> QED BY <1>5, <1>6, Sent, HolderKinds

\* A leased owner of the batch is kept.
LEMMA VisitLeasedTracked ==
  ASSUME ThreadTypes, QueueTypes, Threads, Attempts, Tracked,
         ThreadTypes', Threads', NEW p \in Procs, VisitLeased(p)
  PROVE  Tracked'
<1> DEFINE h == Head(batch[p])
<1>0. pc[p] \notin Releasing \cup {"enqueue", "item"}
      /\ batch[p] \in Seq(Allocs) /\ batch[p] # <<>> /\ kept[p] \in Seq(Allocs)
      /\ h \in Allocs
  BY OwnerQueues DEF VisitLeased, Releasing, QueueTypes
<1>1. /\ UNCHANGED <<phase, queue, retry, unknown, pending, rel, item, pc>>
      /\ batch' = [batch EXCEPT ![p] = Tail(batch[p])]
      /\ kept' = [kept EXCEPT ![p] = Append(kept[p], h)]
      /\ \A q \in Procs : q # p => item'[q] = item[q] /\ pc'[q] = pc[q] /\ rel'[q] = rel[q]
  BY DEF VisitLeased, ThreadTypes, coldVars, ownerVars
<1>2. \A q \in Procs, x \in Allocs : q # p => (InHand(q, x)' <=> InHand(q, x))
  BY <1>1, OtherHands DEF ThreadTypes
<1>3. \A x \in Allocs : ~InHand(p, x) /\ ~InHand(p, x)'
  BY <1>0, <1>1, Hands DEF HandOf, Releasing
<1>4. \A x \in Allocs : /\ Has(batch[p], {x}) <=> x = h \/ Has(Tail(batch[p]), {x})
                        /\ Single(batch[p], {x}) =>
                               Single(Tail(batch[p]), {x}) /\ ~(x = h /\ Has(Tail(batch[p]), {x}))
                        /\ Has(kept'[p], {x}) <=> Has(kept[p], {x}) \/ x = h
                        /\ Single(kept[p], {x}) /\ ~(Has(kept[p], {x}) /\ x = h)
                               => Single(kept'[p], {x})
<2>1. kept'[p] = Append(kept[p], h)
    BY <1>1 DEF QueueTypes
  <2> QED BY <1>0, <2>1, HasTail, HasAppend
<1>5. Sends({h}, p, {"batch"}, p, "kept")
  <2> HIDE DEF h
  <2>0. /\ \A r \in Procs, x \in Allocs :
             Has(batch'[r], {x}) <=> Has(batch[r], {x}) /\ ~(r = p /\ x = h)
        /\ \A r \in Procs, x \in Allocs :
             Has(kept'[r], {x}) <=> Has(kept[r], {x}) \/ (r = p /\ x = h)
    BY <1>0, <1>1, <1>4 DEF Tracked, QueueTypes
  <2>1. \A x \in Allocs : x \in {h} => \E k \in {"batch"} : Place(x, p, k)
    BY <1>4 DEF Place
  <2>2. \A x \in Allocs, r \in Holder, m \in Kinds :
          Place(x, r, m)' <=> \/ Place(x, r, m) /\ ~(x \in {h} /\ r = p /\ m \in {"batch"})
                              \/ x \in {h} /\ r = p /\ m = "kept"
    <3> SUFFICES ASSUME NEW x \in Allocs, NEW r \in Holder, NEW m \in Kinds
                 PROVE  Place(x, r, m)' <=> \/ Place(x, r, m) /\ ~(x \in {h} /\ r = p /\ m \in {"batch"})
                                            \/ x \in {h} /\ r = p /\ m = "kept"
      OBVIOUS
    <3>1. CASE r = None
      BY <3>1, <1>1, <1>2, <1>3, <2>0, NoneAssumption DEF Place
    <3>2. CASE r # None
      BY <3>2, <1>1, <1>2, <1>3, <2>0, NoneAssumption DEF Place, Holder
    <3> QED BY <3>1, <3>2
  <2>3. \A x \in Allocs : Waiting(x)' <=> Waiting(x)
    BY <1>1 DEF Waiting
  <2> QED BY <2>1, <2>2, <2>3 DEF Sends
<1>6. Singles'
  <2>1. ~Has(kept[p], {h})
    BY <1>0, <1>4, HolderKinds DEF Place, Tracked
  <2> QED BY <1>1, <1>4, <2>1 DEF Singles, Tracked, QueueTypes
<1> QED BY <1>5, <1>6, Sent, HolderKinds

\* An owner of the batch that nobody leases is released.
LEMMA VisitUniqueTracked ==
  ASSUME ThreadTypes, QueueTypes, Threads, Attempts, Tracked,
         ThreadTypes', Threads', NEW p \in Procs, VisitUnique(p)
  PROVE  Tracked'
<1> DEFINE h == Head(batch[p])
<1>0. pc[p] \notin Releasing \cup {"enqueue", "item"}
      /\ batch[p] \in Seq(Allocs) /\ batch[p] # <<>> /\ h \in Allocs
  BY OwnerQueues DEF VisitUnique, Goto, Releasing, QueueTypes
<1>1. /\ UNCHANGED <<phase, queue, retry, unknown, pending, item, kept>>
      /\ batch' = [batch EXCEPT ![p] = Tail(batch[p])]
      /\ rel'[p] = h /\ pc'[p] = "release"
      /\ \A q \in Procs : q # p => item'[q] = item[q] /\ pc'[q] = pc[q] /\ rel'[q] = rel[q]
  BY DEF VisitUnique, Goto, ThreadTypes, coldVars
<1>2. \A q \in Procs, x \in Allocs : q # p => (InHand(q, x)' <=> InHand(q, x))
  BY <1>1, OtherHands DEF ThreadTypes
<1>3. \A x \in Allocs : ~InHand(p, x) /\ (InHand(p, x)' <=> x = h)
  BY <1>0, <1>1, Hands DEF HandOf, Releasing
<1>4. \A x \in Allocs : /\ Has(batch[p], {x}) <=> x = h \/ Has(Tail(batch[p]), {x})
                        /\ Single(batch[p], {x}) =>
                               Single(Tail(batch[p]), {x}) /\ ~(x = h /\ Has(Tail(batch[p]), {x}))
  BY <1>0, HasTail
<1>5. Sends({h}, p, {"batch"}, p, "hand")
  <2> HIDE DEF h
  <2>0. /\ \A r \in Procs, x \in Allocs :
             Has(batch'[r], {x}) <=> Has(batch[r], {x}) /\ ~(r = p /\ x = h)
    BY <1>0, <1>1, <1>4 DEF Tracked, QueueTypes
  <2>1. \A x \in Allocs : x \in {h} => \E k \in {"batch"} : Place(x, p, k)
    BY <1>4 DEF Place
  <2>2. \A x \in Allocs, r \in Holder, m \in Kinds :
          Place(x, r, m)' <=> \/ Place(x, r, m) /\ ~(x \in {h} /\ r = p /\ m \in {"batch"})
                              \/ x \in {h} /\ r = p /\ m = "hand"
    <3> SUFFICES ASSUME NEW x \in Allocs, NEW r \in Holder, NEW m \in Kinds
                 PROVE  Place(x, r, m)' <=> \/ Place(x, r, m) /\ ~(x \in {h} /\ r = p /\ m \in {"batch"})
                                            \/ x \in {h} /\ r = p /\ m = "hand"
      OBVIOUS
    <3>1. CASE r = None
      BY <3>1, <1>1, <1>2, <1>3, <2>0, NoneAssumption DEF Place
    <3>2. CASE r # None
      BY <3>2, <1>1, <1>2, <1>3, <2>0, NoneAssumption DEF Place, Holder
    <3> QED BY <3>1, <3>2
  <2>3. \A x \in Allocs : Waiting(x)' <=> Waiting(x)
    BY <1>1 DEF Waiting
  <2> QED BY <2>1, <2>2, <2>3 DEF Sends
<1>6. Singles'
  BY <1>1, <1>4 DEF Singles, Tracked, QueueTypes
<1> QED BY <1>5, <1>6, Sent, HolderKinds

\* The owners that a reap kept are put back.
LEMMA ReapDoneTracked ==
  ASSUME ThreadTypes, QueueTypes, Threads, Attempts, Tracked,
         ThreadTypes', Threads', NEW p \in Procs, ReapDone(p)
  PROVE  Tracked'
<1> DEFINE A == {x \in Allocs : Has(kept[p], {x})}
<1>0. pc[p] \notin Releasing \cup {"enqueue", "item"}
      /\ pending \in Seq(Allocs) /\ kept[p] \in Seq(Allocs)
  BY DEF ReapDone, Releasing, QueueTypes
<1>1. /\ UNCHANGED <<phase, queue, unknown, batch, rel>>
      /\ pending' = (pending \o kept[p]) \o <<>> /\ kept' = [kept EXCEPT ![p] = <<>>]
      /\ \A q \in Procs : q # p => item'[q] = item[q] /\ pc'[q] = pc[q] /\ rel'[q] = rel[q]
  BY Reaped, ReapOutcome DEF ReapDone, Merge, ThreadTypes, ownerVars
<1>2. \A q \in Procs, x \in Allocs : q # p => (InHand(q, x)' <=> InHand(q, x))
  BY <1>1, OtherHands DEF ThreadTypes
<1>3. \A x \in Allocs : ~InHand(p, x) /\ ~InHand(p, x)'
  BY <1>0, <1>1, Hands, Reaped, ReapOutcome DEF HandOf, Releasing, ReapDone
<1>4. \A x \in Allocs : /\ Has(pending', {x}) <=> Has(pending, {x}) \/ Has(kept[p], {x})
                        /\ Single(pending, {x}) /\ Single(kept[p], {x})
                             /\ ~(Has(pending, {x}) /\ Has(kept[p], {x})) => Single(pending', {x})
<2>1. pending \o kept[p] \in Seq(Allocs) /\ <<>> \in Seq(Allocs)
    BY <1>0, OwnerQueues
  <2>2. \A x \in Allocs :
          /\ Has((pending \o kept[p]) \o <<>>, {x}) <=> Has(pending \o kept[p], {x})
          /\ Single(pending \o kept[p], {x}) => Single((pending \o kept[p]) \o <<>>, {x})
    BY <2>1, HasConcat, HasNone
  <2>3. \A x \in Allocs :
          /\ Has(pending \o kept[p], {x}) <=> Has(pending, {x}) \/ Has(kept[p], {x})
          /\ Single(pending, {x}) /\ Single(kept[p], {x})
               /\ ~(Has(pending, {x}) /\ Has(kept[p], {x})) => Single(pending \o kept[p], {x})
    BY <1>0, HasConcat
  <2> QED BY <1>1, <2>2, <2>3
<1>5. Sends(A, p, {"kept"}, None, "pending")
  <2>0. /\ \A r \in Procs, x \in Allocs :
             Has(kept'[r], {x}) <=> Has(kept[r], {x}) /\ ~(r = p /\ x \in A)
        /\ \A x \in Allocs : Has(retry', OwnerItems(x)) <=> Has(retry, OwnerItems(x))
    BY <1>0, <1>1, HasNone, Reaped, ReapOutcome DEF QueueTypes, ReapDone
  <2>1. \A x \in Allocs : x \in A => \E k \in {"kept"} : Place(x, p, k)
    BY DEF Place
  <2>2. \A x \in Allocs, r \in Holder, m \in Kinds :
          Place(x, r, m)' <=> \/ Place(x, r, m) /\ ~(x \in A /\ r = p /\ m \in {"kept"})
                              \/ x \in A /\ r = None /\ m = "pending"
    <3> SUFFICES ASSUME NEW x \in Allocs, NEW r \in Holder, NEW m \in Kinds
                 PROVE  Place(x, r, m)' <=> \/ Place(x, r, m) /\ ~(x \in A /\ r = p /\ m \in {"kept"})
                                            \/ x \in A /\ r = None /\ m = "pending"
      OBVIOUS
    <3>1. CASE r = None
      BY <3>1, <1>1, <1>2, <1>3, <1>4, <2>0, NoneAssumption DEF Place
    <3>2. CASE r # None
      BY <3>2, <1>1, <1>2, <1>3, <1>4, <2>0, NoneAssumption DEF Place, Holder
    <3> QED BY <3>1, <3>2
  <2>3. \A x \in Allocs : Waiting(x)' <=> Waiting(x)
    BY <1>1 DEF Waiting
  <2> QED BY <2>1, <2>2, <2>3 DEF Sends
<1>6. Singles'
  <2>1. \A x \in Allocs : ~(Has(pending, {x}) /\ Has(kept[p], {x}))
    BY <1>0, HolderKinds DEF Place, Tracked
  <2>2. \A x \in Allocs : Single(pending, {x}) /\ Single(kept[p], {x}) /\ Single(retry, OwnerItems(x))
    BY DEF Tracked
  <2>3. \A x \in Allocs : Single(pending', {x}) /\ Single(retry', OwnerItems(x))
    BY <1>4, <2>1, <2>2, Reaped, ReapOutcome DEF ReapDone
  <2>4. \A x \in Allocs, r \in Procs : Single(batch'[r], {x}) /\ Single(kept'[r], {x})
    BY <1>1, HasNone DEF Tracked, QueueTypes
  <2> QED BY <1>1, <2>3, <2>4 DEF Singles, Tracked
<1> QED BY <1>5, <1>6, Sent, HolderKinds

\* An owner that the driver may have freed is retained.
LEMMA FailsUnknownTracked ==
  ASSUME ThreadTypes, QueueTypes, Threads, Attempts, Tracked,
         ThreadTypes', Threads', NEW p \in Procs, FailedTo(p),
         item[p] = Raw(rel[p]), unknown' = unknown \cup {rel[p]}, retry' = retry
  PROVE  Tracked'
<1>0. pc[p] \in Releasing /\ rel[p] \in Allocs
  BY DEF FailedTo
<1>1. /\ UNCHANGED <<phase, queue, pending, batch, kept>>
      /\ unknown' = unknown \cup {rel[p]} /\ retry' = retry
      /\ item'[p] = None /\ pc'[p] = "drain"
      /\ \A q \in Procs : q # p => item'[q] = item[q] /\ pc'[q] = pc[q] /\ rel'[q] = rel[q]
  BY DEF FailedTo, ThreadTypes
<1>2. \A q \in Procs, x \in Allocs : q # p => (InHand(q, x)' <=> InHand(q, x))
  BY <1>1, OtherHands DEF ThreadTypes
<1>3. \A x \in Allocs : /\ InHand(p, x) <=> x = rel[p]
                        /\ ~InHand(p, x)'
  BY <1>0, <1>1, Hands DEF HandOf, Releasing
<1>5. Sends({rel[p]}, p, {"hand"}, None, "unknown")
  <2>1. \A x \in Allocs : x \in {rel[p]} => \E k \in {"hand"} : Place(x, p, k)
    BY <1>3 DEF Place
  <2>2. \A x \in Allocs, r \in Holder, m \in Kinds :
          Place(x, r, m)' <=> \/ Place(x, r, m) /\ ~(x \in {rel[p]} /\ r = p /\ m \in {"hand"})
                              \/ x \in {rel[p]} /\ r = None /\ m = "unknown"
    <3> SUFFICES ASSUME NEW x \in Allocs, NEW r \in Holder, NEW m \in Kinds
                 PROVE  Place(x, r, m)' <=> \/ Place(x, r, m) /\ ~(x \in {rel[p]} /\ r = p /\ m \in {"hand"})
                                            \/ x \in {rel[p]} /\ r = None /\ m = "unknown"
      OBVIOUS
    <3>1. CASE r = None
      BY <3>1, <1>0, <1>1, <1>2, <1>3, NoneAssumption DEF Place
    <3>2. CASE r # None
      BY <3>2, <1>0, <1>1, <1>2, <1>3, NoneAssumption DEF Place, Holder
    <3> QED BY <3>1, <3>2
  <2>3. \A x \in Allocs : Waiting(x)' <=> Waiting(x)
    BY <1>1 DEF Waiting
  <2> QED BY <2>1, <2>2, <2>3 DEF Sends
<1>6. Singles'
  BY <1>1, SameSingles
<1> QED BY <1>5, <1>6, Sent, HolderKinds

\* An owner whose release failed is kept for the next drain.
LEMMA FailsRetryTracked ==
  ASSUME ThreadTypes, QueueTypes, Threads, Attempts, Tracked,
         ThreadTypes', Threads', NEW p \in Procs, FailedTo(p),
         item[p] = Raw(rel[p]), unknown' = unknown, retry' = Append(retry, Raw(rel[p]))
  PROVE  Tracked'
<1>0. pc[p] \in Releasing /\ rel[p] \in Allocs
  BY DEF FailedTo
<1>1. /\ UNCHANGED <<phase, queue, pending, batch, kept>>
      /\ unknown' = unknown /\ retry' = Append(retry, Raw(rel[p]))
      /\ item'[p] = None /\ pc'[p] = "drain"
      /\ \A q \in Procs : q # p => item'[q] = item[q] /\ pc'[q] = pc[q] /\ rel'[q] = rel[q]
  BY DEF FailedTo, ThreadTypes
<1>2. \A q \in Procs, x \in Allocs : q # p => (InHand(q, x)' <=> InHand(q, x))
  BY <1>1, OtherHands DEF ThreadTypes
<1>3. \A x \in Allocs : /\ InHand(p, x) <=> x = rel[p]
                        /\ ~InHand(p, x)'
  BY <1>0, <1>1, Hands DEF HandOf, Releasing
<1>4. \A x \in Allocs : /\ Has(retry', OwnerItems(x)) <=> Has(retry, OwnerItems(x)) \/ x = rel[p]
                        /\ Single(retry, OwnerItems(x)) /\ ~(Has(retry, OwnerItems(x)) /\ x = rel[p])
                             => Single(retry', OwnerItems(x))
<2>1. \A x \in Allocs : Raw(rel[p]) \in OwnerItems(x) <=> x = rel[p]
    BY <1>0, Items DEF OwnerItems
  <2>2. Raw(rel[p]) \in Retirement /\ retry \in Seq(Retirement)
    BY <1>0, Items DEF QueueTypes
  <2> QED BY <1>1, <2>1, <2>2, HasAppend
<1>5. Sends({rel[p]}, p, {"hand"}, None, "retry")
  <2>1. \A x \in Allocs : x \in {rel[p]} => \E k \in {"hand"} : Place(x, p, k)
    BY <1>3 DEF Place
  <2>2. \A x \in Allocs, r \in Holder, m \in Kinds :
          Place(x, r, m)' <=> \/ Place(x, r, m) /\ ~(x \in {rel[p]} /\ r = p /\ m \in {"hand"})
                              \/ x \in {rel[p]} /\ r = None /\ m = "retry"
    <3> SUFFICES ASSUME NEW x \in Allocs, NEW r \in Holder, NEW m \in Kinds
                 PROVE  Place(x, r, m)' <=> \/ Place(x, r, m) /\ ~(x \in {rel[p]} /\ r = p /\ m \in {"hand"})
                                            \/ x \in {rel[p]} /\ r = None /\ m = "retry"
      OBVIOUS
    <3>1. CASE r = None
      BY <3>1, <1>0, <1>1, <1>2, <1>3, <1>4, NoneAssumption DEF Place
    <3>2. CASE r # None
      BY <3>2, <1>0, <1>1, <1>2, <1>3, <1>4, NoneAssumption DEF Place, Holder
    <3> QED BY <3>1, <3>2
  <2>3. \A x \in Allocs : Waiting(x)' <=> Waiting(x)
    BY <1>1 DEF Waiting
  <2> QED BY <2>1, <2>2, <2>3 DEF Sends
<1>6. Singles'
  <2>1. ~Has(retry, OwnerItems(rel[p]))
    BY <1>0, <1>3, HolderKinds DEF Place, Tracked
  <2> QED BY <1>1, <1>4, <2>1 DEF Singles, Tracked
<1> QED BY <1>5, <1>6, Sent, HolderKinds

\* An owner whose release failed is put back with the rest of the batch.
LEMMA FailsBatchTracked ==
  ASSUME ThreadTypes, QueueTypes, Threads, Attempts, Tracked,
         ThreadTypes', Threads', NEW p \in Procs, FailedTo(p),
         item[p] # Raw(rel[p])
  PROVE  Tracked'
<1> DEFINE A == {x \in Allocs : x = rel[p] \/ Has(kept[p], {x}) \/ Has(batch[p], {x})}
<1>0. pc[p] \in Releasing /\ rel[p] \in Allocs
      /\ pending \in Seq(Allocs) /\ kept[p] \in Seq(Allocs) /\ batch[p] \in Seq(Allocs) /\ ReapedTo(p)
  BY DEF FailedTo, QueueTypes
<1>1. /\ UNCHANGED <<phase, queue, unknown>>
      /\ pending' = (pending \o kept[p]) \o (<<rel[p]>> \o batch[p])
      /\ batch' = [batch EXCEPT ![p] = <<>>] /\ kept' = [kept EXCEPT ![p] = <<>>]
      /\ \A q \in Procs : q # p => item'[q] = item[q] /\ pc'[q] = pc[q] /\ rel'[q] = rel[q]
  BY <1>0, Reaped DEF FailedTo, ThreadTypes
<1>2. \A q \in Procs, x \in Allocs : q # p => (InHand(q, x)' <=> InHand(q, x))
  BY <1>1, OtherHands DEF ThreadTypes
<1>3. \A x \in Allocs : /\ InHand(p, x) <=> x = rel[p]
                        /\ ~InHand(p, x)'
  BY <1>0, <1>1, Hands, Reaped DEF HandOf, Releasing
<1>4. \A x \in Allocs : /\ Has(pending', {x}) <=> Has(pending, {x}) \/ x \in A
                        /\ Single(pending, {x}) /\ Single(kept[p], {x}) /\ Single(batch[p], {x})
                             /\ ~(Has(pending, {x}) /\ x \in A) /\ ~(Has(kept[p], {x}) /\ x = rel[p])
                             /\ ~(Has(kept[p], {x}) /\ Has(batch[p], {x}))
                             /\ ~(Has(batch[p], {x}) /\ x = rel[p]) => Single(pending', {x})
<2>1. /\ pending \o kept[p] \in Seq(Allocs) /\ <<rel[p]>> \in Seq(Allocs)
        /\ <<rel[p]>> \o batch[p] \in Seq(Allocs)
    BY <1>0, OwnerQueues
  <2>2. \A x \in Allocs :
          /\ Has(<<rel[p]>> \o batch[p], {x}) <=> x = rel[p] \/ Has(batch[p], {x})
          /\ Single(batch[p], {x}) /\ ~(Has(batch[p], {x}) /\ x = rel[p])
               => Single(<<rel[p]>> \o batch[p], {x})
    BY <1>0, <2>1, HasConcat, HasNone
  <2>3. \A x \in Allocs :
          /\ Has(pending \o kept[p], {x}) <=> Has(pending, {x}) \/ Has(kept[p], {x})
          /\ Single(pending, {x}) /\ Single(kept[p], {x})
               /\ ~(Has(pending, {x}) /\ Has(kept[p], {x})) => Single(pending \o kept[p], {x})
    BY <1>0, HasConcat
  <2>4. \A x \in Allocs :
          /\ Has(pending', {x}) <=> Has(pending \o kept[p], {x}) \/ Has(<<rel[p]>> \o batch[p], {x})
          /\ Single(pending \o kept[p], {x}) /\ Single(<<rel[p]>> \o batch[p], {x})
               /\ ~(Has(pending \o kept[p], {x}) /\ Has(<<rel[p]>> \o batch[p], {x})) => Single(pending', {x})
    <3> DEFINE s == pending \o kept[p]
               t == <<rel[p]>> \o batch[p]
    <3>1. s \in Seq(Allocs) /\ t \in Seq(Allocs) /\ pending' = s \o t
      BY <1>1, <2>1
    <3> HIDE DEF s, t
    <3>2. \A x \in Allocs : /\ Has(pending', {x}) <=> Has(s, {x}) \/ Has(t, {x})
                            /\ Single(s, {x}) /\ Single(t, {x})
                                 /\ ~(Has(s, {x}) /\ Has(t, {x})) => Single(pending', {x})
      BY <3>1, HasConcat
    <3> QED BY <3>2 DEF s, t
  <2> QED BY <2>2, <2>3, <2>4
<1>5. Sends(A, p, {"hand", "kept", "batch"}, None, "pending")
  <2>0. /\ \A r \in Procs, x \in Allocs :
             /\ Has(kept'[r], {x}) <=> Has(kept[r], {x}) /\ r # p
             /\ Has(batch'[r], {x}) <=> Has(batch[r], {x}) /\ r # p
        /\ \A x \in Allocs : Has(retry', OwnerItems(x)) <=> Has(retry, OwnerItems(x))
    BY <1>0, <1>1, HasNone, Reaped DEF QueueTypes
  <2>a. \A x \in Allocs : x \in A <=> Place(x, p, "hand") \/ Place(x, p, "kept") \/ Place(x, p, "batch")
    BY <1>3 DEF Place
  <2>1. \A x \in Allocs : x \in A => \E k \in {"hand", "kept", "batch"} : Place(x, p, k)
    BY <2>a
  <2>2. \A x \in Allocs, r \in Holder, m \in Kinds :
          Place(x, r, m)' <=> \/ Place(x, r, m) /\ ~(x \in A /\ r = p /\ m \in {"hand", "kept", "batch"})
                              \/ x \in A /\ r = None /\ m = "pending"
    <3> SUFFICES ASSUME NEW x \in Allocs, NEW r \in Holder, NEW m \in Kinds
                 PROVE  Place(x, r, m)' <=> \/ Place(x, r, m) /\ ~(x \in A /\ r = p /\ m \in {"hand", "kept", "batch"})
                                            \/ x \in A /\ r = None /\ m = "pending"
      OBVIOUS
    <3>1. CASE r = None
      BY <3>1, <1>1, <1>2, <1>3, <1>4, <2>0, NoneAssumption DEF Place
    <3>2. CASE r # None
      BY <3>2, <1>1, <1>2, <1>3, <1>4, <2>0, NoneAssumption DEF Place, Holder
    <3> QED BY <3>1, <3>2
  <2>3. \A x \in Allocs : Waiting(x)' <=> Waiting(x)
    BY <1>1 DEF Waiting
  <2> QED BY <2>1, <2>2, <2>3 DEF Sends
<1>6. Singles'
  <2>0. \A x \in Allocs :
          /\ Has(pending, {x}) <=> Place(x, None, "pending")
          /\ Has(kept[p], {x}) <=> Place(x, p, "kept")
          /\ Has(batch[p], {x}) <=> Place(x, p, "batch")
          /\ x = rel[p] <=> Place(x, p, "hand")
    BY <1>3, HolderKinds DEF Place
  <2>1. \A x \in Allocs :
          /\ ~(Has(pending, {x}) /\ x \in A) /\ ~(Has(kept[p], {x}) /\ x = rel[p])
          /\ ~(Has(kept[p], {x}) /\ Has(batch[p], {x})) /\ ~(Has(batch[p], {x}) /\ x = rel[p])
    BY <2>0, HolderKinds DEF Tracked
  <2>2. \A x \in Allocs : /\ Single(pending, {x}) /\ Single(kept[p], {x}) /\ Single(batch[p], {x})
                          /\ Single(retry, OwnerItems(x))
    BY DEF Tracked
  <2>3. \A x \in Allocs : Single(pending', {x}) /\ Single(retry', OwnerItems(x))
    BY <1>0, <1>4, <2>1, <2>2, Reaped
  <2>4. \A x \in Allocs, r \in Procs : Single(batch'[r], {x}) /\ Single(kept'[r], {x})
    BY <1>1, HasNone DEF Tracked, QueueTypes
  <2> QED BY <1>1, <2>3, <2>4 DEF Singles, Tracked
<1> QED BY <1>5, <1>6, Sent, HolderKinds

\* An owner without memory is done with.
LEMMA ReleaseUnacquiredTracked ==
  ASSUME ThreadTypes, QueueTypes, Threads, Attempts, Tracked,
         ThreadTypes', Threads', NEW p \in Procs, ReleaseUnacquired(p), OwnerTypes
  PROVE  Tracked'
<1>0. pc[p] \in Releasing /\ rel[p] \in Allocs
  BY DEF ReleaseUnacquired, Threads, ThreadTypes, Releasing
<1>1. /\ UNCHANGED <<queue, retry, pending, unknown, batch, kept>>
      /\ phase' = [phase EXCEPT ![rel[p]] = "refused"]
      /\ pc'[p] \in {"drain", "visit"}
      /\ \A q \in Procs : q # p => item'[q] = item[q] /\ pc'[q] = pc[q] /\ rel'[q] = rel[q]
  BY DEF ReleaseUnacquired, ReleaseDone, ThreadTypes, coldVars
<1>2. \A q \in Procs, x \in Allocs : q # p => (InHand(q, x)' <=> InHand(q, x))
  BY <1>1, OtherHands DEF ThreadTypes
<1>3. \A x \in Allocs : /\ InHand(p, x) <=> x = rel[p]
                        /\ ~InHand(p, x)'
  BY <1>0, <1>1, Hands DEF HandOf, Releasing
<1>5. Leaves(rel[p], p, "hand")
  <2>0. Place(rel[p], p, "hand")
    BY <1>0, <1>3 DEF Place
  <2>1. /\ phase[rel[p]] # "orphan" /\ phase'[rel[p]] = "refused"
        /\ \A x \in Allocs : x # rel[p] => phase'[x] = phase[x]
    <3>1. ~Place(rel[p], None, "leased")
      BY <1>0, <2>0, HolderKinds DEF Tracked
    <3> QED BY <1>0, <1>1, <3>1 DEF Place, OwnerTypes
  <2>2. \A x \in Allocs, r \in Holder, m \in Kinds :
          Place(x, r, m)' <=> Place(x, r, m) /\ ~(x = rel[p] /\ r = p /\ m = "hand")
    <3> SUFFICES ASSUME NEW x \in Allocs, NEW r \in Holder, NEW m \in Kinds
                 PROVE  Place(x, r, m)' <=> Place(x, r, m) /\ ~(x = rel[p] /\ r = p /\ m = "hand")
      OBVIOUS
    <3>1. CASE r = None
      BY <1>1, <2>1, <3>1, NoneAssumption DEF Place
    <3>2. CASE r # None
      BY <1>1, <1>2, <1>3, <3>2 DEF Place, Holder
    <3> QED BY <3>1, <3>2
  <2> QED BY <2>0, <2>1, <2>2 DEF Leaves, Waiting
<1>6. Singles'
  BY <1>1, SameSingles
<1> QED BY <1>5, <1>6, Left, <1>0, HolderKinds

\* An owner whose memory is free is done with.
LEMMA FreeTracked ==
  ASSUME ThreadTypes, QueueTypes, Threads, Attempts, Tracked,
         ThreadTypes', Threads', NEW p \in Procs, Free(p), OwnerTypes
  PROVE  Tracked'
<1>0. pc[p] \in Releasing /\ rel[p] \in Allocs
  BY DEF Free, Threads, ThreadTypes, Releasing
<1>1. /\ UNCHANGED <<queue, retry, pending, unknown, batch, kept>>
      /\ phase' = [phase EXCEPT ![rel[p]] = "freed"]
      /\ pc'[p] \in {"drain", "visit"}
      /\ \A q \in Procs : q # p => item'[q] = item[q] /\ pc'[q] = pc[q] /\ rel'[q] = rel[q]
  BY DEF Free, ReleaseDone, ThreadTypes, coldVars
<1>2. \A q \in Procs, x \in Allocs : q # p => (InHand(q, x)' <=> InHand(q, x))
  BY <1>1, OtherHands DEF ThreadTypes
<1>3. \A x \in Allocs : /\ InHand(p, x) <=> x = rel[p]
                        /\ ~InHand(p, x)'
  BY <1>0, <1>1, Hands DEF HandOf, Releasing
<1>5. Leaves(rel[p], p, "hand")
  <2>0. Place(rel[p], p, "hand")
    BY <1>0, <1>3 DEF Place
  <2>1. /\ phase[rel[p]] # "orphan" /\ phase'[rel[p]] = "freed"
        /\ \A x \in Allocs : x # rel[p] => phase'[x] = phase[x]
    <3>1. ~Place(rel[p], None, "leased")
      BY <1>0, <2>0, HolderKinds DEF Tracked
    <3> QED BY <1>0, <1>1, <3>1 DEF Place, OwnerTypes
  <2>2. \A x \in Allocs, r \in Holder, m \in Kinds :
          Place(x, r, m)' <=> Place(x, r, m) /\ ~(x = rel[p] /\ r = p /\ m = "hand")
    <3> SUFFICES ASSUME NEW x \in Allocs, NEW r \in Holder, NEW m \in Kinds
                 PROVE  Place(x, r, m)' <=> Place(x, r, m) /\ ~(x = rel[p] /\ r = p /\ m = "hand")
      OBVIOUS
    <3>1. CASE r = None
      BY <1>1, <2>1, <3>1, NoneAssumption DEF Place
    <3>2. CASE r # None
      BY <1>1, <1>2, <1>3, <3>2 DEF Place, Holder
    <3> QED BY <3>1, <3>2
  <2> QED BY <2>0, <2>1, <2>2 DEF Leaves, Waiting
<1>6. Singles'
  BY <1>1, SameSingles
<1> QED BY <1>5, <1>6, Left, <1>0, HolderKinds

\* A step after which every container has the owners it had.
Unmoves(p) ==
  /\ UNCHANGED <<queue, retry, pending, unknown, batch, kept>>
  /\ \A q \in Procs : q # p => item'[q] = item[q] /\ pc'[q] = pc[q] /\ rel'[q] = rel[q]
  /\ \A x \in Allocs : HandOf(p, x)' <=> HandOf(p, x)
  /\ \A x \in Allocs : /\ phase'[x] = "orphan" <=> phase[x] = "orphan"
                       /\ phase'[x] = "dropped" <=> phase[x] = "dropped"

\* Such a step keeps the owners tracked.
LEMMA Unmoved ==
  ASSUME ThreadTypes, Threads, ThreadTypes', Threads', Tracked, NEW p \in Procs, Unmoves(p)
  PROVE  Tracked'
<1>1. \A q \in Procs, x \in Allocs : InHand(q, x)' <=> InHand(q, x)
  BY Hands, OtherHands DEF Unmoves
<1>2. Stays
  BY <1>1 DEF Unmoves, Stays, Waiting, Place
<1>3. Singles'
  BY SameSingles DEF Unmoves
<1> QED BY <1>2, <1>3, Stayed

\* No step loses an owner that was dropped or lists it twice.
LEMMA TrackedStep ==
  ASSUME ThreadTypes, QueueTypes, OwnerTypes, Threads, Attempts, Tracked,
         ThreadTypes', Threads', [Next]_vars
  PROVE  Tracked'
<1>1. CASE UNCHANGED vars
  <2>1. Stays /\ Singles'
    BY <1>1, SameSingles
    DEF vars, Stays, Place, InHand, Waiting, coldVars, ownerVars, threadVars
  <2> QED BY <2>1, Stayed
<1>2. ASSUME NEW p \in Procs, Request(p) \/ Continue(p) PROVE Tracked'
  <2>1. ASSUME NEW a \in Allocs, Allocate(p, a) PROVE Tracked'
    <3>1. Unmoves(p)
      BY <2>1, Items, NoneAssumption
      DEF Allocate, Goto, Unmoves, HandOf, OwnerItems, Releasing, Attempting, ThreadTypes, OwnerTypes,
          Threads, exclusionVars, ownerVars, coldVars, captureVars, threadVars
    <3> QED BY <3>1, Unmoved
  <2>2. ASSUME NEW a \in Allocs, DropStorage(p, a) PROVE Tracked'
    BY <2>2, DropStorageTracked
  <2>3. ASSUME NEW a \in Allocs, DropBlock(p, a) PROVE Tracked'
    BY <2>3, DropBlockTracked
  <2>4. ASSUME NEW a \in Allocs, Lease(p, a) PROVE Tracked'
    <3>1. Unmoves(p)
      BY <2>4, Items, NoneAssumption
      DEF Lease, Unmoves, HandOf, OwnerItems, Releasing, Attempting, ThreadTypes, OwnerTypes,
          Threads, exclusionVars, ownerVars, coldVars, captureVars, threadVars
    <3> QED BY <3>1, Unmoved
  <2>5. ASSUME NEW a \in Allocs, DropLease(p, a) PROVE Tracked'
    <3>1. CASE phase[a] = "orphan"
      BY <2>5, <3>1, DropLeaseTracked
    <3>2. CASE phase[a] # "orphan"
      <4>1. Unmoves(p)
        BY <2>5, <3>2 DEF DropLease, Unmoves, HandOf, OwnerItems, Releasing, ThreadTypes, OwnerTypes, Threads, ownerVars, coldVars
      <4> QED BY <4>1, Unmoved
    <3> QED BY <3>1, <3>2
  <2>6. CASE BeginCapture(p)
    <3>1. Unmoves(p)
      BY <2>6, Items, NoneAssumption
      DEF BeginCapture, DrainThen, Drainable, Unmoves, HandOf, OwnerItems, Releasing, Attempting, ThreadTypes, OwnerTypes,
          Threads, exclusionVars, ownerVars, coldVars, captureVars, threadVars
    <3> QED BY <3>1, Unmoved
  <2>7. CASE EndCapture(p)
    <3>1. Unmoves(p)
      BY <2>7, Items, NoneAssumption
      DEF EndCapture, Unmoves, HandOf, OwnerItems, Releasing, Attempting, ThreadTypes, OwnerTypes,
          Threads, exclusionVars, ownerVars, coldVars, captureVars, threadVars
    <3> QED BY <3>1, Unmoved
  <2>8. CASE Reap(p)
    <3>1. Unmoves(p)
      BY <2>8, Items, NoneAssumption
      DEF Reap, DrainThen, Drainable, Unmoves, HandOf, OwnerItems, Releasing, Attempting, ThreadTypes, OwnerTypes,
          Threads, exclusionVars, ownerVars, coldVars, captureVars, threadVars
    <3> QED BY <3>1, Unmoved
  <2>9. CASE Enter(p)
    <3>1. Unmoves(p)
      BY <2>9, Items, NoneAssumption
      DEF Enter, Goto, MayEnter, Unmoves, HandOf, OwnerItems, Releasing, Attempting, ThreadTypes, OwnerTypes,
          Threads, exclusionVars, ownerVars, coldVars, captureVars, threadVars
    <3> QED BY <3>1, Unmoved
  <2>10. CASE EnterRefused(p)
    <3>1. Unmoves(p)
      BY <2>10, Items, NoneAssumption
      DEF EnterRefused, Goto, Unmoves, HandOf, OwnerItems, Releasing, Attempting, ThreadTypes, OwnerTypes,
          Threads, Attempts, exclusionVars, ownerVars, coldVars, captureVars, threadVars
    <3> QED BY <3>1, Unmoved
  <2>11. CASE Uncaptured(p)
    <3>1. Unmoves(p)
      BY <2>11, Items, NoneAssumption
      DEF Uncaptured, Goto, Unmoves, HandOf, OwnerItems, Releasing, Attempting, ThreadTypes, OwnerTypes,
          Threads, exclusionVars, ownerVars, coldVars, captureVars, threadVars
    <3> QED BY <3>1, Unmoved
  <2>12. CASE CaptureRefused(p)
    <3>1. Unmoves(p)
      BY <2>12, Items, NoneAssumption
      DEF CaptureRefused, Goto, DropPermit, Unmoves, HandOf, OwnerItems, Releasing, Attempting, ThreadTypes, OwnerTypes,
          Threads, Attempts, exclusionVars, ownerVars, coldVars, captureVars, threadVars
    <3> QED BY <3>1, Unmoved
  <2>13. CASE Malloc(p)
    <3>1. Unmoves(p)
      BY <2>13, Items, NoneAssumption
      DEF Malloc, Goto, Unmoves, HandOf, OwnerItems, Releasing, Attempting, ThreadTypes, OwnerTypes,
          Threads, exclusionVars, ownerVars, coldVars, captureVars, threadVars
    <3> QED BY <3>1, Unmoved
  <2>14. CASE MallocRefused(p)
    BY <2>14, MallocRefusedTracked
  <2>15. CASE Publish(p)
    <3>1. Unmoves(p)
      BY <2>15, Items, NoneAssumption
      DEF Publish, Goto, DropPermit, Unmoves, HandOf, OwnerItems, Releasing, Attempting, ThreadTypes, OwnerTypes,
          Threads, Attempts, exclusionVars, ownerVars, coldVars, captureVars, threadVars
    <3> QED BY <3>1, Unmoved
  <2>16. CASE InitFails(p)
    BY <2>16, InitFailsTracked
  <2>17. CASE Enqueue(p)
    BY <2>17, EnqueueTracked
  <2>18. CASE DrainNext(p)
    BY <2>18, DrainNextTracked
  <2>19. CASE DrainDone(p)
    BY <2>19, DrainDoneTracked
  <2>20. ASSUME NEW a \in Allocs, RetireNative(p, a) PROVE Tracked'
    <3>1. CASE lease[a] = "held"
      BY <2>20, <3>1, RetireNativeTracked
    <3>2. CASE lease[a] # "held"
      <4>1. Unmoves(p)
        BY <2>20, <3>2, Items DEF RetireNative, Unmoves, HandOf, OwnerItems, Releasing, ThreadTypes, OwnerTypes, Threads, ownerVars, coldVars
      <4> QED BY <4>1, Unmoved
    <3> QED BY <3>1, <3>2
  <2>21. ASSUME NEW a \in Allocs, RetireRuntime(p, a) PROVE Tracked'
    BY <2>21, RetireRuntimeTracked
  <2>22. ASSUME NEW a \in Allocs, RetireBlock(p, a) PROVE Tracked'
    <3>1. Unmoves(p)
      BY <2>22, Items, NoneAssumption
      DEF RetireBlock, Unmoves, HandOf, OwnerItems, Releasing, Attempting, ThreadTypes, OwnerTypes,
          Threads, exclusionVars, ownerVars, coldVars, captureVars, threadVars
    <3> QED BY <3>1, Unmoved
  <2>23. ASSUME NEW a \in Allocs, RetireRaw(p, a) PROVE Tracked'
    <3>1. Unmoves(p)
      BY <2>23, Items, NoneAssumption
      DEF RetireRaw, Goto, Unmoves, HandOf, OwnerItems, Releasing, Attempting, ThreadTypes, OwnerTypes,
          Threads, exclusionVars, ownerVars, coldVars, captureVars, threadVars
    <3> QED BY <3>1, Unmoved
  <2>24. CASE TakeBatch(p)
    BY <2>24, TakeBatchTracked
  <2>25. CASE VisitLeased(p)
    BY <2>25, VisitLeasedTracked
  <2>26. CASE VisitUnique(p)
    BY <2>26, VisitUniqueTracked
  <2>27. CASE ReapDone(p)
    BY <2>27, ReapDoneTracked
  <2>28. CASE ReleaseUnacquired(p)
    BY <2>28, ReleaseUnacquiredTracked
  <2>29. CASE ReleaseEnter(p)
    <3>1. Unmoves(p)
      BY <2>29, Items, NoneAssumption
      DEF ReleaseEnter, Goto, MayEnter, Unmoves, HandOf, OwnerItems, Releasing, Attempting, ThreadTypes, OwnerTypes,
          Threads, exclusionVars, ownerVars, coldVars, captureVars, threadVars
    <3> QED BY <3>1, Unmoved
  <2>30. CASE ReleaseExclude(p)
    <3>1. Unmoves(p)
      BY <2>30, Items, NoneAssumption
      DEF ReleaseExclude, Goto, RequireKnown, Unmoves, HandOf, OwnerItems, Releasing, Attempting, ThreadTypes, OwnerTypes,
          Threads, exclusionVars, ownerVars, coldVars, captureVars, threadVars
    <3> QED BY <3>1, Unmoved
  <2>31. CASE AwaitFences(p)
    <3>1. Unmoves(p)
      BY <2>31, Items, NoneAssumption
      DEF AwaitFences, Goto, Unmoves, HandOf, OwnerItems, Releasing, Attempting, ThreadTypes, OwnerTypes,
          Threads, exclusionVars, ownerVars, coldVars, captureVars, threadVars
    <3> QED BY <3>1, Unmoved
  <2>32. CASE Free(p)
    BY <2>32, FreeTracked
  <2>33. CASE AcquireCapture(p)
    <3>1. Unmoves(p)
      BY <2>33, Items, NoneAssumption
      DEF AcquireCapture, Goto, CaptureFree, Unmoves, HandOf, OwnerItems, Releasing, Attempting, ThreadTypes, OwnerTypes,
          Threads, exclusionVars, ownerVars, coldVars, captureVars, threadVars
    <3> QED BY <3>1, Unmoved
  <2>34. CASE Fails(p)
    <3>1. FailedTo(p)
      BY <2>34, FailOutcome DEF Fails
    <3> QED BY <3>1, FailsUnknownTracked, FailsRetryTracked, FailsBatchTracked DEF FailedTo
  <2> QED
    BY <1>2, <2>1, <2>2, <2>3, <2>4, <2>5, <2>6, <2>7, <2>8, <2>9, <2>10,
    <2>11, <2>12, <2>13, <2>14, <2>15, <2>16, <2>17, <2>18, <2>19, <2>20,
    <2>21, <2>22, <2>23, <2>24, <2>25, <2>26, <2>27, <2>28, <2>29, <2>30,
    <2>31, <2>32, <2>33, <2>34 DEF Request, Continue, Fails
<1> QED BY <1>1, <1>2 DEF Next

-----------------------------------------------------------------------------
(* The exclusion and the leases.                                           *)

\* An owner that a thread releases, or whose retirement it executes, is a dropped
\* one, and no other thread releases it.
LEMMA ReleasedOwners ==
  ASSUME ThreadTypes, Threads, Tracked
  PROVE  /\ \A p \in Procs : rel[p] # None =>
              /\ rel[p] \in Allocs /\ phase[rel[p]] = "dropped"
              /\ \A q \in Procs : rel[q] = rel[p] => q = p
         /\ \A p \in Procs, a \in Allocs :
              pc[p] = "item" /\ item[p] = Storage(a) => phase[a] = "dropped"
<1>1. \A p \in Procs : rel[p] # None => rel[p] \in Allocs /\ InHand(p, rel[p])
  BY Hands DEF ThreadTypes, Threads, HandOf
<1>2. \A p \in Procs, a \in Allocs : pc[p] = "item" /\ item[p] = Storage(a) => InHand(p, a)
  BY DEF InHand
<1>3. \A p \in Procs, a \in Allocs : InHand(p, a) => phase[a] = "dropped"
  <2> SUFFICES ASSUME NEW p \in Procs, NEW a \in Allocs, InHand(p, a) PROVE phase[a] = "dropped"
    OBVIOUS
  <2>1. Place(a, p, "hand")
    BY DEF Place
  <2>2. ~Place(a, None, "leased") /\ phase[a] \in {"dropped", "orphan"}
    BY <2>1, HolderKinds DEF Tracked
  <2> QED BY <2>2 DEF Place
<1>4. \A p, q \in Procs, a \in Allocs : InHand(p, a) /\ InHand(q, a) => q = p
  <2> SUFFICES ASSUME NEW p \in Procs, NEW q \in Procs, NEW a \in Allocs, InHand(p, a), InHand(q, a)
               PROVE  q = p
    OBVIOUS
  <2>1. Place(a, p, "hand") /\ Place(a, q, "hand")
    BY DEF Place
  <2> QED BY <2>1, HolderKinds DEF Tracked
<1> QED BY <1>1, <1>2, <1>3, <1>4

\* What a failing release does to the exclusion and to its owner.
Lapsed(p) ==
  /\ pc[p] \in Releasing /\ rel[p] \in Allocs /\ rel' = [rel EXCEPT ![p] = None]
  /\ UNCHANGED <<phase, acquired, lease, permit, active, queue, retiring, capturing, cur, then>>
  /\ pc'[p] \in {"enqueue", "drain", "idle"} /\ \A q \in Procs : q # p => pc'[q] = pc[q]
  /\ \/ freeState' = freeState
     \/ pc[p] = "free" /\ freeState' = [freeState EXCEPT ![rel[p]] = "unknown"]
  /\ failed' = failed \/ (permit[rel[p]] /\ acquired[rel[p]] /\ failed' = rel[p])

\* Every failing release does this.
LEMMA FailedRelease ==
  ASSUME ThreadTypes, QueueTypes, Threads, NEW p \in Procs, Fails(p)
  PROVE  Lapsed(p)
<1>1. FailedTo(p)
  BY FailOutcome
<1>2. pc'[p] \in {"enqueue", "drain", "idle"} /\ \A q \in Procs : q # p => pc'[q] = pc[q]
  BY <1>1, Reaped DEF FailedTo, ThreadTypes
<1>3. \/ freeState' = freeState
      \/ pc[p] = "free" /\ freeState' = [freeState EXCEPT ![rel[p]] = "unknown"]
  BY DEF Fails, ReleaseRefused, ReleaseExcluded, FencesFail, FreeUnknown, ownerVars
<1>4. failed' = failed \/ (permit[rel[p]] /\ acquired[rel[p]] /\ failed' = rel[p])
  BY DEF Fails, ReleaseRefused, ReleaseExcluded, FencesFail, FreeUnknown, exclusionVars, RetainFailure
<1> QED BY <1>1, <1>2, <1>3, <1>4 DEF FailedTo, Lapsed

\* An owner that cannot be leased any more cannot be leased again.
LEMMA ClosedStays ==
  ASSUME OwnerTypes, [Next]_vars
  PROVE  \A a \in Allocs : lease[a] = "closed" => lease'[a] = "closed"
<1> USE DEF OwnerTypes, ownerVars
<1>1. CASE UNCHANGED vars
  BY <1>1 DEF vars
<1>2. ASSUME NEW p \in Procs, Request(p) PROVE \A a \in Allocs : lease[a] = "closed" => lease'[a] = "closed"
  BY <1>2 DEF Request, Allocate, DropStorage, DropBlock, Lease, DropLease, BeginCapture, EndCapture,
              Reap, Close
<1>3. ASSUME NEW p \in Procs, Continue(p) PROVE \A a \in Allocs : lease[a] = "closed" => lease'[a] = "closed"
  BY <1>3 DEF Continue, Enter, EnterRefused, Uncaptured, CaptureRefused, Malloc, MallocRefused,
              Publish, InitFails, Enqueue, DrainNext, DrainDone, RetireNative, RetireRuntime,
              RetireBlock, RetireRaw, TakeBatch, VisitLeased, VisitUnique, ReapDone,
              ReleaseUnacquired, ReleaseEnter, ReleaseRefused, ReleaseExcluded, ReleaseExclude,
              AwaitFences, FencesFail, Free, FreeUnknown, AcquireCapture, Close
<1> QED BY <1>1, <1>2, <1>3 DEF Next

\* The retry queue after a reap and after a failing release.
LEMMA RetriedRaws ==
  ASSUME ThreadTypes, QueueTypes, NEW p \in Procs, ReapedTo(p) \/ FailedTo(p)
  PROVE  /\ \A a \in Allocs : Has(retry', {Raw(a)}) => Has(retry, {Raw(a)}) \/ (rel[p] = a /\ FailedTo(p))
         /\ \A q \in Procs, a \in Allocs : item'[q] = Raw(a) => item[q] = Raw(a)
<1>1. retry \in Seq(Retirement) /\ \A r \in Retirement, a \in Allocs :
        Has(Append(retry, r), {Raw(a)}) <=> Has(retry, {Raw(a)}) \/ r = Raw(a)
  BY HasAppend DEF QueueTypes
<1>2. CASE ReapedTo(p)
  <2>1. \A x, y \in Allocs : Block(x) # Raw(y) /\ Block(x) \in Retirement /\ None # Raw(y)
    BY Items
  <2>2. \A r \in Retirement : /\ r.owner \in Allocs
                              /\ r.kind = "block" => \A y \in Allocs : r # Raw(y)
    BY Items
  <2>3. retry' = retry \/ (item[p] \in Retirement /\ item[p].kind = "block" /\ retry' = Append(retry, item[p]))
    BY <1>2 DEF ReapedTo
  <2>4. \/ item' = [item EXCEPT ![p] = None]
        \/ item[p] \in Retirement /\ item' = [item EXCEPT ![p] = Block(item[p].owner)]
    BY <1>2 DEF ReapedTo
  <2>5. \A q \in Procs, a \in Allocs : item'[q] = Raw(a) => item[q] = Raw(a)
    BY <2>1, <2>2, <2>4 DEF ThreadTypes
  <2>6. ASSUME NEW a \in Allocs, Has(retry', {Raw(a)}) PROVE Has(retry, {Raw(a)})
    <3>1. CASE retry' = retry
      BY <2>6, <3>1
    <3>2. CASE item[p] \in Retirement /\ item[p].kind = "block" /\ retry' = Append(retry, item[p])
      <4>1. item[p] # Raw(a)
        BY <2>2, <3>2
      <4> QED BY <1>1, <2>6, <3>2, <4>1
    <3> QED BY <2>3, <3>1, <3>2
  <2> QED BY <2>5, <2>6
<1>3. CASE FailedTo(p) /\ item[p] = Raw(rel[p])
  <2>1. rel[p] \in Allocs /\ Raw(rel[p]) \in Retirement /\ \A a \in Allocs : Raw(rel[p]) = Raw(a) => rel[p] = a
    BY <1>3, Items DEF FailedTo
  <2>2. retry' = retry \/ retry' = Append(retry, Raw(rel[p]))
    BY <1>3 DEF FailedTo
  <2>3. item' = [item EXCEPT ![p] = None]
    BY <1>3 DEF FailedTo
  <2>4. \A q \in Procs, a \in Allocs : item'[q] = Raw(a) => item[q] = Raw(a)
    BY <2>3, Items DEF ThreadTypes
  <2> QED BY <1>1, <1>3, <2>1, <2>2, <2>4
<1> QED BY <1>2, <1>3 DEF FailedTo

\* No step opens an owner that is on its way to the driver for a lease.
LEMMA ClosedStep ==
  ASSUME ThreadTypes, QueueTypes, OwnerTypes, Threads, Attempts, Closed, Tracked, [Next]_vars
  PROVE  Closed'
<1> DEFINE Opens == \A x \in Allocs : Departing(x)' => Departing(x) \/ lease'[x] = "closed"
<1>b. \A p \in Procs : rel[p] # None => rel[p] \in Allocs /\ phase[rel[p]] = "dropped"
  BY ReleasedOwners
<1>c. \A p \in Procs : /\ pc[p] \in Attempting => cur[p] \in Allocs /\ phase[cur[p]] = "attempt"
                       /\ pc[p] \in Releasing => rel[p] # None
                       /\ pc[p] \notin Releasing => rel[p] = None
  BY DEF Attempts, ThreadTypes, Threads
<1>t. queue \in Seq(Retirement) /\ \A p \in Procs : pc[p] = "enqueue" => item[p] \in Retirement
  BY DEF QueueTypes, ThreadTypes, Threads
<1>d. \A p \in Procs : (AfterReap(p) => ReapedTo(p)) /\ (Fails(p) => FailedTo(p) /\ Lapsed(p))
  BY FailedRelease, FailOutcome, ReapOutcome
<1>f. \A p \in Procs : ReapedTo(p) \/ FailedTo(p) =>
        /\ \A a \in Allocs : Has(retry', {Raw(a)}) => Has(retry, {Raw(a)}) \/ (rel[p] = a /\ FailedTo(p))
        /\ \A q \in Procs, a \in Allocs : item'[q] = Raw(a) => item[q] = Raw(a)
  BY RetriedRaws
<1>k. None \notin Allocs
  BY NoneAssumption
<1>h. \A a \in Allocs : phase[a] = "live" => ~permit[a]
  BY DEF Attempts
<1>g. \A x, y \in Allocs : /\ Storage(x) # Raw(y) /\ Block(x) # Raw(y) /\ Raw(x) # None
                           /\ Raw(x) = Raw(y) => x = y
  BY Items
<1> USE DEF Departing, ThreadTypes, OwnerTypes, exclusionVars, ownerVars,
          coldVars, captureVars, threadVars, Attempting, Releasing
<1>1. CASE UNCHANGED vars
  BY <1>1 DEF vars, Closed
<1>2. ASSUME NEW p \in Procs, Request(p) \/ Continue(p) PROVE Opens
  <2>1. ASSUME NEW a \in Allocs, Allocate(p, a) PROVE Opens
    BY <2>1 DEF Allocate, Goto
  <2>2. ASSUME NEW a \in Allocs, DropStorage(p, a) PROVE Opens
    BY <2>2, <1>g, <1>h DEF DropStorage, Goto
  <2>3. ASSUME NEW a \in Allocs, DropBlock(p, a) PROVE Opens
    BY <2>3, <1>g, <1>h DEF DropBlock, Goto
  <2>4. ASSUME NEW a \in Allocs, Lease(p, a) PROVE Opens
    BY <2>4 DEF Lease
  <2>5. ASSUME NEW a \in Allocs, DropLease(p, a) PROVE Opens
    <3>1. CASE phase[a] = "orphan"
      BY <2>5, <3>1, <1>g DEF DropLease, Close
    <3>2. CASE ~(phase[a] = "orphan")
      BY <2>5, <3>2, <1>g DEF DropLease, Close
    <3> QED BY <3>1, <3>2
  <2>6. CASE BeginCapture(p)
    BY <2>6 DEF BeginCapture, DrainThen, Drainable
  <2>7. CASE EndCapture(p)
    BY <2>7 DEF EndCapture
  <2>8. CASE Reap(p)
    BY <2>8 DEF Reap, DrainThen, Drainable
  <2>9. CASE Enter(p)
    BY <2>9, <1>c, <1>g DEF Enter, Goto, MayEnter
  <2>10. CASE EnterRefused(p)
    BY <2>10 DEF EnterRefused, Goto
  <2>11. CASE Uncaptured(p)
    BY <2>11 DEF Uncaptured, Goto
  <2>12. CASE CaptureRefused(p)
    BY <2>12, <1>c, <1>g DEF CaptureRefused, Goto, DropPermit
  <2>13. CASE Malloc(p)
    BY <2>13 DEF Malloc, Goto
  <2>14. CASE MallocRefused(p)
    BY <2>14, <1>c, <1>g DEF MallocRefused, Goto, Close
  <2>15. CASE Publish(p)
    BY <2>15, <1>c, <1>g DEF Publish, Goto, DropPermit
  <2>16. CASE InitFails(p)
    BY <2>16, <1>c, <1>g DEF InitFails, Goto, Close, RetainFailure
  <2>17. CASE Enqueue(p)
    <3>1. \A x \in Allocs : Has(queue', {Raw(x)}) <=> Has(queue, {Raw(x)}) \/ item[p] = Raw(x)
      BY <2>17, <1>t, HasAppend DEF Enqueue
    <3>2. /\ UNCHANGED <<phase, permit, retry, rel>>
          /\ \A q \in Procs : item'[q] = IF q = p THEN None ELSE item[q]
      BY <2>17 DEF Enqueue
    <3> QED BY <3>1, <3>2, <1>g
  <2>18. CASE DrainNext(p)
    <3>1. \A x \in Allocs : Has(queue, {Raw(x)}) <=> Head(queue) = Raw(x) \/ Has(queue', {Raw(x)})
      BY <2>18, <1>t, HasTail DEF DrainNext
    <3>2. /\ UNCHANGED <<phase, permit, retry, rel>>
          /\ \A q \in Procs : item'[q] = IF q = p THEN Head(queue) ELSE item[q]
      BY <2>18 DEF DrainNext
    <3> QED BY <3>1, <3>2
  <2>19. CASE DrainDone(p)
    <3>1. \A x \in Allocs : Has(queue', {Raw(x)}) => Has(retry, {Raw(x)})
      BY <2>19 DEF DrainDone
    <3>2. \A x \in Allocs : ~Has(retry', {Raw(x)})
      BY <2>19, HasNone DEF DrainDone
    <3>3. UNCHANGED <<phase, permit, rel, item>>
      BY <2>19 DEF DrainDone
    <3> QED BY <3>1, <3>2, <3>3
  <2>20. ASSUME NEW a \in Allocs, RetireNative(p, a) PROVE Opens
    <3>1. CASE lease[a] = "held"
      BY <2>20, <3>1, <1>g DEF RetireNative, Close
    <3>2. CASE ~(lease[a] = "held")
      BY <2>20, <3>2, <1>g DEF RetireNative, Close
    <3> QED BY <3>1, <3>2
  <2>21. ASSUME NEW a \in Allocs, RetireRuntime(p, a) PROVE Opens
    BY <2>21 DEF RetireRuntime, Goto
  <2>22. ASSUME NEW a \in Allocs, RetireBlock(p, a) PROVE Opens
    <3>1. CASE phase[a] = "freed"
      BY <2>22, <3>1, <1>g DEF RetireBlock
    <3>2. CASE ~(phase[a] = "freed")
      BY <2>22, <3>2, <1>g DEF RetireBlock
    <3> QED BY <3>1, <3>2
  <2>23. ASSUME NEW a \in Allocs, RetireRaw(p, a) PROVE Opens
    BY <2>23, <1>g DEF RetireRaw, Goto
  <2>24. CASE TakeBatch(p)
    BY <2>24 DEF TakeBatch, Goto
  <2>25. CASE VisitLeased(p)
    BY <2>25 DEF VisitLeased
  <2>26. CASE VisitUnique(p)
    BY <2>26 DEF VisitUnique, Goto, Close
  <2>27. CASE ReapDone(p)
    <3>1. ReapedTo(p)
      BY <2>27, <1>d DEF ReapDone
    <3> QED BY <2>27, <3>1, <1>f DEF ReapDone
  <2>28. CASE ReleaseUnacquired(p)
    <3>1. CASE item[p] = Raw(rel[p])
      BY <2>28, <3>1, <1>b, <1>c, <1>g, <1>k DEF ReleaseUnacquired, ReleaseDone,
      DropPermit
    <3>2. CASE ~(item[p] = Raw(rel[p]))
      BY <2>28, <3>2, <1>b, <1>c, <1>g, <1>k DEF ReleaseUnacquired, ReleaseDone,
      DropPermit
    <3> QED BY <3>1, <3>2
  <2>29. CASE ReleaseEnter(p)
    BY <2>29, <1>b, <1>c, <1>g, <1>k DEF ReleaseEnter, Goto, MayEnter
  <2>30. CASE ReleaseExclude(p)
    BY <2>30 DEF ReleaseExclude, Goto, RequireKnown
  <2>31. CASE AwaitFences(p)
    BY <2>31 DEF AwaitFences, Goto
  <2>32. CASE Free(p)
    <3>1. CASE item[p] = Raw(rel[p])
      BY <2>32, <3>1, <1>b, <1>c, <1>g, <1>k DEF Free, ReleaseDone, DropPermit
    <3>2. CASE ~(item[p] = Raw(rel[p]))
      BY <2>32, <3>2, <1>b, <1>c, <1>g, <1>k DEF Free, ReleaseDone, DropPermit
    <3> QED BY <3>1, <3>2
  <2>33. CASE AcquireCapture(p)
    BY <2>33 DEF AcquireCapture, Goto, CaptureFree
  <2>34. CASE Fails(p)
    <3>1. FailedTo(p) /\ Lapsed(p)
      BY <2>34, <1>d DEF Fails
    <3> QED BY <3>1, <1>f, NoneAssumption DEF Lapsed
  <2> QED
    BY <1>2, <2>1, <2>2, <2>3, <2>4, <2>5, <2>6, <2>7, <2>8, <2>9, <2>10,
    <2>11, <2>12, <2>13, <2>14, <2>15, <2>16, <2>17, <2>18, <2>19, <2>20,
    <2>21, <2>22, <2>23, <2>24, <2>25, <2>26, <2>27, <2>28, <2>29, <2>30,
    <2>31, <2>32, <2>33, <2>34 DEF Request, Continue, Fails
<1>3. CASE Opens
  BY <1>3, ClosedStays DEF Closed
<1> HIDE DEF Opens
<1> QED BY <1>1, <1>2, <1>3 DEF Next

\* Every step leaves attempts with their permit, and owners without one where none
\* is due.
LEMMA AttemptsStep ==
  ASSUME ThreadTypes, OwnerTypes, QueueTypes, Threads, Attempts, Releases, Exclusion, Closed, Tracked, [Next]_vars
  PROVE  Attempts'
<1>a. \A p \in Procs : (Fails(p) => FailedTo(p)) /\ (AfterReap(p) => ReapedTo(p))
  BY FailOutcome, ReapOutcome
<1>b. \A p \in Procs : rel[p] # None =>
        /\ rel[p] \in Allocs /\ phase[rel[p]] = "dropped"
        /\ \A q \in Procs : rel[q] = rel[p] => q = p
  BY ReleasedOwners
<1>c. \A p \in Procs, a \in Allocs : pc[p] = "item" /\ item[p] = Storage(a) => phase[a] = "dropped"
  BY ReleasedOwners
<1>d. \A p \in Procs : Fails(p) => Lapsed(p)
  BY FailedRelease
<1>e. \A a \in Allocs : phase[a] = "dropped" /\ permit[a] => lease[a] = "closed"
  BY DEF Closed, Departing
<1> USE NoneAssumption DEF ThreadTypes, OwnerTypes, Threads, Attempts, Exclusion, Attempting,
          Releasing, exclusionVars, ownerVars, coldVars, captureVars,
          threadVars
<1>1. CASE UNCHANGED vars
  BY <1>1 DEF vars
<1>2. ASSUME NEW p \in Procs, Request(p) \/ Continue(p) PROVE Attempts'
  <2>1. ASSUME NEW a \in Allocs, Allocate(p, a) PROVE Attempts'
    BY <2>1, <1>b DEF Allocate, Goto
  <2>2. ASSUME NEW a \in Allocs, DropStorage(p, a) PROVE Attempts'
    BY <2>2, <1>b DEF DropStorage, Goto
  <2>3. ASSUME NEW a \in Allocs, DropBlock(p, a) PROVE Attempts'
    BY <2>3, <1>b DEF DropBlock, Goto
  <2>4. ASSUME NEW a \in Allocs, Lease(p, a) PROVE Attempts'
    BY <2>4, <1>b DEF Lease
  <2>5. ASSUME NEW a \in Allocs, DropLease(p, a) PROVE Attempts'
    <3>1. CASE phase[a] = "orphan"
      <4>1. /\ phase' = [phase EXCEPT ![a] = "dropped"] /\ pc' = [pc EXCEPT ![p] = "enqueue"]
            /\ UNCHANGED <<permit, acquired, cur>> /\ pc[p] = "idle"
        BY <2>5, <3>1 DEF DropLease
      <4> QED BY <3>1, <4>1
    <3>2. CASE phase[a] # "orphan"
      BY <2>5, <3>2 DEF DropLease
    <3> QED BY <3>1, <3>2
  <2>6. CASE BeginCapture(p)
    <3>1. CASE Drainable /\ queue # <<>>
      BY <2>6, <3>1, <1>b DEF BeginCapture, DrainThen, Drainable
    <3>2. CASE ~(Drainable /\ queue # <<>>)
      BY <2>6, <3>2, <1>b DEF BeginCapture, DrainThen, Drainable
    <3> QED BY <3>1, <3>2
  <2>7. CASE EndCapture(p)
    <3>1. CASE retiring = None /\ queue # <<>>
      BY <2>7, <3>1, <1>b DEF EndCapture
    <3>2. CASE ~(retiring = None /\ queue # <<>>)
      BY <2>7, <3>2, <1>b DEF EndCapture
    <3> QED BY <3>1, <3>2
  <2>8. CASE Reap(p)
    <3>1. CASE Drainable /\ queue # <<>>
      BY <2>8, <3>1, <1>b DEF Reap, DrainThen, Drainable
    <3>2. CASE ~(Drainable /\ queue # <<>>)
      BY <2>8, <3>2, <1>b DEF Reap, DrainThen, Drainable
    <3> QED BY <3>1, <3>2
  <2>9. CASE Enter(p)
    BY <2>9, <1>b DEF Enter, Goto, MayEnter
  <2>10. CASE EnterRefused(p)
    BY <2>10, <1>b DEF EnterRefused, Goto
  <2>11. CASE Uncaptured(p)
    BY <2>11, <1>b DEF Uncaptured, Goto
  <2>12. CASE CaptureRefused(p)
    BY <2>12, <1>b DEF CaptureRefused, Goto, DropPermit
  <2>13. CASE Malloc(p)
    BY <2>13, <1>b DEF Malloc, Goto
  <2>14. CASE MallocRefused(p)
    BY <2>14, <1>b DEF MallocRefused, Goto, Close
  <2>15. CASE Publish(p)
    BY <2>15, <1>b DEF Publish, Goto, DropPermit
  <2>16. CASE InitFails(p)
    BY <2>16, <1>b DEF InitFails, Goto, Close, RetainFailure
  <2>17. CASE Enqueue(p)
    <3>1. CASE Drainable \/ retiring = p
      BY <2>17, <3>1, <1>b DEF Enqueue
    <3>2. CASE ~(Drainable \/ retiring = p)
      <4>1. \E s \in {"reap", "begin", "idle"} : pc' = [pc EXCEPT ![p] = s]
        BY <2>17, <3>2 DEF Enqueue, Return
      <4>2. cur' = [cur EXCEPT ![p] = None]
        BY <2>17, <3>2 DEF Enqueue, Return
      <4>3. /\ UNCHANGED <<phase, acquired, lease, freeState, permit, active, failed, rel, retry>>
            /\ queue' = Append(queue, item[p]) /\ item' = [item EXCEPT ![p] = None] /\ pc[p] = "enqueue"
        BY <2>17 DEF Enqueue
      <4> QED BY <4>1, <4>2, <4>3, <1>b
    <3> QED BY <3>1, <3>2
  <2>18. CASE DrainNext(p)
    BY <2>18, <1>b DEF DrainNext, Goto
  <2>19. CASE DrainDone(p)
    BY <2>19, <1>b DEF DrainDone, Return, ExclusionsAfter
  <2>20. ASSUME NEW a \in Allocs, RetireNative(p, a) PROVE Attempts'
    <3>1. CASE lease[a] = "held"
      BY <2>20, <3>1, <1>b, <1>c, <1>e DEF RetireNative, Close
    <3>2. CASE ~(lease[a] = "held")
      BY <2>20, <3>2, <1>b, <1>c, <1>e DEF RetireNative, Close
    <3> QED BY <3>1, <3>2
  <2>21. ASSUME NEW a \in Allocs, RetireRuntime(p, a) PROVE Attempts'
    BY <2>21, <1>b DEF RetireRuntime, Goto
  <2>22. ASSUME NEW a \in Allocs, RetireBlock(p, a) PROVE Attempts'
    <3>1. CASE phase[a] = "freed"
      BY <2>22, <3>1, <1>b DEF RetireBlock
    <3>2. CASE ~(phase[a] = "freed")
      BY <2>22, <3>2, <1>b DEF RetireBlock
    <3> QED BY <3>1, <3>2
  <2>23. ASSUME NEW a \in Allocs, RetireRaw(p, a) PROVE Attempts'
    BY <2>23, <1>b DEF RetireRaw, Goto
  <2>24. CASE TakeBatch(p)
    BY <2>24, <1>b DEF TakeBatch, Goto
  <2>25. CASE VisitLeased(p)
    BY <2>25, <1>b DEF VisitLeased
  <2>26. CASE VisitUnique(p)
    BY <2>26, <1>b DEF VisitUnique, Goto, Close
  <2>27. CASE ReapDone(p)
    <3>1. ReapedTo(p)
      BY <2>27, <1>a DEF ReapDone
    <3> QED
      BY <2>27, <3>1, <1>b DEF ReapDone, Merge, ReapedTo
  <2>28. CASE ReleaseUnacquired(p)
    <3>1. CASE item[p] = Raw(rel[p])
      BY <2>28, <3>1, <1>b DEF ReleaseUnacquired, ReleaseDone, DropPermit
    <3>2. CASE ~(item[p] = Raw(rel[p]))
      BY <2>28, <3>2, <1>b DEF ReleaseUnacquired, ReleaseDone, DropPermit
    <3> QED BY <3>1, <3>2
  <2>29. CASE ReleaseEnter(p)
    BY <2>29, <1>b DEF ReleaseEnter, Goto, MayEnter
  <2>30. CASE ReleaseExclude(p)
    BY <2>30, <1>b DEF ReleaseExclude, Goto, RequireKnown
  <2>31. CASE AwaitFences(p)
    BY <2>31, <1>b DEF AwaitFences, Goto
  <2>32. CASE Free(p)
    <3>1. CASE item[p] = Raw(rel[p])
      BY <2>32, <3>1, <1>b DEF Free, ReleaseDone, DropPermit
    <3>2. CASE ~(item[p] = Raw(rel[p]))
      BY <2>32, <3>2, <1>b DEF Free, ReleaseDone, DropPermit
    <3> QED BY <3>1, <3>2
  <2>33. CASE AcquireCapture(p)
    BY <2>33, <1>b DEF AcquireCapture, Goto, CaptureFree
  <2>34. CASE Fails(p)
    <3>1. Lapsed(p)
      BY <2>34, <1>d DEF Fails
    <3> QED BY <3>1, <1>b DEF Lapsed
  <2> QED
    BY <1>2, <2>1, <2>2, <2>3, <2>4, <2>5, <2>6, <2>7, <2>8, <2>9, <2>10,
    <2>11, <2>12, <2>13, <2>14, <2>15, <2>16, <2>17, <2>18, <2>19, <2>20,
    <2>21, <2>22, <2>23, <2>24, <2>25, <2>26, <2>27, <2>28, <2>29, <2>30,
    <2>31, <2>32, <2>33, <2>34 DEF Request, Continue, Fails
<1> QED BY <1>1, <1>2 DEF Next

\* Every step leaves a release with the permit, the memory and a free that was
\* not submitted.
LEMMA ReleasesStep ==
  ASSUME ThreadTypes, OwnerTypes, QueueTypes, Threads, Attempts, Releases, Exclusion, Closed, Tracked, [Next]_vars
  PROVE  Releases'
<1>a. \A p \in Procs : (Fails(p) => FailedTo(p)) /\ (AfterReap(p) => ReapedTo(p))
  BY FailOutcome, ReapOutcome
<1>b. \A p \in Procs : rel[p] # None =>
        /\ rel[p] \in Allocs /\ phase[rel[p]] = "dropped"
        /\ \A q \in Procs : rel[q] = rel[p] => q = p
  BY ReleasedOwners
<1>c. \A p \in Procs, a \in Allocs : pc[p] = "item" /\ item[p] = Storage(a) => phase[a] = "dropped"
  BY ReleasedOwners
<1>d. \A p \in Procs : Fails(p) => Lapsed(p)
  BY FailedRelease
<1>e. \A a \in Allocs : phase[a] = "dropped" /\ permit[a] => lease[a] = "closed"
  BY DEF Closed, Departing
<1> USE NoneAssumption DEF ThreadTypes, OwnerTypes, Threads, Attempts, Releases, Attempting,
          Releasing, exclusionVars, ownerVars, coldVars, captureVars,
          threadVars
<1>1. CASE UNCHANGED vars
  BY <1>1 DEF vars
<1>2. ASSUME NEW p \in Procs, Request(p) \/ Continue(p) PROVE Releases'
  <2>1. ASSUME NEW a \in Allocs, Allocate(p, a) PROVE Releases'
    BY <2>1, <1>b DEF Allocate, Goto
  <2>2. ASSUME NEW a \in Allocs, DropStorage(p, a) PROVE Releases'
    BY <2>2, <1>b DEF DropStorage, Goto
  <2>3. ASSUME NEW a \in Allocs, DropBlock(p, a) PROVE Releases'
    BY <2>3, <1>b DEF DropBlock, Goto
  <2>4. ASSUME NEW a \in Allocs, Lease(p, a) PROVE Releases'
    BY <2>4, <1>b DEF Lease
  <2>5. ASSUME NEW a \in Allocs, DropLease(p, a) PROVE Releases'
    <3>1. CASE phase[a] = "orphan"
      BY <2>5, <3>1, <1>b DEF DropLease, Close
    <3>2. CASE ~(phase[a] = "orphan")
      BY <2>5, <3>2, <1>b DEF DropLease, Close
    <3> QED BY <3>1, <3>2
  <2>6. CASE BeginCapture(p)
    <3>1. CASE Drainable /\ queue # <<>>
      BY <2>6, <3>1, <1>b DEF BeginCapture, DrainThen, Drainable
    <3>2. CASE ~(Drainable /\ queue # <<>>)
      BY <2>6, <3>2, <1>b DEF BeginCapture, DrainThen, Drainable
    <3> QED BY <3>1, <3>2
  <2>7. CASE EndCapture(p)
    <3>1. CASE retiring = None /\ queue # <<>>
      BY <2>7, <3>1, <1>b DEF EndCapture
    <3>2. CASE ~(retiring = None /\ queue # <<>>)
      BY <2>7, <3>2, <1>b DEF EndCapture
    <3> QED BY <3>1, <3>2
  <2>8. CASE Reap(p)
    <3>1. CASE Drainable /\ queue # <<>>
      BY <2>8, <3>1, <1>b DEF Reap, DrainThen, Drainable
    <3>2. CASE ~(Drainable /\ queue # <<>>)
      BY <2>8, <3>2, <1>b DEF Reap, DrainThen, Drainable
    <3> QED BY <3>1, <3>2
  <2>9. CASE Enter(p)
    BY <2>9, <1>b DEF Enter, Goto, MayEnter
  <2>10. CASE EnterRefused(p)
    BY <2>10, <1>b DEF EnterRefused, Goto
  <2>11. CASE Uncaptured(p)
    BY <2>11, <1>b DEF Uncaptured, Goto
  <2>12. CASE CaptureRefused(p)
    BY <2>12, <1>b DEF CaptureRefused, Goto, DropPermit
  <2>13. CASE Malloc(p)
    BY <2>13, <1>b DEF Malloc, Goto
  <2>14. CASE MallocRefused(p)
    BY <2>14, <1>b DEF MallocRefused, Goto, Close
  <2>15. CASE Publish(p)
    BY <2>15, <1>b DEF Publish, Goto, DropPermit
  <2>16. CASE InitFails(p)
    BY <2>16, <1>b DEF InitFails, Goto, Close, RetainFailure
  <2>17. CASE Enqueue(p)
    <3>1. CASE Drainable \/ retiring = p
      BY <2>17, <3>1, <1>b DEF Enqueue
    <3>2. CASE ~(Drainable \/ retiring = p)
      <4>1. \E s \in {"reap", "begin", "idle"} : pc' = [pc EXCEPT ![p] = s]
        BY <2>17, <3>2 DEF Enqueue, Return
      <4>2. cur' = [cur EXCEPT ![p] = None]
        BY <2>17, <3>2 DEF Enqueue, Return
      <4>3. /\ UNCHANGED <<phase, acquired, lease, freeState, permit, active, failed, rel, retry>>
            /\ queue' = Append(queue, item[p]) /\ item' = [item EXCEPT ![p] = None] /\ pc[p] = "enqueue"
        BY <2>17 DEF Enqueue
      <4> QED BY <4>1, <4>2, <4>3, <1>b
    <3> QED BY <3>1, <3>2
  <2>18. CASE DrainNext(p)
    BY <2>18, <1>b DEF DrainNext, Goto
  <2>19. CASE DrainDone(p)
    BY <2>19, <1>b DEF DrainDone, Return, ExclusionsAfter
  <2>20. ASSUME NEW a \in Allocs, RetireNative(p, a) PROVE Releases'
    <3>1. CASE lease[a] = "held"
      BY <2>20, <3>1, <1>b, <1>c, <1>e DEF RetireNative, Close
    <3>2. CASE ~(lease[a] = "held")
      BY <2>20, <3>2, <1>b, <1>c, <1>e DEF RetireNative, Close
    <3> QED BY <3>1, <3>2
  <2>21. ASSUME NEW a \in Allocs, RetireRuntime(p, a) PROVE Releases'
    BY <2>21, <1>b DEF RetireRuntime, Goto
  <2>22. ASSUME NEW a \in Allocs, RetireBlock(p, a) PROVE Releases'
    <3>1. CASE phase[a] = "freed"
      BY <2>22, <3>1, <1>b DEF RetireBlock
    <3>2. CASE ~(phase[a] = "freed")
      BY <2>22, <3>2, <1>b DEF RetireBlock
    <3> QED BY <3>1, <3>2
  <2>23. ASSUME NEW a \in Allocs, RetireRaw(p, a) PROVE Releases'
    BY <2>23, <1>b DEF RetireRaw, Goto
  <2>24. CASE TakeBatch(p)
    BY <2>24, <1>b DEF TakeBatch, Goto
  <2>25. CASE VisitLeased(p)
    BY <2>25, <1>b DEF VisitLeased
  <2>26. CASE VisitUnique(p)
    BY <2>26, <1>b DEF VisitUnique, Goto, Close
  <2>27. CASE ReapDone(p)
    <3>1. ReapedTo(p)
      BY <2>27, <1>a DEF ReapDone
    <3> QED
      BY <2>27, <3>1, <1>b DEF ReapDone, Merge, ReapedTo
  <2>28. CASE ReleaseUnacquired(p)
    <3>1. CASE item[p] = Raw(rel[p])
      BY <2>28, <3>1, <1>b DEF ReleaseUnacquired, ReleaseDone, DropPermit
    <3>2. CASE ~(item[p] = Raw(rel[p]))
      BY <2>28, <3>2, <1>b DEF ReleaseUnacquired, ReleaseDone, DropPermit
    <3> QED BY <3>1, <3>2
  <2>29. CASE ReleaseEnter(p)
    BY <2>29, <1>b DEF ReleaseEnter, Goto, MayEnter
  <2>30. CASE ReleaseExclude(p)
    BY <2>30, <1>b DEF ReleaseExclude, Goto, RequireKnown
  <2>31. CASE AwaitFences(p)
    BY <2>31, <1>b DEF AwaitFences, Goto
  <2>32. CASE Free(p)
    <3>1. CASE item[p] = Raw(rel[p])
      BY <2>32, <3>1, <1>b DEF Free, ReleaseDone, DropPermit
    <3>2. CASE ~(item[p] = Raw(rel[p]))
      BY <2>32, <3>2, <1>b DEF Free, ReleaseDone, DropPermit
    <3> QED BY <3>1, <3>2
  <2>33. CASE AcquireCapture(p)
    BY <2>33, <1>b DEF AcquireCapture, Goto, CaptureFree
  <2>34. CASE Fails(p)
    <3>1. Lapsed(p)
      BY <2>34, <1>d DEF Fails
    <3> QED BY <3>1, <1>b DEF Lapsed
  <2> QED
    BY <1>2, <2>1, <2>2, <2>3, <2>4, <2>5, <2>6, <2>7, <2>8, <2>9, <2>10,
    <2>11, <2>12, <2>13, <2>14, <2>15, <2>16, <2>17, <2>18, <2>19, <2>20,
    <2>21, <2>22, <2>23, <2>24, <2>25, <2>26, <2>27, <2>28, <2>29, <2>30,
    <2>31, <2>32, <2>33, <2>34 DEF Request, Continue, Fails
<1> QED BY <1>1, <1>2 DEF Next

\* Every step leaves the exclusion with the owner that has the permit.
LEMMA ExclusionStep ==
  ASSUME ThreadTypes, OwnerTypes, QueueTypes, Threads, Attempts, Releases, Exclusion, Closed, Tracked, [Next]_vars
  PROVE  Exclusion'
<1>a. \A p \in Procs : (Fails(p) => FailedTo(p)) /\ (AfterReap(p) => ReapedTo(p))
  BY FailOutcome, ReapOutcome
<1>b. \A p \in Procs : rel[p] # None =>
        /\ rel[p] \in Allocs /\ phase[rel[p]] = "dropped"
        /\ \A q \in Procs : rel[q] = rel[p] => q = p
  BY ReleasedOwners
<1>c. \A p \in Procs, a \in Allocs : pc[p] = "item" /\ item[p] = Storage(a) => phase[a] = "dropped"
  BY ReleasedOwners
<1>d. \A p \in Procs : Fails(p) => Lapsed(p)
  BY FailedRelease
<1>e. \A a \in Allocs : phase[a] = "dropped" /\ permit[a] => lease[a] = "closed"
  BY DEF Closed, Departing
<1> USE NoneAssumption DEF ThreadTypes, OwnerTypes, Threads, Exclusion, Attempts, Releases,
          Attempting, Releasing, exclusionVars, ownerVars, coldVars,
          captureVars, threadVars
<1>1. CASE UNCHANGED vars
  BY <1>1 DEF vars
<1>2. ASSUME NEW p \in Procs, Request(p) \/ Continue(p) PROVE Exclusion'
  <2>1. ASSUME NEW a \in Allocs, Allocate(p, a) PROVE Exclusion'
    BY <2>1, <1>b DEF Allocate, Goto
  <2>2. ASSUME NEW a \in Allocs, DropStorage(p, a) PROVE Exclusion'
    BY <2>2, <1>b DEF DropStorage, Goto
  <2>3. ASSUME NEW a \in Allocs, DropBlock(p, a) PROVE Exclusion'
    BY <2>3, <1>b DEF DropBlock, Goto
  <2>4. ASSUME NEW a \in Allocs, Lease(p, a) PROVE Exclusion'
    BY <2>4, <1>b DEF Lease
  <2>5. ASSUME NEW a \in Allocs, DropLease(p, a) PROVE Exclusion'
    <3>1. CASE phase[a] = "orphan"
      BY <2>5, <3>1, <1>b DEF DropLease, Close
    <3>2. CASE ~(phase[a] = "orphan")
      BY <2>5, <3>2, <1>b DEF DropLease, Close
    <3> QED BY <3>1, <3>2
  <2>6. CASE BeginCapture(p)
    <3>1. CASE Drainable /\ queue # <<>>
      BY <2>6, <3>1, <1>b DEF BeginCapture, DrainThen, Drainable
    <3>2. CASE ~(Drainable /\ queue # <<>>)
      BY <2>6, <3>2, <1>b DEF BeginCapture, DrainThen, Drainable
    <3> QED BY <3>1, <3>2
  <2>7. CASE EndCapture(p)
    <3>1. CASE retiring = None /\ queue # <<>>
      BY <2>7, <3>1, <1>b DEF EndCapture
    <3>2. CASE ~(retiring = None /\ queue # <<>>)
      BY <2>7, <3>2, <1>b DEF EndCapture
    <3> QED BY <3>1, <3>2
  <2>8. CASE Reap(p)
    <3>1. CASE Drainable /\ queue # <<>>
      BY <2>8, <3>1, <1>b DEF Reap, DrainThen, Drainable
    <3>2. CASE ~(Drainable /\ queue # <<>>)
      BY <2>8, <3>2, <1>b DEF Reap, DrainThen, Drainable
    <3> QED BY <3>1, <3>2
  <2>9. CASE Enter(p)
    BY <2>9, <1>b DEF Enter, Goto, MayEnter
  <2>10. CASE EnterRefused(p)
    BY <2>10, <1>b DEF EnterRefused, Goto
  <2>11. CASE Uncaptured(p)
    BY <2>11, <1>b DEF Uncaptured, Goto
  <2>12. CASE CaptureRefused(p)
    BY <2>12, <1>b DEF CaptureRefused, Goto, DropPermit
  <2>13. CASE Malloc(p)
    BY <2>13, <1>b DEF Malloc, Goto
  <2>14. CASE MallocRefused(p)
    BY <2>14, <1>b DEF MallocRefused, Goto, Close
  <2>15. CASE Publish(p)
    <3>1. /\ cur[p] \in Allocs /\ permit[cur[p]] /\ phase[cur[p]] = "attempt"
          /\ permit' = [permit EXCEPT ![cur[p]] = FALSE] /\ failed' = failed /\ active' = (failed' # None)
      BY <2>15 DEF Publish, Goto, DropPermit
    <3>2. failed = None
      BY <3>1
    <3>3. \A x \in Allocs : ~permit'[x]
      BY <3>1
    <3> QED BY <3>1, <3>2, <3>3
  <2>16. CASE InitFails(p)
    BY <2>16, <1>b DEF InitFails, Goto, Close, RetainFailure
  <2>17. CASE Enqueue(p)
    <3>1. CASE Drainable \/ retiring = p
      BY <2>17, <3>1, <1>b DEF Enqueue
    <3>2. CASE ~(Drainable \/ retiring = p)
      <4>1. \E s \in {"reap", "begin", "idle"} : pc' = [pc EXCEPT ![p] = s]
        BY <2>17, <3>2 DEF Enqueue, Return
      <4>2. cur' = [cur EXCEPT ![p] = None]
        BY <2>17, <3>2 DEF Enqueue, Return
      <4>3. /\ UNCHANGED <<phase, acquired, lease, freeState, permit, active, failed, rel, retry>>
            /\ queue' = Append(queue, item[p]) /\ item' = [item EXCEPT ![p] = None] /\ pc[p] = "enqueue"
        BY <2>17 DEF Enqueue
      <4> QED BY <4>1, <4>2, <4>3, <1>b
    <3> QED BY <3>1, <3>2
  <2>18. CASE DrainNext(p)
    BY <2>18, <1>b DEF DrainNext, Goto
  <2>19. CASE DrainDone(p)
    BY <2>19, <1>b DEF DrainDone, Return, ExclusionsAfter
  <2>20. ASSUME NEW a \in Allocs, RetireNative(p, a) PROVE Exclusion'
    <3>1. CASE lease[a] = "held"
      BY <2>20, <3>1, <1>b, <1>c, <1>e DEF RetireNative, Close
    <3>2. CASE ~(lease[a] = "held")
      BY <2>20, <3>2, <1>b, <1>c, <1>e DEF RetireNative, Close
    <3> QED BY <3>1, <3>2
  <2>21. ASSUME NEW a \in Allocs, RetireRuntime(p, a) PROVE Exclusion'
    BY <2>21, <1>b DEF RetireRuntime, Goto
  <2>22. ASSUME NEW a \in Allocs, RetireBlock(p, a) PROVE Exclusion'
    <3>1. CASE phase[a] = "freed"
      BY <2>22, <3>1, <1>b DEF RetireBlock
    <3>2. CASE ~(phase[a] = "freed")
      BY <2>22, <3>2, <1>b DEF RetireBlock
    <3> QED BY <3>1, <3>2
  <2>23. ASSUME NEW a \in Allocs, RetireRaw(p, a) PROVE Exclusion'
    BY <2>23, <1>b DEF RetireRaw, Goto
  <2>24. CASE TakeBatch(p)
    BY <2>24, <1>b DEF TakeBatch, Goto
  <2>25. CASE VisitLeased(p)
    BY <2>25, <1>b DEF VisitLeased
  <2>26. CASE VisitUnique(p)
    BY <2>26, <1>b DEF VisitUnique, Goto, Close
  <2>27. CASE ReapDone(p)
    <3>1. ReapedTo(p)
      BY <2>27, <1>a DEF ReapDone
    <3> QED
      BY <2>27, <3>1, <1>b DEF ReapDone, Merge, ReapedTo
  <2>28. CASE ReleaseUnacquired(p)
    <3>1. CASE item[p] = Raw(rel[p])
      BY <2>28, <3>1, <1>b DEF ReleaseUnacquired, ReleaseDone, DropPermit
    <3>2. CASE ~(item[p] = Raw(rel[p]))
      BY <2>28, <3>2, <1>b DEF ReleaseUnacquired, ReleaseDone, DropPermit
    <3> QED BY <3>1, <3>2
  <2>29. CASE ReleaseEnter(p)
    BY <2>29, <1>b DEF ReleaseEnter, Goto, MayEnter
  <2>30. CASE ReleaseExclude(p)
    BY <2>30, <1>b DEF ReleaseExclude, Goto, RequireKnown
  <2>31. CASE AwaitFences(p)
    BY <2>31, <1>b DEF AwaitFences, Goto
  <2>32. CASE Free(p)
    <3>1. /\ rel[p] \in Allocs /\ permit[rel[p]] /\ acquired[rel[p]]
          /\ permit' = [permit EXCEPT ![rel[p]] = FALSE] /\ failed' = None /\ active' = (failed' # None)
      BY <2>32, <1>b DEF Free, ReleaseDone, DropPermit
    <3>2. \A x \in Allocs : ~permit'[x]
      BY <3>1
    <3> QED BY <3>1, <3>2
  <2>33. CASE AcquireCapture(p)
    BY <2>33, <1>b DEF AcquireCapture, Goto, CaptureFree
  <2>34. CASE Fails(p)
    <3>1. Lapsed(p)
      BY <2>34, <1>d DEF Fails
    <3> QED BY <3>1, <1>b DEF Lapsed
  <2> QED
    BY <1>2, <2>1, <2>2, <2>3, <2>4, <2>5, <2>6, <2>7, <2>8, <2>9, <2>10,
    <2>11, <2>12, <2>13, <2>14, <2>15, <2>16, <2>17, <2>18, <2>19, <2>20,
    <2>21, <2>22, <2>23, <2>24, <2>25, <2>26, <2>27, <2>28, <2>29, <2>30,
    <2>31, <2>32, <2>33, <2>34 DEF Request, Continue, Fails
<1> QED BY <1>1, <1>2 DEF Next

-----------------------------------------------------------------------------
(* The exclusions of stream capture.                                       *)

\* One thread comes to or leaves the threads that exclude stream capture.
Counts(p) ==
  \/ Making' = Making /\ Freeing' = Freeing /\ exclusions' = exclusions
  \/ p \notin Making /\ Making' = Making \cup {p} /\ Freeing' = Freeing /\ exclusions' = exclusions + 1
  \/ p \in Making /\ Making' = Making \ {p} /\ Freeing' = Freeing /\ exclusions' = exclusions - 1
  \/ p \notin Freeing /\ Freeing' = Freeing \cup {p} /\ Making' = Making /\ exclusions' = exclusions + 1
  \/ p \in Freeing /\ Freeing' = Freeing \ {p} /\ Making' = Making /\ exclusions' = exclusions - 1

\* Such a step keeps the count of the exclusions.
LEMMA Counted ==
  ASSUME Excluders, NEW p \in Procs, Counts(p)
  PROVE  /\ IsFiniteSet(Making') /\ IsFiniteSet(Freeing')
         /\ exclusions' = Cardinality(Making') + Cardinality(Freeing')
<1>1. /\ IsFiniteSet(Making) /\ IsFiniteSet(Freeing)
      /\ exclusions = Cardinality(Making) + Cardinality(Freeing)
  BY DEF Excluders
<1> HIDE DEF Making, Freeing
<1>2. /\ Cardinality(Making) \in Nat
      /\ IsFiniteSet(Making \cup {p}) /\ IsFiniteSet(Making \ {p})
      /\ p \notin Making => Cardinality(Making \cup {p}) = Cardinality(Making) + 1
      /\ p \in Making => Cardinality(Making \ {p}) = Cardinality(Making) - 1
  BY <1>1, FS_CardinalityType, FS_AddElement, FS_RemoveElement
<1>a. /\ Cardinality(Freeing) \in Nat
      /\ IsFiniteSet(Freeing \cup {p}) /\ IsFiniteSet(Freeing \ {p})
      /\ p \notin Freeing => Cardinality(Freeing \cup {p}) = Cardinality(Freeing) + 1
      /\ p \in Freeing => Cardinality(Freeing \ {p}) = Cardinality(Freeing) - 1
  BY <1>1, FS_CardinalityType, FS_AddElement, FS_RemoveElement
<1>3. CASE Making' = Making /\ Freeing' = Freeing /\ exclusions' = exclusions
  BY <1>1, <1>3
<1>4. CASE p \notin Making /\ Making' = Making \cup {p} /\ Freeing' = Freeing /\ exclusions' = exclusions + 1
  BY <1>1, <1>2, <1>a, <1>4
<1>5. CASE p \in Making /\ Making' = Making \ {p} /\ Freeing' = Freeing /\ exclusions' = exclusions - 1
  BY <1>1, <1>2, <1>a, <1>5
<1>6. CASE p \notin Freeing /\ Freeing' = Freeing \cup {p} /\ Making' = Making /\ exclusions' = exclusions + 1
  BY <1>1, <1>2, <1>a, <1>6
<1>7. CASE p \in Freeing /\ Freeing' = Freeing \ {p} /\ Making' = Making /\ exclusions' = exclusions - 1
  BY <1>1, <1>2, <1>a, <1>7
<1> QED BY <1>3, <1>4, <1>5, <1>6, <1>7 DEF Counts

\* Without exclusions no thread is in a call of the driver.
LEMMA NoExclusions ==
  ASSUME Excluders, Threads, exclusions = 0
  PROVE  \A p \in Procs : pc[p] \notin {"malloc", "init", "fences", "free"}
<1>1. Making = {} /\ Freeing = {}
  BY FS_CardinalityType, FS_EmptySet DEF Excluders
<1> QED BY <1>1 DEF Making, Freeing, Threads, Attempting

\* A capture begins and goes on without threads in calls of the driver only.
Guards(p) ==
  capturing' # None => \A q \in Procs : pc'[q] \notin {"malloc", "init", "fences", "free"}

\* The exclusions stay the number of the threads that have taken one, and no
\* thread is in a call of the driver while a capture is active.
LEMMA ExcludersStep ==
  ASSUME ThreadTypes, QueueTypes, Threads, Excluders, exclusions \in Nat, [Next]_vars
  PROVE  Excluders' /\ exclusions' \in Nat
<1>d. \A p \in Procs : /\ Fails(p) => Lapsed(p)
                       /\ AfterReap(p) => /\ pc'[p] \in {"enqueue", "drain", "idle"}
                                          /\ \A q \in Procs : q # p => pc'[q] = pc[q]
  BY FailedRelease, ReapOutcome, Reaped
<1>i. capturing # None => \A p \in Procs : pc[p] \notin {"malloc", "init", "fences", "free"}
  BY DEF Excluders
<1>e. exclusions = 0 => \A p \in Procs : pc[p] \notin {"malloc", "init", "fences", "free"}
  BY NoExclusions
<1>f. CASE UNCHANGED vars
  BY <1>f DEF vars, Excluders, Making, Freeing, captureVars, threadVars
<1>g. ASSUME NEW p \in Procs, Counts(p), Guards(p) PROVE Excluders' /\ exclusions' \in Nat
  <2>1. /\ IsFiniteSet(Making') /\ IsFiniteSet(Freeing')
        /\ exclusions' = Cardinality(Making') + Cardinality(Freeing')
    BY <1>g, Counted
  <2>2. exclusions' \in Nat
    BY <2>1, FS_CardinalityType
  <2> QED BY <1>g, <2>1, <2>2 DEF Guards, Excluders
<1>h. \A p \in Procs : Counts(p) /\ Guards(p) => Excluders' /\ exclusions' \in Nat
  BY <1>g
<1> USE DEF Counts, Guards, Making, Freeing, ThreadTypes, Threads, Attempting,
          Releasing, exclusionVars, ownerVars, coldVars, captureVars,
          threadVars
<1>2. ASSUME NEW p \in Procs, Request(p) \/ Continue(p) PROVE Counts(p) /\ Guards(p)
  <2>1. ASSUME NEW a \in Allocs, Allocate(p, a) PROVE Counts(p) /\ Guards(p)
    BY <2>1, <1>e, <1>i DEF Allocate, Goto
  <2>2. ASSUME NEW a \in Allocs, DropStorage(p, a) PROVE Counts(p) /\ Guards(p)
    BY <2>2, <1>e, <1>i DEF DropStorage, Goto
  <2>3. ASSUME NEW a \in Allocs, DropBlock(p, a) PROVE Counts(p) /\ Guards(p)
    BY <2>3, <1>e, <1>i DEF DropBlock, Goto
  <2>4. ASSUME NEW a \in Allocs, Lease(p, a) PROVE Counts(p) /\ Guards(p)
    BY <2>4, <1>e, <1>i DEF Lease
  <2>5. ASSUME NEW a \in Allocs, DropLease(p, a) PROVE Counts(p) /\ Guards(p)
    <3>1. CASE phase[a] = "orphan"
      BY <2>5, <3>1, <1>e, <1>i DEF DropLease, Close
    <3>2. CASE ~(phase[a] = "orphan")
      BY <2>5, <3>2, <1>e, <1>i DEF DropLease, Close
    <3> QED BY <3>1, <3>2
  <2>6. CASE BeginCapture(p)
    <3>1. CASE Drainable /\ queue # <<>>
      BY <2>6, <3>1, <1>e, <1>i DEF BeginCapture, DrainThen, Drainable
    <3>2. CASE ~(Drainable /\ queue # <<>>)
      BY <2>6, <3>2, <1>e, <1>i DEF BeginCapture, DrainThen, Drainable
    <3> QED BY <3>1, <3>2
  <2>7. CASE EndCapture(p)
    <3>1. CASE retiring = None /\ queue # <<>>
      BY <2>7, <3>1, <1>e, <1>i DEF EndCapture
    <3>2. CASE ~(retiring = None /\ queue # <<>>)
      BY <2>7, <3>2, <1>e, <1>i DEF EndCapture
    <3> QED BY <3>1, <3>2
  <2>8. CASE Reap(p)
    <3>1. CASE Drainable /\ queue # <<>>
      BY <2>8, <3>1, <1>e, <1>i DEF Reap, DrainThen, Drainable
    <3>2. CASE ~(Drainable /\ queue # <<>>)
      BY <2>8, <3>2, <1>e, <1>i DEF Reap, DrainThen, Drainable
    <3> QED BY <3>1, <3>2
  <2>9. CASE Enter(p)
    BY <2>9, <1>e, <1>i DEF Enter, Goto, MayEnter
  <2>10. CASE EnterRefused(p)
    BY <2>10, <1>e, <1>i DEF EnterRefused, Goto
  <2>11. CASE Uncaptured(p)
    BY <2>11, <1>e, <1>i DEF Uncaptured, Goto
  <2>12. CASE CaptureRefused(p)
    BY <2>12, <1>e, <1>i DEF CaptureRefused, Goto, DropPermit
  <2>13. CASE Malloc(p)
    BY <2>13, <1>e, <1>i DEF Malloc, Goto
  <2>14. CASE MallocRefused(p)
    BY <2>14, <1>e, <1>i DEF MallocRefused, Goto, Close
  <2>15. CASE Publish(p)
    BY <2>15, <1>e, <1>i DEF Publish, Goto, DropPermit
  <2>16. CASE InitFails(p)
    BY <2>16, <1>e, <1>i DEF InitFails, Goto, Close, RetainFailure
  <2>17. CASE Enqueue(p)
    <3>1. CASE Drainable \/ retiring = p
      BY <2>17, <3>1, <1>e, <1>i DEF Enqueue
    <3>2. CASE ~(Drainable \/ retiring = p)
      <4>1. \E s \in {"reap", "begin", "idle"} : pc' = [pc EXCEPT ![p] = s]
        BY <2>17, <3>2, <1>e, <1>i DEF Enqueue, Return
      <4>2. /\ cur' = [cur EXCEPT ![p] = None] /\ pc[p] \in {"enqueue", "drain"}
            /\ exclusions' = IF cur[p] = None THEN exclusions ELSE exclusions - 1
            /\ capturing' = capturing
        BY <2>17, <3>2, <1>e, <1>i DEF Enqueue, Return, ExclusionsAfter
      <4>3. CASE cur[p] = None
        BY <4>1, <4>2, <4>3, <1>i
      <4>4. CASE cur[p] # None
        <5>1. p \in Making /\ Making' = Making \ {p} /\ Freeing' = Freeing
          BY <4>1, <4>2, <4>4
        <5> QED BY <4>1, <4>2, <4>4, <5>1, <1>i
      <4> QED BY <4>3, <4>4
    <3> QED BY <3>1, <3>2
  <2>18. CASE DrainNext(p)
    BY <2>18, <1>e, <1>i DEF DrainNext, Goto
  <2>19. CASE DrainDone(p)
    <3>1. \E s \in {"reap", "begin", "idle"} : pc' = [pc EXCEPT ![p] = s]
      BY <2>19, <1>e, <1>i DEF DrainDone, Return
    <3>2. /\ cur' = [cur EXCEPT ![p] = None] /\ pc[p] \in {"enqueue", "drain"}
          /\ exclusions' = IF cur[p] = None THEN exclusions ELSE exclusions - 1
          /\ capturing' = capturing
      BY <2>19, <1>e, <1>i DEF DrainDone, Return, ExclusionsAfter
    <3>3. CASE cur[p] = None
      BY <3>1, <3>2, <3>3, <1>i
    <3>4. CASE cur[p] # None
      <4>1. p \in Making /\ Making' = Making \ {p} /\ Freeing' = Freeing
        BY <3>1, <3>2, <3>4
      <4> QED BY <3>1, <3>2, <3>4, <4>1, <1>i
    <3> QED BY <3>3, <3>4
  <2>20. ASSUME NEW a \in Allocs, RetireNative(p, a) PROVE Counts(p) /\ Guards(p)
    <3>1. CASE lease[a] = "held"
      BY <2>20, <3>1, <1>e, <1>i DEF RetireNative, Close
    <3>2. CASE ~(lease[a] = "held")
      BY <2>20, <3>2, <1>e, <1>i DEF RetireNative, Close
    <3> QED BY <3>1, <3>2
  <2>21. ASSUME NEW a \in Allocs, RetireRuntime(p, a) PROVE Counts(p) /\ Guards(p)
    BY <2>21, <1>e, <1>i DEF RetireRuntime, Goto
  <2>22. ASSUME NEW a \in Allocs, RetireBlock(p, a) PROVE Counts(p) /\ Guards(p)
    <3>1. CASE phase[a] = "freed"
      BY <2>22, <3>1, <1>e, <1>i DEF RetireBlock
    <3>2. CASE ~(phase[a] = "freed")
      BY <2>22, <3>2, <1>e, <1>i DEF RetireBlock
    <3> QED BY <3>1, <3>2
  <2>23. ASSUME NEW a \in Allocs, RetireRaw(p, a) PROVE Counts(p) /\ Guards(p)
    BY <2>23, <1>e, <1>i DEF RetireRaw, Goto
  <2>24. CASE TakeBatch(p)
    BY <2>24, <1>e, <1>i DEF TakeBatch, Goto
  <2>25. CASE VisitLeased(p)
    BY <2>25, <1>e, <1>i DEF VisitLeased
  <2>26. CASE VisitUnique(p)
    BY <2>26, <1>e, <1>i DEF VisitUnique, Goto, Close
  <2>27. CASE ReapDone(p)
    <3>1. /\ pc'[p] \in {"enqueue", "drain", "idle"} /\ \A q \in Procs : q # p => pc'[q] = pc[q]
          /\ pc[p] = "visit" /\ UNCHANGED <<cur, exclusions, capturing>>
      BY <2>27, <1>d DEF ReapDone
    <3> QED BY <3>1, <1>i
  <2>28. CASE ReleaseUnacquired(p)
    <3>1. CASE item[p] = Raw(rel[p])
      BY <2>28, <3>1, <1>e, <1>i DEF ReleaseUnacquired, ReleaseDone, DropPermit
    <3>2. CASE ~(item[p] = Raw(rel[p]))
      BY <2>28, <3>2, <1>e, <1>i DEF ReleaseUnacquired, ReleaseDone, DropPermit
    <3> QED BY <3>1, <3>2
  <2>29. CASE ReleaseEnter(p)
    BY <2>29, <1>e, <1>i DEF ReleaseEnter, Goto, MayEnter
  <2>30. CASE ReleaseExclude(p)
    BY <2>30, <1>e, <1>i DEF ReleaseExclude, Goto, RequireKnown
  <2>31. CASE AwaitFences(p)
    BY <2>31, <1>e, <1>i DEF AwaitFences, Goto
  <2>32. CASE Free(p)
    <3>1. CASE item[p] = Raw(rel[p])
      BY <2>32, <3>1, <1>e, <1>i DEF Free, ReleaseDone, DropPermit
    <3>2. CASE ~(item[p] = Raw(rel[p]))
      BY <2>32, <3>2, <1>e, <1>i DEF Free, ReleaseDone, DropPermit
    <3> QED BY <3>1, <3>2
  <2>33. CASE AcquireCapture(p)
    BY <2>33, <1>e, <1>i DEF AcquireCapture, Goto, CaptureFree
  <2>34. CASE Fails(p)
    <3>1. Lapsed(p) /\ pc[p] # "idle"
      BY <2>34, <1>d DEF Fails, Lapsed
    <3>2. /\ pc'[p] \in {"enqueue", "drain", "idle"} /\ \A q \in Procs : q # p => pc'[q] = pc[q]
          /\ UNCHANGED <<cur, capturing>>
      BY <3>1 DEF Lapsed
    <3>3. \/ pc[p] \in {"release", "exclude"} /\ exclusions' = exclusions
          \/ pc[p] \in {"fences", "free"} /\ exclusions' = exclusions - 1
      BY <2>34, <1>e, <1>i DEF Fails, ReleaseRefused, ReleaseExcluded, FencesFail, FreeUnknown
    <3> QED BY <3>2, <3>3, <1>i
  <2> QED
    BY <1>2, <2>1, <2>2, <2>3, <2>4, <2>5, <2>6, <2>7, <2>8, <2>9, <2>10,
    <2>11, <2>12, <2>13, <2>14, <2>15, <2>16, <2>17, <2>18, <2>19, <2>20,
    <2>21, <2>22, <2>23, <2>24, <2>25, <2>26, <2>27, <2>28, <2>29, <2>30,
    <2>31, <2>32, <2>33, <2>34 DEF Request, Continue, Fails
<1>3. \A p \in Procs : Request(p) \/ Continue(p) => Counts(p) /\ Guards(p)
  BY <1>2
<1> HIDE DEF Counts, Guards, Excluders
<1> QED BY <1>f, <1>h, <1>3 DEF Next

-----------------------------------------------------------------------------
(* The invariant.                                                          *)

\* The invariant holds before the first call.
LEMMA InitIInv == Init => IInv
<1> SUFFICES ASSUME Init PROVE IInv
  OBVIOUS
<1> USE NoneAssumption DEF Init
<1>1. TypeOK
  <2>1. ThreadTypes /\ exclusions \in Nat
    BY DEF ThreadTypes, PCs
  <2>2. QueueTypes
    BY OwnerQueues, ItemQueues DEF QueueTypes
  <2>3. OwnerTypes
    <3>1. \A k \in DOMAIN Bounds : Bounds[k] \in Nat
      BY BoundAssumption DEF Bounds
    <3>2. used \in [DOMAIN Bounds -> Nat] /\ \A k \in DOMAIN Bounds : used[k] <= Bounds[k]
      BY <3>1
    <3> QED BY <3>2 DEF OwnerTypes, Phases
  <2> QED BY <2>1, <2>2, <2>3, TypeParts
<1>2. Threads
  BY DEF Threads, Attempting, Releasing
<1>3. Attempts /\ Releases /\ Exclusion
  BY DEF Attempts, Releases, Exclusion, Attempting
<1>4. \A a \in Allocs : /\ ~Has(queue, OwnerItems(a)) /\ ~Has(retry, OwnerItems(a)) /\ ~Has(pending, {a})
                        /\ ~Has(queue, {Raw(a)}) /\ ~Has(retry, {Raw(a)})
                        /\ Single(queue, OwnerItems(a)) /\ Single(retry, OwnerItems(a))
                        /\ Single(pending, {a})
  BY HasNone
<1>5. \A a \in Allocs, p \in Procs :
        /\ ~Has(batch[p], {a}) /\ ~Has(kept[p], {a}) /\ Single(batch[p], {a}) /\ Single(kept[p], {a})
        /\ ~InHand(p, a)
  BY HasNone, Items DEF InHand
<1>6. Closed
  BY <1>4, Items DEF Closed, Departing
<1>7. Excluders
  <2>1. Making = {} /\ Freeing = {}
    BY DEF Making, Freeing
  <2> QED BY <2>1, FS_EmptySet DEF Excluders
<1>8. Tracked
  <2>1. \A a \in Allocs, p \in Holder, k \in Kinds : ~Place(a, p, k)
    BY <1>4, <1>5 DEF Place
  <2> QED BY <1>4, <1>5, <2>1 DEF Tracked
<1> QED BY <1>1, <1>2, <1>3, <1>6, <1>7, <1>8 DEF IInv

\* Every step keeps it.
LEMMA StepIInv == IInv /\ [Next]_vars => IInv'
<1> SUFFICES ASSUME IInv, [Next]_vars PROVE IInv'
  OBVIOUS
<1>1. /\ TypeOK /\ Threads /\ Attempts /\ Releases /\ Exclusion /\ Closed /\ Excluders /\ Tracked
      /\ ThreadTypes /\ QueueTypes /\ OwnerTypes /\ exclusions \in Nat
  BY TypeParts DEF IInv
<1>2. Threads' /\ ThreadTypes' /\ QueueTypes' /\ OwnerTypes'
  BY <1>1, ThreadsStep, ThreadTypesStep, QueueTypesStep, OwnerTypesStep
<1>3. Attempts' /\ Releases' /\ Exclusion' /\ Closed'
  BY <1>1, AttemptsStep, ReleasesStep, ExclusionStep, ClosedStep
<1>4. Excluders' /\ exclusions' \in Nat
  BY <1>1, ExcludersStep
<1>5. Tracked'
  BY <1>1, <1>2, TrackedStep
<1>6. TypeOK'
  BY <1>2, <1>4, TypeParts
<1> QED BY <1>2, <1>3, <1>4, <1>5, <1>6 DEF IInv

\* The inductive invariant holds in every reachable state, for any threads,
\* allocations and bounds.
THEOREM Inductive == Spec => []IInv
  BY InitIInv, StepIInv, PTL DEF Spec

-----------------------------------------------------------------------------
(* What the lifecycle promises.                                            *)

\* Every variable has its type: no call leaves a thread with an owner, a queue
\* entry or a count of exclusions that the code does not know (the exclusions are
\* a count that is only ever decremented by a thread that incremented it).
THEOREM TypeCorrect == Spec => []TypeOK
<1>1. IInv => TypeOK
  BY DEF IInv
<1> QED BY <1>1, Inductive, PTL

\* The exclusion has one owner, is taken exactly while it has one, and a failure
\* is retained by that owner only (AllocationLifecycleExclusion).
THEOREM ExclusiveDriver == Spec => []PermitExclusive
<1>1. IInv => PermitExclusive
  BY DEF IInv, Exclusion, Releases, PermitExclusive, Holders, TypeOK
<1> QED BY <1>1, Inductive, PTL

\* No driver call of an allocation or a release runs during a stream capture
\* (StreamCaptureRegistry.capture_exclusions).
THEOREM NoCallInCapture == Spec => []CaptureExcludesDriver
<1>1. IInv => CaptureExcludesDriver
  BY DEF IInv, Excluders, CaptureExcludesDriver
<1> QED BY <1>1, Inductive, PTL

\* No owner that is leased is freed or on its way to the driver
\* (reclaim_shared_allocation, Arc::try_unwrap).
THEOREM LeaseKeepsMemory == Spec => []NoFreeUnderLease
<1>1. IInv => NoFreeUnderLease
  BY DEF IInv, Closed, Departing, NoFreeUnderLease
<1> QED BY <1>1, Inductive, PTL

\* The places of an owner, container by container.
InQueue(a)   == {<<"queue", i>> : i \in {i \in DOMAIN queue : queue[i] \in {Storage(a), Raw(a)}}}
InRetry(a)   == {<<"retry", i>> : i \in {i \in DOMAIN retry : retry[i] \in {Storage(a), Raw(a)}}}
InPending(a) == {<<"pending", i>> : i \in {i \in DOMAIN pending : pending[i] = a}}
InUnknown(a) == {<<"unknown", x>> : x \in unknown \cap {a}}
InLeased(a)  == {<<"leased", x>> : x \in {x \in {a} : phase[x] = "orphan"}}
InBatch(a, p) == {<<p, "batch", i>> : i \in {i \in DOMAIN batch[p] : batch[p][i] = a}}
InKept(a, p)  == {<<p, "kept", i>> : i \in {i \in DOMAIN kept[p] : kept[p][i] = a}}
InBatches(a) == UNION {InBatch(a, p) \cup InKept(a, p) : p \in Procs}
InHands(a)   == {<<p, "item">> : p \in {p \in Procs : InHand(p, a)}}

\* A container that does not keep an owner adds no place of it, and one that does
\* adds one.
ByContainer(a) ==
  /\ PlacesOf(a) = InQueue(a) \cup InRetry(a) \cup InPending(a) \cup InUnknown(a) \cup InLeased(a)
                   \cup InBatches(a) \cup InHands(a)
  /\ IF Place(a, None, "queue") THEN \E t : InQueue(a) = {t} ELSE InQueue(a) = {}
  /\ IF Place(a, None, "retry") THEN \E t : InRetry(a) = {t} ELSE InRetry(a) = {}
  /\ IF Place(a, None, "pending") THEN \E t : InPending(a) = {t} ELSE InPending(a) = {}
  /\ IF Place(a, None, "unknown") THEN \E t : InUnknown(a) = {t} ELSE InUnknown(a) = {}
  /\ IF Place(a, None, "leased") THEN \E t : InLeased(a) = {t} ELSE InLeased(a) = {}
  /\ \A p \in Procs :
       /\ IF Place(a, p, "batch") THEN \E t : InBatch(a, p) = {t} ELSE InBatch(a, p) = {}
       /\ IF Place(a, p, "kept") THEN \E t : InKept(a, p) = {t} ELSE InKept(a, p) = {}
  /\ IF \E p \in Procs : Place(a, p, "hand") THEN \E t : InHands(a) = {t} ELSE InHands(a) = {}

\* The containers of the model are those of the invariant.
LEMMA PlacesByContainer ==
  ASSUME IInv, NEW a \in Allocs
  PROVE  ByContainer(a)
<1>0. Tracked
  BY DEF IInv
<1>1. PlacesOf(a) = InQueue(a) \cup InRetry(a) \cup InPending(a) \cup InUnknown(a) \cup InLeased(a)
                    \cup InBatches(a) \cup InHands(a)
  <2>1. PlacesOf(a) = InQueue(a) \cup InRetry(a) \cup InPending(a) \cup InUnknown(a) \cup InLeased(a)
                      \cup (UNION {InBatch(a, p) \cup InKept(a, p) : p \in Procs}) \cup InHands(a)
    BY DEF PlacesOf, InQueue, InRetry, InPending, InUnknown, InLeased, InBatch, InKept, InHands, InHand
  <2> QED BY <2>1 DEF InBatches
<1>2. IF Place(a, None, "queue") THEN \E t : InQueue(a) = {t} ELSE InQueue(a) = {}
  <2>1. CASE Has(queue, OwnerItems(a))
    <3>1. PICK i \in DOMAIN queue : queue[i] \in OwnerItems(a)
      BY <2>1 DEF Has
    <3>2. InQueue(a) = {<<"queue", i>>}
      BY <1>0, <3>1 DEF Tracked, Single, InQueue, OwnerItems
    <3> QED BY <2>1, <3>2, NoneAssumption DEF Place
  <2>2. CASE ~Has(queue, OwnerItems(a))
    <3>1. ~Place(a, None, "queue") /\ InQueue(a) = {}
      BY <2>2, NoneAssumption DEF Place, InQueue, Has, OwnerItems
    <3> QED BY <3>1
  <2> QED BY <2>1, <2>2
<1>3. IF Place(a, None, "retry") THEN \E t : InRetry(a) = {t} ELSE InRetry(a) = {}
  <2>1. CASE Has(retry, OwnerItems(a))
    <3>1. PICK i \in DOMAIN retry : retry[i] \in OwnerItems(a)
      BY <2>1 DEF Has
    <3>2. InRetry(a) = {<<"retry", i>>}
      BY <1>0, <3>1 DEF Tracked, Single, InRetry, OwnerItems
    <3> QED BY <2>1, <3>2, NoneAssumption DEF Place
  <2>2. CASE ~Has(retry, OwnerItems(a))
    <3>1. ~Place(a, None, "retry") /\ InRetry(a) = {}
      BY <2>2, NoneAssumption DEF Place, InRetry, Has, OwnerItems
    <3> QED BY <3>1
  <2> QED BY <2>1, <2>2
<1>4. IF Place(a, None, "pending") THEN \E t : InPending(a) = {t} ELSE InPending(a) = {}
  <2>1. CASE Has(pending, {a})
    <3>1. PICK i \in DOMAIN pending : pending[i] = a
      BY <2>1 DEF Has
    <3>2. InPending(a) = {<<"pending", i>>}
      BY <1>0, <3>1 DEF Tracked, Single, InPending
    <3> QED BY <2>1, <3>2, NoneAssumption DEF Place
  <2>2. CASE ~Has(pending, {a})
    <3>1. ~Place(a, None, "pending") /\ InPending(a) = {}
      BY <2>2, NoneAssumption DEF Place, InPending, Has
    <3> QED BY <3>1
  <2> QED BY <2>1, <2>2
<1>5. IF Place(a, None, "unknown") THEN \E t : InUnknown(a) = {t} ELSE InUnknown(a) = {}
  <2>1. CASE a \in unknown
    <3>1. Place(a, None, "unknown") /\ InUnknown(a) = {<<"unknown", a>>}
      BY <2>1 DEF Place, InUnknown
    <3> QED BY <3>1
  <2>2. CASE a \notin unknown
    <3>1. ~Place(a, None, "unknown") /\ InUnknown(a) = {}
      BY <2>2, NoneAssumption DEF Place, InUnknown
    <3> QED BY <3>1
  <2> QED BY <2>1, <2>2
<1>6. IF Place(a, None, "leased") THEN \E t : InLeased(a) = {t} ELSE InLeased(a) = {}
  <2>1. CASE phase[a] = "orphan"
    <3>1. Place(a, None, "leased") /\ InLeased(a) = {<<"leased", a>>}
      BY <2>1 DEF Place, InLeased
    <3> QED BY <3>1
  <2>2. CASE phase[a] # "orphan"
    <3>1. ~Place(a, None, "leased") /\ InLeased(a) = {}
      BY <2>2, NoneAssumption DEF Place, InLeased
    <3> QED BY <3>1
  <2> QED BY <2>1, <2>2
<1>7. ASSUME NEW p \in Procs
      PROVE  IF Place(a, p, "batch") THEN \E t : InBatch(a, p) = {t} ELSE InBatch(a, p) = {}
  <2>1. CASE Has(batch[p], {a})
    <3>1. PICK i \in DOMAIN batch[p] : batch[p][i] = a
      BY <2>1 DEF Has
    <3>2. InBatch(a, p) = {<<p, "batch", i>>}
      BY <1>0, <3>1 DEF Tracked, Single, InBatch
    <3> QED BY <2>1, <3>2, NoneAssumption DEF Place
  <2>2. CASE ~Has(batch[p], {a})
    <3>1. ~Place(a, p, "batch") /\ InBatch(a, p) = {}
      BY <2>2, NoneAssumption DEF Place, InBatch, Has
    <3> QED BY <3>1
  <2> QED BY <2>1, <2>2
<1>8. ASSUME NEW p \in Procs
      PROVE  IF Place(a, p, "kept") THEN \E t : InKept(a, p) = {t} ELSE InKept(a, p) = {}
  <2>1. CASE Has(kept[p], {a})
    <3>1. PICK i \in DOMAIN kept[p] : kept[p][i] = a
      BY <2>1 DEF Has
    <3>2. InKept(a, p) = {<<p, "kept", i>>}
      BY <1>0, <3>1 DEF Tracked, Single, InKept
    <3> QED BY <2>1, <3>2, NoneAssumption DEF Place
  <2>2. CASE ~Has(kept[p], {a})
    <3>1. ~Place(a, p, "kept") /\ InKept(a, p) = {}
      BY <2>2, NoneAssumption DEF Place, InKept, Has
    <3> QED BY <3>1
  <2> QED BY <2>1, <2>2
<1>9. IF \E p \in Procs : Place(a, p, "hand") THEN \E t : InHands(a) = {t} ELSE InHands(a) = {}
  <2>0. \A p \in Procs : Place(a, p, "hand") <=> InHand(p, a)
    BY NoneAssumption DEF Place
  <2>1. CASE \E p \in Procs : Place(a, p, "hand")
    <3>1. PICK p \in Procs : InHand(p, a)
      BY <2>0, <2>1
    <3>2. \A q \in Procs : InHand(q, a) => q = p
      BY <1>0, <2>0, <3>1, HolderKinds DEF Tracked
    <3>3. {q \in Procs : InHand(q, a)} = {p}
      BY <3>1, <3>2
    <3>4. InHands(a) = {<<p, "item">>}
      BY <3>3 DEF InHands
    <3> QED BY <2>1, <3>4
  <2>2. CASE ~\E p \in Procs : Place(a, p, "hand")
    <3>1. InHands(a) = {}
      BY <2>0, <2>2 DEF InHands
    <3> QED BY <2>2, <3>1
  <2> QED BY <2>1, <2>2
<1> QED BY <1>1, <1>2, <1>3, <1>4, <1>5, <1>6, <1>7, <1>8, <1>9 DEF ByContainer

\* An owner its user dropped is in exactly one place, and one that is done with
\* is in none.
LEMMA KeptOnce ==
  ASSUME IInv, NEW a \in Allocs
  PROVE  /\ phase[a] \in {"dropped", "orphan"} => Cardinality(PlacesOf(a)) = 1
         /\ phase[a] \notin {"dropped", "orphan"} => PlacesOf(a) = {}
<1>0. Tracked
  BY DEF IInv
<1>a. ByContainer(a)
  BY PlacesByContainer
<1>1. /\ PlacesOf(a) = InQueue(a) \cup InRetry(a) \cup InPending(a) \cup InUnknown(a) \cup InLeased(a)
                       \cup InBatches(a) \cup InHands(a)
      /\ IF Place(a, None, "queue") THEN \E t : InQueue(a) = {t} ELSE InQueue(a) = {}
      /\ IF Place(a, None, "retry") THEN \E t : InRetry(a) = {t} ELSE InRetry(a) = {}
      /\ IF Place(a, None, "pending") THEN \E t : InPending(a) = {t} ELSE InPending(a) = {}
      /\ IF Place(a, None, "unknown") THEN \E t : InUnknown(a) = {t} ELSE InUnknown(a) = {}
      /\ IF Place(a, None, "leased") THEN \E t : InLeased(a) = {t} ELSE InLeased(a) = {}
      /\ IF \E p \in Procs : Place(a, p, "hand") THEN \E t : InHands(a) = {t} ELSE InHands(a) = {}
  BY <1>a DEF ByContainer
<1>2. \A p \in Procs :
        /\ IF Place(a, p, "batch") THEN \E t : InBatch(a, p) = {t} ELSE InBatch(a, p) = {}
        /\ IF Place(a, p, "kept") THEN \E t : InKept(a, p) = {t} ELSE InKept(a, p) = {}
  BY <1>a DEF ByContainer
<1>3. (\A p \in Procs : ~Place(a, p, "batch") /\ ~Place(a, p, "kept")) => InBatches(a) = {}
  BY <1>2 DEF InBatches
<1>4. ASSUME NEW p \in Procs, Place(a, p, "batch") \/ Place(a, p, "kept")
      PROVE  \E t : InBatches(a) = {t}
  <2>1. \A q \in Procs : q # p => InBatch(a, q) = {} /\ InKept(a, q) = {}
    BY <1>0, <1>2, <1>4, HolderKinds DEF Tracked
  <2>2. InBatches(a) = InBatch(a, p) \cup InKept(a, p)
    BY <2>1 DEF InBatches
  <2>3. ~(Place(a, p, "batch") /\ Place(a, p, "kept"))
    BY <1>0, HolderKinds DEF Tracked
  <2>4. \/ InBatch(a, p) = {} /\ \E t : InKept(a, p) = {t}
        \/ InKept(a, p) = {} /\ \E t : InBatch(a, p) = {t}
    BY <1>2, <1>4, <2>3
  <2> QED BY <2>2, <2>4
<1>5. CASE \A q \in Holder, l \in Kinds : ~Place(a, q, l)
  <2>1. phase[a] \notin {"dropped", "orphan"}
    BY <1>0, <1>5 DEF Tracked
  <2> QED BY <1>1, <1>3, <1>5, <2>1, HolderKinds
<1>6. ASSUME NEW q \in Holder, NEW l \in Kinds, Place(a, q, l)
      PROVE  phase[a] \in {"dropped", "orphan"} /\ \E t : PlacesOf(a) = {t}
  <2>1. /\ phase[a] \in {"dropped", "orphan"}
        /\ \A r \in Holder, m \in Kinds : Place(a, r, m) => r = q /\ m = l
    BY <1>0, <1>6 DEF Tracked
  <2>2. CASE q = None
    <3>1. InBatches(a) = {} /\ InHands(a) = {}
      BY <1>1, <1>3, <2>1, <2>2, HolderKinds
    <3>2. l \in {"queue", "retry", "pending", "unknown", "leased"}
      BY <1>6, <2>2, NoneAssumption DEF Place
    <3>3. \A m \in Kinds : Place(a, None, m) <=> m = l
      BY <1>6, <2>1, <2>2, HolderKinds
    <3>4. CASE l = "queue"
      BY <1>1, <2>1, <3>1, <3>3, <3>4, HolderKinds
    <3>5. CASE l = "retry"
      BY <1>1, <2>1, <3>1, <3>3, <3>5, HolderKinds
    <3>6. CASE l = "pending"
      BY <1>1, <2>1, <3>1, <3>3, <3>6, HolderKinds
    <3>7. CASE l = "unknown"
      BY <1>1, <2>1, <3>1, <3>3, <3>7, HolderKinds
    <3>8. CASE l = "leased"
      BY <1>1, <2>1, <3>1, <3>3, <3>8, HolderKinds
    <3> QED BY <3>2, <3>4, <3>5, <3>6, <3>7, <3>8
  <2>3. CASE q \in Procs
    <3>1. /\ InQueue(a) = {} /\ InRetry(a) = {} /\ InPending(a) = {} /\ InUnknown(a) = {}
          /\ InLeased(a) = {}
      BY <1>1, <2>1, <2>3, HolderKinds
    <3>2. l \in {"batch", "kept", "hand"}
      BY <1>6, <2>3, NoneAssumption DEF Place
    <3>3. CASE l = "hand"
      <4>1. InBatches(a) = {}
        BY <1>3, <2>1, <3>3, HolderKinds
      <4>2. \E t : InHands(a) = {t}
        BY <1>1, <1>6, <2>3, <3>3
      <4> QED BY <1>1, <2>1, <3>1, <4>1, <4>2
    <3>4. CASE l \in {"batch", "kept"}
      <4>1. InHands(a) = {}
        BY <1>1, <2>1, <3>4, HolderKinds
      <4>2. \E t : InBatches(a) = {t}
        BY <1>4, <1>6, <2>3, <3>4
      <4> QED BY <1>1, <2>1, <3>1, <4>1, <4>2
    <3> QED BY <3>2, <3>3, <3>4
  <2> QED BY <2>2, <2>3 DEF Holder
<1>7. CASE \E q \in Holder, l \in Kinds : Place(a, q, l)
  BY <1>6, <1>7, FS_Singleton
<1> QED BY <1>5, <1>7

\* No retry, failing reap, unwound batch or drain that is cut short loses an owner
\* that was dropped or lists it twice (PendingReclamationBatch::drop,
\* reap_capture_retirements).
THEOREM OwnersNeverLost == Spec => []OwnerKept
<1>1. IInv => OwnerKept
  BY KeptOnce DEF OwnerKept
<1> QED BY <1>1, Inductive, PTL

\* A driver free that was submitted, or whose outcome is unknown, is never
\* submitted again (DriverReleaseState::submit).
THEOREM SubmittedOnce == Spec => FreeSubmittedOnce
<1> DEFINE Once == \A a \in Allocs : freeState[a] # "owned" => freeState'[a] = freeState[a]
<1>1. ASSUME IInv, [Next]_vars PROVE Once
  <2>0. /\ freeState \in [Allocs -> {"owned", "unknown", "submitted"}]
        /\ \A p \in Procs : pc[p] = "free" => rel[p] \in Allocs /\ freeState[rel[p]] = "owned"
    BY <1>1 DEF IInv, TypeOK, Threads, Releases, Releasing
  <2>1. CASE UNCHANGED vars
    BY <2>1 DEF vars, ownerVars
  <2>2. ASSUME NEW p \in Procs, Request(p) PROVE Once
    BY <2>2 DEF Request, Allocate, DropStorage, DropBlock, Lease, DropLease, BeginCapture,
                EndCapture, Reap, ownerVars
  <2>3. ASSUME NEW p \in Procs, Free(p) \/ FreeUnknown(p) PROVE Once
    BY <2>0, <2>3 DEF Free, FreeUnknown
  <2>4. ASSUME NEW p \in Procs, Continue(p), ~(Free(p) \/ FreeUnknown(p)) PROVE Once
    BY <2>4 DEF Continue, Enter, EnterRefused, Uncaptured, CaptureRefused, Malloc, MallocRefused,
                Publish, InitFails, Enqueue, DrainNext, DrainDone, RetireNative, RetireRuntime,
                RetireBlock, RetireRaw, TakeBatch, VisitLeased, VisitUnique, ReapDone,
                ReleaseUnacquired, ReleaseEnter, ReleaseRefused, ReleaseExcluded, ReleaseExclude,
                AwaitFences, FencesFail, AcquireCapture, ownerVars
  <2> QED BY <1>1, <2>1, <2>2, <2>3, <2>4 DEF Next
<1>2. IInv /\ [Next]_vars => [Once]_vars
  BY <1>1
<1> HIDE DEF Once
<1>3. Spec => [][Once]_vars
  BY <1>2, Inductive, PTL DEF Spec
<1> QED BY <1>3 DEF Once, FreeSubmittedOnce
=============================================================================
