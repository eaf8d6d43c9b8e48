----------------------------- MODULE DeviceMemory -----------------------------
(***************************************************************************)
(* Admission and settlement of device memory in one device runtime         *)
(* (crates/xlog-cuda): the local budget of GpuMemoryManager, the promises  *)
(* of XlogDeviceRuntime, the byte limit of GlobalDeviceBudget, the ledger  *)
(* of the backend and the ticket (AllocationReclamation) every allocation  *)
(* carries through all of them.                                            *)
(*                                                                         *)
(* One action is one critical section: the promise mutex is held from Lock *)
(* to Unlock, every other mutex only inside an action.  A ticket is one    *)
(* allocation attempt and, if the driver hands out memory, its owner.      *)
(* What makes the driver refuse an allocation or a free (no memory, a      *)
(* failed fence, another owner's retained failure) is left open.           *)
(***************************************************************************)
EXTENDS Integers, FiniteSets

CONSTANTS
  Procs,            \* host threads
  Tickets,          \* allocation attempts; bounds a behaviour
  Sizes,            \* request sizes in bytes
  Limit,            \* limit of GlobalDeviceBudget
  LocalLimit,       \* budget of GpuMemoryManager
  Old,              \* the block the backend held before the budget was built
  InitialUsed,      \* its bytes, 0 if there was none
  InitialReclaimed, \* releases the backend counted before the budget was built
  None

ASSUME SizesAssumption == Sizes \subseteq Nat \ {0}
ASSUME LimitAssumption == Limit \in Nat /\ LocalLimit \in Nat
ASSUME InitialAssumption ==
  /\ InitialUsed \in Nat /\ InitialReclaimed \in Nat
  /\ InitialUsed <= Limit
ASSUME OldAssumption == Old \in Tickets
ASSUME NoneAssumption == None \notin Procs /\ None \notin Tickets

VARIABLES
  outstanding,     \* AllocationAccountingState.outstanding
  totalReclaimed,  \* AllocationAccountingState.total_reclaimed
  admittedTotal,   \* BudgetState.admitted_total
  promised,        \* XlogDeviceRuntime.reservation_bytes
  promiseLock,     \* the thread that holds that mutex, or None
  budgetReserved,  \* GpuMemoryAccounting.budget_reserved
  allocated,       \* GpuMemoryAccounting.allocated
  pendingBytes,    \* AsyncCudaResource.pending_bytes
  ticket,          \* the state of every attempt
  token,           \* GpuMemoryReservation of every thread
  pc,              \* where every thread is
  cur,             \* the attempt a thread is making, or None
  fromToken,       \* whether that attempt spends the thread's reservation
  pressure,        \* AllocationRequest.reservation_pressure_bytes
  batch,           \* pending owners a reaping thread has taken
  rel              \* the owner a thread is releasing, or None

budgetVars  == <<admittedTotal, promised, promiseLock>>
localVars   == <<budgetReserved, allocated>>
ledgerVars  == <<outstanding, totalReclaimed, pendingBytes>>
attemptVars == <<cur, fromToken, pressure>>
reapVars    == <<batch, rel>>
vars == <<budgetVars, localVars, ledgerVars, attemptVars, reapVars, ticket, token, pc>>

Stages == {"unused", "attempt", "refused", "live", "pending", "cold", "taken", "freed"}

Ticket == [bytes    : Nat,
           stage    : Stages,
           phys     : BOOLEAN,   \* the driver's memory is held
           acquired : BOOLEAN,   \* AllocationReclamation.acquired
           charge   : BOOLEAN,   \* the local charge is not settled yet
           pend     : BOOLEAN]   \* the pending tally carries its bytes

Token == [live : BOOLEAN, local : Nat, runtime : Nat]

NoToken == [live |-> FALSE, local |-> 0, runtime |-> 0]

\* Attempt is entered through Lock only; a thread may hold the promise mutex
\* in the states Locked.
Locked == {"admit", "wantReap", "readmit", "malloc", "publish", "init", "refund", "unlock"}
Releasing == {"reap", "free", "settleLocal", "settleLedger"}
PCs == {"idle", "claimLocal", "dropToken", "enqueue", "lock", "unwindLocal"} \cup Locked \cup Releasing

TypeOK ==
  /\ outstanding \in Nat /\ totalReclaimed \in Nat /\ admittedTotal \in Nat
  /\ promised \in Nat /\ budgetReserved \in Nat /\ allocated \in Nat
  /\ pendingBytes \in Nat
  /\ promiseLock \in Procs \cup {None}
  /\ ticket \in [Tickets -> Ticket]
  /\ token \in [Procs -> Token]
  /\ pc \in [Procs -> PCs]
  /\ cur \in [Procs -> Tickets \cup {None}]
  /\ fromToken \in [Procs -> BOOLEAN]
  /\ pressure \in [Procs -> Nat]
  /\ batch \in [Procs -> SUBSET Tickets]
  /\ rel \in [Procs -> Tickets \cup {None}]

Init ==
  /\ outstanding = InitialUsed /\ totalReclaimed = InitialReclaimed
  /\ admittedTotal = InitialUsed
  /\ promised = 0 /\ promiseLock = None
  /\ budgetReserved = 0 /\ allocated = 0 /\ pendingBytes = 0
  /\ ticket = [t \in Tickets |->
       IF t = Old /\ InitialUsed > 0
       THEN [bytes |-> InitialUsed, stage |-> "live", phys |-> TRUE,
             acquired |-> TRUE, charge |-> FALSE, pend |-> FALSE]
       ELSE [bytes |-> 0, stage |-> "unused", phys |-> FALSE,
             acquired |-> FALSE, charge |-> FALSE, pend |-> FALSE]]
  /\ token = [p \in Procs |-> NoToken]
  /\ pc = [p \in Procs |-> "idle"]
  /\ cur = [p \in Procs |-> None]
  /\ fromToken = [p \in Procs |-> FALSE]
  /\ pressure = [p \in Procs |-> 0]
  /\ batch = [p \in Procs |-> {}]
  /\ rel = [p \in Procs |-> None]

Bytes(p) == ticket[cur[p]].bytes

\* BudgetState::reserved: claims admitted and not yet proved released.
Reserved == admittedTotal - (totalReclaimed - InitialReclaimed)

Goto(p, from, to) == pc[p] = from /\ pc' = [pc EXCEPT ![p] = to]

-----------------------------------------------------------------------------
(* Requests of an idle thread.                                             *)

\* LocalAllocationAttempt::new binds the local charge to a fresh ticket.
BeginAttempt(p, t, n, byToken) ==
  /\ ticket[t].stage = "unused"
  /\ ticket' = [ticket EXCEPT ![t].bytes = n, ![t].stage = "attempt", ![t].charge = TRUE]
  /\ cur' = [cur EXCEPT ![p] = t]
  /\ fromToken' = [fromToken EXCEPT ![p] = byToken]
  /\ UNCHANGED pressure

\* GpuMemoryManager::alloc_raw: claim the bytes of the local budget first.
Alloc(p, t, n) ==
  /\ Goto(p, "idle", "lock")
  /\ budgetReserved + n <= LocalLimit
  /\ budgetReserved' = budgetReserved + n
  /\ BeginAttempt(p, t, n, FALSE)
  /\ UNCHANGED <<budgetVars, allocated, ledgerVars, reapVars, token>>

TokenCovers(p, n) == token[p].live /\ n <= token[p].local

\* GpuMemoryReservation::alloc_raw: the token already owns the local claim.
TokenAlloc(p, t, n) ==
  /\ Goto(p, "idle", "lock")
  /\ TokenCovers(p, n)
  /\ token' = [token EXCEPT ![p].local = @ - n]
  /\ BeginAttempt(p, t, n, TRUE)
  /\ UNCHANGED <<budgetVars, localVars, ledgerVars, reapVars>>

\* XlogDeviceRuntime::reserve_memory, the first half of reserve_bytes.
ReserveBytes(p, n) ==
  /\ Goto(p, "idle", "claimLocal")
  /\ ~token[p].live
  /\ promiseLock = None
  /\ Reserved + promised + n <= Limit
  /\ promised' = promised + n
  /\ token' = [token EXCEPT ![p].runtime = n]
  /\ UNCHANGED <<admittedTotal, promiseLock, localVars, ledgerVars, attemptVars, reapVars, ticket>>

\* The second half: the local claim, or the promise is dropped again.
ReserveLocal(p) ==
  LET n == token[p].runtime IN
  /\ pc[p] = "claimLocal"
  /\ IF budgetReserved + n <= LocalLimit
     THEN /\ budgetReserved' = budgetReserved + n
          /\ token' = [token EXCEPT ![p].live = TRUE, ![p].local = n]
          /\ pc' = [pc EXCEPT ![p] = "idle"]
     ELSE /\ pc' = [pc EXCEPT ![p] = "dropToken"]
          /\ UNCHANGED <<budgetReserved, token>>
  /\ UNCHANGED <<budgetVars, allocated, ledgerVars, attemptVars, reapVars, ticket>>

\* GpuMemoryReservation::drop returns the local bytes and then drops the promise.
DropToken(p) ==
  /\ Goto(p, "idle", "dropToken")
  /\ token[p].live /\ token[p].local <= budgetReserved
  /\ budgetReserved' = budgetReserved - token[p].local
  /\ token' = [token EXCEPT ![p].live = FALSE, ![p].local = 0]
  /\ UNCHANGED <<budgetVars, allocated, ledgerVars, attemptVars, reapVars, ticket>>

\* RuntimeMemoryReservation::drop.
DropPromise(p) ==
  /\ Goto(p, "dropToken", "idle")
  /\ promiseLock = None
  /\ token[p].runtime <= promised
  /\ promised' = promised - token[p].runtime
  /\ token' = [token EXCEPT ![p].runtime = 0]
  /\ UNCHANGED <<admittedTotal, promiseLock, localVars, ledgerVars, attemptVars, reapVars, ticket>>

\* AsyncCudaResource::deallocate: the owner leaves the live map, charged to the
\* pending tally, and reaches the pending queue under another mutex.
Deallocate(p, t) ==
  /\ Goto(p, "idle", "enqueue")
  /\ ticket[t].stage = "live"
  /\ ticket' = [ticket EXCEPT ![t].stage = "taken", ![t].pend = TRUE]
  /\ pendingBytes' = pendingBytes + ticket[t].bytes
  /\ rel' = [rel EXCEPT ![p] = t]
  /\ UNCHANGED <<budgetVars, localVars, outstanding, totalReclaimed, attemptVars, batch, token>>

\* RuntimeAllocBlock::release reaps after its detach; a bare deallocate does not.
Enqueue(p) ==
  /\ pc[p] = "enqueue"
  /\ ticket' = [ticket EXCEPT ![rel[p]].stage = "pending"]
  /\ rel' = [rel EXCEPT ![p] = None]
  /\ \E next \in {"idle", "wantReap"} : pc' = [pc EXCEPT ![p] = next]
  /\ UNCHANGED <<budgetVars, localVars, ledgerVars, attemptVars, batch, token>>

\* XlogDeviceRuntime::reap_pending takes no promise lock.
Reap(p) ==
  /\ Goto(p, "idle", "wantReap")
  /\ UNCHANGED <<budgetVars, localVars, ledgerVars, attemptVars, reapVars, ticket, token>>

-----------------------------------------------------------------------------
(* The attempt under the promise mutex.                                    *)

\* Mutant: the pressure is sampled before the promise is spent.
PressureBefore(spent) == promised
PressureAfter(spent)  == promised - spent

\* XlogDeviceRuntime::materialize, and RuntimeMemoryReservation::materialize,
\* which spends the promise before it samples the pressure of the others.
Lock(p) ==
  LET spent == IF fromToken[p] THEN Bytes(p) ELSE 0 IN
  /\ Goto(p, "lock", "admit")
  /\ promiseLock = None
  /\ spent <= promised
  /\ promiseLock' = p
  /\ promised' = promised - spent
  /\ token' = [token EXCEPT ![p].runtime = @ - spent]
  /\ pressure' = [pressure EXCEPT ![p] = PressureAfter(spent)]
  /\ UNCHANGED <<admittedTotal, localVars, ledgerVars, cur, fromToken, reapVars, ticket>>

Fits(p) == Reserved + pressure[p] + Bytes(p) <= Limit

\* GlobalDeviceBudget::allocate_with_pressure, first pass: admit, refuse what no
\* reap can make fit, or reap once.
Admit(p) ==
  /\ pc[p] = "admit"
  /\ IF Fits(p)
     THEN /\ admittedTotal' = admittedTotal + Bytes(p)
          /\ pc' = [pc EXCEPT ![p] = "malloc"]
     ELSE /\ pc' = [pc EXCEPT ![p] =
                IF Bytes(p) > Limit - pressure[p] THEN "unlock" ELSE "wantReap"]
          /\ UNCHANGED admittedTotal
  /\ UNCHANGED <<promised, promiseLock, localVars, ledgerVars, attemptVars, reapVars, ticket, token>>

\* The second and last pass, after the reap.
Readmit(p) ==
  /\ pc[p] = "readmit"
  /\ IF Fits(p)
     THEN /\ admittedTotal' = admittedTotal + Bytes(p)
          /\ pc' = [pc EXCEPT ![p] = "malloc"]
     ELSE /\ pc' = [pc EXCEPT ![p] = "unlock"]
          /\ UNCHANGED admittedTotal
  /\ UNCHANGED <<promised, promiseLock, localVars, ledgerVars, attemptVars, reapVars, ticket, token>>

\* RawDeviceAllocation::allocate hands out memory; the ticket says so first.
Malloc(p) ==
  /\ Goto(p, "malloc", "publish")
  /\ ticket' = [ticket EXCEPT ![cur[p]].phys = TRUE, ![cur[p]].acquired = TRUE]
  /\ UNCHANGED <<budgetVars, localVars, ledgerVars, attemptVars, reapVars, token>>

\* No memory was acquired: refused by the driver, or before it was asked.
MallocRefused(p) ==
  /\ Goto(p, "malloc", "refund")
  /\ UNCHANGED <<budgetVars, localVars, ledgerVars, attemptVars, reapVars, ticket, token>>

\* AllocationReclamation::acquired publishes to the ledger and the local tally.
Publish(p) ==
  /\ Goto(p, "publish", "init")
  /\ outstanding' = outstanding + Bytes(p)
  /\ allocated' = allocated + Bytes(p)
  /\ UNCHANGED <<budgetVars, budgetReserved, totalReclaimed, pendingBytes, attemptVars, reapVars, ticket, token>>

\* The rest of the initialisation.  If it fails, the armed owner reaches the
\* cold queue and may be released before the guards of this attempt run.
Initialize(p) ==
  /\ Goto(p, "init", "refund")
  /\ \E outcome \in {"live", "cold"} : ticket' = [ticket EXCEPT ![cur[p]].stage = outcome]
  /\ UNCHANGED <<budgetVars, localVars, ledgerVars, attemptVars, reapVars, token>>

\* Mutant: an attempt that returns an error gives its claims back.
Failed(p)     == ticket[cur[p]].stage # "live"
\* AllocationReclamation::was_acquired, not the result, decides about a refund.
Unacquired(p) == ~ticket[cur[p]].acquired

\* BudgetReservation::drop.
RefundBudget(p) ==
  /\ Goto(p, "refund", "unlock")
  /\ IF Unacquired(p)
     THEN /\ Bytes(p) <= admittedTotal
          /\ admittedTotal' = admittedTotal - Bytes(p)
     ELSE UNCHANGED admittedTotal
  /\ UNCHANGED <<promised, promiseLock, localVars, ledgerVars, attemptVars, reapVars, ticket, token>>

\* RuntimeReservationAttempt::drop restores an unacquired promise, then unlocks.
Unlock(p) ==
  LET restored == IF fromToken[p] /\ Unacquired(p) THEN Bytes(p) ELSE 0 IN
  /\ Goto(p, "unlock", "unwindLocal")
  /\ promised' = promised + restored
  /\ token' = [token EXCEPT ![p].runtime = @ + restored]
  /\ promiseLock' = None
  /\ pressure' = [pressure EXCEPT ![p] = 0]
  /\ UNCHANGED <<admittedTotal, localVars, ledgerVars, cur, fromToken, reapVars, ticket>>

\* LocalAllocationAttempt::drop: an unacquired claim goes back to the token it
\* came from, or to the local budget.
UnwindLocal(p) ==
  /\ Goto(p, "unwindLocal", "idle")
  /\ IF Unacquired(p)
     THEN /\ ticket' = [ticket EXCEPT ![cur[p]].stage = "refused", ![cur[p]].charge = FALSE]
          /\ IF fromToken[p]
             THEN /\ token' = [token EXCEPT ![p].local = @ + Bytes(p)]
                  /\ UNCHANGED budgetReserved
             ELSE /\ Bytes(p) <= budgetReserved
                  /\ budgetReserved' = budgetReserved - Bytes(p)
                  /\ UNCHANGED token
     ELSE UNCHANGED <<budgetReserved, token, ticket>>
  /\ cur' = [cur EXCEPT ![p] = None]
  /\ fromToken' = [fromToken EXCEPT ![p] = FALSE]
  /\ UNCHANGED <<budgetVars, allocated, ledgerVars, pressure, reapVars>>

-----------------------------------------------------------------------------
(* Reclamation.                                                            *)

TakePending(p) ==
  LET owners == {t \in Tickets : ticket[t].stage = "pending"} IN
  /\ batch' = [batch EXCEPT ![p] = owners]
  /\ ticket' = [t \in Tickets |-> IF t \in owners THEN [ticket[t] EXCEPT !.stage = "taken"]
                                                  ELSE ticket[t]]
  /\ UNCHANGED <<budgetVars, localVars, ledgerVars, attemptVars, rel, token>>

\* Mutant: a reap takes the promise mutex, which its own thread may hold.
TakeBatchLocked(p) == Goto(p, "wantReap", "reap") /\ promiseLock = None /\ TakePending(p)
\* PendingReclamationBatch::take empties the pending queue.
TakeBatch(p) == Goto(p, "wantReap", "reap") /\ TakePending(p)

AfterReap(p) == IF cur[p] = None THEN "idle" ELSE "readmit"

\* reap_raw_allocations visits the owners one after another.
ReleaseNext(p, t) ==
  /\ Goto(p, "reap", "free")
  /\ t \in batch[p]
  /\ batch' = [batch EXCEPT ![p] = @ \ {t}]
  /\ rel' = [rel EXCEPT ![p] = t]
  /\ UNCHANGED <<budgetVars, localVars, ledgerVars, attemptVars, ticket, token>>

ReapDone(p) ==
  /\ Goto(p, "reap", AfterReap(p))
  /\ batch[p] = {}
  /\ UNCHANGED <<budgetVars, localVars, ledgerVars, attemptVars, reapVars, ticket, token>>

\* RawDeviceAllocation::drop: the cold queue releases an owner nobody lists, as
\* a batch of one.
ReleaseCold(p, t) ==
  /\ Goto(p, "idle", "free")
  /\ ticket[t].stage = "cold"
  /\ ticket' = [ticket EXCEPT ![t].stage = "taken"]
  /\ rel' = [rel EXCEPT ![p] = t]
  /\ UNCHANGED <<budgetVars, localVars, ledgerVars, attemptVars, batch, token>>

\* RawDeviceAllocation::release: the driver frees the memory ...
Free(p) ==
  /\ Goto(p, "free", "settleLocal")
  /\ ticket' = [ticket EXCEPT ![rel[p]].phys = FALSE]
  /\ UNCHANGED <<budgetVars, localVars, ledgerVars, attemptVars, reapVars, token>>

\* Mutant: the owner that failed returns to its queue, the rest is dropped.
UnfinishedFailed(p) == {rel[p]}
Unfinished(p) == batch[p] \cup {rel[p]}

\* ... or a step before that fails: the batch ends and every unfinished owner
\* returns to the queue it came from.
FreeFails(p) ==
  /\ Goto(p, "free", AfterReap(p))
  /\ ticket' = [t \in Tickets |->
       IF t \in Unfinished(p)
       THEN [ticket[t] EXCEPT !.stage = IF ticket[t].pend THEN "pending" ELSE "cold"]
       ELSE ticket[t]]
  /\ batch' = [batch EXCEPT ![p] = {}]
  /\ rel' = [rel EXCEPT ![p] = None]
  /\ UNCHANGED <<budgetVars, localVars, ledgerVars, attemptVars, token>>

\* AllocationReclamation::complete settles the local charge, once ...
SettleLocal(p) ==
  LET n == IF ticket[rel[p]].charge THEN ticket[rel[p]].bytes ELSE 0 IN
  /\ Goto(p, "settleLocal", "settleLedger")
  /\ n <= allocated /\ n <= budgetReserved
  /\ allocated' = allocated - n
  /\ budgetReserved' = budgetReserved - n
  /\ ticket' = [ticket EXCEPT ![rel[p]].charge = FALSE]
  /\ UNCHANGED <<budgetVars, ledgerVars, attemptVars, reapVars, token>>

\* ... then the backend's ledger and the pending tally.
SettleLedger(p) ==
  LET t == rel[p] n == ticket[t].bytes IN
  /\ Goto(p, "settleLedger", "reap")
  /\ n <= outstanding
  /\ outstanding' = outstanding - n
  /\ totalReclaimed' = totalReclaimed + n
  /\ IF ticket[t].pend
     THEN n <= pendingBytes /\ pendingBytes' = pendingBytes - n
     ELSE UNCHANGED pendingBytes
  /\ ticket' = [ticket EXCEPT ![t].stage = "freed", ![t].pend = FALSE]
  /\ rel' = [rel EXCEPT ![p] = None]
  /\ UNCHANGED <<budgetVars, localVars, attemptVars, batch, token>>

-----------------------------------------------------------------------------
Request(p) ==
  \/ \E t \in Tickets, n \in Sizes : Alloc(p, t, n) \/ TokenAlloc(p, t, n)
  \/ \E n \in Sizes : ReserveBytes(p, n)
  \/ DropToken(p)
  \/ \E t \in Tickets : Deallocate(p, t) \/ ReleaseCold(p, t)
  \/ Reap(p)

Continue(p) ==
  \/ ReserveLocal(p) \/ DropPromise(p) \/ Enqueue(p)
  \/ Lock(p) \/ Admit(p) \/ Readmit(p) \/ Malloc(p) \/ MallocRefused(p)
  \/ Publish(p) \/ Initialize(p) \/ RefundBudget(p) \/ Unlock(p) \/ UnwindLocal(p)
  \/ TakeBatch(p) \/ ReapDone(p) \/ (\E t \in Tickets : ReleaseNext(p, t))
  \/ Free(p) \/ FreeFails(p) \/ SettleLocal(p) \/ SettleLedger(p)

Next == \E p \in Procs : Request(p) \/ Continue(p)

Spec == Init /\ [][Next]_vars

\* A thread inside a call keeps running; nothing obliges it to start one.
FairSpec == Spec /\ \A p \in Procs : WF_vars(Continue(p))

-----------------------------------------------------------------------------
(* What the stack promises.                                                *)

\* A sum of sizes: the number of the units of all elements.
Units(f, S)   == UNION {{x} \X (1 .. f[x]) : x \in S}
SumOver(f, S) == Cardinality(Units(f, S))

Size     == [t \in Tickets |-> ticket[t].bytes]
Total(S) == SumOver(Size, S)

Held == {t \in Tickets : ticket[t].phys}

Promises == [p \in Procs |-> token[p].runtime]
Promised == SumOver(Promises, Procs)

\* The claims of the budget and the promises made to reservations never exceed
\* the limit, whatever allocations, refunds and reaps are in flight
\* (budget.rs: admission against materialised bytes and promises).
ClaimsWithinLimit == Reserved + promised <= Limit

\* The memory the driver really holds for this runtime, with every byte still
\* promised to a reservation, fits the limit at every moment.
PhysicalWithinLimit == Total(Held) + promised <= Limit

\* A request that spends a reservation is admitted on the first pass: no other
\* thread can take promised bytes, and no reap is needed (runtime.rs,
\* "Atomically promise bytes against the complete resource-stack budget").
ReservationHonoured == \A p \in Procs : pc[p] = "admit" /\ fromToken[p] => Fits(p)

\* When no call is in progress every counter of every layer accounts exactly for
\* the memory that is held and for the unspent reservations: nothing is refunded
\* twice, kept after a refusal or dropped with a late release.
Settled ==
  (\A p \in Procs : pc[p] = "idle") =>
    /\ outstanding = Total(Held) /\ Reserved = outstanding
    /\ allocated = Total({t \in Held : ticket[t].charge})
    /\ promised = Promised
    /\ \A p \in Procs : token[p].local = token[p].runtime
    /\ budgetReserved = allocated + Promised
    /\ pendingBytes = Total({t \in Tickets : ticket[t].stage = "pending"})

\* An owner that left a queue is in the hands of exactly one thread, which frees
\* it or returns it: a failing reap loses no owner and two reaps share none.
OwnersTracked ==
  \A t \in Tickets :
    ticket[t].stage = "taken" <=>
      \E p \in Procs : /\ t \in batch[p] \cup {rel[p]}
                       /\ \A q \in Procs \ {p} : t \notin batch[q] \cup {rel[q]}

\* Every call returns: the promise mutex is released on every path of an
\* attempt, and no settlement step is stuck on an underflow check.
CallsReturn == \A p \in Procs : pc[p] # "idle" ~> pc[p] = "idle"

-----------------------------------------------------------------------------
(* The claims this stack implements.  Between Lock and its admission, and      *)
(* between its refund and Unlock, an attempt carries the promise it spends.    *)

InLimbo(p) ==
  /\ fromToken[p]
  /\ \/ pc[p] \in {"admit", "wantReap", "readmit"} \cup Releasing
     \/ pc[p] = "unlock" /\ Unacquired(p)

Limbo == IF promiseLock # None /\ InLimbo(promiseLock) THEN Bytes(promiseLock) ELSE 0

Claims == INSTANCE MemoryClaims WITH used <- Reserved, promised <- promised + Limbo

\* Every step of the stack is one step of MemoryClaims or none.
ClaimsSpec == Claims!Spec
=============================================================================
