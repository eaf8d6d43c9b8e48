-------------------------- MODULE DeviceMemory_proofs --------------------------
(***************************************************************************)
(* Proofs about DeviceMemory, for any number of threads, tickets and sizes *)
(* and any limit.  IInv is about the promise mutex, the reservations and   *)
(* the limit; Accounts says who has every owner and what every counter is  *)
(* the sum of.                                                             *)
(***************************************************************************)
EXTENDS DeviceMemory, FiniteSetTheorems, TLAPS

\* The states in which a thread certainly holds the promise mutex; in a reap it
\* does if the reap belongs to its allocation.
Critical == {"admit", "readmit", "malloc", "publish", "init", "refund", "unlock"}
Reaping  == {"wantReap"} \cup Releasing

Holding(p) == pc[p] \in Critical \/ (pc[p] \in Reaping /\ cur[p] # None)

\* Who holds the promise mutex and whose variables are set.
Mutex ==
  \A p \in Procs :
    /\ promiseLock = p <=> Holding(p)
    /\ pc[p] \in {"idle", "claimLocal", "dropToken", "enqueue"} => cur[p] = None
    /\ pc[p] \in {"lock", "unwindLocal"} \cup Critical => cur[p] # None
    /\ cur[p] = None => ~fromToken[p]
    /\ pc[p] \in {"enqueue", "free", "settleLocal", "settleLedger"} => rel[p] # None

\* A ticket is used by one attempt, keeps its size, and is acquired by malloc.
Attempts ==
  /\ \A t \in Tickets :
       IF ticket[t].stage = "unused" THEN ~ticket[t].acquired
                                     ELSE ticket[t].bytes \in Sizes \cup {InitialUsed}
  /\ \A p \in Procs :
       /\ cur[p] # None => /\ ticket[cur[p]].stage # "unused"
                           /\ ticket[cur[p]].bytes \in Sizes
       /\ rel[p] # None => ticket[rel[p]].stage # "unused"
       /\ \A t \in batch[p] : ticket[t].stage # "unused"
       /\ cur[p] # None /\ pc[p] \in {"lock", "admit", "readmit", "malloc"} \cup Reaping
            => ~ticket[cur[p]].acquired
       /\ pc[p] \in {"publish", "init"} => ticket[cur[p]].acquired
  /\ \A p, q \in Procs : cur[p] # None /\ cur[p] = cur[q] => p = q

\* What a thread's reservation has lent to the attempt it makes.
Lent(p) ==
  IF fromToken[p] /\ (pc[p] = "lock" \/ (pc[p] = "unwindLocal" /\ Unacquired(p)))
  THEN Bytes(p) ELSE 0

\* The two halves of a reservation agree, up to what is lent.
Reservations ==
  \A p \in Procs :
    /\ fromToken[p] => token[p].live
    /\ ~token[p].live => token[p].local = 0
    /\ IF pc[p] \in {"claimLocal", "dropToken"}
       THEN ~token[p].live
       ELSE token[p].runtime = token[p].local + Lent(p)

\* What is admitted, and neither handed out and published nor refunded.
Inflight ==
  IF promiseLock # None
     /\ \/ pc[promiseLock] \in {"malloc", "publish"}
        \/ pc[promiseLock] = "refund" /\ Unacquired(promiseLock)
  THEN Bytes(promiseLock) ELSE 0

\* The budget's tally is the backend's ledger and the attempt in flight; with
\* every promise, also the one an attempt is spending, it is within the limit.
Limits ==
  /\ Reserved = outstanding + Inflight
  /\ Reserved + promised + Limbo <= Limit
  /\ promiseLock # None => pressure[promiseLock] = promised

IInv == TypeOK /\ Mutex /\ Attempts /\ Reservations /\ Limits

\* What the stage of a ticket says about it.
Staged ==
  \A t \in Tickets :
    /\ ticket[t].stage \in {"unused", "refused"} =>
         ~ticket[t].acquired /\ ~ticket[t].phys /\ ~ticket[t].charge /\ ~ticket[t].pend
    /\ ticket[t].stage = "attempt" => /\ ticket[t].charge /\ ~ticket[t].pend
                                      /\ ticket[t].phys = ticket[t].acquired
                                      /\ \E p \in Procs : cur[p] = t
    /\ ticket[t].stage \in {"live", "pending", "cold"} =>
         /\ ticket[t].acquired /\ ticket[t].phys
         /\ ticket[t].pend <=> ticket[t].stage = "pending"
    /\ ticket[t].stage = "taken" => ticket[t].acquired
    /\ ticket[t].stage = "freed" => /\ ticket[t].acquired /\ ~ticket[t].phys
                                    /\ ~ticket[t].charge /\ ~ticket[t].pend

\* The stage of the ticket an attempt is made with.
Trying ==
  \A p \in Procs :
    cur[p] # None =>
      /\ pc[p] \notin {"refund", "unlock", "unwindLocal"} => ticket[cur[p]].stage = "attempt"
      /\ pc[p] \in {"refund", "unlock", "unwindLocal"} =>
           (ticket[cur[p]].stage = "attempt" <=> ~ticket[cur[p]].acquired)

\* Who has the owners that left a queue, and how far a release is.
InHands(p, t) == t \in batch[p] \/ t = rel[p]

Owners ==
  /\ \A p \in Procs :
       /\ rel[p] # None <=> pc[p] \in {"enqueue", "free", "settleLocal", "settleLedger"}
       /\ batch[p] # {} => pc[p] \in Releasing
       /\ rel[p] \notin batch[p]
       /\ \A t \in batch[p] : ticket[t].phys
       /\ pc[p] \in {"enqueue", "free"} => ticket[rel[p]].phys
       /\ pc[p] \in {"settleLocal", "settleLedger"} => ~ticket[rel[p]].phys
       /\ pc[p] = "enqueue" => ticket[rel[p]].pend
       /\ pc[p] = "settleLedger" => ~ticket[rel[p]].charge
  /\ \A t \in Tickets : ticket[t].stage = "taken" <=> \E p \in Procs : InHands(p, t)
  /\ \A t \in Tickets, p, q \in Procs : InHands(p, t) /\ InHands(q, t) => p = q

\* The tickets that count, and what each counter is the sum of.
Used    == {t \in Tickets : ticket[t].stage # "unused"}
Ledger  == {t \in Tickets : /\ ticket[t].acquired /\ ticket[t].stage # "freed"
                            /\ \A p \in Procs : pc[p] = "publish" => cur[p] # t}
Charged == {t \in Tickets : ticket[t].charge}
Pending == {t \in Tickets : ticket[t].pend}
Locals  == [p \in Procs |-> token[p].local]

Finite ==
  IsFiniteSet(Units(Size, Used)) /\ IsFiniteSet(Units(Promises, Procs)) /\ IsFiniteSet(Units(Locals, Procs))

Tallies ==
  /\ Finite
  /\ outstanding = Total(Ledger)
  /\ allocated = Total(Ledger \cap Charged)
  /\ budgetReserved = Total(Charged) + SumOver(Locals, Procs)
  /\ promised = Promised
  /\ pendingBytes = Total(Pending)

Accounts == Staged /\ Trying /\ Owners /\ Tallies

-----------------------------------------------------------------------------
\* A field of a ticket or of a reservation is written with a value of its type.
LEMMA TicketFields ==
  ASSUME NEW r \in Ticket
  PROVE  /\ \A n \in Nat, s \in Stages, b \in BOOLEAN :
              [r EXCEPT !.bytes = n, !.stage = s, !.charge = b] \in Ticket
         /\ \A s \in Stages : [r EXCEPT !.stage = s] \in Ticket
         /\ \A s \in Stages, b \in BOOLEAN : [r EXCEPT !.stage = s, !.pend = b] \in Ticket
         /\ \A s \in Stages, b \in BOOLEAN : [r EXCEPT !.stage = s, !.charge = b] \in Ticket
         /\ \A b \in BOOLEAN : [r EXCEPT !.phys = b, !.acquired = b] \in Ticket
         /\ \A b \in BOOLEAN : [r EXCEPT !.phys = b] \in Ticket
         /\ \A b \in BOOLEAN : [r EXCEPT !.charge = b] \in Ticket
  BY DEF Ticket

\* The same for a reservation.
LEMMA TokenFields ==
  ASSUME NEW r \in Token
  PROVE  /\ \A n \in Nat, b \in BOOLEAN : [r EXCEPT !.live = b, !.local = n] \in Token
         /\ \A n \in Nat : [r EXCEPT !.local = n] \in Token
         /\ \A n \in Nat : [r EXCEPT !.runtime = n] \in Token
  BY DEF Token

\* Every ticket stays a ticket.
LEMMA TicketsTyped ==
  ASSUME IInv, [Next]_vars
  PROVE  ticket' \in [Tickets -> Ticket]
<1> USE NoneAssumption
    DEF IInv, TypeOK, budgetVars, localVars, ledgerVars, attemptVars, reapVars
<1>1. ASSUME NEW p \in Procs, NEW t \in Tickets, NEW n \in Sizes, Alloc(p, t, n)
     PROVE  ticket' \in [Tickets -> Ticket]
  <2>1. ticket[t] \in Ticket /\ n \in Nat /\ "attempt" \in Stages
    BY SizesAssumption DEF IInv, TypeOK, Stages
  <2> QED BY <1>1, <2>1, TicketFields DEF IInv, TypeOK, Alloc, BeginAttempt
<1>2. ASSUME NEW p \in Procs, NEW t \in Tickets, NEW n \in Sizes, TokenAlloc(p, t, n)
     PROVE  ticket' \in [Tickets -> Ticket]
  <2>1. ticket[t] \in Ticket /\ n \in Nat /\ "attempt" \in Stages
    BY SizesAssumption DEF IInv, TypeOK, Stages
  <2> QED BY <1>2, <2>1, TicketFields DEF IInv, TypeOK, TokenAlloc, BeginAttempt
<1>3. ASSUME NEW p \in Procs, NEW n \in Sizes, ReserveBytes(p, n)
     PROVE  ticket' \in [Tickets -> Ticket]
  BY <1>3 DEF ReserveBytes
<1>4. ASSUME NEW p \in Procs, DropToken(p) PROVE ticket' \in [Tickets -> Ticket]
  BY <1>4 DEF DropToken
<1>5. ASSUME NEW p \in Procs, NEW t \in Tickets, Deallocate(p, t)
     PROVE  ticket' \in [Tickets -> Ticket]
  <2>1. ticket[t] \in Ticket /\ "taken" \in Stages
    BY DEF IInv, TypeOK, Stages
  <2> QED BY <1>5, <2>1, TicketFields DEF IInv, TypeOK, Deallocate
<1>6. ASSUME NEW p \in Procs, NEW t \in Tickets, ReleaseCold(p, t)
     PROVE  ticket' \in [Tickets -> Ticket]
  <2>1. ticket[t] \in Ticket /\ "taken" \in Stages
    BY DEF IInv, TypeOK, Stages
  <2> QED BY <1>6, <2>1, TicketFields DEF IInv, TypeOK, ReleaseCold
<1>7. ASSUME NEW p \in Procs, Reap(p) PROVE ticket' \in [Tickets -> Ticket]
  BY <1>7 DEF Reap
<1>8. ASSUME NEW p \in Procs, ReserveLocal(p) PROVE ticket' \in [Tickets -> Ticket]
  BY <1>8 DEF ReserveLocal
<1>9. ASSUME NEW p \in Procs, DropPromise(p) PROVE ticket' \in [Tickets -> Ticket]
  BY <1>9 DEF DropPromise
<1>10. ASSUME NEW p \in Procs, Enqueue(p) PROVE ticket' \in [Tickets -> Ticket]
  <2>1. rel[p] \in Tickets
    BY <1>10 DEF IInv, TypeOK, Mutex, Enqueue, Goto
  <2>2. ticket[rel[p]] \in Ticket /\ "pending" \in Stages
    BY <2>1 DEF IInv, TypeOK, Stages
  <2> QED BY <1>10, <2>1, <2>2, TicketFields DEF IInv, TypeOK, Enqueue
<1>11. ASSUME NEW p \in Procs, Lock(p) PROVE ticket' \in [Tickets -> Ticket]
  BY <1>11 DEF Lock, PressureAfter
<1>12. ASSUME NEW p \in Procs, Admit(p) PROVE ticket' \in [Tickets -> Ticket]
  BY <1>12 DEF Admit, Fits
<1>13. ASSUME NEW p \in Procs, Readmit(p) PROVE ticket' \in [Tickets -> Ticket]
  BY <1>13 DEF Readmit, Fits
<1>14. ASSUME NEW p \in Procs, Malloc(p) PROVE ticket' \in [Tickets -> Ticket]
  <2>1. cur[p] \in Tickets
    BY <1>14 DEF IInv, TypeOK, Mutex, Malloc, Goto, Critical
  <2>2. ticket[cur[p]] \in Ticket
    BY <2>1 DEF IInv, TypeOK, Stages
  <2>3. [ticket[cur[p]] EXCEPT !.phys = TRUE, !.acquired = TRUE] \in Ticket
    BY <2>2, TicketFields
  <2> QED BY <1>14, <2>1, <2>3 DEF IInv, TypeOK, Malloc
<1>15. ASSUME NEW p \in Procs, MallocRefused(p) PROVE ticket' \in [Tickets -> Ticket]
  BY <1>15 DEF MallocRefused
<1>16. ASSUME NEW p \in Procs, Publish(p) PROVE ticket' \in [Tickets -> Ticket]
  BY <1>16 DEF Publish
<1>17. ASSUME NEW p \in Procs, Initialize(p) PROVE ticket' \in [Tickets -> Ticket]
  <2>1. cur[p] \in Tickets
    BY <1>17 DEF IInv, TypeOK, Mutex, Initialize, Goto, Critical
  <2>2. ticket[cur[p]] \in Ticket /\ "live" \in Stages /\ "cold" \in Stages
    BY <2>1 DEF IInv, TypeOK, Stages
  <2>3. PICK s \in {"live", "cold"} : ticket' = [ticket EXCEPT ![cur[p]].stage = s]
    BY <1>17 DEF Initialize
  <2> QED BY <2>3, <2>1, <2>2, TicketFields DEF IInv, TypeOK
<1>18. ASSUME NEW p \in Procs, RefundBudget(p) PROVE ticket' \in [Tickets -> Ticket]
  BY <1>18 DEF RefundBudget
<1>19. ASSUME NEW p \in Procs, Unlock(p) PROVE ticket' \in [Tickets -> Ticket]
  BY <1>19 DEF Unlock
<1>20. ASSUME NEW p \in Procs, UnwindLocal(p) PROVE ticket' \in [Tickets -> Ticket]
  <2>1. cur[p] \in Tickets
    BY <1>20 DEF IInv, TypeOK, Mutex, UnwindLocal, Goto
  <2>2. ticket[cur[p]] \in Ticket /\ "refused" \in Stages
    BY <2>1 DEF IInv, TypeOK, Stages
  <2>3. [ticket[cur[p]] EXCEPT !.stage = "refused", !.charge = FALSE] \in Ticket
    BY <2>2, TicketFields
  <2>4. CASE Unacquired(p)
    BY <1>20, <2>1, <2>3, <2>4 DEF IInv, TypeOK, UnwindLocal
  <2>5. CASE ~Unacquired(p)
    BY <1>20, <2>5 DEF IInv, TypeOK, UnwindLocal
  <2> QED BY <2>4, <2>5
<1>21. ASSUME NEW p \in Procs, TakeBatch(p) PROVE ticket' \in [Tickets -> Ticket]
  <2>1. \A t \in Tickets : ticket[t] \in Ticket /\ "taken" \in Stages
    BY DEF IInv, TypeOK, Stages
  <2> QED BY <1>21, <2>1, TicketFields DEF TakeBatch, TakePending
<1>22. ASSUME NEW p \in Procs, ReapDone(p) PROVE ticket' \in [Tickets -> Ticket]
  BY <1>22 DEF ReapDone, AfterReap
<1>23. ASSUME NEW p \in Procs, NEW t \in Tickets, ReleaseNext(p, t)
      PROVE  ticket' \in [Tickets -> Ticket]
  BY <1>23 DEF ReleaseNext
<1>24. ASSUME NEW p \in Procs, Free(p) PROVE ticket' \in [Tickets -> Ticket]
  <2>1. rel[p] \in Tickets
    BY <1>24 DEF IInv, TypeOK, Mutex, Free, Goto
  <2>2. ticket[rel[p]] \in Ticket
    BY <2>1 DEF IInv, TypeOK, Stages
  <2>3. [ticket[rel[p]] EXCEPT !.phys = FALSE] \in Ticket
    BY <2>2, TicketFields
  <2> QED BY <1>24, <2>1, <2>3 DEF IInv, TypeOK, Free
<1>25. ASSUME NEW p \in Procs, FreeFails(p) PROVE ticket' \in [Tickets -> Ticket]
  <2>1. \A t \in Tickets : ticket[t] \in Ticket
    BY DEF IInv, TypeOK
  <2>2. "pending" \in Stages /\ "cold" \in Stages
    BY DEF Stages
  <2> QED BY <1>25, <2>1, <2>2, TicketFields DEF FreeFails
<1>26. ASSUME NEW p \in Procs, SettleLocal(p) PROVE ticket' \in [Tickets -> Ticket]
  <2>1. rel[p] \in Tickets
    BY <1>26 DEF IInv, TypeOK, Mutex, SettleLocal, Goto
  <2>2. ticket[rel[p]] \in Ticket
    BY <2>1 DEF IInv, TypeOK, Stages
  <2>3. [ticket[rel[p]] EXCEPT !.charge = FALSE] \in Ticket
    BY <2>2, TicketFields
  <2> QED BY <1>26, <2>1, <2>3 DEF IInv, TypeOK, SettleLocal
<1>27. ASSUME NEW p \in Procs, SettleLedger(p) PROVE ticket' \in [Tickets -> Ticket]
  <2>1. rel[p] \in Tickets
    BY <1>27 DEF IInv, TypeOK, Mutex, SettleLedger, Goto
  <2>2. ticket[rel[p]] \in Ticket /\ "freed" \in Stages
    BY <2>1 DEF IInv, TypeOK, Stages
  <2> QED BY <1>27, <2>1, <2>2, TicketFields DEF IInv, TypeOK, SettleLedger
<1>28. CASE UNCHANGED vars
  BY <1>28 DEF vars
<1> QED
  BY <1>1, <1>2, <1>3, <1>4, <1>5, <1>6, <1>7, <1>8, <1>9, <1>10, <1>11,
     <1>12, <1>13, <1>14, <1>15, <1>16, <1>17, <1>18, <1>19, <1>20, <1>21,
     <1>22, <1>23, <1>24, <1>25, <1>26, <1>27, <1>28
  DEF Next, Request, Continue

\* Every reservation stays one: an attempt takes no more than is left of it.
LEMMA TokensTyped ==
  ASSUME IInv, [Next]_vars
  PROVE  token' \in [Procs -> Token]
<1> USE NoneAssumption
    DEF IInv, TypeOK, budgetVars, localVars, ledgerVars, attemptVars, reapVars
<1>1. ASSUME NEW p \in Procs, NEW t \in Tickets, NEW n \in Sizes, Alloc(p, t, n)
     PROVE  token' \in [Procs -> Token]
  BY <1>1 DEF Alloc, BeginAttempt
<1>2. ASSUME NEW p \in Procs, NEW t \in Tickets, NEW n \in Sizes, TokenAlloc(p, t, n)
     PROVE  token' \in [Procs -> Token]
  <2>1. token[p] \in Token /\ token[p].local - n \in Nat
    BY <1>2, SizesAssumption DEF IInv, TypeOK, Token, TokenAlloc, TokenCovers
  <2> QED BY <1>2, <2>1, TokenFields DEF IInv, TypeOK, TokenAlloc
<1>3. ASSUME NEW p \in Procs, NEW n \in Sizes, ReserveBytes(p, n)
     PROVE  token' \in [Procs -> Token]
  <2>1. token[p] \in Token /\ n \in Nat
    BY SizesAssumption DEF IInv, TypeOK
  <2> QED BY <1>3, <2>1, TokenFields DEF IInv, TypeOK, ReserveBytes
<1>4. ASSUME NEW p \in Procs, DropToken(p) PROVE token' \in [Procs -> Token]
  <2>1. token[p] \in Token
    BY DEF IInv, TypeOK
  <2> QED BY <1>4, <2>1, TokenFields DEF IInv, TypeOK, DropToken
<1>5. ASSUME NEW p \in Procs, NEW t \in Tickets, Deallocate(p, t)
     PROVE  token' \in [Procs -> Token]
  BY <1>5 DEF Deallocate
<1>6. ASSUME NEW p \in Procs, NEW t \in Tickets, ReleaseCold(p, t)
     PROVE  token' \in [Procs -> Token]
  BY <1>6 DEF ReleaseCold
<1>7. ASSUME NEW p \in Procs, Reap(p) PROVE token' \in [Procs -> Token]
  BY <1>7 DEF Reap
<1>8. ASSUME NEW p \in Procs, ReserveLocal(p) PROVE token' \in [Procs -> Token]
  <2>1. token[p] \in Token /\ token[p].runtime \in Nat
    BY DEF IInv, TypeOK, Token
  <2>2. [token[p] EXCEPT !.live = TRUE, !.local = token[p].runtime] \in Token
    BY <2>1, TokenFields
  <2> QED BY <1>8, <2>2 DEF IInv, TypeOK, ReserveLocal
<1>9. ASSUME NEW p \in Procs, DropPromise(p) PROVE token' \in [Procs -> Token]
  <2>1. token[p] \in Token
    BY DEF IInv, TypeOK
  <2> QED BY <1>9, <2>1, TokenFields DEF IInv, TypeOK, DropPromise
<1>10. ASSUME NEW p \in Procs, Enqueue(p) PROVE token' \in [Procs -> Token]
  BY <1>10 DEF Enqueue
<1>11. ASSUME NEW p \in Procs, Lock(p) PROVE token' \in [Procs -> Token]
  <2> DEFINE spent == IF fromToken[p] THEN Bytes(p) ELSE 0
  <2>1. cur[p] \in Tickets /\ pc[p] = "lock"
    BY <1>11 DEF IInv, TypeOK, Mutex, Lock, Goto
  <2>2. token[p] \in Token /\ token[p].runtime \in Nat /\ Bytes(p) \in Nat
    BY <2>1 DEF IInv, TypeOK, Bytes, Ticket, Token
  <2>3. fromToken[p] => token[p].runtime = token[p].local + Bytes(p) /\ token[p].local \in Nat
    BY <2>1, <2>2 DEF IInv, TypeOK, Reservations, Lent, Token
  <2>4. token[p].runtime - spent \in Nat
    BY <2>2, <2>3
  <2> QED BY <1>11, <2>2, <2>4, TokenFields DEF IInv, TypeOK, Lock
<1>12. ASSUME NEW p \in Procs, Admit(p) PROVE token' \in [Procs -> Token]
  BY <1>12 DEF Admit, Fits
<1>13. ASSUME NEW p \in Procs, Readmit(p) PROVE token' \in [Procs -> Token]
  BY <1>13 DEF Readmit, Fits
<1>14. ASSUME NEW p \in Procs, Malloc(p) PROVE token' \in [Procs -> Token]
  BY <1>14 DEF Malloc
<1>15. ASSUME NEW p \in Procs, MallocRefused(p) PROVE token' \in [Procs -> Token]
  BY <1>15 DEF MallocRefused
<1>16. ASSUME NEW p \in Procs, Publish(p) PROVE token' \in [Procs -> Token]
  BY <1>16 DEF Publish
<1>17. ASSUME NEW p \in Procs, Initialize(p) PROVE token' \in [Procs -> Token]
  BY <1>17 DEF Initialize
<1>18. ASSUME NEW p \in Procs, RefundBudget(p) PROVE token' \in [Procs -> Token]
  BY <1>18 DEF RefundBudget
<1>19. ASSUME NEW p \in Procs, Unlock(p) PROVE token' \in [Procs -> Token]
  <2> DEFINE restored == IF fromToken[p] /\ Unacquired(p) THEN Bytes(p) ELSE 0
  <2>1. cur[p] \in Tickets
    BY <1>19 DEF IInv, TypeOK, Mutex, Unlock, Goto, Critical
  <2>2. token[p] \in Token /\ token[p].runtime \in Nat /\ Bytes(p) \in Nat
    BY <2>1 DEF IInv, TypeOK, Bytes, Ticket, Token
  <2>3. token[p].runtime + restored \in Nat
    BY <2>2
  <2> QED BY <1>19, <2>2, <2>3, TokenFields DEF IInv, TypeOK, Unlock
<1>20. ASSUME NEW p \in Procs, UnwindLocal(p) PROVE token' \in [Procs -> Token]
  <2>1. cur[p] \in Tickets
    BY <1>20 DEF IInv, TypeOK, Mutex, UnwindLocal, Goto
  <2>2. token[p] \in Token /\ token[p].local + Bytes(p) \in Nat
    BY <2>1 DEF IInv, TypeOK, Bytes, Ticket, Token
  <2>3. [token[p] EXCEPT !.local = @ + Bytes(p)] \in Token
    BY <2>2, TokenFields
  <2>4. CASE Unacquired(p)
    BY <1>20, <2>3, <2>4 DEF IInv, TypeOK, UnwindLocal
  <2>5. CASE ~Unacquired(p)
    BY <1>20, <2>5 DEF IInv, TypeOK, UnwindLocal
  <2> QED BY <2>4, <2>5
<1>21. ASSUME NEW p \in Procs, TakeBatch(p) PROVE token' \in [Procs -> Token]
  BY <1>21 DEF TakeBatch, TakePending
<1>22. ASSUME NEW p \in Procs, ReapDone(p) PROVE token' \in [Procs -> Token]
  BY <1>22 DEF ReapDone, AfterReap
<1>23. ASSUME NEW p \in Procs, NEW t \in Tickets, ReleaseNext(p, t)
      PROVE  token' \in [Procs -> Token]
  BY <1>23 DEF ReleaseNext
<1>24. ASSUME NEW p \in Procs, Free(p) PROVE token' \in [Procs -> Token]
  BY <1>24 DEF Free
<1>25. ASSUME NEW p \in Procs, FreeFails(p) PROVE token' \in [Procs -> Token]
  BY <1>25 DEF FreeFails, AfterReap, Unfinished
<1>26. ASSUME NEW p \in Procs, SettleLocal(p) PROVE token' \in [Procs -> Token]
  BY <1>26 DEF SettleLocal
<1>27. ASSUME NEW p \in Procs, SettleLedger(p) PROVE token' \in [Procs -> Token]
  BY <1>27 DEF SettleLedger
<1>28. CASE UNCHANGED vars
  BY <1>28 DEF vars
<1> QED
  BY <1>1, <1>2, <1>3, <1>4, <1>5, <1>6, <1>7, <1>8, <1>9, <1>10, <1>11,
     <1>12, <1>13, <1>14, <1>15, <1>16, <1>17, <1>18, <1>19, <1>20, <1>21,
     <1>22, <1>23, <1>24, <1>25, <1>26, <1>27, <1>28
  DEF Next, Request, Continue

\* Types are kept.
LEMMA StepTypeOK ==
  ASSUME IInv, [Next]_vars
  PROVE  TypeOK'
<1> USE NoneAssumption, SizesAssumption, TicketsTyped, TokensTyped
    DEF IInv, TypeOK, Mutex, Goto, budgetVars, localVars, ledgerVars,
        attemptVars, reapVars, Bytes, Ticket, Token, PCs, Locked, Releasing,
        Critical
<1>1. ASSUME NEW p \in Procs, NEW t \in Tickets, NEW n \in Sizes, Alloc(p, t, n)
     PROVE  TypeOK'
  BY <1>1, SMTT(20) DEF Alloc, BeginAttempt
<1>2. ASSUME NEW p \in Procs, NEW t \in Tickets, NEW n \in Sizes, TokenAlloc(p, t, n)
     PROVE  TypeOK'
  BY <1>2, SMTT(20) DEF TokenAlloc, BeginAttempt, TokenCovers
<1>3. ASSUME NEW p \in Procs, NEW n \in Sizes, ReserveBytes(p, n) PROVE TypeOK'
  BY <1>3, SMTT(20) DEF ReserveBytes
<1>4. ASSUME NEW p \in Procs, DropToken(p) PROVE TypeOK'
  BY <1>4, SMTT(20) DEF DropToken
<1>5. ASSUME NEW p \in Procs, NEW t \in Tickets, Deallocate(p, t) PROVE TypeOK'
  BY <1>5, SMTT(20) DEF Deallocate
<1>6. ASSUME NEW p \in Procs, NEW t \in Tickets, ReleaseCold(p, t) PROVE TypeOK'
  BY <1>6, SMTT(20) DEF ReleaseCold
<1>7. ASSUME NEW p \in Procs, Reap(p) PROVE TypeOK'
  BY <1>7, SMTT(20) DEF Reap
<1>8. ASSUME NEW p \in Procs, ReserveLocal(p) PROVE TypeOK'
  <2>1. token[p].runtime \in Nat
    OBVIOUS
  <2>2. CASE budgetReserved + token[p].runtime <= LocalLimit
    BY <1>8, <2>1, <2>2, SMTT(20) DEF ReserveLocal
  <2>3. CASE ~(budgetReserved + token[p].runtime <= LocalLimit)
    BY <1>8, <2>1, <2>3, SMTT(20) DEF ReserveLocal
  <2> QED BY <2>2, <2>3
<1>9. ASSUME NEW p \in Procs, DropPromise(p) PROVE TypeOK'
  BY <1>9, SMTT(20) DEF DropPromise
<1>10. ASSUME NEW p \in Procs, Enqueue(p) PROVE TypeOK'
  BY <1>10, SMTT(20) DEF Enqueue
<1>11. ASSUME NEW p \in Procs, Lock(p) PROVE TypeOK'
  BY <1>11, SMTT(20) DEF Lock, PressureAfter
<1>12. ASSUME NEW p \in Procs, Admit(p) PROVE TypeOK'
  BY <1>12, SMTT(20) DEF Admit, Fits
<1>13. ASSUME NEW p \in Procs, Readmit(p) PROVE TypeOK'
  BY <1>13, SMTT(20) DEF Readmit, Fits
<1>14. ASSUME NEW p \in Procs, Malloc(p) PROVE TypeOK'
  BY <1>14, SMTT(20) DEF Malloc
<1>15. ASSUME NEW p \in Procs, MallocRefused(p) PROVE TypeOK'
  BY <1>15, SMTT(20) DEF MallocRefused
<1>16. ASSUME NEW p \in Procs, Publish(p) PROVE TypeOK'
  BY <1>16, SMTT(20) DEF Publish
<1>17. ASSUME NEW p \in Procs, Initialize(p) PROVE TypeOK'
  BY <1>17, SMTT(20) DEF Initialize
<1>18. ASSUME NEW p \in Procs, RefundBudget(p) PROVE TypeOK'
  BY <1>18, SMTT(20) DEF RefundBudget
<1>19. ASSUME NEW p \in Procs, Unlock(p) PROVE TypeOK'
  BY <1>19, SMTT(20) DEF Unlock
<1>20. ASSUME NEW p \in Procs, UnwindLocal(p) PROVE TypeOK'
  BY <1>20, SMTT(20) DEF UnwindLocal
<1>21. ASSUME NEW p \in Procs, TakeBatch(p) PROVE TypeOK'
  BY <1>21, SMTT(20) DEF TakeBatch, TakePending
<1>22. ASSUME NEW p \in Procs, ReapDone(p) PROVE TypeOK'
  BY <1>22, SMTT(20) DEF ReapDone, AfterReap
<1>23. ASSUME NEW p \in Procs, NEW t \in Tickets, ReleaseNext(p, t) PROVE TypeOK'
  BY <1>23, SMTT(20) DEF ReleaseNext
<1>24. ASSUME NEW p \in Procs, Free(p) PROVE TypeOK'
  BY <1>24, SMTT(20) DEF Free
<1>25. ASSUME NEW p \in Procs, FreeFails(p) PROVE TypeOK'
  BY <1>25, SMTT(20) DEF FreeFails, AfterReap, Unfinished
<1>26. ASSUME NEW p \in Procs, SettleLocal(p) PROVE TypeOK'
  BY <1>26, SMTT(20) DEF SettleLocal
<1>27. ASSUME NEW p \in Procs, SettleLedger(p) PROVE TypeOK'
  BY <1>27, SMTT(20) DEF SettleLedger
<1>28. CASE UNCHANGED vars
  BY <1>28 DEF vars
<1> QED
  BY <1>1, <1>2, <1>3, <1>4, <1>5, <1>6, <1>7, <1>8, <1>9, <1>10, <1>11,
     <1>12, <1>13, <1>14, <1>15, <1>16, <1>17, <1>18, <1>19, <1>20, <1>21,
     <1>22, <1>23, <1>24, <1>25, <1>26, <1>27, <1>28
  DEF Next, Request, Continue

\* The promise mutex is held exactly where Mutex says.
LEMMA StepMutex ==
  ASSUME IInv, [Next]_vars
  PROVE  Mutex'
<1> USE NoneAssumption
    DEF IInv, TypeOK, Mutex, Goto, budgetVars, localVars, ledgerVars,
        attemptVars, reapVars, Holding, Critical, Reaping, Locked, Releasing
<1>1. ASSUME NEW p \in Procs, NEW t \in Tickets, NEW n \in Sizes, Alloc(p, t, n)
     PROVE  Mutex'
  BY <1>1, SMTT(20) DEF Alloc, BeginAttempt
<1>2. ASSUME NEW p \in Procs, NEW t \in Tickets, NEW n \in Sizes, TokenAlloc(p, t, n)
     PROVE  Mutex'
  BY <1>2, SMTT(20) DEF TokenAlloc, BeginAttempt, TokenCovers
<1>3. ASSUME NEW p \in Procs, NEW n \in Sizes, ReserveBytes(p, n) PROVE Mutex'
  BY <1>3, SMTT(20) DEF ReserveBytes
<1>4. ASSUME NEW p \in Procs, DropToken(p) PROVE Mutex'
  BY <1>4, SMTT(20) DEF DropToken
<1>5. ASSUME NEW p \in Procs, NEW t \in Tickets, Deallocate(p, t) PROVE Mutex'
  BY <1>5, SMTT(20) DEF Deallocate
<1>6. ASSUME NEW p \in Procs, NEW t \in Tickets, ReleaseCold(p, t) PROVE Mutex'
  BY <1>6, SMTT(20) DEF ReleaseCold
<1>7. ASSUME NEW p \in Procs, Reap(p) PROVE Mutex'
  BY <1>7, SMTT(20) DEF Reap
<1>8. ASSUME NEW p \in Procs, ReserveLocal(p) PROVE Mutex'
  BY <1>8, SMTT(20) DEF ReserveLocal
<1>9. ASSUME NEW p \in Procs, DropPromise(p) PROVE Mutex'
  BY <1>9, SMTT(20) DEF DropPromise
<1>10. ASSUME NEW p \in Procs, Enqueue(p) PROVE Mutex'
  BY <1>10, SMTT(20) DEF Enqueue
<1>11. ASSUME NEW p \in Procs, Lock(p) PROVE Mutex'
  BY <1>11, SMTT(20) DEF Lock, PressureAfter
<1>12. ASSUME NEW p \in Procs, Admit(p) PROVE Mutex'
  BY <1>12, SMTT(20) DEF Admit, Fits
<1>13. ASSUME NEW p \in Procs, Readmit(p) PROVE Mutex'
  BY <1>13, SMTT(20) DEF Readmit, Fits
<1>14. ASSUME NEW p \in Procs, Malloc(p) PROVE Mutex'
  BY <1>14, SMTT(20) DEF Malloc
<1>15. ASSUME NEW p \in Procs, MallocRefused(p) PROVE Mutex'
  BY <1>15, SMTT(20) DEF MallocRefused
<1>16. ASSUME NEW p \in Procs, Publish(p) PROVE Mutex'
  BY <1>16, SMTT(20) DEF Publish
<1>17. ASSUME NEW p \in Procs, Initialize(p) PROVE Mutex'
  BY <1>17, SMTT(20) DEF Initialize
<1>18. ASSUME NEW p \in Procs, RefundBudget(p) PROVE Mutex'
  BY <1>18, SMTT(20) DEF RefundBudget
<1>19. ASSUME NEW p \in Procs, Unlock(p) PROVE Mutex'
  BY <1>19, SMTT(20) DEF Unlock
<1>20. ASSUME NEW p \in Procs, UnwindLocal(p) PROVE Mutex'
  BY <1>20, SMTT(20) DEF UnwindLocal
<1>21. ASSUME NEW p \in Procs, TakeBatch(p) PROVE Mutex'
  BY <1>21, SMTT(20) DEF TakeBatch, TakePending
<1>22. ASSUME NEW p \in Procs, ReapDone(p) PROVE Mutex'
  BY <1>22, SMTT(20) DEF ReapDone, AfterReap
<1>23. ASSUME NEW p \in Procs, NEW t \in Tickets, ReleaseNext(p, t) PROVE Mutex'
  BY <1>23, SMTT(20) DEF ReleaseNext
<1>24. ASSUME NEW p \in Procs, Free(p) PROVE Mutex'
  BY <1>24, SMTT(20) DEF Free
<1>25. ASSUME NEW p \in Procs, FreeFails(p) PROVE Mutex'
  BY <1>25, SMTT(20) DEF FreeFails, AfterReap, Unfinished
<1>26. ASSUME NEW p \in Procs, SettleLocal(p) PROVE Mutex'
  BY <1>26, SMTT(20) DEF SettleLocal
<1>27. ASSUME NEW p \in Procs, SettleLedger(p) PROVE Mutex'
  BY <1>27, SMTT(20) DEF SettleLedger
<1>28. CASE UNCHANGED vars
  BY <1>28 DEF vars
<1> QED
  BY <1>1, <1>2, <1>3, <1>4, <1>5, <1>6, <1>7, <1>8, <1>9, <1>10, <1>11,
     <1>12, <1>13, <1>14, <1>15, <1>16, <1>17, <1>18, <1>19, <1>20, <1>21,
     <1>22, <1>23, <1>24, <1>25, <1>26, <1>27, <1>28
  DEF Next, Request, Continue

\* Tickets are used as Attempts says.
LEMMA StepAttempts ==
  ASSUME IInv, [Next]_vars
  PROVE  Attempts'
<1> USE NoneAssumption, SizesAssumption, InitialAssumption
    DEF IInv, TypeOK, Mutex, Goto, budgetVars, localVars, ledgerVars,
        attemptVars, reapVars, Attempts, Holding, Critical, Reaping,
        Releasing, Ticket, Unacquired
<1>1. ASSUME NEW p \in Procs, NEW t \in Tickets, NEW n \in Sizes, Alloc(p, t, n)
     PROVE  Attempts'
  BY <1>1, SMTT(20) DEF Alloc, BeginAttempt
<1>2. ASSUME NEW p \in Procs, NEW t \in Tickets, NEW n \in Sizes, TokenAlloc(p, t, n)
     PROVE  Attempts'
  BY <1>2, SMTT(20) DEF TokenAlloc, BeginAttempt, TokenCovers
<1>3. ASSUME NEW p \in Procs, NEW n \in Sizes, ReserveBytes(p, n) PROVE Attempts'
  BY <1>3, SMTT(20) DEF ReserveBytes
<1>4. ASSUME NEW p \in Procs, DropToken(p) PROVE Attempts'
  BY <1>4, SMTT(20) DEF DropToken
<1>5. ASSUME NEW p \in Procs, NEW t \in Tickets, Deallocate(p, t) PROVE Attempts'
  BY <1>5, SMTT(20) DEF Deallocate
<1>6. ASSUME NEW p \in Procs, NEW t \in Tickets, ReleaseCold(p, t) PROVE Attempts'
  BY <1>6, SMTT(20) DEF ReleaseCold
<1>7. ASSUME NEW p \in Procs, Reap(p) PROVE Attempts'
  BY <1>7, SMTT(20) DEF Reap
<1>8. ASSUME NEW p \in Procs, ReserveLocal(p) PROVE Attempts'
  BY <1>8, SMTT(20) DEF ReserveLocal
<1>9. ASSUME NEW p \in Procs, DropPromise(p) PROVE Attempts'
  BY <1>9, SMTT(20) DEF DropPromise
<1>10. ASSUME NEW p \in Procs, Enqueue(p) PROVE Attempts'
  BY <1>10, SMTT(20) DEF Enqueue
<1>11. ASSUME NEW p \in Procs, Lock(p) PROVE Attempts'
  BY <1>11, SMTT(20) DEF Lock, PressureAfter
<1>12. ASSUME NEW p \in Procs, Admit(p) PROVE Attempts'
  BY <1>12, SMTT(20) DEF Admit, Fits
<1>13. ASSUME NEW p \in Procs, Readmit(p) PROVE Attempts'
  BY <1>13, SMTT(20) DEF Readmit, Fits
<1>14. ASSUME NEW p \in Procs, Malloc(p) PROVE Attempts'
  BY <1>14, SMTT(20) DEF Malloc
<1>15. ASSUME NEW p \in Procs, MallocRefused(p) PROVE Attempts'
  BY <1>15, SMTT(20) DEF MallocRefused
<1>16. ASSUME NEW p \in Procs, Publish(p) PROVE Attempts'
  BY <1>16, SMTT(20) DEF Publish
<1>17. ASSUME NEW p \in Procs, Initialize(p) PROVE Attempts'
  BY <1>17, SMTT(20) DEF Initialize
<1>18. ASSUME NEW p \in Procs, RefundBudget(p) PROVE Attempts'
  BY <1>18, SMTT(20) DEF RefundBudget
<1>19. ASSUME NEW p \in Procs, Unlock(p) PROVE Attempts'
  BY <1>19, SMTT(20) DEF Unlock
<1>20. ASSUME NEW p \in Procs, UnwindLocal(p) PROVE Attempts'
  <2>1. CASE Unacquired(p)
    <3>1. \A t \in Tickets \ {cur[p]} : ticket'[t] = ticket[t]
      BY <1>20, <2>1 DEF UnwindLocal
    <3>2. /\ cur[p] \in Tickets
          /\ ticket'[cur[p]].bytes = ticket[cur[p]].bytes
          /\ ticket'[cur[p]].acquired = ticket[cur[p]].acquired
          /\ ticket'[cur[p]].stage = "refused"
          /\ ticket[cur[p]].stage # "unused"
      BY <1>20, <2>1 DEF UnwindLocal
    <3>3. \A t \in Tickets : /\ ticket'[t].bytes = ticket[t].bytes
                             /\ ticket'[t].acquired = ticket[t].acquired
                             /\ ticket'[t].stage = "unused" <=> ticket[t].stage = "unused"
      BY <3>1, <3>2
    <3>4. /\ cur'[p] = None /\ pc'[p] = "idle" /\ UNCHANGED <<rel, batch>>
          /\ \A q \in Procs \ {p} : cur'[q] = cur[q] /\ pc'[q] = pc[q]
      BY <1>20 DEF UnwindLocal
    <3>5. \A t \in Tickets : IF ticket'[t].stage = "unused" THEN ~ticket'[t].acquired
                             ELSE ticket'[t].bytes \in Sizes \cup {InitialUsed}
      BY <3>3
    <3>6. \A q \in Procs :
         /\ cur'[q] # None => /\ ticket'[cur'[q]].stage # "unused"
                              /\ ticket'[cur'[q]].bytes \in Sizes
         /\ rel'[q] # None => ticket'[rel'[q]].stage # "unused"
         /\ \A t \in batch'[q] : ticket'[t].stage # "unused"
         /\ cur'[q] # None /\ pc'[q] \in {"lock", "admit", "readmit", "malloc"} \cup Reaping
              => ~ticket'[cur'[q]].acquired
         /\ pc'[q] \in {"publish", "init"} => ticket'[cur'[q]].acquired
      BY <3>3, <3>4, SMTT(20)
    <3> QED BY <3>4, <3>5, <3>6
  <2>2. CASE ~Unacquired(p)
    BY <1>20, <2>2, SMTT(20) DEF UnwindLocal
  <2> QED BY <2>1, <2>2
<1>21. ASSUME NEW p \in Procs, TakeBatch(p) PROVE Attempts'
  BY <1>21, SMTT(20) DEF TakeBatch, TakePending
<1>22. ASSUME NEW p \in Procs, ReapDone(p) PROVE Attempts'
  BY <1>22, SMTT(20) DEF ReapDone, AfterReap
<1>23. ASSUME NEW p \in Procs, NEW t \in Tickets, ReleaseNext(p, t) PROVE Attempts'
  BY <1>23, SMTT(20) DEF ReleaseNext
<1>24. ASSUME NEW p \in Procs, Free(p) PROVE Attempts'
  BY <1>24, SMTT(20) DEF Free
<1>25. ASSUME NEW p \in Procs, FreeFails(p) PROVE Attempts'
  BY <1>25, SMTT(20) DEF FreeFails, AfterReap, Unfinished
<1>26. ASSUME NEW p \in Procs, SettleLocal(p) PROVE Attempts'
  BY <1>26, SMTT(20) DEF SettleLocal
<1>27. ASSUME NEW p \in Procs, SettleLedger(p) PROVE Attempts'
  BY <1>27, SMTT(20) DEF SettleLedger
<1>28. CASE UNCHANGED vars
  BY <1>28 DEF vars
<1> QED
  BY <1>1, <1>2, <1>3, <1>4, <1>5, <1>6, <1>7, <1>8, <1>9, <1>10, <1>11,
     <1>12, <1>13, <1>14, <1>15, <1>16, <1>17, <1>18, <1>19, <1>20, <1>21,
     <1>22, <1>23, <1>24, <1>25, <1>26, <1>27, <1>28
  DEF Next, Request, Continue

\* The halves of a reservation keep agreeing.
LEMMA StepReservations ==
  ASSUME IInv, [Next]_vars
  PROVE  Reservations'
<1> USE NoneAssumption, SizesAssumption
    DEF IInv, TypeOK, Mutex, Goto, budgetVars, localVars, ledgerVars,
        attemptVars, reapVars, Attempts, Reservations, Lent, Bytes,
        Unacquired, Holding, Critical, Reaping, Releasing, Ticket, Token
<1>1. ASSUME NEW p \in Procs, NEW t \in Tickets, NEW n \in Sizes, Alloc(p, t, n)
     PROVE  Reservations'
  BY <1>1, SMTT(20) DEF Alloc, BeginAttempt
<1>2. ASSUME NEW p \in Procs, NEW t \in Tickets, NEW n \in Sizes, TokenAlloc(p, t, n)
     PROVE  Reservations'
  BY <1>2, SMTT(20) DEF TokenAlloc, BeginAttempt, TokenCovers
<1>3. ASSUME NEW p \in Procs, NEW n \in Sizes, ReserveBytes(p, n) PROVE Reservations'
  BY <1>3, SMTT(20) DEF ReserveBytes
<1>4. ASSUME NEW p \in Procs, DropToken(p) PROVE Reservations'
  BY <1>4, SMTT(20) DEF DropToken
<1>5. ASSUME NEW p \in Procs, NEW t \in Tickets, Deallocate(p, t) PROVE Reservations'
  BY <1>5, SMTT(20) DEF Deallocate
<1>6. ASSUME NEW p \in Procs, NEW t \in Tickets, ReleaseCold(p, t) PROVE Reservations'
  BY <1>6, SMTT(20) DEF ReleaseCold
<1>7. ASSUME NEW p \in Procs, Reap(p) PROVE Reservations'
  BY <1>7, SMTT(20) DEF Reap
<1>8. ASSUME NEW p \in Procs, ReserveLocal(p) PROVE Reservations'
  BY <1>8, SMTT(20) DEF ReserveLocal
<1>9. ASSUME NEW p \in Procs, DropPromise(p) PROVE Reservations'
  BY <1>9, SMTT(20) DEF DropPromise
<1>10. ASSUME NEW p \in Procs, Enqueue(p) PROVE Reservations'
  BY <1>10, SMTT(20) DEF Enqueue
<1>11. ASSUME NEW p \in Procs, Lock(p) PROVE Reservations'
  BY <1>11, SMTT(20) DEF Lock, PressureAfter
<1>12. ASSUME NEW p \in Procs, Admit(p) PROVE Reservations'
  BY <1>12, SMTT(20) DEF Admit, Fits
<1>13. ASSUME NEW p \in Procs, Readmit(p) PROVE Reservations'
  BY <1>13, SMTT(20) DEF Readmit, Fits
<1>14. ASSUME NEW p \in Procs, Malloc(p) PROVE Reservations'
  BY <1>14, SMTT(20) DEF Malloc
<1>15. ASSUME NEW p \in Procs, MallocRefused(p) PROVE Reservations'
  BY <1>15, SMTT(20) DEF MallocRefused
<1>16. ASSUME NEW p \in Procs, Publish(p) PROVE Reservations'
  BY <1>16, SMTT(20) DEF Publish
<1>17. ASSUME NEW p \in Procs, Initialize(p) PROVE Reservations'
  BY <1>17, SMTT(20) DEF Initialize
<1>18. ASSUME NEW p \in Procs, RefundBudget(p) PROVE Reservations'
  BY <1>18, SMTT(20) DEF RefundBudget
<1>19. ASSUME NEW p \in Procs, Unlock(p) PROVE Reservations'
  BY <1>19, SMTT(20) DEF Unlock
<1>20. ASSUME NEW p \in Procs, UnwindLocal(p) PROVE Reservations'
  <2>1. CASE Unacquired(p) /\ fromToken[p]
    <3>1. token[p].runtime = token[p].local + Bytes(p)
      BY <1>20, <2>1 DEF UnwindLocal
    <3>2. token' = [token EXCEPT ![p].local = @ + Bytes(p)]
      BY <1>20, <2>1 DEF UnwindLocal
    <3>3. \A q \in Procs \ {p} : cur[q] # None => Bytes(q)' = Bytes(q) /\ Unacquired(q)' = Unacquired(q)
      BY <1>20, <2>1, SMTT(20) DEF UnwindLocal
    <3> QED BY <1>20, <2>1, <3>1, <3>2, <3>3, SMTT(20) DEF UnwindLocal
  <2>2. CASE Unacquired(p) /\ ~fromToken[p]
    <3>1. token' = token
      BY <1>20, <2>2 DEF UnwindLocal
    <3>3. \A q \in Procs \ {p} : cur[q] # None => Bytes(q)' = Bytes(q) /\ Unacquired(q)' = Unacquired(q)
      BY <1>20, <2>2, SMTT(20) DEF UnwindLocal
    <3> QED BY <1>20, <2>2, <3>1, <3>3, SMTT(20) DEF UnwindLocal
  <2>3. CASE ~Unacquired(p)
    BY <1>20, <2>3, SMTT(20) DEF UnwindLocal
  <2> QED BY <2>1, <2>2, <2>3
<1>21. ASSUME NEW p \in Procs, TakeBatch(p) PROVE Reservations'
  BY <1>21, SMTT(20) DEF TakeBatch, TakePending
<1>22. ASSUME NEW p \in Procs, ReapDone(p) PROVE Reservations'
  BY <1>22, SMTT(20) DEF ReapDone, AfterReap
<1>23. ASSUME NEW p \in Procs, NEW t \in Tickets, ReleaseNext(p, t) PROVE Reservations'
  BY <1>23, SMTT(20) DEF ReleaseNext
<1>24. ASSUME NEW p \in Procs, Free(p) PROVE Reservations'
  BY <1>24, SMTT(20) DEF Free
<1>25. ASSUME NEW p \in Procs, FreeFails(p) PROVE Reservations'
  BY <1>25, SMTT(20) DEF FreeFails, AfterReap, Unfinished
<1>26. ASSUME NEW p \in Procs, SettleLocal(p) PROVE Reservations'
  BY <1>26, SMTT(20) DEF SettleLocal
<1>27. ASSUME NEW p \in Procs, SettleLedger(p) PROVE Reservations'
  BY <1>27, SMTT(20) DEF SettleLedger
<1>28. CASE UNCHANGED vars
  BY <1>28 DEF vars
<1> QED
  BY <1>1, <1>2, <1>3, <1>4, <1>5, <1>6, <1>7, <1>8, <1>9, <1>10, <1>11,
     <1>12, <1>13, <1>14, <1>15, <1>16, <1>17, <1>18, <1>19, <1>20, <1>21,
     <1>22, <1>23, <1>24, <1>25, <1>26, <1>27, <1>28
  DEF Next, Request, Continue

\* No step breaks the limit.
LEMMA StepLimits ==
  ASSUME IInv, [Next]_vars
  PROVE  Limits'
<1> USE NoneAssumption, SizesAssumption, InitialAssumption, LimitAssumption
    DEF IInv, TypeOK, Mutex, Goto, budgetVars, localVars, ledgerVars,
        attemptVars, reapVars, Attempts, Reservations, Lent, Limits,
        Inflight, Limbo, InLimbo, Reserved, Bytes, Unacquired, Holding,
        Critical, Reaping, Releasing, Ticket, Token
<1>1. ASSUME NEW p \in Procs, NEW t \in Tickets, NEW n \in Sizes, Alloc(p, t, n)
     PROVE  Limits'
  BY <1>1, SMTT(20) DEF Alloc, BeginAttempt
<1>2. ASSUME NEW p \in Procs, NEW t \in Tickets, NEW n \in Sizes, TokenAlloc(p, t, n)
     PROVE  Limits'
  BY <1>2, SMTT(20) DEF TokenAlloc, BeginAttempt, TokenCovers
<1>3. ASSUME NEW p \in Procs, NEW n \in Sizes, ReserveBytes(p, n) PROVE Limits'
  BY <1>3, SMTT(20) DEF ReserveBytes
<1>4. ASSUME NEW p \in Procs, DropToken(p) PROVE Limits'
  BY <1>4, SMTT(20) DEF DropToken
<1>5. ASSUME NEW p \in Procs, NEW t \in Tickets, Deallocate(p, t) PROVE Limits'
  BY <1>5, SMTT(20) DEF Deallocate
<1>6. ASSUME NEW p \in Procs, NEW t \in Tickets, ReleaseCold(p, t) PROVE Limits'
  BY <1>6, SMTT(20) DEF ReleaseCold
<1>7. ASSUME NEW p \in Procs, Reap(p) PROVE Limits'
  BY <1>7, SMTT(20) DEF Reap
<1>8. ASSUME NEW p \in Procs, ReserveLocal(p) PROVE Limits'
  BY <1>8, SMTT(20) DEF ReserveLocal
<1>9. ASSUME NEW p \in Procs, DropPromise(p) PROVE Limits'
  BY <1>9, SMTT(20) DEF DropPromise
<1>10. ASSUME NEW p \in Procs, Enqueue(p) PROVE Limits'
  BY <1>10, SMTT(20) DEF Enqueue
<1>11. ASSUME NEW p \in Procs, Lock(p) PROVE Limits'
  BY <1>11, SMTT(20) DEF Lock, PressureAfter
<1>12. ASSUME NEW p \in Procs, Admit(p) PROVE Limits'
  BY <1>12, SMTT(20) DEF Admit, Fits
<1>13. ASSUME NEW p \in Procs, Readmit(p) PROVE Limits'
  BY <1>13, SMTT(20) DEF Readmit, Fits
<1>14. ASSUME NEW p \in Procs, Malloc(p) PROVE Limits'
  BY <1>14, SMTT(20) DEF Malloc
<1>15. ASSUME NEW p \in Procs, MallocRefused(p) PROVE Limits'
  BY <1>15, SMTT(20) DEF MallocRefused
<1>16. ASSUME NEW p \in Procs, Publish(p) PROVE Limits'
  BY <1>16, SMTT(20) DEF Publish
<1>17. ASSUME NEW p \in Procs, Initialize(p) PROVE Limits'
  BY <1>17, SMTT(20) DEF Initialize
<1>18. ASSUME NEW p \in Procs, RefundBudget(p) PROVE Limits'
  <2>0. /\ Reserved = outstanding + Inflight
        /\ Reserved + promised + Limbo <= Limit
        /\ promiseLock # None => pressure[promiseLock] = promised
        /\ {outstanding, promised, admittedTotal, totalReclaimed} \subseteq Nat
    OBVIOUS
  <2>1. promiseLock = p /\ cur[p] \in Tickets /\ Bytes(p) \in Nat
    BY <1>18 DEF RefundBudget
  <2>2. CASE Unacquired(p)
    <3>1. Inflight = Bytes(p) /\ Inflight' = 0
      BY <1>18, <2>1, <2>2 DEF RefundBudget
    <3>2. Limbo = 0 /\ Limbo' \in {0, Bytes(p)}
      BY <1>18, <2>1, <2>2 DEF RefundBudget
    <3>3. /\ admittedTotal' = admittedTotal - Bytes(p)
          /\ UNCHANGED <<outstanding, totalReclaimed, promised, promiseLock, pressure>>
      BY <1>18, <2>2 DEF RefundBudget
    <3> HIDE DEF Inflight, Limbo, Bytes, IInv
    <3> QED BY <2>0, <2>1, <3>1, <3>2, <3>3
  <2>3. CASE ~Unacquired(p)
    <3>1. Inflight = 0 /\ Inflight' = 0
      BY <1>18, <2>1, <2>3 DEF RefundBudget
    <3>2. Limbo = 0 /\ Limbo' = 0
      BY <1>18, <2>1, <2>3 DEF RefundBudget
    <3> QED BY <1>18, <2>1, <2>3, <3>1, <3>2 DEF RefundBudget
  <2> QED BY <2>2, <2>3
<1>19. ASSUME NEW p \in Procs, Unlock(p) PROVE Limits'
  BY <1>19, SMTT(20) DEF Unlock
<1>20. ASSUME NEW p \in Procs, UnwindLocal(p) PROVE Limits'
  BY <1>20, SMTT(20) DEF UnwindLocal
<1>21. ASSUME NEW p \in Procs, TakeBatch(p) PROVE Limits'
  BY <1>21, SMTT(20) DEF TakeBatch, TakePending
<1>22. ASSUME NEW p \in Procs, ReapDone(p) PROVE Limits'
  BY <1>22, SMTT(20) DEF ReapDone, AfterReap
<1>23. ASSUME NEW p \in Procs, NEW t \in Tickets, ReleaseNext(p, t) PROVE Limits'
  BY <1>23, SMTT(20) DEF ReleaseNext
<1>24. ASSUME NEW p \in Procs, Free(p) PROVE Limits'
  BY <1>24, SMTT(20) DEF Free
<1>25. ASSUME NEW p \in Procs, FreeFails(p) PROVE Limits'
  BY <1>25, SMTT(20) DEF FreeFails, AfterReap, Unfinished
<1>26. ASSUME NEW p \in Procs, SettleLocal(p) PROVE Limits'
  BY <1>26, SMTT(20) DEF SettleLocal
<1>27. ASSUME NEW p \in Procs, SettleLedger(p) PROVE Limits'
  <2>0. /\ Reserved = outstanding + Inflight
        /\ Reserved + promised + Limbo <= Limit
        /\ promiseLock # None => pressure[promiseLock] = promised
        /\ {outstanding, promised, admittedTotal, totalReclaimed} \subseteq Nat
    OBVIOUS
  <2>1. rel[p] \in Tickets /\ ticket[rel[p]].bytes \in Nat
    BY <1>27 DEF SettleLedger
  <2>2. \A t \in Tickets : /\ ticket'[t].bytes = ticket[t].bytes
                           /\ ticket'[t].acquired = ticket[t].acquired
    BY <1>27, <2>1, SMTT(20) DEF SettleLedger
  <2>3. promiseLock # None => promiseLock \in Procs /\ cur[promiseLock] \in Tickets
    OBVIOUS
  <2>4. Inflight' = Inflight /\ Limbo' = Limbo /\ Inflight \in Nat /\ Limbo \in Nat
    BY <1>27, <2>2, <2>3 DEF SettleLedger
  <2>5. /\ outstanding' = outstanding - ticket[rel[p]].bytes
        /\ totalReclaimed' = totalReclaimed + ticket[rel[p]].bytes
        /\ UNCHANGED <<admittedTotal, promised, promiseLock, pressure>>
    BY <1>27 DEF SettleLedger
  <2> HIDE DEF Inflight, Limbo, IInv
  <2> QED BY <2>0, <2>1, <2>3, <2>4, <2>5
<1>28. CASE UNCHANGED vars
  BY <1>28 DEF vars
<1> QED
  BY <1>1, <1>2, <1>3, <1>4, <1>5, <1>6, <1>7, <1>8, <1>9, <1>10, <1>11,
     <1>12, <1>13, <1>14, <1>15, <1>16, <1>17, <1>18, <1>19, <1>20, <1>21,
     <1>22, <1>23, <1>24, <1>25, <1>26, <1>27, <1>28
  DEF Next, Request, Continue

\* The first state satisfies the invariant; the backend may hold a block already.
LEMMA InitIInv == Init => IInv
<1> SUFFICES ASSUME Init PROVE IInv
  OBVIOUS
<1> USE NoneAssumption, InitialAssumption, LimitAssumption DEF Init
<1>1. TypeOK
  BY DEF TypeOK, Ticket, Stages, Token, NoToken, PCs
<1>2. Mutex
  BY DEF Mutex, Holding, Critical, Reaping, Releasing
<1>3. Attempts
  BY DEF Attempts
<1>4. Reservations
  BY DEF Reservations, Lent, NoToken
<1>5. Limits
  BY DEF Limits, Reserved, Inflight, Limbo
<1> QED BY <1>1, <1>2, <1>3, <1>4, <1>5 DEF IInv

\* The inductive invariant holds in every state of every behaviour.
THEOREM Invariant == Spec => []IInv
<1>1. IInv /\ [Next]_vars => IInv'
  BY StepTypeOK, StepMutex, StepAttempts, StepReservations, StepLimits DEF IInv
<1> QED BY <1>1, InitIInv, PTL DEF Spec

\* Types, for every number of threads, tickets and sizes; with it, that no
\* subtraction of the accounting code goes below zero.
THEOREM TypeCorrect == Spec => []TypeOK
<1>1. IInv => TypeOK
  BY DEF IInv
<1> QED BY <1>1, Invariant, PTL

\* The bytes a budget has admitted and the bytes the runtime has promised never
\* exceed the limit (GlobalDeviceBudget::allocate_with_pressure).
THEOREM WithinLimit == Spec => []ClaimsWithinLimit
<1>1. IInv => ClaimsWithinLimit
  <2> SUFFICES ASSUME IInv PROVE ClaimsWithinLimit
    OBVIOUS
  <2>1. Limbo \in Nat
    BY NoneAssumption DEF IInv, TypeOK, Mutex, Holding, Limbo, Bytes, Ticket
  <2>2. {promised, admittedTotal, totalReclaimed} \subseteq Nat
    BY DEF IInv, TypeOK
  <2> QED BY <2>1, <2>2, InitialAssumption, LimitAssumption
    DEF IInv, Limits, ClaimsWithinLimit, Reserved
<1> QED BY <1>1, Invariant, PTL

\* A request that spends a reservation is admitted without a reap
\* (RuntimeMemoryReservation::materialize).
THEOREM Honoured == Spec => []ReservationHonoured
<1>1. IInv => ReservationHonoured
  <2> SUFFICES ASSUME IInv, NEW p \in Procs, pc[p] = "admit", fromToken[p]
               PROVE  Fits(p)
    BY DEF ReservationHonoured
  <2>1. promiseLock = p /\ cur[p] \in Tickets
    BY NoneAssumption DEF IInv, TypeOK, Mutex, Holding, Critical
  <2>2. Limbo = Bytes(p) /\ pressure[p] = promised /\ Bytes(p) \in Nat
    BY <2>1, NoneAssumption DEF IInv, TypeOK, Limits, Limbo, InLimbo, Bytes, Ticket
  <2>3. {promised, admittedTotal, totalReclaimed} \subseteq Nat
    BY DEF IInv, TypeOK
  <2> QED BY <2>2, <2>3, InitialAssumption, LimitAssumption
    DEF IInv, Limits, Reserved, Fits
<1> QED BY <1>1, Invariant, PTL

\* Admission is a use of free bytes or the redemption of a promise, a refund
\* undoes it, a settled release frees, and every other step changes no claim.
LEMMA StepClaims ==
  ASSUME IInv, [Next]_vars
  PROVE  [Claims!Next]_(Claims!claims)
<1> USE NoneAssumption, SizesAssumption, InitialAssumption, LimitAssumption
    DEF IInv, TypeOK, Mutex, Goto, budgetVars, localVars, ledgerVars,
        attemptVars, reapVars, Attempts, Reservations, Lent, Limits,
        Inflight, Limbo, InLimbo, Reserved, Bytes, Unacquired, Holding,
        Critical, Reaping, Releasing, Ticket, Token, Claims!claims
<1>1. ASSUME NEW p \in Procs, NEW t \in Tickets, NEW n \in Sizes, Alloc(p, t, n)
     PROVE  [Claims!Next]_(Claims!claims)
  BY <1>1, SMTT(20) DEF Alloc, BeginAttempt
<1>2. ASSUME NEW p \in Procs, NEW t \in Tickets, NEW n \in Sizes, TokenAlloc(p, t, n)
     PROVE  [Claims!Next]_(Claims!claims)
  BY <1>2, SMTT(20) DEF TokenAlloc, BeginAttempt, TokenCovers
<1>3. ASSUME NEW p \in Procs, NEW n \in Sizes, ReserveBytes(p, n)
     PROVE  [Claims!Next]_(Claims!claims)
  <2>1. Claims!Promise(n)
    BY <1>3 DEF ReserveBytes, Claims!Promise
  <2> QED BY <2>1 DEF Claims!Next
<1>4. ASSUME NEW p \in Procs, DropToken(p) PROVE [Claims!Next]_(Claims!claims)
  BY <1>4, SMTT(20) DEF DropToken
<1>5. ASSUME NEW p \in Procs, NEW t \in Tickets, Deallocate(p, t)
     PROVE  [Claims!Next]_(Claims!claims)
  BY <1>5, SMTT(20) DEF Deallocate
<1>6. ASSUME NEW p \in Procs, NEW t \in Tickets, ReleaseCold(p, t)
     PROVE  [Claims!Next]_(Claims!claims)
  BY <1>6, SMTT(20) DEF ReleaseCold
<1>7. ASSUME NEW p \in Procs, Reap(p) PROVE [Claims!Next]_(Claims!claims)
  BY <1>7, SMTT(20) DEF Reap
<1>8. ASSUME NEW p \in Procs, ReserveLocal(p) PROVE [Claims!Next]_(Claims!claims)
  BY <1>8, SMTT(20) DEF ReserveLocal
<1>9. ASSUME NEW p \in Procs, DropPromise(p) PROVE [Claims!Next]_(Claims!claims)
  <2> DEFINE n == token[p].runtime
  <2>1. n \in Nat /\ n <= promised /\ n \in 0 .. promised + Limbo
    BY <1>9 DEF DropPromise
  <2>2. Claims!Withdraw(n)
    BY <1>9, <2>1 DEF DropPromise, Claims!Withdraw
  <2> QED BY <2>1, <2>2 DEF Claims!Next
<1>10. ASSUME NEW p \in Procs, Enqueue(p) PROVE [Claims!Next]_(Claims!claims)
  BY <1>10, SMTT(20) DEF Enqueue
<1>11. ASSUME NEW p \in Procs, Lock(p) PROVE [Claims!Next]_(Claims!claims)
  BY <1>11, SMTT(20) DEF Lock, PressureAfter
<1>12. ASSUME NEW p \in Procs, Admit(p) PROVE [Claims!Next]_(Claims!claims)
  <2>1. promiseLock = p /\ cur[p] \in Tickets /\ Bytes(p) \in Sizes /\ Bytes(p) \in Nat
    BY <1>12 DEF Admit
  <2>2. CASE Fits(p) /\ fromToken[p]
    <3>1. Claims!Redeem(Bytes(p))
      BY <1>12, <2>1, <2>2 DEF Admit, Claims!Redeem
    <3> QED BY <2>1, <3>1 DEF Claims!Next
  <2>3. CASE Fits(p) /\ ~fromToken[p]
    <3>1. Claims!Use(Bytes(p))
      BY <1>12, <2>1, <2>3 DEF Admit, Fits, Claims!Use
    <3> QED BY <2>1, <3>1 DEF Claims!Next
  <2>4. CASE ~Fits(p)
    BY <1>12, <2>1, <2>4 DEF Admit
  <2> QED BY <2>2, <2>3, <2>4
<1>13. ASSUME NEW p \in Procs, Readmit(p) PROVE [Claims!Next]_(Claims!claims)
  <2>1. promiseLock = p /\ cur[p] \in Tickets /\ Bytes(p) \in Sizes /\ Bytes(p) \in Nat
    BY <1>13 DEF Readmit
  <2>2. CASE Fits(p) /\ fromToken[p]
    <3>1. Claims!Redeem(Bytes(p))
      BY <1>13, <2>1, <2>2 DEF Readmit, Claims!Redeem
    <3> QED BY <2>1, <3>1 DEF Claims!Next
  <2>3. CASE Fits(p) /\ ~fromToken[p]
    <3>1. Claims!Use(Bytes(p))
      BY <1>13, <2>1, <2>3 DEF Readmit, Fits, Claims!Use
    <3> QED BY <2>1, <3>1 DEF Claims!Next
  <2>4. CASE ~Fits(p)
    BY <1>13, <2>1, <2>4 DEF Readmit
  <2> QED BY <2>2, <2>3, <2>4
<1>14. ASSUME NEW p \in Procs, Malloc(p) PROVE [Claims!Next]_(Claims!claims)
  BY <1>14, SMTT(20) DEF Malloc
<1>15. ASSUME NEW p \in Procs, MallocRefused(p) PROVE [Claims!Next]_(Claims!claims)
  BY <1>15, SMTT(20) DEF MallocRefused
<1>16. ASSUME NEW p \in Procs, Publish(p) PROVE [Claims!Next]_(Claims!claims)
  BY <1>16, SMTT(20) DEF Publish
<1>17. ASSUME NEW p \in Procs, Initialize(p) PROVE [Claims!Next]_(Claims!claims)
  BY <1>17, SMTT(20) DEF Initialize
<1>18. ASSUME NEW p \in Procs, RefundBudget(p) PROVE [Claims!Next]_(Claims!claims)
  <2>1. promiseLock = p /\ cur[p] \in Tickets /\ Bytes(p) \in Sizes /\ Bytes(p) \in Nat
    BY <1>18 DEF RefundBudget
  <2>2. CASE Unacquired(p) /\ fromToken[p]
    <3>1. Claims!Restore(Bytes(p))
      BY <1>18, <2>1, <2>2 DEF RefundBudget, Claims!Restore
    <3> QED BY <2>1, <3>1 DEF Claims!Next
  <2>3. CASE Unacquired(p) /\ ~fromToken[p]
    <3>1. Claims!Free(Bytes(p))
      BY <1>18, <2>1, <2>3 DEF RefundBudget, Claims!Free
    <3> QED BY <2>1, <3>1 DEF Claims!Next
  <2>4. CASE ~Unacquired(p)
    BY <1>18, <2>1, <2>4 DEF RefundBudget
  <2> QED BY <2>2, <2>3, <2>4
<1>19. ASSUME NEW p \in Procs, Unlock(p) PROVE [Claims!Next]_(Claims!claims)
  BY <1>19, SMTT(20) DEF Unlock
<1>20. ASSUME NEW p \in Procs, UnwindLocal(p) PROVE [Claims!Next]_(Claims!claims)
  BY <1>20, SMTT(20) DEF UnwindLocal
<1>21. ASSUME NEW p \in Procs, TakeBatch(p) PROVE [Claims!Next]_(Claims!claims)
  BY <1>21, SMTT(20) DEF TakeBatch, TakePending
<1>22. ASSUME NEW p \in Procs, ReapDone(p) PROVE [Claims!Next]_(Claims!claims)
  BY <1>22, SMTT(20) DEF ReapDone, AfterReap
<1>23. ASSUME NEW p \in Procs, NEW t \in Tickets, ReleaseNext(p, t)
      PROVE  [Claims!Next]_(Claims!claims)
  BY <1>23, SMTT(20) DEF ReleaseNext
<1>24. ASSUME NEW p \in Procs, Free(p) PROVE [Claims!Next]_(Claims!claims)
  BY <1>24, SMTT(20) DEF Free
<1>25. ASSUME NEW p \in Procs, FreeFails(p) PROVE [Claims!Next]_(Claims!claims)
  BY <1>25, SMTT(20) DEF FreeFails, AfterReap, Unfinished
<1>26. ASSUME NEW p \in Procs, SettleLocal(p) PROVE [Claims!Next]_(Claims!claims)
  BY <1>26, SMTT(20) DEF SettleLocal
<1>27. ASSUME NEW p \in Procs, SettleLedger(p) PROVE [Claims!Next]_(Claims!claims)
  <2> DEFINE n == ticket[rel[p]].bytes
  <2>1. rel[p] \in Tickets /\ n \in Nat /\ n \in Sizes \cup {InitialUsed}
    BY <1>27 DEF SettleLedger
  <2>2. \A t \in Tickets : /\ ticket'[t].bytes = ticket[t].bytes
                           /\ ticket'[t].acquired = ticket[t].acquired
    BY <1>27, <2>1, SMTT(20) DEF SettleLedger
  <2>3. promiseLock # None => promiseLock \in Procs /\ cur[promiseLock] \in Tickets
    OBVIOUS
  <2>4. Limbo' = Limbo /\ Limbo \in Nat /\ Inflight \in Nat
    BY <1>27, <2>2, <2>3 DEF SettleLedger
  <2>5. Claims!Free(n)
    <3>1. /\ n <= outstanding
          /\ outstanding' = outstanding - n
          /\ totalReclaimed' = totalReclaimed + n
          /\ UNCHANGED <<admittedTotal, promised>>
      BY <1>27 DEF SettleLedger
    <3>2. Reserved = outstanding + Inflight
      OBVIOUS
    <3> HIDE DEF Limbo, Inflight
    <3> QED BY <2>1, <2>4, <3>1, <3>2 DEF Claims!Free
  <2> QED BY <2>1, <2>5 DEF Claims!Next
<1>28. CASE UNCHANGED vars
  BY <1>28 DEF vars
<1> QED
  BY <1>1, <1>2, <1>3, <1>4, <1>5, <1>6, <1>7, <1>8, <1>9, <1>10, <1>11,
     <1>12, <1>13, <1>14, <1>15, <1>16, <1>17, <1>18, <1>19, <1>20, <1>21,
     <1>22, <1>23, <1>24, <1>25, <1>26, <1>27, <1>28
  DEF Next, Request, Continue

\* The memory stack implements MemoryClaims: whatever the threads do, a byte is
\* free, promised to one holder or used, and moves only as the callers are told.
THEOREM Implements == Spec => ClaimsSpec
<1>1. Init => Claims!Init
  BY InitialAssumption DEF Init, Claims!Init, Reserved, Limbo
<1> QED BY <1>1, StepClaims, Invariant, PTL DEF Spec, ClaimsSpec, Claims!Spec

-----------------------------------------------------------------------------
(* Sums of sizes.                                                          *)

\* The units of one element: as many as its value says.
LEMMA UnitsOfOne ==
  ASSUME NEW x, NEW n \in Nat
  PROVE  IsFiniteSet({x} \X (1 .. n)) /\ Cardinality({x} \X (1 .. n)) = n
<1>1. IsFiniteSet(1 .. n) /\ Cardinality(1 .. n) = n
  BY FS_Interval
<1>2. IsFiniteSet({x}) /\ Cardinality({x}) = 1
  BY FS_Singleton
<1> QED BY <1>1, <1>2, FS_Product

\* A sum over one more element.
LEMMA SumAdd ==
  ASSUME NEW f, NEW S, NEW x, x \notin S, f[x] \in Nat, IsFiniteSet(Units(f, S))
  PROVE  /\ IsFiniteSet(Units(f, S \cup {x}))
         /\ SumOver(f, S \cup {x}) = SumOver(f, S) + f[x]
<1> DEFINE X == {x} \X (1 .. f[x])
<1>1. IsFiniteSet(X) /\ Cardinality(X) = f[x]
  BY UnitsOfOne
<1>2. Units(f, S \cup {x}) = Units(f, S) \cup X
  BY DEF Units
<1>3. Units(f, S) \cap X = {}
  BY DEF Units
<1> HIDE DEF X
<1>4. Cardinality(Units(f, S)) \in Nat
  BY FS_CardinalityType
<1>5. /\ IsFiniteSet(Units(f, S) \cup X)
      /\ Cardinality(Units(f, S) \cup X)
           = Cardinality(Units(f, S)) + Cardinality(X) - Cardinality(Units(f, S) \cap X)
  BY <1>1, FS_Union
<1>6. Cardinality(Units(f, S) \cap X) = 0
  BY <1>3, FS_EmptySet
<1>7. Cardinality(Units(f, S) \cup X) = Cardinality(Units(f, S)) + f[x]
  BY <1>1, <1>4, <1>5, <1>6
<1> QED BY <1>2, <1>5, <1>7 DEF SumOver

\* Smaller sets have smaller sums.
LEMMA SumPart ==
  ASSUME NEW f, NEW S, NEW T, T \subseteq S, IsFiniteSet(Units(f, S))
  PROVE  /\ IsFiniteSet(Units(f, T)) /\ SumOver(f, T) \in Nat
         /\ SumOver(f, T) <= SumOver(f, S)
<1>1. Units(f, T) \subseteq Units(f, S)
  BY DEF Units
<1>2. IsFiniteSet(Units(f, T)) /\ Cardinality(Units(f, T)) <= Cardinality(Units(f, S))
  BY <1>1, FS_Subset
<1> QED BY <1>2, FS_CardinalityType DEF SumOver

\* A sum over one element less.
LEMMA SumDrop ==
  ASSUME NEW f, NEW S, NEW x \in S, f[x] \in Nat, IsFiniteSet(Units(f, S))
  PROVE  /\ SumOver(f, S \ {x}) = SumOver(f, S) - f[x]
         /\ f[x] <= SumOver(f, S)
<1>1. IsFiniteSet(Units(f, S \ {x})) /\ SumOver(f, S \ {x}) \in Nat
  BY SumPart
<1>2. SumOver(f, (S \ {x}) \cup {x}) = SumOver(f, S \ {x}) + f[x]
  BY <1>1, SumAdd
<1>3. SumOver(f, S) = SumOver(f, S \ {x}) + f[x]
  <2>1. (S \ {x}) \cup {x} = S
    OBVIOUS
  <2> QED BY <1>2, <2>1
<1> QED BY <1>1, <1>3

\* A sum depends on the values of its elements only.
LEMMA SumSame ==
  ASSUME NEW f, NEW g, NEW S, \A x \in S : f[x] = g[x]
  PROVE  Units(f, S) = Units(g, S) /\ SumOver(f, S) = SumOver(g, S)
<1>1. Units(f, S) = Units(g, S)
  <2>1. \A x \in S : {x} \X (1 .. f[x]) = {x} \X (1 .. g[x])
    OBVIOUS
  <2> QED BY <2>1 DEF Units
<1> QED BY <1>1 DEF SumOver

\* One value changes.
LEMMA SumMoved ==
  ASSUME NEW f, NEW g, NEW S, NEW x \in S, f[x] \in Nat, g[x] \in Nat,
         \A y \in S \ {x} : f[y] = g[y], IsFiniteSet(Units(f, S))
  PROVE  /\ IsFiniteSet(Units(g, S))
         /\ SumOver(g, S) = SumOver(f, S) - f[x] + g[x]
<1>1. SumOver(f, S \ {x}) = SumOver(f, S) - f[x] /\ IsFiniteSet(Units(f, S \ {x}))
  BY SumDrop, SumPart
<1>2. Units(f, S \ {x}) = Units(g, S \ {x}) /\ SumOver(f, S \ {x}) = SumOver(g, S \ {x})
  BY SumSame
<1>3. /\ IsFiniteSet(Units(g, (S \ {x}) \cup {x}))
      /\ SumOver(g, (S \ {x}) \cup {x}) = SumOver(g, S \ {x}) + g[x]
  BY <1>1, <1>2, SumAdd
<1>4. (S \ {x}) \cup {x} = S
  OBVIOUS
<1>5. IsFiniteSet(Units(g, S)) /\ SumOver(g, S) = SumOver(g, S \ {x}) + g[x]
  BY <1>3, <1>4
<1> QED BY <1>1, <1>2, <1>5

\* Nothing sums to nothing.
LEMMA SumNone ==
  ASSUME NEW f, NEW S, \A x \in S : f[x] = 0
  PROVE  Units(f, S) = {} /\ IsFiniteSet(Units(f, S)) /\ SumOver(f, S) = 0
<1>1. \A x \in S : {x} \X (1 .. f[x]) = {}
  OBVIOUS
<1>2. Units(f, S) = {}
  BY <1>1 DEF Units
<1> QED BY <1>2, FS_EmptySet DEF SumOver

-----------------------------------------------------------------------------
(* The accounts.                                                           *)

\* Every action leaves its ticket in a state that fits its stage.
LEMMA StagedStep ==
  ASSUME IInv, Staged, Trying, Owners, [Next]_vars
  PROVE  Staged'
<1> USE DEF IInv, TypeOK, Ticket, Goto, Mutex, Attempts, Staged, Trying, Owners, InHands, Bytes,
          Unacquired, Critical, Reaping, Releasing, budgetVars, localVars, ledgerVars,
          attemptVars, reapVars
<1>1. ASSUME NEW p \in Procs, NEW t \in Tickets, NEW n \in Sizes, Alloc(p, t, n) PROVE Staged'
  BY <1>1, NoneAssumption DEF Alloc, BeginAttempt
<1>2. ASSUME NEW p \in Procs, NEW t \in Tickets, NEW n \in Sizes, TokenAlloc(p, t, n) PROVE Staged'
  BY <1>2, NoneAssumption DEF TokenAlloc, BeginAttempt, TokenCovers
<1>3. ASSUME NEW p \in Procs, NEW n \in Sizes, ReserveBytes(p, n) PROVE Staged'
  BY <1>3, NoneAssumption DEF ReserveBytes
<1>4. ASSUME NEW p \in Procs, DropToken(p) PROVE Staged'
  BY <1>4, NoneAssumption DEF DropToken
<1>5. ASSUME NEW p \in Procs, NEW t \in Tickets, Deallocate(p, t) PROVE Staged'
  BY <1>5, NoneAssumption DEF Deallocate
<1>6. ASSUME NEW p \in Procs, NEW t \in Tickets, ReleaseCold(p, t) PROVE Staged'
  BY <1>6, NoneAssumption DEF ReleaseCold
<1>7. ASSUME NEW p \in Procs, Reap(p) PROVE Staged'
  BY <1>7, NoneAssumption DEF Reap
<1>8. ASSUME NEW p \in Procs, ReserveLocal(p) PROVE Staged'
  BY <1>8, NoneAssumption DEF ReserveLocal
<1>9. ASSUME NEW p \in Procs, DropPromise(p) PROVE Staged'
  BY <1>9, NoneAssumption DEF DropPromise
<1>10. ASSUME NEW p \in Procs, Enqueue(p) PROVE Staged'
  BY <1>10, NoneAssumption DEF Enqueue
<1>11. ASSUME NEW p \in Procs, Lock(p) PROVE Staged'
  BY <1>11, NoneAssumption DEF Lock, PressureAfter
<1>12. ASSUME NEW p \in Procs, Admit(p) PROVE Staged'
  BY <1>12, NoneAssumption DEF Admit
<1>13. ASSUME NEW p \in Procs, Readmit(p) PROVE Staged'
  BY <1>13, NoneAssumption DEF Readmit
<1>14. ASSUME NEW p \in Procs, Malloc(p) PROVE Staged'
  BY <1>14, NoneAssumption DEF Malloc
<1>15. ASSUME NEW p \in Procs, MallocRefused(p) PROVE Staged'
  BY <1>15, NoneAssumption DEF MallocRefused
<1>16. ASSUME NEW p \in Procs, Publish(p) PROVE Staged'
  BY <1>16, NoneAssumption DEF Publish
<1>17. ASSUME NEW p \in Procs, Initialize(p) PROVE Staged'
  <2>1. PICK s \in {"live", "cold"} : ticket' = [ticket EXCEPT ![cur[p]].stage = s]
    BY <1>17 DEF Initialize
  <2>2. cur[p] \in Tickets /\ pc[p] = "init" /\ cur' = cur
    BY <1>17, NoneAssumption DEF Initialize
  <2>3. ticket[cur[p]].stage = "attempt" /\ ticket[cur[p]].acquired
    BY <2>2, NoneAssumption
  <2>4. /\ \A t \in Tickets \ {cur[p]} : ticket'[t] = ticket[t]
        /\ ticket'[cur[p]] = [ticket[cur[p]] EXCEPT !.stage = s]
    BY <2>1, <2>2
  <2>5. /\ ticket'[cur[p]].stage \in {"live", "cold"} /\ ticket'[cur[p]].acquired
        /\ ticket'[cur[p]].phys /\ ~ticket'[cur[p]].pend
    BY <2>2, <2>3, <2>4
  <2> QED BY <2>2, <2>4, <2>5
<1>18. ASSUME NEW p \in Procs, RefundBudget(p) PROVE Staged'
  BY <1>18, NoneAssumption DEF RefundBudget
<1>19. ASSUME NEW p \in Procs, Unlock(p) PROVE Staged'
  BY <1>19, NoneAssumption DEF Unlock
<1>20. ASSUME NEW p \in Procs, UnwindLocal(p) PROVE Staged'
  <2>1. cur[p] \in Tickets /\ cur' = [cur EXCEPT ![p] = None] /\ pc[p] = "unwindLocal"
    BY <1>20, NoneAssumption DEF UnwindLocal
  <2>2. CASE Unacquired(p)
    <3>1. ticket' = [ticket EXCEPT ![cur[p]].stage = "refused", ![cur[p]].charge = FALSE]
      BY <1>20, <2>2 DEF UnwindLocal
    <3>2. ticket[cur[p]].stage = "attempt"
      BY <2>1, <2>2, NoneAssumption
    <3> QED BY <2>1, <2>2, <3>1, <3>2
  <2>3. CASE ~Unacquired(p)
    <3>1. ticket' = ticket
      BY <1>20, <2>3 DEF UnwindLocal
    <3>2. ticket[cur[p]].stage # "attempt"
      BY <2>1, <2>3, NoneAssumption
    <3> QED BY <2>1, <3>1, <3>2
  <2> QED BY <2>2, <2>3
<1>21. ASSUME NEW p \in Procs, TakeBatch(p) PROVE Staged'
  BY <1>21, NoneAssumption DEF TakeBatch, TakePending
<1>22. ASSUME NEW p \in Procs, ReapDone(p) PROVE Staged'
  BY <1>22, NoneAssumption DEF ReapDone, AfterReap
<1>23. ASSUME NEW p \in Procs, NEW t \in Tickets, ReleaseNext(p, t) PROVE Staged'
  BY <1>23, NoneAssumption DEF ReleaseNext
<1>24. ASSUME NEW p \in Procs, Free(p) PROVE Staged'
  <2>1. rel[p] \in Tickets /\ InHands(p, rel[p]) /\ cur' = cur
    BY <1>24, NoneAssumption DEF Free
  <2>2. ticket[rel[p]].stage = "taken" /\ ticket' = [ticket EXCEPT ![rel[p]].phys = FALSE]
    BY <1>24, <2>1 DEF Free
  <2>3. /\ \A t \in Tickets \ {rel[p]} : ticket'[t] = ticket[t]
        /\ ticket'[rel[p]].stage = "taken" /\ ticket'[rel[p]].acquired
    BY <2>1, <2>2
  <2> QED BY <2>1, <2>3
<1>25. ASSUME NEW p \in Procs, FreeFails(p) PROVE Staged'
  BY <1>25, NoneAssumption DEF FreeFails, AfterReap, Unfinished
<1>26. ASSUME NEW p \in Procs, SettleLocal(p) PROVE Staged'
  BY <1>26, NoneAssumption DEF SettleLocal
<1>27. ASSUME NEW p \in Procs, SettleLedger(p) PROVE Staged'
  BY <1>27, NoneAssumption DEF SettleLedger
<1>28. CASE UNCHANGED vars
  BY <1>28 DEF vars
<1> QED
  BY <1>1, <1>2, <1>3, <1>4, <1>5, <1>6, <1>7, <1>8, <1>9, <1>10, <1>11, <1>12, <1>13, <1>14,
  <1>15, <1>16, <1>17, <1>18, <1>19, <1>20, <1>21, <1>22, <1>23, <1>24, <1>25, <1>26, <1>27,
  <1>28 DEF Next, Request, Continue

\* An attempt keeps its ticket, and learns from it whether memory was acquired.
LEMMA TryingStep ==
  ASSUME IInv, Staged, Trying, Owners, [Next]_vars
  PROVE  Trying'
<1> USE DEF IInv, TypeOK, Ticket, Goto, Mutex, Attempts, Staged, Trying, Owners, InHands, Bytes,
          Unacquired, Critical, Reaping, Releasing, budgetVars, localVars, ledgerVars,
          attemptVars, reapVars
<1>1. ASSUME NEW p \in Procs, NEW t \in Tickets, NEW n \in Sizes, Alloc(p, t, n) PROVE Trying'
  BY <1>1, NoneAssumption DEF Alloc, BeginAttempt
<1>2. ASSUME NEW p \in Procs, NEW t \in Tickets, NEW n \in Sizes, TokenAlloc(p, t, n) PROVE Trying'
  BY <1>2, NoneAssumption DEF TokenAlloc, BeginAttempt, TokenCovers
<1>3. ASSUME NEW p \in Procs, NEW n \in Sizes, ReserveBytes(p, n) PROVE Trying'
  BY <1>3, NoneAssumption DEF ReserveBytes
<1>4. ASSUME NEW p \in Procs, DropToken(p) PROVE Trying'
  BY <1>4, NoneAssumption DEF DropToken
<1>5. ASSUME NEW p \in Procs, NEW t \in Tickets, Deallocate(p, t) PROVE Trying'
  BY <1>5, NoneAssumption DEF Deallocate
<1>6. ASSUME NEW p \in Procs, NEW t \in Tickets, ReleaseCold(p, t) PROVE Trying'
  BY <1>6, NoneAssumption DEF ReleaseCold
<1>7. ASSUME NEW p \in Procs, Reap(p) PROVE Trying'
  BY <1>7, NoneAssumption DEF Reap
<1>8. ASSUME NEW p \in Procs, ReserveLocal(p) PROVE Trying'
  BY <1>8, NoneAssumption DEF ReserveLocal
<1>9. ASSUME NEW p \in Procs, DropPromise(p) PROVE Trying'
  BY <1>9, NoneAssumption DEF DropPromise
<1>10. ASSUME NEW p \in Procs, Enqueue(p) PROVE Trying'
  BY <1>10, NoneAssumption DEF Enqueue
<1>11. ASSUME NEW p \in Procs, Lock(p) PROVE Trying'
  BY <1>11, NoneAssumption DEF Lock, PressureAfter
<1>12. ASSUME NEW p \in Procs, Admit(p) PROVE Trying'
  <2>1. UNCHANGED <<cur, ticket>> /\ pc[p] = "admit" /\ pc' = [pc EXCEPT ![p] = pc'[p]]
    BY <1>12 DEF Admit
  <2>2. pc'[p] \in {"malloc", "unlock", "wantReap"}
    BY <1>12 DEF Admit
  <2>3. cur[p] # None /\ ticket[cur[p]].stage = "attempt" /\ ~ticket[cur[p]].acquired
    BY <2>1, NoneAssumption
  <2> QED BY <2>1, <2>2, <2>3
<1>13. ASSUME NEW p \in Procs, Readmit(p) PROVE Trying'
  <2>1. UNCHANGED <<cur, ticket>> /\ pc[p] = "readmit" /\ pc' = [pc EXCEPT ![p] = pc'[p]]
    BY <1>13 DEF Readmit
  <2>2. pc'[p] \in {"malloc", "unlock", "wantReap"}
    BY <1>13 DEF Readmit
  <2>3. cur[p] # None /\ ticket[cur[p]].stage = "attempt" /\ ~ticket[cur[p]].acquired
    BY <2>1, NoneAssumption
  <2> QED BY <2>1, <2>2, <2>3
<1>14. ASSUME NEW p \in Procs, Malloc(p) PROVE Trying'
  BY <1>14, NoneAssumption DEF Malloc
<1>15. ASSUME NEW p \in Procs, MallocRefused(p) PROVE Trying'
  BY <1>15, NoneAssumption DEF MallocRefused
<1>16. ASSUME NEW p \in Procs, Publish(p) PROVE Trying'
  BY <1>16, NoneAssumption DEF Publish
<1>17. ASSUME NEW p \in Procs, Initialize(p) PROVE Trying'
  BY <1>17, NoneAssumption DEF Initialize
<1>18. ASSUME NEW p \in Procs, RefundBudget(p) PROVE Trying'
  BY <1>18, NoneAssumption DEF RefundBudget
<1>19. ASSUME NEW p \in Procs, Unlock(p) PROVE Trying'
  BY <1>19, NoneAssumption DEF Unlock
<1>20. ASSUME NEW p \in Procs, UnwindLocal(p) PROVE Trying'
  BY <1>20, NoneAssumption DEF UnwindLocal
<1>21. ASSUME NEW p \in Procs, TakeBatch(p) PROVE Trying'
  BY <1>21, NoneAssumption DEF TakeBatch, TakePending
<1>22. ASSUME NEW p \in Procs, ReapDone(p) PROVE Trying'
  BY <1>22, NoneAssumption DEF ReapDone, AfterReap
<1>23. ASSUME NEW p \in Procs, NEW t \in Tickets, ReleaseNext(p, t) PROVE Trying'
  BY <1>23, NoneAssumption DEF ReleaseNext
<1>24. ASSUME NEW p \in Procs, Free(p) PROVE Trying'
  BY <1>24, NoneAssumption DEF Free
<1>25. ASSUME NEW p \in Procs, FreeFails(p) PROVE Trying'
  BY <1>25, NoneAssumption DEF FreeFails, AfterReap, Unfinished
<1>26. ASSUME NEW p \in Procs, SettleLocal(p) PROVE Trying'
  BY <1>26, NoneAssumption DEF SettleLocal
<1>27. ASSUME NEW p \in Procs, SettleLedger(p) PROVE Trying'
  BY <1>27, NoneAssumption DEF SettleLedger
<1>28. CASE UNCHANGED vars
  BY <1>28 DEF vars
<1> QED
  BY <1>1, <1>2, <1>3, <1>4, <1>5, <1>6, <1>7, <1>8, <1>9, <1>10, <1>11, <1>12, <1>13, <1>14,
  <1>15, <1>16, <1>17, <1>18, <1>19, <1>20, <1>21, <1>22, <1>23, <1>24, <1>25, <1>26, <1>27,
  <1>28 DEF Next, Request, Continue

\* An owner is taken by one thread and goes on step by step.
LEMMA OwnersStep ==
  ASSUME IInv, Staged, Trying, Owners, [Next]_vars
  PROVE  Owners'
<1> USE DEF IInv, TypeOK, Ticket, Goto, Mutex, Attempts, Staged, Trying, Owners, InHands, Bytes,
          Unacquired, Critical, Reaping, Releasing, budgetVars, localVars, ledgerVars,
          attemptVars, reapVars
<1>1. ASSUME NEW p \in Procs, NEW t \in Tickets, NEW n \in Sizes, Alloc(p, t, n) PROVE Owners'
  BY <1>1, NoneAssumption DEF Alloc, BeginAttempt
<1>2. ASSUME NEW p \in Procs, NEW t \in Tickets, NEW n \in Sizes, TokenAlloc(p, t, n) PROVE Owners'
  BY <1>2, NoneAssumption DEF TokenAlloc, BeginAttempt, TokenCovers
<1>3. ASSUME NEW p \in Procs, NEW n \in Sizes, ReserveBytes(p, n) PROVE Owners'
  BY <1>3, NoneAssumption DEF ReserveBytes
<1>4. ASSUME NEW p \in Procs, DropToken(p) PROVE Owners'
  BY <1>4, NoneAssumption DEF DropToken
<1>5. ASSUME NEW p \in Procs, NEW t \in Tickets, Deallocate(p, t) PROVE Owners'
  <2>1. ticket[t].stage = "live" /\ ticket[t].phys /\ rel[p] = None /\ batch[p] = {} /\ batch' = batch
    BY <1>5, NoneAssumption DEF Deallocate
  <2>2. /\ \A x \in Tickets \ {t} : ticket'[x] = ticket[x]
        /\ ticket'[t].stage = "taken" /\ ticket'[t].pend /\ ticket'[t].phys
    BY <1>5, <2>1 DEF Deallocate
  <2>3. /\ \A q \in Procs \ {p} : rel'[q] = rel[q] /\ pc'[q] = pc[q]
        /\ rel'[p] = t /\ pc'[p] = "enqueue"
    BY <1>5 DEF Deallocate
  <2>4. \A q \in Procs : ~InHands(q, t)
    BY <2>1
  <2>5. \A x \in Tickets, q \in Procs : InHands(q, x)' <=> InHands(q, x) \/ (q = p /\ x = t)
    BY <2>1, <2>3, NoneAssumption
  <2>6. \A x \in Tickets : ticket'[x].stage = "taken" <=> ticket[x].stage = "taken" \/ x = t
    BY <2>2
  <2> HIDE DEF InHands
  <2>7. /\ \A x \in Tickets : ticket'[x].stage = "taken" <=> \E q \in Procs : InHands(q, x)'
        /\ \A x \in Tickets, q, r \in Procs : InHands(q, x)' /\ InHands(r, x)' => q = r
    BY <2>4, <2>5, <2>6
  <2>8. \A q \in Procs \ {p} :
          /\ rel'[q] # t /\ t \notin batch'[q]
          /\ rel'[q] # None => rel'[q] \in Tickets /\ ticket'[rel'[q]] = ticket[rel'[q]]
          /\ \A x \in batch'[q] : x \in Tickets /\ ticket'[x] = ticket[x]
    BY <2>1, <2>2, <2>3, <2>4 DEF InHands
  <2>9. ASSUME NEW q \in Procs
        PROVE  /\ rel'[q] # None <=> pc'[q] \in {"enqueue", "free", "settleLocal", "settleLedger"}
               /\ batch'[q] # {} => pc'[q] \in Releasing
               /\ rel'[q] \notin batch'[q]
               /\ \A x \in batch'[q] : ticket'[x].phys
               /\ pc'[q] \in {"enqueue", "free"} => ticket'[rel'[q]].phys
               /\ pc'[q] \in {"settleLocal", "settleLedger"} => ~ticket'[rel'[q]].phys
               /\ pc'[q] = "enqueue" => ticket'[rel'[q]].pend
               /\ pc'[q] = "settleLedger" => ~ticket'[rel'[q]].charge
    <3>1. CASE q = p
      BY <2>1, <2>2, <2>3, <3>1, NoneAssumption
    <3>2. CASE q # p
      BY <2>1, <2>3, <2>8, <3>2, NoneAssumption
    <3> QED BY <3>1, <3>2
  <2> QED BY <2>7, <2>9
<1>6. ASSUME NEW p \in Procs, NEW t \in Tickets, ReleaseCold(p, t) PROVE Owners'
  <2>1. ticket[t].stage = "cold" /\ ticket[t].phys /\ rel[p] = None /\ batch[p] = {} /\ batch' = batch
    BY <1>6, NoneAssumption DEF ReleaseCold
  <2>2. /\ \A x \in Tickets \ {t} : ticket'[x] = ticket[x]
        /\ ticket'[t].stage = "taken" /\ ticket'[t].phys
    BY <1>6, <2>1 DEF ReleaseCold
  <2>3. /\ \A q \in Procs \ {p} : rel'[q] = rel[q] /\ pc'[q] = pc[q]
        /\ rel'[p] = t /\ pc'[p] = "free"
    BY <1>6 DEF ReleaseCold
  <2>4. \A q \in Procs : ~InHands(q, t)
    BY <2>1
  <2>5. \A x \in Tickets, q \in Procs : InHands(q, x)' <=> InHands(q, x) \/ (q = p /\ x = t)
    BY <2>1, <2>3, NoneAssumption
  <2>6. \A x \in Tickets : ticket'[x].stage = "taken" <=> ticket[x].stage = "taken" \/ x = t
    BY <2>2
  <2> HIDE DEF InHands
  <2>7. /\ \A x \in Tickets : ticket'[x].stage = "taken" <=> \E q \in Procs : InHands(q, x)'
        /\ \A x \in Tickets, q, r \in Procs : InHands(q, x)' /\ InHands(r, x)' => q = r
    BY <2>4, <2>5, <2>6
  <2>8. \A q \in Procs \ {p} :
          /\ rel'[q] # t /\ t \notin batch'[q]
          /\ rel'[q] # None => rel'[q] \in Tickets /\ ticket'[rel'[q]] = ticket[rel'[q]]
          /\ \A x \in batch'[q] : x \in Tickets /\ ticket'[x] = ticket[x]
    BY <2>1, <2>2, <2>3, <2>4 DEF InHands
  <2>9. ASSUME NEW q \in Procs
        PROVE  /\ rel'[q] # None <=> pc'[q] \in {"enqueue", "free", "settleLocal", "settleLedger"}
               /\ batch'[q] # {} => pc'[q] \in Releasing
               /\ rel'[q] \notin batch'[q]
               /\ \A x \in batch'[q] : ticket'[x].phys
               /\ pc'[q] \in {"enqueue", "free"} => ticket'[rel'[q]].phys
               /\ pc'[q] \in {"settleLocal", "settleLedger"} => ~ticket'[rel'[q]].phys
               /\ pc'[q] = "enqueue" => ticket'[rel'[q]].pend
               /\ pc'[q] = "settleLedger" => ~ticket'[rel'[q]].charge
    <3>1. CASE q = p
      BY <2>1, <2>2, <2>3, <3>1, NoneAssumption
    <3>2. CASE q # p
      BY <2>1, <2>3, <2>8, <3>2, NoneAssumption
    <3> QED BY <3>1, <3>2
  <2> QED BY <2>7, <2>9
<1>7. ASSUME NEW p \in Procs, Reap(p) PROVE Owners'
  BY <1>7, NoneAssumption DEF Reap
<1>8. ASSUME NEW p \in Procs, ReserveLocal(p) PROVE Owners'
  BY <1>8, NoneAssumption DEF ReserveLocal
<1>9. ASSUME NEW p \in Procs, DropPromise(p) PROVE Owners'
  BY <1>9, NoneAssumption DEF DropPromise
<1>10. ASSUME NEW p \in Procs, Enqueue(p) PROVE Owners'
  BY <1>10, NoneAssumption DEF Enqueue
<1>11. ASSUME NEW p \in Procs, Lock(p) PROVE Owners'
  BY <1>11, NoneAssumption DEF Lock, PressureAfter
<1>12. ASSUME NEW p \in Procs, Admit(p) PROVE Owners'
  BY <1>12, NoneAssumption DEF Admit
<1>13. ASSUME NEW p \in Procs, Readmit(p) PROVE Owners'
  BY <1>13, NoneAssumption DEF Readmit
<1>14. ASSUME NEW p \in Procs, Malloc(p) PROVE Owners'
  BY <1>14, NoneAssumption DEF Malloc
<1>15. ASSUME NEW p \in Procs, MallocRefused(p) PROVE Owners'
  BY <1>15, NoneAssumption DEF MallocRefused
<1>16. ASSUME NEW p \in Procs, Publish(p) PROVE Owners'
  BY <1>16, NoneAssumption DEF Publish
<1>17. ASSUME NEW p \in Procs, Initialize(p) PROVE Owners'
  <2>1. PICK s \in {"live", "cold"} : ticket' = [ticket EXCEPT ![cur[p]].stage = s]
    BY <1>17 DEF Initialize
  <2>2. /\ cur[p] \in Tickets /\ pc[p] = "init" /\ pc' = [pc EXCEPT ![p] = "refund"]
        /\ UNCHANGED <<batch, rel>>
    BY <1>17, NoneAssumption DEF Initialize
  <2>3. ticket[cur[p]].stage = "attempt"
    BY <2>2, NoneAssumption
  <2>4. \A t \in Tickets : \/ ticket'[t] = ticket[t]
                           \/ ticket[t].stage = "attempt" /\ ticket'[t].stage \in {"live", "cold"}
    BY <2>1, <2>2, <2>3
  <2>5. \A t \in Tickets : ticket'[t].stage = "taken" <=> ticket[t].stage = "taken"
    BY <2>4
  <2>6. \A q \in Procs : /\ \A t \in batch[q] : t \in Tickets /\ ticket'[t] = ticket[t]
                         /\ rel[q] # None => rel[q] \in Tickets /\ ticket'[rel[q]] = ticket[rel[q]]
    BY <2>4
  <2> QED BY <2>2, <2>5, <2>6, NoneAssumption
<1>18. ASSUME NEW p \in Procs, RefundBudget(p) PROVE Owners'
  BY <1>18, NoneAssumption DEF RefundBudget
<1>19. ASSUME NEW p \in Procs, Unlock(p) PROVE Owners'
  BY <1>19, NoneAssumption DEF Unlock
<1>20. ASSUME NEW p \in Procs, UnwindLocal(p) PROVE Owners'
  <2>1. /\ cur[p] \in Tickets /\ pc[p] = "unwindLocal" /\ pc' = [pc EXCEPT ![p] = "idle"]
        /\ UNCHANGED <<batch, rel>>
    BY <1>20, NoneAssumption DEF UnwindLocal
  <2>2. \/ ticket' = ticket
        \/ /\ ticket[cur[p]].stage = "attempt"
           /\ ticket' = [ticket EXCEPT ![cur[p]].stage = "refused", ![cur[p]].charge = FALSE]
    BY <1>20, <2>1, NoneAssumption DEF UnwindLocal
  <2>3. \A t \in Tickets : \/ ticket'[t] = ticket[t]
                           \/ ticket[t].stage = "attempt" /\ ticket'[t].stage = "refused"
    BY <2>1, <2>2
  <2> QED BY <2>1, <2>3, NoneAssumption
<1>21. ASSUME NEW p \in Procs, TakeBatch(p) PROVE Owners'
  BY <1>21, NoneAssumption DEF TakeBatch, TakePending
<1>22. ASSUME NEW p \in Procs, ReapDone(p) PROVE Owners'
  BY <1>22, NoneAssumption DEF ReapDone, AfterReap
<1>23. ASSUME NEW p \in Procs, NEW t \in Tickets, ReleaseNext(p, t) PROVE Owners'
  BY <1>23, NoneAssumption DEF ReleaseNext
<1>24. ASSUME NEW p \in Procs, Free(p) PROVE Owners'
  BY <1>24, NoneAssumption DEF Free
<1>25. ASSUME NEW p \in Procs, FreeFails(p) PROVE Owners'
  BY <1>25, NoneAssumption DEF FreeFails, AfterReap, Unfinished
<1>26. ASSUME NEW p \in Procs, SettleLocal(p) PROVE Owners'
  BY <1>26, NoneAssumption DEF SettleLocal
<1>27. ASSUME NEW p \in Procs, SettleLedger(p) PROVE Owners'
  BY <1>27, NoneAssumption DEF SettleLedger
<1>28. CASE UNCHANGED vars
  BY <1>28 DEF vars
<1> QED
  BY <1>1, <1>2, <1>3, <1>4, <1>5, <1>6, <1>7, <1>8, <1>9, <1>10, <1>11, <1>12, <1>13, <1>14,
  <1>15, <1>16, <1>17, <1>18, <1>19, <1>20, <1>21, <1>22, <1>23, <1>24, <1>25, <1>26, <1>27,
  <1>28 DEF Next, Request, Continue

\* Every ticket counts as before.
SameTickets ==
  \A x \in Tickets : /\ ticket'[x].bytes = ticket[x].bytes /\ ticket'[x].acquired = ticket[x].acquired
                     /\ ticket'[x].charge = ticket[x].charge /\ ticket'[x].pend = ticket[x].pend
                     /\ ticket'[x].stage = "freed" <=> ticket[x].stage = "freed"
                     /\ ticket'[x].stage = "unused" <=> ticket[x].stage = "unused"

\* The threads that have yet to publish an allocation are the same.
SamePublishers ==
  \A q \in Procs : /\ pc'[q] = "publish" <=> pc[q] = "publish"
                   /\ pc[q] = "publish" => cur'[q] = cur[q]

\* The tickets that count, and their sizes, are the same.
SameSums == Size' = Size /\ Used' = Used /\ Ledger' = Ledger /\ Charged' = Charged /\ Pending' = Pending

\* Then the sums are the same.
LEMMA SumsKept ==
  ASSUME SameTickets, SamePublishers
  PROVE  SameSums
  BY DEF SameTickets, SamePublishers, SameSums, Size, Used, Ledger, Charged, Pending

\* And the tallies agree if no counter changes.
LEMMA TalliesKept ==
  ASSUME Tallies, SameSums,
         UNCHANGED <<token, outstanding, allocated, budgetReserved, promised, pendingBytes>>
  PROVE  Tallies'
  BY DEF Tallies, SameSums, Finite, Total, SumOver, Promised, Promises, Locals

\* The tickets that count are used ones, and their sums exist.
LEMMA CountedTickets ==
  ASSUME TypeOK, Attempts, Staged, Finite
  PROVE  /\ Ledger \subseteq Used /\ Charged \subseteq Used /\ Pending \subseteq Used
         /\ Used \subseteq Tickets /\ \A x \in Tickets : Size[x] = ticket[x].bytes /\ Size[x] \in Nat
         /\ \A S : S \subseteq Used => IsFiniteSet(Units(Size, S)) /\ Total(S) \in Nat
<1>1. /\ Ledger \subseteq Used /\ Charged \subseteq Used /\ Pending \subseteq Used
      /\ Used \subseteq Tickets
  BY DEF Attempts, Staged, Ledger, Charged, Pending, Used
<1>2. \A x \in Tickets : Size[x] = ticket[x].bytes /\ Size[x] \in Nat
  BY DEF Size, TypeOK, Ticket
<1>3. \A S : S \subseteq Used => IsFiniteSet(Units(Size, S)) /\ SumOver(Size, S) \in Nat
  BY SumPart DEF Finite
<1> QED BY <1>1, <1>2, <1>3 DEF Total

\* A new attempt adds its ticket to those that are charged.
LEMMA BeginSums ==
  ASSUME TypeOK, Mutex, Attempts, Staged, Finite, NEW p \in Procs, NEW t \in Tickets, NEW n \in Sizes,
         NEW b, BeginAttempt(p, t, n, b), Goto(p, "idle", "lock")
  PROVE  /\ IsFiniteSet(Units(Size, Used))'
         /\ Total(Charged)' = Total(Charged) + n
         /\ Total(Ledger)' = Total(Ledger)
         /\ Total(Ledger \cap Charged)' = Total(Ledger \cap Charged)
         /\ Total(Pending)' = Total(Pending)
<1> USE DEF BeginAttempt
<1>1. n \in Nat /\ ticket[t].stage = "unused" /\ ticket[t] \in Ticket
  BY SizesAssumption DEF TypeOK
<1>2. /\ \A x \in Tickets \ {t} : ticket'[x] = ticket[x]
      /\ ticket'[t].bytes = n /\ ticket'[t].stage = "attempt" /\ ticket'[t].charge
      /\ ticket'[t].acquired = ticket[t].acquired /\ ticket'[t].pend = ticket[t].pend
  BY <1>1 DEF TypeOK, Ticket
<1> HIDE DEF BeginAttempt
<1>3. ~ticket[t].acquired /\ ~ticket[t].charge /\ ~ticket[t].pend
  BY <1>1 DEF Staged
<1>4. SamePublishers
  BY NoneAssumption DEF BeginAttempt, SamePublishers, Goto, TypeOK
<1>5. Used' = Used \cup {t} /\ Charged' = Charged \cup {t} /\ Pending' = Pending
  BY <1>1, <1>2, <1>3 DEF Used, Charged, Pending
<1>6. Ledger' = Ledger
  <2>1. \A x \in Tickets : (\A q \in Procs : pc'[q] = "publish" => cur'[q] # x)
                             <=> (\A q \in Procs : pc[q] = "publish" => cur[q] # x)
    BY <1>4 DEF SamePublishers
  <2>2. \A x \in Tickets : /\ ticket'[x].acquired <=> ticket[x].acquired
                           /\ ticket[x].acquired => ticket'[x].stage = ticket[x].stage
    BY <1>2, <1>3
  <2> QED BY <2>1, <2>2 DEF Ledger
<1>7. t \notin Used /\ t \notin Charged /\ t \notin Pending /\ t \notin Ledger
  BY <1>1, <1>3 DEF Used, Charged, Pending, Ledger
<1>8. Size'[t] = n /\ \A x \in Tickets \ {t} : Size'[x] = Size[x]
  BY <1>2 DEF Size
<1>9. /\ Ledger \subseteq Used /\ Charged \subseteq Used /\ Pending \subseteq Used /\ Used \subseteq Tickets
      /\ \A S : S \subseteq Used => IsFiniteSet(Units(Size, S)) /\ Total(S) \in Nat
  BY CountedTickets
<1>10. ASSUME NEW S, S \subseteq Used
       PROVE  Units(Size', S) = Units(Size, S) /\ SumOver(Size', S) = Total(S) /\ IsFiniteSet(Units(Size', S))
  <2>1. \A x \in S : Size'[x] = Size[x]
    BY <1>7, <1>8, <1>9, <1>10
  <2> QED BY <1>9, <1>10, <2>1, SumSame DEF Total
<1>11. IsFiniteSet(Units(Size', Used \cup {t}))
  BY <1>1, <1>7, <1>8, <1>10, SumAdd
<1>12. SumOver(Size', Charged \cup {t}) = Total(Charged) + n
  <2>1. IsFiniteSet(Units(Size', Charged)) /\ SumOver(Size', Charged) = Total(Charged)
    BY <1>9, <1>10
  <2>2. SumOver(Size', Charged \cup {t}) = SumOver(Size', Charged) + Size'[t]
    BY <1>1, <1>7, <1>8, <2>1, SumAdd
  <2> QED BY <1>8, <2>1, <2>2
<1>13. /\ SumOver(Size', Ledger) = Total(Ledger) /\ SumOver(Size', Pending) = Total(Pending)
       /\ SumOver(Size', Ledger \cap Charged) = Total(Ledger \cap Charged)
  BY <1>9, <1>10
<1>14. Ledger' \cap Charged' = Ledger \cap Charged
  BY <1>5, <1>6, <1>7
<1>15. IsFiniteSet(Units(Size, Used))'
  BY <1>5, <1>11 DEF Units
<1>16. /\ Total(Charged)' = SumOver(Size', Charged \cup {t})
       /\ Total(Ledger)' = SumOver(Size', Ledger) /\ Total(Pending)' = SumOver(Size', Pending)
       /\ Total(Ledger \cap Charged)' = SumOver(Size', Ledger \cap Charged)
  BY <1>5, <1>6, <1>14 DEF Total, SumOver, Units
<1> QED BY <1>12, <1>13, <1>15, <1>16

\* Only the sizes of used tickets count, and only these sums.
LEMMA TalliesFrom ==
  ASSUME Tallies, Size' = Size, Used' = Used,
         outstanding' = Total(Ledger'), allocated' = Total(Ledger' \cap Charged'),
         IsFiniteSet(Units(Locals', Procs)), IsFiniteSet(Units(Promises', Procs)),
         budgetReserved' = Total(Charged') + SumOver(Locals', Procs),
         promised' = SumOver(Promises', Procs), pendingBytes' = Total(Pending')
  PROVE  Tallies'
  BY DEF Tallies, Finite, Total, SumOver, Units, Promised

\* Then the tickets nobody has yet to publish are the same.
LEMMA Unpublished ==
  ASSUME SamePublishers
  PROVE  \A x \in Tickets : (\A q \in Procs : pc'[q] = "publish" => cur'[q] # x)
                              <=> (\A q \in Procs : pc[q] = "publish" => cur[q] # x)
  BY DEF SamePublishers

\* One reservation changes.
LEMMA TokenSums ==
  ASSUME Finite, token \in [Procs -> Token], token' \in [Procs -> Token],
         NEW p \in Procs, \A q \in Procs \ {p} : token'[q] = token[q]
  PROVE  /\ IsFiniteSet(Units(Locals', Procs)) /\ IsFiniteSet(Units(Promises', Procs))
         /\ SumOver(Locals', Procs) = SumOver(Locals, Procs) - token[p].local + token'[p].local
         /\ SumOver(Promises', Procs) = SumOver(Promises, Procs) - token[p].runtime + token'[p].runtime
         /\ SumOver(Locals, Procs) \in Nat /\ SumOver(Promises, Procs) \in Nat
<1>1. /\ \A q \in Procs : /\ Locals[q] = token[q].local /\ Locals[q] \in Nat
                          /\ Locals'[q] = token'[q].local /\ Locals'[q] \in Nat
                          /\ Promises[q] = token[q].runtime /\ Promises[q] \in Nat
                          /\ Promises'[q] = token'[q].runtime /\ Promises'[q] \in Nat
  BY DEF Locals, Promises, Token
<1>2. \A q \in Procs \ {p} : Locals[q] = Locals'[q] /\ Promises[q] = Promises'[q]
  BY <1>1
<1>3. IsFiniteSet(Units(Locals, Procs)) /\ IsFiniteSet(Units(Promises, Procs))
  BY DEF Finite
<1>7. /\ Locals[p] \in Nat /\ Locals'[p] \in Nat /\ \A q \in Procs \ {p} : Locals[q] = Locals'[q]
      /\ Promises[p] \in Nat /\ Promises'[p] \in Nat /\ \A q \in Procs \ {p} : Promises[q] = Promises'[q]
  BY <1>1, <1>2
<1>8. \A f, g : f[p] \in Nat /\ g[p] \in Nat /\ (\A q \in Procs \ {p} : f[q] = g[q]) /\ IsFiniteSet(Units(f, Procs))
         => IsFiniteSet(Units(g, Procs)) /\ SumOver(g, Procs) = SumOver(f, Procs) - f[p] + g[p]
  BY SumMoved
<1>4. /\ IsFiniteSet(Units(Locals', Procs))
      /\ SumOver(Locals', Procs) = SumOver(Locals, Procs) - Locals[p] + Locals'[p]
  BY <1>3, <1>7, <1>8
<1>5. /\ IsFiniteSet(Units(Promises', Procs))
      /\ SumOver(Promises', Procs) = SumOver(Promises, Procs) - Promises[p] + Promises'[p]
  BY <1>3, <1>7, <1>8
<1>6. SumOver(Locals, Procs) \in Nat /\ SumOver(Promises, Procs) \in Nat
  BY <1>3, SumPart
<1> QED BY <1>1, <1>4, <1>5, <1>6

\* The tallies without the sets behind them.
LEMMA TallySums ==
  ASSUME Tallies
  PROVE  /\ Finite
         /\ outstanding = Total(Ledger) /\ allocated = Total(Ledger \cap Charged)
         /\ budgetReserved = Total(Charged) + SumOver(Locals, Procs)
         /\ promised = SumOver(Promises, Procs) /\ pendingBytes = Total(Pending)
         /\ IsFiniteSet(Units(Locals, Procs)) /\ IsFiniteSet(Units(Promises, Procs))
  BY DEF Tallies, Finite, Promised

\* A reservation and the counters it is part of change.
LEMMA TokenTallies ==
  ASSUME Tallies, SameSums, token \in [Procs -> Token], token' \in [Procs -> Token],
         NEW p \in Procs, \A q \in Procs \ {p} : token'[q] = token[q],
         Total(Charged) \in Nat,
         UNCHANGED <<outstanding, allocated, pendingBytes>>,
         budgetReserved' = budgetReserved - token[p].local + token'[p].local,
         promised' = promised - token[p].runtime + token'[p].runtime
  PROVE  Tallies'
<1>1. /\ Finite
      /\ outstanding = Total(Ledger) /\ allocated = Total(Ledger \cap Charged)
      /\ budgetReserved = Total(Charged) + SumOver(Locals, Procs)
      /\ promised = SumOver(Promises, Procs) /\ pendingBytes = Total(Pending)
  BY TallySums
<1>2. /\ IsFiniteSet(Units(Locals', Procs)) /\ IsFiniteSet(Units(Promises', Procs))
      /\ SumOver(Locals', Procs) = SumOver(Locals, Procs) - token[p].local + token'[p].local
      /\ SumOver(Promises', Procs) = SumOver(Promises, Procs) - token[p].runtime + token'[p].runtime
      /\ SumOver(Locals, Procs) \in Nat /\ SumOver(Promises, Procs) \in Nat
  BY <1>1, TokenSums
<1>3. token[p].local \in Nat /\ token'[p].local \in Nat
  BY DEF Token
<1>4. budgetReserved' = Total(Charged) + SumOver(Locals', Procs)
  BY <1>1, <1>2, <1>3
<1>5. promised' = SumOver(Promises', Procs)
  BY <1>1, <1>2
<1>6. Size' = Size /\ Used' = Used /\ Ledger' = Ledger /\ Charged' = Charged /\ Pending' = Pending
  BY DEF SameSums
<1> QED BY <1>1, <1>2, <1>4, <1>5, <1>6, TalliesFrom

\* One ticket more, and one less.
LEMMA TotalMoves ==
  ASSUME TypeOK, Attempts, Staged, Finite, NEW S, S \subseteq Used, NEW x \in Used
  PROVE  /\ ticket[x].bytes \in Nat /\ Total(S) \in Nat
         /\ x \notin S => Total(S \cup {x}) = Total(S) + ticket[x].bytes
         /\ x \in S => Total(S \ {x}) = Total(S) - ticket[x].bytes
<1>1. /\ IsFiniteSet(Units(Size, S)) /\ Total(S) \in Nat
      /\ Size[x] = ticket[x].bytes /\ Size[x] \in Nat
  BY CountedTickets
<1>2. x \notin S => Total(S \cup {x}) = Total(S) + ticket[x].bytes
  BY <1>1, SumAdd DEF Total
<1>3. x \in S => Total(S \ {x}) = Total(S) - ticket[x].bytes
  BY <1>1, SumDrop DEF Total
<1> QED BY <1>1, <1>2, <1>3

\* The tallies after a step that begins an attempt.
LEMMA BegunTallies ==
  ASSUME IsFiniteSet(Units(Size, Used))', IsFiniteSet(Units(Locals', Procs)), IsFiniteSet(Units(Promises', Procs)),
         outstanding' = Total(Ledger)', allocated' = Total(Ledger \cap Charged)',
         budgetReserved' = Total(Charged)' + SumOver(Locals', Procs),
         promised' = SumOver(Promises', Procs), pendingBytes' = Total(Pending)'
  PROVE  Tallies'
  BY DEF Tallies, Finite, SumOver, Units, Promised

\* Every action changes each counter by what its sum changes.
LEMMA TalliesStep ==
  ASSUME IInv, Staged, Trying, Owners, Tallies, [Next]_vars
  PROVE  Tallies'
<1> USE DEF IInv, TypeOK, Ticket, Goto, Mutex, Attempts, Staged, Trying, Owners, InHands, Bytes,
          Unacquired, Critical, Reaping, Releasing, budgetVars, localVars, ledgerVars,
          attemptVars, reapVars
<1>1. ASSUME NEW p \in Procs, NEW t \in Tickets, NEW n \in Sizes, Alloc(p, t, n) PROVE Tallies'
  <2>1. BeginAttempt(p, t, n, FALSE) /\ Goto(p, "idle", "lock") /\ TypeOK
    BY <1>1 DEF Alloc
  <2> HIDE DEF IInv, TypeOK, Ticket, Goto, Mutex, Attempts, Staged, Trying, Owners
  <2>2. /\ Finite
        /\ outstanding = Total(Ledger) /\ allocated = Total(Ledger \cap Charged)
        /\ budgetReserved = Total(Charged) + SumOver(Locals, Procs)
        /\ promised = SumOver(Promises, Procs) /\ pendingBytes = Total(Pending)
        /\ IsFiniteSet(Units(Locals, Procs)) /\ IsFiniteSet(Units(Promises, Procs))
    BY TallySums
  <2>3. /\ IsFiniteSet(Units(Size, Used))'
        /\ Total(Charged)' = Total(Charged) + n /\ Total(Ledger)' = Total(Ledger)
        /\ Total(Ledger \cap Charged)' = Total(Ledger \cap Charged)
        /\ Total(Pending)' = Total(Pending)
    BY <2>1, <2>2, BeginSums DEF IInv
  <2>4. /\ UNCHANGED <<outstanding, allocated, promised, pendingBytes>> /\ n \in Nat
        /\ Total(Charged) \in Nat
    BY <1>1, <2>1, <2>2, SizesAssumption, CountedTickets DEF Alloc, budgetVars, localVars, ledgerVars, IInv
  <2>5. budgetReserved' = budgetReserved + n /\ token' = token
    BY <1>1 DEF Alloc
  <2>6. Locals' = Locals /\ Promises' = Promises /\ SumOver(Locals, Procs) \in Nat
    BY <2>2, <2>5, SumPart DEF Locals, Promises
  <2>7. budgetReserved' = Total(Charged)' + SumOver(Locals', Procs)
    BY <2>2, <2>3, <2>4, <2>5, <2>6
  <2> QED BY <2>2, <2>3, <2>4, <2>6, <2>7, BegunTallies
<1>2. ASSUME NEW p \in Procs, NEW t \in Tickets, NEW n \in Sizes, TokenAlloc(p, t, n) PROVE Tallies'
  <2>1. BeginAttempt(p, t, n, TRUE) /\ Goto(p, "idle", "lock") /\ TypeOK
    BY <1>2 DEF TokenAlloc
  <2> HIDE DEF IInv, TypeOK, Ticket, Goto, Mutex, Attempts, Staged, Trying, Owners
  <2>2. /\ Finite
        /\ outstanding = Total(Ledger) /\ allocated = Total(Ledger \cap Charged)
        /\ budgetReserved = Total(Charged) + SumOver(Locals, Procs)
        /\ promised = SumOver(Promises, Procs) /\ pendingBytes = Total(Pending)
        /\ IsFiniteSet(Units(Locals, Procs)) /\ IsFiniteSet(Units(Promises, Procs))
    BY TallySums
  <2>3. /\ IsFiniteSet(Units(Size, Used))'
        /\ Total(Charged)' = Total(Charged) + n /\ Total(Ledger)' = Total(Ledger)
        /\ Total(Ledger \cap Charged)' = Total(Ledger \cap Charged)
        /\ Total(Pending)' = Total(Pending)
    BY <2>1, <2>2, BeginSums DEF IInv
  <2>4. /\ UNCHANGED <<outstanding, allocated, promised, pendingBytes>> /\ n \in Nat
        /\ Total(Charged) \in Nat
    BY <1>2, <2>1, <2>2, SizesAssumption, CountedTickets DEF TokenAlloc, budgetVars, localVars, ledgerVars, IInv
  <2>5. budgetReserved' = budgetReserved
    BY <1>2 DEF TokenAlloc, localVars
  <2>6. token \in [Procs -> Token] /\ token' \in [Procs -> Token]
    BY <2>1, TokensTyped DEF TypeOK
  <2>7. /\ \A q \in Procs \ {p} : token'[q] = token[q]
        /\ token'[p].local = token[p].local - n /\ token'[p].runtime = token[p].runtime
    BY <1>2, <2>6 DEF TokenAlloc, Token
  <2>8. token[p].local \in Nat /\ token[p].runtime \in Nat
    BY <2>6 DEF Token
  <2> HIDE DEF Token
  <2>9. /\ IsFiniteSet(Units(Locals', Procs)) /\ IsFiniteSet(Units(Promises', Procs))
        /\ SumOver(Locals', Procs) = SumOver(Locals, Procs) - token[p].local + token'[p].local
        /\ SumOver(Promises', Procs) = SumOver(Promises, Procs) - token[p].runtime + token'[p].runtime
        /\ SumOver(Locals, Procs) \in Nat /\ SumOver(Promises, Procs) \in Nat
    BY <2>2, <2>6, <2>7, TokenSums
  <2>10. budgetReserved' = Total(Charged)' + SumOver(Locals', Procs)
    BY <2>2, <2>3, <2>4, <2>5, <2>7, <2>8, <2>9
  <2>11. promised' = SumOver(Promises', Procs)
    BY <2>2, <2>4, <2>7, <2>8, <2>9
  <2> QED BY <2>2, <2>3, <2>4, <2>9, <2>10, <2>11, BegunTallies
<1>3. ASSUME NEW p \in Procs, NEW n \in Sizes, ReserveBytes(p, n) PROVE Tallies'
  <2>1. ticket' = ticket /\ SamePublishers
    BY <1>3, NoneAssumption DEF ReserveBytes, SamePublishers
  <2>2. SameSums
    BY <2>1, SumsKept DEF SameTickets
  <2>3. token \in [Procs -> Token] /\ token' \in [Procs -> Token] /\ Total(Charged) \in Nat
    BY TokensTyped, CountedTickets DEF Tallies
  <2>4. /\ \A q \in Procs \ {p} : token'[q] = token[q]
        /\ UNCHANGED <<outstanding, allocated, pendingBytes>>
    BY <1>3 DEF ReserveBytes
  <2>5. /\ budgetReserved' = budgetReserved - token[p].local + token'[p].local
        /\ promised' = promised - token[p].runtime + token'[p].runtime
    <3>1. token[p].runtime = 0
      BY <1>3 DEF ReserveBytes, Reservations, Lent, Token
    <3>2. /\ token'[p].runtime = n /\ token'[p].local = token[p].local
          /\ promised' = promised + n /\ budgetReserved' = budgetReserved
      BY <1>3 DEF ReserveBytes, Token
    <3>3. n \in Nat /\ token[p].local \in Nat
      BY SizesAssumption DEF Token
    <3> QED BY <3>1, <3>2, <3>3
  <2> HIDE DEF IInv, TypeOK, Token, Mutex, Attempts, Staged, Trying, Owners
  <2> QED BY <2>1, <2>2, <2>3, <2>4, <2>5, TokenTallies
<1>4. ASSUME NEW p \in Procs, DropToken(p) PROVE Tallies'
  <2>1. ticket' = ticket /\ SamePublishers
    BY <1>4, NoneAssumption DEF DropToken, SamePublishers
  <2>2. SameSums
    BY <2>1, SumsKept DEF SameTickets
  <2>3. token \in [Procs -> Token] /\ token' \in [Procs -> Token] /\ Total(Charged) \in Nat
    BY TokensTyped, CountedTickets DEF Tallies
  <2>4. /\ \A q \in Procs \ {p} : token'[q] = token[q]
        /\ UNCHANGED <<outstanding, allocated, pendingBytes>>
    BY <1>4 DEF DropToken
  <2>5. /\ budgetReserved' = budgetReserved - token[p].local + token'[p].local
        /\ promised' = promised - token[p].runtime + token'[p].runtime
    <3>1. token[p].local \in Nat /\ token[p].runtime \in Nat
      BY DEF Token
    <3>2. /\ token'[p].runtime = token[p].runtime /\ promised' = promised
          /\ token'[p].local = 0 /\ budgetReserved' = budgetReserved - token[p].local
      BY <1>4 DEF DropToken, Token
    <3> QED BY <3>1, <3>2
  <2> HIDE DEF IInv, TypeOK, Token, Mutex, Attempts, Staged, Trying, Owners
  <2> QED BY <2>1, <2>2, <2>3, <2>4, <2>5, TokenTallies
<1>5. ASSUME NEW p \in Procs, NEW t \in Tickets, Deallocate(p, t) PROVE Tallies'
  <2>1. ticket[t].stage = "live" /\ ~ticket[t].pend /\ SamePublishers
    BY <1>5, NoneAssumption DEF Deallocate, SamePublishers
  <2>2. /\ \A x \in Tickets \ {t} : ticket'[x] = ticket[x]
        /\ ticket'[t] = [ticket[t] EXCEPT !.stage = "taken", !.pend = TRUE]
    BY <1>5 DEF Deallocate
  <2>4. /\ ticket'[t].bytes = ticket[t].bytes /\ ticket'[t].stage = "taken" /\ ticket'[t].pend
        /\ ticket'[t].acquired = ticket[t].acquired /\ ticket'[t].charge = ticket[t].charge
    BY <2>2
  <2>10. /\ UNCHANGED <<token, outstanding, allocated, budgetReserved, promised>>
         /\ pendingBytes' = pendingBytes + ticket[t].bytes
    BY <1>5 DEF Deallocate
  <2> HIDE DEF IInv, TypeOK, Ticket, Goto, Mutex, Attempts, Staged, Trying, Owners
  <2>9. TypeOK
    BY DEF IInv
  <2>3. t \in Used
    BY <2>1 DEF Used
  <2>7. \A x \in Tickets : /\ ticket'[x].bytes = ticket[x].bytes /\ ticket'[x].acquired = ticket[x].acquired
                           /\ ticket'[x].charge = ticket[x].charge
                           /\ ticket'[x].stage = "freed" <=> ticket[x].stage = "freed"
                           /\ ticket'[x].stage = "unused" <=> ticket[x].stage = "unused"
    BY <2>1, <2>2, <2>4
  <2>5. Size' = Size /\ Used' = Used /\ Charged' = Charged /\ Ledger' = Ledger
    BY <2>1, <2>7, Unpublished DEF Size, Used, Charged, Ledger
  <2>6. Pending' = Pending \cup {t} /\ t \notin Pending
    BY <2>1, <2>2, <2>4 DEF Pending
  <2>20. /\ Finite
         /\ outstanding = Total(Ledger) /\ allocated = Total(Ledger \cap Charged)
         /\ budgetReserved = Total(Charged) + SumOver(Locals, Procs)
         /\ promised = SumOver(Promises, Procs) /\ pendingBytes = Total(Pending)
         /\ IsFiniteSet(Units(Locals, Procs)) /\ IsFiniteSet(Units(Promises, Procs))
         /\ SumOver(Locals, Procs) \in Nat
    BY TallySums, SumPart
  <2>21. /\ Ledger \subseteq Used /\ Charged \subseteq Used /\ Pending \subseteq Used
         /\ \A S : S \subseteq Used => Total(S) \in Nat
    BY <2>20, CountedTickets DEF IInv
  <2>22. Locals' = Locals /\ Promises' = Promises
    BY <2>10 DEF Locals, Promises
  <2>23. /\ ticket[t].bytes \in Nat /\ Total(Pending) \in Nat
         /\ t \notin Pending => Total(Pending \cup {t}) = Total(Pending) + ticket[t].bytes
         /\ t \in Pending => Total(Pending \ {t}) = Total(Pending) - ticket[t].bytes
    BY <2>3, <2>9, <2>20, <2>21, TotalMoves DEF IInv
  <2>24. pendingBytes' = Total(Pending')
    BY <2>6, <2>10, <2>20, <2>23
  <2> QED BY <2>5, <2>10, <2>20, <2>22, <2>24, TalliesFrom
<1>6. ASSUME NEW p \in Procs, NEW t \in Tickets, ReleaseCold(p, t) PROVE Tallies'
  <2>1. SameTickets
    BY <1>6 DEF ReleaseCold, SameTickets
  <2>2. SamePublishers
    BY <1>6, NoneAssumption DEF ReleaseCold, SamePublishers
  <2>3. UNCHANGED <<token, outstanding, allocated, budgetReserved, promised, pendingBytes>>
    BY <1>6 DEF ReleaseCold
  <2> HIDE DEF IInv, TypeOK
  <2> QED BY <2>1, <2>2, <2>3, SumsKept, TalliesKept
<1>7. ASSUME NEW p \in Procs, Reap(p) PROVE Tallies'
  <2>1. SameTickets
    BY <1>7 DEF Reap, SameTickets
  <2>2. SamePublishers
    BY <1>7, NoneAssumption DEF Reap, SamePublishers
  <2>3. UNCHANGED <<token, outstanding, allocated, budgetReserved, promised, pendingBytes>>
    BY <1>7 DEF Reap
  <2> HIDE DEF IInv, TypeOK
  <2> QED BY <2>1, <2>2, <2>3, SumsKept, TalliesKept
<1>8. ASSUME NEW p \in Procs, ReserveLocal(p) PROVE Tallies'
  <2>1. ticket' = ticket /\ SamePublishers
    BY <1>8, NoneAssumption DEF ReserveLocal, SamePublishers
  <2>2. SameSums
    BY <2>1, SumsKept DEF SameTickets
  <2>3. token \in [Procs -> Token] /\ token' \in [Procs -> Token] /\ Total(Charged) \in Nat
    BY TokensTyped, CountedTickets DEF Tallies
  <2>4. /\ \A q \in Procs \ {p} : token'[q] = token[q]
        /\ UNCHANGED <<outstanding, allocated, pendingBytes>>
    BY <1>8 DEF ReserveLocal
  <2>5. /\ budgetReserved' = budgetReserved - token[p].local + token'[p].local
        /\ promised' = promised - token[p].runtime + token'[p].runtime
    <3>1. token[p].local = 0 /\ token[p].runtime \in Nat /\ token[p].local \in Nat
      BY <1>8 DEF ReserveLocal, Reservations, Lent, Token
    <3>2. token'[p].runtime = token[p].runtime /\ promised' = promised
      BY <1>8 DEF ReserveLocal, Token
    <3>3. budgetReserved' = budgetReserved + token'[p].local
      BY <1>8, <3>1 DEF ReserveLocal, Token
    <3>4. token'[p].local \in Nat
      BY <2>3 DEF Token
    <3> QED BY <3>1, <3>2, <3>3, <3>4
  <2> HIDE DEF IInv, TypeOK, Token, Mutex, Attempts, Staged, Trying, Owners
  <2> QED BY <2>1, <2>2, <2>3, <2>4, <2>5, TokenTallies
<1>9. ASSUME NEW p \in Procs, DropPromise(p) PROVE Tallies'
  <2>1. ticket' = ticket /\ SamePublishers
    BY <1>9, NoneAssumption DEF DropPromise, SamePublishers
  <2>2. SameSums
    BY <2>1, SumsKept DEF SameTickets
  <2>3. token \in [Procs -> Token] /\ token' \in [Procs -> Token] /\ Total(Charged) \in Nat
    BY TokensTyped, CountedTickets DEF Tallies
  <2>4. /\ \A q \in Procs \ {p} : token'[q] = token[q]
        /\ UNCHANGED <<outstanding, allocated, pendingBytes>>
    BY <1>9 DEF DropPromise
  <2>5. /\ budgetReserved' = budgetReserved - token[p].local + token'[p].local
        /\ promised' = promised - token[p].runtime + token'[p].runtime
    <3>1. token[p].local \in Nat /\ token[p].runtime \in Nat
      BY DEF Token
    <3>2. /\ token'[p].runtime = 0 /\ promised' = promised - token[p].runtime
          /\ token'[p].local = token[p].local /\ budgetReserved' = budgetReserved
      BY <1>9 DEF DropPromise, Token
    <3> QED BY <3>1, <3>2
  <2> HIDE DEF IInv, TypeOK, Token, Mutex, Attempts, Staged, Trying, Owners
  <2> QED BY <2>1, <2>2, <2>3, <2>4, <2>5, TokenTallies
<1>10. ASSUME NEW p \in Procs, Enqueue(p) PROVE Tallies'
  <2>1. SameTickets
    BY <1>10 DEF Enqueue, SameTickets
  <2>2. SamePublishers
    BY <1>10, NoneAssumption DEF Enqueue, SamePublishers
  <2>3. UNCHANGED <<token, outstanding, allocated, budgetReserved, promised, pendingBytes>>
    BY <1>10 DEF Enqueue
  <2> HIDE DEF IInv, TypeOK
  <2> QED BY <2>1, <2>2, <2>3, SumsKept, TalliesKept
<1>11. ASSUME NEW p \in Procs, Lock(p) PROVE Tallies'
  <2>1. ticket' = ticket /\ SamePublishers
    BY <1>11, NoneAssumption DEF Lock, SamePublishers, PressureAfter
  <2>2. SameSums
    BY <2>1, SumsKept DEF SameTickets
  <2>3. token \in [Procs -> Token] /\ token' \in [Procs -> Token] /\ Total(Charged) \in Nat
    BY TokensTyped, CountedTickets DEF Tallies
  <2>4. /\ \A q \in Procs \ {p} : token'[q] = token[q]
        /\ UNCHANGED <<outstanding, allocated, pendingBytes>>
    BY <1>11 DEF Lock
  <2>5. /\ budgetReserved' = budgetReserved - token[p].local + token'[p].local
        /\ promised' = promised - token[p].runtime + token'[p].runtime
    <3> DEFINE spent == IF fromToken[p] THEN Bytes(p) ELSE 0
    <3>1. token[p].local \in Nat /\ token[p].runtime \in Nat
      BY DEF Token
    <3>2. cur[p] \in Tickets
      BY <1>11, NoneAssumption DEF Lock
    <3>3. spent \in Nat
      BY <3>2
    <3>4. /\ token'[p].runtime = token[p].runtime - spent /\ promised' = promised - spent
          /\ token'[p].local = token[p].local /\ budgetReserved' = budgetReserved
      BY <1>11 DEF Lock, Token
    <3> HIDE DEF spent
    <3> QED BY <3>1, <3>3, <3>4
  <2> HIDE DEF IInv, TypeOK, Token, Mutex, Attempts, Staged, Trying, Owners
  <2> QED BY <2>1, <2>2, <2>3, <2>4, <2>5, TokenTallies
<1>12. ASSUME NEW p \in Procs, Admit(p) PROVE Tallies'
  <2>1. SameTickets
    BY <1>12 DEF Admit, SameTickets
  <2>2. SamePublishers
    BY <1>12, NoneAssumption DEF Admit, SamePublishers
  <2>3. UNCHANGED <<token, outstanding, allocated, budgetReserved, promised, pendingBytes>>
    BY <1>12 DEF Admit
  <2> HIDE DEF IInv, TypeOK
  <2> QED BY <2>1, <2>2, <2>3, SumsKept, TalliesKept
<1>13. ASSUME NEW p \in Procs, Readmit(p) PROVE Tallies'
  <2>1. SameTickets
    BY <1>13 DEF Readmit, SameTickets
  <2>2. SamePublishers
    BY <1>13, NoneAssumption DEF Readmit, SamePublishers
  <2>3. UNCHANGED <<token, outstanding, allocated, budgetReserved, promised, pendingBytes>>
    BY <1>13 DEF Readmit
  <2> HIDE DEF IInv, TypeOK
  <2> QED BY <2>1, <2>2, <2>3, SumsKept, TalliesKept
<1>14. ASSUME NEW p \in Procs, Malloc(p) PROVE Tallies'
  <2>1. cur[p] \in Tickets /\ pc[p] = "malloc" /\ pc' = [pc EXCEPT ![p] = "publish"] /\ cur' = cur
    BY <1>14, NoneAssumption DEF Malloc
  <2>2. /\ \A x \in Tickets \ {cur[p]} : ticket'[x] = ticket[x]
        /\ ticket'[cur[p]] = [ticket[cur[p]] EXCEPT !.phys = TRUE, !.acquired = TRUE]
        /\ ticket[cur[p]] \in Ticket
    BY <1>14, <2>1 DEF Malloc
  <2>3. ticket[cur[p]].stage = "attempt" /\ ~ticket[cur[p]].acquired
    BY <2>1, NoneAssumption
  <2>4. /\ \A x \in Tickets : /\ ticket'[x].bytes = ticket[x].bytes /\ ticket'[x].charge = ticket[x].charge
                              /\ ticket'[x].pend = ticket[x].pend /\ ticket'[x].stage = ticket[x].stage
        /\ \A x \in Tickets \ {cur[p]} : ticket'[x].acquired = ticket[x].acquired
    <3> DEFINE r == ticket[cur[p]] s == ticket'[cur[p]]
    <3>1. s.bytes = r.bytes /\ s.charge = r.charge /\ s.pend = r.pend /\ s.stage = r.stage
      BY <2>2
    <3> QED BY <2>2, <3>1
  <2> HIDE DEF IInv, TypeOK, Mutex, Attempts, Staged, Trying, Owners, Ticket
  <2>5. Size' = Size /\ Used' = Used /\ Charged' = Charged /\ Pending' = Pending
    BY <2>4 DEF Size, Used, Charged, Pending
  <2>6. Ledger' = Ledger
    <3>1. cur[p] \notin Ledger /\ cur[p] \notin Ledger'
      BY <2>1, <2>3 DEF Ledger, IInv, TypeOK
    <3>2. \A x \in Tickets \ {cur[p]} :
            (\A q \in Procs : pc'[q] = "publish" => cur'[q] # x)
              <=> (\A q \in Procs : pc[q] = "publish" => cur[q] # x)
      BY <2>1 DEF IInv, TypeOK
    <3>3. \A x \in Tickets \ {cur[p]} : x \in Ledger' <=> x \in Ledger
      BY <2>4, <3>2 DEF Ledger
    <3> QED BY <3>1, <3>3 DEF Ledger
  <2>7. UNCHANGED <<token, outstanding, allocated, budgetReserved, promised, pendingBytes>>
    BY <1>14 DEF Malloc, budgetVars, localVars, ledgerVars
  <2> QED BY <2>5, <2>6, <2>7, TalliesKept DEF SameSums
<1>15. ASSUME NEW p \in Procs, MallocRefused(p) PROVE Tallies'
  <2>1. SameTickets
    BY <1>15 DEF MallocRefused, SameTickets
  <2>2. SamePublishers
    BY <1>15, NoneAssumption DEF MallocRefused, SamePublishers
  <2>3. UNCHANGED <<token, outstanding, allocated, budgetReserved, promised, pendingBytes>>
    BY <1>15 DEF MallocRefused
  <2> HIDE DEF IInv, TypeOK
  <2> QED BY <2>1, <2>2, <2>3, SumsKept, TalliesKept
<1>16. ASSUME NEW p \in Procs, Publish(p) PROVE Tallies'
  <2>1. /\ cur[p] \in Tickets /\ pc[p] = "publish" /\ UNCHANGED <<cur, ticket>>
        /\ pc' = [pc EXCEPT ![p] = "init"]
    BY <1>16, NoneAssumption DEF Publish
  <2>2. /\ ticket[cur[p]].stage = "attempt" /\ ticket[cur[p]].acquired
        /\ \A q \in Procs : cur[q] = cur[p] => q = p
    BY <2>1, NoneAssumption
  <2>4. ticket[cur[p]].charge
    BY <2>1, <2>2
  <2>10. /\ UNCHANGED <<token, budgetReserved, promised, pendingBytes>>
         /\ outstanding' = outstanding + ticket[cur[p]].bytes
         /\ allocated' = allocated + ticket[cur[p]].bytes
    BY <1>16 DEF Publish
  <2>11. \A q \in Procs \ {p} : pc'[q] = pc[q] /\ pc'[p] = "init"
    BY <2>1
  <2> HIDE DEF IInv, TypeOK, Ticket, Goto, Mutex, Attempts, Staged, Trying, Owners
  <2>9. TypeOK
    BY DEF IInv
  <2>3. cur[p] \in Used
    BY <2>1, <2>2 DEF Used
  <2>5. Size' = Size /\ Used' = Used /\ Charged' = Charged /\ Pending' = Pending
    BY <2>1 DEF Size, Used, Charged, Pending
  <2>6. Ledger' = Ledger \cup {cur[p]} /\ cur[p] \notin Ledger
    <3>1. cur[p] \notin Ledger
      BY <2>1 DEF Ledger
    <3>2. cur[p] \in Ledger'
      <4>1. \A q \in Procs : pc'[q] = "publish" => cur[q] # cur[p]
        BY <2>1, <2>2, <2>11, <2>9 DEF TypeOK
      <4> QED BY <2>1, <2>2, <4>1 DEF Ledger
    <3>3. \A x \in Tickets \ {cur[p]} : x \in Ledger' <=> x \in Ledger
      <4>1. \A x \in Tickets \ {cur[p]}, q \in Procs :
              (pc'[q] = "publish" => cur'[q] # x) <=> (pc[q] = "publish" => cur[q] # x)
        BY <2>1, <2>11, <2>9 DEF TypeOK
      <4> QED BY <2>1, <4>1 DEF Ledger
    <3> QED BY <2>1, <3>1, <3>2, <3>3 DEF Ledger
  <2>7. /\ Ledger' \cap Charged' = (Ledger \cap Charged) \cup {cur[p]}
        /\ cur[p] \notin Ledger \cap Charged
    BY <2>1, <2>4, <2>5, <2>6 DEF Charged
  <2>20. /\ Finite
         /\ outstanding = Total(Ledger) /\ allocated = Total(Ledger \cap Charged)
         /\ budgetReserved = Total(Charged) + SumOver(Locals, Procs)
         /\ promised = SumOver(Promises, Procs) /\ pendingBytes = Total(Pending)
         /\ IsFiniteSet(Units(Locals, Procs)) /\ IsFiniteSet(Units(Promises, Procs))
         /\ SumOver(Locals, Procs) \in Nat
    BY TallySums, SumPart
  <2>21. /\ Ledger \subseteq Used /\ Charged \subseteq Used /\ Pending \subseteq Used
         /\ \A S : S \subseteq Used => Total(S) \in Nat
    BY <2>20, CountedTickets DEF IInv
  <2>22. Locals' = Locals /\ Promises' = Promises
    BY <2>10 DEF Locals, Promises
  <2>23. /\ ticket[cur[p]].bytes \in Nat /\ Total(Ledger) \in Nat
         /\ cur[p] \notin Ledger =>
              Total(Ledger \cup {cur[p]})
                = Total(Ledger) + ticket[cur[p]].bytes
         /\ cur[p] \in Ledger => Total(Ledger \ {cur[p]}) = Total(Ledger) - ticket[cur[p]].bytes
    BY <2>3, <2>9, <2>20, <2>21, TotalMoves DEF IInv
  <2>24. /\ ticket[cur[p]].bytes \in Nat /\ Total(Ledger \cap Charged) \in Nat
         /\ cur[p] \notin (Ledger \cap Charged) =>
              Total((Ledger \cap Charged) \cup {cur[p]})
                = Total(Ledger \cap Charged) + ticket[cur[p]].bytes
         /\ cur[p] \in (Ledger \cap Charged) =>
              Total((Ledger \cap Charged) \ {cur[p]})
                = Total(Ledger \cap Charged) - ticket[cur[p]].bytes
    BY <2>3, <2>9, <2>20, <2>21, TotalMoves DEF IInv
  <2>25. outstanding' = Total(Ledger') /\ allocated' = Total(Ledger' \cap Charged')
    BY <2>6, <2>7, <2>10, <2>20, <2>23, <2>24
  <2> QED BY <2>5, <2>10, <2>20, <2>22, <2>25, TalliesFrom
<1>17. ASSUME NEW p \in Procs, Initialize(p) PROVE Tallies'
  <2>1. PICK s \in {"live", "cold"} : ticket' = [ticket EXCEPT ![cur[p]].stage = s]
    BY <1>17 DEF Initialize
  <2>2. cur[p] \in Tickets /\ pc[p] = "init"
    BY <1>17, NoneAssumption DEF Initialize
  <2>6. ticket[cur[p]].stage = "attempt"
    BY <2>2, NoneAssumption
  <2>3. SameTickets
    BY <2>1, <2>2, <2>6 DEF SameTickets
  <2>4. SamePublishers
    BY <1>17, NoneAssumption DEF Initialize, SamePublishers
  <2>5. UNCHANGED <<token, outstanding, allocated, budgetReserved, promised, pendingBytes>>
    BY <1>17 DEF Initialize
  <2> HIDE DEF IInv, TypeOK
  <2> QED BY <2>3, <2>4, <2>5, SumsKept, TalliesKept
<1>18. ASSUME NEW p \in Procs, RefundBudget(p) PROVE Tallies'
  <2>1. SameTickets
    BY <1>18 DEF RefundBudget, SameTickets
  <2>2. SamePublishers
    BY <1>18, NoneAssumption DEF RefundBudget, SamePublishers
  <2>3. UNCHANGED <<token, outstanding, allocated, budgetReserved, promised, pendingBytes>>
    BY <1>18 DEF RefundBudget
  <2> HIDE DEF IInv, TypeOK
  <2> QED BY <2>1, <2>2, <2>3, SumsKept, TalliesKept
<1>19. ASSUME NEW p \in Procs, Unlock(p) PROVE Tallies'
  <2>1. ticket' = ticket /\ SamePublishers
    BY <1>19, NoneAssumption DEF Unlock, SamePublishers
  <2>2. SameSums
    BY <2>1, SumsKept DEF SameTickets
  <2>3. token \in [Procs -> Token] /\ token' \in [Procs -> Token] /\ Total(Charged) \in Nat
    BY TokensTyped, CountedTickets DEF Tallies
  <2>4. /\ \A q \in Procs \ {p} : token'[q] = token[q]
        /\ UNCHANGED <<outstanding, allocated, pendingBytes>>
    BY <1>19 DEF Unlock
  <2>5. /\ budgetReserved' = budgetReserved - token[p].local + token'[p].local
        /\ promised' = promised - token[p].runtime + token'[p].runtime
    <3> DEFINE restored == IF fromToken[p] /\ Unacquired(p) THEN Bytes(p) ELSE 0
    <3>1. token[p].local \in Nat /\ token[p].runtime \in Nat
      BY DEF Token
    <3>2. cur[p] \in Tickets
      BY <1>19, NoneAssumption DEF Unlock
    <3>3. restored \in Nat
      BY <3>2
    <3>4. /\ token'[p].runtime = token[p].runtime + restored /\ promised' = promised + restored
          /\ token'[p].local = token[p].local /\ budgetReserved' = budgetReserved
      BY <1>19 DEF Unlock, Token
    <3> HIDE DEF restored
    <3> QED BY <3>1, <3>3, <3>4
  <2> HIDE DEF IInv, TypeOK, Token, Mutex, Attempts, Staged, Trying, Owners
  <2> QED BY <2>1, <2>2, <2>3, <2>4, <2>5, TokenTallies
<1>20. ASSUME NEW p \in Procs, UnwindLocal(p) PROVE Tallies'
  <2>1. cur[p] \in Tickets /\ pc[p] = "unwindLocal" /\ SamePublishers
    BY <1>20, NoneAssumption DEF UnwindLocal, SamePublishers
  <2>2. UNCHANGED <<outstanding, allocated, promised, pendingBytes>>
    BY <1>20 DEF UnwindLocal
  <2>30. CASE ~Unacquired(p)
    <3>1. UNCHANGED <<token, ticket, budgetReserved>>
      BY <1>20, <2>30 DEF UnwindLocal
    <3>2. SameTickets
      BY <3>1 DEF SameTickets
    <3> HIDE DEF IInv, TypeOK, Ticket, Goto, Mutex, Attempts, Staged, Trying, Owners
    <3> QED BY <2>1, <2>2, <3>1, <3>2, SumsKept, TalliesKept
  <2>31. CASE Unacquired(p)
    <3>1. ticket[cur[p]].stage = "attempt" /\ ~ticket[cur[p]].acquired
      BY <2>1, <2>31, NoneAssumption
    <3>2. ticket[cur[p]].charge
      BY <2>1, <3>1
    <3>3. /\ \A x \in Tickets \ {cur[p]} : ticket'[x] = ticket[x]
          /\ ticket'[cur[p]] = [ticket[cur[p]] EXCEPT !.stage = "refused", !.charge = FALSE]
      BY <1>20, <2>1, <2>31 DEF UnwindLocal
    <3>4. LET r == ticket[cur[p]] s == ticket'[cur[p]]
          IN  s.bytes = r.bytes /\ s.stage = "refused" /\ ~s.charge /\ s.acquired = r.acquired /\ s.pend = r.pend
      BY <2>1, <3>3
    <3>5. IF fromToken[p]
          THEN token' = [token EXCEPT ![p].local = @ + ticket[cur[p]].bytes] /\ budgetReserved' = budgetReserved
          ELSE token' = token /\ budgetReserved' = budgetReserved - ticket[cur[p]].bytes
      BY <1>20, <2>31 DEF UnwindLocal
    <3>6. token \in [Procs -> Token] /\ token' \in [Procs -> Token]
      BY TokensTyped
    <3>7. /\ \A q \in Procs \ {p} : token'[q] = token[q]
          /\ token'[p].runtime = token[p].runtime
          /\ token'[p].local = token[p].local + (IF fromToken[p] THEN ticket[cur[p]].bytes ELSE 0)
      <4>1. token[p].local \in Nat
        BY <3>6 DEF Token
      <4>2. CASE fromToken[p]
        BY <3>5, <3>6, <4>1, <4>2 DEF Token
      <4>3. CASE ~fromToken[p]
        BY <3>5, <4>1, <4>3
      <4> QED BY <4>2, <4>3
    <3>8. token[p].local \in Nat /\ token[p].runtime \in Nat
      BY <3>6 DEF Token
    <3> HIDE DEF IInv, TypeOK, Ticket, Token, Goto, Mutex, Attempts, Staged, Trying, Owners
    <3>9. TypeOK
      BY DEF IInv
    <3>10. cur[p] \in Used
      BY <2>1, <3>1 DEF Used
    <3>11. Size' = Size /\ Used' = Used /\ Pending' = Pending
      BY <2>1, <3>1, <3>3, <3>4 DEF Size, Used, Pending
    <3>12. Charged' = Charged \ {cur[p]} /\ cur[p] \in Charged
      BY <2>1, <3>2, <3>3, <3>4 DEF Charged
    <3>13. Ledger' = Ledger /\ cur[p] \notin Ledger
      <4>1. \A x \in Tickets : (\A q \in Procs : pc'[q] = "publish" => cur'[q] # x)
                                 <=> (\A q \in Procs : pc[q] = "publish" => cur[q] # x)
        BY <2>1 DEF SamePublishers
      <4>2. cur[p] \notin Ledger /\ cur[p] \notin Ledger'
        BY <2>1, <3>1, <3>4 DEF Ledger
      <4>3. \A x \in Tickets \ {cur[p]} : x \in Ledger' <=> x \in Ledger
        BY <3>3, <4>1 DEF Ledger
      <4> QED BY <4>2, <4>3 DEF Ledger
    <3>14. Ledger' \cap Charged' = Ledger \cap Charged
      BY <3>12, <3>13
    <3>20. /\ Finite
           /\ outstanding = Total(Ledger) /\ allocated = Total(Ledger \cap Charged)
           /\ budgetReserved = Total(Charged) + SumOver(Locals, Procs)
           /\ promised = SumOver(Promises, Procs) /\ pendingBytes = Total(Pending)
      BY TallySums
    <3>21. Charged \subseteq Used
      BY <3>9, <3>20, CountedTickets DEF IInv
    <3>22. /\ IsFiniteSet(Units(Locals', Procs)) /\ IsFiniteSet(Units(Promises', Procs))
           /\ SumOver(Locals', Procs) = SumOver(Locals, Procs) - token[p].local + token'[p].local
           /\ SumOver(Promises', Procs) = SumOver(Promises, Procs) - token[p].runtime + token'[p].runtime
           /\ SumOver(Locals, Procs) \in Nat /\ SumOver(Promises, Procs) \in Nat
      BY <3>6, <3>7, <3>20, TokenSums
    <3>23. /\ ticket[cur[p]].bytes \in Nat /\ Total(Charged) \in Nat
           /\ Total(Charged \ {cur[p]}) = Total(Charged) - ticket[cur[p]].bytes
      BY <3>9, <3>10, <3>12, <3>20, <3>21, TotalMoves DEF IInv
    <3>24. budgetReserved' = Total(Charged') + SumOver(Locals', Procs)
      <4>1. CASE fromToken[p]
        BY <3>5, <3>7, <3>8, <3>12, <3>20, <3>22, <3>23, <4>1
      <4>2. CASE ~fromToken[p]
        BY <3>5, <3>7, <3>8, <3>12, <3>20, <3>22, <3>23, <4>2
      <4> QED BY <4>1, <4>2
    <3>25. promised' = SumOver(Promises', Procs)
      BY <2>2, <3>7, <3>8, <3>20, <3>22
    <3> QED BY <2>2, <3>11, <3>13, <3>14, <3>20, <3>22, <3>24, <3>25, TalliesFrom
  <2> QED BY <2>30, <2>31
<1>21. ASSUME NEW p \in Procs, TakeBatch(p) PROVE Tallies'
  <2>1. SameTickets
    BY <1>21 DEF TakeBatch, TakePending, SameTickets
  <2>2. SamePublishers
    BY <1>21, NoneAssumption DEF TakeBatch, TakePending, SamePublishers
  <2>3. UNCHANGED <<token, outstanding, allocated, budgetReserved, promised, pendingBytes>>
    BY <1>21 DEF TakeBatch, TakePending
  <2> HIDE DEF IInv, TypeOK
  <2> QED BY <2>1, <2>2, <2>3, SumsKept, TalliesKept
<1>22. ASSUME NEW p \in Procs, ReapDone(p) PROVE Tallies'
  <2>1. SameTickets
    BY <1>22 DEF ReapDone, AfterReap, SameTickets
  <2>2. SamePublishers
    BY <1>22, NoneAssumption DEF ReapDone, AfterReap, SamePublishers
  <2>3. UNCHANGED <<token, outstanding, allocated, budgetReserved, promised, pendingBytes>>
    BY <1>22 DEF ReapDone, AfterReap
  <2> HIDE DEF IInv, TypeOK
  <2> QED BY <2>1, <2>2, <2>3, SumsKept, TalliesKept
<1>23. ASSUME NEW p \in Procs, NEW t \in Tickets, ReleaseNext(p, t) PROVE Tallies'
  <2>1. SameTickets
    BY <1>23 DEF ReleaseNext, SameTickets
  <2>2. SamePublishers
    BY <1>23, NoneAssumption DEF ReleaseNext, SamePublishers
  <2>3. UNCHANGED <<token, outstanding, allocated, budgetReserved, promised, pendingBytes>>
    BY <1>23 DEF ReleaseNext
  <2> HIDE DEF IInv, TypeOK
  <2> QED BY <2>1, <2>2, <2>3, SumsKept, TalliesKept
<1>24. ASSUME NEW p \in Procs, Free(p) PROVE Tallies'
  <2>1. SameTickets
    BY <1>24 DEF Free, SameTickets
  <2>2. SamePublishers
    BY <1>24, NoneAssumption DEF Free, SamePublishers
  <2>3. UNCHANGED <<token, outstanding, allocated, budgetReserved, promised, pendingBytes>>
    BY <1>24 DEF Free
  <2> HIDE DEF IInv, TypeOK
  <2> QED BY <2>1, <2>2, <2>3, SumsKept, TalliesKept
<1>25. ASSUME NEW p \in Procs, FreeFails(p) PROVE Tallies'
  <2>1. SameTickets
    BY <1>25 DEF FreeFails, AfterReap, Unfinished, SameTickets
  <2>2. SamePublishers
    BY <1>25, NoneAssumption DEF FreeFails, AfterReap, Unfinished, SamePublishers
  <2>3. UNCHANGED <<token, outstanding, allocated, budgetReserved, promised, pendingBytes>>
    BY <1>25 DEF FreeFails, AfterReap, Unfinished
  <2> HIDE DEF IInv, TypeOK
  <2> QED BY <2>1, <2>2, <2>3, SumsKept, TalliesKept
<1>26. ASSUME NEW p \in Procs, SettleLocal(p) PROVE Tallies'
  <2>1. /\ rel[p] \in Tickets /\ InHands(p, rel[p]) /\ SamePublishers
    BY <1>26, NoneAssumption DEF SettleLocal, SamePublishers
  <2>2. ticket[rel[p]].stage = "taken" /\ ticket[rel[p]].acquired
    BY <2>1
  <2>4. /\ \A x \in Tickets \ {rel[p]} : ticket'[x] = ticket[x]
        /\ ticket'[rel[p]] = [ticket[rel[p]] EXCEPT !.charge = FALSE]
    BY <1>26, <2>1 DEF SettleLocal
  <2>7. LET r == ticket[rel[p]] s == ticket'[rel[p]]
        IN  s.bytes = r.bytes /\ s.stage = r.stage /\ s.pend = r.pend /\ s.acquired = r.acquired /\ ~s.charge
    BY <2>1, <2>4
  <2>10. UNCHANGED <<token, outstanding, promised, pendingBytes>>
    BY <1>26 DEF SettleLocal
  <2>11. LET n == IF ticket[rel[p]].charge THEN ticket[rel[p]].bytes ELSE 0
         IN  allocated' = allocated - n /\ budgetReserved' = budgetReserved - n
    BY <1>26 DEF SettleLocal
  <2>12. ticket[rel[p]].bytes \in Nat /\ \A q \in Procs : pc[q] = "publish" => cur[q] # rel[p]
    <3>1. \A q \in Procs : pc[q] = "publish" => cur[q] # None /\ ticket[cur[q]].stage = "attempt"
      BY NoneAssumption
    <3> QED BY <2>1, <2>2, <3>1
  <2> HIDE DEF IInv, TypeOK, Ticket, Goto, Mutex, Attempts, Staged, Trying, Owners
  <2>9. TypeOK
    BY DEF IInv
  <2>3. rel[p] \in Used
    BY <2>1, <2>2 DEF Used
  <2>19. \A x \in Tickets : /\ ticket'[x].bytes = ticket[x].bytes /\ ticket'[x].acquired = ticket[x].acquired
                            /\ ticket'[x].pend = ticket[x].pend /\ ticket'[x].stage = ticket[x].stage
    BY <2>1, <2>4, <2>7
  <2>5. Size' = Size /\ Used' = Used /\ Pending' = Pending /\ Ledger' = Ledger
    BY <2>1, <2>19, Unpublished DEF Size, Used, Pending, Ledger
  <2>6. Charged' = Charged \ {rel[p]} /\ (rel[p] \in Charged <=> ticket[rel[p]].charge)
    BY <2>1, <2>4, <2>7 DEF Charged
  <2>8. rel[p] \in Ledger
    BY <2>1, <2>2, <2>12 DEF Ledger
  <2>13. Ledger' \cap Charged' = (Ledger \cap Charged) \ {rel[p]}
    BY <2>5, <2>6
  <2>20. /\ Finite
         /\ outstanding = Total(Ledger) /\ allocated = Total(Ledger \cap Charged)
         /\ budgetReserved = Total(Charged) + SumOver(Locals, Procs)
         /\ promised = SumOver(Promises, Procs) /\ pendingBytes = Total(Pending)
         /\ IsFiniteSet(Units(Locals, Procs)) /\ IsFiniteSet(Units(Promises, Procs))
         /\ SumOver(Locals, Procs) \in Nat
    BY TallySums, SumPart
  <2>21. /\ Ledger \subseteq Used /\ Charged \subseteq Used /\ Pending \subseteq Used
         /\ \A S : S \subseteq Used => Total(S) \in Nat
    BY <2>20, CountedTickets DEF IInv
  <2>22. Locals' = Locals /\ Promises' = Promises
    BY <2>10 DEF Locals, Promises
  <2>23. /\ ticket[rel[p]].bytes \in Nat /\ Total(Charged) \in Nat
         /\ rel[p] \notin Charged =>
              Total(Charged \cup {rel[p]})
                = Total(Charged) + ticket[rel[p]].bytes
         /\ rel[p] \in Charged =>
              Total(Charged \ {rel[p]})
                = Total(Charged) - ticket[rel[p]].bytes
    BY <2>3, <2>9, <2>20, <2>21, TotalMoves DEF IInv
  <2>24. /\ ticket[rel[p]].bytes \in Nat /\ Total(Ledger \cap Charged) \in Nat
         /\ rel[p] \notin (Ledger \cap Charged) =>
              Total((Ledger \cap Charged) \cup {rel[p]})
                = Total(Ledger \cap Charged) + ticket[rel[p]].bytes
         /\ rel[p] \in (Ledger \cap Charged) =>
              Total((Ledger \cap Charged) \ {rel[p]})
                = Total(Ledger \cap Charged) - ticket[rel[p]].bytes
    BY <2>3, <2>9, <2>20, <2>21, TotalMoves DEF IInv
  <2>25. /\ budgetReserved' = Total(Charged') + SumOver(Locals, Procs)
         /\ allocated' = Total(Ledger' \cap Charged')
    <3>1. CASE ticket[rel[p]].charge
      <4>1. Total(Charged') = Total(Charged) - ticket[rel[p]].bytes
        BY <2>6, <2>23, <3>1
      <4>2. Total(Ledger' \cap Charged') = Total(Ledger \cap Charged) - ticket[rel[p]].bytes
        BY <2>6, <2>8, <2>13, <2>24, <3>1
      <4>3. /\ allocated' = allocated - ticket[rel[p]].bytes
            /\ budgetReserved' = budgetReserved - ticket[rel[p]].bytes
        BY <2>11, <3>1
      <4>4. /\ ticket[rel[p]].bytes \in Nat /\ Total(Charged) \in Nat /\ SumOver(Locals, Procs) \in Nat
            /\ allocated = Total(Ledger \cap Charged)
            /\ budgetReserved = Total(Charged) + SumOver(Locals, Procs)
        BY <2>20, <2>23
      <4> QED BY <4>1, <4>2, <4>3, <4>4
    <3>2. CASE ~ticket[rel[p]].charge
      <4>1. Charged' = Charged /\ Ledger' \cap Charged' = Ledger \cap Charged
        BY <2>5, <2>6, <3>2
      <4>2. allocated' = allocated /\ budgetReserved' = budgetReserved
        <5>1. allocated \in Nat /\ budgetReserved \in Nat
          BY <2>9 DEF TypeOK
        <5>2. allocated' = allocated - 0 /\ budgetReserved' = budgetReserved - 0
          BY <2>11, <3>2
        <5> QED BY <5>1, <5>2
      <4> QED BY <2>20, <4>1, <4>2
    <3> QED BY <3>1, <3>2
  <2> QED BY <2>5, <2>10, <2>20, <2>22, <2>25, TalliesFrom
<1>27. ASSUME NEW p \in Procs, SettleLedger(p) PROVE Tallies'
  <2>1. rel[p] \in Tickets /\ InHands(p, rel[p]) /\ SamePublishers
    BY <1>27, NoneAssumption DEF SettleLedger, SamePublishers
  <2>2. ticket[rel[p]].stage = "taken" /\ ticket[rel[p]].acquired /\ ~ticket[rel[p]].charge
    BY <1>27, <2>1 DEF SettleLedger
  <2>4. /\ \A x \in Tickets \ {rel[p]} : ticket'[x] = ticket[x]
        /\ ticket'[rel[p]] = [ticket[rel[p]] EXCEPT !.stage = "freed", !.pend = FALSE]
    BY <1>27, <2>1 DEF SettleLedger
  <2>7. LET r == ticket[rel[p]] s == ticket'[rel[p]]
        IN  s.bytes = r.bytes /\ s.stage = "freed" /\ ~s.pend /\ s.acquired = r.acquired /\ s.charge = r.charge
    BY <2>1, <2>4
  <2>10. UNCHANGED <<token, allocated, budgetReserved, promised>>
    BY <1>27 DEF SettleLedger
  <2>11. /\ outstanding' = outstanding - ticket[rel[p]].bytes
         /\ pendingBytes' = pendingBytes - (IF ticket[rel[p]].pend THEN ticket[rel[p]].bytes ELSE 0)
    BY <1>27 DEF SettleLedger
  <2>12. ticket[rel[p]].bytes \in Nat /\ \A q \in Procs : pc[q] = "publish" => cur[q] # rel[p]
    <3>1. \A q \in Procs : pc[q] = "publish" => cur[q] # None /\ ticket[cur[q]].stage = "attempt"
      BY NoneAssumption
    <3> QED BY <2>1, <2>2, <3>1
  <2> HIDE DEF IInv, TypeOK, Ticket, Goto, Mutex, Attempts, Staged, Trying, Owners
  <2>9. TypeOK
    BY DEF IInv
  <2>3. rel[p] \in Used
    BY <2>1, <2>2 DEF Used
  <2>19. \A x \in Tickets : /\ ticket'[x].bytes = ticket[x].bytes /\ ticket'[x].charge = ticket[x].charge
                            /\ ticket'[x].stage = "unused" <=> ticket[x].stage = "unused"
    BY <2>1, <2>2, <2>4, <2>7
  <2>5. Size' = Size /\ Used' = Used /\ Charged' = Charged
    BY <2>19 DEF Size, Used, Charged
  <2>6. Pending' = Pending \ {rel[p]} /\ (rel[p] \in Pending <=> ticket[rel[p]].pend)
    BY <2>1, <2>4, <2>7 DEF Pending
  <2>8. rel[p] \in Ledger /\ Ledger' = Ledger \ {rel[p]}
    <3>1. rel[p] \in Ledger
      BY <2>1, <2>2, <2>12 DEF Ledger
    <3>2. \A x \in Tickets : (\A q \in Procs : pc'[q] = "publish" => cur'[q] # x)
                               <=> (\A q \in Procs : pc[q] = "publish" => cur[q] # x)
      BY <2>1 DEF SamePublishers
    <3> QED BY <2>1, <2>4, <2>7, <3>1, <3>2 DEF Ledger
  <2>13. Ledger' \cap Charged' = Ledger \cap Charged
    BY <2>1, <2>2, <2>5, <2>8 DEF Charged
  <2>20. /\ Finite
         /\ outstanding = Total(Ledger) /\ allocated = Total(Ledger \cap Charged)
         /\ budgetReserved = Total(Charged) + SumOver(Locals, Procs)
         /\ promised = SumOver(Promises, Procs) /\ pendingBytes = Total(Pending)
         /\ IsFiniteSet(Units(Locals, Procs)) /\ IsFiniteSet(Units(Promises, Procs))
         /\ SumOver(Locals, Procs) \in Nat
    BY TallySums, SumPart
  <2>21. /\ Ledger \subseteq Used /\ Charged \subseteq Used /\ Pending \subseteq Used
         /\ \A S : S \subseteq Used => Total(S) \in Nat
    BY <2>20, CountedTickets DEF IInv
  <2>22. Locals' = Locals /\ Promises' = Promises
    BY <2>10 DEF Locals, Promises
  <2>23. /\ ticket[rel[p]].bytes \in Nat /\ Total(Ledger) \in Nat
         /\ rel[p] \notin Ledger =>
              Total(Ledger \cup {rel[p]})
                = Total(Ledger) + ticket[rel[p]].bytes
         /\ rel[p] \in Ledger => Total(Ledger \ {rel[p]}) = Total(Ledger) - ticket[rel[p]].bytes
    BY <2>3, <2>9, <2>20, <2>21, TotalMoves DEF IInv
  <2>24. /\ ticket[rel[p]].bytes \in Nat /\ Total(Pending) \in Nat
         /\ rel[p] \notin Pending =>
              Total(Pending \cup {rel[p]})
                = Total(Pending) + ticket[rel[p]].bytes
         /\ rel[p] \in Pending =>
              Total(Pending \ {rel[p]})
                = Total(Pending) - ticket[rel[p]].bytes
    BY <2>3, <2>9, <2>20, <2>21, TotalMoves DEF IInv
  <2>25. outstanding' = Total(Ledger')
    BY <2>8, <2>11, <2>20, <2>23
  <2>26. pendingBytes' = Total(Pending')
    <3>1. CASE ticket[rel[p]].pend
      BY <2>6, <2>11, <2>20, <2>24, <3>1
    <3>2. CASE ~ticket[rel[p]].pend
      <4>1. Pending' = Pending /\ pendingBytes' = pendingBytes - 0
        BY <2>6, <2>11, <3>2
      <4> QED BY <2>20, <2>24, <4>1
    <3> QED BY <3>1, <3>2
  <2> QED BY <2>5, <2>10, <2>13, <2>20, <2>22, <2>25, <2>26, TalliesFrom
<1>28. CASE UNCHANGED vars
  <2>1. SameTickets /\ SamePublishers
    BY <1>28 DEF vars, SameTickets, SamePublishers
  <2> QED BY <1>28, <2>1, SumsKept, TalliesKept DEF vars
<1> QED
  BY <1>1, <1>2, <1>3, <1>4, <1>5, <1>6, <1>7, <1>8, <1>9, <1>10, <1>11, <1>12, <1>13, <1>14,
  <1>15, <1>16, <1>17, <1>18, <1>19, <1>20, <1>21, <1>22, <1>23, <1>24, <1>25, <1>26, <1>27,
  <1>28 DEF Next, Request, Continue

\* In the first state only the block the backend held before is counted.
LEMMA InitAccounts == Init => Accounts
<1> SUFFICES ASSUME Init PROVE Accounts
  OBVIOUS
<1>1. Staged
  BY NoneAssumption DEF Init, Staged
<1>2. Trying
  BY NoneAssumption DEF Init, Trying
<1>3. Owners
  BY NoneAssumption DEF Init, Owners, InHands
<1>4. /\ \A t \in Tickets : ~ticket[t].charge /\ ~ticket[t].pend
      /\ \A t \in Tickets : ticket[t].acquired <=> t = Old /\ InitialUsed > 0
      /\ \A t \in Tickets : ticket[t].stage # "unused" <=> t = Old /\ InitialUsed > 0
      /\ \A t \in Tickets : ticket[t].stage # "freed"
      /\ \A t \in Tickets : ticket[t].bytes = IF t = Old THEN InitialUsed ELSE 0
      /\ \A p \in Procs : token[p].local = 0 /\ token[p].runtime = 0 /\ pc[p] # "publish"
  BY InitialAssumption DEF Init, NoToken
<1>5. Charged = {} /\ Pending = {} /\ Ledger \cap Charged = {}
  BY <1>4 DEF Charged, Pending
<1>6. Used = Ledger /\ Ledger = {t \in {Old} : InitialUsed > 0}
  BY <1>4, OldAssumption DEF Used, Ledger
<1>7. \A f : IsFiniteSet(Units(f, {})) /\ SumOver(f, {}) = 0
  BY SumNone
<1>8. IsFiniteSet(Units(Size, Ledger)) /\ Total(Ledger) = InitialUsed
  <2>1. Size[Old] = InitialUsed /\ InitialUsed \in Nat
    BY <1>4, OldAssumption, InitialAssumption DEF Size
  <2>2. CASE InitialUsed = 0
    <3>1. Ledger = {}
      BY <1>6, <2>2
    <3> QED BY <1>7, <2>2, <3>1 DEF Total
  <2>3. CASE InitialUsed # 0
    <3>1. Ledger = {Old} /\ {Old} = {} \cup {Old} /\ Old \notin {}
      BY <1>6, <2>1, <2>3
    <3>2. /\ IsFiniteSet(Units(Size, {} \cup {Old}))
          /\ SumOver(Size, {} \cup {Old}) = SumOver(Size, {}) + Size[Old]
      BY <1>7, <2>1, SumAdd
    <3> QED BY <1>7, <2>1, <3>1, <3>2 DEF Total
  <2> QED BY <2>2, <2>3
<1>9. /\ IsFiniteSet(Units(Locals, Procs)) /\ SumOver(Locals, Procs) = 0
      /\ IsFiniteSet(Units(Promises, Procs)) /\ SumOver(Promises, Procs) = 0
  <2>1. \A p \in Procs : Locals[p] = 0 /\ Promises[p] = 0
    BY <1>4 DEF Locals, Promises
  <2> QED BY <2>1, SumNone
<1>10. Total(Charged) = 0 /\ Total(Pending) = 0 /\ Total(Ledger \cap Charged) = 0
  BY <1>5, <1>7 DEF Total
<1>11. /\ outstanding = InitialUsed /\ allocated = 0 /\ budgetReserved = 0 /\ promised = 0 /\ pendingBytes = 0
  BY DEF Init
<1>12. Tallies
  BY <1>6, <1>8, <1>9, <1>10, <1>11 DEF Tallies, Finite, Promised
<1> QED BY <1>1, <1>2, <1>3, <1>12 DEF Accounts

\* Every counter is the sum of what it counts, at every moment.
THEOREM AccountsHold == Spec => []Accounts
<1>1. IInv /\ Accounts /\ [Next]_vars => Accounts'
  BY StagedStep, TryingStep, OwnersStep, TalliesStep DEF Accounts
<1> QED BY <1>1, InitAccounts, Invariant, PTL DEF Spec

\* An owner that left its queue is in the hands of exactly one thread: a reap
\* that fails loses none, and two reaps share none (PendingReclamationBatch).
THEOREM OwnerInOneHand == Spec => []OwnersTracked
<1>1. Accounts => OwnersTracked
  BY DEF Accounts, Owners, InHands, OwnersTracked
<1> QED BY <1>1, AccountsHold, PTL

\* Memory the driver holds is in the ledger, but for the allocation that is
\* about to be published.
LEMMA HeldIsCounted ==
  ASSUME IInv, Staged
  PROVE  \A t \in Held : t \in Ledger \/ (promiseLock # None /\ pc[promiseLock] = "publish" /\ cur[promiseLock] = t)
<1> SUFFICES ASSUME NEW t \in Held, t \notin Ledger
             PROVE  promiseLock # None /\ pc[promiseLock] = "publish" /\ cur[promiseLock] = t
  OBVIOUS
<1>1. t \in Tickets /\ ticket[t].stage \in Stages /\ ticket[t].phys
  BY DEF IInv, TypeOK, Ticket, Held
<1>2. ticket[t].acquired /\ ticket[t].stage # "freed"
  BY <1>1 DEF Staged, Stages
<1>3. PICK p \in Procs : pc[p] = "publish" /\ cur[p] = t
  BY <1>1, <1>2 DEF Ledger
<1>4. promiseLock = p
  BY <1>3 DEF IInv, Mutex, Holding, Critical
<1> QED BY <1>3, <1>4, NoneAssumption

\* The memory the driver holds and the bytes still promised fit the limit, also
\* while a reap, a refund or an allocation is under way
\* (GlobalDeviceBudget::allocate_with_pressure).
THEOREM HeldWithinLimit == Spec => []PhysicalWithinLimit
<1>1. IInv /\ Accounts => PhysicalWithinLimit
  <2> SUFFICES ASSUME IInv, Staged, Tallies PROVE PhysicalWithinLimit
    BY DEF Accounts
  <2>1. Reserved = outstanding + Inflight /\ Reserved + promised + Limbo <= Limit
    BY DEF IInv, Limits
  <2>2. TypeOK /\ Attempts
    BY DEF IInv
  <2>3. Finite /\ outstanding = Total(Ledger)
    BY TallySums
  <2>4. Limbo \in Nat
    BY NoneAssumption DEF IInv, TypeOK, Mutex, Holding, Limbo, Bytes, Ticket
  <2>5. Inflight \in Nat
    BY NoneAssumption DEF IInv, TypeOK, Mutex, Holding, Critical, Inflight, Bytes, Ticket
  <2>6. promised \in Nat /\ Limit \in Nat
    BY <2>2, LimitAssumption DEF TypeOK
  <2>7. /\ Ledger \subseteq Used /\ IsFiniteSet(Units(Size, Ledger)) /\ Total(Ledger) \in Nat
        /\ \A x \in Tickets : Size[x] = ticket[x].bytes /\ Size[x] \in Nat
    BY <2>2, <2>3, CountedTickets
  <2>8. Total(Held) \in Nat /\ Total(Held) <= Total(Ledger) + Inflight
    <3>1. CASE Held \subseteq Ledger
      <4>1. Total(Held) \in Nat /\ Total(Held) <= Total(Ledger)
        BY <2>7, <3>1, SumPart DEF Total
      <4> QED BY <2>5, <2>7, <4>1
    <3>2. CASE ~(Held \subseteq Ledger)
      <4>1. PICK t \in Held : t \notin Ledger
        BY <3>2
      <4>2. /\ promiseLock # None /\ pc[promiseLock] = "publish" /\ cur[promiseLock] = t
            /\ Held \subseteq Ledger \cup {t}
        BY <4>1, HeldIsCounted
      <4>3. t \in Tickets
        BY DEF Held
      <4>4. Inflight = Size[t]
        BY <2>7, <4>2, <4>3 DEF Inflight, Bytes
      <4>5. /\ IsFiniteSet(Units(Size, Ledger \cup {t}))
            /\ SumOver(Size, Ledger \cup {t}) = SumOver(Size, Ledger) + Size[t]
        BY <2>7, <4>1, <4>3, SumAdd
      <4>6. Total(Held) \in Nat /\ Total(Held) <= SumOver(Size, Ledger \cup {t})
        BY <4>2, <4>5, SumPart DEF Total
      <4> QED BY <4>4, <4>5, <4>6 DEF Total
    <3> QED BY <3>1, <3>2
  <2> HIDE DEF Reserved
  <2>9. Total(Held) + promised <= Reserved + promised + Limbo
    BY <2>1, <2>3, <2>4, <2>5, <2>6, <2>7, <2>8
  <2>10. outstanding \in Nat
    BY <2>3, <2>7
  <2> QED BY <2>1, <2>3, <2>4, <2>5, <2>6, <2>8, <2>9, <2>10 DEF PhysicalWithinLimit
<1> QED BY <1>1, Invariant, AccountsHold, PTL

\* When no call is in progress every counter of every layer is the sum of the
\* memory that is held and of the reservations that are open: nothing is
\* refunded twice, kept after a refusal or lost with a late release
\* (AllocationReclamation::complete, LocalAllocationAttempt::drop).
THEOREM CountersSettle == Spec => []Settled
<1>1. IInv /\ Accounts => Settled
  <2> SUFFICES ASSUME IInv, Accounts, \A p \in Procs : pc[p] = "idle"
               PROVE  /\ outstanding = Total(Held) /\ Reserved = outstanding
                      /\ allocated = Total({t \in Held : ticket[t].charge})
                      /\ promised = Promised
                      /\ \A p \in Procs : token[p].local = token[p].runtime
                      /\ budgetReserved = allocated + Promised
                      /\ pendingBytes = Total({t \in Tickets : ticket[t].stage = "pending"})
    BY DEF Settled
  <2>1. TypeOK /\ Mutex /\ Reservations /\ Limits /\ Attempts
    BY DEF IInv
  <2>2. Staged /\ Trying /\ Owners /\ Tallies
    BY DEF Accounts
  <2>3. \A p \in Procs : cur[p] = None /\ batch[p] = {} /\ rel[p] = None
    BY <2>1, <2>2 DEF Mutex, Owners, Releasing
  <2>4. \A t \in Tickets : ticket[t].stage \in Stages \ {"attempt", "taken"}
    <3>1. \A t \in Tickets : ticket[t].stage \in Stages
      BY <2>1 DEF TypeOK, Ticket
    <3>2. \A t \in Tickets : ticket[t].stage # "attempt"
      BY <2>2, <2>3, NoneAssumption DEF Staged
    <3>3. \A t \in Tickets : ticket[t].stage # "taken"
      BY <2>2, <2>3, NoneAssumption DEF Owners, InHands
    <3> QED BY <3>1, <3>2, <3>3
  <2>5. \A t \in Tickets :
          /\ ticket[t].phys <=> ticket[t].acquired /\ ticket[t].stage # "freed"
          /\ ticket[t].charge => ticket[t].phys
          /\ ticket[t].pend <=> ticket[t].stage = "pending"
    <3>1. \A t \in Tickets : /\ ticket[t].phys \in BOOLEAN /\ ticket[t].acquired \in BOOLEAN
                             /\ ticket[t].charge \in BOOLEAN /\ ticket[t].pend \in BOOLEAN
      BY <2>1 DEF TypeOK, Ticket
    <3> QED BY <2>2, <2>4, <3>1 DEF Staged, Stages
  <2>6. Ledger = Held /\ Ledger \cap Charged = Charged
        /\ Charged = {t \in Held : ticket[t].charge}
        /\ Pending = {t \in Tickets : ticket[t].stage = "pending"}
    BY <2>5 DEF Ledger, Held, Charged, Pending
  <2>7. \A p \in Procs : token[p].local = token[p].runtime
    <3>1. \A p \in Procs : token[p].runtime = token[p].local + 0 /\ token[p].local \in Nat
      BY <2>1 DEF Reservations, Lent, TypeOK, Token
    <3> QED BY <3>1
  <2>8. Locals = Promises
    BY <2>7 DEF Locals, Promises
  <2>9. promiseLock = None
    BY <2>1, <2>3 DEF TypeOK, Mutex, Holding, Critical
  <2>10. outstanding \in Nat /\ Reserved = outstanding + 0
    BY <2>1, <2>9 DEF TypeOK, Limits, Inflight
  <2>11. /\ outstanding = Total(Ledger) /\ allocated = Total(Ledger \cap Charged)
         /\ budgetReserved = Total(Charged) + SumOver(Locals, Procs)
         /\ promised = SumOver(Promises, Procs) /\ pendingBytes = Total(Pending)
    BY <2>2, TallySums
  <2> HIDE DEF IInv, Accounts, Reserved
  <2>12. Promised = SumOver(Promises, Procs)
    BY DEF Promised
  <2>13. Reserved = outstanding
    BY <2>10
  <2> QED BY <2>6, <2>7, <2>8, <2>11, <2>12, <2>13
<1> QED BY <1>1, Invariant, AccountsHold, PTL
=============================================================================
