---------------------------- MODULE MemoryClaims ----------------------------
(***************************************************************************)
(* What the memory stack of one device runtime promises its callers,       *)
(* without threads, locks or retries: a byte of the budget is free, is     *)
(* promised to the holder of a reservation, or is used by an allocation,   *)
(* and a byte that is promised or used is never given to anybody else.     *)
(* DeviceMemory implements this module.                                    *)
(***************************************************************************)
EXTENDS Integers

CONSTANTS
  Limit,        \* the byte budget of the runtime
  Sizes,        \* the request sizes
  InitialUsed   \* bytes the backend already held when the budget was built

VARIABLES used, promised

claims == <<used, promised>>

Init == used = InitialUsed /\ promised = 0

\* A complete multi-allocation request is promised as one claim.
Promise(n) ==
  /\ used + promised + n <= Limit
  /\ promised' = promised + n
  /\ UNCHANGED used

\* The unused part of a promise goes back when its holder drops it.
Withdraw(n) ==
  /\ n <= promised
  /\ promised' = promised - n
  /\ UNCHANGED used

\* An allocation outside every promise.
Use(n) ==
  /\ used + promised + n <= Limit
  /\ used' = used + n
  /\ UNCHANGED promised

\* An allocation of promised bytes: it needs no further admission.
Redeem(n) ==
  /\ n <= promised
  /\ promised' = promised - n
  /\ used' = used + n

\* A redeemed claim for which no memory could be acquired is promised again.
Restore(n) ==
  /\ n <= used
  /\ used' = used - n
  /\ promised' = promised + n

\* A physical release, or a claim for which no memory could be acquired.
Free(n) ==
  /\ n <= used
  /\ used' = used - n
  /\ UNCHANGED promised

Next ==
  \/ \E n \in Sizes : Use(n) \/ Redeem(n) \/ Restore(n) \/ Promise(n)
  \/ \E n \in Sizes \cup {InitialUsed} : Free(n)
  \/ \E n \in 0 .. promised : Withdraw(n)

Spec == Init /\ [][Next]_claims
=============================================================================
