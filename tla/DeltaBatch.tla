----------------------------- MODULE DeltaBatch -----------------------------
(***************************************************************************)
(* An ordered batch of updates is merged into one delta before the session *)
(* applies it (crates/xlog-gpu/src/logic.rs,                               *)
(* coalesce_relation_delta_batch_with_cancellation_capture).  The code     *)
(* merges relation by relation; "net" holds the rows of all of them.       *)
(***************************************************************************)

CONSTANT Rows \* the rows that can occur, each of one relation

VARIABLES
  rows,      \* the relations in the authoritative store
  net,       \* what the merged updates amount to (PendingRelationDelta)
  current,   \* the relations after the updates one by one
  status,    \* a batch is open, or how the last call ended
  effective, \* every update inserted only what was absent, deleted only what was present
  separate   \* no update inserted and deleted the same row

vars == <<rows, net, current, status, effective, separate>>

NetDeltas == [insert : SUBSET Rows, delete : SUBSET Rows]
NoChange == [insert |-> {}, delete |-> {}]

\* No row is pending in both directions.
TypeOK ==
  /\ rows \in SUBSET Rows
  /\ current \in SUBSET Rows
  /\ net \in NetDeltas
  /\ net.insert \intersect net.delete = {}
  /\ status \in {"open", "applied", "dropped"}
  /\ effective \in BOOLEAN
  /\ separate \in BOOLEAN

\* A batch starts with nothing pending.
Fresh ==
  /\ net = NoChange
  /\ current = rows
  /\ status = "applied"
  /\ effective = TRUE
  /\ separate = TRUE

Init ==
  /\ rows \in SUBSET Rows
  /\ Fresh

\* An inserted row cancels its pending delete, or is pending itself.
MergeInsert(d, I) ==
  [insert |-> d.insert \union (I \ d.delete), delete |-> d.delete \ I]

\* Mutant: a delete does not take its row out of the pending insert.
MergeDeleteOnly(d, D) ==
  [insert |-> d.insert, delete |-> d.delete \union (D \ d.insert)]

\* A deleted row cancels its pending insert, or is pending itself.
MergeDelete(d, D) ==
  [insert |-> d.insert \ D, delete |-> d.delete \union (D \ d.insert)]

\* What a delta does to the relations: deletes first (apply_deltas_and_recompute).
Applied(d, R) == (R \ d.delete) \union d.insert

\* The next update of the batch; its inserts are merged before its deletes.
Update(I, D) ==
  /\ status' = "open"
  /\ net' = MergeDelete(MergeInsert(net, I), D)
  /\ current' = Applied([insert |-> I, delete |-> D], current)
  /\ effective' = (effective /\ D \subseteq current /\ I \intersect current = {})
  /\ separate' = (separate /\ I \intersect D = {})
  /\ UNCHANGED rows

\* No batch is in progress any more.
Close(outcome) ==
  /\ net' = NoChange
  /\ current' = rows'
  /\ status' = outcome
  /\ effective' = TRUE
  /\ separate' = TRUE

\* The session applies the net delta.
Commit ==
  /\ status = "open"
  /\ rows' = Applied(net, rows)
  /\ Close("applied")

\* A merge or the session fails: the batch is dropped.
Discard ==
  /\ status = "open"
  /\ rows' = rows
  /\ Close("dropped")

\* Other calls of the session change the relations.
Replace ==
  /\ status # "open"
  /\ rows' \in SUBSET Rows
  /\ \E outcome \in {"applied", "dropped"} : Close(outcome)

Next ==
  \/ \E I, D \in SUBSET Rows : Update(I, D)
  \/ Commit \/ Discard \/ Replace

Spec == Init /\ [][Next]_vars

-----------------------------------------------------------------------------

\* When no update repeats what is already so, the net delta is exactly the
\* difference between the relations before and after the batch, and an empty
\* one means that nothing changed (merge_insert_delta, merge_delete_delta).
NetExact ==
  effective => net = [insert |-> current \ rows, delete |-> rows \ current]

\* Whatever is pending was the last word on its row: no commit brings back a
\* row that a later update deleted, or deletes one that was inserted again.
LastWins ==
  separate => net.insert \subseteq current /\ net.delete \intersect current = {}

\* A batch happens as a whole or not at all, and without idle updates it does
\* what its updates would do one by one (apply_relation_delta_batch).
Atomic == INSTANCE Updates
Atomicity == Atomic!Spec
=============================================================================
