---------------------------- MODULE BatchSession ----------------------------
(***************************************************************************)
(* A session whose callers also apply batches of updates                   *)
(* (crates/xlog-gpu/src/logic.rs,                                          *)
(* apply_relation_delta_batch_with_session_runtime;                        *)
(* crates/pyxlog/src/logic.rs, apply_relation_delta_batch): RelationSession *)
(* and DeltaBatch together.  The updates of a batch are merged while the   *)
(* session is idle and its slots are untouched; then the net delta is      *)
(* applied like any other, unless all updates cancelled each other.        *)
(***************************************************************************)
EXTENDS RelationSession

\* Callers change relations without rules only, and such a relation shares no
\* component of the plan with another predicate.
ASSUME BatchAssumption ==
  /\ \A n \in Instances : PredOf[n.head] \notin Updated
  /\ \A c \in Ids : Components[c] \intersect Updated # {} => \E p \in Updated : Components[c] = {p}

VARIABLES net, current, status, effective, separate \* see DeltaBatch

Batch ==
  INSTANCE DeltaBatch WITH Rows <- On(Facts, Updated), rows <- On(stored, Updated)

batchVars == <<net, current, status, effective, separate>>

BatchInit == Init /\ Batch!Fresh

\* The next update of a batch is merged.
MergeUpdate ==
  /\ Idle
  /\ UNCHANGED vars
  /\ \E I, D \in SUBSET On(Facts, Updated) : Batch!Update(I, D)

\* The net delta names the relations in which something is left.
NetDelta ==
  [changed |-> {PredOf[f] : f \in net.insert \union net.delete},
   delete |-> net.delete,
   insert |-> net.insert]

ApplyBatch ==
  /\ status = "open"
  /\ net # Batch!NoChange
  /\ ApplyDelta(NetDelta)
  /\ UNCHANGED batchVars

\* A batch that cancelled itself out is done; both slots keep what they have.
Cancelled ==
  /\ Idle /\ status = "open"
  /\ net = Batch!NoChange
  /\ UNCHANGED vars
  /\ Batch!Close("applied")

\* A merge fails before the session is involved.
MergeFails ==
  /\ Idle /\ status = "open"
  /\ UNCHANGED vars
  /\ Batch!Close("dropped")

\* Other calls come before or after a batch.
OtherCall == status # "open" /\ Call /\ Batch!Close("applied")

\* What a call does on the way to its end is the same with a batch.
Running == (Continue \/ Answer) /\ UNCHANGED batchVars

\* The end of a call that applies a delta ends its batch.
Ends ==
  \/ Commit /\ Batch!Close("applied")
  \/ Fail /\ Batch!Close("dropped")

BatchNext ==
  \/ MergeUpdate \/ ApplyBatch \/ Cancelled \/ MergeFails
  \/ OtherCall \/ Running \/ Ends

BatchSpec == BatchInit /\ [][BatchNext]_<<vars, batchVars>>

-----------------------------------------------------------------------------

\* In the session too a batch happens as a whole or not at all, and as its
\* updates would one by one (Updates); the other calls change the store
\* between batches only.
Promise ==
  INSTANCE Updates WITH Rows <- On(Facts, Updated), rows <- On(stored, Updated)
BatchesApply == Promise!Spec
=============================================================================
