------------------------ MODULE BatchSession_proofs ------------------------
(***************************************************************************)
(* Proofs about batches of updates on their own (DeltaBatch), for any      *)
(* number of updates; and about a session with batches, for any program    *)
(* whose updated predicates have no rules, any plan of it, and any         *)
(* sequence of calls and failures: first its types and relations, then     *)
(* that it implements its batches, last that what it holds is what the     *)
(* program means.                                                          *)
(***************************************************************************)
EXTENDS BatchSession, WellFoundedInduction, TLAPS

\* The updated relations of a store.
Bases(S) == On(S, Updated)

\* Before the delta of a call is applied its executor has the updated relations
\* as they are stored; afterwards as the delta makes them.  So have both slots.
BasesFollow ==
  /\ runtime # NoStore => Bases(runtime) = Bases(stored)
  /\ cache # NoStore => Bases(cache) = Bases(stored)
  /\ stage \in {"evaluate", "check", "update"} => Bases(working) = Bases(stored)
  /\ stage \in {"clear", "recompute", "recheck", "commit"} =>
       Bases(working) = Batch!Applied(delta, Bases(stored))

\* A call that runs while a batch is open applies its net delta.
NetApplied ==
  status = "open" /\ ~Idle => delta.delete = net.delete /\ delta.insert = net.insert

\* What is about to be committed has been checked.
Checked == stage = "commit" /\ ~ReadFails => working \intersect Forbidden = {}

IInv ==
  /\ TypeOK
  /\ BasesFollow
  /\ Batch!TypeOK
  /\ NetApplied
  /\ Checked
  /\ ~ReadFails => ConstraintsHold

-----------------------------------------------------------------------------
(* Batches on their own: DeltaBatch, of which nothing but its rows is fixed. *)

\* The rows of the updated relations.
Rows == On(Facts, Updated)

\* The three invariants of a batch are inductive together.
BatchInv == Batch!TypeOK /\ Batch!NetExact /\ Batch!LastWins

LEMMA MergeInsertType ==
  ASSUME NEW d \in Batch!NetDeltas, NEW I \in SUBSET Rows, d.insert \intersect d.delete = {}
  PROVE  /\ Batch!MergeInsert(d, I) \in Batch!NetDeltas
         /\ Batch!MergeInsert(d, I).insert \intersect Batch!MergeInsert(d, I).delete = {}
BY DEF Batch!MergeInsert, Batch!NetDeltas, Rows

LEMMA MergeDeleteType ==
  ASSUME NEW d \in Batch!NetDeltas, NEW D \in SUBSET Rows, d.insert \intersect d.delete = {}
  PROVE  /\ Batch!MergeDelete(d, D) \in Batch!NetDeltas
         /\ Batch!MergeDelete(d, D).insert \intersect Batch!MergeDelete(d, D).delete = {}
BY DEF Batch!MergeDelete, Batch!NetDeltas, Rows

\* Inserting rows that are absent from C moves the difference with R along.
LEMMA MergeInsertExact ==
  ASSUME NEW R \in SUBSET Rows, NEW C \in SUBSET Rows, NEW I \in SUBSET Rows,
         I \intersect C = {}
  PROVE  Batch!MergeInsert([insert |-> C \ R, delete |-> R \ C], I)
           = [insert |-> (C \union I) \ R, delete |-> R \ (C \union I)]
<1>1. (C \ R) \union (I \ (R \ C)) = (C \union I) \ R
  OBVIOUS
<1>2. (R \ C) \ I = R \ (C \union I)
  OBVIOUS
<1> QED BY <1>1, <1>2 DEF Batch!MergeInsert

\* Deleting rows that are present in C does so too.
LEMMA MergeDeleteExact ==
  ASSUME NEW R \in SUBSET Rows, NEW C \in SUBSET Rows, NEW D \in SUBSET Rows,
         D \subseteq C
  PROVE  Batch!MergeDelete([insert |-> C \ R, delete |-> R \ C], D)
           = [insert |-> (C \ D) \ R, delete |-> R \ (C \ D)]
<1>1. (C \ R) \ D = (C \ D) \ R
  OBVIOUS
<1>2. (R \ C) \union (D \ (C \ R)) = R \ (C \ D)
  OBVIOUS
<1> QED BY <1>1, <1>2 DEF Batch!MergeDelete

LEMMA UpdateTypeOK ==
  ASSUME Batch!TypeOK,
         NEW I \in SUBSET Rows, NEW D \in SUBSET Rows, Batch!Update(I, D)
  PROVE  Batch!TypeOK'
<1> DEFINE inserted == Batch!MergeInsert(net, I)
<1>1. inserted \in Batch!NetDeltas /\ inserted.insert \intersect inserted.delete = {}
  BY MergeInsertType DEF Batch!TypeOK
<1> HIDE DEF inserted
<1>2. /\ Batch!MergeDelete(inserted, D) \in Batch!NetDeltas
      /\ Batch!MergeDelete(inserted, D).insert \intersect Batch!MergeDelete(inserted, D).delete = {}
  BY <1>1, MergeDeleteType
<1>3. net' \in Batch!NetDeltas /\ net'.insert \intersect net'.delete = {}
  BY <1>2 DEF Batch!Update, inserted
<1>4. On(stored, Updated)' \in SUBSET Rows /\ current' \in SUBSET Rows
  BY DEF Batch!TypeOK, Batch!Update, Batch!Applied, Rows
<1>5. status' \in {"open", "applied", "dropped"}
  BY DEF Batch!Update
<1>6. effective' \in BOOLEAN /\ separate' \in BOOLEAN
  BY Zenon DEF Batch!TypeOK, Batch!Update
<1> QED BY <1>3, <1>4, <1>5, <1>6 DEF Batch!TypeOK, Rows

LEMMA UpdateNetExact ==
  ASSUME Batch!TypeOK, Batch!NetExact,
         NEW I \in SUBSET Rows, NEW D \in SUBSET Rows, Batch!Update(I, D)
  PROVE  Batch!NetExact'
<1> DEFINE rows == On(stored, Updated)
<1>1. rows' = rows
  BY DEF Batch!Update
<1>2. rows \in SUBSET Rows /\ current \in SUBSET Rows
  BY DEF Batch!TypeOK, Rows
<1> SUFFICES ASSUME effective'
             PROVE  net' = [insert |-> current' \ rows, delete |-> rows \ current']
  BY <1>1 DEF Batch!NetExact
<1>3. effective /\ D \subseteq current /\ I \intersect current = {}
  BY Zenon DEF Batch!Update
<1>4. net = [insert |-> current \ rows, delete |-> rows \ current]
  BY <1>3 DEF Batch!NetExact
<1> HIDE DEF rows
<1>5. Batch!MergeInsert(net, I)
        = [insert |-> (current \union I) \ rows, delete |-> rows \ (current \union I)]
  BY <1>2, <1>3, <1>4, MergeInsertExact
<1>6. Batch!MergeDelete([insert |-> (current \union I) \ rows, delete |-> rows \ (current \union I)], D)
        = [insert |-> ((current \union I) \ D) \ rows, delete |-> rows \ ((current \union I) \ D)]
  BY <1>2, <1>3, MergeDeleteExact, current \union I \in SUBSET Rows, D \subseteq current \union I
<1>7. current' = (current \union I) \ D
  BY <1>3 DEF Batch!Update, Batch!Applied
<1>8. net' = Batch!MergeDelete(Batch!MergeInsert(net, I), D)
  BY DEF Batch!Update
<1> QED BY <1>5, <1>6, <1>7, <1>8

LEMMA UpdateLastWins ==
  ASSUME Batch!TypeOK, Batch!LastWins,
         NEW I \in SUBSET Rows, NEW D \in SUBSET Rows, Batch!Update(I, D)
  PROVE  Batch!LastWins'
<1> SUFFICES ASSUME separate'
             PROVE  net'.insert \subseteq current' /\ net'.delete \intersect current' = {}
  BY DEF Batch!LastWins
<1>1. separate /\ I \intersect D = {}
  BY Zenon DEF Batch!Update
<1>2. net.insert \subseteq current /\ net.delete \intersect current = {}
  BY <1>1 DEF Batch!LastWins
<1>3. current' = (current \union I) \ D
  BY <1>1 DEF Batch!Update, Batch!Applied
<1>4. net'.insert = (net.insert \union (I \ net.delete)) \ D
  BY DEF Batch!Update, Batch!MergeInsert, Batch!MergeDelete
<1>5. net'.delete = (net.delete \ I) \union (D \ (net.insert \union (I \ net.delete)))
  BY DEF Batch!Update, Batch!MergeInsert, Batch!MergeDelete
<1> QED BY <1>2, <1>3, <1>4, <1>5

\* A batch that is closed has a sound state whatever the relations are.
LEMMA BatchCloses ==
  ASSUME On(stored, Updated)' \in SUBSET Rows, NEW outcome \in {"applied", "dropped"},
         Batch!Close(outcome)
  PROVE  BatchInv'
BY DEF Batch!Close, BatchInv, Batch!TypeOK, Batch!NetDeltas, Batch!NoChange, Batch!NetExact,
       Batch!LastWins, Rows

LEMMA BatchInductive == ASSUME BatchInv, [Batch!Next]_(Batch!vars) PROVE BatchInv'
<1>1. CASE \E I, D \in SUBSET Rows : Batch!Update(I, D)
  <2>1. PICK I \in SUBSET Rows, D \in SUBSET Rows : Batch!Update(I, D)
    BY <1>1
  <2> QED BY <2>1, UpdateTypeOK, UpdateNetExact, UpdateLastWins DEF BatchInv
<1>2. CASE Batch!Commit
  <2>1. On(stored, Updated)' \in SUBSET Rows
    BY <1>2 DEF Batch!Commit, BatchInv, Batch!TypeOK, Batch!NetDeltas, Batch!Applied, Rows
  <2> QED BY <1>2, <2>1, BatchCloses DEF Batch!Commit
<1>3. CASE Batch!Discard
  <2>1. On(stored, Updated)' \in SUBSET Rows
    BY <1>3 DEF Batch!Discard, BatchInv, Batch!TypeOK, Rows
  <2> QED BY <1>3, <2>1, BatchCloses DEF Batch!Discard
<1>4. CASE Batch!Replace
  BY <1>4, BatchCloses DEF Batch!Replace, Rows
<1>5. CASE UNCHANGED Batch!vars
  BY <1>5 DEF Batch!vars, BatchInv, Batch!TypeOK, Batch!NetExact, Batch!LastWins
<1> QED BY <1>1, <1>2, <1>3, <1>4, <1>5 DEF Batch!Next, Rows

\* Types are kept; the net delta of a batch without idle updates is the
\* difference it makes; and what is pending is the last word on its row.
THEOREM BatchInvariant == Batch!Spec => []BatchInv
<1>1. Batch!Init => BatchInv
  BY DEF Batch!Init, Batch!Fresh, BatchInv, Batch!TypeOK, Batch!NetDeltas, Batch!NoChange,
         Batch!NetExact, Batch!LastWins
<1>2. BatchInv /\ [Batch!Next]_(Batch!vars) => BatchInv'
  BY BatchInductive
<1> QED BY <1>1, <1>2, PTL DEF Batch!Spec

\* A pending delta holds a row in one direction only (PendingRelationDelta).
THEOREM BatchTypeCorrect == Batch!Spec => []Batch!TypeOK
BY BatchInvariant, PTL DEF BatchInv

\* The net delta of a batch without idle updates is the difference between the
\* relations before and after it (merge_insert_delta, merge_delete_delta).
THEOREM NetIsExact == Batch!Spec => []Batch!NetExact
BY BatchInvariant, PTL DEF BatchInv

\* A pending row agrees with the last update that named it.
THEOREM LastUpdateWins == Batch!Spec => []Batch!LastWins
BY BatchInvariant, PTL DEF BatchInv

LEMMA BatchStepMaps ==
  ASSUME BatchInv, [Batch!Next]_(Batch!vars)
  PROVE  [Promise!Next]_(Promise!vars)
<1> DEFINE rows == On(stored, Updated)
<1>1. CASE \E I, D \in SUBSET Rows : Batch!Update(I, D)
  <2>1. PICK I \in SUBSET Rows, D \in SUBSET Rows : Batch!Update(I, D)
    BY <1>1
  <2>2. current' = Promise!After(I, D, current)
    BY <2>1 DEF Batch!Update, Batch!Applied, Promise!After
  <2>3. effective' = (effective /\ D \subseteq current /\ I \intersect current = {})
    BY <2>1, Zenon DEF Batch!Update
  <2>4. status' = "open" /\ rows' = rows
    BY <2>1 DEF Batch!Update
  <2>5. Promise!Update
    BY <2>2, <2>3, <2>4, Zenon DEF Promise!Update, Rows
  <2> QED BY <2>5 DEF Promise!Next
<1>2. CASE Batch!Commit
  <2>1. rows' = (rows \ net.delete) \union net.insert
    BY <1>2 DEF Batch!Commit, Batch!Applied
  <2>2. rows' \in SUBSET Rows
    BY <2>1 DEF BatchInv, Batch!TypeOK, Batch!NetDeltas, Rows
  <2>3. effective => rows' = current
    <3> SUFFICES ASSUME effective PROVE rows' = current
      OBVIOUS
    <3>1. net = [insert |-> current \ rows, delete |-> rows \ current]
      BY DEF BatchInv, Batch!NetExact
    <3> QED BY <2>1, <3>1
  <2>4. Promise!Close("applied") /\ status = "open"
    BY <1>2 DEF Batch!Commit, Batch!Close, Promise!Close
  <2> QED BY <2>2, <2>3, <2>4 DEF Promise!Commit, Promise!Next, Rows
<1>3. CASE Batch!Discard
  BY <1>3 DEF Batch!Discard, Batch!Close, Promise!Discard, Promise!Close, Promise!Next
<1>4. CASE Batch!Replace
  BY <1>4 DEF Batch!Replace, Batch!Close, Promise!Replace, Promise!Close, Promise!Next
<1>5. CASE UNCHANGED Batch!vars
  BY <1>5 DEF Batch!vars, Promise!vars
<1> QED BY <1>1, <1>2, <1>3, <1>4, <1>5 DEF Batch!Next, Rows

\* A batch happens as a whole or not at all; without idle updates it does what
\* its updates would do one by one, and a batch that cancelled itself out changes
\* nothing (apply_relation_delta_batch).
THEOREM BatchRefinement == Batch!Spec => BatchesApply
<1>1. Batch!Init => Promise!Init
  BY DEF Batch!Init, Batch!Fresh, Promise!Init
<1>2. BatchInv /\ [Batch!Next]_(Batch!vars) => [Promise!Next]_(Promise!vars)
  BY BatchStepMaps
<1> QED BY <1>1, <1>2, BatchInvariant, PTL DEF Batch!Spec, BatchesApply, Promise!Spec

-----------------------------------------------------------------------------
(* The plan.                                                               *)

LEMMA HeadsOfRules ==
  ASSUME NEW c \in Ids
  PROVE  HeadsOf[c] \subseteq Facts /\ \A f \in HeadsOf[c] : PredOf[f] \notin Updated
<1> SUFFICES ASSUME NEW f \in HeadsOf[c] PROVE f \in Facts /\ PredOf[f] \notin Updated
  OBVIOUS
<1>1. PICK n \in RulesOf[c] : f = n.head
  BY DEF HeadsOf
<1>2. n \in Instances
  BY <1>1 DEF RulesOf
<1> QED BY <1>1, <1>2, PlanAssumption, BatchAssumption

LEMMA ConsequencesAreHeads ==
  ASSUME NEW c \in Ids, NEW S
  PROVE  Consequences(c, S) \subseteq HeadsOf[c]
BY DEF Consequences, HeadsOf

\* Executing a component adds facts of its heads only.
LEMMA SaturateAdds ==
  ASSUME NEW c \in Ids, NEW S \in SUBSET Facts
  PROVE  Saturate(c, S) \in SUBSET Facts /\ Bases(Saturate(c, S)) = Bases(S)
<1>1. Saturate(c, S) \subseteq S \union HeadsOf[c] /\ S \subseteq Saturate(c, S)
  BY DEF Saturate
<1> QED BY <1>1, HeadsOfRules DEF Bases, On

\* What a component reaches, apart from itself, has rules.
LEMMA ReachHasRules ==
  ASSUME NEW C \in SUBSET Ids, NEW d \in Reach(C)
  PROVE  d \in Ids /\ (d \in C \/ RulesOf[d] # {})
<1>1. PICK c \in C : d \in Downstream[c]
  BY DEF Reach
<1>2. c \in Ids
  BY <1>1
<1> DEFINE Complete == {S \in SUBSET Ids : \A e \in S : Dependents[e] \subseteq S}
           S == {c} \union {e \in Ids : RulesOf[e] # {}}
<1>3. S \in Complete
  <2> SUFFICES ASSUME NEW e \in S, NEW x \in Dependents[e] PROVE x \in S
    BY <1>2
  <2>1. e \in Ids
    BY <1>2
  <2>2. x \in Ids /\ RulesOf[x] # {}
    BY <2>1 DEF Dependents
  <2> QED BY <2>2
<1>4. d \in Ids /\ \A T \in Complete : c \in T => d \in T
  BY <1>1, <1>2 DEF Downstream
<1>5. d \in S
  BY <1>3, <1>4
<1> QED BY <1>4, <1>5

\* No component with rules has an updated predicate.
LEMMA RulesNotUpdated ==
  ASSUME NEW c \in Ids, RulesOf[c] # {}
  PROVE  Components[c] \intersect Updated = {}
<1> SUFFICES ASSUME Components[c] \intersect Updated # {} PROVE FALSE
  OBVIOUS
<1>1. PICK p \in Updated : Components[c] = {p}
  BY BatchAssumption
<1>2. PICK n \in Instances : PredOf[n.head] \in Components[c]
  BY DEF RulesOf
<1> QED BY <1>1, <1>2, BatchAssumption

\* A recomputed component has a changed predicate, or rules.
LEMMA RecomputedHasRules ==
  ASSUME NEW c \in Recomputed
  PROVE  c \in Ids /\ (Components[c] \intersect delta.changed # {} \/ RulesOf[c] # {})
<1> DEFINE roots == {e \in Ids : Components[e] \intersect delta.changed # {}}
<1>1. CASE delta.delete # {}
  BY <1>1, ReachHasRules DEF Recomputed, Affected
<1>2. CASE delta.delete = {}
  <2> DEFINE lossy == {e \in Affected : NonMonotone(e)}
  <2>1. lossy \in SUBSET Ids /\ \A e \in lossy : RulesOf[e] # {}
    BY ReachHasRules DEF Affected, NonMonotone
  <2>2. c \in Reach(lossy)
    BY <1>2 DEF Recomputed
  <2> HIDE DEF lossy
  <2> QED BY <2>1, <2>2, ReachHasRules
<1> QED BY <1>1, <1>2

\* Of the updated relations only those a delta names are emptied before the
\* recompute, and these are excepted.
LEMMA ClearSparesBases ==
  ASSUME NEW c \in Recomputed
  PROVE  Components[c] \intersect Updated \subseteq delta.changed
<1>1. c \in Ids /\ (Components[c] \intersect delta.changed # {} \/ RulesOf[c] # {})
  BY RecomputedHasRules
<1>2. CASE RulesOf[c] # {}
  BY <1>1, <1>2, RulesNotUpdated
<1>3. CASE Components[c] \intersect delta.changed # {}
  <2> SUFFICES ASSUME NEW q \in Components[c] \intersect Updated PROVE q \in delta.changed
    OBVIOUS
  <2>1. PICK p \in Updated : Components[c] = {p}
    BY <1>1, BatchAssumption
  <2> QED BY <1>3, <2>1
<1> QED BY <1>1, <1>2, <1>3

-----------------------------------------------------------------------------
(* Types and updated relations.                                            *)

\* What the proofs use of a delta.
LEMMA DeltaTypes ==
  ASSUME NEW d \in Deltas \union {NoDelta}
  PROVE  /\ d.changed \subseteq Updated
         /\ d.delete \subseteq On(Facts, d.changed)
         /\ d.insert \subseteq On(Facts, d.changed)
         /\ d.delete \subseteq Bases(Facts) /\ d.insert \subseteq Bases(Facts)
<1>1. CASE d = NoDelta
  BY <1>1 DEF NoDelta
<1>2. CASE d \in Deltas
  <2>1. PICK C \in (SUBSET Updated) \ {{}} : d \in DeltasOf(C)
    BY <1>2 DEF Deltas
  <2>2. d.changed = C /\ d.delete \subseteq On(Facts, C) /\ d.insert \subseteq On(Facts, C)
    BY <2>1 DEF DeltasOf
  <2> QED BY <2>2 DEF Bases, On
<1> QED BY <1>1, <1>2

\* The relations that are stored are what the batch takes for them.
LEMMA BasesTypes ==
  ASSUME TypeOK
  PROVE  /\ Bases(stored) \in SUBSET On(Facts, Updated)
         /\ Bases(stored) = On(stored, Updated)
         /\ working # NoStore => working \in SUBSET Facts
BY DEF TypeOK, Bases, On

LEMMA InitIInv == ASSUME BatchInit PROVE IInv
<1>1. TypeOK
  BY SessionAssumption, PlanAssumption DEF BatchInit, Init, TypeOK, Stages
<1>2. BasesFollow /\ NetApplied /\ Checked /\ ConstraintsHold
  BY DEF BatchInit, Init, BasesFollow, NetApplied, Checked, ConstraintsHold, Idle, Batch!Fresh
<1>3. Batch!TypeOK
  BY <1>1, BasesTypes DEF BatchInit, Batch!Fresh, Batch!TypeOK, Batch!NetDeltas, Batch!NoChange
<1> QED BY <1>1, <1>2, <1>3 DEF IInv

\* A session that closes a batch has nothing left to apply.
LEMMA CloseKeeps ==
  ASSUME TypeOK', NEW outcome \in {"applied", "dropped"}, Batch!Close(outcome)
  PROVE  Batch!TypeOK' /\ NetApplied'
<1>1. On(stored, Updated)' \in SUBSET Rows
  BY DEF TypeOK, On, Rows
<1>2. NetApplied'
  BY DEF Batch!Close, NetApplied
<1> QED BY <1>1, <1>2, BatchCloses DEF BatchInv

-----------------------------------------------------------------------------
(* The calls and steps of the session.                                     *)

\* The part of the invariant that does not mention batches.
SessionInv ==
  /\ TypeOK
  /\ BasesFollow
  /\ Checked
  /\ ~ReadFails => ConstraintsHold

LEMMA PutKeeps == ASSUME SessionInv, NEW p \in Updated, Put(p) PROVE SessionInv'
<1>1. PICK R \in SUBSET On(Facts, {p}) :
        /\ given' = (given \ On(Facts, {p})) \union R
        /\ stored' = (stored \ On(Facts, {p})) \union R
  BY DEF Put
<1>2. given' \in SUBSET Facts /\ stored' \in SUBSET Facts
  BY <1>1 DEF SessionInv, TypeOK, On
<1>3. TypeOK'
  BY <1>2 DEF SessionInv, TypeOK, Put
<1>4. BasesFollow' /\ Checked' /\ ConstraintsHold'
  BY DEF SessionInv, BasesFollow, Checked, ConstraintsHold, Put, Idle
<1> QED BY <1>3, <1>4 DEF SessionInv

LEMMA ClearKeeps == ASSUME SessionInv, Clear PROVE SessionInv'
<1>1. TypeOK'
  BY DEF SessionInv, TypeOK, Clear
<1>2. BasesFollow' /\ Checked' /\ ConstraintsHold'
  BY DEF SessionInv, BasesFollow, Checked, ConstraintsHold, Clear, Idle
<1> QED BY <1>1, <1>2 DEF SessionInv

LEMMA DropRuntimeKeeps == ASSUME SessionInv, DropRuntime PROVE SessionInv'
<1>1. TypeOK'
  BY DEF SessionInv, TypeOK, DropRuntime
<1>2. BasesFollow' /\ Checked' /\ (ConstraintsHold => ConstraintsHold')
  BY DEF SessionInv, BasesFollow, Checked, ConstraintsHold, DropRuntime, Idle
<1> QED BY <1>1, <1>2 DEF SessionInv

LEMMA BeginEvaluateKeeps == ASSUME SessionInv, BeginEvaluate PROVE SessionInv'
<1>1. working' \in SUBSET Facts /\ working' # NoStore
  BY SessionAssumption DEF SessionInv, TypeOK, BeginEvaluate
<1>2. TypeOK'
  BY <1>1, PlanAssumption DEF SessionInv, TypeOK, BeginEvaluate, Stages
<1>3. BasesFollow' /\ Checked' /\ (ConstraintsHold => ConstraintsHold')
  BY DEF SessionInv, BasesFollow, Checked, ConstraintsHold, BeginEvaluate
<1> QED BY <1>2, <1>3 DEF SessionInv

LEMMA ApplyDeltaKeeps ==
  ASSUME SessionInv, NEW d \in Deltas, ApplyDelta(d) PROVE SessionInv'
<1>1. working' \in SUBSET Facts /\ working' # NoStore
  BY SessionAssumption DEF SessionInv, TypeOK, ApplyDelta
<1>2. stage' \in {"update", "evaluate"}
  BY DEF ApplyDelta
<1>3. TypeOK'
  BY <1>1, <1>2, PlanAssumption DEF SessionInv, TypeOK, ApplyDelta, Stages
<1>4. BasesFollow' /\ Checked' /\ ConstraintsHold'
  BY <1>2 DEF SessionInv, BasesFollow, Checked, ConstraintsHold, ApplyDelta
<1> QED BY <1>3, <1>4 DEF SessionInv

\* A step inside a call that touches nothing but the executor and the program
\* counter, and keeps what is expected of the executor's updated relations.
LEMMA InsideKeeps ==
  ASSUME SessionInv, UNCHANGED <<slots, delta>>,
         working' \in SUBSET Facts, stage' \in Stages \ {"idle"},
         next' \in 1..(Len(Components) + 1),
         stage' \in {"evaluate", "check", "update"} => Bases(working') = Bases(stored),
         stage' \in {"clear", "recompute", "recheck", "commit"} =>
           Bases(working') = Batch!Applied(delta, Bases(stored)),
         Checked'
  PROVE  SessionInv'
<1>1. working' # NoStore
  BY SessionAssumption
<1>2. TypeOK'
  BY <1>1 DEF SessionInv, TypeOK, slots
<1>3. BasesFollow'
  BY DEF SessionInv, BasesFollow, slots, Bases, Batch!Applied
<1>4. ConstraintsHold => ConstraintsHold'
  BY DEF ConstraintsHold, slots
<1> QED BY <1>2, <1>3, <1>4 DEF SessionInv

\* The executor of a running call is there.
LEMMA WorkingIsStore ==
  ASSUME SessionInv, stage # "idle"
  PROVE  working \in SUBSET Facts
BY DEF SessionInv, TypeOK

LEMMA AppliedTypes ==
  ASSUME SessionInv
  PROVE  /\ delta.delete \subseteq On(Facts, delta.changed)
         /\ delta.insert \subseteq On(Facts, delta.changed)
         /\ delta.insert \subseteq Bases(Facts)
         /\ delta.changed \subseteq Updated
BY DeltaTypes DEF SessionInv, TypeOK

LEMMA ExecuteKeeps == ASSUME SessionInv, Execute PROVE SessionInv'
<1>1. next \in Ids /\ stage \in {"evaluate", "recompute"} /\ stage' = stage
      /\ UNCHANGED <<slots, delta>>
  BY DEF Execute, slots
<1>2. working \in SUBSET Facts
  BY <1>1, WorkingIsStore
<1>3. working' \in SUBSET Facts /\ Bases(working') = Bases(working)
  BY <1>1, <1>2, SaturateAdds DEF Execute
<1>4. next' \in 1..(Len(Components) + 1)
  BY <1>1, PlanAssumption DEF Execute, Ids
<1>5. Checked'
  BY <1>1 DEF Checked
<1> QED BY <1>1, <1>3, <1>4, <1>5, InsideKeeps DEF SessionInv, BasesFollow, Stages

LEMMA GrowKeeps == ASSUME SessionInv, Grow PROVE SessionInv'
<1>1. next \in Recursive /\ stage \in {"evaluate", "recompute"} /\ stage' = stage
      /\ next' = next /\ UNCHANGED <<slots, delta>>
  BY DEF Grow, slots
<1>2. working \in SUBSET Facts
  BY <1>1, WorkingIsStore
<1>3. next \in Ids
  BY <1>1, PlanAssumption
<1>4. PICK D \in SUBSET Consequences(next, working) : working' = working \union D
  BY DEF Grow
<1>5. D \subseteq HeadsOf[next]
  BY <1>3, <1>4, ConsequencesAreHeads
<1>6. working' \in SUBSET Facts /\ Bases(working') = Bases(working)
  BY <1>2, <1>3, <1>4, <1>5, HeadsOfRules DEF Bases, On
<1>7. next' \in 1..(Len(Components) + 1)
  BY <1>1 DEF SessionInv, TypeOK
<1>8. Checked'
  BY <1>1 DEF Checked
<1> QED BY <1>1, <1>6, <1>7, <1>8, InsideKeeps DEF SessionInv, BasesFollow, Stages

\* Steps that only move the program counter.
LEMMA MovesKeep ==
  ASSUME SessionInv, Evaluated \/ DeltaExecuted \/ Proceed \/ Accept
  PROVE  SessionInv'
<1>1. stage # "idle" /\ UNCHANGED <<slots, delta>> /\ working' = working /\ next' = next
  BY DEF Evaluated, DeltaExecuted, Executes, Proceed, Accept, slots
<1>2. working' \in SUBSET Facts
  BY <1>1, WorkingIsStore
<1>3. next' \in 1..(Len(Components) + 1)
  BY <1>1 DEF SessionInv, TypeOK
<1>4. \/ stage = "evaluate" /\ stage' = "check"
      \/ stage = "recompute" /\ stage' = "recheck"
      \/ stage = "check" /\ stage' = "update"
      \/ stage = "recheck" /\ stage' = "commit" /\ Satisfied
  BY DEF Evaluated, DeltaExecuted, Executes, Proceed, Accept
<1>5. Checked'
  BY <1>1, <1>4 DEF Checked, Satisfied
<1>6. /\ stage' \in {"evaluate", "check", "update"} => Bases(working') = Bases(stored)
      /\ stage' \in {"clear", "recompute", "recheck", "commit"} =>
           Bases(working') = Batch!Applied(delta, Bases(stored))
  BY <1>1, <1>4 DEF SessionInv, BasesFollow
<1> QED BY <1>1, <1>2, <1>3, <1>4, <1>5, <1>6, InsideKeeps DEF Stages

LEMMA UpdateKeeps == ASSUME SessionInv, Update PROVE SessionInv'
<1>1. stage = "update" /\ stage' = "clear" /\ next' = next /\ UNCHANGED <<slots, delta>>
  BY DEF Update, slots
<1>2. working \in SUBSET Facts /\ working' = (working \ delta.delete) \union delta.insert
  BY <1>1, WorkingIsStore DEF Update
<1>3. working' \in SUBSET Facts
  BY <1>2, AppliedTypes DEF On
<1>4. Bases(working') = Batch!Applied(delta, Bases(working))
  BY <1>2, AppliedTypes DEF Bases, On, Batch!Applied
<1>5. next' \in 1..(Len(Components) + 1)
  BY <1>1 DEF SessionInv, TypeOK
<1>6. Bases(working) = Bases(stored) /\ Checked'
  BY <1>1 DEF SessionInv, BasesFollow, Checked
<1> QED BY <1>1, <1>3, <1>4, <1>5, <1>6, InsideKeeps DEF Stages

LEMMA ClearRecomputedKeeps == ASSUME SessionInv, ClearRecomputed PROVE SessionInv'
<1>1. stage = "clear" /\ stage' = "recompute" /\ next' = 1 /\ UNCHANGED <<slots, delta>>
  BY DEF ClearRecomputed, slots
<1> DEFINE cleared == (UNION {Components[c] : c \in Recomputed}) \ delta.changed
<1>2. working \in SUBSET Facts /\ working' = working \ On(Facts, cleared)
  BY <1>1, WorkingIsStore DEF ClearRecomputed
<1>3. cleared \intersect Updated = {}
  <2> SUFFICES ASSUME NEW p \in Updated, p \in cleared PROVE FALSE
    OBVIOUS
  <2>1. PICK c \in Recomputed : p \in Components[c] /\ p \notin delta.changed
    OBVIOUS
  <2>2. Components[c] \intersect Updated \subseteq delta.changed
    BY ClearSparesBases
  <2> QED BY <2>1, <2>2
<1> HIDE DEF cleared
<1>4. working' \in SUBSET Facts /\ Bases(working') = Bases(working)
  BY <1>2, <1>3 DEF Bases, On
<1>5. next' \in 1..(Len(Components) + 1)
  BY <1>1, PlanAssumption
<1>6. Bases(working) = Batch!Applied(delta, Bases(stored)) /\ Checked'
  BY <1>1 DEF SessionInv, BasesFollow, Checked
<1> QED BY <1>1, <1>4, <1>5, <1>6, InsideKeeps DEF Stages

LEMMA ContinueKeeps == ASSUME SessionInv, Continue PROVE SessionInv'
BY ExecuteKeeps, GrowKeeps, MovesKeep, UpdateKeeps, ClearRecomputedKeeps DEF Continue

-----------------------------------------------------------------------------
(* The end of a call.                                                      *)

LEMMA ReturnTypes ==
  ASSUME TypeOK, Return,
         given' \in SUBSET Facts, stored' \in SUBSET Facts,
         cache' \in (SUBSET Facts) \union {NoStore},
         runtime' \in (SUBSET Facts) \union {NoStore}
  PROVE  TypeOK'
BY PlanAssumption DEF TypeOK, Return, Stages

LEMMA AnswerKeeps == ASSUME SessionInv, Answer PROVE SessionInv'
<1>1. stage = "check" /\ Satisfied /\ Return /\ stage' = "idle"
      /\ cache' = working /\ runtime' = working /\ UNCHANGED <<given, stored>>
  BY DEF Answer, Return
<1>2. working \in SUBSET Facts
  BY <1>1, WorkingIsStore
<1>3. TypeOK'
  BY <1>1, <1>2, ReturnTypes DEF SessionInv, TypeOK
<1>4. BasesFollow' /\ Checked'
  BY <1>1 DEF SessionInv, BasesFollow, Checked
<1>5. ~ReadFails => ConstraintsHold'
  BY <1>1 DEF Satisfied, ConstraintsHold
<1> QED BY <1>3, <1>4, <1>5 DEF SessionInv

LEMMA FailKeeps == ASSUME SessionInv, Fail PROVE SessionInv'
<1>1. stage # "idle" /\ Return /\ stage' = "idle" /\ UNCHANGED <<given, stored, cache>>
      /\ runtime' = (IF delta = NoDelta THEN working ELSE NoStore)
  BY DEF Fail, Return, Idle
<1>2. working \in SUBSET Facts
  BY <1>1, WorkingIsStore
<1>3. TypeOK'
  BY <1>1, <1>2, ReturnTypes DEF SessionInv, TypeOK
<1>4. delta = NoDelta => Bases(working) = Bases(stored)
  <2>1. stage \in Stages
    BY DEF SessionInv, TypeOK
  <2>2. Batch!Applied(NoDelta, Bases(stored)) = Bases(stored)
    BY DEF Batch!Applied, NoDelta
  <2> QED BY <1>1, <2>1, <2>2 DEF SessionInv, BasesFollow, Stages
<1>5. BasesFollow' /\ Checked'
  BY <1>1, <1>4 DEF SessionInv, BasesFollow, Checked
<1>6. ConstraintsHold => ConstraintsHold'
  BY <1>1 DEF ConstraintsHold
<1> QED BY <1>3, <1>5, <1>6 DEF SessionInv

\* A commit stores the updated relations as the delta makes them.
LEMMA CommitStores ==
  ASSUME SessionInv, Commit
  PROVE  Bases(stored') = Batch!Applied(delta, Bases(stored))
<1>1. stage = "commit"
  BY DEF Commit
<1>2. Bases(working) = Batch!Applied(delta, Bases(stored))
  BY <1>1 DEF SessionInv, BasesFollow
<1>3. stored \in SUBSET Facts /\ working \in SUBSET Facts
  BY <1>1, WorkingIsStore DEF SessionInv, TypeOK
<1>4. stored' = (stored \ On(Facts, delta.changed)) \union On(working, delta.changed)
  BY DEF Commit
<1>5. On(working, delta.changed) = On(Bases(working), delta.changed)
  BY AppliedTypes DEF On, Bases
<1>6. Bases(stored') = (Bases(stored) \ On(Facts, delta.changed)) \union On(Bases(working), delta.changed)
  BY <1>4, <1>5, AppliedTypes DEF On, Bases
<1>7. On(Bases(working), delta.changed)
        = (On(Bases(stored), delta.changed) \ delta.delete) \union delta.insert
  BY <1>2, AppliedTypes DEF On, Batch!Applied
<1>8. Bases(stored) \ On(Facts, delta.changed) = {f \in Bases(stored) : PredOf[f] \notin delta.changed}
  BY <1>3 DEF On, Bases
<1> QED BY <1>6, <1>7, <1>8, AppliedTypes DEF On, Batch!Applied

LEMMA CommitKeeps == ASSUME SessionInv, Commit PROVE SessionInv'
<1>1. stage = "commit" /\ Return /\ stage' = "idle" /\ cache' = working /\ runtime' = working
      /\ given' = (given \ delta.delete) \union delta.insert
      /\ stored' = (stored \ On(Facts, delta.changed)) \union On(working, delta.changed)
  BY DEF Commit, Return
<1>2. working \in SUBSET Facts
  BY <1>1, WorkingIsStore
<1>3. given' \in SUBSET Facts /\ stored' \in SUBSET Facts
  BY <1>1, <1>2, AppliedTypes DEF SessionInv, TypeOK, On
<1>4. TypeOK'
  BY <1>1, <1>2, <1>3, ReturnTypes DEF SessionInv
<1>5. Bases(working) = Bases(stored')
  BY <1>1, CommitStores DEF SessionInv, BasesFollow
<1>6. BasesFollow' /\ Checked'
  BY <1>1, <1>5 DEF BasesFollow, Checked, Bases
<1>7. ~ReadFails => ConstraintsHold'
  BY <1>1 DEF SessionInv, Checked, ConstraintsHold
<1> QED BY <1>4, <1>6, <1>7 DEF SessionInv

-----------------------------------------------------------------------------
(* The batches.                                                            *)

LEMMA SessionPart ==
  ASSUME IInv PROVE SessionInv /\ Batch!TypeOK /\ NetApplied
BY DEF IInv, SessionInv

\* The session keeps its part when only the batch moves.
LEMMA SessionStays == ASSUME SessionInv, UNCHANGED vars PROVE SessionInv'
BY DEF SessionInv, TypeOK, BasesFollow, Checked, ConstraintsHold, vars, Bases

LEMMA BatchStays ==
  ASSUME Batch!TypeOK, UNCHANGED <<stored, batchVars>>
  PROVE  Batch!TypeOK'
BY DEF Batch!TypeOK, batchVars, On

LEMMA MergeUpdateKeeps == ASSUME IInv, MergeUpdate PROVE IInv'
<1>1. Idle /\ UNCHANGED vars
  BY DEF MergeUpdate
<1>2. PICK I \in SUBSET Rows, D \in SUBSET Rows : Batch!Update(I, D)
  BY DEF MergeUpdate, Rows
<1>3. Batch!TypeOK'
  BY <1>2, UpdateTypeOK DEF IInv
<1>4. SessionInv' /\ NetApplied'
  BY <1>1, SessionPart, SessionStays DEF NetApplied, Idle, vars
<1> QED BY <1>3, <1>4 DEF IInv, SessionInv

\* What is left of a batch is a delta of the session.
LEMMA NetDeltaIsDelta ==
  ASSUME Batch!TypeOK, net # Batch!NoChange
  PROVE  NetDelta \in Deltas
<1>1. /\ net.insert \subseteq On(Facts, Updated) /\ net.delete \subseteq On(Facts, Updated)
      /\ net = [insert |-> net.insert, delete |-> net.delete]
  BY DEF Batch!TypeOK, Batch!NetDeltas
<1> DEFINE C == {PredOf[f] : f \in net.insert \union net.delete}
<1>2. net.insert \union net.delete # {}
  BY <1>1 DEF Batch!NoChange
<1>3. C \in (SUBSET Updated) \ {{}}
  BY <1>1, <1>2 DEF On
<1>4. net.insert \subseteq On(Facts, C) /\ net.delete \subseteq On(Facts, C)
  BY <1>1 DEF On
<1>5. NetDelta \in DeltasOf(C)
  BY <1>4 DEF NetDelta, DeltasOf
<1> QED BY <1>3, <1>5 DEF Deltas

LEMMA ApplyBatchKeeps == ASSUME IInv, ApplyBatch PROVE IInv'
<1>1. NetDelta \in Deltas
  BY NetDeltaIsDelta DEF IInv, ApplyBatch
<1>2. SessionInv'
  BY <1>1, SessionPart, ApplyDeltaKeeps DEF ApplyBatch
<1>3. Batch!TypeOK'
  BY SessionPart, BatchStays DEF ApplyBatch, ApplyDelta, batchVars
<1>4. NetApplied'
  BY DEF NetApplied, ApplyBatch, ApplyDelta, NetDelta, batchVars
<1> QED BY <1>2, <1>3, <1>4 DEF IInv, SessionInv

LEMMA CallKeeps == ASSUME SessionInv, Call PROVE SessionInv'
BY PutKeeps, ClearKeeps, DropRuntimeKeeps, BeginEvaluateKeeps, ApplyDeltaKeeps
DEF Call, BeginDelta

LEMMA RunningKeeps == ASSUME IInv, Running PROVE IInv'
<1>1. SessionInv'
  BY SessionPart, ContinueKeeps, AnswerKeeps DEF Running
<1>2. UNCHANGED <<stored, batchVars>>
  BY DEF Running, Continue, Execute, Grow, Evaluated, DeltaExecuted, Executes, Proceed,
         Update, ClearRecomputed, Accept, Answer
<1>3. Batch!TypeOK'
  BY <1>2, SessionPart, BatchStays
<1>4. NetApplied'
  <2>1. CASE Continue
    <3>1. stage # "idle" /\ delta' = delta
      BY <2>1 DEF Continue, Execute, Grow, Evaluated, DeltaExecuted, Executes, Proceed,
                  Update, ClearRecomputed, Accept
    <3> QED BY <1>2, <3>1 DEF IInv, NetApplied, batchVars, Idle
  <2>2. CASE Answer
    BY <2>2 DEF NetApplied, Answer, Return, Idle
  <2> QED BY <2>1, <2>2 DEF Running
<1> QED BY <1>1, <1>3, <1>4 DEF IInv, SessionInv

\* A step that ends a batch.
LEMMA ClosingKeeps ==
  ASSUME SessionInv', NEW outcome \in {"applied", "dropped"}, Batch!Close(outcome)
  PROVE  IInv'
BY CloseKeeps DEF IInv, SessionInv

LEMMA Inductive == ASSUME IInv, [BatchNext]_<<vars, batchVars>> PROVE IInv'
<1>1. CASE Cancelled
  BY <1>1, SessionPart, SessionStays, ClosingKeeps DEF Cancelled
<1>2. CASE MergeFails
  BY <1>2, SessionPart, SessionStays, ClosingKeeps DEF MergeFails
<1>3. CASE OtherCall
  BY <1>3, SessionPart, CallKeeps, ClosingKeeps DEF OtherCall
<1>4. CASE Ends
  BY <1>4, SessionPart, CommitKeeps, FailKeeps, ClosingKeeps DEF Ends
<1>5. CASE UNCHANGED <<vars, batchVars>>
  <2>1. SessionInv'
    BY <1>5, SessionPart, SessionStays
  <2>2. Batch!TypeOK'
    BY <1>5, SessionPart, BatchStays DEF vars
  <2>3. NetApplied'
    BY <1>5 DEF IInv, NetApplied, Idle, vars, batchVars
  <2> QED BY <2>1, <2>2, <2>3 DEF IInv, SessionInv
<1> QED BY <1>1, <1>2, <1>3, <1>4, <1>5, MergeUpdateKeeps, ApplyBatchKeeps, RunningKeeps
        DEF BatchNext

-----------------------------------------------------------------------------

\* Types, the updated relations of the executor and of both slots, and the net
\* delta of an open batch are as the calls say, whatever fails.
THEOREM Invariant == BatchSpec => []IInv
<1>1. BatchInit => IInv
  BY InitIInv
<1>2. IInv /\ [BatchNext]_<<vars, batchVars>> => IInv'
  BY Inductive
<1> QED BY <1>1, <1>2, PTL DEF BatchSpec

\* Types are kept: a slot is empty or holds a store, and only a running call has
\* an executor of its own (LogicRelationSession).
THEOREM TypeCorrect == BatchSpec => []TypeOK
BY Invariant, PTL DEF IInv

\* When constraint relations can be read back, no snapshot violates a constraint
\* (enforce_constraints).
THEOREM ConstraintsEver == ~ReadFails => (BatchSpec => []ConstraintsHold)
<1>1. IInv /\ ~ReadFails => ConstraintsHold
  BY DEF IInv
<1> SUFFICES ASSUME ~ReadFails PROVE BatchSpec => []ConstraintsHold
  OBVIOUS
<1>2. IInv => ConstraintsHold
  BY <1>1
<1> QED BY <1>2, Invariant, PTL

-----------------------------------------------------------------------------
(* The session implements its batches, and so their promise.               *)

LEMMA InitMaps == ASSUME BatchInit PROVE Batch!Init
<1>1. TypeOK
  BY InitIInv DEF IInv
<1> QED BY <1>1, BasesTypes DEF BatchInit, Batch!Init

\* However a call ends that is no batch, it is a change between batches.
LEMMA ReplaceMaps ==
  ASSUME TypeOK', status # "open", NEW outcome \in {"applied", "dropped"},
         Batch!Close(outcome)
  PROVE  Batch!Replace
<1>1. On(stored, Updated)' \in SUBSET On(Facts, Updated)
  BY DEF TypeOK, On
<1> QED BY <1>1 DEF Batch!Replace

LEMMA DiscardMaps ==
  ASSUME status = "open", UNCHANGED stored, Batch!Close("dropped")
  PROVE  Batch!Discard
BY DEF Batch!Discard, On

LEMMA StepMaps ==
  ASSUME IInv, IInv', [BatchNext]_<<vars, batchVars>>
  PROVE  [Batch!Next]_(Batch!vars)
<1>1. CASE MergeUpdate
  BY <1>1 DEF MergeUpdate, Batch!Next
<1>2. CASE ApplyBatch \/ Running \/ UNCHANGED <<vars, batchVars>>
  <2>1. UNCHANGED <<stored, batchVars>>
    BY <1>2 DEF ApplyBatch, ApplyDelta, Running, Continue, Execute, Grow, Evaluated,
                DeltaExecuted, Executes, Proceed, Update, ClearRecomputed, Accept, Answer, vars
  <2> QED BY <2>1 DEF Batch!vars, batchVars, On
<1>3. CASE Cancelled
  <2>1. status = "open" /\ net = Batch!NoChange /\ UNCHANGED vars /\ Batch!Close("applied")
    BY <1>3 DEF Cancelled
  <2>2. Batch!Applied(net, On(stored, Updated)) = On(stored, Updated)
    BY <2>1 DEF Batch!Applied, Batch!NoChange
  <2>3. On(stored, Updated)' = Batch!Applied(net, On(stored, Updated))
    BY <2>1, <2>2 DEF vars, On
  <2> QED BY <2>1, <2>3 DEF Batch!Commit, Batch!Next
<1>4. CASE MergeFails
  BY <1>4, DiscardMaps DEF MergeFails, vars, Batch!Next
<1>5. CASE OtherCall
  BY <1>5, ReplaceMaps DEF OtherCall, IInv, Batch!Next
<1>6. CASE Commit /\ Batch!Close("applied")
  <2>1. CASE status = "open"
    <3>1. delta.insert = net.insert /\ delta.delete = net.delete
      BY <1>6, <2>1 DEF IInv, NetApplied, Commit, Idle
    <3>2. Bases(stored') = Batch!Applied(net, Bases(stored))
      BY <1>6, <3>1, SessionPart, CommitStores DEF Batch!Applied
    <3>3. On(stored, Updated)' = Batch!Applied(net, On(stored, Updated))
      BY <3>2 DEF Bases, On
    <3> QED BY <1>6, <2>1, <3>3 DEF Batch!Commit, Batch!Next
  <2>2. CASE status # "open"
    BY <1>6, <2>2, ReplaceMaps DEF IInv, Batch!Next
  <2> QED BY <2>1, <2>2
<1>7. CASE Fail /\ Batch!Close("dropped")
  <2>1. CASE status = "open"
    BY <1>7, <2>1, DiscardMaps DEF Fail, Batch!Next
  <2>2. CASE status # "open"
    BY <1>7, <2>2, ReplaceMaps DEF IInv, Batch!Next
  <2> QED BY <2>1, <2>2
<1> QED BY <1>1, <1>2, <1>3, <1>4, <1>5, <1>6, <1>7 DEF BatchNext, Ends

\* Whatever the session does, its relations without rules change as DeltaBatch
\* says: a call that runs while a batch is open commits the net delta of that
\* batch, as it was merged before the call, or nothing of it
\* (apply_relation_delta_batch_with_session_runtime).
THEOREM SessionImplementsBatch == BatchSpec => Batch!Spec
<1>1. BatchInit => Batch!Init
  BY InitMaps
<1>2. IInv /\ IInv' /\ [BatchNext]_<<vars, batchVars>> => [Batch!Next]_(Batch!vars)
  BY StepMaps
<1> QED BY <1>1, <1>2, Invariant, PTL DEF BatchSpec, Batch!Spec

\* A batch is applied as a whole or not at all, by a call that fails or succeeds
\* at any of its steps, and an applied one leaves in the updated relations what
\* its updates, one by one, would have left there (apply_relation_delta_batch).
THEOREM Refinement == BatchSpec => BatchesApply
BY SessionImplementsBatch, BatchRefinement, PTL

-----------------------------------------------------------------------------
(* Numbers.                                                                *)

\* A set of numbers that is not empty has a least one.
LEMMA LeastNumber ==
  ASSUME NEW T \in SUBSET Nat, T # {}
  PROVE  \E n \in T : \A m \in T : n <= m
<1> DEFINE R == OpToRel(<, Nat)
<1>1. IsWellFoundedOn(R, Nat)
  BY NatLessThanWellFounded, Zenon
<1>2. R = {ss \in Nat \X Nat : ss[1] < ss[2]}
  BY DEF OpToRel
<1> HIDE DEF R
<1>3. PICK n \in T : \A m \in T : <<m, n>> \notin R
  BY <1>1, WFMin
<1>4. \A m \in T : ~ (m < n)
  BY <1>2, <1>3
<1> QED BY <1>4

\* What holds of zero, and of the next number with every number, holds of all.
LEMMA Upwards ==
  ASSUME NEW N \in Nat, NEW T, 0 \in T, \A i \in 0..N : i \in T /\ i < N => i + 1 \in T
  PROVE  \A i \in 0..N : i \in T
<1> DEFINE Missing == {i \in 0..N : i \notin T}
<1> SUFFICES ASSUME Missing # {} PROVE FALSE
  OBVIOUS
<1>1. Missing \in SUBSET Nat
  OBVIOUS
<1> HIDE DEF Missing
<1>2. PICK n \in Missing : \A m \in Missing : n <= m
  BY <1>1, LeastNumber
<1>3. n \in 0..N /\ n \notin T /\ n # 0
  BY <1>2 DEF Missing
<1>4. n - 1 \in 0..N /\ n - 1 < N /\ n - 1 < n
  BY <1>3
<1>5. n - 1 \in T
  BY <1>2, <1>4 DEF Missing
<1>6. (n - 1) + 1 \in T
  BY <1>4, <1>5
<1> QED BY <1>3, <1>6

-----------------------------------------------------------------------------
(* One component.                                                          *)

LEMMA ClosedMeans ==
  ASSUME NEW c \in Ids, NEW S
  PROVE  Closed(c, S) <=> \A n \in RulesOf[c] : Fires(n, S) => n.head \in S
BY DEF Closed, Consequences

LEMMA HeadsMean ==
  ASSUME NEW c \in Ids
  PROVE  /\ \A n \in RulesOf[c] : n \in Instances /\ n.head \in HeadsOf[c]
         /\ \A f \in HeadsOf[c] : f \in Facts /\ PredOf[f] \in Components[c]
         /\ HeadsOf[c] # {} => RulesOf[c] # {}
<1>1. \A n \in RulesOf[c] : n \in Instances /\ PredOf[n.head] \in Components[c]
  BY DEF RulesOf
<1>2. HeadsOf[c] = {n.head : n \in RulesOf[c]}
  BY DEF HeadsOf
<1> QED BY <1>1, <1>2, PlanAssumption

LEMMA HeadsApart ==
  ASSUME NEW c \in Ids, NEW d \in Ids, c # d
  PROVE  HeadsOf[c] \intersect HeadsOf[d] = {}
BY HeadsMean, PlanAssumption

\* A rule reads heads of its own component and of earlier ones only, and
\* negated ones of earlier ones only.
LEMMA ReadsBelow ==
  ASSUME NEW c \in Ids, NEW n \in RulesOf[c], NEW e \in Ids
  PROVE  /\ \A f \in n.pos \union n.neg : f \in HeadsOf[e] => e <= c
         /\ \A f \in n.neg : f \notin HeadsOf[c]
BY HeadsMean, StratifiedAssumption

\* The saturated store is closed.
LEMMA SaturateClosed ==
  ASSUME NEW c \in Ids, NEW S
  PROVE  Closed(c, Saturate(c, S))
<1> DEFINE Z == Saturate(c, S)
<1> SUFFICES ASSUME NEW n \in RulesOf[c], Fires(n, Z) PROVE n.head \in Z
  BY ClosedMeans
<1>1. n.head \in HeadsOf[c] /\ n.neg \intersect HeadsOf[c] = {}
  BY HeadsMean, ReadsBelow
<1>2. ASSUME NEW D \in SUBSET HeadsOf[c], Closed(c, S \union D)
      PROVE  n.head \in S \union D
  <2>1. Z \subseteq S \union D /\ S \subseteq Z
    BY <1>2 DEF Saturate
  <2>2. Fires(n, S \union D)
    BY <1>1, <2>1 DEF Fires
  <2> QED BY <1>2, <2>2, ClosedMeans
<1> QED BY <1>1, <1>2 DEF Saturate

\* It is the least such store.
LEMMA SaturateLeast ==
  ASSUME NEW c \in Ids, NEW S
  PROVE  /\ S \subseteq Saturate(c, S) /\ Saturate(c, S) \subseteq S \union HeadsOf[c]
         /\ \A D \in SUBSET HeadsOf[c] : Closed(c, S \union D) => Saturate(c, S) \subseteq S \union D
BY DEF Saturate

-----------------------------------------------------------------------------
(* What a program means.                                                   *)

\* The facts of X that do not have the rules of c to thank.
Rest(c, B, X) == X \ (HeadsOf[c] \ B)

\* X is what the first k components make of B: every fact is one of B or a
\* head, their rules add nothing, and nothing less than their heads will do.
Explains(k, B, X) ==
  /\ B \subseteq X
  /\ \A f \in X \ B : \E c \in Ids : c <= k /\ f \in HeadsOf[c]
  /\ \A c \in Ids : c <= k => Closed(c, X)
  /\ \A c \in Ids, D \in SUBSET Facts :
       c <= k /\ D \subseteq HeadsOf[c] /\ Closed(c, Rest(c, B, X) \union D)
         => X \intersect HeadsOf[c] \subseteq B \union D

LEMMA ExplainsNext ==
  ASSUME NEW k \in 0..Len(Components), k < Len(Components),
         NEW B, NEW S, Explains(k, B, S)
  PROVE  Explains(k + 1, B, Saturate(k + 1, S))
<1> DEFINE j == k + 1
           Z == Saturate(j, S)
<1>1. j \in Ids /\ k \in Nat
  BY PlanAssumption DEF Ids
<1> HIDE DEF j
<1>2. /\ S \subseteq Z /\ Z \subseteq S \union HeadsOf[j]
      /\ \A D \in SUBSET HeadsOf[j] : Closed(j, S \union D) => Z \subseteq S \union D
      /\ Closed(j, Z)
  BY <1>1, SaturateLeast, SaturateClosed
<1> HIDE DEF Z
<1>3. \A c \in Ids : c <= j <=> c <= k \/ c = j
  BY <1>1 DEF j, Ids
<1>4. \A c \in Ids : c <= k => c # j /\ HeadsOf[c] \intersect HeadsOf[j] = {}
  BY <1>1, HeadsApart DEF j, Ids
<1>5. \A c \in Ids : c <= k => \A n \in RulesOf[c] : (n.pos \union n.neg) \intersect HeadsOf[j] = {}
  BY <1>1, ReadsBelow DEF j, Ids
<1>6. B \subseteq S /\ \A f \in S \ B : \E c \in Ids : c <= k /\ f \in HeadsOf[c]
  BY DEF Explains
<1>7. B \subseteq Z /\ \A f \in Z \ B : \E c \in Ids : c <= j /\ f \in HeadsOf[c]
  BY <1>1, <1>2, <1>3, <1>6
<1>8. ASSUME NEW c \in Ids, c <= j PROVE Closed(c, Z)
  <2>1. CASE c = j
    BY <1>2, <2>1
  <2>2. CASE c <= k
    <3> SUFFICES ASSUME NEW n \in RulesOf[c], Fires(n, Z) PROVE n.head \in Z
      BY ClosedMeans
    <3>1. Fires(n, S)
      BY <1>2, <1>5, <2>2 DEF Fires
    <3> QED BY <1>2, <2>2, <3>1, ClosedMeans DEF Explains
  <2> QED BY <1>3, <1>8, <2>1, <2>2
<1>9. ASSUME NEW c \in Ids, c <= j, NEW D \in SUBSET Facts, D \subseteq HeadsOf[c],
             Closed(c, Rest(c, B, Z) \union D)
      PROVE  Z \intersect HeadsOf[c] \subseteq B \union D
  <2>1. CASE c = j
    <3>1. S \intersect HeadsOf[j] \subseteq B
      BY <1>4, <1>6
    <3>2. Rest(j, B, Z) = S
      BY <1>2, <1>6, <3>1 DEF Rest
    <3>3. Z \subseteq S \union D
      BY <1>2, <1>9, <2>1, <3>2
    <3> QED BY <2>1, <3>1, <3>3
  <2>2. CASE c <= k
    <3>1. Z \intersect HeadsOf[c] = S \intersect HeadsOf[c]
      BY <1>2, <1>4, <2>2
    <3>2. Closed(c, Rest(c, B, S) \union D)
      <4> SUFFICES ASSUME NEW n \in RulesOf[c], Fires(n, Rest(c, B, S) \union D)
                   PROVE  n.head \in Rest(c, B, S) \union D
        BY ClosedMeans
      <4>1. n.head \in HeadsOf[c] /\ (n.pos \union n.neg) \intersect HeadsOf[j] = {}
        BY <1>5, <2>2, HeadsMean
      <4>2. Fires(n, Rest(c, B, Z) \union D)
        BY <1>2, <4>1 DEF Fires, Rest
      <4>3. n.head \in Rest(c, B, Z) \union D
        BY <1>9, <4>2, ClosedMeans
      <4> QED BY <1>6, <4>1, <4>3 DEF Rest
    <3>3. S \intersect HeadsOf[c] \subseteq B \union D
      BY <1>9, <2>2, <3>2 DEF Explains
    <3> QED BY <3>1, <3>3
  <2> QED BY <1>3, <1>9, <2>1, <2>2
<1>10. Explains(j, B, Z)
  BY <1>7, <1>8, <1>9 DEF Explains
<1> QED BY <1>10 DEF j, Z

\* The stores of an execution, from its first component to the next ones.
Runs(n, B) ==
  {s \in [0..n -> SUBSET Facts] :
     s[0] = B /\ \A i \in 1..n : s[i] = Saturate(i, s[i - 1])}

LEMMA RunsGoOn ==
  ASSUME NEW n \in 0..Len(Components), n < Len(Components), NEW B, NEW s \in Runs(n, B)
  PROVE  Runs(n + 1, B) # {}
<1> DEFINE r == [i \in 0..(n + 1) |-> IF i = n + 1 THEN Saturate(n + 1, s[n]) ELSE s[i]]
<1>1. n \in Nat /\ n + 1 \in Ids
  BY PlanAssumption DEF Ids
<1>2. /\ s \in [0..n -> SUBSET Facts] /\ s[0] = B
      /\ \A i \in 1..n : s[i] = Saturate(i, s[i - 1])
  BY DEF Runs
<1>3. Saturate(n + 1, s[n]) \in SUBSET Facts
  BY <1>1, <1>2, SaturateLeast, HeadsMean
<1>4. r \in [0..(n + 1) -> SUBSET Facts]
  BY <1>1, <1>2, <1>3
<1>5. r[0] = B
  BY <1>1, <1>2
<1>6. ASSUME NEW i \in 1..(n + 1) PROVE r[i] = Saturate(i, r[i - 1])
  <2>1. CASE i = n + 1
    <3>1. r[i] = Saturate(n + 1, s[n])
      BY <1>1, <2>1
    <3>2. i - 1 = n /\ r[n] = s[n]
      BY <1>1, <2>1
    <3> QED BY <2>1, <3>1, <3>2
  <2>2. CASE i # n + 1
    <3>1. i \in 1..n /\ r[i] = s[i] /\ r[i - 1] = s[i - 1]
      BY <1>1, <2>2
    <3> QED BY <1>2, <3>1
  <2> QED BY <2>1, <2>2
<1> HIDE DEF r
<1>7. r \in Runs(n + 1, B)
  BY <1>4, <1>5, <1>6 DEF Runs
<1> QED BY <1>7

LEMMA RunsExist ==
  ASSUME NEW B \in SUBSET Facts
  PROVE  Runs(Len(Components), B) # {}
<1> DEFINE T == {n \in 0..Len(Components) : Runs(n, B) # {}}
<1>1. 0 \in T
  <2>1. [i \in 0..0 |-> B] \in Runs(0, B)
    BY DEF Runs
  <2> QED BY <2>1, PlanAssumption
<1>2. ASSUME NEW n \in 0..Len(Components), n \in T, n < Len(Components) PROVE n + 1 \in T
  <2>1. Runs(n + 1, B) # {}
    BY <1>2, RunsGoOn
  <2>2. n + 1 \in 0..Len(Components)
    BY <1>2, PlanAssumption
  <2> QED BY <2>1, <2>2
<1> HIDE DEF T
<1>3. \A n \in 0..Len(Components) : n \in T
  BY <1>1, <1>2, Upwards, PlanAssumption
<1> QED BY <1>3, PlanAssumption DEF T

\* UpTo is such a run.
LEMMA UpToRuns ==
  ASSUME NEW B \in SUBSET Facts
  PROVE  UpTo(B) \in Runs(Len(Components), B)
<1> DEFINE Step(g) == [c \in 0..Len(Components) |-> IF c = 0 THEN B ELSE Saturate(c, g[c - 1])]
           N == Len(Components)
<1>0. N \in Nat
  BY PlanAssumption
<1>1. PICK s : s \in Runs(N, B)
  BY RunsExist
<1>2. s = Step(s)
  <2>1. s = [c \in 0..N |-> s[c]] /\ s[0] = B /\ \A i \in 1..N : s[i] = Saturate(i, s[i - 1])
    BY <1>1 DEF Runs
  <2>2. \A c \in 0..N : s[c] = IF c = 0 THEN B ELSE Saturate(c, s[c - 1])
    BY <1>0, <2>1
  <2> QED BY <2>1, <2>2
<1>3. UpTo(B) = CHOOSE g : g = Step(g)
  BY DEF UpTo
<1> HIDE DEF Step
<1>4. UpTo(B) = Step(UpTo(B))
  BY <1>2, <1>3
<1> DEFINE u == UpTo(B)
<1> HIDE DEF u
<1>5. u = [c \in 0..N |-> IF c = 0 THEN B ELSE Saturate(c, u[c - 1])]
  BY <1>4 DEF Step, u
<1>6. u[0] = B /\ \A i \in 1..N : u[i] = Saturate(i, u[i - 1])
  BY <1>0, <1>5
<1> DEFINE T == {i \in 0..N : u[i] \in SUBSET Facts}
<1>7. 0 \in T
  BY <1>0, <1>6
<1>8. ASSUME NEW i \in 0..N, i \in T, i < N PROVE i + 1 \in T
  <2>1. i + 1 \in 1..N /\ i + 1 \in Ids /\ (i + 1) - 1 = i
    BY <1>0, <1>8 DEF Ids
  <2>2. u[i + 1] = Saturate(i + 1, u[i])
    BY <1>6, <2>1
  <2>3. u[i + 1] \in SUBSET Facts
    BY <1>8, <2>1, <2>2, SaturateLeast, HeadsMean
  <2> QED BY <2>1, <2>3
<1> HIDE DEF T
<1>9. \A i \in 0..N : u[i] \in SUBSET Facts
  <2>1. \A i \in 0..N : i \in T
    BY <1>0, <1>7, <1>8, Upwards
  <2> QED BY <2>1 DEF T
<1>10. u \in [0..N -> SUBSET Facts]
  BY <1>5, <1>9
<1>11. u \in Runs(N, B)
  BY <1>6, <1>10 DEF Runs
<1> QED BY <1>11 DEF u

\* What a program makes of B is explained by B and all components.
LEMMA MeaningExplained ==
  ASSUME NEW B \in SUBSET Facts
  PROVE  Meaning(B) \in SUBSET Facts /\ Explains(Len(Components), B, Meaning(B))
<1> DEFINE N == Len(Components)
           u == UpTo(B)
           T == {n \in 0..N : Explains(n, B, u[n])}
<1>1. N \in Nat
  BY PlanAssumption
<1>2. u \in [0..N -> SUBSET Facts] /\ u[0] = B /\ \A i \in 1..N : u[i] = Saturate(i, u[i - 1])
  BY UpToRuns DEF Runs
<1> HIDE DEF u
<1>3. 0 \in T
  <2>1. Explains(0, B, B)
    BY DEF Explains, Ids
  <2> QED BY <1>1, <1>2, <2>1
<1>4. ASSUME NEW n \in 0..N, n \in T, n < N PROVE n + 1 \in T
  <2>1. u[n + 1] = Saturate(n + 1, u[n])
    BY <1>1, <1>2, <1>4
  <2>2. Explains(n + 1, B, Saturate(n + 1, u[n]))
    BY <1>4, ExplainsNext
  <2>3. n + 1 \in 0..N
    BY <1>1, <1>4
  <2> QED BY <2>1, <2>2, <2>3
<1> HIDE DEF T
<1>5. \A n \in 0..N : n \in T
  BY <1>1, <1>3, <1>4, Upwards
<1>6. Meaning(B) = u[N]
  BY DEF Meaning, u
<1> QED BY <1>1, <1>2, <1>5, <1>6 DEF T

\* What executing the components of a plan one after another makes of B is the
\* stratified model: it contains B, holds nothing but B and heads, is closed
\* under the rules of every component, and the heads of each are the least that
\* are, given the rest (execute_non_recursive_scc, the fixpoint of a stratum).
THEOREM MeaningIsLeast ==
  ASSUME NEW B \in SUBSET Facts
  PROVE  /\ Meaning(B) \in SUBSET Facts /\ B \subseteq Meaning(B)
         /\ \A f \in Meaning(B) \ B : \E c \in Ids : f \in HeadsOf[c]
         /\ \A c \in Ids : Closed(c, Meaning(B))
         /\ \A c \in Ids, D \in SUBSET Facts :
              D \subseteq HeadsOf[c] /\ Closed(c, Rest(c, B, Meaning(B)) \union D)
                => Meaning(B) \intersect HeadsOf[c] \subseteq B \union D
<1>1. \A c \in Ids : c <= Len(Components)
  BY PlanAssumption DEF Ids
<1> QED BY <1>1, MeaningExplained DEF Explains

\* A component that finds in Y what it reads in X, and not what it does not,
\* has in Y the heads it has in X.
LEMMA HeadsCarryOver ==
  ASSUME NEW B \in SUBSET Facts, NEW C \in SUBSET Facts, NEW c \in Ids,
         B \intersect HeadsOf[c] \subseteq C,
         \A n \in RulesOf[c] :
           /\ \A f \in n.pos : f \in Meaning(B) /\ f \notin HeadsOf[c] => f \in Meaning(C)
           /\ \A f \in n.neg : f \in Meaning(C) => f \in Meaning(B)
  PROVE  Meaning(B) \intersect HeadsOf[c] \subseteq Meaning(C)
<1> DEFINE X == Meaning(B)
           Y == Meaning(C)
           D == Y \intersect HeadsOf[c]
<1>1. C \subseteq Y /\ Closed(c, Y) /\ B \subseteq X /\ D \in SUBSET Facts
  BY MeaningIsLeast
<1>2. Closed(c, Rest(c, B, X) \union D)
  <2> SUFFICES ASSUME NEW n \in RulesOf[c], Fires(n, Rest(c, B, X) \union D)
               PROVE  n.head \in D
    BY ClosedMeans
  <2>1. n.pos \subseteq Y
    BY <1>1 DEF Fires, Rest
  <2>2. n.neg \intersect Y = {}
    <3>1. n.neg \intersect HeadsOf[c] = {}
      BY ReadsBelow
    <3> QED BY <1>1, <3>1 DEF Fires, Rest
  <2>3. n.head \in Y
    BY <1>1, <2>1, <2>2, ClosedMeans DEF Fires
  <2> QED BY <2>3, HeadsMean
<1>3. D \subseteq HeadsOf[c] /\ D \subseteq Y
  OBVIOUS
<1> HIDE DEF D
<1>4. X \intersect HeadsOf[c] \subseteq B \union D
  BY <1>1, <1>2, <1>3, MeaningIsLeast
<1> QED BY <1>1, <1>3, <1>4

-----------------------------------------------------------------------------
(* A store on its way to what the program makes of B.                      *)

\* W has the heads of the components in Done.
Towards(B, W, Done) ==
  /\ B \subseteq W /\ W \subseteq Meaning(B)
  /\ \A c \in Done : Meaning(B) \intersect HeadsOf[c] \subseteq W

\* The components before c are done.
Before(c, Done) == \A d \in Ids : d < c => d \in Done

\* A component reads in W what it would read in the end.
LEMMA ReadsFinal ==
  ASSUME NEW B \in SUBSET Facts, NEW W, NEW Done \in SUBSET Ids, Towards(B, W, Done),
         NEW c \in Ids, Before(c, Done), NEW n \in RulesOf[c]
  PROVE  \A f \in n.pos \union n.neg : f \notin HeadsOf[c] => (f \in W <=> f \in Meaning(B))
<1> SUFFICES ASSUME NEW f \in n.pos \union n.neg, f \notin HeadsOf[c], f \in Meaning(B), f \notin B
             PROVE  f \in W
  BY DEF Towards
<1>1. PICK e \in Ids : f \in HeadsOf[e]
  BY MeaningIsLeast
<1>2. e <= c /\ e # c
  BY <1>1, ReadsBelow
<1>3. e \in Done
  BY <1>2 DEF Before, Ids
<1> QED BY <1>1, <1>3 DEF Towards

\* What a round of it derives belongs to the end.
LEMMA RoundBelongs ==
  ASSUME NEW B \in SUBSET Facts, NEW W, NEW Done \in SUBSET Ids, Towards(B, W, Done),
         NEW c \in Ids, Before(c, Done)
  PROVE  Consequences(c, W) \subseteq Meaning(B)
<1> SUFFICES ASSUME NEW n \in RulesOf[c], Fires(n, W) PROVE n.head \in Meaning(B)
  BY DEF Consequences
<1>1. n.pos \subseteq Meaning(B)
  BY DEF Towards, Fires
<1>2. n.neg \intersect Meaning(B) = {}
  <2>1. n.neg \intersect HeadsOf[c] = {}
    BY ReadsBelow
  <2> QED BY <2>1, ReadsFinal DEF Fires
<1>3. Closed(c, Meaning(B))
  BY MeaningIsLeast
<1> QED BY <1>1, <1>2, <1>3, ClosedMeans DEF Fires

\* Executing it makes it done.
LEMMA ExecuteAdvances ==
  ASSUME NEW B \in SUBSET Facts, NEW W, NEW Done \in SUBSET Ids, Towards(B, W, Done),
         NEW c \in Ids, Before(c, Done)
  PROVE  Towards(B, Saturate(c, W), Done \union {c})
<1> DEFINE X == Meaning(B)
           Z == Saturate(c, W)
           D == X \intersect HeadsOf[c]
<1>1. /\ B \subseteq X /\ X \in SUBSET Facts /\ Closed(c, X)
      /\ B \subseteq W /\ W \subseteq X
  BY MeaningIsLeast DEF Towards
<1>2. \A n \in RulesOf[c] :
        /\ \A f \in n.pos \union n.neg : f \notin HeadsOf[c] => (f \in W <=> f \in X)
        /\ n.neg \intersect HeadsOf[c] = {} /\ n.head \in HeadsOf[c]
  BY ReadsFinal, ReadsBelow, HeadsMean
<1>3. W \subseteq Z /\ Closed(c, Z) /\ Z \subseteq W \union HeadsOf[c]
  BY SaturateLeast, SaturateClosed
<1>4. Z \subseteq X
  <2>1. Closed(c, W \union D)
    <3> SUFFICES ASSUME NEW n \in RulesOf[c], Fires(n, W \union D) PROVE n.head \in W \union D
      BY ClosedMeans
    <3>1. n.pos \subseteq X /\ n.neg \intersect X = {}
      BY <1>1, <1>2 DEF Fires
    <3>2. n.head \in X
      BY <1>1, <3>1, ClosedMeans DEF Fires
    <3> QED BY <1>2, <3>2
  <2>2. Z \subseteq W \union D
    BY <2>1, SaturateLeast
  <2> QED BY <1>1, <2>2
<1> HIDE DEF Z
<1>5. X \intersect HeadsOf[c] \subseteq Z
  <2> DEFINE E == Z \intersect HeadsOf[c]
  <2>1. Closed(c, Rest(c, B, X) \union E)
    <3> SUFFICES ASSUME NEW n \in RulesOf[c], Fires(n, Rest(c, B, X) \union E)
                 PROVE  n.head \in E
      BY ClosedMeans
    <3>1. n.pos \subseteq Z
      BY <1>1, <1>2, <1>3 DEF Fires, Rest
    <3>2. n.neg \intersect Z = {}
      BY <1>1, <1>2, <1>3, <1>4 DEF Fires, Rest
    <3>3. n.head \in Z
      BY <1>3, <3>1, <3>2, ClosedMeans DEF Fires
    <3> QED BY <1>2, <3>3
  <2>2. E \in SUBSET Facts
    BY HeadsMean
  <2> HIDE DEF E
  <2>3. E \subseteq HeadsOf[c] /\ E \subseteq Z
    BY DEF E
  <2>4. X \intersect HeadsOf[c] \subseteq B \union E
    BY <2>1, <2>2, <2>3, MeaningIsLeast
  <2> QED BY <1>1, <1>3, <2>3, <2>4
<1>6. \A d \in Done \union {c} : X \intersect HeadsOf[d] \subseteq Z
  BY <1>3, <1>5 DEF Towards
<1> QED BY <1>1, <1>3, <1>4, <1>6 DEF Towards, Z

\* When all are done it is there.
LEMMA AllDone ==
  ASSUME NEW B \in SUBSET Facts, NEW W, NEW Done, Towards(B, W, Done), Ids \subseteq Done
  PROVE  W = Meaning(B)
BY MeaningIsLeast DEF Towards

-----------------------------------------------------------------------------
(* What a delta leaves alone.                                              *)

\* What the caller's delta makes of the store.
Target == (stored \ delta.delete) \union delta.insert

\* The components of the predicates it changes.
Roots == {c \in Ids : Components[c] \intersect delta.changed # {}}

LEMMA ReachIsClosed ==
  ASSUME NEW C \in SUBSET Ids
  PROVE  /\ C \subseteq Reach(C) /\ Reach(C) \subseteq Ids
         /\ \A c \in Reach(C) : Dependents[c] \subseteq Reach(C)
<1>1. \A c \in Ids : Dependents[c] \subseteq Ids
  BY DEF Dependents
<1> DEFINE Complete == {S \in SUBSET Ids : \A c \in S : Dependents[c] \subseteq S}
<1>2. \A c \in Ids : Downstream[c] = {d \in Ids : \A S \in Complete : c \in S => d \in S}
  BY DEF Downstream
<1>3. \A S \in Complete : \A c \in S : Dependents[c] \subseteq S
  OBVIOUS
<1> HIDE DEF Complete
<1>4. \A c \in Ids : /\ c \in Downstream[c] /\ Downstream[c] \subseteq Ids
                     /\ \A d \in Downstream[c] : Dependents[d] \subseteq Downstream[c]
  BY <1>1, <1>2, <1>3
<1> QED BY <1>4 DEF Reach

LEMMA ReadsMakeDependent ==
  ASSUME NEW d \in Ids, NEW n \in RulesOf[d], NEW f \in n.pos \union n.neg,
         NEW e \in Ids, PredOf[f] \in Components[e], e # d
  PROVE  d \in Dependents[e]
<1>1. f \in On(n.pos \union n.neg, Components[e])
  BY DEF On
<1>2. Dependents[e] = {x \in Ids \ {e} : \E m \in RulesOf[x] :
                         On(m.pos \union m.neg, Components[e]) # {}}
  BY DEF Dependents
<1> QED BY <1>1, <1>2

\* What depends on a recomputed component is recomputed, and one that is not
\* only adds results when it gets more premises.
LEMMA RecomputedIs ==
  /\ Roots \subseteq Affected /\ Affected \subseteq Ids /\ Recomputed \subseteq Affected
  /\ \A c \in Affected : Dependents[c] \subseteq Affected
  /\ \A c \in Recomputed : Dependents[c] \subseteq Recomputed
  /\ delta.delete # {} => Recomputed = Affected
  /\ delta.delete = {} => \A c \in Affected \ Recomputed : \A n \in RulesOf[c] : n.neg = {}
<1>1. /\ Affected = Reach(Roots)
      /\ Roots \subseteq Affected /\ Affected \subseteq Ids
      /\ \A c \in Affected : Dependents[c] \subseteq Affected
  <2>1. Affected = Reach(Roots) /\ Roots \in SUBSET Ids
    BY DEF Affected, Roots
  <2> QED BY <2>1, ReachIsClosed
<1>2. CASE delta.delete # {}
  BY <1>1, <1>2 DEF Recomputed
<1>3. CASE delta.delete = {}
  <2> DEFINE lossy == {c \in Affected : NonMonotone(c)}
  <2>1. Recomputed = Reach(lossy) /\ lossy \in SUBSET Ids
    BY <1>1, <1>3 DEF Recomputed
  <2>2. \A c \in Affected \ lossy : \A n \in RulesOf[c] : n.neg = {}
    BY DEF NonMonotone
  <2>3. lossy \subseteq Affected
    OBVIOUS
  <2> HIDE DEF lossy
  <2>4. /\ lossy \subseteq Recomputed
        /\ \A c \in Recomputed : Dependents[c] \subseteq Recomputed
    BY <2>1, ReachIsClosed
  <2>5. Recomputed \subseteq Affected
    <3> SUFFICES ASSUME NEW d \in Recomputed PROVE d \in Affected
      OBVIOUS
    <3>1. PICK c \in lossy : d \in Downstream[c]
      BY <2>1 DEF Reach
    <3>2. Affected \in {S \in SUBSET Ids : \A x \in S : Dependents[x] \subseteq S} /\ c \in Affected
      BY <1>1, <2>3
    <3>3. c \in Ids
      BY <1>1, <3>2
    <3> QED BY <3>1, <3>2, <3>3 DEF Downstream
  <2> QED BY <1>1, <1>3, <2>2, <2>4, <2>5
<1> QED BY <1>2, <1>3

LEMMA DeltaParts ==
  ASSUME delta \in Deltas \union {NoDelta}
  PROVE  /\ delta.changed \subseteq Updated
         /\ \A f \in delta.delete \union delta.insert : f \in Facts /\ PredOf[f] \in delta.changed
BY DeltaTypes DEF On

\* The heads of a component that a delta does not reach stay what they are.
LEMMA Untouched ==
  ASSUME stored \in SUBSET Facts, delta \in Deltas \union {NoDelta}
  PROVE  \A d \in Ids \ Affected :
           Meaning(stored) \intersect HeadsOf[d] = Meaning(Target) \intersect HeadsOf[d]
<1> DEFINE X == Meaning(stored)
           Y == Meaning(Target)
           Moved == {d \in Ids \ Affected : X \intersect HeadsOf[d] # Y \intersect HeadsOf[d]}
<1> SUFFICES ASSUME Moved # {} PROVE FALSE
  OBVIOUS
<1>1. Moved \in SUBSET Nat
  BY DEF Ids
<1>2. PICK d \in Moved : \A m \in Moved : d <= m
  BY <1>1, LeastNumber
<1>3. /\ d \in Ids /\ d \notin Affected /\ X \intersect HeadsOf[d] # Y \intersect HeadsOf[d]
      /\ \A e \in Ids \ Affected : e <= d /\ e # d =>
           X \intersect HeadsOf[e] = Y \intersect HeadsOf[e]
  <2>1. \A e \in Ids : e <= d /\ e # d => ~ (d <= e)
    BY <1>2 DEF Ids
  <2> QED BY <1>2, <2>1
<1> HIDE DEF Moved
<1>4. Target \in SUBSET Facts
  BY DeltaParts DEF Target
<1>5. ASSUME NEW f, NEW e \in Ids \ Affected, PredOf[f] \in Components[e]
      PROVE  f \in stored <=> f \in Target
  <2>1. e \notin Roots
    BY <1>5, RecomputedIs
  <2>2. PredOf[f] \notin delta.changed
    BY <1>5, <2>1 DEF Roots
  <2> QED BY <2>2, DeltaParts DEF Target
<1>6. ASSUME NEW n \in RulesOf[d], NEW f \in n.pos \union n.neg, f \notin HeadsOf[d]
      PROVE  f \in X <=> f \in Y
  <2>1. PICK e \in Ids : PredOf[f] \in Components[e]
    BY <1>3, HeadsMean, PlanAssumption
  <2>2. e \notin Affected
    <3>1. CASE e = d
      BY <1>3, <3>1
    <3>2. CASE e # d
      <4>1. d \in Dependents[e]
        BY <1>3, <2>1, <3>2, ReadsMakeDependent
      <4> QED BY <1>3, <4>1, RecomputedIs
    <3> QED BY <3>1, <3>2
  <2>3. f \in stored <=> f \in Target
    BY <1>5, <2>1, <2>2
  <2>4. \A x \in Ids : f \in HeadsOf[x] => x = e
    BY <2>1, HeadsMean, PlanAssumption
  <2>5. f \in HeadsOf[e] => (f \in X <=> f \in Y)
    <3> SUFFICES ASSUME f \in HeadsOf[e] PROVE f \in X <=> f \in Y
      OBVIOUS
    <3>1. e <= d /\ e # d
      BY <1>3, <1>6, ReadsBelow
    <3> QED BY <1>3, <2>2, <3>1
  <2>6. stored \subseteq X /\ Target \subseteq Y
    BY <1>4, MeaningIsLeast
  <2>7. /\ f \in X /\ f \notin stored => f \in HeadsOf[e]
        /\ f \in Y /\ f \notin Target => f \in HeadsOf[e]
    BY <1>4, <2>4, MeaningIsLeast
  <2> QED BY <2>3, <2>5, <2>6, <2>7
<1>7. \A f \in HeadsOf[d] : f \in stored <=> f \in Target
  BY <1>3, <1>5, HeadsMean
<1>8. \A n \in RulesOf[d] : n.neg \intersect HeadsOf[d] = {}
  BY <1>3, ReadsBelow
<1>9. X \intersect HeadsOf[d] \subseteq Y
  <2>1. stored \intersect HeadsOf[d] \subseteq Target
    BY <1>7
  <2>2. \A n \in RulesOf[d] :
          /\ \A f \in n.pos : f \in X /\ f \notin HeadsOf[d] => f \in Y
          /\ \A f \in n.neg : f \in Y => f \in X
    BY <1>6, <1>8
  <2> QED BY <1>3, <1>4, <2>1, <2>2, HeadsCarryOver
<1>10. Y \intersect HeadsOf[d] \subseteq X
  <2>1. Target \intersect HeadsOf[d] \subseteq stored
    BY <1>7
  <2>2. \A n \in RulesOf[d] :
          /\ \A f \in n.pos : f \in Y /\ f \notin HeadsOf[d] => f \in X
          /\ \A f \in n.neg : f \in X => f \in Y
    BY <1>6, <1>8
  <2> QED BY <1>3, <1>4, <2>1, <2>2, HeadsCarryOver
<1> QED BY <1>3, <1>9, <1>10

\* Inserts take nothing from a component that is not recomputed.
LEMMA Spared ==
  ASSUME stored \in SUBSET Facts, delta \in Deltas \union {NoDelta}, delta.delete = {}
  PROVE  \A d \in Ids \ Recomputed : Meaning(stored) \intersect HeadsOf[d] \subseteq Meaning(Target)
<1> DEFINE X == Meaning(stored)
           Y == Meaning(Target)
           Lost == {d \in Ids \ Recomputed : ~ (X \intersect HeadsOf[d] \subseteq Y)}
<1> SUFFICES ASSUME Lost # {} PROVE FALSE
  OBVIOUS
<1>1. Lost \in SUBSET Nat
  BY DEF Ids
<1>2. PICK d \in Lost : \A m \in Lost : d <= m
  BY <1>1, LeastNumber
<1>3. /\ d \in Ids /\ d \notin Recomputed /\ ~ (X \intersect HeadsOf[d] \subseteq Y)
      /\ \A e \in Ids \ Recomputed : e <= d /\ e # d => X \intersect HeadsOf[e] \subseteq Y
  <2>1. \A e \in Ids : e <= d /\ e # d => ~ (d <= e)
    BY <1>2 DEF Ids
  <2> QED BY <1>2, <2>1
<1> HIDE DEF Lost
<1>4. Target \in SUBSET Facts /\ stored \subseteq Target
  BY DeltaParts DEF Target
<1>5. d \in Affected
  BY <1>3, Untouched
<1>6. \A n \in RulesOf[d] : n.neg = {}
  BY <1>3, <1>5, RecomputedIs
<1>7. ASSUME NEW n \in RulesOf[d], NEW f \in n.pos, f \in X, f \notin HeadsOf[d], f \notin stored
      PROVE  f \in Y
  <2>1. PICK e \in Ids : f \in HeadsOf[e]
    BY <1>7, MeaningIsLeast
  <2>2. e <= d /\ e # d /\ PredOf[f] \in Components[e]
    BY <1>3, <1>7, <2>1, ReadsBelow, HeadsMean
  <2>3. d \in Dependents[e]
    BY <1>3, <2>2, ReadsMakeDependent
  <2>4. e \notin Recomputed
    BY <1>3, <2>3, RecomputedIs
  <2> QED BY <1>3, <1>7, <2>1, <2>2, <2>4
<1>8. Target \subseteq Y
  BY <1>4, MeaningIsLeast
<1>9. \A n \in RulesOf[d] :
        /\ \A f \in n.pos : f \in X /\ f \notin HeadsOf[d] => f \in Y
        /\ \A f \in n.neg : f \in Y => f \in X
  BY <1>4, <1>6, <1>7, <1>8
<1>10. X \intersect HeadsOf[d] \subseteq Y
  BY <1>3, <1>4, <1>9, HeadsCarryOver
<1> QED BY <1>3, <1>10

\* Once the delta is applied and the recomputed predicates are emptied, the
\* store has all that is not reached, and nothing that must go.
LEMMA RecomputeStarts ==
  ASSUME stored \in SUBSET Facts, delta \in Deltas \union {NoDelta},
         \A c \in Ids : RulesOf[c] # {} => On(stored, Components[c]) = {},
         NEW W,
         W = ((Meaning(stored) \ delta.delete) \union delta.insert)
               \ On(Facts, (UNION {Components[c] : c \in Recomputed}) \ delta.changed)
  PROVE  Towards(Target, W, Ids \ Affected)
<1> DEFINE X == Meaning(stored)
           Y == Meaning(Target)
           Emptied(f) == PredOf[f] \notin delta.changed
                         /\ \E c \in Recomputed : PredOf[f] \in Components[c]
<1>1. /\ Target \in SUBSET Facts /\ Target \subseteq Y /\ stored \subseteq X /\ X \subseteq Facts
      /\ Y \subseteq Facts
  <2>1. Target \in SUBSET Facts
    BY DeltaParts DEF Target
  <2> QED BY <2>1, MeaningIsLeast
<1>2. /\ \A f \in delta.delete \union delta.insert : PredOf[f] \in delta.changed
      /\ delta.changed \subseteq Updated /\ delta.insert \subseteq Facts
  BY DeltaParts
<1>3. \A f \in Facts : f \in W <=> ((f \in X /\ f \notin delta.delete) \/ f \in delta.insert) /\ ~ Emptied(f)
  BY DEF On
<1>4. W \subseteq Facts
  BY <1>1, <1>2
<1>5. \A d \in Ids : \A f \in HeadsOf[d] :
        /\ f \in Facts /\ PredOf[f] \in Components[d] /\ PredOf[f] \notin delta.changed
        /\ f \notin delta.delete /\ f \notin delta.insert
        /\ Emptied(f) <=> d \in Recomputed
  <2> SUFFICES ASSUME NEW d \in Ids, NEW f \in HeadsOf[d]
               PROVE  /\ f \in Facts /\ PredOf[f] \in Components[d] /\ PredOf[f] \notin delta.changed
                      /\ f \notin delta.delete /\ f \notin delta.insert
                      /\ Emptied(f) <=> d \in Recomputed
    OBVIOUS
  <2>1. f \in Facts /\ PredOf[f] \in Components[d] /\ PredOf[f] \notin delta.changed
    BY <1>2, HeadsOfRules, HeadsMean
  <2>2. \A c \in Recomputed : c \in Ids
    BY RecomputedIs
  <2>3. \A c \in Recomputed : PredOf[f] \in Components[c] => c = d
    BY <2>1, <2>2, PlanAssumption
  <2> QED BY <1>2, <2>1, <2>3
<1>6. ASSUME NEW f \in stored, Emptied(f) PROVE FALSE
  <2>1. PICK c \in Recomputed : PredOf[f] \in Components[c]
    BY <1>6
  <2>2. Components[c] \intersect Updated \subseteq delta.changed
    BY ClearSparesBases
  <2>3. c \in Ids /\ RulesOf[c] = {}
    BY <2>1, RecomputedIs DEF On
  <2>4. c \in Roots
    BY <2>1, <2>3, RecomputedHasRules DEF Roots
  <2>5. PICK p \in Updated : Components[c] = {p}
    BY <1>2, <2>3, <2>4, BatchAssumption DEF Roots
  <2> QED BY <1>6, <2>1, <2>2, <2>5
<1> HIDE DEF Emptied
<1>7. Target \subseteq W
  <2> SUFFICES ASSUME NEW f \in Target PROVE f \in W
    OBVIOUS
  <2>1. f \in delta.insert \/ (f \in stored /\ f \notin delta.delete)
    BY DEF Target
  <2>2. f \in delta.insert => ~ Emptied(f)
    BY <1>2 DEF Emptied
  <2> QED BY <1>1, <1>2, <1>3, <1>6, <2>1, <2>2
<1>8. W \subseteq Y
  <2> SUFFICES ASSUME NEW f \in W, f \notin Target PROVE f \in Y
    BY <1>1
  <2>1. f \in Facts /\ f \in X /\ f \notin delta.delete /\ ~ Emptied(f) /\ f \notin stored
    BY <1>3, <1>4 DEF Target
  <2>2. PICK d \in Ids : f \in HeadsOf[d]
    BY <2>1, MeaningIsLeast
  <2>3. d \notin Recomputed
    BY <1>5, <2>1, <2>2
  <2>4. CASE delta.delete = {}
    BY <2>1, <2>2, <2>3, <2>4, Spared
  <2>5. CASE delta.delete # {}
    BY <2>1, <2>2, <2>3, <2>5, Untouched, RecomputedIs
  <2> QED BY <2>4, <2>5
<1>9. ASSUME NEW d \in Ids \ Affected PROVE Y \intersect HeadsOf[d] \subseteq W
  <2>1. Y \intersect HeadsOf[d] \subseteq X
    BY Untouched
  <2>2. d \notin Recomputed
    BY RecomputedIs
  <2> QED BY <1>3, <1>5, <2>1, <2>2
<1> QED BY <1>7, <1>8, <1>9 DEF Towards

-----------------------------------------------------------------------------
(* The stores of the session and what the program means.                   *)

\* The inline facts are of predicates without rules (finding 3 is about the
\* others).
FactsApart == \A c \in Ids : RulesOf[c] # {} => On(Initial, Components[c]) = {}

\* The store is what was handed in.
StoredGiven == given = stored

\* No component with rules has stored facts.
StoredApart == \A c \in Ids : RulesOf[c] # {} => On(stored, Components[c]) = {}

\* Both slots are empty during a call; a snapshot is the model of the store,
\* and an executor beside it has the same; any other holds what is stored and
\* nothing that does not follow.
SlotsExplained ==
  /\ ~Idle => cache = NoStore /\ runtime = NoStore
  /\ cache # NoStore => cache = Meaning(stored) /\ (runtime # NoStore => runtime = cache)
  /\ runtime # NoStore => stored \subseteq runtime /\ runtime \subseteq Meaning(stored)

\* The executor of a call is on its way to the model of the store, is there, or
\* is on its way from there to the model of what the delta makes of the store.
Passed == {c \in Ids : c < next}
WorkingExplained ==
  /\ stage = "evaluate" => Towards(stored, working, Passed)
  /\ stage \in {"check", "update"} => working = Meaning(stored)
  /\ stage = "clear" => working = (Meaning(stored) \ delta.delete) \union delta.insert
  /\ stage = "recompute" => Towards(Target, working, Passed \union (Ids \ Affected))
  /\ stage \in {"recheck", "commit"} => working = Meaning(Target)

Explained == StoredApart /\ SlotsExplained /\ WorkingExplained

\* What a step is for the session, whatever it is for a batch.
LEMMA SessionSteps ==
  ASSUME [BatchNext]_<<vars, batchVars>>
  PROVE  (\/ \E p \in Updated : Put(p)) \/ Clear \/ DropRuntime \/ BeginEvaluate
         \/ (\E d \in Deltas : ApplyDelta(d)) \/ (ApplyDelta(NetDelta) /\ net # Batch!NoChange)
         \/ Continue \/ Answer \/ Commit \/ Fail \/ UNCHANGED vars
BY DEF BatchNext, MergeUpdate, ApplyBatch, Cancelled, MergeFails, OtherCall, Call, BeginDelta,
       Running, Ends

\* What the store and the delta make of it are stores.
LEMMA StoresMean ==
  ASSUME SessionInv
  PROVE  /\ stored \in SUBSET Facts /\ stored \subseteq Meaning(stored)
         /\ delta \in Deltas \union {NoDelta}
         /\ Target \in SUBSET Facts
<1>1. stored \in SUBSET Facts /\ delta \in Deltas \union {NoDelta}
  BY DEF SessionInv, TypeOK
<1> QED BY <1>1, MeaningIsLeast, DeltaParts DEF Target

\* Updated predicates have no rules.
LEMMA NoneStored ==
  ASSUME NEW S \in SUBSET Facts, NEW T \in SUBSET Facts,
         \A f \in T : f \in S \/ PredOf[f] \in Updated,
         \A c \in Ids : RulesOf[c] # {} => On(S, Components[c]) = {}
  PROVE  \A c \in Ids : RulesOf[c] # {} => On(T, Components[c]) = {}
BY RulesNotUpdated DEF On

LEMMA PutExplained == ASSUME SessionInv, Explained, NEW p \in Updated, Put(p) PROVE Explained'
<1>1. PICK R \in SUBSET On(Facts, {p}) : stored' = (stored \ On(Facts, {p})) \union R
  BY DEF Put
<1>2. /\ stored' \in SUBSET Facts
      /\ \A f \in stored' : f \in stored \/ PredOf[f] \in Updated
  BY <1>1, StoresMean DEF On
<1>3. StoredApart'
  BY <1>2, StoresMean, NoneStored DEF Explained, StoredApart
<1>4. SlotsExplained' /\ WorkingExplained'
  BY DEF Put, Idle, SlotsExplained, WorkingExplained
<1> QED BY <1>3, <1>4 DEF Explained

LEMMA ClearExplained == ASSUME Explained, Clear PROVE Explained'
BY DEF Clear, Idle, Explained, StoredApart, SlotsExplained, WorkingExplained, On

LEMMA DropRuntimeExplained == ASSUME Explained, DropRuntime PROVE Explained'
<1>1. StoredApart' /\ SlotsExplained'
  BY DEF DropRuntime, Idle, Explained, StoredApart, SlotsExplained
<1>2. WorkingExplained'
  BY DEF DropRuntime, Idle, WorkingExplained
<1> QED BY <1>1, <1>2 DEF Explained

\* An evaluation starts with an executor that holds what is stored, and nothing
\* that does not follow.
LEMMA EvaluationStarts ==
  ASSUME stored' = stored, stage' = "evaluate", next' = 1,
         stored \subseteq working', working' \subseteq Meaning(stored)
  PROVE  WorkingExplained'
<1>1. Passed' = {}
  BY DEF Passed, Ids
<1>2. Towards(stored', working', Passed')
  BY <1>1 DEF Towards
<1> QED BY <1>2 DEF WorkingExplained

LEMMA BeginEvaluateExplained ==
  ASSUME SessionInv, Explained, BeginEvaluate PROVE Explained'
<1>1. stored' = stored /\ stage' = "evaluate" /\ next' = 1 /\ cache' = NoStore /\ runtime' = NoStore
  BY DEF BeginEvaluate
<1>2. working' = (IF runtime # NoStore THEN runtime ELSE stored)
  BY DEF BeginEvaluate
<1>3. stored \subseteq working' /\ working' \subseteq Meaning(stored)
  BY <1>2, StoresMean DEF Explained, SlotsExplained
<1>4. StoredApart' /\ SlotsExplained'
  BY <1>1 DEF Explained, StoredApart, SlotsExplained, Idle
<1> QED BY <1>1, <1>3, <1>4, EvaluationStarts DEF Explained

LEMMA ApplyDeltaExplained ==
  ASSUME SessionInv, Explained, NEW d, ApplyDelta(d) PROVE Explained'
<1>1. /\ stored' = stored /\ next' = 1 /\ cache' = NoStore /\ runtime' = NoStore
      /\ stage' = IF cache # NoStore THEN "update" ELSE "evaluate"
      /\ working' = IF runtime # NoStore THEN runtime
                    ELSE IF cache # NoStore THEN cache ELSE stored
  BY DEF ApplyDelta
<1>2. StoredApart' /\ SlotsExplained'
  BY <1>1 DEF Explained, StoredApart, SlotsExplained
<1>3. CASE cache # NoStore
  BY <1>1, <1>2, <1>3 DEF Explained, SlotsExplained, WorkingExplained
<1>4. CASE cache = NoStore
  <2>1. stored \subseteq working' /\ working' \subseteq Meaning(stored)
    BY <1>1, <1>4, StoresMean DEF Explained, SlotsExplained
  <2> QED BY <1>1, <1>2, <1>4, <2>1, EvaluationStarts DEF Explained
<1> QED BY <1>3, <1>4

-----------------------------------------------------------------------------
(* Inside a call.                                                          *)

\* A step inside a call leaves the store and the slots alone.
LEMMA InsideExplained ==
  ASSUME Explained, stage # "idle", stage' # "idle", UNCHANGED slots, WorkingExplained'
  PROVE  Explained'
BY DEF Explained, StoredApart, SlotsExplained, slots, Idle

\* Where an execution is heading, and what is done of it.
Heading == IF stage = "evaluate" THEN stored ELSE Target
Done == IF stage = "evaluate" THEN Passed ELSE Passed \union (Ids \ Affected)

LEMMA OnTheWay ==
  ASSUME SessionInv, Explained, stage \in {"evaluate", "recompute"}
  PROVE  /\ Heading \in SUBSET Facts /\ Done \in SUBSET Ids
         /\ Towards(Heading, working, Done)
         /\ next \in Ids => Before(next, Done)
<1>1. Heading \in SUBSET Facts /\ Done \in SUBSET Ids
  BY StoresMean DEF Heading, Done, Passed
<1>2. Towards(Heading, working, Done)
  BY DEF Explained, WorkingExplained, Heading, Done
<1>3. next \in Ids => Before(next, Done)
  BY DEF Before, Done, Passed
<1> QED BY <1>1, <1>2, <1>3

LEMMA StaysOnTheWay ==
  ASSUME stage \in {"evaluate", "recompute"}, stage' = stage, UNCHANGED <<slots, delta>>,
         Towards(Heading, working', Done')
  PROVE  WorkingExplained'
<1>1. Heading' = Heading /\ Target' = Target /\ Affected' = Affected
  BY DEF Heading, Target, Affected, slots
<1>2. stage = "evaluate" => Towards(stored, working', Passed') /\ stored' = stored
  BY DEF Heading, Done, slots
<1>3. stage = "recompute" => Towards(Target, working', Passed' \union (Ids \ Affected))
  BY <1>1 DEF Heading, Done
<1> QED BY <1>1, <1>2, <1>3 DEF WorkingExplained

LEMMA ExecuteExplained == ASSUME SessionInv, Explained, Execute PROVE Explained'
<1>1. /\ stage \in {"evaluate", "recompute"} /\ stage' = stage /\ UNCHANGED <<slots, delta>>
      /\ next \in Ids /\ next' = next + 1
      /\ working' = IF Executed(next) THEN Saturate(next, working) ELSE working
  BY DEF Execute, slots
<1>2. Done' = Done \union {next}
  <2>1. Passed' = Passed \union {next}
    BY <1>1 DEF Passed, Ids
  <2>2. Affected' = Affected
    BY <1>1 DEF Affected
  <2> QED BY <1>1, <2>1, <2>2 DEF Done
<1>3. Towards(Heading, working', Done \union {next})
  <2>1. CASE Executed(next)
    <3>1. working' = Saturate(next, working)
      BY <1>1, <2>1
    <3>2. Towards(Heading, Saturate(next, working), Done \union {next})
      BY <1>1, OnTheWay, ExecuteAdvances
    <3> QED BY <3>1, <3>2
  <2>2. CASE ~ Executed(next)
    <3>1. next \in Done /\ working' = working
      BY <1>1, <2>2 DEF Executed, Done
    <3>2. Done \union {next} = Done
      BY <3>1
    <3> QED BY <1>1, <3>1, <3>2, OnTheWay
  <2> QED BY <2>1, <2>2
<1> QED BY <1>1, <1>2, <1>3, StaysOnTheWay, InsideExplained

LEMMA GrowExplained == ASSUME SessionInv, Explained, Grow PROVE Explained'
<1>1. /\ stage \in {"evaluate", "recompute"} /\ stage' = stage /\ UNCHANGED <<slots, delta>>
      /\ next \in Ids /\ next' = next
  BY PlanAssumption DEF Grow, slots
<1>2. PICK D \in SUBSET Consequences(next, working) : working' = working \union D
  BY DEF Grow
<1>3. Consequences(next, working) \subseteq Meaning(Heading)
  BY <1>1, OnTheWay, RoundBelongs
<1>4. Done' = Done
  BY <1>1 DEF Done, Passed, Affected
<1>5. Towards(Heading, working', Done')
  BY <1>1, <1>2, <1>3, <1>4, OnTheWay DEF Towards
<1> QED BY <1>1, <1>5, StaysOnTheWay, InsideExplained

LEMMA DoneExplained == ASSUME SessionInv, Explained, Evaluated \/ DeltaExecuted PROVE Explained'
<1>1. /\ stage \in {"evaluate", "recompute"} /\ next \notin Ids
      /\ stage = "evaluate" => stage' = "check"
      /\ stage = "recompute" => stage' = "recheck"
      /\ UNCHANGED <<slots, delta>> /\ working' = working
  BY DEF Evaluated, DeltaExecuted, Executes, slots
<1>2. Ids \subseteq Passed
  BY <1>1, PlanAssumption DEF SessionInv, TypeOK, Ids, Passed
<1>3. working = Meaning(Heading)
  BY <1>1, <1>2, OnTheWay, AllDone DEF Done
<1>4. Target' = Target /\ stored' = stored
  BY <1>1 DEF Target, slots
<1>5. WorkingExplained'
  BY <1>1, <1>3, <1>4 DEF WorkingExplained, Heading
<1> QED BY <1>1, <1>5, InsideExplained

LEMMA MoveExplained ==
  ASSUME SessionInv, Explained, Proceed \/ Update \/ Accept PROVE Explained'
<1>1. /\ UNCHANGED <<slots, delta>>
      /\ \/ stage = "check" /\ stage' = "update" /\ working' = working
         \/ stage = "recheck" /\ stage' = "commit" /\ working' = working
         \/ stage = "update" /\ stage' = "clear"
            /\ working' = (working \ delta.delete) \union delta.insert
  BY DEF Proceed, Update, Accept, slots
<1>2. Target' = Target /\ stored' = stored /\ delta' = delta
  BY <1>1 DEF Target, slots
<1>3. WorkingExplained'
  BY <1>1, <1>2 DEF Explained, WorkingExplained
<1> QED BY <1>1, <1>3, InsideExplained

LEMMA ClearRecomputedExplained ==
  ASSUME SessionInv, Explained, ClearRecomputed PROVE Explained'
<1>1. /\ stage = "clear" /\ stage' = "recompute" /\ next' = 1 /\ UNCHANGED <<slots, delta>>
      /\ working' =
           working \ On(Facts, (UNION {Components[c] : c \in Recomputed}) \ delta.changed)
  BY DEF ClearRecomputed, slots
<1>2. working = (Meaning(stored) \ delta.delete) \union delta.insert
  BY <1>1 DEF Explained, WorkingExplained
<1>3. \A c \in Ids : RulesOf[c] # {} => On(stored, Components[c]) = {}
  BY DEF Explained, StoredApart
<1>4. Towards(Target, working', Ids \ Affected)
  BY <1>1, <1>2, <1>3, StoresMean, RecomputeStarts
<1>5. Passed' = {}
  BY <1>1 DEF Passed, Ids
<1>6. Done' = Ids \ Affected
  BY <1>1, <1>5 DEF Done, Affected
<1>7. Target' = Target
  BY <1>1 DEF Target, slots
<1>8. WorkingExplained'
  BY <1>1, <1>4, <1>6, <1>7 DEF WorkingExplained, Done
<1> QED BY <1>1, <1>8, InsideExplained

LEMMA ContinueExplained == ASSUME SessionInv, Explained, Continue PROVE Explained'
BY ExecuteExplained, GrowExplained, DoneExplained, MoveExplained, ClearRecomputedExplained
DEF Continue

-----------------------------------------------------------------------------
(* Calls that end.                                                         *)

\* A call that is over leaves an executor that can be used again, and a snapshot
\* only of what is stored.
LEMMA ReturnExplained ==
  ASSUME Return, StoredApart', cache' # NoStore => runtime' = cache',
         cache' # NoStore => cache' = Meaning(stored'),
         runtime' # NoStore => stored' \subseteq runtime' /\ runtime' \subseteq Meaning(stored')
  PROVE  Explained'
BY DEF Return, Explained, SlotsExplained, WorkingExplained, Idle

LEMMA AnswerExplained == ASSUME SessionInv, Explained, Answer PROVE Explained'
<1>1. /\ stage = "check" /\ Return /\ stored' = stored
      /\ cache' = working /\ runtime' = working
  BY DEF Answer
<1>2. working = Meaning(stored)
  BY <1>1 DEF Explained, WorkingExplained
<1>3. StoredApart'
  BY <1>1 DEF Explained, StoredApart
<1> QED BY <1>1, <1>2, <1>3, StoresMean, ReturnExplained

LEMMA FailExplained == ASSUME SessionInv, Explained, Fail PROVE Explained'
<1>1. /\ stage # "idle" /\ Return /\ stored' = stored /\ cache' = NoStore
      /\ runtime' = (IF delta = NoDelta THEN working ELSE NoStore)
  BY DEF Fail, Idle, Explained, SlotsExplained
<1>2. StoredApart'
  BY <1>1 DEF Explained, StoredApart
<1>3. ASSUME delta = NoDelta PROVE stored \subseteq working /\ working \subseteq Meaning(stored)
  <2>1. Target = stored
    BY <1>3 DEF Target, NoDelta
  <2>2. stage \in Stages
    BY DEF SessionInv, TypeOK
  <2>3. stage = "clear" => working = Meaning(stored)
    BY <1>3 DEF Explained, WorkingExplained, NoDelta
  <2> QED BY <1>1, <2>1, <2>2, <2>3, StoresMean DEF Explained, WorkingExplained, Towards, Stages
<1> QED BY <1>1, <1>2, <1>3, ReturnExplained

\* A commit stores what the delta makes of the store.
LEMMA CommitTarget == ASSUME SessionInv, Commit PROVE stored' = Target
<1>1. Bases(stored') = Batch!Applied(delta, Bases(stored))
  BY CommitStores
<1>2. stored' = (stored \ On(Facts, delta.changed)) \union On(working, delta.changed)
  BY DEF Commit
<1>3. \A f : PredOf[f] \notin Updated => (f \in stored' <=> f \in stored)
  BY <1>2, AppliedTypes DEF On
<1>4. \A f : PredOf[f] \notin Updated => (f \in Target <=> f \in stored)
  BY AppliedTypes DEF On, Target
<1>5. \A f : PredOf[f] \in Updated => (f \in stored' <=> f \in Target)
  BY <1>1 DEF Bases, On, Batch!Applied, Target
<1> QED BY <1>3, <1>4, <1>5

LEMMA CommitExplained == ASSUME SessionInv, Explained, Commit PROVE Explained'
<1>1. stage = "commit" /\ Return /\ cache' = working /\ runtime' = working
  BY DEF Commit
<1>2. stored' = Target
  BY CommitTarget
<1>3. working = Meaning(stored')
  BY <1>1, <1>2 DEF Explained, WorkingExplained
<1>4. Target \in SUBSET Facts /\ Target \subseteq Meaning(Target)
  BY StoresMean, MeaningIsLeast
<1>5. \A f \in Target : f \in stored \/ PredOf[f] \in Updated
  BY AppliedTypes DEF Target, On
<1>6. StoredApart'
  BY <1>2, <1>4, <1>5, StoresMean, NoneStored DEF Explained, StoredApart
<1> QED BY <1>1, <1>2, <1>3, <1>4, <1>6, ReturnExplained

-----------------------------------------------------------------------------
(* All of them together.                                                   *)

LEMMA ExplainedKeeps ==
  ASSUME IInv, Explained, [BatchNext]_<<vars, batchVars>>
  PROVE  Explained'
<1>1. SessionInv
  BY SessionPart
<1>2. CASE UNCHANGED vars
  <2>1. Target' = Target /\ Passed' = Passed /\ Affected' = Affected
    BY <1>2 DEF vars, Target, Passed, Affected
  <2>2. StoredApart' /\ SlotsExplained'
    BY <1>2 DEF Explained, StoredApart, SlotsExplained, Idle, vars
  <2>3. WorkingExplained'
    BY <1>2, <2>1 DEF Explained, WorkingExplained, vars
  <2> QED BY <2>2, <2>3 DEF Explained
<1> QED BY <1>1, <1>2, SessionSteps, PutExplained, ClearExplained, DropRuntimeExplained,
        BeginEvaluateExplained, ApplyDeltaExplained, ContinueExplained, AnswerExplained,
        FailExplained, CommitExplained

LEMMA GivenKeeps ==
  ASSUME IInv, StoredGiven, [BatchNext]_<<vars, batchVars>>
  PROVE  StoredGiven'
<1>1. ASSUME Commit PROVE StoredGiven'
  BY <1>1, SessionPart, CommitTarget DEF Commit, Target, StoredGiven
<1>2. ASSUME Continue PROVE UNCHANGED <<given, stored>>
  BY <1>2 DEF Continue, Execute, Grow, Evaluated, DeltaExecuted, Executes, Proceed, Update,
              ClearRecomputed, Accept
<1>3. ASSUME NEW p \in Updated, Put(p) PROVE StoredGiven'
  BY <1>3 DEF Put, StoredGiven
<1>4. ASSUME Clear PROVE StoredGiven'
  BY <1>4 DEF Clear, StoredGiven
<1>5. ASSUME \/ DropRuntime \/ BeginEvaluate \/ Answer \/ Fail \/ UNCHANGED vars
             \/ \E d : ApplyDelta(d)
      PROVE  UNCHANGED <<given, stored>>
  BY <1>5 DEF DropRuntime, BeginEvaluate, Answer, Fail, vars, ApplyDelta
<1> QED BY <1>1, <1>2, <1>3, <1>4, <1>5, SessionSteps DEF StoredGiven

\* What is stored is what callers handed in and did not delete, and so the store
\* is a correct seed for an independent evaluation, whatever calls failed
\* (clone_prospective_base_store).
THEOREM SeedIsExact == BatchSpec => []SeedExact
<1>1. BatchInit => StoredGiven
  BY DEF BatchInit, Init, StoredGiven
<1>2. IInv /\ StoredGiven /\ [BatchNext]_<<vars, batchVars>> => StoredGiven'
  BY GivenKeeps
<1>3. StoredGiven => SeedExact
  BY DEF StoredGiven, SeedExact
<1> QED BY <1>1, <1>2, <1>3, Invariant, PTL DEF BatchSpec

\* A running call brings its executor from one model to the next.
THEOREM StoresAreExplained == FactsApart => (BatchSpec => [](StoredGiven /\ Explained))
<1> SUFFICES ASSUME FactsApart PROVE BatchSpec => [](StoredGiven /\ Explained)
  OBVIOUS
<1>1. BatchInit => StoredGiven /\ Explained
  <2> SUFFICES ASSUME BatchInit PROVE StoredGiven /\ Explained
    OBVIOUS
  <2>1. StoredGiven /\ StoredApart
    BY DEF BatchInit, Init, StoredGiven, StoredApart, FactsApart
  <2>2. SlotsExplained /\ WorkingExplained
    BY DEF BatchInit, Init, SlotsExplained, WorkingExplained
  <2> QED BY <2>1, <2>2 DEF Explained
<1>2. IInv /\ StoredGiven /\ Explained /\ [BatchNext]_<<vars, batchVars>>
        => StoredGiven' /\ Explained'
  BY GivenKeeps, ExplainedKeeps
<1> QED BY <1>1, <1>2, Invariant, PTL DEF BatchSpec

\* When no inline fact is of a predicate with rules, every snapshot is the model
\* of what was handed in, by whatever deltas, batches and failed calls it came
\* about (apply_deltas_and_recompute).
THEOREM SnapshotsAreExact == FactsApart => (BatchSpec => []CacheExact)
<1>1. StoredGiven /\ Explained => CacheExact
  BY DEF StoredGiven, Explained, SlotsExplained, CacheExact
<1> QED BY <1>1, StoresAreExplained, PTL

\* Likewise an executor that a finished or failed call leaves in its slot holds
\* all that is stored and nothing that does not follow, so that the next
\* evaluation can go on from it (LogicRelationSession::evaluate).
THEOREM RetainedIsSound == FactsApart => (BatchSpec => []RetainedSound)
<1>1. StoredGiven /\ Explained => RetainedSound
  BY DEF Explained, SlotsExplained, RetainedSound
<1> QED BY <1>1, StoresAreExplained, PTL

-----------------------------------------------------------------------------
(* A component on its own.                                                 *)

\* A recursive component as LeastModel, and so SemiNaive and Saturation, take it:
\* compiled rules, their heads and scans, and their ground instances.
Alone(Heads, Compiled, HeadPred, Scanned, Longest, Ground) ==
  INSTANCE LeastModel WITH
    Recursive <- Heads, Rules <- Compiled, HeadOf <- HeadPred, Scans <- Scanned,
    Width <- Longest, Instances <- Ground

\* The ground instances are those of the rules of c that no negated premise in
\* S blocks.
Premises(n) == {n.body[i] : i \in DOMAIN n.body}
Spells(Ground, c, S) ==
  {<<Premises(n), n.head>> : n \in Ground}
    = {<<n.pos, n.head>> : n \in {m \in RulesOf[c] : m.neg \intersect S = {}}}

\* A run of SemiNaive grows the store of a session as Grow allows, and ends with
\* what Execute takes the component to give: the facts that follow at once, the
\* stores a run may answer with and the least model are the same.  A negated
\* premise is of an earlier component, so that none arrives meanwhile
\* (execute_recursive_scc).
THEOREM ComponentAlone ==
  ASSUME NEW c \in Ids, NEW S \in SUBSET Facts,
         NEW Heads, NEW Compiled, NEW HeadPred, NEW Scanned, NEW Longest, NEW Ground,
         Spells(Ground, c, S)
  PROVE  /\ \A W \in SUBSET (S \union HeadsOf[c]) : S \subseteq W =>
              /\ Alone(Heads, Compiled, HeadPred, Scanned, Longest, Ground)!Consequences(W)
                   = Consequences(c, W)
              /\ Alone(Heads, Compiled, HeadPred, Scanned, Longest, Ground)!Closed(W)
                   <=> Closed(c, W)
         /\ Alone(Heads, Compiled, HeadPred, Scanned, Longest, Ground)!Model(S) = Saturate(c, S)
<1> DEFINE Derived(W) == {n.head : n \in {m \in Ground : Premises(m) \subseteq W}}
           Z == Saturate(c, S)
<1>1. \A W : Alone(Heads, Compiled, HeadPred, Scanned, Longest, Ground)!Consequences(W) = Derived(W)
  BY DEF Alone!Consequences, Alone!Holds, Premises
<1>2. \A W : Alone(Heads, Compiled, HeadPred, Scanned, Longest, Ground)!Closed(W)
               <=> Derived(W) \subseteq W
  BY DEF Alone!Closed, Alone!Holds, Premises
<1>3. Alone(Heads, Compiled, HeadPred, Scanned, Longest, Ground)!Model(S)
        = {f \in Facts : \A X \in SUBSET Facts : S \subseteq X /\ Derived(X) \subseteq X => f \in X}
  BY <1>2 DEF Alone!Model, Alone!Models
<1>4. ASSUME NEW W \in SUBSET (S \union HeadsOf[c]), S \subseteq W
      PROVE  Derived(W) = Consequences(c, W)
  <2>1. \A n \in RulesOf[c] : n.neg \intersect W = {} <=> n.neg \intersect S = {}
    BY <1>4, ReadsBelow
  <2>2. ASSUME NEW n \in Ground, Premises(n) \subseteq W PROVE n.head \in Consequences(c, W)
    <3>1. PICK m \in RulesOf[c] : m.neg \intersect S = {} /\ <<m.pos, m.head>> = <<Premises(n), n.head>>
      BY DEF Spells
    <3> QED BY <2>1, <2>2, <3>1 DEF Consequences, Fires
  <2>3. ASSUME NEW m \in RulesOf[c], Fires(m, W) PROVE m.head \in Derived(W)
    <3>1. m.neg \intersect S = {}
      BY <2>1, <2>3 DEF Fires
    <3>2. PICK n \in Ground : <<m.pos, m.head>> = <<Premises(n), n.head>>
      BY <3>1 DEF Spells
    <3> QED BY <2>3, <3>2 DEF Fires
  <2> QED BY <2>2, <2>3 DEF Consequences
<1>5. \A X, W : W \subseteq X => Derived(W) \subseteq Derived(X)
  OBVIOUS
<1> HIDE DEF Derived
<1>6. /\ S \subseteq Z /\ Z \subseteq S \union HeadsOf[c] /\ Closed(c, Z)
      /\ \A D \in SUBSET HeadsOf[c] : Closed(c, S \union D) => Z \subseteq S \union D
  BY SaturateLeast, SaturateClosed
<1>7. Z \in SUBSET Facts
  BY <1>6, HeadsOfRules
<1> HIDE DEF Z
<1>8. Derived(Z) \subseteq Z
  BY <1>4, <1>6 DEF Closed
<1>9. ASSUME NEW X \in SUBSET Facts, S \subseteq X, Derived(X) \subseteq X PROVE Z \subseteq X
  <2> DEFINE D == X \intersect HeadsOf[c]
  <2>1. Derived(S \union D) = Consequences(c, S \union D)
    BY <1>4
  <2>2. Derived(S \union D) \subseteq X
    BY <1>5, <1>9
  <2>3. Consequences(c, S \union D) \subseteq HeadsOf[c]
    BY ConsequencesAreHeads
  <2>4. Closed(c, S \union D)
    BY <2>1, <2>2, <2>3 DEF Closed
  <2> QED BY <1>6, <1>9, <2>4
<1>10. Alone(Heads, Compiled, HeadPred, Scanned, Longest, Ground)!Model(S) = Z
  BY <1>3, <1>6, <1>7, <1>8, <1>9
<1> QED BY <1>1, <1>2, <1>4, <1>10 DEF Z, Closed
=============================================================================
