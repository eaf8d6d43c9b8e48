--------------------------- MODULE RelationSession ---------------------------
(***************************************************************************)
(* A session of persistent relations (crates/xlog-gpu/src/logic.rs, the    *)
(* session half of LogicProgram; crates/pyxlog/src/logic.rs,               *)
(* LogicRelationSession).  The caller hands in relations; an evaluation    *)
(* runs the plan in a retained executor and keeps a snapshot of its store; *)
(* a delta changes relations and brings the executor's store up to date by *)
(* executing again only what depends on them                               *)
(* (crates/xlog-runtime/src/executor/rewrite.rs,                           *)
(* apply_deltas_and_recompute).  Any step may fail.                        *)
(*                                                                         *)
(* One call runs at a time.  While it runs, the executor is in "working"   *)
(* and its slot is empty.                                                  *)
(***************************************************************************)
EXTENDS Stratified

CONSTANTS
  Initial,    \* the inline facts of the program
  Updated,    \* the predicates callers replace or change
  Forbidden,  \* the facts of the constraint relations
  ReadFails,  \* whether reading a constraint relation back may fail
  NoStore     \* stands for the store of an empty slot

Preds == {PredOf[f] : f \in Facts}

ASSUME SessionAssumption ==
  /\ Initial \subseteq Facts
  /\ Updated \subseteq Preds
  /\ Forbidden \subseteq Facts
  /\ ReadFails \in BOOLEAN
  /\ NoStore \notin SUBSET Facts

DeltasOf(C) ==
  [changed : {C}, delete : SUBSET On(Facts, C), insert : SUBSET On(Facts, C)]
Deltas == UNION {DeltasOf(C) : C \in (SUBSET Updated) \ {{}}}
NoDelta == [changed |-> {}, delete |-> {}, insert |-> {}]

VARIABLES
  given,   \* what callers have handed in and not deleted
  stored,  \* the authoritative relation store
  cache,   \* the snapshot of the last evaluation
  runtime, \* the store of the retained executor
  working, \* the store of the executor the running call uses
  stage,   \* where the running call is
  delta,   \* the delta of the running call, if that is what it applies
  next     \* the component it executes next

vars == <<given, stored, cache, runtime, working, stage, delta, next>>
slots == <<given, stored, cache, runtime>>

Stages == {"idle", "evaluate", "check", "update", "clear", "recompute",
           "recheck", "commit"}

TypeOK ==
  /\ given \in SUBSET Facts
  /\ stored \in SUBSET Facts
  /\ cache \in (SUBSET Facts) \union {NoStore}
  /\ runtime \in (SUBSET Facts) \union {NoStore}
  /\ working \in (SUBSET Facts) \union {NoStore}
  /\ stage \in Stages
  /\ delta \in Deltas \union {NoDelta}
  /\ next \in 1..(Len(Components) + 1)
  /\ working = NoStore <=> stage = "idle"

Init ==
  /\ given = Initial
  /\ stored = Initial
  /\ cache = NoStore
  /\ runtime = NoStore
  /\ working = NoStore
  /\ stage = "idle"
  /\ delta = NoDelta
  /\ next = 1

Idle == stage = "idle"

\* The call is over.
Return ==
  /\ working' = NoStore
  /\ stage' = "idle"
  /\ delta' = NoDelta
  /\ next' = 1

\* A caller replaces or removes a relation: what was derived is dropped.
Put(p) ==
  /\ Idle
  /\ \E R \in SUBSET On(Facts, {p}) :
       /\ given' = (given \ On(Facts, {p})) \union R
       /\ stored' = (stored \ On(Facts, {p})) \union R
  /\ cache' = NoStore
  /\ runtime' = NoStore
  /\ UNCHANGED <<working, stage, delta, next>>

\* All relations are removed, the inline facts too.
Clear ==
  /\ Idle
  /\ given' = {}
  /\ stored' = {}
  /\ cache' = NoStore
  /\ runtime' = NoStore
  /\ UNCHANGED <<working, stage, delta, next>>

\* A caller of the Rust interface keeps the snapshot only.
DropRuntime ==
  /\ Idle
  /\ runtime' = NoStore
  /\ UNCHANGED <<given, stored, cache, working, stage, delta, next>>

\* With a snapshot an evaluation only reads it; without one the plan runs in
\* the retained executor, or in a new one on a copy of the store.
BeginEvaluate ==
  /\ Idle
  /\ cache = NoStore
  /\ working' = IF runtime # NoStore THEN runtime ELSE stored
  /\ runtime' = NoStore
  /\ stage' = "evaluate"
  /\ next' = 1
  /\ UNCHANGED <<given, stored, cache, delta>>

\* A delta takes both slots.  Without a snapshot it evaluates first.
ApplyDelta(d) ==
  /\ Idle
  /\ delta' = d
  /\ working' = IF runtime # NoStore THEN runtime
                ELSE IF cache # NoStore THEN cache ELSE stored
  /\ stage' = IF cache # NoStore THEN "update" ELSE "evaluate"
  /\ runtime' = NoStore
  /\ cache' = NoStore
  /\ next' = 1
  /\ UNCHANGED <<given, stored>>
BeginDelta == \E d \in Deltas : ApplyDelta(d)

\* Mutant: the components that read a changed one, and no further.
AffectedDirectly ==
  LET C == {c \in Ids : Components[c] \intersect delta.changed # {}}
  IN  C \union UNION {Dependents[c] : c \in C}

\* The components a delta reaches.
Affected == Reach({c \in Ids : Components[c] \intersect delta.changed # {}})

\* Those that start from nothing: all when rows are deleted, else the ones
\* that may lose results and what depends on them.
Recomputed ==
  IF delta.delete # {} THEN Affected
  ELSE Reach({c \in Affected : NonMonotone(c)})

\* The plan is executed in full or, for a delta, where it is affected.
Executed(c) == stage = "evaluate" \/ c \in Affected

\* One component is executed to its end.
Execute ==
  /\ stage \in {"evaluate", "recompute"}
  /\ next \in Ids
  /\ working' = IF Executed(next) THEN Saturate(next, working) ELSE working
  /\ next' = next + 1
  /\ UNCHANGED <<given, stored, cache, runtime, stage, delta>>

\* A recursive component installs its heads one by one and in rounds.
Grow ==
  /\ stage \in {"evaluate", "recompute"}
  /\ next \in Recursive
  /\ Executed(next)
  /\ \E D \in SUBSET Consequences(next, working) : working' = working \union D
  /\ UNCHANGED <<given, stored, cache, runtime, stage, delta, next>>

\* All components are done; the constraint relations are looked at next.
Executes(done) ==
  /\ next \notin Ids
  /\ stage' = done
  /\ UNCHANGED <<given, stored, cache, runtime, working, delta, next>>
Evaluated == stage = "evaluate" /\ Executes("check")
DeltaExecuted == stage = "recompute" /\ Executes("recheck")

\* Mutant: a delta does not look at the constraints again.
SatisfiedBefore == stage = "recheck" \/ working \intersect Forbidden = {}

\* A constraint relation with rows is an error, but one that cannot be read
\* back counts as empty.
Satisfied == working \intersect Forbidden = {} \/ ReadFails

\* An evaluation keeps its executor and a snapshot of it.
Answer ==
  /\ stage = "check"
  /\ delta = NoDelta
  /\ Satisfied
  /\ cache' = working
  /\ runtime' = working
  /\ UNCHANGED <<given, stored>>
  /\ Return

\* The evaluation before a delta has no other result.
Proceed ==
  /\ stage = "check"
  /\ delta # NoDelta
  /\ Satisfied
  /\ stage' = "update"
  /\ UNCHANGED <<given, stored, cache, runtime, working, delta, next>>

\* The changed relations lose the deleted rows, then gain the inserted ones.
Update ==
  /\ stage = "update"
  /\ working' = (working \ delta.delete) \union delta.insert
  /\ stage' = "clear"
  /\ UNCHANGED <<given, stored, cache, runtime, delta, next>>

\* The predicates of the recomputed components are emptied, except the ones
\* the delta changed.
ClearRecomputed ==
  /\ stage = "clear"
  /\ working' =
       working \ On(Facts, (UNION {Components[c] : c \in Recomputed}) \ delta.changed)
  /\ stage' = "recompute"
  /\ next' = 1
  /\ UNCHANGED <<given, stored, cache, runtime, delta>>

Accept ==
  /\ stage = "recheck"
  /\ Satisfied
  /\ stage' = "commit"
  /\ UNCHANGED <<given, stored, cache, runtime, working, delta, next>>

\* Mutant: the staged relations are not installed in the store.
CommitDerived ==
  /\ stage = "commit"
  /\ given' = (given \ delta.delete) \union delta.insert
  /\ stored' = stored
  /\ cache' = working
  /\ runtime' = working
  /\ Return

\* The changed relations are copied from the executor to the store, and its
\* state fills both slots.
Commit ==
  /\ stage = "commit"
  /\ given' = (given \ delta.delete) \union delta.insert
  /\ stored' = (stored \ On(Facts, delta.changed)) \union On(working, delta.changed)
  /\ cache' = working
  /\ runtime' = working
  /\ Return

\* Mutant: the executor of a failed delta goes back to its slot.
FailKeepsRuntime ==
  /\ ~Idle
  /\ runtime' = working
  /\ UNCHANGED <<given, stored, cache>>
  /\ Return

\* A step fails, or a constraint is violated.  The executor of an evaluation
\* is retained as it is; that of a delta is dropped.
Fail ==
  /\ ~Idle
  /\ runtime' = IF delta = NoDelta THEN working ELSE NoStore
  /\ UNCHANGED <<given, stored, cache>>
  /\ Return

\* A call of the session begins.
Call ==
  \/ \E p \in Updated : Put(p)
  \/ Clear \/ DropRuntime
  \/ BeginEvaluate \/ BeginDelta

\* The running call goes on, up to its end.
Continue ==
  \/ Execute \/ Grow \/ Evaluated \/ DeltaExecuted
  \/ Proceed \/ Update \/ ClearRecomputed \/ Accept

Next == Call \/ Continue \/ Answer \/ Commit \/ Fail

Spec == Init /\ [][Next]_vars

-----------------------------------------------------------------------------

\* A snapshot is what evaluating all that was handed in from nothing would
\* give, by whatever deltas and failed calls it came about
\* (apply_deltas_and_recompute: "provides correctness for both insertions and
\* deletions").
CacheExact == cache # NoStore => cache = Meaning(given)

\* The authoritative store is a correct seed for an independent evaluation
\* (PreparedRelationDeltaCommit::commit, clone_prospective_base_store).
SeedExact == Meaning(stored) = Meaning(given)

\* An executor that a failed or finished call leaves in its slot can be used
\* again: it holds all that is stored, and nothing that does not follow
\* (LogicRelationSession::evaluate keeps the executor of a failed evaluation).
RetainedSound ==
  Idle /\ runtime # NoStore => stored \subseteq runtime /\ runtime \subseteq Meaning(stored)

\* No snapshot violates a constraint, and so no answer and no committed delta
\* ("Constraints are checked after all derivations complete.  If violated,
\* XLOG reports an error": enforce_constraints_in_store).
ConstraintsHold == cache # NoStore => cache \intersect Forbidden = {}
=============================================================================
