------------------------------ MODULE SemiNaive ------------------------------
(***************************************************************************)
(* Semi-naive evaluation of one recursive component                        *)
(* (crates/xlog-runtime/src/executor/recursive.rs, execute_recursive_scc)  *)
(* on a store that lives on from run to run: facts arrive between two      *)
(* runs, and a run may end at any step with an error or at the iteration   *)
(* limit and leave a partial result behind.                                *)
(*                                                                         *)
(* The executor is single-threaded, so what matters is what a run reads    *)
(* when, and which relation is current at that moment.  The relations of   *)
(* the predicates are kept in one set of facts; so are their deltas.  The  *)
(* relation names a failed run leaves registered are never read again,     *)
(* since a run numbers its deltas above all of them.                       *)
(***************************************************************************)
EXTENDS LeastModel, FiniteSets

CONSTANTS
  Inserts,       \* the sets of facts that may arrive
  MaxIterations, \* config.max_iterations
  Chain,         \* the rules promoted to a ChainJoin of two scans
  Extreme,       \* the facts that mention the id u32::MAX
  Unpackable     \* those of them that are (u32::MAX, u32::MAX)

ASSUME SemiNaiveAssumption ==
  /\ Inserts \subseteq SUBSET Facts
  /\ MaxIterations \in Nat
  /\ Chain \subseteq Rules
  /\ \A r \in Chain : DOMAIN Scans[r] = {1, 2}
  /\ Unpackable \subseteq Extreme
  /\ Extreme \subseteq Facts

VARIABLES
  base,      \* the facts handed in so far
  store,     \* what the predicates' relations hold
  outcome,   \* how the last run ended, or "running"
  stage,     \* the loop the run is in
  todo,      \* what the loop has still to visit
  seeds,     \* derived_initial
  delta,     \* what the delta relations hold
  raw,       \* delta_new_raw_by_head
  novel,     \* delta_novel_by_head
  changed,   \* DeltaRelationTracker::any_changed
  iteration, \* iteration_count
  bounds     \* FactorizedDeltaCtx::domain_by_key

vars == <<base, store, outcome, stage, todo, seeds, delta, raw, novel,
          changed, iteration, bounds>>

\* A body position of a rule, and what the bound of a chain is kept under.
Occurrences == Rules \X Positions
Keys == Recursive \X Preds

TypeOK ==
  /\ base \in SUBSET Facts
  /\ store \in SUBSET Facts
  /\ outcome \in {"none", "running", "ok", "limit", "error"}
  /\ stage \in {"idle", "seed", "install", "evaluate", "finalize", "merge"}
  /\ todo \in SUBSET (Recursive \union Occurrences)
  /\ seeds \in SUBSET Facts
  /\ delta \in SUBSET Facts
  /\ raw \in SUBSET Facts
  /\ novel \in SUBSET Facts
  /\ changed \in BOOLEAN
  /\ iteration \in Nat
  /\ bounds \in [Keys -> {"unknown", "packs", "declined"}]

Init ==
  /\ base = {}
  /\ store = {}
  /\ outcome = "none"
  /\ stage = "idle"
  /\ todo = {}
  /\ seeds = {}
  /\ delta = {}
  /\ raw = {}
  /\ novel = {}
  /\ changed = FALSE
  /\ iteration = 0
  /\ bounds = [k \in Keys |-> "unknown"]

Idle == stage = "idle"

\* Facts arrive: for an insertion the store holds the union.
Insert ==
  /\ Idle
  /\ \E F \in Inserts :
       /\ base' = base \union F
       /\ store' = store \union F
  /\ outcome' = "none"
  /\ UNCHANGED <<stage, todo, seeds, delta, raw, novel, changed, iteration,
                 bounds>>

\* A run starts with fresh delta relations and nothing accumulated.
Start ==
  /\ Idle
  /\ stage' = "seed"
  /\ outcome' = "running"
  /\ todo' = {}
  /\ seeds' = {}
  /\ delta' = {}
  /\ raw' = {}
  /\ novel' = {}
  /\ changed' = FALSE
  /\ iteration' = 0
  /\ bounds' = [k \in Keys |-> "unknown"]
  /\ UNCHANGED <<base, store>>

\* Every rule is evaluated once against the store, which does not change.
Seed ==
  /\ stage = "seed"
  /\ seeds' = Consequences(store)
  /\ stage' = "install"
  /\ todo' = Recursive
  /\ UNCHANGED <<base, store, outcome, delta, raw, novel, changed, iteration,
                 bounds>>

\* Mutant: the difference is taken after the store has been replaced.
InstallFirst(p) ==
  /\ stage = "install"
  /\ p \in todo
  /\ store' = store \union Of(seeds, p)
  /\ delta' = (delta \ Of(delta, p)) \union (Of(seeds, p) \ store')
  /\ todo' = todo \ {p}
  /\ UNCHANGED <<base, outcome, stage, seeds, raw, novel, changed, iteration,
                 bounds>>

\* A head takes its seeds; its delta is what is new.
Install(p) ==
  /\ stage = "install"
  /\ p \in todo
  /\ store' = store \union Of(seeds, p)
  /\ delta' = (delta \ Of(delta, p)) \union (Of(seeds, p) \ store)
  /\ todo' = todo \ {p}
  /\ UNCHANGED <<base, outcome, stage, seeds, raw, novel, changed, iteration,
                 bounds>>

\* The occurrences a round rewrites: recursive scans with a non-empty delta.
Variants ==
  {v \in Occurrences :
     /\ v[2] \in DOMAIN Scans[v[1]]
     /\ Scans[v[1]][v[2]] \in Recursive
     /\ Of(delta, Scans[v[1]][v[2]]) # {}}

StartRound ==
  /\ stage \in {"install", "merge"}
  /\ todo = {}
  /\ iteration < MaxIterations
  /\ iteration' = iteration + 1
  /\ raw' = {}
  /\ novel' = {}
  /\ todo' = Variants
  /\ stage' = "evaluate"
  /\ UNCHANGED <<base, store, outcome, seeds, delta, changed, bounds>>

\* The body of a variant: one scan reads the delta, the others read the store.
Reads(n, v) ==
  \A i \in DOMAIN n.body : n.body[i] \in (IF i = v[2] THEN delta ELSE store)

Derived(v) ==
  {n.head : n \in {m \in Instances : m.rule = v[1] /\ Reads(m, v)}}

\* The bound of a chain is read off its three relations at the first attempt
\* of a run and kept: with the id u32::MAX in sight the pipeline declines.
Key(v) == <<HeadOf[v[1]], Scans[v[1]][3 - v[2]]>>

Bound(v) ==
  IF bounds[Key(v)] # "unknown" THEN bounds[Key(v)]
  ELSE IF Extreme \intersect (Of(delta, Scans[v[1]][v[2]])
                              \union Of(store, Scans[v[1]][3 - v[2]])
                              \union Of(store, HeadOf[v[1]])) = {}
       THEN "packs" ELSE "declined"

\* The factorized pipeline returns new tuples only.  A tuple whose packed key
\* is the empty mark of the hash set never shows up.
Factorize(v) ==
  /\ stage = "evaluate"
  /\ v \in todo
  /\ v[1] \in Chain
  /\ Bound(v) = "packs"
  /\ bounds' = [bounds EXCEPT ![Key(v)] = "packs"]
  /\ novel' = novel \union ((Derived(v) \ store) \ Unpackable)
  /\ todo' = todo \ {v}
  /\ UNCHANGED <<base, store, outcome, stage, seeds, delta, raw, changed,
                 iteration>>

\* The join route takes a variant when the pipeline does not apply, declines
\* before or after it asks for the bound, or fails.
Join(v) ==
  /\ stage = "evaluate"
  /\ v \in todo
  /\ \/ bounds' = bounds
     \/ v[1] \in Chain /\ bounds' = [bounds EXCEPT ![Key(v)] = Bound(v)]
  /\ raw' = raw \union Derived(v)
  /\ todo' = todo \ {v}
  /\ UNCHANGED <<base, store, outcome, stage, seeds, delta, novel, changed,
                 iteration>>

BeginFinalize ==
  /\ stage = "evaluate"
  /\ todo = {}
  /\ changed' = FALSE
  /\ todo' = Recursive
  /\ stage' = "finalize"
  /\ UNCHANGED <<base, store, outcome, seeds, delta, raw, novel, iteration,
                 bounds>>

\* The new delta of a head.  Only-factorized results skip the difference.
NewDelta(p) ==
  IF Of(raw, p) = {} THEN Of(novel, p)
  ELSE (Of(raw, p) \union Of(novel, p)) \ store

\* Mutant: a head marks the round as changed whatever it found.
FinalizeMarks(p) ==
  /\ stage = "finalize"
  /\ p \in todo
  /\ delta' = (delta \ Of(delta, p)) \union NewDelta(p)
  /\ changed' = TRUE
  /\ todo' = todo \ {p}
  /\ UNCHANGED <<base, store, outcome, stage, seeds, raw, novel, iteration,
                 bounds>>

Finalize(p) ==
  /\ stage = "finalize"
  /\ p \in todo
  /\ delta' = (delta \ Of(delta, p)) \union NewDelta(p)
  /\ changed' = (changed \/ NewDelta(p) # {})
  /\ todo' = todo \ {p}
  /\ UNCHANGED <<base, store, outcome, stage, seeds, raw, novel, iteration,
                 bounds>>

\* The run is over and its delta relations are dropped.
Leave(how) ==
  /\ outcome' = how
  /\ stage' = "idle"
  /\ todo' = {}
  /\ seeds' = {}
  /\ delta' = {}
  /\ raw' = {}
  /\ novel' = {}
  /\ changed' = FALSE
  /\ iteration' = 0
  /\ bounds' = [k \in Keys |-> "unknown"]
  /\ UNCHANGED <<base, store>>

Converged ==
  /\ stage = "finalize"
  /\ todo = {}
  /\ ~changed
  /\ Leave("ok")

BeginMerge ==
  /\ stage = "finalize"
  /\ todo = {}
  /\ changed
  /\ todo' = Recursive
  /\ stage' = "merge"
  /\ UNCHANGED <<base, store, outcome, seeds, delta, raw, novel, changed,
                 iteration, bounds>>

\* Mutant: a delta is dropped once it is merged.
MergeDrops(p) ==
  /\ stage = "merge"
  /\ p \in todo
  /\ store' = store \union Of(delta, p)
  /\ delta' = delta \ Of(delta, p)
  /\ todo' = todo \ {p}
  /\ UNCHANGED <<base, outcome, stage, seeds, raw, novel, changed, iteration,
                 bounds>>

Merge(p) ==
  /\ stage = "merge"
  /\ p \in todo
  /\ store' = store \union Of(delta, p)
  /\ todo' = todo \ {p}
  /\ UNCHANGED <<base, outcome, stage, seeds, delta, raw, novel, changed,
                 iteration, bounds>>

\* Mutant: the loop ends at the limit as if it had converged.
LimitAsAnswer ==
  /\ stage \in {"install", "merge"}
  /\ todo = {}
  /\ iteration = MaxIterations
  /\ Leave("ok")

LimitExceeded ==
  /\ stage \in {"install", "merge"}
  /\ todo = {}
  /\ iteration = MaxIterations
  /\ Leave("limit")

\* Any step of a run may fail.  The heads visited so far keep what they got.
Fail ==
  /\ ~Idle
  /\ Leave("error")

Next ==
  \/ Insert \/ Start \/ Seed
  \/ \E p \in Recursive : Install(p) \/ Finalize(p) \/ Merge(p)
  \/ StartRound
  \/ \E v \in Occurrences : Factorize(v) \/ Join(v)
  \/ BeginFinalize \/ Converged \/ BeginMerge \/ LimitExceeded \/ Fail

Spec == Init /\ [][Next]_vars

-----------------------------------------------------------------------------

\* The run answers only with the least model of all facts handed in, however
\* many failed or limited runs came before (execute_recursive_scc returns Ok).
Exact == outcome = "ok" => store = Model(base)

\* Nothing is in the store that does not follow from the facts, not even after
\* an error between two heads (the "?" exits of execute_recursive_scc).
Sound == store \subseteq Model(base)

\* When a round starts, every instance whose premises hold has its head in the
\* store or reads a fact of a delta: what the round will evaluate misses none.
DeltasSuffice ==
  (stage \in {"install", "merge"} /\ todo = {}) =>
    \A n \in Instances :
      Holds(n, store) =>
        n.head \in store \/ \E i \in DOMAIN n.body : n.body[i] \in delta

\* A delta that is yet to be merged holds new tuples only, on the route that
\* takes the difference and on the one that skips it.
DeltasNew ==
  stage = "merge" => \A p \in todo \intersect Recursive : Of(delta, p) \intersect store = {}

\* Every round but the last adds a tuple, so that the limit ends no run that
\* has converged (the loop over 0..max_iterations).
NoIdleRound ==
  iteration <= Cardinality({f \in store : PredOf[f] \in Recursive}) + 1

\* The sparse pipeline forbids the one key it cannot pack and "fails closed if
\* present" (fj_delta_sparse.rs, fj_delta_sparse_novel_u32_recorded): no run
\* answers without such a tuple when the rules derive it.
FailsClosed == outcome = "ok" => Unpackable \intersect Model(base) \subseteq store

\* The component as its callers see it (execute_recursive_scc): the store grows
\* by facts that follow at once from what it holds, and Ok means saturated.
Abstract == INSTANCE Saturation
Implements == Abstract!Spec
=============================================================================
