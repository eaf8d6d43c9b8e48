---------------------------- MODULE RelationCache ----------------------------
(***************************************************************************)
(* The relation store of one executor and the two caches that must agree   *)
(* with it (crates/xlog-runtime): the join indexes that survive from one   *)
(* evaluation to the next, looked up by relation and version, and the      *)
(* results shared inside one evaluation, looked up by the versions of what *)
(* they scan.  A version starts again at one when a relation was removed   *)
(* and is put back, and several callers change the store behind the        *)
(* caches: what a reset, a rollback and the caller of a query do to it is  *)
(* in this module.                                                         *)
(*                                                                         *)
(* A relation is a set of rows.  A shared subexpression is the join of     *)
(* relations on all their columns, which is their intersection.            *)
(***************************************************************************)
EXTENDS Integers, FiniteSets

CONSTANTS
  Names,      \* relations
  Heads,      \* those a plan derives; the others are deltas of its fixpoints
  Rows,
  Keys,       \* the column sets an index can be built on
  IndexBytes, \* the bytes of an index on key k over n rows
  MaxBytes,   \* the budget of the index cache: JoinIndexCache.max_bytes
  Exprs,      \* the shared subexpressions, each the set of names it scans
  MaxVersion, \* bound: no relation of that version is put again
  None

ASSUME CacheAssumption ==
  /\ Heads \subseteq Names
  /\ Exprs \subseteq (SUBSET Names) \ {{}}
  /\ IsFiniteSet(Rows)
  /\ IndexBytes \in [Keys -> [0..Cardinality(Rows) -> Nat]]
  /\ MaxBytes \in Nat
  /\ MaxVersion \in Nat \ {0}
  /\ \A D \in SUBSET Rows : None # D /\ \A v \in 1..MaxVersion + 1 : None # [data |-> D, version |-> v]

VARIABLES
  store, \* RelationStore.relations
  index, \* JoinIndexCache.entries
  older, \* pairs of them, the first with the lower last_used
  bytes, \* JoinIndexCache.total_bytes
  cse,   \* common_subexpression_cache
  phase, \* what the executor is in the middle of
  saved, \* the snapshot a candidate plan runs under
  baseline \* history: what each relation held when the baseline plan ended

\* No guard reads "baseline" and nothing is restored from it: it is what the
\* snapshot, the comparison and the rollback are judged by.

cacheVars == <<index, older, bytes>>
planVars == <<phase, saved, baseline>>
vars == <<store, cacheVars, cse, planVars>>

Contents == SUBSET Rows
Relation == [data : Contents, version : 1..MaxVersion + 1]
Index    == [rel : Names, version : 1..MaxVersion + 1, key : Keys, data : Contents]
Plans    == {"plan", "baseline", "candidate"}
\* What an adaptive call has decided, with only its return left.
Settled  == {"adopted", "rolled_back", "uncompared"}
Phases   == {"idle", "deciding"} \cup Plans \cup Settled
Running  == phase \in Plans

Present == {n \in Names : store[n] # None}
Data(n) == IF n \in Present THEN store[n].data ELSE None
NoSnapshot == [n \in Names |-> None]

BytesOf(x) == IndexBytes[x.key][Cardinality(x.data)]
\* The bytes of a set of indexes, counted one by one.
Units(ix) == UNION {{x} \X (1..BytesOf(x)) : x \in ix}
Total(ix) == Cardinality(Units(ix))
SameKey(x, y) == x.rel = y.rel /\ x.version = y.version /\ x.key = y.key

\* What a lookup of a subexpression is keyed by: the versions it would scan.
Generations(e) == [n \in e |-> IF n \in Present THEN store[n].version ELSE 0]
Eval(e) == {r \in Rows : \A n \in e : r \in Data(n)}

TypeOK ==
  /\ store \in [Names -> Relation \cup {None}]
  /\ index \in SUBSET Index
  /\ \A x, y \in index : SameKey(x, y) => x = y
  /\ older \in SUBSET (index \X index)
  /\ bytes \in Nat
  /\ \A s \in cse : s.expr \in Exprs /\ s.value \in Contents
  /\ phase \in Phases
  /\ {saved, baseline} \subseteq [Names -> Contents \cup {None}]

Init ==
  /\ store = NoSnapshot
  /\ index = {} /\ older = {}
  /\ bytes = 0
  /\ cse = {}
  /\ phase = "idle"
  /\ saved = NoSnapshot /\ baseline = NoSnapshot

-----------------------------------------------------------------------------
\* The parts of an operation.

\* put_owned: one more than before, and one for a name that is new.
NextVersion(old) == IF old = None THEN 1 ELSE old.version + 1
Put(old, D) == [data |-> D, version |-> NextVersion(old)]

\* Mutant: the indexes of a relation go without their bytes.
UncountedBytes(gone) == 0
FreedBytes(gone) == Total(gone)

\* The index cache keeps some of its entries.
KeepIndexes(kept) ==
  /\ index' = kept
  /\ older' = older \cap (kept \X kept)
  /\ bytes' = bytes - FreedBytes(index \ kept)

\* Mutant: no index is dropped, its version tells that it is stale.
VersionTells(n) == UNCHANGED cacheVars

InvalidateRel(n) == KeepIndexes({x \in index : x.rel # n})

ClearIndexes == index' = {} /\ older' = {} /\ bytes' = 0

\* Mutant: no result is dropped, the generations tell that it is stale.
GenerationsTell == UNCHANGED cse
ForgetResults == cse' = {}

StorePut(n, D) ==
  /\ n \in Present => store[n].version < MaxVersion
  /\ store' = [store EXCEPT ![n] = Put(@, D)]
  /\ ForgetResults
  /\ InvalidateRel(n)

StoreRemove(n) ==
  /\ store' = [store EXCEPT ![n] = None]
  /\ ForgetResults
  /\ InvalidateRel(n)

\* evict_until_fits: the least recently used entries go, until "extra" more
\* bytes are in the budget or none is left, and no longer.
Evicted(gone, extra) ==
  /\ \A x \in gone, y \in index \ gone : <<x, y>> \in older
  /\ gone = index \/ bytes - Total(gone) + extra <= MaxBytes
  /\ \A last \in gone :
       (\A x \in gone \ {last} : <<x, last>> \in older)
         => bytes - Total(gone \ {last}) + extra > MaxBytes

InsertIndex(x) ==
  \/ BytesOf(x) > MaxBytes /\ UNCHANGED cacheVars
  \/ /\ BytesOf(x) <= MaxBytes
     /\ \E gone \in SUBSET index :
          LET kept == index \ gone IN
          /\ Evicted(gone, BytesOf(x))
          /\ index' = kept \cup {x}
          /\ older' = (older \cap (kept \X kept)) \cup (kept \X {x})
          /\ bytes' = bytes - Total(gone) + BytesOf(x)

\* JoinIndexCache::get: x becomes the most recent.
Touch(x) ==
  LET others == index \ {x} IN
  /\ older' = (older \cap (others \X others)) \cup (others \X {x})
  /\ UNCHANGED <<index, bytes>>

\* Whether the provider accepts index x for a join with relation D: an empty
\* relation is joined before the row counts are compared.
Accepts(x, D) == D = {} \/ Cardinality(x.data) = Cardinality(D)

-----------------------------------------------------------------------------
\* What a running plan does.

\* A join whose right side scans n, on the columns k (execute_join): a cached
\* index is used and becomes the most recent, unless the provider rejects it,
\* which it does not when the left side is empty; a rejected one is removed and
\* the join is done without.
JoinLookup(n, k) ==
  /\ Running /\ n \in Present
  /\ \E x \in index :
       /\ SameKey(x, [rel |-> n, version |-> store[n].version, key |-> k])
       /\ Touch(x) \/ (~ Accepts(x, store[n].data) /\ KeepIndexes(index \ {x}))
  /\ UNCHANGED <<store, cse, planVars>>

\* Without one, an index is built when the relation is hot, and kept when it
\* fits; in the background mode the join itself does not use it yet.
JoinBuild(n, k) ==
  LET x == [rel |-> n, version |-> store[n].version, key |-> k, data |-> store[n].data]
  IN  /\ Running /\ n \in Present
      /\ \A y \in index : ~ SameKey(y, x)
      /\ BytesOf(x) <= MaxBytes
      /\ InsertIndex(x)
      /\ UNCHANGED <<store, cse, planVars>>

\* A cached result of the current generations is used, or the result is
\* computed and cached (execute_node).
SharedResult(e, value) ==
  LET key == [expr |-> e, generations |-> Generations(e)]
      cached == {s \in cse : s.expr = e /\ s.generations = key.generations}
  IN  /\ e \subseteq Present
      /\ IF cached # {} THEN value \in {s.value : s \in cached}
                        ELSE value = Eval(e)

Evaluate(e) ==
  /\ Running
  /\ \E value \in Contents :
       /\ SharedResult(e, value)
       /\ cse' = cse \cup {[expr |-> e, generations |-> Generations(e), value |-> value]}
  /\ UNCHANGED <<store, cacheVars, planVars>>

\* The results of a rule for h join what h holds already
\* (install_plain_head_batch); nothing new leaves h alone.
Install(h, e) ==
  /\ Running
  /\ \E value \in Contents :
       /\ SharedResult(e, value)
       /\ h \in Present => value # {}
       /\ StorePut(h, value \cup (IF h \in Present THEN store[h].data ELSE {}))
  /\ UNCHANGED planVars

\* A fixpoint installs and removes the deltas of its iterations; the next one
\* gives the relation id to a delta of its own.
PutDelta(n, D) ==
  /\ Running /\ n \notin Heads
  /\ StorePut(n, D)
  /\ UNCHANGED planVars

RemoveDelta(n) ==
  /\ Running /\ n \in Present \ Heads
  /\ StoreRemove(n)
  /\ UNCHANGED planVars

\* A recompute clears the heads of a component first.
EmptyHead(h) ==
  /\ phase = "plan" /\ h \in Heads
  /\ StorePut(h, {})
  /\ UNCHANGED planVars

-----------------------------------------------------------------------------
\* Plans.

\* execute_plan, and the first half of execute_plan_with_adaptive_candidate.
StartPlan(kind) ==
  /\ phase = "idle" /\ kind \in {"plan", "baseline"}
  /\ phase' = kind
  /\ cse' = {}
  /\ UNCHANGED <<store, cacheVars, saved, baseline>>

\* apply_deltas_and_recompute: it keeps the results of the plan before, but
\* begins with a put for every changed relation.
StartRecompute(n, D) ==
  /\ phase = "idle" /\ n \in Heads
  /\ StorePut(n, D)
  /\ phase' = "plan"
  /\ UNCHANGED <<saved, baseline>>

\* The plan ends, with an answer or an error: the store stays as it is.
EndPlan ==
  /\ phase \in {"plan", "baseline"}
  /\ phase' = "idle"
  /\ UNCHANGED <<store, cacheVars, cse, saved, baseline>>

\* The baseline ends without an error, and its joins are judged.
EndBaseline ==
  /\ phase = "baseline"
  /\ baseline' = [n \in Names |-> Data(n)]
  /\ phase' = "deciding"
  /\ UNCHANGED <<store, cacheVars, cse, saved>>

\* Mutant: the snapshot is taken when the candidate has put its first result.
SnapshotLate ==
  /\ phase = "deciding"
  /\ \E h \in Heads, D \in Contents :
       StorePut(h, D \cup (IF h \in Present THEN store[h].data ELSE {}))
  /\ saved' = [n \in Names |-> IF store'[n] = None THEN None ELSE store'[n].data]
  /\ phase' = "candidate"
  /\ UNCHANGED baseline

\* It was planned badly: a snapshot is taken and the candidate runs too.
AttemptCandidate ==
  /\ phase = "deciding"
  /\ \A n \in Present : store[n].version < MaxVersion
  /\ saved' = [n \in Names |-> Data(n)]
  /\ phase' = "candidate"
  /\ cse' = {}
  /\ UNCHANGED <<store, cacheVars, baseline>>

\* plan_outputs_match.
PlanOutputsMatch == \A h \in Heads : saved[h] # None /\ Data(h) = saved[h]

Settle(how) == phase' = how /\ saved' = NoSnapshot /\ UNCHANGED baseline

Adopt ==
  /\ phase = "candidate"
  /\ PlanOutputsMatch
  /\ Settle("adopted")
  /\ UNCHANGED <<store, cacheVars, cse>>

\* A relation of the snapshot is put back with a new version, another removed.
Restored(n) == IF saved[n] = None THEN None ELSE Put(store[n], saved[n])

\* The candidate failed or its outputs differ; the caches are left alone
\* (restore_store_snapshot).
RollBack ==
  /\ phase = "candidate"
  /\ store' = [n \in Names |-> Restored(n)]
  /\ Settle("rolled_back")
  /\ UNCHANGED <<cacheVars, cse>>

\* The comparison itself fails: the error leaves what the candidate did.
CompareFails ==
  /\ phase = "candidate"
  /\ Settle("uncompared")
  /\ UNCHANGED <<store, cacheVars, cse>>

\* The call returns: with a copy of the last head, with the error of copying it
\* or of the comparison; or, when no candidate ran, with the baseline's answer
\* (disabled, skipped) or the error of the decision or the snapshot.
Return ==
  /\ phase \in Settled \cup {"deciding"}
  /\ phase' = "idle"
  /\ baseline' = NoSnapshot
  /\ UNCHANGED <<store, cacheVars, cse, saved>>

-----------------------------------------------------------------------------
\* What callers do between plans.

\* put_relation.
PutRelation(n, D) ==
  /\ phase = "idle" /\ n \in Heads
  /\ StorePut(n, D)
  /\ UNCHANGED planVars

\* The answer of a query is taken out of the store itself
\* (crates/xlog-gpu/src/logic.rs): the caches are left alone.
TakeResult(h) ==
  /\ phase = "idle" /\ h \in Heads \cap Present
  /\ store' = [store EXCEPT ![h] = None]
  /\ UNCHANGED <<cacheVars, cse, planVars>>

\* reset_for_mc, reset_for_ilp.
Reset ==
  /\ phase = "idle"
  /\ store' = NoSnapshot
  /\ ClearIndexes
  /\ ForgetResults
  /\ UNCHANGED planVars

\* reset_for_mc_relations: all but "keep" is removed, "empty" is put back with
\* no rows, and then the caches are cleared.
AfterReset(keep, empty) ==
  [n \in Names |-> LET old == IF n \in keep THEN store[n] ELSE None
                   IN  IF n \in empty THEN Put(old, {}) ELSE old]

ResetRelations(keep, empty) ==
  /\ phase = "idle"
  /\ \A n \in keep \cap Present : store[n].version < MaxVersion
  /\ store' = AfterReset(keep, empty)
  /\ ClearIndexes
  /\ ForgetResults
  /\ UNCHANGED planVars

\* An empty buffer cannot be allocated: "empty" was put back before it, and the
\* caches are not cleared.
ResetRelationsFails(keep, empty) ==
  /\ phase = "idle"
  /\ empty # Names
  /\ \A n \in keep \cap Present : store[n].version < MaxVersion
  /\ store' = AfterReset(keep, empty)
  /\ UNCHANGED <<cacheVars, cse, planVars>>

Next ==
  \/ \E n \in Names, k \in Keys : JoinLookup(n, k) \/ JoinBuild(n, k)
  \/ \E e \in Exprs : Evaluate(e) \/ \E h \in Heads : Install(h, e)
  \/ \E n \in Names, D \in Contents :
       PutDelta(n, D) \/ StartRecompute(n, D) \/ PutRelation(n, D)
  \/ \E n \in Names : RemoveDelta(n) \/ EmptyHead(n) \/ TakeResult(n)
  \/ \E kind \in Phases : StartPlan(kind)
  \/ EndPlan \/ EndBaseline \/ AttemptCandidate
  \/ Adopt \/ RollBack \/ CompareFails \/ Return \/ Reset
  \/ \E keep, empty \in SUBSET Names :
       ResetRelations(keep, empty) \/ ResetRelationsFails(keep, empty)

Spec == Init /\ [][Next]_vars

-----------------------------------------------------------------------------

\* An index that a join would find by the version of its right side, and that
\* the provider would accept, indexes the rows that are there now: no removal,
\* rollback or reset lets an old version one pass for the new one
\* (put_owned, invalidate_rel, hash_join_v2_with_index).
NoStaleIndex ==
  \A x \in index :
    /\ x.rel \in Present /\ x.version = store[x.rel].version
    /\ store[x.rel].data # {} /\ Accepts(x, store[x.rel].data)
    => x.data = store[x.rel].data

\* A shared result that a running plan would find is what it would compute
\* (common_subexpression_key, store_put, store_remove).
NoStaleCse ==
  Running =>
    \A s \in cse :
      s.expr \subseteq Present /\ s.generations = Generations(s.expr)
      => s.value = Eval(s.expr)

\* The bytes counted are those of the indexes kept, and they are in the budget
\* whatever was evicted, invalidated or rejected (JoinIndexCache).
WithinBudget == bytes = Total(index) /\ bytes <= MaxBytes

\* The rows that a relation held when the baseline ended are there.
KeepsRows(n) ==
  baseline[n] = None \/ (n \in Present /\ baseline[n] \subseteq store[n].data)

\* When an adaptive call is about to return, whatever its candidate did in the
\* meantime: an adopted candidate leaves in every head what the heads held when
\* the baseline ended, a rollback leaves every relation so, and an error of the
\* comparison, which restores nothing, loses no row of a head
\* (execute_plan_with_adaptive_candidate).
AdaptiveExact ==
  /\ phase = "adopted" => \A h \in Heads : Data(h) = baseline[h]
  /\ phase = "rolled_back" => \A n \in Names : Data(n) = baseline[n]
  /\ phase = "uncompared" => \A h \in Heads : KeepsRows(h)
=============================================================================
