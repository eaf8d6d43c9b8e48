--------------------------- MODULE RelationCache_proofs ---------------------------
(***************************************************************************)
(* Proofs about RelationCache, for any relations, rows, subexpressions,    *)
(* sizes of indexes and budget, and any bound of the versions.             *)
(***************************************************************************)
EXTENDS RelationCache, FiniteSetTheorems, TLAPS

\* The order of use is a strict order of the indexes kept.
Ordered ==
  /\ \A x \in index : <<x, x>> \notin older
  /\ \A x, y \in index : x # y => (<<x, y>> \in older <=> <<y, x>> \notin older)
  /\ \A x, y, z \in index : <<x, y>> \in older /\ <<y, z>> \in older => <<x, z>> \in older

\* What the index cache is made of, and what its total counts.
CacheOK ==
  /\ index \in SUBSET Index
  /\ \A x, y \in index : SameKey(x, y) => x = y
  /\ older \in SUBSET (index \X index)
  /\ Ordered
  /\ IsFiniteSet(Units(index))
  /\ bytes = Total(index) /\ bytes <= MaxBytes

\* An index of a relation that has rows is of its version or an older one, and
\* of its rows if it is of its version.
Fresh ==
  \A x \in index :
    x.rel \in Present /\ store[x.rel].data # {} =>
      /\ x.version <= store[x.rel].version
      /\ x.version = store[x.rel].version => x.data = store[x.rel].data

\* While a candidate runs, a relation that a rollback would put back is as it
\* was, or has no index of a version it would then get.
Kept ==
  phase = "candidate" =>
    \A x \in index :
      \/ saved[x.rel] = None \/ Data(x.rel) = saved[x.rel]
      \/ x.rel \in Present /\ x.version <= store[x.rel].version

\* A rollback has a version left.
Bounded == phase = "candidate" => \A n \in Present : store[n].version <= MaxVersion

StoreOK == store \in [Names -> Relation \cup {None}]
SharedOK == (\A s \in cse : s.expr \in Exprs /\ s.value \in Contents) /\ NoStaleCse
PlanOK == phase \in Phases /\ {saved, baseline} \subseteq [Names -> Contents \cup {None}]

\* What ties the snapshot, and the store at each way out, to what the baseline
\* left: the snapshot is of that moment and of every relation, and no step of
\* the candidate takes a row from a head.
Traced ==
  /\ phase = "deciding" => \A n \in Names : Data(n) = baseline[n]
  /\ phase = "candidate" => saved = baseline /\ \A h \in Heads : KeepsRows(h)
  /\ AdaptiveExact

IInv == StoreOK /\ CacheOK /\ SharedOK /\ PlanOK /\ Fresh /\ Kept /\ Bounded /\ Traced

-----------------------------------------------------------------------------
\* The size of an index is a number.
LEMMA SizeOfIndex ==
  ASSUME NEW x \in Index
  PROVE  BytesOf(x) \in Nat
<1>1. IsFiniteSet(x.data) /\ Cardinality(x.data) \in Nat /\ Cardinality(Rows) \in Nat
      /\ Cardinality(x.data) <= Cardinality(Rows)
  BY CacheAssumption, FS_Subset, FS_CardinalityType DEF Index, Contents
<1>2. Cardinality(x.data) \in 0..Cardinality(Rows) /\ x.key \in Keys
  BY <1>1 DEF Index
<1> QED BY <1>2, CacheAssumption DEF BytesOf

\* The bytes of some indexes, and of those that remain without them.
LEMMA TotalDrop ==
  ASSUME NEW T, NEW S \in SUBSET T, IsFiniteSet(Units(T))
  PROVE  /\ IsFiniteSet(Units(T \ S)) /\ IsFiniteSet(Units(S))
         /\ Total(T) \in Nat /\ Total(S) \in Nat /\ Total(T \ S) \in Nat
         /\ Total(T \ S) = Total(T) - Total(S)
<1>1. Units(T) = Units(S) \cup Units(T \ S) /\ Units(S) \cap Units(T \ S) = {}
  BY DEF Units
<1>2. IsFiniteSet(Units(S)) /\ IsFiniteSet(Units(T \ S))
  <2>1. Units(S) \subseteq Units(T) /\ Units(T \ S) \subseteq Units(T)
    BY <1>1
  <2> QED BY <2>1, FS_Subset
<1>3. /\ Cardinality(Units(T)) \in Nat /\ Cardinality(Units(S)) \in Nat
      /\ Cardinality(Units(T \ S)) \in Nat
  BY <1>2, FS_CardinalityType
<1>4. Cardinality(Units(S) \cup Units(T \ S))
        = Cardinality(Units(S)) + Cardinality(Units(T \ S)) - Cardinality(Units(S) \cap Units(T \ S))
  BY <1>2, FS_Union
<1>5. Cardinality(Units(S) \cap Units(T \ S)) = 0
  BY <1>1, FS_EmptySet
<1>6. Cardinality(Units(T \ S)) = Cardinality(Units(T)) - Cardinality(Units(S))
  BY <1>1, <1>3, <1>4, <1>5
<1> QED BY <1>2, <1>3, <1>6 DEF Total

\* The bytes of one more index.
LEMMA TotalAdd ==
  ASSUME NEW S, NEW x \in Index, x \notin S, IsFiniteSet(Units(S))
  PROVE  /\ IsFiniteSet(Units(S \cup {x}))
         /\ Total(S \cup {x}) = Total(S) + BytesOf(x)
<1> DEFINE X == {x} \X (1..BytesOf(x))
<1>1. BytesOf(x) \in Nat
  BY SizeOfIndex
<1>2. IsFiniteSet(X) /\ Cardinality(X) = BytesOf(x)
  <2>1. IsFiniteSet(1..BytesOf(x)) /\ Cardinality(1..BytesOf(x)) = BytesOf(x)
    BY <1>1, FS_Interval
  <2>2. IsFiniteSet({x}) /\ Cardinality({x}) = 1
    BY FS_Singleton
  <2> QED BY <1>1, <2>1, <2>2, FS_Product
<1>3. Units(S \cup {x}) = Units(S) \cup X /\ Units(S) \cap X = {}
  BY DEF Units
<1> HIDE DEF X
<1>4. /\ IsFiniteSet(Units(S) \cup X)
      /\ Cardinality(Units(S) \cup X)
           = Cardinality(Units(S)) + Cardinality(X) - Cardinality(Units(S) \cap X)
  BY <1>2, FS_Union
<1>5. Cardinality(Units(S) \cap X) = 0 /\ Cardinality(Units(S)) \in Nat
  BY <1>3, FS_EmptySet, FS_CardinalityType
<1>6. Cardinality(Units(S) \cup X) = Cardinality(Units(S)) + BytesOf(x)
  BY <1>1, <1>2, <1>4, <1>5
<1> QED BY <1>3, <1>4, <1>6 DEF Total

\* No index has no bytes.
LEMMA TotalNone == Units({}) = {} /\ IsFiniteSet(Units({})) /\ Total({}) = 0
<1>1. Units({}) = {}
  BY DEF Units
<1> QED BY <1>1, FS_EmptySet DEF Total

-----------------------------------------------------------------------------
\* The cache stays in order when it drops indexes ...
LEMMA KeepStep ==
  ASSUME CacheOK, NEW kept \in SUBSET index, KeepIndexes(kept)
  PROVE  CacheOK' /\ index' = kept
<1>1. index' = kept /\ older' = older \cap (kept \X kept)
  BY DEF KeepIndexes
<1>2. Ordered'
  BY <1>1 DEF CacheOK, Ordered
<1>3. /\ IsFiniteSet(Units(kept)) /\ Total(kept) \in Nat /\ Total(index \ kept) \in Nat
      /\ Total(index) \in Nat /\ Total(kept) = Total(index) - Total(index \ kept)
  <2>1. index \ (index \ kept) = kept
    OBVIOUS
  <2> QED BY <2>1, TotalDrop DEF CacheOK
<1>4. bytes' = bytes - Total(index \ kept)
  BY DEF KeepIndexes, FreedBytes
<1>5. bytes' = Total(kept) /\ bytes' <= MaxBytes
  BY <1>3, <1>4, CacheAssumption DEF CacheOK
<1>6. /\ kept \in SUBSET Index /\ \A x, y \in kept : SameKey(x, y) => x = y
      /\ older' \in SUBSET (kept \X kept)
  BY <1>1 DEF CacheOK
<1> QED
  <2>1. IsFiniteSet(Units(index'))
    BY <1>1, <1>3
  <2>2. bytes' = Total(index')
    BY <1>1, <1>5
  <2>3. Units(index)' = Units(index') /\ Total(index)' = Total(index')
    BY DEF Total, Units, BytesOf
  <2>4. \A x, y \in index' : SameKey(x, y)' => x = y
    BY <1>1, <1>6 DEF SameKey
  <2> QED BY <1>1, <1>2, <1>5, <1>6, <2>1, <2>2, <2>3, <2>4 DEF CacheOK

\* ... all of them,
LEMMA ClearStep ==
  ASSUME CacheOK, ClearIndexes
  PROVE  CacheOK' /\ index' = {}
<1>1. index' = {} /\ older' = {} /\ bytes' = 0
  BY DEF ClearIndexes
<1>2. IsFiniteSet(Units(index)') /\ Total(index)' = 0
  <2>1. Units(index)' = Units({}) /\ Total(index)' = Total({})
    BY <1>1 DEF Total, Units, BytesOf
  <2> QED BY <2>1, TotalNone
<1>3. 0 <= MaxBytes
  BY CacheAssumption
<1> QED BY <1>1, <1>2, <1>3 DEF CacheOK, Ordered

\* ... when it uses one,
LEMMA TouchStep ==
  ASSUME CacheOK, NEW x \in index, Touch(x)
  PROVE  CacheOK' /\ index' = index
<1> DEFINE others == index \ {x}
<1>1. /\ index' = index /\ bytes' = bytes
      /\ older' = (older \cap (others \X others)) \cup (others \X {x})
  BY DEF Touch
<1>2. \A y, z \in index : <<y, z>> \in older' <=> y # x /\ (z = x \/ <<y, z>> \in older)
  BY <1>1
<1>3. Ordered'
  BY <1>1, <1>2 DEF CacheOK, Ordered
<1>4. older' \in SUBSET (index \X index)
  BY <1>1
<1>5. Units(index)' = Units(index) /\ Total(index)' = Total(index)
  BY <1>1 DEF Total, Units, BytesOf
<1> QED BY <1>1, <1>3, <1>4, <1>5 DEF CacheOK, SameKey

\* ... and when it keeps a new one and evicts others for it.
LEMMA InsertStep ==
  ASSUME CacheOK, NEW x \in Index, \A y \in index : ~ SameKey(y, x), InsertIndex(x)
  PROVE  CacheOK' /\ index' \subseteq index \cup {x}
<1>1. CASE UNCHANGED cacheVars
  BY <1>1 DEF CacheOK, Ordered, cacheVars, Total, Units, BytesOf, SameKey
<1>2. CASE ~ UNCHANGED cacheVars
  <2>1. BytesOf(x) <= MaxBytes
    BY <1>2 DEF InsertIndex
  <2>2. PICK gone \in SUBSET index :
          /\ Evicted(gone, BytesOf(x))
          /\ index' = (index \ gone) \cup {x}
          /\ older' = (older \cap ((index \ gone) \X (index \ gone))) \cup ((index \ gone) \X {x})
          /\ bytes' = bytes - Total(gone) + BytesOf(x)
    BY <1>2 DEF InsertIndex
  <2> DEFINE kept == index \ gone
  <2>3. x \notin index
    BY DEF SameKey
  <2>4. \A y, z \in index' :
          <<y, z>> \in older' <=> y \in kept /\ (z = x \/ <<y, z>> \in older)
    BY <2>2, <2>3 DEF CacheOK
  <2>5. Ordered'
    BY <2>2, <2>3, <2>4 DEF CacheOK, Ordered
  <2>6. older' \in SUBSET (index' \X index')
    BY <2>2
  <2>7. /\ index' \in SUBSET Index
        /\ \A y, z \in index' : SameKey(y, z) => y = z
    BY <2>2 DEF CacheOK, SameKey
  <2>8. /\ IsFiniteSet(Units(kept)) /\ Total(kept) \in Nat /\ Total(gone) \in Nat
        /\ Total(index) \in Nat /\ Total(kept) = Total(index) - Total(gone)
    BY TotalDrop DEF CacheOK
  <2>9. IsFiniteSet(Units(kept \cup {x})) /\ Total(kept \cup {x}) = Total(kept) + BytesOf(x)
    BY <2>3, <2>8, TotalAdd
  <2>10. bytes = Total(index) /\ BytesOf(x) \in Nat /\ MaxBytes \in Nat
    BY SizeOfIndex, CacheAssumption DEF CacheOK
  <2>11. bytes' = Total(kept \cup {x})
    BY <2>2, <2>8, <2>9, <2>10
  <2>12. bytes' <= MaxBytes
    <3>1. CASE gone = index
      <4>1. bytes' = BytesOf(x)
        BY <2>2, <2>10, <2>8, <3>1
      <4> QED BY <2>1, <4>1
    <3>2. CASE gone # index
      BY <2>2, <3>2 DEF Evicted
    <3> QED BY <3>1, <3>2
  <2>13. Units(index)' = Units(kept \cup {x}) /\ Total(index)' = Total(kept \cup {x})
    BY <2>2 DEF Total, Units, BytesOf
  <2>14. \A y, z \in index' : SameKey(y, z)' => y = z
    BY <2>7 DEF SameKey
  <2> HIDE DEF kept
  <2>15. index' \subseteq index \cup {x}
    BY <2>2
  <2> QED BY <2>5, <2>6, <2>7, <2>9, <2>11, <2>12, <2>13, <2>14, <2>15 DEF CacheOK
<1> QED BY <1>1, <1>2

-----------------------------------------------------------------------------
\* None is neither a content nor a relation.
LEMMA NoneIsOther == None \notin Contents /\ None \notin Relation
<1>1. None \notin Contents
  BY CacheAssumption DEF Contents
<1>2. ASSUME None \in Relation PROVE FALSE
  <2>1. PICK D \in Contents, v \in 1..MaxVersion + 1 : None = [data |-> D, version |-> v]
    BY <1>2 DEF Relation
  <2> QED BY <2>1, CacheAssumption DEF Contents
<1> QED BY <1>1, <1>2

\* A put gives a relation its next version and drops its indexes and every
\* shared result.
LEMMA PutStep ==
  ASSUME IInv, NEW n \in Names, NEW D \in Contents, StorePut(n, D),
         saved' = saved, baseline' = baseline,
         phase' \in Plans \cup {"idle"}, phase' = "candidate" => phase = "candidate",
         phase' = "candidate" /\ n \in Heads /\ n \in Present => store[n].data \subseteq D
  PROVE  IInv'
<1>1. /\ store' = [store EXCEPT ![n] = Put(store[n], D)]
      /\ n \in Present => store[n].version < MaxVersion
      /\ cse' = {} /\ KeepIndexes({x \in index : x.rel # n})
  BY DEF StorePut, ForgetResults, InvalidateRel
<1>2. Put(store[n], D) \in Relation /\ Put(store[n], D).version <= MaxVersion
  <2>1. CASE n \in Present
    <3>1. store[n].version \in 1..MaxVersion + 1 /\ store[n] # None
      BY <2>1 DEF IInv, StoreOK, Relation, Present
    <3>2. store[n].version + 1 \in 1..MaxVersion + 1 /\ store[n].version + 1 <= MaxVersion
      BY <1>1, <2>1, <3>1, CacheAssumption
    <3>3. Put(store[n], D) = [data |-> D, version |-> store[n].version + 1]
      BY <3>1 DEF Put, NextVersion
    <3> QED BY <3>2, <3>3 DEF Relation
  <2>2. CASE n \notin Present
    <3>1. Put(store[n], D) = [data |-> D, version |-> 1]
      BY <2>2 DEF Put, NextVersion, Present
    <3>2. 1 \in 1..MaxVersion + 1 /\ 1 <= MaxVersion
      BY CacheAssumption
    <3> QED BY <3>1, <3>2 DEF Relation
  <2> QED BY <2>1, <2>2
<1>3. StoreOK'
  BY <1>1, <1>2 DEF IInv, StoreOK
<1>4. \A m \in Names \ {n} : /\ store'[m] = store[m] /\ Data(m)' = Data(m)
                             /\ m \in Present' <=> m \in Present
  BY <1>1 DEF IInv, StoreOK, Data, Present
<1>5. CacheOK' /\ index' = {x \in index : x.rel # n}
  BY <1>1, KeepStep DEF IInv
<1>6. SharedOK' /\ PlanOK'
  BY <1>1 DEF IInv, SharedOK, PlanOK, NoStaleCse, Phases
<1>7. \A x \in index' : x \in index /\ x.rel \in Names \ {n}
  BY <1>5 DEF IInv, CacheOK, Index
<1>8. Fresh'
  BY <1>4, <1>7 DEF IInv, Fresh
<1>9. Kept'
  BY <1>4, <1>7 DEF IInv, Kept
<1>10. Bounded'
  <2>1. store'[n] = Put(store[n], D)
    BY <1>1 DEF IInv, StoreOK
  <2> QED BY <1>2, <1>4, <2>1 DEF IInv, Bounded, Present
<1>11. Traced'
  <2>1. phase' \notin Settled \cup {"deciding"}
    BY DEF Plans, Settled
  <2>2. ASSUME phase' = "candidate", NEW h \in Heads PROVE KeepsRows(h)'
    <3>1. phase = "candidate" /\ h \in Names /\ KeepsRows(h)
      BY <2>2, CacheAssumption DEF IInv, Traced
    <3>2. CASE h # n
      BY <1>4, <3>1, <3>2 DEF KeepsRows
    <3>3. CASE h = n
      <4>1. store'[h] = [data |-> D, version |-> NextVersion(store[n])] /\ store'[h] # None
        BY <1>1, <1>2, <3>3, NoneIsOther DEF IInv, StoreOK, Put
      <4>2. h \in Present' /\ store'[h].data = D
        BY <3>1, <4>1 DEF Present
      <4> QED BY <2>2, <3>1, <3>3, <4>2 DEF KeepsRows
    <3> QED BY <3>2, <3>3
  <2> QED BY <2>1, <2>2 DEF IInv, Traced, AdaptiveExact, Settled
<1> QED BY <1>3, <1>5, <1>6, <1>8, <1>9, <1>10, <1>11 DEF IInv

\* A removal drops them too.
LEMMA RemoveStep ==
  ASSUME IInv, NEW n \in Names \ Heads, StoreRemove(n), Running, UNCHANGED planVars
  PROVE  IInv'
<1>1. /\ store' = [store EXCEPT ![n] = None]
      /\ cse' = {} /\ KeepIndexes({x \in index : x.rel # n})
  BY DEF StoreRemove, ForgetResults, InvalidateRel
<1>2. StoreOK'
  BY <1>1 DEF IInv, StoreOK
<1>3. \A m \in Names \ {n} : /\ store'[m] = store[m] /\ Data(m)' = Data(m)
                             /\ m \in Present' <=> m \in Present
  BY <1>1 DEF IInv, StoreOK, Data, Present
<1>4. CacheOK' /\ index' = {x \in index : x.rel # n}
  BY <1>1, KeepStep DEF IInv
<1>5. SharedOK' /\ PlanOK'
  BY <1>1 DEF IInv, SharedOK, PlanOK, NoStaleCse, planVars
<1>6. \A x \in index' : x \in index /\ x.rel \in Names \ {n}
  BY <1>4 DEF IInv, CacheOK, Index
<1>7. Fresh' /\ Kept'
  BY <1>3, <1>6 DEF IInv, Fresh, Kept, planVars
<1>8. Bounded'
  <2>1. n \notin Present'
    BY <1>1 DEF IInv, StoreOK, Present
  <2>2. Present' \subseteq Present
    BY <1>3, <2>1 DEF Present
  <2> QED BY <1>3, <2>1, <2>2 DEF IInv, Bounded, Present, planVars
<1>9. Traced'
  <2>1. phase' = phase /\ saved' = saved /\ baseline' = baseline /\ phase \in Plans
    BY DEF Running, planVars
  <2>2. \A h \in Heads : KeepsRows(h) => KeepsRows(h)'
    BY <1>3, <2>1, CacheAssumption DEF KeepsRows
  <2> QED BY <2>1, <2>2 DEF IInv, Traced, AdaptiveExact, Plans
<1> QED BY <1>2, <1>4, <1>5, <1>7, <1>8, <1>9 DEF IInv

\* A join uses, drops or adds indexes; one it adds is of the present version.
LEMMA JoinStep ==
  ASSUME IInv, CacheOK', UNCHANGED <<store, cse, planVars>>,
         \A x \in index' : \/ x \in index
                           \/ /\ x.rel \in Present
                              /\ x.version = store[x.rel].version /\ x.data = store[x.rel].data
  PROVE  IInv'
<1>1. StoreOK' /\ PlanOK' /\ Bounded' /\ Traced'
  BY DEF IInv, StoreOK, PlanOK, Bounded, Present, Data, Traced, AdaptiveExact, KeepsRows, planVars
<1>2. SharedOK'
  BY DEF IInv, SharedOK, NoStaleCse, Running, Present, Generations, Eval, Data, planVars
<1>3. Present' = Present /\ \A n : Data(n)' = Data(n)
  BY DEF Present, Data
<1>4. \A x \in index' \ index : x.version <= store[x.rel].version
  <2>1. \A n \in Present : store[n].version \in Nat
    BY CacheAssumption DEF IInv, StoreOK, Relation, Present
  <2> QED BY <2>1
<1>5. Fresh'
  BY <1>3, <1>4 DEF IInv, Fresh
<1>6. Kept'
  BY <1>3, <1>4 DEF IInv, Kept, planVars
<1> QED BY <1>1, <1>2, <1>5, <1>6 DEF IInv

\* What a lookup finds among the shared results is what it would compute.
LEMMA SharedIsCurrent ==
  ASSUME IInv, Running, NEW e \in Exprs, NEW value \in Contents, SharedResult(e, value)
  PROVE  e \subseteq Present /\ value = Eval(e)
<1>1. e \subseteq Present
  BY DEF SharedResult
<1>2. \A s \in cse : s.expr = e /\ s.generations = Generations(e) => s.value = Eval(e)
  BY <1>1 DEF IInv, SharedOK, NoStaleCse
<1> QED BY <1>1, <1>2 DEF SharedResult

\* What ends or begins a plan, and leaves the store alone.
LEMMA PhaseStep ==
  ASSUME IInv, UNCHANGED <<store, cacheVars>>, phase' \in Phases,
         {saved', baseline'} \subseteq [Names -> Contents \cup {None}],
         cse' = {} \/ (cse' = cse /\ phase' \notin Plans),
         phase' = "candidate" => /\ saved' = [n \in Names |-> Data(n)]
                                 /\ \A n \in Present : store[n].version < MaxVersion,
         Traced'
  PROVE  IInv'
<1>1. StoreOK' /\ PlanOK'
  BY DEF IInv, StoreOK, PlanOK
<1>2. CacheOK' /\ index' = index
  BY DEF IInv, CacheOK, Ordered, cacheVars, Total, Units, BytesOf, SameKey
<1>3. SharedOK'
  BY DEF IInv, SharedOK, NoStaleCse, Running
<1>4. Present' = Present /\ \A n : Data(n)' = Data(n)
  BY DEF Present, Data
<1>5. Fresh'
  BY <1>2, <1>4 DEF IInv, Fresh
<1>6. Kept'
  BY <1>2, <1>4 DEF IInv, Kept, CacheOK, Index
<1>7. Bounded'
  BY <1>4, CacheAssumption DEF IInv, Bounded, StoreOK, Relation, Present
<1> QED BY <1>1, <1>2, <1>3, <1>5, <1>6, <1>7 DEF IInv

\* Between plans the store changes behind the caches: a relation is left alone,
\* removed, or has no rows.
LEMMA IdleStep ==
  ASSUME IInv, phase' = "idle", saved' = saved, baseline' = baseline, StoreOK',
         CacheOK', index' \subseteq index, cse' \subseteq cse,
         \A n \in Names : store'[n] \in {store[n], None} \/ store'[n].data = {}
  PROVE  IInv'
<1>1. PlanOK' /\ Kept' /\ Bounded' /\ Traced'
  BY DEF IInv, PlanOK, Phases, Kept, Bounded, Traced, AdaptiveExact
<1>2. SharedOK'
  BY DEF IInv, SharedOK, NoStaleCse, Running, Plans
<1>3. Fresh'
  <2> SUFFICES ASSUME NEW x \in index', x.rel \in Present', store'[x.rel].data # {}
               PROVE  /\ x.version <= store'[x.rel].version
                      /\ x.version = store'[x.rel].version => x.data = store'[x.rel].data
    BY DEF Fresh
  <2>1. x \in index /\ x.rel \in Names
    BY DEF IInv, CacheOK, Index
  <2>2. store'[x.rel] = store[x.rel] /\ x.rel \in Present
    BY <2>1 DEF Present
  <2> QED BY <2>1, <2>2 DEF IInv, Fresh
<1> QED BY <1>1, <1>2, <1>3 DEF IInv

\* After a reset that removes and empties relations.
LEMMA ResetStore ==
  ASSUME StoreOK, NEW keep \in SUBSET Names, NEW empty \in SUBSET Names,
         \A n \in keep \cap Present : store[n].version < MaxVersion,
         store' = AfterReset(keep, empty)
  PROVE  /\ StoreOK'
         /\ \A n \in Names : store'[n] \in {store[n], None} \/ store'[n].data = {}
<1>1. ASSUME NEW n \in Names
      PROVE  /\ store'[n] \in Relation \cup {None}
             /\ store'[n] \in {store[n], None} \/ store'[n].data = {}
  <2> DEFINE old == IF n \in keep THEN store[n] ELSE None
  <2>1. store'[n] = IF n \in empty THEN Put(old, {}) ELSE old
    BY DEF AfterReset
  <2>2. old = None \/ (old = store[n] /\ n \in keep \cap Present)
    BY DEF Present
  <2>3. Put(old, {}).data = {} /\ {} \in Contents
    BY DEF Put, Contents
  <2>4. NextVersion(old) \in 1..MaxVersion + 1
    <3>1. CASE old = None
      BY <3>1, CacheAssumption DEF NextVersion
    <3>2. CASE old # None
      <4>1. old.version \in 1..MaxVersion + 1 /\ old.version < MaxVersion
        BY <2>2, <3>2 DEF StoreOK, Relation
      <4> QED BY <3>2, <4>1, CacheAssumption DEF NextVersion
    <3> QED BY <3>1, <3>2
  <2>5. Put(old, {}) \in Relation
    BY <2>3, <2>4 DEF Put, Relation
  <2>6. old \in Relation \cup {None} /\ old \in {store[n], None}
    BY DEF StoreOK
  <2> QED BY <2>1, <2>3, <2>5, <2>6
<1>2. DOMAIN store' = Names /\ store' = [n \in Names |-> store'[n]]
  BY DEF AfterReset
<1> QED BY <1>1, <1>2 DEF StoreOK

\* A rollback gives what it puts back a version no index has, and the rows it
\* had when the baseline ended.
LEMMA RollBackStep ==
  ASSUME IInv, RollBack
  PROVE  IInv'
<1>1. /\ phase = "candidate" /\ store' = [n \in Names |-> Restored(n)]
      /\ phase' = "rolled_back" /\ saved' = NoSnapshot /\ baseline' = baseline
      /\ UNCHANGED <<cacheVars, cse>>
  BY DEF RollBack, Settle
<1>2. PlanOK' /\ Kept' /\ Bounded' /\ SharedOK'
  BY <1>1 DEF IInv, PlanOK, Phases, Plans, Settled, NoSnapshot, Kept, Bounded, SharedOK,
              NoStaleCse, Running
<1>3. CacheOK' /\ index' = index
  BY <1>1 DEF IInv, CacheOK, Ordered, cacheVars, Total, Units, BytesOf, SameKey
<1>4. ASSUME NEW n \in Names
      PROVE  /\ store'[n] \in Relation \cup {None}
             /\ saved[n] = None => store'[n] = None
             /\ saved[n] # None => /\ store'[n] # None /\ store'[n].data = saved[n]
                                   /\ store'[n].version = NextVersion(store[n])
  <2>1. store'[n] = Restored(n)
    BY <1>1
  <2>2. CASE saved[n] = None
    BY <2>1, <2>2 DEF Restored
  <2>3. CASE saved[n] # None
    <3>1. store'[n] = [data |-> saved[n], version |-> NextVersion(store[n])] /\ saved[n] \in Contents
      BY <2>1, <2>3 DEF Restored, Put, IInv, PlanOK
    <3>2. NextVersion(store[n]) \in 1..MaxVersion + 1
      <4>1. CASE store[n] = None
        BY <4>1, CacheAssumption DEF NextVersion
      <4>2. CASE store[n] # None
        <5>1. store[n].version \in 1..MaxVersion + 1 /\ store[n].version <= MaxVersion
          BY <1>1, <4>2 DEF IInv, StoreOK, Relation, Bounded, Present
        <5> QED BY <4>2, <5>1, CacheAssumption DEF NextVersion
      <4> QED BY <4>1, <4>2
    <3>3. store'[n] \in Relation
      BY <3>1, <3>2 DEF Relation
    <3> QED BY <2>3, <3>1, <3>3, NoneIsOther
  <2> QED BY <2>2, <2>3
<1>5. StoreOK'
  <2>1. store' = [n \in Names |-> store'[n]]
    BY <1>1
  <2> QED BY <1>4, <2>1 DEF StoreOK
<1>6. Fresh'
  <2> SUFFICES ASSUME NEW x \in index, x.rel \in Present', store'[x.rel].data # {}
               PROVE  /\ x.version <= store'[x.rel].version
                      /\ x.version = store'[x.rel].version => x.data = store'[x.rel].data
    BY <1>3 DEF Fresh
  <2>1. x.rel \in Names /\ x.version \in Nat /\ store'[x.rel] # None
    BY DEF IInv, CacheOK, Index, Present
  <2>2. /\ saved[x.rel] # None /\ saved[x.rel] # {}
        /\ store'[x.rel].version = NextVersion(store[x.rel])
    BY <1>4, <2>1
  <2>3. x.rel \in Present /\ x.version <= store[x.rel].version
    <3>1. CASE Data(x.rel) = saved[x.rel]
      <4>1. x.rel \in Present /\ store[x.rel].data # {}
        BY <2>1, <2>2, <3>1 DEF Data, Present
      <4> QED BY <4>1 DEF IInv, Fresh
    <3>2. CASE Data(x.rel) # saved[x.rel]
      BY <1>1, <2>2, <3>2 DEF IInv, Kept
    <3> QED BY <3>1, <3>2
  <2>4. store[x.rel].version \in Nat /\ store'[x.rel].version = store[x.rel].version + 1
    BY <2>1, <2>2, <2>3, CacheAssumption DEF IInv, StoreOK, Relation, Present, NextVersion
  <2> QED BY <2>1, <2>3, <2>4
<1>7. Traced'
  <2>1. \A n \in Names : Data(n)' = saved[n]
    BY <1>4 DEF Data, Present
  <2>2. \A n \in Names : Data(n)' = baseline'[n]
    BY <1>1, <2>1 DEF IInv, Traced
  <2> QED BY <1>1, <2>2 DEF Traced, AdaptiveExact
<1> QED BY <1>2, <1>3, <1>5, <1>6, <1>7 DEF IInv

\* Every step keeps the invariant.
LEMMA Step ==
  ASSUME IInv, [Next]_vars
  PROVE  IInv'
<1>1. ASSUME NEW n \in Names, NEW k \in Keys, JoinLookup(n, k) PROVE IInv'
  <2>1. PICK x \in index : Touch(x) \/ KeepIndexes(index \ {x})
    BY <1>1 DEF JoinLookup
  <2>2. CacheOK' /\ index' \subseteq index
    BY <2>1, TouchStep, KeepStep DEF IInv
  <2> QED BY <1>1, <2>2, JoinStep DEF JoinLookup
<1>2. ASSUME NEW n \in Names, NEW k \in Keys, JoinBuild(n, k) PROVE IInv'
  <2> DEFINE x == [rel |-> n, version |-> store[n].version, key |-> k, data |-> store[n].data]
  <2>1. /\ n \in Present /\ \A y \in index : ~ SameKey(y, x) /\ InsertIndex(x)
        /\ UNCHANGED <<store, cse, planVars>>
    BY <1>2 DEF JoinBuild
  <2>2. InsertIndex(x)
    BY <1>2 DEF JoinBuild
  <2>3. x \in Index
    BY <2>1 DEF IInv, StoreOK, Relation, Present, Index
  <2>4. x.rel \in Present /\ x.version = store[x.rel].version /\ x.data = store[x.rel].data
    BY <2>1
  <2>5. \A y \in index : ~ SameKey(y, x)
    BY <1>2 DEF JoinBuild
  <2> HIDE DEF x
  <2>6. CacheOK' /\ index' \subseteq index \cup {x}
    BY <2>2, <2>3, <2>5, InsertStep DEF IInv
  <2> QED BY <2>1, <2>4, <2>6, JoinStep
<1>3. ASSUME NEW e \in Exprs, Evaluate(e) PROVE IInv'
  <2>1. PICK value \in Contents :
          /\ SharedResult(e, value)
          /\ cse' = cse \cup {[expr |-> e, generations |-> Generations(e), value |-> value]}
    BY <1>3 DEF Evaluate
  <2>2. Running /\ UNCHANGED <<store, cacheVars, planVars>>
    BY <1>3 DEF Evaluate
  <2>3. value = Eval(e)
    BY <2>1, <2>2, SharedIsCurrent
  <2>4. SharedOK'
    <3>1. /\ \A s \in cse : s.expr \in Exprs /\ s.value \in Contents
          /\ \A s \in cse : s.expr \subseteq Present /\ s.generations = Generations(s.expr)
                            => s.value = Eval(s.expr)
      BY <2>2 DEF IInv, SharedOK, NoStaleCse
    <3>2. \A s \in cse' : s \in cse \/ (s.expr = e /\ s.value = value)
      BY <2>1
    <3>3. Present' = Present /\ \A f : Generations(f)' = Generations(f) /\ Eval(f)' = Eval(f)
      BY <2>2 DEF Present, Generations, Eval, Data
    <3> QED BY <2>3, <3>1, <3>2, <3>3 DEF SharedOK, NoStaleCse
  <2>5. CacheOK'
    BY <2>2 DEF IInv, CacheOK, Ordered, cacheVars, Total, Units, BytesOf, SameKey
  <2>6. StoreOK' /\ PlanOK' /\ Fresh' /\ Kept' /\ Bounded' /\ Traced'
    BY <2>2 DEF IInv, StoreOK, PlanOK, Fresh, Kept, Bounded, Present, Data, Traced, AdaptiveExact,
                KeepsRows, cacheVars, planVars
  <2> QED BY <2>4, <2>5, <2>6 DEF IInv
<1>4. ASSUME NEW h \in Heads, NEW e \in Exprs, Install(h, e) PROVE IInv'
  <2>1. PICK value \in Contents :
          StorePut(h, value \cup (IF h \in Present THEN store[h].data ELSE {}))
    BY <1>4 DEF Install
  <2>2. h \in Names /\ value \cup (IF h \in Present THEN store[h].data ELSE {}) \in Contents
    BY CacheAssumption DEF IInv, StoreOK, Relation, Present, Contents
  <2>3. phase' = phase /\ saved' = saved /\ baseline' = baseline /\ phase \in Plans
    BY <1>4 DEF Install, Running, planVars
  <2> QED BY <2>1, <2>2, <2>3, PutStep
<1>5. ASSUME NEW n \in Names, NEW D \in Contents, PutDelta(n, D) PROVE IInv'
  BY <1>5, PutStep DEF PutDelta, Running, planVars
<1>6. ASSUME NEW n \in Names, NEW D \in Contents, StartRecompute(n, D) PROVE IInv'
  BY <1>6, PutStep DEF StartRecompute, Plans
<1>7. ASSUME NEW n \in Names, NEW D \in Contents, PutRelation(n, D) PROVE IInv'
  BY <1>7, PutStep DEF PutRelation, planVars
<1>8. ASSUME NEW n \in Names, RemoveDelta(n) PROVE IInv'
  BY <1>8, RemoveStep DEF RemoveDelta
<1>9. ASSUME NEW h \in Names, EmptyHead(h) PROVE IInv'
  <2>1. {} \in Contents
    BY DEF Contents
  <2> QED BY <1>9, <2>1, PutStep DEF EmptyHead, Plans, planVars
<1>10. ASSUME NEW h \in Names, TakeResult(h) PROVE IInv'
  <2>1. /\ store' = [store EXCEPT ![h] = None] /\ phase' = "idle" /\ saved' = saved
        /\ baseline' = baseline /\ UNCHANGED <<cacheVars, cse>>
    BY <1>10 DEF TakeResult, planVars
  <2>2. StoreOK' /\ \A n \in Names : store'[n] \in {store[n], None}
    BY <2>1 DEF IInv, StoreOK
  <2>3. CacheOK' /\ index' = index
    BY <2>1 DEF IInv, CacheOK, Ordered, cacheVars, Total, Units, BytesOf, SameKey
  <2> QED BY <2>1, <2>2, <2>3, IdleStep
<1>11. ASSUME NEW kind \in Phases, StartPlan(kind) PROVE IInv'
  BY <1>11, PhaseStep DEF StartPlan, IInv, PlanOK, Traced, AdaptiveExact
<1>12. CASE EndPlan
  BY <1>12, PhaseStep DEF EndPlan, IInv, PlanOK, Phases, Plans, Traced, AdaptiveExact
<1>13. CASE EndBaseline
  <2>1. /\ phase' = "deciding" /\ baseline' = [n \in Names |-> Data(n)]
        /\ UNCHANGED <<store, cacheVars, cse, saved>>
    BY <1>13 DEF EndBaseline
  <2>2. [n \in Names |-> Data(n)] \in [Names -> Contents \cup {None}]
    BY DEF IInv, StoreOK, Relation, Data, Present
  <2>3. Traced'
    BY <2>1 DEF Traced, AdaptiveExact, Data, Present
  <2> QED BY <2>1, <2>2, <2>3, PhaseStep DEF IInv, PlanOK, Phases, Plans
<1>14. CASE AttemptCandidate
  <2>1. /\ phase = "deciding" /\ \A n \in Present : store[n].version < MaxVersion
        /\ saved' = [n \in Names |-> Data(n)] /\ phase' = "candidate" /\ cse' = {}
        /\ UNCHANGED <<store, cacheVars, baseline>>
    BY <1>14 DEF AttemptCandidate
  <2>2. [n \in Names |-> Data(n)] \in [Names -> Contents \cup {None}]
    BY DEF IInv, StoreOK, Relation, Data, Present
  <2>3. baseline = [n \in Names |-> baseline[n]] /\ \A n \in Names : Data(n) = baseline[n]
    BY <2>1 DEF IInv, PlanOK, Traced
  <2>4. saved' = baseline'
    BY <2>1, <2>3
  <2>5. \A h \in Heads : KeepsRows(h)'
    BY <2>1, <2>3, CacheAssumption DEF KeepsRows, Data, Present
  <2>6. Traced'
    BY <2>1, <2>4, <2>5 DEF Traced, AdaptiveExact
  <2> QED BY <2>1, <2>2, <2>6, PhaseStep DEF IInv, PlanOK, Phases, Plans
<1>15. CASE Adopt \/ CompareFails \/ Return
  <2>1. /\ UNCHANGED <<store, cacheVars, cse>>
        /\ phase' \in Settled \cup {"idle"}
        /\ saved' \in {saved, NoSnapshot} /\ baseline' \in {baseline, NoSnapshot}
    BY <1>15 DEF Adopt, CompareFails, Return, Settle, Settled
  <2>2. {saved', baseline'} \subseteq [Names -> Contents \cup {None}]
    BY <2>1 DEF IInv, PlanOK, NoSnapshot
  <2>3. Traced'
    <3>1. CASE Adopt
      <4>1. \A h \in Heads : Data(h) = baseline[h]
        BY <3>1 DEF Adopt, PlanOutputsMatch, IInv, Traced
      <4>2. phase' = "adopted" /\ baseline' = baseline /\ store' = store
        BY <3>1 DEF Adopt, Settle
      <4> QED BY <4>1, <4>2 DEF Traced, AdaptiveExact, Data, Present
    <3>2. CASE CompareFails
      <4>1. \A h \in Heads : KeepsRows(h)
        BY <3>2 DEF CompareFails, IInv, Traced
      <4>2. phase' = "uncompared" /\ baseline' = baseline /\ store' = store
        BY <3>2 DEF CompareFails, Settle
      <4> QED BY <4>1, <4>2 DEF Traced, AdaptiveExact, KeepsRows, Present
    <3>3. CASE Return
      BY <3>3 DEF Return, Traced, AdaptiveExact
    <3> QED BY <1>15, <3>1, <3>2, <3>3
  <2> QED BY <2>1, <2>2, <2>3, PhaseStep DEF Phases, Plans, Settled
<1>16. CASE RollBack
  BY <1>16, RollBackStep
<1>17. CASE Reset
  <2>1. /\ store' = NoSnapshot /\ ClearIndexes /\ cse' = {} /\ phase' = "idle" /\ saved' = saved
        /\ baseline' = baseline
    BY <1>17 DEF Reset, ForgetResults, planVars
  <2>2. StoreOK' /\ \A n \in Names : store'[n] = None
    BY <2>1 DEF StoreOK, NoSnapshot
  <2>3. CacheOK' /\ index' = {}
    BY <2>1, ClearStep DEF IInv
  <2> QED BY <2>1, <2>2, <2>3, IdleStep
<1>18. ASSUME NEW keep \in SUBSET Names, NEW empty \in SUBSET Names, ResetRelations(keep, empty)
       PROVE  IInv'
  <2>1. /\ \A n \in keep \cap Present : store[n].version < MaxVersion
        /\ store' = AfterReset(keep, empty) /\ ClearIndexes
        /\ cse' = {} /\ phase' = "idle" /\ saved' = saved /\ baseline' = baseline
    BY <1>18 DEF ResetRelations, ForgetResults, planVars
  <2>2. CacheOK' /\ index' = {}
    BY <2>1, ClearStep DEF IInv
  <2> QED BY <2>1, <2>2, ResetStore, IdleStep DEF IInv
<1>19. ASSUME NEW keep \in SUBSET Names, NEW empty \in SUBSET Names, ResetRelationsFails(keep, empty)
       PROVE  IInv'
  <2>1. /\ \A n \in keep \cap Present : store[n].version < MaxVersion
        /\ store' = AfterReset(keep, empty) /\ UNCHANGED <<cacheVars, cse>>
        /\ phase' = "idle" /\ saved' = saved /\ baseline' = baseline
    BY <1>19 DEF ResetRelationsFails, planVars
  <2>2. CacheOK' /\ index' = index
    BY <2>1 DEF IInv, CacheOK, Ordered, cacheVars, Total, Units, BytesOf, SameKey
  <2> QED BY <2>1, <2>2, ResetStore, IdleStep DEF IInv
<1>20. CASE UNCHANGED vars
  <2>1. UNCHANGED <<store, cacheVars, cse, planVars>>
    BY <1>20 DEF vars
  <2>2. CacheOK' /\ index' = index
    BY <2>1 DEF IInv, CacheOK, Ordered, cacheVars, Total, Units, BytesOf, SameKey
  <2> QED BY <2>1, <2>2, JoinStep
<1> QED
  BY <1>1, <1>2, <1>3, <1>4, <1>5, <1>6, <1>7, <1>8, <1>9, <1>10, <1>11, <1>12, <1>13, <1>14,
     <1>15, <1>16, <1>17, <1>18, <1>19, <1>20
  DEF Next

\* The empty store and the empty caches satisfy the invariant.
LEMMA InitIInv == Init => IInv
<1> SUFFICES ASSUME Init PROVE IInv
  OBVIOUS
<1>1. index = {} /\ older = {} /\ bytes = 0 /\ cse = {} /\ phase = "idle"
      /\ store = NoSnapshot /\ saved = NoSnapshot /\ baseline = NoSnapshot
  BY DEF Init
<1>2. CacheOK
  BY <1>1, TotalNone, CacheAssumption DEF CacheOK, Ordered
<1>3. StoreOK /\ PlanOK /\ SharedOK /\ Fresh /\ Kept /\ Bounded /\ Traced
  BY <1>1 DEF StoreOK, PlanOK, SharedOK, NoStaleCse, Fresh, Kept, Bounded, Traced, AdaptiveExact,
              NoSnapshot, Phases
<1> QED BY <1>2, <1>3 DEF IInv

\* The inductive invariant holds in every state of every behaviour.
THEOREM Invariant == Spec => []IInv
BY InitIInv, Step, PTL DEF Spec

\* Types, the uniqueness of a key in the index cache included.
THEOREM TypeCorrect == Spec => []TypeOK
<1>1. IInv => TypeOK
  <2> SUFFICES ASSUME IInv PROVE TypeOK
    OBVIOUS
  <2>1. bytes \in Nat
    BY TotalDrop DEF IInv, CacheOK
  <2> QED BY <2>1 DEF IInv, StoreOK, CacheOK, SharedOK, PlanOK, TypeOK
<1> QED BY <1>1, Invariant, PTL

\* An index that a join finds and the provider accepts is of the rows that are
\* there now, through removals, rollbacks, resets that fail half way and
\* callers that take relations out (invalidate_rel, restore_store_snapshot).
THEOREM IndexesAreFresh == Spec => []NoStaleIndex
<1>1. IInv => NoStaleIndex
  BY DEF IInv, Fresh, NoStaleIndex
<1> QED BY <1>1, Invariant, PTL

\* A shared result that a running plan finds is what it would compute
\* (store_put, store_remove, execute_node).
THEOREM SharedAreFresh == Spec => []NoStaleCse
<1>1. IInv => NoStaleCse
  BY DEF IInv, SharedOK
<1> QED BY <1>1, Invariant, PTL

\* The total of the index cache is that of its entries and in the budget,
\* whatever is evicted, invalidated or rejected (JoinIndexCache).
THEOREM BudgetKept == Spec => []WithinBudget
<1>1. IInv => WithinBudget
  BY DEF IInv, CacheOK, WithinBudget
<1> QED BY <1>1, Invariant, PTL

\* Whatever a candidate plan did to the store between the end of the baseline
\* and the return of the call, an adopted candidate leaves every head, and a
\* rollback every relation, as the baseline left it, and a comparison that fails
\* loses no row of a head (execute_plan_with_adaptive_candidate).
THEOREM AdaptiveIsExact == Spec => []AdaptiveExact
<1>1. IInv => AdaptiveExact
  BY DEF IInv, Traced
<1> QED BY <1>1, Invariant, PTL
=============================================================================
