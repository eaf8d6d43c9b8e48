-------------------------- MODULE SemiNaive_proofs --------------------------
(***************************************************************************)
(* What holds of SemiNaive for every program, every set of facts, every    *)
(* sequence of insertions and every failure.                               *)
(***************************************************************************)
EXTENDS SemiNaive, FiniteSetTheorems, TLAPS

-----------------------------------------------------------------------------
(* The least model. *)

LEMMA ModelInFacts ==
  ASSUME NEW B PROVE Model(B) \subseteq Facts
BY DEF Model

LEMMA ModelContains ==
  ASSUME NEW B \in SUBSET Facts PROVE B \subseteq Model(B)
BY DEF Model, Models

LEMMA ModelLeast ==
  ASSUME NEW B, NEW S \in SUBSET Facts, Closed(S), B \subseteq S
  PROVE  Model(B) \subseteq S
BY DEF Model, Models

LEMMA ModelMonotone ==
  ASSUME NEW B, NEW C, B \subseteq C PROVE Model(B) \subseteq Model(C)
BY DEF Model, Models

LEMMA ModelClosed ==
  ASSUME NEW B PROVE Closed(Model(B))
<1> SUFFICES ASSUME NEW n \in Instances, Holds(n, Model(B)),
                    NEW S \in Models(B)
             PROVE  n.head \in S
  BY InstancesAssumption DEF Closed, Model
<1>1. Holds(n, S)
  BY DEF Holds, Model
<1>. QED  BY <1>1 DEF Models, Closed

LEMMA ConsequencesType ==
  ASSUME NEW S PROVE Consequences(S) \subseteq Facts
BY InstancesAssumption DEF Consequences

LEMMA ConsequencesMonotone ==
  ASSUME NEW S, NEW T, S \subseteq T
  PROVE  Consequences(S) \subseteq Consequences(T)
BY DEF Consequences, Holds

LEMMA ConsequencesInModel ==
  ASSUME NEW B, NEW S, S \subseteq Model(B)
  PROVE  Consequences(S) \subseteq Model(B)
<1>1. \A n \in Instances : Holds(n, S) => Holds(n, Model(B))
  BY DEF Holds
<1>. QED  BY <1>1, ModelClosed DEF Consequences, Closed

\* A variant derives nothing that a pass over the store would not derive.
LEMMA DerivedType ==
  ASSUME NEW v \in Occurrences, delta \subseteq store
  PROVE  Derived(v) \subseteq Consequences(store)
BY DEF Derived, Consequences, Reads, Holds

-----------------------------------------------------------------------------
(* The inductive invariant. *)

Running == (stage # "idle") <=> (outcome = "running")

Grounded == base \subseteq store /\ store \subseteq Model(base)

\* What is accumulated follows at once from the store.
Pending ==
  /\ seeds \subseteq Consequences(store)
  /\ raw \subseteq Consequences(store)
  /\ novel \subseteq Consequences(store)
  /\ delta \subseteq store \union Consequences(store)
  /\ \A f \in delta : PredOf[f] \in Recursive

\* Which tuples of the deltas the store holds, stage by stage.
Current ==
  /\ stage = "seed" => delta = {}
  /\ stage \in {"install", "evaluate"} => delta \subseteq store
  /\ stage = "install" => \A f \in delta : PredOf[f] \notin todo
  /\ stage \in {"evaluate", "finalize"} => novel \intersect store = {}
  /\ stage = "finalize" => \A f \in delta : PredOf[f] \notin todo => f \notin store
  /\ stage = "merge" => \A f \in delta : (PredOf[f] \in todo) <=> (f \notin store)

\* Why no consequence of the store is ever forgotten.
Seeded(n) == n.head \in seeds /\ PredOf[n.head] \in todo
Touched(n) == \E i \in DOMAIN n.body : n.body[i] \in delta
Awaited(n) == \E i \in DOMAIN n.body : n.body[i] \in delta /\ <<n.rule, i>> \in todo
Found(n) == n.head \in raw \union novel
Kept(n) == IF PredOf[n.head] \in todo THEN Found(n) ELSE n.head \in delta

Covered ==
  \A n \in Instances :
    Holds(n, store) =>
      \/ stage = "seed"
      \/ stage = "idle" /\ outcome # "ok"
      \/ n.head \in store
      \/ stage = "install" /\ (Touched(n) \/ Seeded(n))
      \/ stage = "evaluate" /\ (Awaited(n) \/ Found(n))
      \/ stage = "finalize" /\ Kept(n)
      \/ stage = "merge" /\ (Touched(n) \/ n.head \in delta)

\* An unchanged round left every visited delta empty.
Unchanged ==
  stage = "finalize" /\ ~changed =>
    \A p \in Recursive \ todo : Of(delta, p) = {}

IInv ==
  /\ TypeOK
  /\ Running
  /\ Grounded
  /\ Pending
  /\ Current
  /\ Unchanged

-----------------------------------------------------------------------------

LEMMA InitOK ==
  Init => IInv /\ Covered
<1> SUFFICES ASSUME Init PROVE IInv /\ Covered
  OBVIOUS
<1>1. TypeOK /\ Running
  BY DEF Init, TypeOK, Running
<1>2. Grounded /\ Pending /\ Current /\ Unchanged
  BY DEF Init, Grounded, Pending, Current, Unchanged
<1>3. Covered
  BY DEF Init, Covered
<1>. QED  BY <1>1, <1>2, <1>3 DEF IInv

LEMMA StepTypeOK ==
  ASSUME TypeOK, Next PROVE TypeOK'
<1>1. CASE Insert
  BY <1>1, SemiNaiveAssumption DEF Insert, TypeOK
<1>2. CASE Start
  BY <1>2 DEF Start, TypeOK
<1>3. CASE Seed
  BY <1>3, ConsequencesType DEF Seed, TypeOK
<1>4. ASSUME NEW p \in Recursive, Install(p) PROVE TypeOK'
  BY <1>4 DEF Install, TypeOK, Of
<1>5. ASSUME NEW p \in Recursive, Finalize(p) PROVE TypeOK'
  <2>1. NewDelta(p) \subseteq Facts
    BY DEF TypeOK, NewDelta, Of
  <2>2. delta' \in SUBSET Facts /\ changed' \in BOOLEAN
    BY <1>5, <2>1 DEF Finalize, TypeOK
  <2>. QED  BY <1>5, <2>2 DEF Finalize, TypeOK
<1>6. ASSUME NEW p \in Recursive, Merge(p) PROVE TypeOK'
  BY <1>6 DEF Merge, TypeOK, Of
<1>7. CASE StartRound
  BY <1>7, SemiNaiveAssumption DEF StartRound, TypeOK, Variants
<1>8. ASSUME NEW v \in Occurrences, Factorize(v) PROVE TypeOK'
  <2>1. Derived(v) \subseteq Facts
    BY InstancesAssumption DEF Derived
  <2>2. bounds' \in [Keys -> {"unknown", "packs", "declined"}]
    BY <1>8 DEF Factorize, TypeOK
  <2>. QED  BY <1>8, <2>1, <2>2 DEF Factorize, TypeOK
<1>9. ASSUME NEW v \in Occurrences, Join(v) PROVE TypeOK'
  <2>1. Derived(v) \subseteq Facts
    BY InstancesAssumption DEF Derived
  <2>2. Bound(v) \in {"unknown", "packs", "declined"} \/ Key(v) \notin Keys
    BY DEF Bound, TypeOK
  <2>3. bounds' \in [Keys -> {"unknown", "packs", "declined"}]
    BY <1>9, <2>2 DEF Join, TypeOK
  <2>. QED  BY <1>9, <2>1, <2>3 DEF Join, TypeOK
<1>10. CASE BeginFinalize
  BY <1>10 DEF BeginFinalize, TypeOK
<1>11. CASE Converged
  BY <1>11 DEF Converged, Leave, TypeOK
<1>12. CASE BeginMerge
  BY <1>12 DEF BeginMerge, TypeOK
<1>13. CASE LimitExceeded
  BY <1>13 DEF LimitExceeded, Leave, TypeOK
<1>14. CASE Fail
  BY <1>14 DEF Fail, Leave, TypeOK
<1>. QED  BY <1>1, <1>2, <1>3, <1>4, <1>5, <1>6, <1>7, <1>8, <1>9, <1>10, <1>11,
             <1>12, <1>13, <1>14 DEF Next

LEMMA StepRunning ==
  ASSUME Running, Next PROVE Running'
<1>1. CASE Insert \/ Start \/ Seed \/ StartRound
  BY <1>1 DEF Running, Insert, Start, Seed, StartRound, Idle
<1>2. ASSUME NEW p \in Recursive, Install(p) \/ Finalize(p) \/ Merge(p)
      PROVE Running'
  BY <1>2 DEF Running, Install, Finalize, Merge
<1>3. ASSUME NEW v \in Occurrences, Factorize(v) \/ Join(v) PROVE Running'
  BY <1>3 DEF Running, Factorize, Join
<1>4. CASE BeginFinalize \/ BeginMerge
  BY <1>4 DEF Running, BeginFinalize, BeginMerge
<1>5. CASE Converged \/ LimitExceeded \/ Fail
  BY <1>5 DEF Running, Converged, LimitExceeded, Fail, Leave
<1>. QED  BY <1>1, <1>2, <1>3, <1>4, <1>5 DEF Next

\* Only Insert, Install and Merge change the store; every change adds facts.
LEMMA StoreGrows ==
  ASSUME Next PROVE store \subseteq store'
BY DEF Next, Insert, Start, Seed, Install, Finalize, Merge, StartRound,
       Factorize, Join, BeginFinalize, Converged, BeginMerge, LimitExceeded,
       Fail, Leave

LEMMA StepGrounded ==
  ASSUME TypeOK, Grounded, Pending, Next PROVE Grounded'
<1>1. CASE Insert
  <2>1. PICK F \in Inserts : base' = base \union F /\ store' = store \union F
    BY <1>1 DEF Insert
  <2>2. base' \in SUBSET Facts
    BY <2>1, SemiNaiveAssumption DEF TypeOK
  <2>3. base' \subseteq Model(base') /\ Model(base) \subseteq Model(base')
    BY <2>1, <2>2, ModelContains, ModelMonotone
  <2>. QED  BY <2>1, <2>3 DEF Grounded
<1>2. ASSUME NEW p \in Recursive, Install(p) \/ Merge(p) PROVE Grounded'
  <2>1. Consequences(store) \subseteq Model(base)
    BY ConsequencesInModel DEF Grounded
  <2>. QED  BY <1>2, <2>1 DEF Install, Merge, Grounded, Pending, Of
<1>3. CASE UNCHANGED <<base, store>>
  BY <1>3 DEF Grounded
<1>. QED
  BY <1>1, <1>2, <1>3
     DEF Next, Start, Seed, Finalize, StartRound, Factorize, Join,
         BeginFinalize, Converged, BeginMerge, LimitExceeded, Fail, Leave

LEMMA StepPending ==
  ASSUME TypeOK, Pending, Current, Next PROVE Pending'
<1>1. Consequences(store) \subseteq Consequences(store')
  BY StoreGrows, ConsequencesMonotone
<1>2. CASE Insert \/ Start \/ Seed \/ StartRound
  BY <1>1, <1>2, StoreGrows DEF Insert, Start, Seed, StartRound, Pending
<1>3. ASSUME NEW p \in Recursive, Install(p) PROVE Pending'
  BY <1>1, <1>3 DEF Install, Pending, Of
<1>4. ASSUME NEW p \in Recursive, Finalize(p) PROVE Pending'
  <2>1. /\ NewDelta(p) \subseteq Consequences(store)
        /\ \A f \in NewDelta(p) : PredOf[f] = p
    BY DEF NewDelta, Of, Pending
  <2>. QED  BY <1>4, <2>1 DEF Finalize, Pending
<1>5. ASSUME NEW p \in Recursive, Merge(p) PROVE Pending'
  BY <1>1, <1>5 DEF Merge, Pending, Of
<1>6. ASSUME NEW v \in Occurrences, Factorize(v) \/ Join(v) PROVE Pending'
  <2>1. Derived(v) \subseteq Consequences(store)
    BY <1>6, DerivedType DEF Current, Factorize, Join
  <2>. QED  BY <1>6, <2>1 DEF Factorize, Join, Pending
<1>7. CASE BeginFinalize \/ BeginMerge
  BY <1>7 DEF BeginFinalize, BeginMerge, Pending
<1>8. CASE Converged \/ LimitExceeded \/ Fail
  BY <1>8 DEF Converged, LimitExceeded, Fail, Leave, Pending
<1>. QED  BY <1>2, <1>3, <1>4, <1>5, <1>6, <1>7, <1>8 DEF Next

LEMMA StepCurrent ==
  ASSUME TypeOK, Pending, Current, Next PROVE Current'
<1>1. CASE Insert \/ Start \/ Seed
  BY <1>1 DEF Insert, Start, Seed, Idle, Current
<1>2. ASSUME NEW p \in Recursive, Install(p) PROVE Current'
  BY <1>2 DEF Install, Current, Of
<1>3. ASSUME NEW p \in Recursive, Finalize(p) PROVE Current'
  <2>1. NewDelta(p) \intersect store = {}
    BY <1>3 DEF Finalize, NewDelta, Of, Current
  <2>. QED  BY <1>3, <2>1 DEF Finalize, Current, Of
<1>4. ASSUME NEW p \in Recursive, Merge(p) PROVE Current'
  BY <1>4 DEF Merge, Current, Of
<1>5. CASE StartRound
  BY <1>5 DEF StartRound, Current
<1>6. ASSUME NEW v \in Occurrences, Factorize(v) \/ Join(v) PROVE Current'
  BY <1>6 DEF Factorize, Join, Current
<1>7. CASE BeginFinalize
  BY <1>7 DEF BeginFinalize, Current, Pending
<1>8. CASE BeginMerge
  BY <1>8 DEF BeginMerge, Current, Pending
<1>9. CASE Converged \/ LimitExceeded \/ Fail
  BY <1>9 DEF Converged, LimitExceeded, Fail, Leave, Current
<1>. QED  BY <1>1, <1>2, <1>3, <1>4, <1>5, <1>6, <1>7, <1>8, <1>9 DEF Next

LEMMA StepUnchanged ==
  ASSUME TypeOK, Unchanged, Next PROVE Unchanged'
<1>1. ASSUME NEW p \in Recursive, Finalize(p) PROVE Unchanged'
  <2>1. CASE NewDelta(p) = {}
    BY <1>1, <2>1 DEF Finalize, Unchanged, Of, TypeOK
  <2>2. CASE NewDelta(p) # {}
    BY <1>1, <2>2 DEF Finalize, Unchanged, TypeOK
  <2>. QED  BY <2>1, <2>2
<1>2. CASE BeginFinalize
  BY <1>2 DEF BeginFinalize, Unchanged
<1>3. CASE stage' # "finalize"
  BY <1>3 DEF Unchanged
<1>. QED
  BY <1>1, <1>2, <1>3
     DEF Next, Insert, Idle, Start, Seed, Install, Merge, StartRound, Factorize,
         Join, Converged, BeginMerge, LimitExceeded, Fail, Leave

LEMMA StepIInv ==
  ASSUME IInv, [Next]_vars PROVE IInv'
<1>1. CASE Next
  BY <1>1, StepTypeOK, StepRunning, StepGrounded, StepPending, StepCurrent,
     StepUnchanged DEF IInv
<1>2. CASE UNCHANGED vars
  BY <1>2 DEF vars, IInv, TypeOK, Running, Grounded, Pending, Current,
              Unchanged, Consequences, Holds, Of
<1>. QED  BY <1>1, <1>2

-----------------------------------------------------------------------------

\* Every state of a run has the type the module declares (execute_recursive_scc).
THEOREM TypeCorrect == Spec => []TypeOK
<1>1. Init => IInv
  BY InitOK
<1>2. IInv /\ [Next]_vars => IInv'
  BY StepIInv
<1>3. IInv => TypeOK
  BY DEF IInv
<1>. QED  BY <1>1, <1>2, <1>3, PTL DEF Spec

\* The store never holds a tuple that does not follow from the facts handed in,
\* whichever step of whichever run failed (the "?" exits of
\* execute_recursive_scc).
THEOREM Soundness == Spec => []Sound
<1>1. Init => IInv
  BY InitOK
<1>2. IInv /\ [Next]_vars => IInv'
  BY StepIInv
<1>3. IInv => Sound
  BY DEF IInv, Grounded, Sound
<1>. QED  BY <1>1, <1>2, <1>3, PTL DEF Spec

\* Whatever mix of the two routes computed it, a delta that is yet to be merged
\* is disjoint from its full relation (the finalize loop of
\* execute_recursive_scc).
THEOREM DeltasAreNew == Spec => []DeltasNew
<1>1. Init => IInv
  BY InitOK
<1>2. IInv /\ [Next]_vars => IInv'
  BY StepIInv
<1>3. IInv => DeltasNew
  BY DEF IInv, Current, DeltasNew, Of
<1>. QED  BY <1>1, <1>2, <1>3, PTL DEF Spec

-----------------------------------------------------------------------------
(* No consequence is forgotten, provided every tuple can be packed. *)

\* A variant whose delta premise is awaited finds the head of the instance.
LEMMA VariantFinds ==
  ASSUME NEW n \in Instances, Holds(n, store), delta \subseteq store,
         NEW i \in DOMAIN n.body, n.body[i] \in delta
  PROVE  n.head \in Derived(<<n.rule, i>>)
BY DEF Derived, Reads, Holds

\* A round evaluates every occurrence with a premise in a delta.
LEMMA VariantsComplete ==
  ASSUME Pending, NEW n \in Instances, NEW i \in DOMAIN n.body,
         n.body[i] \in delta
  PROVE  <<n.rule, i>> \in Variants
<1>1. n.rule \in Rules /\ i \in Positions /\ i \in DOMAIN Scans[n.rule]
  BY RulesAssumption, InstancesAssumption
<1>2. PredOf[n.body[i]] = Scans[n.rule][i] /\ Scans[n.rule][i] \in Recursive
  BY InstancesAssumption DEF Pending
<1>3. n.body[i] \in Of(delta, Scans[n.rule][i])
  BY <1>2 DEF Of
<1>. QED  BY <1>1, <1>2, <1>3 DEF Variants, Occurrences

LEMMA CoveredInstall ==
  ASSUME IInv, Covered, NEW p \in Recursive, Install(p) PROVE Covered'
<1> USE DEF Install
<1> SUFFICES ASSUME NEW n \in Instances, Holds(n, store')
             PROVE  n.head \in store' \/ Touched(n)' \/ Seeded(n)'
  BY DEF Covered, Holds
<1>1. CASE Holds(n, store)
  <2>1. CASE n.head \in store
    BY <2>1
  <2>2. CASE Touched(n)
    BY <2>2 DEF Touched, IInv, Current, Of
  <2>3. CASE Seeded(n)
    BY <2>3, InstancesAssumption, ConsequencesType
       DEF Seeded, Of, IInv, TypeOK
  <2>. QED  BY <1>1, <2>1, <2>2, <2>3 DEF Covered
<1>2. CASE ~Holds(n, store)
  BY <1>2 DEF Holds, Touched, Of
<1>. QED  BY <1>1, <1>2

LEMMA CoveredStartRound ==
  ASSUME IInv, Covered, StartRound PROVE Covered'
<1> SUFFICES ASSUME NEW n \in Instances, Holds(n, store)
             PROVE  n.head \in store \/ Awaited(n)'
  BY DEF Covered, Holds, StartRound
<1>1. n.head \in store \/ Touched(n)
  BY DEF Covered, StartRound, Seeded, IInv, Current, Touched
<1>2. Touched(n) => Awaited(n)'
  BY VariantsComplete DEF Touched, Awaited, StartRound, IInv
<1>. QED  BY <1>1, <1>2

LEMMA CoveredVariant ==
  ASSUME Unpackable = {}, IInv, Covered, NEW v \in Occurrences,
         Factorize(v) \/ Join(v)
  PROVE  Covered'
<1> SUFFICES ASSUME NEW n \in Instances, Holds(n, store)
             PROVE  n.head \in store \/ Awaited(n)' \/ Found(n)'
  BY DEF Covered, Holds, Factorize, Join
<1>1. CASE n.head \in store
  BY <1>1
<1>2. CASE Found(n)
  BY <1>2 DEF Found, Factorize, Join
<1>3. ASSUME NEW i \in DOMAIN n.body, n.body[i] \in delta, <<n.rule, i>> \in todo
      PROVE  n.head \in store \/ Awaited(n)' \/ Found(n)'
  <2>1. CASE v = <<n.rule, i>>
    <3>1. n.head \in Derived(v)
      BY <1>3, <2>1, VariantFinds DEF IInv, Current, Factorize, Join
    <3>. QED  BY <3>1 DEF Found, Factorize, Join
  <2>2. CASE v # <<n.rule, i>>
    BY <1>3, <2>2 DEF Awaited, Factorize, Join
  <2>. QED  BY <2>1, <2>2
<1>. QED  BY <1>1, <1>2, <1>3 DEF Covered, Awaited, Factorize, Join

LEMMA CoveredFinalize ==
  ASSUME IInv, Covered, NEW p \in Recursive, Finalize(p) PROVE Covered'
<1> SUFFICES ASSUME NEW n \in Instances, Holds(n, store)
             PROVE  n.head \in store \/ Kept(n)'
  BY DEF Covered, Holds, Finalize
<1>1. n.head \in store \/ Kept(n)
  BY DEF Covered, Finalize
<1>2. CASE PredOf[n.head] = p
  <2>1. n.head \in Facts
    BY InstancesAssumption
  <2>2. Kept(n) => Found(n)
    BY <1>2 DEF Kept, Finalize
  <2>3. Found(n) => n.head \in store \/ n.head \in NewDelta(p)
    BY <1>2 DEF Found, NewDelta, Of
  <2>. QED  BY <1>1, <1>2, <2>2, <2>3 DEF Kept, Finalize
<1>3. CASE PredOf[n.head] # p
  BY <1>1, <1>3 DEF Kept, Found, Finalize, Of
<1>. QED  BY <1>2, <1>3

LEMMA CoveredConverged ==
  ASSUME IInv, Covered, Converged PROVE Closed(store)
<1> SUFFICES ASSUME NEW n \in Instances, Holds(n, store) PROVE n.head \in store
  BY DEF Closed
<1>1. n.head \in store \/ n.head \in delta
  BY DEF Covered, Converged, Kept
<1>2. n.head \notin delta
  <2>1. PredOf[n.head] \in Recursive
    BY RulesAssumption, InstancesAssumption
  <2>2. Of(delta, PredOf[n.head]) = {}
    BY <2>1 DEF IInv, Unchanged, Converged
  <2>. QED  BY <2>2 DEF Of
<1>. QED  BY <1>1, <1>2

LEMMA CoveredMerge ==
  ASSUME IInv, Covered, NEW p \in Recursive, Merge(p) PROVE Covered'
<1> SUFFICES ASSUME NEW n \in Instances, Holds(n, store')
             PROVE  n.head \in store' \/ Touched(n)' \/ n.head \in delta'
  BY DEF Covered, Holds, Merge
<1>1. CASE Holds(n, store)
  BY <1>1 DEF Covered, Touched, Merge
<1>2. CASE ~Holds(n, store)
  BY <1>2 DEF Holds, Touched, Merge, Of
<1>. QED  BY <1>1, <1>2

LEMMA StepCovered ==
  ASSUME Unpackable = {}, IInv, Covered, Next PROVE Covered'
<1>1. CASE Insert \/ Start
  BY <1>1 DEF Insert, Idle, Start, Covered
<1>2. CASE Seed
  BY <1>2, InstancesAssumption, RulesAssumption
     DEF Seed, Covered, Seeded, Consequences, Holds
<1>3. CASE BeginFinalize
  <2> SUFFICES ASSUME NEW n \in Instances, Holds(n, store)
               PROVE  n.head \in store \/ Kept(n)'
    BY <1>3 DEF Covered, Holds, BeginFinalize
  <2>1. n.head \in store \/ Found(n)
    BY <1>3 DEF Covered, BeginFinalize, Awaited
  <2>2. PredOf[n.head] \in Recursive
    BY InstancesAssumption, RulesAssumption
  <2>. QED  BY <1>3, <2>1, <2>2 DEF BeginFinalize, Kept, Found
<1>4. CASE BeginMerge
  <2> SUFFICES ASSUME NEW n \in Instances, Holds(n, store)
               PROVE  n.head \in store \/ n.head \in delta
    BY <1>4 DEF Covered, Holds, BeginMerge
  <2>. QED  BY <1>4 DEF Covered, BeginMerge, Kept
<1>5. CASE Converged
  BY <1>5, CoveredConverged DEF Converged, Leave, Covered, Closed, Holds
<1>6. CASE LimitExceeded \/ Fail
  BY <1>6 DEF LimitExceeded, Fail, Leave, Covered
<1>. QED
  BY <1>1, <1>2, <1>3, <1>4, <1>5, <1>6, CoveredInstall, CoveredStartRound,
     CoveredVariant, CoveredFinalize, CoveredMerge DEF Next

LEMMA StepAll ==
  ASSUME Unpackable = {}, IInv, Covered, [Next]_vars PROVE IInv' /\ Covered'
<1>1. CASE Next
  BY <1>1, StepIInv, StepCovered
<1>2. CASE UNCHANGED vars
  <2>1. Covered'
    BY <1>2 DEF vars, Covered, Holds, Touched, Seeded, Awaited, Found, Kept
  <2>. QED  BY <1>2, <2>1, StepIInv
<1>. QED  BY <1>1, <1>2

\* The store at an answer is the least model of all facts handed in, and every
\* round starts with deltas that reach every instance not yet satisfied
\* (execute_recursive_scc); the assumption leaves out the tuple of finding 2.
THEOREM Exactness ==
  ASSUME Unpackable = {}
  PROVE  Spec => [](Exact /\ DeltasSuffice)
<1>1. Init => IInv /\ Covered
  BY InitOK
<1>2. IInv /\ Covered /\ [Next]_vars => IInv' /\ Covered'
  BY StepAll
<1>3. ASSUME IInv, Covered PROVE Exact
  <2> SUFFICES ASSUME outcome = "ok" PROVE store = Model(base)
    BY DEF Exact
  <2>1. Closed(store)
    BY <1>3 DEF Covered, IInv, Running, Closed
  <2>. QED  BY <1>3, <2>1, ModelLeast DEF IInv, Grounded, TypeOK
<1>4. ASSUME IInv, Covered PROVE DeltasSuffice
  BY <1>4 DEF Covered, DeltasSuffice, Touched, Seeded, IInv, Current
<1>. QED  BY <1>1, <1>2, <1>3, <1>4, PTL DEF Spec

-----------------------------------------------------------------------------

LEMMA StepAbstract ==
  ASSUME Unpackable = {}, IInv, Covered, [Next]_vars
  PROVE  [Abstract!Next]_(Abstract!vars)
<1> USE DEF Abstract!Next, Abstract!vars
<1>1. CASE Insert
  BY <1>1, SemiNaiveAssumption DEF Insert, Abstract!Insert
<1>2. CASE Start
  BY <1>2 DEF Start, Abstract!Begin
<1>3. ASSUME NEW p \in Recursive, Install(p) \/ Merge(p) PROVE Abstract!Grow
  <2>1. outcome = "running" /\ UNCHANGED <<base, outcome>>
    BY <1>3 DEF IInv, Running, Install, Merge
  <2>2. CASE Install(p)
    <3>1. Of(seeds, p) \in SUBSET Abstract!Consequences(store)
      BY DEF IInv, Pending, Of, Consequences, Holds, Abstract!Consequences,
             Abstract!Holds
    <3>. QED  BY <2>1, <2>2, <3>1 DEF Install, Abstract!Grow
  <2>3. CASE Merge(p)
    <3>1. Of(delta, p) \ store \in SUBSET Abstract!Consequences(store)
      BY DEF IInv, Pending, Of, Consequences, Holds, Abstract!Consequences,
             Abstract!Holds
    <3>2. store' = store \union (Of(delta, p) \ store)
      BY <2>3 DEF Merge
    <3>. QED  BY <2>1, <3>1, <3>2 DEF Abstract!Grow
  <2>. QED  BY <1>3, <2>2, <2>3
<1>4. CASE Converged
  <2>1. Abstract!Closed(store)
    BY <1>4, CoveredConverged DEF Closed, Holds, Abstract!Closed, Abstract!Holds
  <2>. QED
    BY <1>4, <2>1 DEF Converged, Leave, IInv, Running, Abstract!Answer
<1>5. CASE LimitExceeded \/ Fail
  BY <1>5 DEF LimitExceeded, Fail, Idle, Leave, IInv, Running, Abstract!GiveUp
<1>6. CASE UNCHANGED <<base, store, outcome>>
  BY <1>6
<1>. QED
  BY <1>1, <1>2, <1>3, <1>4, <1>5, <1>6
     DEF Next, Seed, StartRound, Finalize, Factorize, Join, BeginFinalize,
         BeginMerge, vars

\* A run is a run of the abstract component: it adds only what follows at once
\* from the store and answers only when the store is saturated
\* (execute_recursive_scc).
THEOREM Refinement ==
  ASSUME Unpackable = {}
  PROVE  Spec => Implements
<1>1. Init => IInv /\ Covered
  BY InitOK
<1>2. IInv /\ Covered /\ [Next]_vars => IInv' /\ Covered'
  BY StepAll
<1>3. Init => Abstract!Init
  BY DEF Init, Abstract!Init
<1>4. IInv /\ Covered /\ [Next]_vars => [Abstract!Next]_(Abstract!vars)
  BY StepAbstract
<1>. QED  BY <1>1, <1>2, <1>3, <1>4, PTL DEF Spec, Implements, Abstract!Spec

-----------------------------------------------------------------------------
(* Rounds and tuples. *)

RecursiveIn(S) == {f \in S : PredOf[f] \in Recursive}

\* How far the count of the rounds is behind the tuples found: a round that has
\* changed something holds a tuple the store will gain.
Counted ==
  /\ stage \in {"idle", "seed", "install"} => iteration = 0
  /\ iteration <= Cardinality(RecursiveIn(store)) + 1
  /\ stage = "merge" => iteration <= Cardinality(RecursiveIn(store \union delta))
  /\ stage = "finalize" /\ changed => \E p \in Recursive \ todo : Of(delta, p) # {}

LEMMA RecursiveInFinite ==
  ASSUME IsFiniteSet(Facts), NEW S \in SUBSET Facts, NEW T \in SUBSET Facts, S \subseteq T
  PROVE  /\ IsFiniteSet(RecursiveIn(T))
         /\ Cardinality(RecursiveIn(S)) \in Nat /\ Cardinality(RecursiveIn(T)) \in Nat
         /\ Cardinality(RecursiveIn(S)) <= Cardinality(RecursiveIn(T))
<1>1. RecursiveIn(S) \subseteq RecursiveIn(T) /\ RecursiveIn(T) \subseteq Facts
  BY DEF RecursiveIn
<1>2. IsFiniteSet(RecursiveIn(T)) /\ IsFiniteSet(RecursiveIn(S))
  BY <1>1, FS_Subset
<1>3. Cardinality(RecursiveIn(S)) <= Cardinality(RecursiveIn(T))
  BY <1>1, <1>2, FS_Subset
<1>. QED  BY <1>2, <1>3, FS_CardinalityType

LEMMA CountedMerges ==
  ASSUME IsFiniteSet(Facts), TypeOK, Current, Counted, BeginMerge
  PROVE  iteration <= Cardinality(RecursiveIn(store \union delta))
<1> DEFINE S == RecursiveIn(store)
           T == RecursiveIn(store \union delta)
<1>1. PICK p \in Recursive : Of(delta, p) # {}
  BY DEF BeginMerge, Counted
<1>2. PICK f \in delta : PredOf[f] = p
  BY <1>1 DEF Of
<1>3. f \notin store
  BY <1>2 DEF Current, BeginMerge
<1>4. f \in T /\ f \notin S /\ S \subseteq T
  BY <1>2, <1>3 DEF RecursiveIn
<1>5. store \in SUBSET Facts /\ store \union delta \in SUBSET Facts
  BY DEF TypeOK
<1>6. IsFiniteSet(T) /\ Cardinality(S) \in Nat /\ Cardinality(T) \in Nat
  BY <1>5, RecursiveInFinite
<1>7. Cardinality(S) # Cardinality(T) /\ Cardinality(S) <= Cardinality(T)
  BY <1>4, <1>6, FS_Subset
<1>8. iteration \in Nat /\ iteration <= Cardinality(S) + 1
  BY DEF TypeOK, Counted
<1>. QED  BY <1>6, <1>7, <1>8

LEMMA StepCounted ==
  ASSUME IsFiniteSet(Facts), TypeOK, TypeOK', Current, Counted, Next
  PROVE  Counted'
<1>1. /\ store \in SUBSET Facts /\ store' \in SUBSET Facts /\ iteration \in Nat
      /\ store \union delta \in SUBSET Facts
  BY DEF TypeOK
<1>2. store \subseteq store'
  BY StoreGrows
<1>3. /\ Cardinality(RecursiveIn(store)) \in Nat /\ Cardinality(RecursiveIn(store')) \in Nat
      /\ Cardinality(RecursiveIn(store)) <= Cardinality(RecursiveIn(store'))
  BY <1>1, <1>2, RecursiveInFinite
<1>4. iteration <= Cardinality(RecursiveIn(store')) + 1
  BY <1>1, <1>3 DEF Counted
<1>5. CASE Insert \/ Seed \/ \E p \in Recursive : Install(p)
  BY <1>4, <1>5 DEF Insert, Idle, Seed, Install, Counted
<1>6. CASE Start \/ Converged \/ LimitExceeded \/ Fail
  BY <1>3, <1>6 DEF Start, Converged, LimitExceeded, Fail, Leave, Counted
<1>7. ASSUME NEW p \in Recursive, Finalize(p) PROVE Counted'
  <2>1. changed' => \E q \in Recursive \ todo' : Of(delta', q) # {}
    <3>1. CASE NewDelta(p) # {}
      <4>1. NewDelta(p) \subseteq Of(delta', p) /\ p \notin todo'
        BY <1>7 DEF Finalize, NewDelta, Of
      <4>. QED  BY <3>1, <4>1
    <3>2. CASE NewDelta(p) = {} /\ changed
      <4>1. PICK q \in Recursive \ todo : Of(delta, q) # {}
        BY <1>7, <3>2 DEF Finalize, Counted
      <4>2. q # p /\ q \notin todo' /\ Of(delta', q) = Of(delta, q)
        BY <1>7, <3>2, <4>1 DEF Finalize, Of
      <4>. QED  BY <4>1, <4>2
    <3>. QED  BY <1>7, <3>1, <3>2 DEF Finalize, TypeOK
  <2>. QED  BY <1>4, <1>7, <2>1 DEF Finalize, Counted
<1>8. ASSUME NEW p \in Recursive, Merge(p) PROVE Counted'
  <2>1. store' \union delta' = store \union delta
    BY <1>8 DEF Merge, Of
  <2>. QED  BY <1>4, <1>8, <2>1 DEF Merge, Counted
<1>9. CASE StartRound
  <2>1. iteration <= Cardinality(RecursiveIn(store))
    <3>1. CASE stage = "install"
      BY <1>1, <1>3, <3>1 DEF Counted
    <3>2. CASE stage = "merge"
      <4>1. RecursiveIn(store \union delta) = RecursiveIn(store)
        BY <1>9, <3>2 DEF StartRound, Current, RecursiveIn
      <4>. QED  BY <3>2, <4>1 DEF Counted
    <3>. QED  BY <1>9, <3>1, <3>2 DEF StartRound
  <2>. QED  BY <1>1, <1>3, <1>9, <2>1 DEF StartRound, Counted
<1>10. CASE \E v \in Occurrences : Factorize(v) \/ Join(v)
  BY <1>4, <1>10 DEF Factorize, Join, Counted
<1>11. CASE BeginFinalize
  BY <1>4, <1>11 DEF BeginFinalize, Counted
<1>12. CASE BeginMerge
  BY <1>4, <1>12, CountedMerges DEF BeginMerge, Counted
<1>. QED
  BY <1>5, <1>6, <1>7, <1>8, <1>9, <1>10, <1>11, <1>12 DEF Next

\* Every round but the last adds a tuple to a finite set of them, so the limit
\* ends no run that has converged (the loop over 0..max_iterations).
THEOREM RoundsAddTuples ==
  ASSUME IsFiniteSet(Facts)
  PROVE  Spec => []NoIdleRound
<1>1. Init => IInv /\ Counted
  <2> SUFFICES ASSUME Init PROVE Counted
    BY InitOK
  <2>1. RecursiveIn(store) = {} /\ Cardinality({}) = 0
    BY FS_EmptySet DEF Init, RecursiveIn
  <2>. QED  BY <2>1 DEF Init, Counted
<1>2. IInv /\ Counted /\ [Next]_vars => IInv' /\ Counted'
  <2> SUFFICES ASSUME IInv, Counted, [Next]_vars PROVE Counted'
    BY StepIInv
  <2>1. CASE Next
    BY <2>1, StepIInv, StepCounted DEF IInv
  <2>2. CASE UNCHANGED vars
    BY <2>2 DEF vars, Counted, RecursiveIn, Of
  <2>. QED  BY <2>1, <2>2
<1>3. Counted => NoIdleRound
  BY DEF Counted, NoIdleRound, RecursiveIn
<1>. QED  BY <1>1, <1>2, <1>3, PTL DEF Spec

\* What a round will evaluate misses no instance, also when a variant was
\* skipped because its delta was empty.
THEOREM DeltasReach ==
  ASSUME Unpackable = {}
  PROVE  Spec => []DeltasSuffice
<1>. QED  BY Exactness, PTL

=============================================================================
