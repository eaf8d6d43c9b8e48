-------------------------- MODULE WellFounded_proofs --------------------------
(***************************************************************************)
(* Proofs about the well-founded evaluation, for any atoms, worlds, sets   *)
(* of ground rules and limit: first that what is decided is sound, then    *)
(* that the answer is the well-founded model and comes within the limit.   *)
(***************************************************************************)
EXTENDS WellFounded, FiniteSetTheorems, WellFoundedInduction, TLAPS

\* What is suspected is undecided or false, never true; and no atom is both.
Consistent ==
  /\ trueSet \subseteq SccAtoms
  /\ trueSet \intersect falseSet = {}
  /\ stage \in {"unfounded", "derive"} => unfounded \intersect trueSet = {}

IInv == TypeOK /\ Consistent /\ StableAgree /\ ProvenanceSound

-----------------------------------------------------------------------------
(* Stable models.                                                          *)

LEMMA RuleTypes ==
  ASSUME TypeOK, NEW r \in rules
  PROVE  /\ r.head \in Atoms
         /\ r.pos \in SUBSET Atoms
         /\ r.neg \in SUBSET Atoms
         /\ r.prov \in SUBSET Worlds
BY DEF TypeOK, GroundRules

\* A stable model has no atom without a rule.
LEMMA StableHasRules ==
  ASSUME TypeOK, NEW M \in SUBSET Atoms, Stable(rules, M)
  PROVE  M \subseteq SccAtoms
<1> DEFINE N == M \intersect SccAtoms
<1>1. Closed(rules, N, M)
  <2> SUFFICES ASSUME NEW r \in rules, r.pos \subseteq N, r.neg \intersect M = {}
               PROVE  r.head \in N
    BY DEF Closed
  <2>1. r.head \in M
    BY DEF Stable, Closed
  <2>2. r.head \in SccAtoms
    BY DEF SccAtoms
  <2> QED BY <2>1, <2>2
<1>2. N = M
  BY <1>1 DEF Stable
<1> QED BY <1>2

\* An unfounded set, none of whose atoms has a supporting rule, is disjoint
\* from every stable model that agrees with what has been decided.
LEMMA UnfoundedIsFalse ==
  ASSUME TypeOK, Supported = {}, unfounded \intersect trueSet = {},
         NEW M \in SUBSET Atoms, Stable(rules, M),
         trueSet \subseteq M, falseSet \intersect M = {}
  PROVE  unfounded \intersect M = {}
<1> DEFINE N == M \ unfounded
<1>1. Closed(rules, N, M)
  <2> SUFFICES ASSUME NEW r \in rules, r.pos \subseteq N, r.neg \intersect M = {},
                      r.head \in unfounded
               PROVE  FALSE
    BY DEF Closed, Stable
  <2>1. r.pos \intersect falseSet = {}
    OBVIOUS
  <2>2. r.pos \subseteq trueSet \union (SccAtoms \ unfounded)
    BY StableHasRules
  <2>3. r.neg \intersect trueSet = {}
    OBVIOUS
  <2>4. Supports(r)
    BY <2>1, <2>2, <2>3 DEF Supports
  <2> QED BY <2>4 DEF Supported
<1>2. N = M
  BY <1>1 DEF Stable
<1> QED BY <1>2

\* A rule whose body holds has its head in every such stable model.
LEMMA HoldsIsTrue ==
  ASSUME TypeOK, NEW r \in rules, Holds(r),
         NEW M \in SUBSET Atoms, Stable(rules, M),
         trueSet \subseteq M, falseSet \intersect M = {}
  PROVE  r.head \in M
<1>1. r.pos \subseteq M
  BY DEF Holds
<1>2. M \subseteq SccAtoms
  BY StableHasRules
<1>3. r.neg \intersect M = {}
  BY <1>2 DEF Holds
<1> QED BY <1>1, <1>3 DEF Stable, Closed

-----------------------------------------------------------------------------
(* Steps.                                                                  *)

LEMMA InitIInv == ASSUME WellFoundedAssumption, Init PROVE IInv
<1>1. TypeOK
  <2>1. rules \in SUBSET GroundRules
    BY DEF WellFoundedAssumption, Init
  <2>2. prov \in [Atoms -> SUBSET Worlds]
    BY DEF Init
  <2>3. round \in 1..MaxIterations
    BY DEF WellFoundedAssumption, Init
  <2> QED BY <2>1, <2>2, <2>3 DEF Init, TypeOK, Stages
<1>2. Consistent /\ StableAgree /\ ProvenanceSound
  BY DEF Init, Consistent, StableAgree, ProvenanceSound
<1> QED BY <1>1, <1>2 DEF IInv

LEMMA SuspectKeeps == ASSUME IInv, Suspect PROVE IInv'
<1>1. SccAtoms \subseteq Atoms
  BY RuleTypes DEF IInv, SccAtoms
<1>2. TypeOK'
  BY <1>1 DEF IInv, TypeOK, Suspect, Stages
<1>3. Consistent' /\ StableAgree'
  BY DEF IInv, Consistent, StableAgree, Suspect, SccAtoms
<1>4. ProvenanceSound'
  BY DEF IInv, ProvenanceSound, RulesOf, SccAtoms, Suspect
<1> QED BY <1>4, <1>2, <1>3 DEF IInv

LEMMA SweepKeeps == ASSUME IInv, Sweep PROVE IInv'
<1>1. TypeOK'
  BY DEF IInv, TypeOK, Sweep
<1>2. Consistent' /\ StableAgree'
  BY DEF IInv, Consistent, StableAgree, Sweep, SccAtoms
<1>3. ProvenanceSound'
  BY DEF IInv, ProvenanceSound, RulesOf, SccAtoms, Sweep
<1> QED BY <1>3, <1>1, <1>2 DEF IInv

LEMMA MarkFalseKeeps == ASSUME IInv, MarkFalse PROVE IInv'
<1>1. unfounded \intersect trueSet = {}
  BY DEF IInv, Consistent, MarkFalse
<1>2. TypeOK'
  <2>1. falseSet' \in SUBSET Atoms
    BY DEF IInv, TypeOK, MarkFalse
  <2>2. grew' \in BOOLEAN
    BY Zenon DEF MarkFalse
  <2> QED BY <2>1, <2>2 DEF IInv, TypeOK, MarkFalse, Stages
<1>3. Consistent'
  BY <1>1 DEF IInv, Consistent, MarkFalse, SccAtoms
<1>4. StableAgree'
  <2> SUFFICES ASSUME NEW M \in SUBSET Atoms, Stable(rules, M)
               PROVE  trueSet \subseteq M /\ falseSet' \intersect M = {}
    BY DEF StableAgree, MarkFalse
  <2>1. trueSet \subseteq M /\ falseSet \intersect M = {}
    BY DEF IInv, StableAgree
  <2>2. unfounded \intersect M = {}
    BY <1>1, <2>1, UnfoundedIsFalse DEF IInv, MarkFalse
  <2> QED BY <2>1, <2>2 DEF MarkFalse
<1>5. ProvenanceSound'
  <2> SUFFICES ASSUME NEW w \in Worlds, NEW N \in SUBSET Atoms,
                      Closed(RulesOf(w), N, SccAtoms \ falseSet')
               PROVE  {a \in Atoms : w \in prov[a]} \subseteq N
    BY DEF ProvenanceSound, RulesOf, SccAtoms, MarkFalse
  <2>1. Closed(RulesOf(w), N, SccAtoms \ falseSet)
    BY DEF Closed, MarkFalse
  <2> QED BY <2>1 DEF IInv, ProvenanceSound
<1> QED BY <1>2, <1>3, <1>4, <1>5 DEF IInv

LEMMA DeriveKeeps == ASSUME WellFoundedAssumption, IInv, Derive PROVE IInv'
<1>1. NewTrue \subseteq SccAtoms /\ NewTrue \subseteq Atoms /\ NewTrue \intersect falseSet = {}
  BY RuleTypes DEF IInv, NewTrue, Firing, SccAtoms
<1>2. TypeOK'
  <2>1. trueSet' \in SUBSET Atoms
    BY <1>1 DEF IInv, TypeOK, Derive
  <2>2. prov' \in [Atoms -> SUBSET Worlds]
    <3>1. ASSUME NEW a \in Atoms
          PROVE  prov[a] \union UNION {Derivation(r) : r \in {f \in Firing : f.head = a}}
                   \in SUBSET Worlds
      BY RuleTypes DEF IInv, TypeOK, Derivation, Firing
    <3> QED BY <3>1 DEF Derive
  <2>3. round' \in 1..MaxIterations /\ stage' \in Stages
    BY DEF IInv, TypeOK, Derive, Stages, WellFoundedAssumption
  <2> QED BY <2>1, <2>2, <2>3 DEF IInv, TypeOK, Derive
<1>3. Consistent'
  <2>1. stage' \notin {"unfounded", "derive"}
    BY DEF Derive
  <2> QED BY <1>1, <2>1 DEF IInv, Consistent, Derive, SccAtoms
<1>4. StableAgree'
  <2> SUFFICES ASSUME NEW M \in SUBSET Atoms, Stable(rules, M)
               PROVE  trueSet' \subseteq M /\ falseSet \intersect M = {}
    BY DEF StableAgree, Derive
  <2>1. trueSet \subseteq M /\ falseSet \intersect M = {}
    BY DEF IInv, StableAgree
  <2>2. NewTrue \subseteq M
    BY <2>1, HoldsIsTrue DEF IInv, NewTrue, Firing
  <2> QED BY <2>1, <2>2 DEF Derive
<1>5. ProvenanceSound'
  <2> SUFFICES ASSUME NEW w \in Worlds, NEW N \in SUBSET Atoms,
                      Closed(RulesOf(w), N, SccAtoms \ falseSet),
                      NEW a \in Atoms, w \in prov'[a]
               PROVE  a \in N
    BY DEF ProvenanceSound, RulesOf, SccAtoms, Derive
  <2>1. {b \in Atoms : w \in prov[b]} \subseteq N
    BY DEF IInv, ProvenanceSound
  <2>2. CASE w \in prov[a]
    BY <2>1, <2>2
  <2>3. CASE w \notin prov[a]
    <3>1. PICK r \in Firing : r.head = a /\ w \in Derivation(r)
      BY <2>3 DEF Derive
    <3>2. r \in rules /\ Holds(r)
      BY DEF Firing
    <3>3. r.pos \subseteq N
      BY <2>1, <3>1, <3>2, RuleTypes DEF IInv, Derivation
    <3>4. r.neg \intersect (SccAtoms \ falseSet) = {}
      BY <3>2 DEF Holds
    <3>5. r \in RulesOf(w)
      BY <3>1, <3>2 DEF Derivation, RulesOf
    <3> QED BY <3>1, <3>3, <3>4, <3>5 DEF Closed
  <2> QED BY <2>2, <2>3
<1> QED BY <1>2, <1>3, <1>4, <1>5 DEF IInv

LEMMA Inductive == ASSUME WellFoundedAssumption, IInv, [Next]_vars PROVE IInv'
<1>1. CASE UNCHANGED vars
  BY <1>1 DEF vars, IInv, TypeOK, Consistent, StableAgree, ProvenanceSound, RulesOf, SccAtoms
<1> QED BY <1>1, SuspectKeeps, SweepKeeps, MarkFalseKeeps, DeriveKeeps DEF Next

-----------------------------------------------------------------------------

\* Types are kept, no atom is true and false, all stable models agree with what
\* is decided, and every provenance is sound (evaluate_wfs_rules).
THEOREM Invariant == Spec => []IInv
<1>1. Init => IInv
  BY InitIInv, WellFoundedAssumption
<1>2. IInv /\ [Next]_vars => IInv'
  BY Inductive, WellFoundedAssumption
<1> QED BY <1>1, <1>2, PTL DEF Spec

\* Types are kept; in particular the iteration stays within its limit.
THEOREM TypeCorrect == Spec => []TypeOK
BY Invariant, PTL DEF IInv

\* No atom is ever both true and false (WfsResult).
THEOREM NeverBoth == Spec => [](trueSet \intersect falseSet = {})
<1>1. IInv => trueSet \intersect falseSet = {}
  BY DEF IInv, Consistent
<1> QED BY <1>1, Invariant, PTL

\* Whatever compute_unfounded_set and derive_consequences decide, in any order
\* of the rules and however far the evaluation gets, holds in every stable model.
THEOREM DecidedIsStable == Spec => []StableAgree
BY Invariant, PTL DEF IInv

\* A world in the provenance of an atom derives it by its own rules, negation
\* read as decided (derive_consequences).
THEOREM ProvenanceIsSound == Spec => []ProvenanceSound
BY Invariant, PTL DEF IInv

-----------------------------------------------------------------------------
(* Chains of sets that grow out of the empty one.                          *)

\* What holds of zero, and of the next number with every number, holds of all:
\* a least counterexample would be neither.
LEMMA Upwards ==
  ASSUME NEW N \in Nat, NEW T, 0 \in T, \A i \in 0..N : i \in T /\ i < N => i + 1 \in T
  PROVE  \A i \in 0..N : i \in T
<1> DEFINE Missing == {i \in 0..N : i \notin T}
           R == OpToRel(<, Nat)
<1> SUFFICES ASSUME Missing # {} PROVE FALSE
  OBVIOUS
<1>1. IsWellFoundedOn(R, Nat)
  BY NatLessThanWellFounded, Zenon
<1>2. R = {ss \in Nat \X Nat : ss[1] < ss[2]}
  BY DEF OpToRel
<1> HIDE DEF R
<1>3. PICK n \in Missing : \A m \in Missing : <<m, n>> \notin R
  <2>1. Missing \in SUBSET Nat
    OBVIOUS
  <2> QED BY <1>1, <2>1, WFMin
<1>4. n \in Nat /\ n # 0 /\ n - 1 \in 0..N /\ n - 1 < n /\ n - 1 < N
  OBVIOUS
<1>5. <<n - 1, n>> \in R
  BY <1>2, <1>4
<1>6. n - 1 \in T
  BY <1>3, <1>4, <1>5
<1> QED BY <1>4, <1>6

\* c is the chain of n steps of G.
Chain(c, n, A, G) ==
  /\ c \in [0..n -> SUBSET A] /\ c[0] = {}
  /\ \A i \in 1..n : c[i] = G[c[i - 1]]

LEMMA ChainGoesOn ==
  ASSUME NEW n \in Nat, NEW A, NEW G \in [SUBSET A -> SUBSET A], NEW c, Chain(c, n, A, G)
  PROVE  \E d : Chain(d, n + 1, A, G)
<1> DEFINE d == [i \in 0..(n + 1) |-> IF i = n + 1 THEN G[c[n]] ELSE c[i]]
<1>1. /\ c \in [0..n -> SUBSET A] /\ c[0] = {}
      /\ \A i \in 1..n : c[i] = G[c[i - 1]]
  BY DEF Chain
<1>2. c[n] \in SUBSET A /\ G[c[n]] \in SUBSET A
  BY <1>1
<1>3. d \in [0..(n + 1) -> SUBSET A] /\ d[0] = {}
  BY <1>1, <1>2
<1>4. ASSUME NEW i \in 1..(n + 1) PROVE d[i] = G[d[i - 1]]
  <2>1. CASE i = n + 1
    <3>1. i - 1 = n /\ d[n] = c[n] /\ d[i] = G[c[n]]
      BY <2>1
    <3> QED BY <3>1
  <2>2. CASE i # n + 1
    <3>1. i \in 1..n /\ d[i] = c[i] /\ d[i - 1] = c[i - 1]
      BY <2>2
    <3> QED BY <1>1, <3>1
  <2> QED BY <2>1, <2>2
<1> HIDE DEF d
<1> QED BY <1>3, <1>4 DEF Chain

LEMMA ChainExists ==
  ASSUME NEW N \in Nat, NEW A, NEW G \in [SUBSET A -> SUBSET A]
  PROVE  \E c : Chain(c, N, A, G)
<1> DEFINE T == {n \in 0..N : \E c : Chain(c, n, A, G)}
<1>1. 0 \in T
  <2>1. Chain([i \in 0..0 |-> {}], 0, A, G)
    BY DEF Chain
  <2> QED BY <2>1
<1>2. ASSUME NEW n \in 0..N, n \in T, n < N PROVE n + 1 \in T
  <2>1. \E d : Chain(d, n + 1, A, G)
    BY <1>2, ChainGoesOn
  <2> QED BY <1>2, <2>1
<1> HIDE DEF T
<1>3. \A n \in 0..N : n \in T
  BY <1>1, <1>2, Upwards
<1> QED BY <1>3 DEF T

\* A function that takes the steps of G wherever it is a set is that chain.
LEMMA StepsAreChain ==
  ASSUME NEW N \in Nat, NEW A, NEW G \in [SUBSET A -> SUBSET A], NEW u,
         u = [i \in 0..N |-> u[i]], u[0] = {},
         \A i \in 1..N : u[i - 1] \in SUBSET A => u[i] = G[u[i - 1]]
  PROVE  Chain(u, N, A, G)
<1> DEFINE T == {i \in 0..N : u[i] \in SUBSET A}
<1>1. 0 \in T
  OBVIOUS
<1>2. ASSUME NEW i \in 0..N, i \in T, i < N PROVE i + 1 \in T
  <2>1. i + 1 \in 1..N /\ (i + 1) - 1 = i
    BY <1>2
  <2>2. u[i] \in SUBSET A
    BY <1>2
  <2>3. u[i + 1] = G[u[i]]
    BY <2>1, <2>2
  <2>4. u[i + 1] \in SUBSET A
    BY <2>2, <2>3
  <2> QED BY <2>1, <2>4
<1> HIDE DEF T
<1>3. \A i \in 0..N : i \in T
  BY <1>1, <1>2, Upwards
<1>4. \A i \in 0..N : u[i] \in SUBSET A
  BY <1>3 DEF T
<1>5. u \in [0..N -> SUBSET A]
  BY <1>4
<1>6. \A i \in 1..N : u[i] = G[u[i - 1]]
  <2>1. \A i \in 1..N : i - 1 \in 0..N
    OBVIOUS
  <2> QED BY <1>4, <2>1
<1> QED BY <1>5, <1>6 DEF Chain

\* A monotone function on the subsets of A.
Monotone(G, A) == \A S, T \in SUBSET A : S \subseteq T => G[S] \subseteq G[T]

\* A chain as long as its elements are many ends in the least set that its
\* function does not leave: each step before that adds an element.
LEMMA ChainEnds ==
  ASSUME NEW A, IsFiniteSet(A), NEW G \in [SUBSET A -> SUBSET A], Monotone(G, A),
         NEW c, Chain(c, Cardinality(A), A, G)
  PROVE  LET L == c[Cardinality(A)]
         IN  L \in SUBSET A /\ G[L] = L /\ \A X \in SUBSET A : G[X] \subseteq X => L \subseteq X
<1> DEFINE N == Cardinality(A)
<1>1. N \in Nat
  BY FS_CardinalityType
<1>2. /\ c \in [0..N -> SUBSET A] /\ c[0] = {}
      /\ \A i \in 0..N : i < N => i + 1 \in 0..N /\ c[i + 1] = G[c[i]]
  <2>1. \A i \in 0..N : i < N => i + 1 \in 1..N /\ (i + 1) - 1 = i
    BY <1>1
  <2> QED BY <2>1 DEF Chain
<1> HIDE DEF N
<1>3. \A i \in 0..N : c[i] \subseteq G[c[i]]
  <2> DEFINE T == {i \in 0..N : c[i] \subseteq G[c[i]]}
  <2>1. 0 \in T
    BY <1>1, <1>2
  <2>2. ASSUME NEW i \in 0..N, i \in T, i < N PROVE i + 1 \in T
    <3>1. c[i + 1] = G[c[i]] /\ i + 1 \in 0..N
      BY <1>2, <2>2
    <3>2. c[i] \in SUBSET A /\ G[c[i]] \in SUBSET A
      BY <1>2
    <3>3. G[c[i]] \subseteq G[G[c[i]]]
      BY <2>2, <3>2 DEF Monotone
    <3> QED BY <3>1, <3>3
  <2> HIDE DEF T
  <2>3. \A i \in 0..N : i \in T
    BY <1>1, <2>1, <2>2, Upwards
  <2> QED BY <2>3 DEF T
<1>4. ASSUME NEW X \in SUBSET A, G[X] \subseteq X PROVE c[N] \subseteq X
  <2> DEFINE T == {i \in 0..N : c[i] \subseteq X}
  <2>1. 0 \in T
    BY <1>1, <1>2
  <2>2. ASSUME NEW i \in 0..N, i \in T, i < N PROVE i + 1 \in T
    <3>1. c[i + 1] = G[c[i]] /\ i + 1 \in 0..N /\ c[i] \in SUBSET A
      BY <1>2, <2>2
    <3>2. G[c[i]] \subseteq G[X]
      BY <2>2, <3>1 DEF Monotone
    <3> QED BY <1>4, <3>1, <3>2
  <2> HIDE DEF T
  <2>3. \A i \in 0..N : i \in T
    BY <1>1, <2>1, <2>2, Upwards
  <2> QED BY <1>1, <2>3 DEF T
<1>5. Cardinality(c[N]) >= N \/ G[c[N]] = c[N]
  <2> DEFINE T == {i \in 0..N : Cardinality(c[i]) >= i \/ G[c[i]] = c[i]}
  <2>1. 0 \in T
    <3>1. Cardinality(c[0]) >= 0
      BY <1>2, FS_EmptySet
    <3> QED BY <1>1, <3>1
  <2>2. ASSUME NEW i \in 0..N, i \in T, i < N PROVE i + 1 \in T
    <3>1. c[i + 1] = G[c[i]] /\ i + 1 \in 0..N /\ c[i] \in SUBSET A /\ c[i + 1] \in SUBSET A
      BY <1>2, <2>2
    <3>2. CASE G[c[i]] = c[i]
      BY <3>1, <3>2
    <3>3. CASE G[c[i]] # c[i]
      <4>1. IsFiniteSet(c[i + 1])
        BY <3>1, FS_Subset
      <4>2. c[i] \in SUBSET c[i + 1] /\ c[i + 1] # c[i]
        BY <1>3, <3>1, <3>3
      <4>3. /\ IsFiniteSet(c[i])
            /\ Cardinality(c[i]) <= Cardinality(c[i + 1])
            /\ Cardinality(c[i + 1]) # Cardinality(c[i])
        BY <4>1, <4>2, FS_Subset
      <4>4. Cardinality(c[i]) \in Nat /\ Cardinality(c[i + 1]) \in Nat
        BY <4>1, <4>3, FS_CardinalityType
      <4>5. Cardinality(c[i]) >= i
        BY <2>2, <3>3
      <4> QED BY <3>1, <4>3, <4>4, <4>5
    <3> QED BY <3>2, <3>3
  <2> HIDE DEF T
  <2>3. \A i \in 0..N : i \in T
    BY <1>1, <2>1, <2>2, Upwards
  <2> QED BY <1>1, <2>3 DEF T
<1>6. c[N] \in SUBSET A /\ G[c[N]] \in SUBSET A /\ c[N] \subseteq G[c[N]]
  BY <1>1, <1>2, <1>3
<1>7. G[c[N]] = c[N]
  <2>1. SUFFICES ASSUME Cardinality(c[N]) >= N PROVE G[c[N]] = c[N]
    BY <1>5
  <2>2. Cardinality(c[N]) \in Nat /\ Cardinality(c[N]) <= N /\ (Cardinality(c[N]) = N => c[N] = A)
    BY <1>6, FS_Subset, FS_CardinalityType DEF N
  <2>3. c[N] = A
    BY <1>1, <2>1, <2>2
  <2> QED BY <1>6, <2>3
<1> QED BY <1>4, <1>6, <1>7 DEF N

-----------------------------------------------------------------------------
(* The well-founded model.                                                 *)

\* Reading the negated atoms in M, the rules derive the least set they close.
THEOREM ReductIsLeast ==
  ASSUME NEW P \in SUBSET GroundRules, NEW M
  PROVE  /\ Reduct(P, M) \in SUBSET Atoms
         /\ Closed(P, Reduct(P, M), M)
         /\ \A N \in SUBSET Atoms : Closed(P, N, M) => Reduct(P, M) \subseteq N
<1> DEFINE n == Cardinality(Atoms)
           Heads(S) == {r.head : r \in {s \in P : s.pos \subseteq S /\ s.neg \intersect M = {}}}
           Step(g) == [i \in 0..n |-> IF i = 0 THEN {} ELSE Heads(g[i - 1])]
           G == [S \in SUBSET Atoms |-> Heads(S)]
           d == CHOOSE g : g = Step(g)
<1>1. IsFiniteSet(Atoms) /\ n \in Nat
  BY WellFoundedAssumption, FS_CardinalityType
<1>2. Reduct(P, M) = d[n]
  BY DEF Reduct
<1>3. \A S : Heads(S) \subseteq Atoms
  BY DEF GroundRules
<1>4. \A S, N : S \subseteq N => Heads(S) \subseteq Heads(N)
  OBVIOUS
<1>5. \A N : Closed(P, N, M) <=> Heads(N) \subseteq N
  BY DEF Closed
<1> HIDE DEF Heads
<1>6. /\ G \in [SUBSET Atoms -> SUBSET Atoms] /\ Monotone(G, Atoms)
      /\ \A S \in SUBSET Atoms : G[S] = Heads(S)
  BY <1>3, <1>4 DEF Monotone
<1> HIDE DEF G, n
<1>7. PICK c : Chain(c, n, Atoms, G)
  BY <1>1, <1>6, ChainExists
<1>8. c = Step(c)
  <2>1. \A i \in 1..n : i - 1 \in 0..n
    BY <1>1
  <2>2. \A i \in 0..n : c[i] = IF i = 0 THEN {} ELSE Heads(c[i - 1])
    BY <1>1, <1>6, <1>7, <2>1 DEF Chain
  <2>3. c = [i \in 0..n |-> c[i]]
    BY <1>7 DEF Chain
  <2> QED BY <2>2, <2>3
<1> HIDE DEF Step
<1>9. d = Step(d)
  BY <1>8
<1> HIDE DEF d
<1>10. d = [i \in 0..n |-> IF i = 0 THEN {} ELSE Heads(d[i - 1])]
  BY <1>9 DEF Step
<1>11. Chain(d, n, Atoms, G)
  <2>1. \A i \in 0..n : d[i] = IF i = 0 THEN {} ELSE Heads(d[i - 1])
    BY <1>10
  <2>2. d = [i \in 0..n |-> d[i]]
    BY <1>10
  <2>3. d[0] = {} /\ \A i \in 1..n : d[i] = Heads(d[i - 1])
    BY <1>1, <2>1
  <2>4. \A i \in 1..n : d[i - 1] \in SUBSET Atoms => d[i] = G[d[i - 1]]
    BY <1>6, <2>3
  <2> QED BY <1>1, <1>6, <2>2, <2>3, <2>4, StepsAreChain
<1>12. /\ d[n] \in SUBSET Atoms /\ G[d[n]] = d[n]
       /\ \A X \in SUBSET Atoms : G[X] \subseteq X => d[n] \subseteq X
  BY <1>1, <1>6, <1>11, ChainEnds DEF n
<1> QED BY <1>2, <1>5, <1>6, <1>12

\* The less is read as true in negations, the more is derived.
LEMMA ReductAntitone ==
  ASSUME NEW P \in SUBSET GroundRules, NEW M, NEW K, K \subseteq M
  PROVE  Reduct(P, M) \subseteq Reduct(P, K)
<1>1. Closed(P, Reduct(P, K), M)
  <2>1. Closed(P, Reduct(P, K), K)
    BY ReductIsLeast
  <2> QED BY <2>1 DEF Closed
<1> QED BY <1>1, ReductIsLeast

\* The true atoms of the well-founded model are the least set that is derived
\* when negation is read in what is derived from it.
THEOREM TrueIsLeast ==
  ASSUME NEW P \in SUBSET GroundRules
  PROVE  /\ TrueIn(P) \in SUBSET Atoms
         /\ Reduct(P, Reduct(P, TrueIn(P))) = TrueIn(P)
         /\ \A S \in SUBSET Atoms : Reduct(P, Reduct(P, S)) \subseteq S => TrueIn(P) \subseteq S
<1> DEFINE n == Cardinality(Atoms)
           Twice(S) == Reduct(P, Reduct(P, S))
           Step(g) == [i \in 0..n |-> IF i = 0 THEN {} ELSE Twice(g[i - 1])]
           G == [S \in SUBSET Atoms |-> Twice(S)]
           d == CHOOSE g : g = Step(g)
<1>1. IsFiniteSet(Atoms) /\ n \in Nat
  BY WellFoundedAssumption, FS_CardinalityType
<1>2. TrueIn(P) = d[n]
  BY DEF TrueIn
<1>3. \A S : Twice(S) \in SUBSET Atoms
  BY ReductIsLeast
<1>4. \A S, T : S \subseteq T => Twice(S) \subseteq Twice(T)
  BY ReductAntitone
<1> HIDE DEF Twice
<1>6. /\ G \in [SUBSET Atoms -> SUBSET Atoms] /\ Monotone(G, Atoms)
      /\ \A S \in SUBSET Atoms : G[S] = Twice(S)
  BY <1>3, <1>4 DEF Monotone
<1> HIDE DEF G, n
<1>7. PICK c : Chain(c, n, Atoms, G)
  BY <1>1, <1>6, ChainExists
<1>8. c = Step(c)
  <2>1. \A i \in 1..n : i - 1 \in 0..n
    BY <1>1
  <2>2. \A i \in 0..n : c[i] = IF i = 0 THEN {} ELSE Twice(c[i - 1])
    BY <1>1, <1>6, <1>7, <2>1 DEF Chain
  <2>3. c = [i \in 0..n |-> c[i]]
    BY <1>7 DEF Chain
  <2> QED BY <2>2, <2>3
<1> HIDE DEF Step
<1>9. d = Step(d)
  BY <1>8
<1> HIDE DEF d
<1>10. d = [i \in 0..n |-> IF i = 0 THEN {} ELSE Twice(d[i - 1])]
  BY <1>9 DEF Step
<1>11. Chain(d, n, Atoms, G)
  <2>1. \A i \in 0..n : d[i] = IF i = 0 THEN {} ELSE Twice(d[i - 1])
    BY <1>10
  <2>2. d = [i \in 0..n |-> d[i]]
    BY <1>10
  <2>3. d[0] = {} /\ \A i \in 1..n : d[i] = Twice(d[i - 1])
    BY <1>1, <2>1
  <2>4. \A i \in 1..n : d[i - 1] \in SUBSET Atoms => d[i] = G[d[i - 1]]
    BY <1>6, <2>3
  <2> QED BY <1>1, <1>6, <2>2, <2>3, <2>4, StepsAreChain
<1>12. /\ d[n] \in SUBSET Atoms /\ G[d[n]] = d[n]
       /\ \A X \in SUBSET Atoms : G[X] \subseteq X => d[n] \subseteq X
  BY <1>1, <1>6, <1>11, ChainEnds DEF n
<1> QED BY <1>2, <1>6, <1>12 DEF Twice

\* Nothing true is false.
LEMMA TrueIsPossible ==
  ASSUME NEW P \in SUBSET GroundRules
  PROVE  TrueIn(P) \subseteq Reduct(P, TrueIn(P))
<1> DEFINE U == Reduct(P, TrueIn(P))
<1>1. Reduct(P, U) = TrueIn(P)
  BY TrueIsLeast
<1>2. U \in SUBSET Atoms
  BY ReductIsLeast
<1>3. Reduct(P, Reduct(P, U)) \subseteq U
  BY <1>1
<1> HIDE DEF U
<1>4. TrueIn(P) \subseteq U
  BY <1>2, <1>3, TrueIsLeast
<1> QED BY <1>4 DEF U

-----------------------------------------------------------------------------
(* The evaluation and the model.                                           *)

\* The atoms of the well-founded model that are not false.
Possible == Reduct(rules, TrueIn(rules))

\* What is decided agrees with the model; and when the unfounded set is found,
\* what is not in it would be derived if all that is not true yet were false.
Modelled ==
  /\ falseSet \subseteq SccAtoms /\ unfounded \subseteq SccAtoms
  /\ trueSet \subseteq TrueIn(rules)
  /\ falseSet \intersect Possible = {}
  /\ stage \in {"unfounded", "derive"} => SccAtoms \ unfounded \subseteq Reduct(rules, trueSet)
  /\ stage = "derive" => unfounded \subseteq falseSet

\* Every round but the last has decided an atom.
Decided == trueSet \union falseSet
Progress ==
  /\ stage \in {"round", "unfounded", "derive"} => Cardinality(Decided) >= round - 1
  /\ stage = "derive" /\ grew => Cardinality(Decided) >= round
  /\ stage = "failed" => Cardinality(Decided) >= MaxIterations

-----------------------------------------------------------------------------
(* Every step keeps to the model.                                          *)

LEMMA ModelFacts ==
  ASSUME TypeOK
  PROVE  /\ TrueIn(rules) \in SUBSET Atoms /\ Possible \in SUBSET Atoms
         /\ TrueIn(rules) \subseteq Possible /\ Possible \subseteq SccAtoms
         /\ Closed(rules, TrueIn(rules), Possible) /\ Closed(rules, Possible, TrueIn(rules))
<1>1. rules \in SUBSET GroundRules
  BY DEF TypeOK
<1>2. /\ TrueIn(rules) \in SUBSET Atoms /\ Possible \in SUBSET Atoms
      /\ Closed(rules, Possible, TrueIn(rules))
      /\ TrueIn(rules) \subseteq Possible
  BY <1>1, TrueIsLeast, ReductIsLeast, TrueIsPossible DEF Possible
<1>3. Closed(rules, TrueIn(rules), Possible)
  <2>1. Reduct(rules, Possible) = TrueIn(rules)
    BY <1>1, TrueIsLeast DEF Possible
  <2>2. Closed(rules, Reduct(rules, Possible), Possible)
    BY <1>1, ReductIsLeast
  <2> QED BY <2>1, <2>2
<1>4. Possible \subseteq SccAtoms
  <2>1. Closed(rules, SccAtoms, TrueIn(rules)) /\ SccAtoms \in SUBSET Atoms
    BY RuleTypes DEF Closed, SccAtoms
  <2> QED BY <1>1, <2>1, ReductIsLeast DEF Possible
<1> QED BY <1>2, <1>3, <1>4

\* What is known to be true follows when everything else is read as false.
LEMMA TrueFollows ==
  ASSUME TypeOK, trueSet \subseteq TrueIn(rules)
  PROVE  /\ trueSet \subseteq Reduct(rules, trueSet)
         /\ Possible \subseteq Reduct(rules, trueSet)
<1>1. rules \in SUBSET GroundRules
  BY DEF TypeOK
<1>2. Possible \subseteq Reduct(rules, trueSet)
  BY <1>1, ReductAntitone DEF Possible
<1> QED BY <1>2, ModelFacts

\* No atom of an unfounded set is possible.
LEMMA UnfoundedIsImpossible ==
  ASSUME TypeOK, Modelled, Supported = {}
  PROVE  unfounded \intersect Possible = {}
<1> DEFINE N == Possible \ unfounded
<1>1. Closed(rules, N, TrueIn(rules))
  <2> SUFFICES ASSUME NEW r \in rules, r.pos \subseteq N, r.neg \intersect TrueIn(rules) = {},
                      r.head \in unfounded
               PROVE  FALSE
    BY ModelFacts DEF Closed
  <2>1. /\ r.pos \intersect falseSet = {}
        /\ r.pos \subseteq trueSet \union (SccAtoms \ unfounded)
        /\ r.neg \intersect trueSet = {}
    BY ModelFacts DEF Modelled
  <2>2. Supports(r)
    BY <2>1 DEF Supports
  <2> QED BY <2>2 DEF Supported
<1>2. N \in SUBSET Atoms /\ rules \in SUBSET GroundRules
  BY ModelFacts DEF TypeOK
<1> HIDE DEF N
<1>3. Possible \subseteq N
  BY <1>1, <1>2, ReductIsLeast DEF Possible
<1> QED BY <1>3 DEF N

\* A rule whose body holds has its head among the true atoms.
LEMMA HoldsIsInModel ==
  ASSUME TypeOK, Modelled, NEW r \in rules, Holds(r)
  PROVE  r.head \in TrueIn(rules)
<1>1. r.pos \subseteq TrueIn(rules)
  BY DEF Holds, Modelled
<1>2. r.neg \intersect Possible = {}
  BY ModelFacts DEF Holds, Modelled
<1> QED BY <1>1, <1>2, ModelFacts DEF Closed

\* When a round derives nothing, what is true is what follows with the negation
\* of all that would be derived from it, and so all that is true in the model.
LEMMA NothingLeft ==
  ASSUME TypeOK, Modelled, stage = "derive", NewTrue = {}, trueSet \intersect falseSet = {}
  PROVE  trueSet = TrueIn(rules) /\ falseSet = FalseIn(rules) \intersect SccAtoms
<1> DEFINE V == Reduct(rules, trueSet)
<1>1. /\ rules \in SUBSET GroundRules /\ trueSet \in SUBSET Atoms /\ V \in SUBSET Atoms
      /\ trueSet \subseteq V /\ SccAtoms \ V \subseteq falseSet
  BY TrueFollows, ReductIsLeast DEF TypeOK, Modelled
<1>2. ASSUME NEW r \in rules, r.pos \subseteq trueSet, r.neg \intersect V = {}
      PROVE  r.head \in trueSet
  <2>1. r.neg \subseteq falseSet \union (Atoms \ SccAtoms)
    BY <1>1, <1>2, RuleTypes
  <2>2. Holds(r)
    BY <1>1, <1>2, <2>1 DEF Holds
  <2>3. r.head \in trueSet \union falseSet
    BY <2>2 DEF NewTrue, Firing
  <2>4. r.head \notin falseSet
    BY <2>2, HoldsIsInModel, ModelFacts DEF Modelled
  <2> QED BY <2>3, <2>4
<1> HIDE DEF V
<1>3. Closed(rules, trueSet, V)
  BY <1>2 DEF Closed
<1>4. Reduct(rules, V) \subseteq trueSet
  BY <1>1, <1>3, ReductIsLeast
<1>5. TrueIn(rules) \subseteq trueSet
  BY <1>1, <1>4, TrueIsLeast DEF V
<1>6. trueSet = TrueIn(rules)
  BY <1>5 DEF Modelled
<1>7. FalseIn(rules) = Atoms \ V /\ V = Possible
  BY <1>6 DEF FalseIn, V, Possible
<1>8. SccAtoms \subseteq Atoms
  BY RuleTypes DEF SccAtoms
<1>9. falseSet \subseteq SccAtoms /\ falseSet \intersect V = {}
  BY <1>7 DEF Modelled
<1> QED BY <1>1, <1>6, <1>7, <1>8, <1>9

\* The rules do not change.
LEMMA ModelStays ==
  ASSUME rules' = rules
  PROVE  /\ SccAtoms' = SccAtoms /\ Possible' = Possible
         /\ TrueIn(rules') = TrueIn(rules) /\ FalseIn(rules') = FalseIn(rules)
         /\ trueSet' = trueSet => Reduct(rules', trueSet') = Reduct(rules, trueSet)
BY DEF SccAtoms, Possible

LEMMA SuspectModelled == ASSUME IInv, Modelled, ModelExact, Suspect PROVE Modelled' /\ ModelExact'
<1>1. /\ stage' = "unfounded" /\ unfounded' = SccAtoms \ trueSet
      /\ trueSet' = trueSet /\ falseSet' = falseSet /\ rules' = rules
  BY DEF Suspect
<1>2. trueSet \subseteq Reduct(rules, trueSet)
  BY TrueFollows DEF IInv, Modelled
<1> HIDE DEF Possible
<1> QED BY <1>1, <1>2, ModelStays DEF Modelled, ModelExact

LEMMA SweepModelled == ASSUME IInv, Modelled, ModelExact, Sweep PROVE Modelled' /\ ModelExact'
<1>1. /\ stage = "unfounded" /\ stage' = "unfounded" /\ unfounded' = unfounded \ Supported
      /\ trueSet' = trueSet /\ falseSet' = falseSet /\ rules' = rules
  BY DEF Sweep
<1> DEFINE V == Reduct(rules, trueSet)
<1>2. /\ trueSet \subseteq V /\ Closed(rules, V, trueSet) /\ SccAtoms \ unfounded \subseteq V
  BY <1>1, TrueFollows, ReductIsLeast DEF IInv, TypeOK, Modelled
<1> HIDE DEF V
<1>3. Supported \subseteq V
  <2> SUFFICES ASSUME NEW r \in rules, Supports(r) PROVE r.head \in V
    BY DEF Supported
  <2>1. r.pos \subseteq V /\ r.neg \intersect trueSet = {}
    BY <1>2 DEF Supports
  <2> QED BY <1>2, <2>1 DEF Closed
<1>4. SccAtoms \ unfounded' \subseteq V
  BY <1>1, <1>2, <1>3
<1>5. Reduct(rules', trueSet') = V
  BY <1>1 DEF V
<1> HIDE DEF Possible
<1> QED BY <1>1, <1>4, <1>5, ModelStays DEF Modelled, ModelExact

LEMMA MarkFalseModelled ==
  ASSUME IInv, Modelled, ModelExact, MarkFalse PROVE Modelled' /\ ModelExact'
<1>1. /\ stage = "unfounded" /\ stage' = "derive" /\ unfounded' = unfounded /\ Supported = {}
      /\ trueSet' = trueSet /\ falseSet' = falseSet \union unfounded /\ rules' = rules
  BY DEF MarkFalse
<1>2. unfounded \intersect Possible = {}
  BY <1>1, UnfoundedIsImpossible DEF IInv
<1> HIDE DEF Possible
<1> QED BY <1>1, <1>2, ModelStays DEF Modelled, ModelExact

LEMMA DeriveModelled == ASSUME IInv, Modelled, ModelExact, Derive PROVE Modelled' /\ ModelExact'
<1>1. /\ stage = "derive" /\ stage' \in {"round", "done", "failed"}
      /\ stage' = "done" => NewTrue = {}
      /\ trueSet' = trueSet \union NewTrue /\ falseSet' = falseSet
      /\ rules' = rules /\ unfounded' = unfounded
  BY DEF Derive
<1>2. NewTrue \subseteq TrueIn(rules)
  BY HoldsIsInModel DEF IInv, NewTrue, Firing
<1>3. Modelled'
  BY <1>1, <1>2, ModelStays DEF Modelled
<1>4. ModelExact'
  <2> SUFFICES ASSUME stage' = "done" PROVE ModelExact'
    BY DEF ModelExact
  <2>1. trueSet' = TrueIn(rules) /\ falseSet' = FalseIn(rules) \intersect SccAtoms
    BY <1>1, NothingLeft DEF IInv, Consistent
  <2> QED BY <1>1, <2>1, ModelStays DEF ModelExact
<1> QED BY <1>3, <1>4

LEMMA ModelledKeeps ==
  ASSUME IInv, Modelled, ModelExact, [Next]_vars PROVE Modelled' /\ ModelExact'
<1>1. CASE UNCHANGED vars
  BY <1>1, ModelStays DEF vars, Modelled, ModelExact
<1> QED BY <1>1, SuspectModelled, SweepModelled, MarkFalseModelled, DeriveModelled DEF Next

-----------------------------------------------------------------------------
(* Every round but the last decides an atom.                               *)

LEMMA DecidedCount ==
  ASSUME TypeOK, trueSet \subseteq SccAtoms, falseSet \subseteq SccAtoms
  PROVE  /\ IsFiniteSet(SccAtoms) /\ IsFiniteSet(Decided)
         /\ Cardinality(Decided) \in Nat /\ Cardinality(SccAtoms) \in Nat
         /\ Cardinality(Decided) <= Cardinality(SccAtoms)
<1>1. SccAtoms \in SUBSET Atoms /\ Decided \in SUBSET SccAtoms
  BY RuleTypes DEF SccAtoms, Decided
<1> HIDE DEF Decided
<1>2. IsFiniteSet(SccAtoms)
  BY <1>1, WellFoundedAssumption, FS_Subset
<1> QED BY <1>1, <1>2, FS_Subset, FS_CardinalityType

LEMMA MoreDecided ==
  ASSUME NEW S, NEW D, IsFiniteSet(D), S \subseteq D, S # D
  PROVE  Cardinality(S) \in Nat /\ Cardinality(D) \in Nat /\ Cardinality(D) >= Cardinality(S) + 1
<1>1. IsFiniteSet(S) /\ Cardinality(S) <= Cardinality(D) /\ Cardinality(D) # Cardinality(S)
  BY FS_Subset, S \in SUBSET D
<1>2. Cardinality(S) \in Nat /\ Cardinality(D) \in Nat
  BY <1>1, FS_CardinalityType
<1> QED BY <1>1, <1>2

LEMMA ProgressKeeps ==
  ASSUME IInv, IInv', Modelled, Modelled', Progress, [Next]_vars
  PROVE  Progress'
<1>1. /\ IsFiniteSet(Decided') /\ Cardinality(Decided') \in Nat
      /\ Cardinality(Decided) \in Nat
  <2>1. IsFiniteSet(Decided) /\ Cardinality(Decided) \in Nat
    BY DecidedCount DEF IInv, Consistent, Modelled
  <2>2. IsFiniteSet(Decided') /\ Cardinality(Decided') \in Nat
    <3>1. Decided' \in SUBSET Atoms
      BY DEF IInv, TypeOK, Decided
    <3> HIDE DEF Decided
    <3> QED BY <3>1, WellFoundedAssumption, FS_Subset, FS_CardinalityType
  <2> QED BY <2>1, <2>2
<1>2. round \in Nat /\ round \in 1..MaxIterations /\ MaxIterations \in Nat
  BY WellFoundedAssumption DEF IInv, TypeOK
<1>3. CASE Suspect \/ Sweep
  <2>1. stage \in {"round", "unfounded"} /\ stage' = "unfounded" /\ round' = round
        /\ Decided' = Decided
    BY <1>3 DEF Suspect, Sweep, Decided
  <2> QED BY <2>1 DEF Progress
<1>4. CASE MarkFalse
  <2>1. /\ stage = "unfounded" /\ stage' = "derive" /\ round' = round
        /\ Decided' = Decided \union unfounded
        /\ grew' => ~ (unfounded \subseteq falseSet)
    BY <1>4 DEF MarkFalse, Decided
  <2>2. unfounded \intersect trueSet = {}
    BY <2>1 DEF IInv, Consistent
  <2>3. grew' => Decided' # Decided
    BY <2>1, <2>2 DEF Decided
  <2>4. Cardinality(Decided) >= round - 1
    BY <2>1 DEF Progress
  <2> HIDE DEF Decided
  <2>5. Decided' # Decided => Cardinality(Decided') >= Cardinality(Decided) + 1
    BY <1>1, <2>1, MoreDecided
  <2>6. Cardinality(Decided') >= round - 1 /\ (grew' => Cardinality(Decided') >= round)
    BY <1>1, <1>2, <2>3, <2>4, <2>5
  <2> QED BY <2>1, <2>6 DEF Progress
<1>5. CASE Derive
  <2>1. /\ stage = "derive" /\ Decided' = Decided \union NewTrue
        /\ \/ stage' = "done"
           \/ (grew \/ NewTrue # {}) /\ round = MaxIterations /\ stage' = "failed"
           \/ (grew \/ NewTrue # {}) /\ stage' = "round" /\ round' = round + 1
    BY <1>5 DEF Derive, Decided
  <2>2. NewTrue # {} => Decided' # Decided
    BY <2>1 DEF NewTrue, Firing, Decided
  <2>3. Cardinality(Decided) >= round - 1 /\ (grew => Cardinality(Decided) >= round)
    BY <2>1 DEF Progress
  <2> HIDE DEF Decided
  <2>4. Decided' # Decided => Cardinality(Decided') >= Cardinality(Decided) + 1
    BY <1>1, <2>1, MoreDecided
  <2>5. grew \/ NewTrue # {} => Cardinality(Decided') >= round
    BY <1>1, <1>2, <2>2, <2>3, <2>4
  <2> QED BY <1>1, <1>2, <2>1, <2>5 DEF Progress
<1>6. CASE UNCHANGED vars
  BY <1>6 DEF vars, Progress, Decided
<1> QED BY <1>3, <1>4, <1>5, <1>6 DEF Next

-----------------------------------------------------------------------------

\* What is decided at any point is decided so in the well-founded model, and
\* every round but the last decides an atom (evaluate_wfs_rules).
THEOREM EvaluationAdvances == Spec => [](Modelled /\ ModelExact /\ Progress)
<1>1. Init => Modelled /\ ModelExact /\ Progress
  <2> SUFFICES ASSUME Init PROVE Modelled /\ ModelExact /\ Progress
    OBVIOUS
  <2>1. Modelled /\ ModelExact
    BY DEF Init, Modelled, ModelExact
  <2>2. Decided = {}
    BY DEF Init, Decided
  <2>3. Progress
    BY <2>2, FS_EmptySet DEF Init, Progress
  <2> QED BY <2>1, <2>3
<1>2. IInv /\ IInv' /\ (Modelled /\ ModelExact /\ Progress) /\ [Next]_vars
        => (Modelled /\ ModelExact /\ Progress)'
  BY ModelledKeeps, ProgressKeeps
<1> QED BY <1>1, <1>2, Invariant, PTL DEF Spec

\* The answer is the well-founded model, for any ground rules: every atom with a
\* rule ends up true, false or undefined as that says (evaluate_wfs_rules).
THEOREM AnswerIsExact == Spec => []ModelExact
BY EvaluationAdvances, PTL

\* A component of n atoms is decided in n + 1 rounds, so that a limit above n
\* never fails one (WfsConfig, evaluate_wfs_rules).
THEOREM LimitIsEnough == Spec => []LimitSuffices
<1>1. IInv /\ Modelled /\ Progress => LimitSuffices
  <2> SUFFICES ASSUME IInv, Modelled, Progress, stage = "failed"
               PROVE  ~ (MaxIterations > Cardinality(SccAtoms))
    BY DEF LimitSuffices
  <2>1. /\ Cardinality(Decided) \in Nat /\ Cardinality(SccAtoms) \in Nat
        /\ Cardinality(Decided) <= Cardinality(SccAtoms)
    BY DecidedCount DEF IInv, Consistent, Modelled
  <2>2. Cardinality(Decided) >= MaxIterations /\ MaxIterations \in Nat
    BY WellFoundedAssumption DEF Progress
  <2> QED BY <2>1, <2>2
<1> QED BY <1>1, Invariant, EvaluationAdvances, PTL
=============================================================================
