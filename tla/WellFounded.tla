----------------------------- MODULE WellFounded -----------------------------
(***************************************************************************)
(* Cycles through negation in a probabilistic program                      *)
(* (crates/xlog-prob/src/wfs.rs): the ground rules of one component are    *)
(* evaluated to true, false and undefined atoms by alternating between the *)
(* greatest unfounded set and what follows from the atoms decided so far.  *)
(* A true atom carries its provenance, here the set of worlds (choices of  *)
(* the probabilistic facts) in which it was derived.                       *)
(***************************************************************************)
EXTENDS Naturals, FiniteSets

CONSTANTS
  Atoms,        \* the ground atoms of the component's predicates
  Worlds,       \* the choices of the probabilistic facts
  Programs,     \* the sets of ground rules to be evaluated
  MaxIterations \* WfsConfig::max_iterations

\* A ground rule; "prov" are the worlds in which the part of its body outside
\* the component holds.
GroundRules ==
  [head : Atoms, pos : SUBSET Atoms, neg : SUBSET Atoms, prov : SUBSET Worlds]

ASSUME WellFoundedAssumption ==
  /\ IsFiniteSet(Atoms)
  /\ Programs \subseteq (SUBSET GroundRules) \ {{}}
  /\ MaxIterations \in Nat \ {0}

VARIABLES
  rules,     \* the ground rules
  trueSet,   \* the atoms known to be true
  prov,      \* the provenance of each true atom
  falseSet,  \* the atoms known to be false
  unfounded, \* the atoms that have no support so far
  grew,      \* this round has found a false atom
  round,     \* the iteration
  stage      \* where the evaluation is

vars == <<rules, trueSet, prov, falseSet, unfounded, grew, round, stage>>

Stages == {"round", "unfounded", "derive", "done", "failed"}

TypeOK ==
  /\ rules \in SUBSET GroundRules
  /\ trueSet \in SUBSET Atoms
  /\ prov \in [Atoms -> SUBSET Worlds]
  /\ falseSet \in SUBSET Atoms
  /\ unfounded \in SUBSET Atoms
  /\ grew \in BOOLEAN
  /\ round \in 1..MaxIterations
  /\ stage \in Stages

Init ==
  /\ rules \in Programs
  /\ trueSet = {}
  /\ prov = [a \in Atoms |-> {}]
  /\ falseSet = {}
  /\ unfounded = {}
  /\ grew = FALSE
  /\ round = 1
  /\ stage = "round"

\* The atoms some rule is about; any other never becomes true.
SccAtoms == {r.head : r \in rules}

\* Mutant: a rule supports its head although it needs an unfounded atom.
SupportsCircularly(r) ==
  /\ r.pos \intersect falseSet = {}
  /\ r.pos \subseteq trueSet \union SccAtoms
  /\ r.neg \intersect trueSet = {}

\* Whether a rule may still derive its head: no premise is false, every one
\* that is not true yet is in the component and not unfounded, and no negated
\* one is true.
Supports(r) ==
  /\ r.pos \intersect falseSet = {}
  /\ r.pos \subseteq trueSet \union (SccAtoms \ unfounded)
  /\ r.neg \intersect trueSet = {}

\* Mutant: a negated atom that is undefined counts as false.
HoldsByDefault(r) ==
  /\ r.pos \subseteq trueSet \ falseSet
  /\ r.neg \intersect trueSet = {}

\* Whether the body holds: all premises are true, and every negated one is
\* false or has no rule.
Holds(r) ==
  /\ r.pos \subseteq trueSet \ falseSet
  /\ r.neg \intersect trueSet = {}
  /\ r.neg \subseteq falseSet \union (Atoms \ SccAtoms)

\* Every atom that is not true may be unfounded.
Suspect ==
  /\ stage = "round"
  /\ unfounded' = SccAtoms \ trueSet
  /\ stage' = "unfounded"
  /\ UNCHANGED <<rules, trueSet, prov, falseSet, grew, round>>

Supported == {a \in unfounded : \E r \in rules : r.head = a /\ Supports(r)}

\* One sweep takes out the atoms with a supporting rule.
Sweep ==
  /\ stage = "unfounded"
  /\ Supported # {}
  /\ unfounded' = unfounded \ Supported
  /\ UNCHANGED <<rules, trueSet, prov, falseSet, grew, round, stage>>

\* Mutant: what is false already counts as found again.
MarkFalseAgain ==
  /\ stage = "unfounded"
  /\ Supported = {}
  /\ falseSet' = falseSet \union unfounded
  /\ grew' = (unfounded # {})
  /\ stage' = "derive"
  /\ UNCHANGED <<rules, trueSet, prov, unfounded, round>>

\* What is left is false.
MarkFalse ==
  /\ stage = "unfounded"
  /\ Supported = {}
  /\ falseSet' = falseSet \union unfounded
  /\ grew' = ~ (unfounded \subseteq falseSet)
  /\ stage' = "derive"
  /\ UNCHANGED <<rules, trueSet, prov, unfounded, round>>

\* The rules that derive an undecided atom.
Firing == {r \in rules : r.head \notin trueSet \union falseSet /\ Holds(r)}
NewTrue == {r.head : r \in Firing}

\* Mutant: what the premises need is not asked.
DerivationAlone(r) == r.prov

\* The worlds in which a rule derives its head, by the provenance so far.
Derivation(r) == {w \in r.prov : \A a \in r.pos : w \in prov[a]}

\* The new atoms are true, with the rules that fired as their provenance.
Derive ==
  /\ stage = "derive"
  /\ trueSet' = trueSet \union NewTrue
  /\ prov' = [a \in Atoms |-> prov[a] \union
                 UNION {Derivation(r) : r \in {f \in Firing : f.head = a}}]
  /\ IF ~ grew /\ NewTrue = {} THEN stage' = "done" /\ UNCHANGED round
     ELSE IF round = MaxIterations THEN stage' = "failed" /\ UNCHANGED round
     ELSE stage' = "round" /\ round' = round + 1
  /\ UNCHANGED <<rules, falseSet, unfounded, grew>>

Next == Suspect \/ Sweep \/ MarkFalse \/ Derive

Spec == Init /\ [][Next]_vars

-----------------------------------------------------------------------------
\* What a set of rules means.

\* N has the head of every rule of P whose premises it has, when the negated
\* atoms are read in M.
Closed(P, N, M) ==
  \A r \in P : r.pos \subseteq N /\ r.neg \intersect M = {} => r.head \in N

\* M is what the rules derive when their negated atoms are read in M.
Stable(P, M) ==
  /\ Closed(P, M, M)
  /\ \A N \in SUBSET M : Closed(P, N, M) => N = M

\* The least set with the heads of the rules, negated atoms read in M.
Reduct(P, M) ==
  LET derived[i \in 0..Cardinality(Atoms)] ==
        IF i = 0 THEN {}
        ELSE {r.head : r \in {s \in P : /\ s.pos \subseteq derived[i - 1]
                                        /\ s.neg \intersect M = {}}}
  IN  derived[Cardinality(Atoms)]

\* The well-founded model of P: its true atoms are the least fixpoint of
\* reading negation twice, the others of the overestimate are undefined.
TrueIn(P) ==
  LET lower[i \in 0..Cardinality(Atoms)] ==
        IF i = 0 THEN {} ELSE Reduct(P, Reduct(P, lower[i - 1]))
  IN  lower[Cardinality(Atoms)]
FalseIn(P) == Atoms \ Reduct(P, TrueIn(P))

-----------------------------------------------------------------------------

\* The answer is the well-founded model: every atom with a rule ends up true,
\* false or undefined as that says (evaluate_wfs_rules).
ModelExact ==
  stage = "done" => /\ trueSet = TrueIn(rules)
                    /\ falseSet = FalseIn(rules) \intersect SccAtoms

\* Whatever has been decided, at any point of the evaluation, every stable
\* model of the rules agrees with (wfs.rs: "True: definitely derivable", "False:
\* definitely not derivable").
StableAgree ==
  \A M \in SUBSET Atoms :
    Stable(rules, M) => trueSet \subseteq M /\ falseSet \intersect M = {}

\* A component of n atoms is decided in n + 1 rounds: the limit of a thousand
\* iterations fails no smaller one (WfsConfig, evaluate_wfs_rules).
LimitSuffices == MaxIterations > Cardinality(SccAtoms) => stage # "failed"

\* The rules that a world has.
RulesOf(w) == {r \in rules : w \in r.prov}

\* A world counts towards the probability of an atom only when the rules of
\* that world alone derive it, negation read as decided for all of them
\* (derive_consequences: "rule's base provenance AND all positive body
\* provenances").
ProvenanceSound ==
  \A w \in Worlds : \A N \in SUBSET Atoms :
    Closed(RulesOf(w), N, SccAtoms \ falseSet) => {a \in Atoms : w \in prov[a]} \subseteq N
=============================================================================
