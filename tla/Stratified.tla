----------------------------- MODULE Stratified -----------------------------
(***************************************************************************)
(* What a stratified Datalog program means, and which components of its    *)
(* plan depend on which (crates/xlog-ir/src/plan.rs, ExecutionPlan).  A    *)
(* fact stands for one ground tuple of one predicate; an instance is one   *)
(* ground instance of a compiled rule.  Aggregation counts as negation:    *)
(* both may lose a result when a premise arrives.                          *)
(***************************************************************************)
EXTENDS Naturals, Sequences, FiniteSets

CONSTANTS
  Facts,      \* every ground tuple that can occur
  PredOf,     \* the predicate of each fact
  Components, \* the components of the plan in the order of execution
  Recursive,  \* those that are evaluated to a fixpoint
  Instances   \* the ground instances [head, pos, neg] of the rules

Ids == 1..Len(Components)

\* Components share no predicate, and every predicate of a rule has one.
ASSUME PlanAssumption ==
  /\ Len(Components) \in Nat
  /\ Recursive \subseteq Ids
  /\ \A n \in Instances : n.head \in Facts /\ n.pos \union n.neg \subseteq Facts
  /\ \A n \in Instances : \A f \in {n.head} \union n.pos \union n.neg :
       \E c \in Ids : PredOf[f] \in Components[c]
  /\ \A c, d \in Ids : c # d => Components[c] \intersect Components[d] = {}

\* The facts of S whose predicate is in P.
On(S, P) == {f \in S : PredOf[f] \in P}

RulesOf == [c \in Ids |-> {n \in Instances : PredOf[n.head] \in Components[c]}]
HeadsOf == [c \in Ids |-> {n.head : n \in RulesOf[c]}]

\* A body reads its own component and earlier ones, a negated scan only
\* earlier ones, and a component that reads itself is recursive.
ASSUME StratifiedAssumption ==
  \A c \in Ids : \A n \in RulesOf[c] :
    /\ \A f \in n.pos \union n.neg : \A d \in Ids : PredOf[f] \in Components[d] => d <= c
    /\ \A f \in n.neg : PredOf[f] \notin Components[c]
    /\ (\E f \in n.pos : PredOf[f] \in Components[c]) => c \in Recursive

Fires(n, S) == n.pos \subseteq S /\ n.neg \intersect S = {}

\* What one pass over the rules of a component derives from S.
Consequences(c, S) == {n.head : n \in {m \in RulesOf[c] : Fires(m, S)}}

\* What evaluating a component leaves: the least superset of S that its rules
\* do not extend.  For a component that is not recursive that is one pass.
Closed(c, S) == Consequences(c, S) \subseteq S
Saturate(c, S) ==
  S \union {f \in HeadsOf[c] :
              \A D \in SUBSET HeadsOf[c] : Closed(c, S \union D) => f \in S \union D}

\* What executing the first components of the plan leaves of the facts in base.
UpTo(base) ==
  LET upTo[c \in 0..Len(Components)] ==
        IF c = 0 THEN base ELSE Saturate(c, upTo[c - 1])
  IN  upTo

\* The model of the program over the facts in base.
Meaning(base) == UpTo(base)[Len(Components)]

\* The other components with a rule that scans a predicate of c.
Dependents ==
  [c \in Ids |-> {d \in Ids \ {c} : \E n \in RulesOf[d] :
                                   On(n.pos \union n.neg, Components[c]) # {}}]

\* A component and all that depends on it, directly or not.
Downstream ==
  LET Complete == {S \in SUBSET Ids : \A c \in S : Dependents[c] \subseteq S}
  IN  [c \in Ids |-> {d \in Ids : \A S \in Complete : c \in S => d \in S}]
Reach(C) == UNION {Downstream[c] : c \in C}

\* Whether an added premise may take a result away.
NonMonotone(c) == \E n \in RulesOf[c] : n.neg # {}
=============================================================================
