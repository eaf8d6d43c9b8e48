----------------------------- MODULE LeastModel -----------------------------
(***************************************************************************)
(* What a set of positive Datalog rules means.  A fact stands for one      *)
(* ground tuple of one predicate, an instance for one ground instance of   *)
(* one compiled rule (crates/xlog-ir/src/plan.rs, CompiledRule): the facts *)
(* its scans read, in the order of the scans, and the fact it derives.     *)
(***************************************************************************)
EXTENDS Naturals

CONSTANTS
  Facts,     \* every ground tuple that can occur
  Preds,     \* the predicates
  PredOf,    \* the predicate of each fact
  Recursive, \* the predicates of the component that is evaluated
  Rules,     \* the compiled rules of the component
  HeadOf,     \* the head predicate of each rule
  Scans,     \* the predicates the body of each rule scans, in order
  Width,     \* no body has more scans than this
  Instances  \* the ground instances [rule, body, head] of the rules

Positions == 1..Width

ASSUME RulesAssumption ==
  /\ Width \in Nat
  /\ Recursive \subseteq Preds
  /\ PredOf \in [Facts -> Preds]
  /\ HeadOf \in [Rules -> Recursive]
  /\ \A r \in Rules : DOMAIN Scans[r] \subseteq Positions

\* An instance reads a fact of the scanned predicate at every position and
\* derives a fact of the head.
ASSUME InstancesAssumption ==
  \A n \in Instances :
    /\ n.rule \in Rules
    /\ n.head \in Facts
    /\ PredOf[n.head] = HeadOf[n.rule]
    /\ DOMAIN n.body = DOMAIN Scans[n.rule]
    /\ \A i \in DOMAIN n.body :
         n.body[i] \in Facts /\ PredOf[n.body[i]] = Scans[n.rule][i]

\* The tuples of one predicate in a set of facts.
Of(S, p) == {f \in S : PredOf[f] = p}

\* The instances of a rule all of whose premises hold.
Holds(n, S) == \A i \in DOMAIN n.body : n.body[i] \in S

\* What one pass over all rules derives from S.
Consequences(S) == {n.head : n \in {m \in Instances : Holds(m, S)}}

Closed(S) == \A n \in Instances : Holds(n, S) => n.head \in S

\* The models of the rules and the given facts.
Models(base) == {S \in SUBSET Facts : base \subseteq S /\ Closed(S)}

\* The least model.
Model(base) == {f \in Facts : \A S \in Models(base) : f \in S}
=============================================================================
