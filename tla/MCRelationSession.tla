-------------------------- MODULE MCRelationSession --------------------------
(* A session over a program with recursion, negation and a constraint,       *)
(* executed by the plan that stratification makes of it:                     *)
(*   p(X) :- e(X).   q(Y) :- p(X), X <= Y.   p(X) :- q(X).                   *)
(*   r(X) :- q(X), not b(X).   s(X) :- r(X).   u(X) :- q(X).                 *)
(*   :- s(1), e(2).                                                          *)
EXTENDS BatchSession, Stratification, TLC

MCPredOf ==
  [f \in {"e1", "e2"} |-> "e"] @@ [f \in {"b1"} |-> "b"]
  @@ [f \in {"p1", "p2"} |-> "p"] @@ [f \in {"q1", "q2"} |-> "q"]
  @@ ("r1" :> "r") @@ ("s1" :> "s") @@ ("u2" :> "u") @@ ("c" :> "constraint")
MCFacts == DOMAIN MCPredOf

\* The predicates in the order of their names.
Name == <<"b", "constraint", "e", "p", "q", "r", "s", "u">>

Atom(head, kind, atom) ==
  LET Number(name) == CHOOSE i \in DOMAIN Name : Name[i] = name
  IN  [head |-> Number(head), kind |-> kind, atom |-> Number(atom)]
MCRules ==
  <<Atom("p", "positive", "e"), Atom("q", "positive", "p"), Atom("p", "positive", "q"),
    Atom("r", "positive", "q"), Atom("r", "negated", "b"), Atom("s", "positive", "r"),
    Atom("u", "positive", "q"), Atom("constraint", "positive", "s"),
    Atom("constraint", "positive", "e")>>

MCComponents ==
  <<{"b"}, {"e"}, {"p", "q"}, {"u"}, {"r"}, {"s"}, {"constraint"}>>
MCRecursive == {3}

\* That plan is the one stratification makes of these rules.
ASSUME ExecutionAssumption ==
  LET order == ExecutionOrder(LowerProgram(MCRules, Stratify(MCRules, FALSE)))
  IN  /\ MCComponents = [i \in DOMAIN order |-> {Name[p] : p \in order[i]}]
      /\ MCRecursive =
           {i \in DOMAIN order : IsRecursive(order[i], BuildDependencyGraph(MCRules))}

Rule(h, P, N) == [head |-> h, pos |-> P, neg |-> N]
MCInstances ==
  {Rule("p1", {"e1"}, {}), Rule("p2", {"e2"}, {}),
   Rule("q1", {"p1"}, {}), Rule("q2", {"p1"}, {}), Rule("q2", {"p2"}, {}),
   Rule("p1", {"q1"}, {}), Rule("p2", {"q2"}, {}),
   Rule("u2", {"q2"}, {}),
   Rule("r1", {"q1"}, {"b1"}), Rule("s1", {"r1"}, {}),
   Rule("c", {"s1", "e2"}, {})}

\* Every program of one to three rules over three predicates, in two orders.
SmallPrograms ==
  LET Rules(kinds) == [head : 1..3, atom : 1..3, kind : kinds]
      sets == {{a, b, c} : a, b, c \in Rules({"positive", "negated"})}
              \cup {{a, b} : a, b \in Rules(Kinds)}
  IN  {SetToSeq(S) : S \in sets} \cup {Reverse(SetToSeq(S)) : S \in sets}

\* The plans of all of them are as PlanSound says.
ASSUME PlansAssumption ==
  \A rules \in SmallPrograms, probabilistic \in BOOLEAN : PlanSound(rules, probabilistic)
=============================================================================
