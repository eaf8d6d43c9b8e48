---------------------------- MODULE Stratification ----------------------------
(***************************************************************************)
(* From rules to an order of execution (crates/xlog-logic): the dependency *)
(* graph, its components by Tarjan's algorithm, the refusal of cycles      *)
(* through negation, the strata (stratify.rs), and the plan built from     *)
(* them (lower.rs).  All of it is sequential and pure.                     *)
(*                                                                         *)
(* A predicate is a number, its place in the order of the names.  A rule   *)
(* has at most one atom in its body: the edges of a longer body are those  *)
(* of its atoms, one after the other.  An epistemic atom counts as negated *)
(* and the template of a learnable rule as a positive rule.                *)
(***************************************************************************)
EXTENDS Naturals, Sequences, FiniteSets, SequencesExt

Kinds == {"fact", "positive", "negated", "aggregated"}

\* The edges of a rule, from its head to what it reads: an aggregate over an
\* atom depends on it twice.
EdgesOf(rule) ==
  LET Edge(type) == [from |-> rule.head, to |-> rule.atom, type |-> type]
  IN  CASE rule.kind = "fact"       -> <<>>
        [] rule.kind = "positive"   -> <<Edge("positive")>>
        [] rule.kind = "negated"    -> <<Edge("negative")>>
        [] rule.kind = "aggregated" -> <<Edge("positive"), Edge("aggregate")>>

BuildDependencyGraph(rules) ==
  LET edges == FlattenSeq([i \in DOMAIN rules |-> EdgesOf(rules[i])])
  IN  [predicates |-> {rules[i].head : i \in DOMAIN rules} \cup {edges[i].to : i \in DOMAIN edges},
       edges      |-> edges]

Outgoing(graph, p) == SelectSeq(graph.edges, LAMBDA e : e.from = p)

-----------------------------------------------------------------------------
\* Components.

Least(m, n) == IF m < n THEN m ELSE n
Greatest(S) == CHOOSE m \in S : \A n \in S : n <= m

\* The predicates in the order of their names.
Sorted(S) == SelectSeq([p \in 1..Greatest(S \cup {0}) |-> p], LAMBDA p : p \in S)

\* Whether v has the lowest index of its component.
IsRoot(state, v) == state.low[v] = state.index[v]

\* What is on the stack from v on is a component.
PopComponent(state, v) ==
  LET i == CHOOSE j \in DOMAIN state.stack : state.stack[j] = v
  IN  [state EXCEPT !.stack = SubSeq(@, 1, i - 1),
                    !.components = Append(@, ToSet(SubSeq(state.stack, i, Len(state.stack))))]

\* TarjanState::strongconnect.  The index of a predicate is 0 before its visit.
RECURSIVE StrongConnect(_, _, _)
StrongConnect(graph, state, v) ==
  LET entered == [state EXCEPT !.index[v] = state.next, !.low[v] = state.next,
                               !.next = @ + 1, !.stack = Append(@, v)]
      Follow(s, e) ==
        IF s.index[e.to] = 0
        THEN LET after == StrongConnect(graph, s, e.to)
             IN  [after EXCEPT !.low[v] = Least(@, after.low[e.to])]
        ELSE IF Contains(s.stack, e.to) THEN [s EXCEPT !.low[v] = Least(@, s.index[e.to])]
        ELSE s
      left == FoldLeft(Follow, entered, Outgoing(graph, v))
  IN  IF IsRoot(left, v) THEN PopComponent(left, v) ELSE left

\* find_sccs: dependencies come before what depends on them.
FindSccs(graph) ==
  LET none  == [p \in graph.predicates |-> 0]
      start == [next |-> 1, stack |-> <<>>, index |-> none, low |-> none, components |-> <<>>]
      Visit(s, p) == IF s.index[p] = 0 THEN StrongConnect(graph, s, p) ELSE s
  IN  FoldLeft(Visit, start, Sorted(graph.predicates)).components

-----------------------------------------------------------------------------
\* Strata.

\* check_scc_for_negation_cycle.
HasNegationCycle(scc, graph) ==
  \E i \in DOMAIN graph.edges :
    LET e == graph.edges[i] IN {e.from, e.to} \subseteq scc /\ e.type # "positive"

\* The lowest stratum a component may be in, above what it negates or
\* aggregates; its own predicates are not in the map yet.
StratumOf(scc, graph, map) ==
  LET required == {map[e.to] + (IF e.type = "positive" THEN 0 ELSE 1) :
                     e \in {d \in ToSet(graph.edges) : d.from \in scc /\ d.to \in DOMAIN map}}
  IN  Greatest(required \cup {0})

StratumMap(sccs, graph) ==
  LET Assign(map, scc) ==
        LET n == StratumOf(scc, graph, map)
        IN  [p \in (DOMAIN map) \cup scc |-> IF p \in scc THEN n ELSE map[p]]
  IN  FoldLeft(Assign, <<>>, sccs)

Rejected == <<>>

\* stratify: only probabilistic programs may negate in a cycle.  There is a
\* stratum of no predicates when there are no rules.
Stratify(rules, probabilistic) ==
  LET graph == BuildDependencyGraph(rules)
      sccs  == FindSccs(graph)
      map   == StratumMap(sccs, graph)
      last  == Greatest({map[p] : p \in graph.predicates} \cup {0})
      strata == [i \in 1..(last + 1) |-> {p \in graph.predicates : map[p] = i - 1}]
  IN  IF ~ probabilistic /\ \E i \in DOMAIN sccs : HasNegationCycle(sccs[i], graph)
      THEN Rejected
      ELSE SelectSeq(strata, LAMBDA S : S # {})

-----------------------------------------------------------------------------
\* Plans.

IsRecursive(scc, graph) ==
  \/ Cardinality(scc) > 1
  \/ \E e \in ToSet(graph.edges) : e.from \in scc /\ e.to = e.from /\ e.type = "positive"

\* The components of a stratum, in the order of the components.
SccsOf(sccs, stratum) == SelectSeq(sccs, LAMBDA S : S \cap stratum # {})

\* build_sccs, and lower_program: the strata of a plan with their components.
LowerProgram(rules, strata) ==
  LET sccs == FindSccs(BuildDependencyGraph(rules))
  IN  [i \in DOMAIN strata |-> SccsOf(sccs, strata[i])]

\* execute_plan: stratum by stratum, component by component.
ExecutionOrder(plan) == FlattenSeq(plan)

-----------------------------------------------------------------------------
\* What a plan must be, in terms of paths.

\* The pairs of predicates with a path from the first to the second.
PathsOf(graph) ==
  LET Through(R, p) == R \cup ({q \in graph.predicates : <<q, p>> \in R}
                               \X {q \in graph.predicates : <<p, q>> \in R})
      steps == {<<p, p>> : p \in graph.predicates}
               \cup {<<e.from, e.to>> : e \in ToSet(graph.edges)}
  IN  FoldLeft(Through, steps, SetToSeq(graph.predicates))

\* A cycle that negates or aggregates.
Unstratified(graph, paths) ==
  \E e \in ToSet(graph.edges) : e.type # "positive" /\ <<e.to, e.from>> \in paths

\* A program is rejected exactly when it negates in a cycle, unless it is
\* probabilistic; otherwise its plan executes every predicate in one component,
\* with those it is mutually recursive with and no others, after all it depends
\* on, and what it negates is complete in an earlier stratum; a component is
\* evaluated to a fixpoint exactly when it reads itself (stratify, find_sccs,
\* lower_program).
PlanSound(rules, probabilistic) ==
  LET graph  == BuildDependencyGraph(rules)
      paths  == PathsOf(graph)
      strata == Stratify(rules, probabilistic)
      plan   == LowerProgram(rules, strata)
      order  == ExecutionOrder(plan)
      Place(p) == {i \in DOMAIN order : p \in order[i]}
      Layer(p) == {i \in DOMAIN plan : \E j \in DOMAIN plan[i] : p \in plan[i][j]}
  IN  IF ~ probabilistic /\ Unstratified(graph, paths) THEN strata = Rejected
      ELSE /\ \A p \in graph.predicates : Cardinality(Place(p)) = 1
           /\ \A p, q \in graph.predicates :
                Place(p) = Place(q) <=> {<<p, q>>, <<q, p>>} \subseteq paths
           /\ \A e \in ToSet(graph.edges) :
                /\ \A i \in Place(e.to), j \in Place(e.from) : i <= j
                /\ e.type # "positive" /\ <<e.to, e.from>> \notin paths =>
                     \A i \in Layer(e.to), j \in Layer(e.from) : i < j
           /\ ~ probabilistic =>
                \A i \in DOMAIN order :
                  IsRecursive(order[i], graph) <=>
                    \E e \in ToSet(graph.edges) : {e.from, e.to} \subseteq order[i]
=============================================================================
