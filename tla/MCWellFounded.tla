--------------------------- MODULE MCWellFounded ---------------------------
(* All programs of up to three rules over three atoms, in two worlds: the    *)
(* body of a rule that both worlds have is of up to two literals, that of a  *)
(* rule of the first world of one.                                           *)
EXTENDS WellFounded, TLC

CONSTANT First \* the first world

RulesOfLength(n, worlds) ==
  {r \in [head : Atoms, pos : SUBSET Atoms, neg : SUBSET Atoms, prov : {worlds}] :
     /\ Cardinality(r.pos) + Cardinality(r.neg) <= n
     /\ r.pos \intersect r.neg = {}}

MCRules == RulesOfLength(2, Worlds) \union RulesOfLength(1, {First})

MCPrograms == {{r, s, t} : r, s, t \in MCRules}

Symmetry == Permutations(Atoms)
=============================================================================
