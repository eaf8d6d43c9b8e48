---------------------------- MODULE MCSemiNaive ----------------------------
\* A program over the ids 1, 2, 3 and m:
\*   p(X,Y) :- e(X,Y).              p(X,Z) :- p(X,Y), p(Y,Z).
\*   q(Y,Z) :- p(X,W), g(X,Y,Z).    p(X,Y) :- q(X,Y).
\* where e, g and some q are handed in.
EXTENDS SemiNaive, TLC

MCPredOf ==
  [f \in {"e12", "g1m3", "g13m"} |-> IF f = "e12" THEN "e" ELSE "g"]
  @@ [f \in {"p12", "pm3", "p3m", "pmm", "p33"} |-> "p"]
  @@ [f \in {"qm3", "q3m"} |-> "q"]
MCFacts == DOMAIN MCPredOf

MCScans == [edge |-> <<"e">>, path |-> <<"p", "p">>, split |-> <<"p", "g">>,
            join |-> <<"q">>]
MCHead == [edge |-> "p", path |-> "p", split |-> "q", join |-> "p"]
MCRules == DOMAIN MCHead

Path == {<<"m", "3">>, <<"3", "m">>, <<"m", "m">>, <<"3", "3">>}
P(x, y) == CASE <<x, y>> = <<"m", "3">> -> "pm3" [] <<x, y>> = <<"3", "m">> -> "p3m"
             [] <<x, y>> = <<"m", "m">> -> "pmm" [] <<x, y>> = <<"3", "3">> -> "p33"

MCInstances ==
  {[rule |-> "edge", body |-> <<"e12">>, head |-> "p12"],
   [rule |-> "split", body |-> <<"p12", "g1m3">>, head |-> "qm3"],
   [rule |-> "split", body |-> <<"p12", "g13m">>, head |-> "q3m"],
   [rule |-> "join", body |-> <<"qm3">>, head |-> "pm3"],
   [rule |-> "join", body |-> <<"q3m">>, head |-> "p3m"]}
  \union {[rule |-> "path", body |-> <<P(a[1], a[2]), P(a[2], b)>>, head |-> P(a[1], b)] :
            a \in Path, b \in {"m", "3"}}

MCInserts == {{"e12"}, {"g1m3", "g13m"}, {"g13m"}, {"qm3"}}
MCExtreme == {"g1m3", "g13m", "pm3", "p3m", "pmm", "qm3", "q3m"}
=============================================================================
