------------------------------ MODULE MCBlockUse ------------------------------
(* BlockUse on a small instance: an allocation of two bytes and a re-import  *)
(* of its second byte, on two streams.                                       *)
EXTENDS BlockUse, TLC

CONSTANTS n, f, s, t, w1, r12, w2

\* Two streams write disjoint bytes of the allocation, one of them through the
\* import, and the first reads both.
MCOps == {w1, r12, w2}
MCBytesOf == n :> {1, 2} @@ f :> {2}
MCLeaseOn == n :> None @@ f :> n
MCStreamOf == w1 :> s @@ r12 :> s @@ w2 :> t
MCSourcesOf == w1 :> {n} @@ r12 :> {n} @@ w2 :> {f}
MCReadsOf == w1 :> {} @@ r12 :> {1, 2} @@ w2 :> {}
MCWritesOf == w1 :> {1} @@ r12 :> {} @@ w2 :> {2}
=============================================================================
