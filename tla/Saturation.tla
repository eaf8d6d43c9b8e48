----------------------------- MODULE Saturation -----------------------------
(***************************************************************************)
(* What evaluating a recursive component promises, whatever the strategy:  *)
(* the store grows only by facts that follow from what it holds, and a run *)
(* answers only when nothing more follows.                                 *)
(***************************************************************************)
EXTENDS LeastModel

VARIABLES
  base,    \* the facts handed in so far
  store,   \* the facts the relation store holds
  outcome  \* how the last run ended

vars == <<base, store, outcome>>

Init == base = {} /\ store = {} /\ outcome = "none"

\* New facts arrive between two runs.
Insert ==
  \E F \in SUBSET Facts :
    /\ base' = base \union F
    /\ store' = store \union F
    /\ outcome' = "none"

Begin == outcome' = "running" /\ UNCHANGED <<base, store>>

\* A step of a run adds some facts that follow at once from the store.
Grow ==
  /\ outcome = "running"
  /\ \E D \in SUBSET Consequences(store) : store' = store \union D
  /\ UNCHANGED <<base, outcome>>

\* A run answers.
Answer ==
  /\ outcome = "running"
  /\ Closed(store)
  /\ outcome' = "ok"
  /\ UNCHANGED <<base, store>>

\* A run ends with an error and keeps what it found.
GiveUp ==
  /\ outcome = "running"
  /\ outcome' \in {"limit", "error"}
  /\ UNCHANGED <<base, store>>

Next == Insert \/ Begin \/ Grow \/ Answer \/ GiveUp

Spec == Init /\ [][Next]_vars
=============================================================================
