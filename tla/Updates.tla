------------------------------- MODULE Updates -------------------------------
(***************************************************************************)
(* What a batch of updates promises: it happens as a whole or not at all,  *)
(* and when it happens the relations are what its updates, one after the   *)
(* other, would have made of them.                                         *)
(***************************************************************************)

CONSTANT Rows \* the rows of the relations

VARIABLES
  rows,     \* what the relations hold
  current,  \* what they would hold after the updates so far
  status,   \* a batch is open, or how the last one ended
  effective \* every update of it made a difference with every row

vars == <<rows, current, status, effective>>

\* An update deletes, then inserts.
After(I, D, R) == (R \ D) \union I

Init ==
  /\ rows \in SUBSET Rows
  /\ current = rows
  /\ status = "applied"
  /\ effective = TRUE

\* The next update; an idle row deletes what is absent or inserts what is
\* present.
Update ==
  /\ status' = "open"
  /\ \E I, D \in SUBSET Rows :
       /\ current' = After(I, D, current)
       /\ effective' = (effective /\ D \subseteq current /\ I \intersect current = {})
  /\ UNCHANGED rows

\* No batch is in progress any more.
Close(outcome) ==
  /\ status' = outcome
  /\ current' = rows'
  /\ effective' = TRUE

\* The batch happens; after an idle row it is not said how.
Commit ==
  /\ status = "open"
  /\ IF effective THEN rows' = current ELSE rows' \in SUBSET Rows
  /\ Close("applied")

Discard ==
  /\ status = "open"
  /\ rows' = rows
  /\ Close("dropped")

\* Between batches the relations change in any way.
Replace ==
  /\ status # "open"
  /\ rows' \in SUBSET Rows
  /\ \E outcome \in {"applied", "dropped"} : Close(outcome)

Next == Update \/ Commit \/ Discard \/ Replace

Spec == Init /\ [][Next]_vars
=============================================================================
