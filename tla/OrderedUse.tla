------------------------------ MODULE OrderedUse ------------------------------
(***************************************************************************)
(* What the admission of device work promises: whatever streams the work   *)
(* runs on, operations that conflict on a byte take effect in the order in *)
(* which they were submitted, and a storage is given back only after the   *)
(* last operation that names it.                                           *)
(***************************************************************************)
EXTENDS Integers, Sequences

CONSTANTS
  Ops,
  Storages,
  SourcesOf,       \* the storages an operation names
  Conflict(_, _)   \* whether two operations touch a byte one of them writes

VARIABLES
  log,   \* operations whose work was submitted, in that order
  ran,   \* those the device has executed
  gone   \* storages given back to the driver or to their producer

Init == log = <<>> /\ ran = {} /\ gone = {}

Submitted == {log[i] : i \in 1..Len(log)}

Submit(o) ==
  /\ o \notin Submitted
  /\ SourcesOf[o] \cap gone = {}
  /\ log' = Append(log, o)
  /\ UNCHANGED <<ran, gone>>

Run(i) ==
  /\ log[i] \notin ran
  /\ \A j \in 1..(i - 1) : Conflict(log[j], log[i]) => log[j] \in ran
  /\ ran' = ran \cup {log[i]}
  /\ UNCHANGED <<log, gone>>

GiveBack(x) ==
  /\ \A o \in Submitted \ ran : x \notin SourcesOf[o]
  /\ gone' = gone \cup {x}
  /\ UNCHANGED <<log, ran>>

Next ==
  \/ \E o \in Ops : Submit(o)
  \/ \E i \in 1..Len(log) : Run(i)
  \/ \E x \in Storages : GiveBack(x)

Spec == Init /\ [][Next]_<<log, ran, gone>>
=============================================================================
