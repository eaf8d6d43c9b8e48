------------------------ MODULE MCAllocationLifecycle ------------------------
(* AllocationLifecycle on a small instance: two threads, two allocations of  *)
(* one context, and a bound on every kind of failure.                        *)
EXTENDS AllocationLifecycle, TLC

\* The threads are interchangeable.
Symmetry == Permutations(Procs)
=============================================================================
