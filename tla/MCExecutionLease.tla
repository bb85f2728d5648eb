--------------------------- MODULE MCExecutionLease ---------------------------
(* Instances of ExecutionLease for TLC. *)
EXTENDS ExecutionLease, TLC

\* Ids and owners are interchangeable; so are effects.
Symmetry == Permutations(Lease) \cup Permutations(Owner) \cup Permutations(Effect)
===============================================================================
