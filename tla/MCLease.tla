------------------------------- MODULE MCLease -------------------------------
(* Instances of the lease and of its refinement mapping for TLC. *)
EXTENDS LeaseImplements, TLC

Symmetry == Permutations(Worker) \cup Permutations(Commit \ {Root})

\* The outcome of a finished call is never read again, and the only one a
\* property looks at is FENCE_PASSED: states that differ in another are one.
View ==
  <<storeVars, inflight, left, won,
    [w \in Worker |-> [call[w] EXCEPT !.result =
                         IF @ = "FENCE_PASSED" THEN @ ELSE "none"]]>>

\* For runs whose properties do not mention the claims won.
FenceView ==
  <<storeVars, inflight, left,
    [w \in Worker |-> [call[w] EXCEPT !.result =
                         IF @ = "FENCE_PASSED" THEN @ ELSE "none"]]>>
===============================================================================
