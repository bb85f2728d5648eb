------------------------------- MODULE MCEffect -------------------------------
(* Instances of EffectBoundary for TLC. *)
EXTENDS EffectImplements, TLC

Symmetry == Permutations(Executor) \cup Permutations(Gate)

\* Four decisions of which none is admitted or executed, or three decisions that are
\* admitted if they allow, and one execution.
FewAdmitted ==
  \/ /\ \A g \in Gate : gate[g].step \notin {"rereadRun", "rereadJobs"} /\ ~gate[g].admitted
     /\ \A e \in Executor : exec[e].step = "idle"
  \/ /\ Cardinality({g \in Gate : gate[g].step # "idle"}) \leq 3
     /\ \A g \in Gate : gate[g].allow => gate[g].admitted
===============================================================================
