--------------------------- MODULE EffectImplements ---------------------------
(* The gate, the artifacts, the executor and the run together implement      *)
(* EffectLedger.                                                             *)
EXTENDS EffectBoundary

\* Stored decisions that admit the rerun, with the attempts they were made on.
DecidedPlans == {<<g, gate[g].attempt>> : g \in {h \in stored : MayExecute(h)}}

PlannedEffects == {<<x[1], exec[x[2]].plan, x[2]>> : x \in dispatched}

\* An execution is open until it has made its POST or given it up, and for as
\* long as the POST may still be carried out.
Settled ==
  {e \in Executor :
     \/ Effects(e) # {}
     \/ e \notin posts /\ exec[e].step \notin {"idle", "run", "jobs", "dispatch"}}

Credited ==
  {gate[g].parent : g \in {h \in Gate : gate[h].verdict = "GATE_DISPATCHED"}}

Ledger ==
  INSTANCE EffectLedger WITH
    Plan <- Gate, Execution <- Executor, Attempt <- 1 .. LastRun, Limit <- MaxAttempts,
    decided <- DecidedPlans, effects <- PlannedEffects, closed <- Settled,
    credited <- Credited

(* Every step of the programs and of the service decides a plan, has or      *)
(* forgoes the one effect of an execution, issues a receipt, credits a plan, *)
(* or is nothing to the ledger, wherever jobs die and answers get lost: what *)
(* effect_executor.py and ci_retry_gate.py make of requests and artifacts.   *)
ImplementsLedger == Ledger!Spec
===============================================================================
