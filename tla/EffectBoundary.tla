---------------------------- MODULE EffectBoundary ----------------------------
(***************************************************************************)
(* effect_executor.py: carries out a stored effect plan.  It reads the run *)
(* once more, dispatches the rerun with one POST, and stores an execution  *)
(* receipt that says SUCCEEDED, NOT_EXECUTED or UNKNOWN.  A plan can be    *)
(* executed several times: the job that made it may have died, and another *)
(* job takes over with the same plan.                                      *)
(*                                                                         *)
(* A POST can be answered, refused, or left without an answer; then it may *)
(* still be carried out later.                                             *)
(***************************************************************************)
EXTENDS RetryGate

VARIABLES
  exec,   \* exec[e]: the progress and the locals of execution e
  posts   \* executions whose POST got no answer and may still be carried out

vars == <<runVars, gateVars, exec, posts>>

ExecStep == {"idle", "run", "jobs", "dispatch", "receipt", "done", "dead"}
ExecState ==
  [step : ExecStep, plan : Gate \cup {NoGate}, outcome : EffectOutcome \cup {"none"},
   late : BOOLEAN]

TypeOK ==
  /\ RunTypeOK
  /\ GateTypeOK
  /\ exec \in [Executor -> ExecState]
  /\ posts \in SUBSET Executor

Init ==
  /\ RunInit
  /\ GateInit
  /\ exec = [e \in Executor |->
               [step |-> "idle", plan |-> NoGate, outcome |-> "none", late |-> FALSE]]
  /\ posts = {}

Settle(e, outcome) ==
  exec' = [exec EXCEPT ![e].step = "receipt", ![e].outcome = outcome]

\* The plan and its record are read back.  A plan without an admitted mutation
\* is not executed, nor one that a fence or a lease stops.  late records
\* whether the run had visibly moved on from the plan already.
Begins(e, g, step, outcome) ==
  exec' = [exec EXCEPT ![e] = [step |-> step, plan |-> g, outcome |-> outcome,
                               late |-> seen # gate[g].jobs]]

\* What Start would be if the executor ran before the upload of the record.
StartBeforeUpload(e, g) ==
  /\ exec[e].step = "idle"
  /\ gate[g].step \in {"written", "stored"}
  /\ gate[g].admitted
  /\ Begins(e, g, "run", "none")
  /\ UNCHANGED <<runVars, gateVars, posts>>

MayExecute(g) == gate[g].admitted /\ gate[g].allow

\* What Start would be if a job that died were started again as the same
\* execution.
StartAgain(e, g) ==
  /\ exec[e].step \in {"idle", "dead"}
  /\ g \in stored
  /\ \/ MayExecute(g) /\ Begins(e, g, "run", "none")
     \/ Begins(e, g, "receipt", "NOT_EXECUTED")
  /\ UNCHANGED <<runVars, gateVars, posts>>

Start(e, g) ==
  /\ exec[e].step = "idle"
  /\ g \in stored
  /\ \/ MayExecute(g) /\ Begins(e, g, "run", "none")
     \/ Begins(e, g, "receipt", "NOT_EXECUTED")
  /\ UNCHANGED <<runVars, gateVars, posts>>

\* revalidate_rerun_subject_binding; a failed read counts as a change.
ExecReadRun(e) ==
  /\ exec[e].step = "run"
  /\ \/ SameRun(exec[e].plan) /\ exec' = [exec EXCEPT ![e].step = "jobs"]
     \/ Settle(e, "NOT_EXECUTED")
  /\ UNCHANGED <<runVars, gateVars, posts>>

\* Then the contract is checked against the clock, which may refuse as well.
ExecReadJobs(e) ==
  /\ exec[e].step = "jobs"
  /\ \/ SameJobs(exec[e].plan) /\ exec' = [exec EXCEPT ![e].step = "dispatch"]
     \/ Settle(e, "NOT_EXECUTED")
  /\ UNCHANGED <<runVars, gateVars, posts>>

DispatchAccepted(e) ==
  /\ exec[e].step = "dispatch"
  /\ AcceptRerun(e)
  /\ Settle(e, "SUCCEEDED")
  /\ UNCHANGED <<gateVars, posts>>

\* An HTTP error.
DispatchRefused(e) ==
  /\ exec[e].step = "dispatch"
  /\ Settle(e, "UNKNOWN")
  /\ UNCHANGED <<runVars, gateVars, posts>>

\* Two ways to get this wrong: to report that nothing happened, and to try again.
UnansweredIsNotExecuted(e) ==
  /\ exec[e].step = "dispatch"
  /\ posts' = posts \cup {e}
  /\ Settle(e, "NOT_EXECUTED")
  /\ UNCHANGED <<runVars, gateVars>>

UnansweredIsRepeated(e) ==
  /\ exec[e].step = "dispatch"
  /\ e \notin posts
  /\ posts' = posts \cup {e}
  /\ UNCHANGED <<runVars, gateVars, exec>>

DispatchUnanswered(e) ==
  /\ exec[e].step = "dispatch"
  /\ posts' = posts \cup {e}
  /\ Settle(e, "UNKNOWN")
  /\ UNCHANGED <<runVars, gateVars>>

PostArrives(e) ==
  /\ e \in posts
  /\ AcceptRerun(e)
  /\ posts' = posts \ {e}
  /\ UNCHANGED <<gateVars, exec>>

PostLost(e) ==
  /\ e \in posts
  /\ posts' = posts \ {e}
  /\ UNCHANGED <<runVars, gateVars, exec>>

\* What StoreReceipt would be if it kept definite outcomes only.
StoreDefiniteReceipt(e) ==
  /\ exec[e].step = "receipt"
  /\ exec[e].outcome # "UNKNOWN"
  /\ receipts' = receipts \cup
       {[gate |-> exec[e].plan, executor |-> e, outcome |-> exec[e].outcome]}
  /\ exec' = [exec EXCEPT ![e].step = "done"]
  /\ UNCHANGED <<runVars, gate, stored, expired, posts>>

StoreReceipt(e) ==
  /\ exec[e].step = "receipt"
  /\ receipts' = receipts \cup
       {[gate |-> exec[e].plan, executor |-> e, outcome |-> exec[e].outcome]}
  /\ exec' = [exec EXCEPT ![e].step = "done"]
  /\ UNCHANGED <<runVars, gate, stored, expired, posts>>

\* The job dies, possibly with its POST on the way.
Dies(e) ==
  /\ exec[e].step \notin {"idle", "done", "dead"}
  /\ exec' = [exec EXCEPT ![e].step = "dead"]
  /\ \/ UNCHANGED posts
     \/ exec[e].step = "dispatch" /\ posts' = posts \cup {e}
  /\ UNCHANGED <<runVars, gateVars>>

\* What execution e does by itself once it runs.
Proceed(e) ==
  \/ ExecReadRun(e) \/ ExecReadJobs(e)
  \/ DispatchAccepted(e) \/ DispatchRefused(e) \/ DispatchUnanswered(e)
  \/ StoreReceipt(e)

Next ==
  \/ RunNext /\ UNCHANGED <<gateVars, exec, posts>>
  \/ \E g \in Gate : GateNext(g) /\ UNCHANGED <<exec, posts>>
  \/ \E e \in Executor, g \in Gate : Start(e, g)
  \/ \E e \in Executor : Proceed(e) \/ PostArrives(e) \/ PostLost(e) \/ Dies(e)

Spec == Init /\ [][Next]_vars

\* A job that has started goes on until it ends or dies.
FairSpec == Spec /\ \A e \in Executor : WF_vars(Proceed(e))

-------------------------------------------------------------------------------
(* Properties *)

Effects(e) == {x \in dispatched : x[2] = e}

(* effect_executor.py claims only what it knows: SUCCEEDED means that its    *)
(* POST made an attempt, NOT_EXECUTED that it made none and never will.      *)
ReceiptIsTrue ==
  \A e \in Executor :
    /\ exec[e].outcome = "SUCCEEDED" => Effects(e) # {}
    /\ exec[e].outcome = "NOT_EXECUTED" => Effects(e) = {} /\ e \notin posts

(* One execution makes at most one attempt, answered or not: GitHubAPI       *)
(* repeats a GET but never a POST, and UNKNOWN is not retried.               *)
OneEffect == \A x, y \in dispatched : x[2] = y[2] => x = y

(* An execution that begins when the run has visibly moved on from its plan, *)
(* such as a takeover after the effect was seen, causes nothing: what        *)
(* revalidate_rerun_subject_binding is for.                                  *)
LateHasNoEffect ==
  \A e \in Executor : exec[e].late => Effects(e) = {} /\ e \notin posts

(* No attempt is dispatched for a decision whose record is not stored, does  *)
(* not allow it, or was made on an attempt that had reached max-attempts:    *)
(* the order of the steps in action.yml.  Nor for one whose evidence is of   *)
(* another attempt than the one it names, as the gate reads the run first    *)
(* and its jobs afterwards (revalidate_rerun_subject_binding compares both). *)
EffectAfterAudit ==
  \A e \in Executor :
    Effects(e) # {} \/ e \in posts =>
      LET g == exec[e].plan IN
      /\ g \in stored /\ gate[g].allow /\ gate[g].attempt < MaxAttempts
      /\ gate[g].jobs.attempt = gate[g].attempt

(* When reconciliation says that the gate dispatched a rerun, an execution   *)
(* of the parent decision did make an attempt after the one it was about,    *)
(* whatever died or got lost on the way (build_outcome_record).  Not always  *)
(* the next one: somebody else may have made that between the last read and  *)
(* the POST.                                                                 *)
DispatchIsReal ==
  \A g \in Gate :
    gate[g].verdict = "GATE_DISPATCHED" =>
      \E x \in dispatched :
        /\ exec[x[2]].plan = gate[g].parent
        /\ x[1] > gate[gate[g].parent].attempt

(* An attempt that was made for a decision on the attempt before is credited *)
(* to no other decision, unless the artifact of that decision has expired:   *)
(* of all that happened since attempt n, a decision on n + 1 names as its    *)
(* parent what led to n + 1 (decision_history.py), if the gate did.          *)
CreditIsDue ==
  \A g \in Gate, x \in dispatched :
    LET p == exec[x[2]].plan IN
    /\ gate[g].parent # NoGate
    /\ x[1] = gate[g].attempt /\ gate[p].attempt + 1 = gate[g].attempt
    => p \in expired \cup {gate[g].parent}

(* Executions on one attempt that name a parent decision name the same one,  *)
(* unless the artifact of one of them has expired: decision_history.py never *)
(* picks one of several.                                                     *)
OneParent ==
  \A g, h \in Gate :
    LET p == gate[g].parent  q == gate[h].parent IN
    /\ gate[g].attempt = gate[h].attempt
    /\ p # NoGate /\ q # NoGate /\ p # q
    => {p, q} \cap expired # {}

(* Every execution that starts ends with a stored receipt, unless its job    *)
(* dies: no answer of the API, and no missing answer, leaves it without one. *)
Reports ==
  \A e \in Executor :
    exec[e].step # "idle" ~> exec[e].step \in {"done", "dead"}

(* The gate causes no attempt beyond max-attempts.  (It does not hold: the   *)
(* run may move on between the last read and the POST.)                      *)
WithinMaxAttempts == \A x \in dispatched : x[1] \leq MaxAttempts
===============================================================================
