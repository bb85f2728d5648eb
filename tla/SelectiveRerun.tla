--------------------------- MODULE SelectiveRerun ---------------------------
(***************************************************************************)
(* selective_rerun.py: one failed job is run again.  The step looks at the *)
(* run and its jobs, plans, looks once more at the run and then at the     *)
(* job, and posts.  The action refuses auto-rerun beside selective-rerun,  *)
(* so reruns that it races with are requested by other executions of this  *)
(* step, in other jobs, or by somebody else (OtherRerun), and the API may  *)
(* still show the attempt before.                                          *)
(*                                                                         *)
(* The members of Executor are executions of this step.  The failed jobs   *)
(* of an attempt are 1 .. fails, in the order of their ids; of which of    *)
(* them are assessed as safe, JobEvidence says more.                       *)
(***************************************************************************)
EXTENDS WorkflowRun

CONSTANT MaxTries  \* max-attempts
ASSUME TriesAssumption == MaxTries \in Nat

VARIABLES
  selective,  \* selective[e]: the progress of execution e
  unanswered  \* the executions whose POST may still arrive

selectiveVars == <<runVars, selective, unanswered>>

Job == 1 .. MaxFails

Selective ==
  [step : {"start", "jobs", "plan", "run", "job", "post", "done", "escaped"},
   run : Snapshot, jobs : Snapshot, safe : SUBSET Job, triggered : SUBSET Job]

SelectiveTypeOK ==
  /\ RunTypeOK
  /\ selective \in [Executor -> Selective]
  /\ unanswered \subseteq Executor

SelectiveInit ==
  /\ RunInit
  /\ selective = [e \in Executor |->
       [step |-> "start", run |-> FirstAttempt, jobs |-> FirstAttempt,
        safe |-> {}, triggered |-> {}]]
  /\ unanswered = {}

Become(e, s) ==
  /\ selective' = [selective EXCEPT ![e] = s]
  /\ UNCHANGED <<runVars, unanswered>>

\* main: the run and its jobs, in two requests.
LookAtRun(e) ==
  /\ selective[e].step = "start"
  /\ Become(e, [selective[e] EXCEPT !.step = "jobs", !.run = seen])

LookAtJobs(e) ==
  /\ selective[e].step = "jobs"
  /\ Become(e, [selective[e] EXCEPT !.step = "plan", !.jobs = seen])

\* selective_plan: at the last attempt, or with a side effect anywhere in the
\* workflow, nothing is safe; otherwise each job is judged for itself.
Eligible(e, safe, sideEffect) ==
  /\ safe \subseteq 1 .. selective[e].jobs.fails
  /\ sideEffect \/ selective[e].run.attempt >= MaxTries => safe = {}

Plan(e, safe, sideEffect) ==
  /\ selective[e].step = "plan"
  /\ Eligible(e, safe, sideEffect)
  /\ Become(e, [selective[e] EXCEPT !.step = IF safe = {} THEN "done" ELSE "run",
                                    !.safe = safe])

\* execute_selective_epoch: the job with the lowest id.
Target(e) == CHOOSE j \in selective[e].safe : \A k \in selective[e].safe : j \leq k

LookAgainAtRun(e) ==
  /\ selective[e].step = "run"
  /\ Become(e, [selective[e] EXCEPT
       !.step = IF seen.attempt = selective[e].run.attempt THEN "job" ELSE "done"])

\* The jobs listed are those of the attempt shown now.  A failed job that a
\* later attempt does not run again is listed in it as it was.
TargetListed(e) ==
  \/ /\ seen.attempt = selective[e].jobs.attempt
     /\ Target(e) \leq seen.fails
  \/ seen.attempt > selective[e].jobs.attempt

LookAgainAtJob(e) ==
  /\ selective[e].step = "job"
  /\ TargetListed(e)
  /\ Become(e, [selective[e] EXCEPT !.step = "post"])

\* The target or the lifecycle differs, or a request fails.
Differs(e) ==
  /\ selective[e].step \in {"run", "job"}
  /\ Become(e, [selective[e] EXCEPT !.step = "done"])

\* What Triggered would be if the execution went on with the next safe job.
TriggeredInTurn(e) ==
  LET rest == selective[e].safe \ {Target(e)}
  IN  [selective[e] EXCEPT !.step = IF rest = {} THEN "done" ELSE "post",
         !.safe = rest, !.triggered = @ \cup {Target(e)}]

\* The accepted request ends the epoch; the other safe jobs are blocked.
Triggered(e) ==
  [selective[e] EXCEPT !.step = "done", !.triggered = {Target(e)}]

PostAccepted(e) ==
  /\ selective[e].step = "post"
  /\ AcceptRerun(e)
  /\ selective' = [selective EXCEPT ![e] = Triggered(e)]
  /\ UNCHANGED unanswered

\* HTTPError: SELECTIVE_MUTATION_UNCONFIRMED.  GitHub answers so when it
\* refuses, as it does while the run is running.
BeRefused(e) ==
  /\ selective[e].step = "post"
  /\ Become(e, [selective[e] EXCEPT !.step = "done"])

\* The answer is an error of a proxy, or there is none and the exception ends
\* main: the request may still arrive.
Unanswered(e, escaped) ==
  /\ selective[e].step = "post"
  /\ selective' = [selective EXCEPT ![e].step = IF escaped THEN "escaped" ELSE "done"]
  /\ unanswered' = unanswered \cup {e}
  /\ UNCHANGED runVars

Arrives(e) ==
  /\ e \in unanswered
  /\ unanswered' = unanswered \ {e}
  /\ AcceptRerun(e)
  /\ UNCHANGED selective

SelectiveNext ==
  \/ RunNext /\ UNCHANGED <<selective, unanswered>>
  \/ \E e \in Executor :
       \/ LookAtRun(e) \/ LookAtJobs(e)
       \/ \E safe \in SUBSET Job, sideEffect \in BOOLEAN : Plan(e, safe, sideEffect)
       \/ LookAgainAtRun(e) \/ LookAgainAtJob(e) \/ Differs(e)
       \/ PostAccepted(e) \/ BeRefused(e) \/ Arrives(e)
       \/ \E escaped \in BOOLEAN : Unanswered(e, escaped)

SelectiveSpec == SelectiveInit /\ [][SelectiveNext]_selectiveVars

-----------------------------------------------------------------------------
(* Properties.                                                              *)

StartedBy(e) == {a \in 1 .. LastRun : <<a, e>> \in dispatched}

\* One epoch, one rerun: whatever number of jobs is safe, and whatever becomes
\* of its request, an execution starts at most one attempt, and none when the
\* attempt that it assessed was the last one allowed.  (Between its last look and
\* the arrival of its request others may have run the run again, so the attempt
\* that it starts may still be one beyond max-attempts.)  The reruns that it
\* counts (selective-reruns-triggered) took place.
OneRerunPerEpoch ==
  \A e \in Executor :
    /\ Cardinality(selective[e].triggered) \leq Cardinality(StartedBy(e))
    /\ Cardinality(StartedBy(e)) \leq 1
    /\ StartedBy(e) # {} => selective[e].run.attempt < MaxTries
=============================================================================
