------------------------------ MODULE RetryGate ------------------------------
(***************************************************************************)
(* ci_retry_gate.py as the composite action runs it: it reads the run and  *)
(* its failed jobs, looks up the decision made on the previous attempt     *)
(* (decision_history.py, outcome_record.py), decides, revalidates what it  *)
(* decided on, and stores a Decision Evidence Record with an effect plan   *)
(* as a build artifact.  It does not rerun anything: that is left to       *)
(* effect_executor.py.  Every request to the API is a step of its own.     *)
(***************************************************************************)
EXTENDS WorkflowRun

CONSTANTS
  Gate,         \* executions of ci_retry_gate.py, and the records they store
  NoGate,       \* no record
  MaxAttempts,  \* the input max-attempts
  AutoRerun     \* the values of the input auto-rerun that executions get

ASSUME GateAssumption ==
  /\ NoGate \notin Gate
  /\ MaxAttempts \in Nat
  /\ AutoRerun \subseteq BOOLEAN

VARIABLES
  gate,     \* gate[g]: the progress and the locals of execution g
  stored,   \* executions whose record is a stored artifact
  expired,  \* those whose artifact has expired since
  receipts  \* stored execution receipts, by the record they belong to

gateVars == <<gate, stored, expired, receipts>>

Step == {"idle", "jobs", "history", "trail", "assess", "rereadRun", "rereadJobs",
         "written", "stored", "dead"}
EffectOutcome == {"NOT_EXECUTED", "SUCCEEDED", "UNKNOWN"}
Verdict == {"none", "AFTER_BLOCK", "EXTERNAL_OR_UNKNOWN", "GATE_DISPATCHED"}
\* build_decision_record: once written, the record says all of this but the step.
GateState ==
  [step : Step, attempt : 1 .. LastRun, jobs : Snapshot, parent : Gate \cup {NoGate},
   verdict : Verdict, allow : BOOLEAN, admitted : BOOLEAN]
Receipt == [gate : Gate, executor : Executor, outcome : EffectOutcome]

GateTypeOK ==
  /\ gate \in [Gate -> GateState]
  /\ stored \in SUBSET Gate
  /\ expired \in SUBSET Gate
  /\ receipts \in SUBSET Receipt

GateInit ==
  /\ gate = [g \in Gate |->
               [step |-> "idle", attempt |-> 1, jobs |-> FirstAttempt, parent |-> NoGate,
                verdict |-> "none", allow |-> FALSE, admitted |-> FALSE]]
  /\ stored = {}
  /\ expired = {}
  /\ receipts = {}

-------------------------------------------------------------------------------
(* main: the subject *)

ReadRun(g) ==
  /\ gate[g].step = "idle"
  /\ gate' = [gate EXCEPT ![g].step = "jobs", ![g].attempt = seen.attempt]
  /\ UNCHANGED <<runVars, stored, expired, receipts>>

\* The previous attempt matters only when there is one.
ReadJobs(g) ==
  /\ gate[g].step = "jobs"
  /\ gate' = [gate EXCEPT ![g].step = IF gate[g].attempt > 1 THEN "history" ELSE "assess",
                          ![g].jobs = seen]
  /\ UNCHANGED <<runVars, stored, expired, receipts>>

-------------------------------------------------------------------------------
(* find_previous_decision_artifact and download_prior_audit_trail.  A       *)
(* failure anywhere leaves the decision without a parent and changes        *)
(* nothing else.                                                            *)

PriorRecords(g) == {d \in stored \ expired : gate[d].attempt + 1 = gate[g].attempt}

\* What FoundParent would be if one of several records would do.
FoundSomeParent(g, d) == d \in PriorRecords(g)

FoundParent(g, d) == PriorRecords(g) = {d}

FindParent(g) ==
  /\ gate[g].step = "history"
  /\ \E d \in Gate :
       /\ FoundParent(g, d)
       /\ gate' = [gate EXCEPT ![g].step = "trail", ![g].parent = d]
  /\ UNCHANGED <<runVars, stored, expired, receipts>>

\* None, several, or the search failed.
NoParent(g) ==
  /\ gate[g].step \in {"history", "trail"}
  /\ gate' = [gate EXCEPT ![g].step = "assess", ![g].parent = NoGate]
  /\ UNCHANGED <<runVars, stored, expired, receipts>>

Receipts(d) == {r \in receipts : r.gate = d}

\* What Confirmed would be if it left out receipts of certain failures only.
NotRefuted(r) == r.outcome # "NOT_EXECUTED"

Confirmed(r) == r.outcome = "SUCCEEDED"

\* build_outcome_record and build_reconciliation_record, as far as the effect goes.
Reconciled(d) ==
  IF ~gate[d].allow THEN "AFTER_BLOCK"
  ELSE IF \E r \in Receipts(d) : Confirmed(r) THEN "GATE_DISPATCHED"
  ELSE "EXTERNAL_OR_UNKNOWN"

\* Several receipts of one record are ambiguous: then it is not a parent at
\* all.  Without the jobs of the previous attempt there is no verdict on it.
ReadTrail(g) ==
  LET d == gate[g].parent IN
  /\ gate[g].step = "trail"
  /\ d \notin expired
  /\ Cardinality(Receipts(d)) \leq 1
  /\ \E v \in {"none", Reconciled(d)} :
       gate' = [gate EXCEPT ![g].step = "assess", ![g].verdict = v]
  /\ UNCHANGED <<runVars, stored, expired, receipts>>

-------------------------------------------------------------------------------
(* The decision: evidence and policy first, then the guards that can only   *)
(* turn ALLOW into BLOCK, then the second look at the run.                  *)

WithinPolicy(g) == gate[g].jobs.fails > 0 /\ gate[g].attempt < MaxAttempts

Write(g, allow, admitted) ==
  gate' = [gate EXCEPT ![g].step = "written", ![g].allow = allow, ![g].admitted = admitted]

Block(g) ==
  /\ gate[g].step \in {"assess", "rereadRun", "rereadJobs"}
  /\ Write(g, FALSE, FALSE)
  /\ UNCHANGED <<runVars, stored, expired, receipts>>

Allow(g) ==
  /\ gate[g].step = "assess"
  /\ WithinPolicy(g)
  /\ \E auto \in AutoRerun :
       IF auto THEN gate' = [gate EXCEPT ![g].step = "rereadRun"]
       ELSE Write(g, TRUE, FALSE)
  /\ UNCHANGED <<runVars, stored, expired, receipts>>

\* revalidate_rerun_subject_binding, whose two reads the executor repeats
SameRun(g) == seen.attempt = gate[g].attempt

\* What SameJobs would be if it looked for some failed job, not the same ones.
StillFailing(g) == seen.fails > 0

SameJobs(g) == seen = gate[g].jobs

RereadRun(g) ==
  /\ gate[g].step = "rereadRun"
  /\ SameRun(g)
  /\ gate' = [gate EXCEPT ![g].step = "rereadJobs"]
  /\ UNCHANGED <<runVars, stored, expired, receipts>>

Admit(g) ==
  /\ gate[g].step = "rereadJobs"
  /\ SameJobs(g)
  /\ Write(g, TRUE, TRUE)
  /\ UNCHANGED <<runVars, stored, expired, receipts>>

\* The artifact is uploaded.
Store(g) ==
  /\ gate[g].step = "written"
  /\ gate' = [gate EXCEPT ![g].step = "stored"]
  /\ stored' = stored \cup {g}
  /\ UNCHANGED <<runVars, expired, receipts>>

GateDies(g) ==
  /\ gate[g].step \notin {"idle", "stored", "dead"}
  /\ gate' = [gate EXCEPT ![g].step = "dead"]
  /\ UNCHANGED <<runVars, stored, expired, receipts>>

Expire(g) ==
  /\ g \in stored \ expired
  /\ expired' = expired \cup {g}
  /\ UNCHANGED <<runVars, gate, stored, receipts>>

GateNext(g) ==
  \/ ReadRun(g) \/ ReadJobs(g) \/ FindParent(g) \/ NoParent(g) \/ ReadTrail(g)
  \/ Block(g) \/ Allow(g) \/ RereadRun(g) \/ Admit(g) \/ Store(g)
  \/ GateDies(g) \/ Expire(g)
===============================================================================
