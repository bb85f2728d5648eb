----------------------------- MODULE WorkflowRun -----------------------------
(***************************************************************************)
(* The workflow run that the retry gate is about, as GitHub keeps it and   *)
(* as its REST API shows it.  The service is external to the repository;   *)
(* it is modelled from the requests that ci_retry_gate.py and              *)
(* effect_executor.py send, and from what the live end-to-end workflows    *)
(* wait for.                                                               *)
(*                                                                         *)
(* A run has one current attempt.  Every attempt has jobs of its own, so a *)
(* snapshot of the failed jobs is the attempt and how many have failed.    *)
(* The API may lag behind the run, but never goes back.                    *)
(***************************************************************************)
EXTENDS Naturals, FiniteSets

CONSTANTS
  Executor,   \* executions of effect_executor.py
  LastRun,    \* bound: attempts of the run
  MaxFails    \* bound: failed jobs of one attempt

ASSUME RunAssumption == LastRun \in Nat \ {0} /\ MaxFails \in Nat

VARIABLES
  current,    \* the current attempt and how many of its jobs have failed
  running,    \* the current attempt has not completed
  seen,       \* the snapshot that the API shows
  dispatched  \* history: <<a, e>> when attempt a was started by a POST of e

runVars == <<current, running, seen, dispatched>>

Snapshot == [attempt : 1 .. LastRun, fails : 0 .. MaxFails]
FirstAttempt == [attempt |-> 1, fails |-> 0]

RunTypeOK ==
  /\ current \in Snapshot
  /\ running \in BOOLEAN
  /\ seen \in Snapshot
  /\ dispatched \in SUBSET ((1 .. LastRun) \X Executor)

RunInit ==
  /\ current = FirstAttempt
  /\ running = TRUE
  /\ seen = FirstAttempt
  /\ dispatched = {}

JobFails ==
  /\ running
  /\ current.fails < MaxFails
  /\ current' = [current EXCEPT !.fails = @ + 1]
  /\ UNCHANGED <<running, seen, dispatched>>

Complete ==
  /\ running
  /\ running' = FALSE
  /\ UNCHANGED <<current, seen, dispatched>>

\* The API catches up with the run.
Show ==
  /\ seen # current
  /\ seen' = current
  /\ UNCHANGED <<current, running, dispatched>>

\* Only a completed run can be run again.
NextAttempt ==
  /\ ~running
  /\ current.attempt < LastRun
  /\ current' = [attempt |-> current.attempt + 1, fails |-> 0]
  /\ running' = TRUE
  /\ UNCHANGED seen

\* Somebody else runs it again: a person, or another workflow.
OtherRerun ==
  /\ NextAttempt
  /\ UNCHANGED dispatched

\* GitHub carries out the POST of e to rerun-failed-jobs.
AcceptRerun(e) ==
  /\ NextAttempt
  /\ dispatched' = dispatched \cup {<<current.attempt + 1, e>>}

RunNext == JobFails \/ Complete \/ Show \/ OtherRerun
===============================================================================
