----------------------------- MODULE RerunHistory -----------------------------
(***************************************************************************)
(* What the gate learns from earlier runs of the workflow: the historical  *)
(* reliability of ci_retry_gate.py, the samples of history_ci_waste.py     *)
(* with recovery_ground_truth.py, and the backtest of policy_shadow.py.    *)
(*                                                                         *)
(* Runs are numbered as they were created.  An attempt lists every job of  *)
(* its run: those it executed, and copies of the others as they were, with *)
(* the same start.  An attempt is one step here, so the time is a count of *)
(* attempts.  Job names differ, and the fingerprint of a failure is taken  *)
(* to be that of its job.                                                  *)
(***************************************************************************)
EXTENDS Naturals, Sequences, FiniteSets

CONSTANTS
  PastJob,     \* the jobs of the workflow
  Kinds,       \* Kinds[j], bound: how executions of job j may end
  Learnable,   \* jobs whose failures are transient, without side effects, and
               \* mostly classified with high confidence
  MinSamples,  \* MIN_POLICY_RERUN_SAMPLES
  MaxCandidates, \* max_candidate_runs
  MaxUnread,     \* bound: requests for jobs that fail
  LastPast,      \* bound: runs
  LastTick       \* bound: attempts of all runs

\* Failed in one step, or not in one that is known; cancelled; succeeded with
\* that step, without it, or without any steps listed.
Ending == {"failed", "unbound", "cancelled", "passed", "skipped", "blank"}
FailureEnding == {"failed", "unbound"}
SuccessEnding == {"passed", "skipped", "blank"}
Truths == {"NOT_OBSERVED", "NOT_RECOVERED", "UNVERIFIED_RECOVERY", "INCONSISTENT_RECOVERY",
           "VALIDATED_RECOVERY"}

ASSUME RerunAssumption == Kinds \in [PastJob -> SUBSET Ending] /\ MinSamples \in Nat \ {0}
                          /\ Learnable \subseteq PastJob /\ LastPast \in Nat /\ LastTick \in Nat

Tick == 1 .. LastTick
PastRun == 1 .. LastPast
Execution == [start : Tick, ending : Ending]
Sample == [run : PastRun, attempt : Tick, job : PastJob, truth : Truths]

VARIABLES
  past,   \* past[r][a]: the jobs of attempt a of run r
  study   \* the progress and the findings of an analysis

rerunVars == <<past, study>>

NoStudy == [step |-> "none", current |-> 0, attempts |-> <<>>, samples |-> {},
            verified |-> {}]

RerunInit == past = <<>> /\ study = NoStudy

-------------------------------------------------------------------------------
(* The runs.                                                               *)

Listing(jobs, again, endings, tick) ==
  [j \in PastJob |-> IF j \in again THEN [start |-> tick, ending |-> endings[j]] ELSE jobs[j]]

PastAttempts == UNION {{r} \X DOMAIN past[r] : r \in DOMAIN past}
Ticks == Cardinality(PastAttempts)
Fresh == {f \in [PastJob -> Ending] : \A j \in PastJob : f[j] \in Kinds[j]}

\* Bound: nothing that happens after the jobs are read is looked at.
Watching == study.step \in {"none", "listed"} /\ Ticks < LastTick

NewRun(endings) ==
  /\ Watching /\ study.step = "none" /\ Len(past) < LastPast
  /\ past' = Append(past, <<[j \in PastJob |-> [start |-> Ticks + 1, ending |-> endings[j]]]>>)
  /\ UNCHANGED study

\* All jobs, those that failed, or one job, are executed again.
Rerun(r, again, endings) ==
  /\ Watching /\ r \in DOMAIN past
  /\ past' = [past EXCEPT ![r] =
       Append(@, Listing(past[r][Len(past[r])], again, endings, Ticks + 1))]
  /\ UNCHANGED study

\* The runs but the current one, with the attempts that they have now.
ListPast(c) ==
  /\ study.step = "none" /\ c \in DOMAIN past
  /\ study' = [NoStudy EXCEPT !.step = "listed", !.current = c,
                              !.attempts = [r \in DOMAIN past |-> Len(past[r])]]
  /\ UNCHANGED past

Others == DOMAIN study.attempts \ {study.current}

-------------------------------------------------------------------------------
(* recovery_ground_truth.py                                                *)

\* The jobs of attempt a, unless the request failed; for the last attempt
\* those of the run are then asked for, whatever attempt it is at by now.
Jobs(r, a, unread, lost) ==
  IF <<r, a>> \notin unread THEN past[r][a]
  ELSE IF a = study.attempts[r] /\ r \notin lost THEN past[r][Len(past[r])] ELSE <<>>
Snapshots(r, unread, lost) == [a \in 1 .. study.attempts[r] |-> Jobs(r, a, unread, lost)]

\* What Executed would be if copied jobs counted.
Repeated(original, jobs, j) == j \in DOMAIN jobs
Executed(original, jobs, j) == j \in DOMAIN jobs /\ jobs[j].start # original.start

\* later_rerun_result: the later attempts that executed the job, and of
\* these the first in which it succeeded.
Later(jobs, a, j) == {b \in DOMAIN jobs : b > a /\ Executed(jobs[a][j], jobs[b], j)}
Successes(jobs, a, j) == {b \in Later(jobs, a, j) : jobs[b][j].ending \in SuccessEnding}
FirstOf(attempts) == CHOOSE a \in attempts : \A b \in attempts : a \leq b

\* assess_recovery_ground_truth
GroundTruth(jobs, a, j) ==
  IF Later(jobs, a, j) = {} THEN "NOT_OBSERVED"
  ELSE IF Successes(jobs, a, j) = {} THEN "NOT_RECOVERED"
  ELSE LET ending == jobs[FirstOf(Successes(jobs, a, j))][j].ending
       IN  IF jobs[a][j].ending # "failed" \/ ending = "blank" THEN "UNVERIFIED_RECOVERY"
           ELSE IF ending = "passed" THEN "VALIDATED_RECOVERY" ELSE "INCONSISTENT_RECOVERY"

\* collect_history, of one run: every listed failure is a sample.
Failed(jobs) ==
  {x \in (DOMAIN jobs) \X PastJob :
     x[2] \in DOMAIN jobs[x[1]] /\ jobs[x[1]][x[2]].ending \in FailureEnding}
SampleOf(r, jobs, x) ==
  [run |-> r, attempt |-> x[1], job |-> x[2], truth |-> GroundTruth(jobs, x[1], x[2])]
SamplesOf(r, jobs) == {SampleOf(r, jobs, x) : x \in Failed(jobs)}

-------------------------------------------------------------------------------
(* historical_reliability_record and collect_historical_reliability        *)

\* detect_cross_attempt_recovery
RecoveredLater(failed, later) ==
  {j \in PastJob : failed[j].ending \in FailureEnding /\ later[j].ending \in SuccessEnding}

\* The runs created before the current one, that were run again: the newest n.
Candidates(n) ==
  LET older == {r \in Others : r < study.current /\ study.attempts[r] > 1}
  IN  {r \in older : Cardinality({q \in older : q > r}) < n}

Verified(n) ==
  {x \in Candidates(n) \X PastJob :
     /\ past[study.current][study.attempts[study.current]][x[2]].ending \in FailureEnding
     /\ x[2] \in RecoveredLater(past[x[1]][1], past[x[1]][study.attempts[x[1]]])}

\* Of the reliability n runs are inspected before the API limits the rate.
ReadPast(unread, lost, n) ==
  /\ study.step = "listed"
  /\ study' = [study EXCEPT !.step = "done", !.verified = Verified(n),
       !.samples = UNION {SamplesOf(r, Snapshots(r, unread, lost)) : r \in Others}]
  /\ UNCHANGED past

-------------------------------------------------------------------------------
(* policy_shadow.py and recommend_policy                                   *)

\* What Samples would be if the failures stayed in the order of the listing.
NewerSamples(f) ==
  {s \in study.samples : s.job = f.job /\ s.attempt = 1 /\ s.run > f.run}
\* What was known when f failed: first attempts of runs with a smaller number.
Samples(f) ==
  {s \in study.samples : s.job = f.job /\ s.attempt = 1 /\ s.run < f.run}

Evaluable(samples) == {s \in samples : s.truth \in {"VALIDATED_RECOVERY", "NOT_RECOVERED"}}
Validated(samples) == {s \in samples : s.truth = "VALIDATED_RECOVERY"}

\* recommend_policy; a job that is not Learnable is refused, or left to people,
\* whatever its reruns were.
Policy(j, samples) ==
  LET known == Cardinality(Evaluable(samples))  recovered == Cardinality(Validated(samples))
  IN  IF j \notin Learnable THEN "REFUSED_OR_MANUAL"
      ELSE IF known < MinSamples THEN "MANUAL_REVIEW"
      ELSE IF 10 * recovered >= 8 * known THEN "AUTO_RERUN_ONCE"
      ELSE IF 10 * recovered \leq 2 * known THEN "DO_NOT_AUTO_RERUN" ELSE "MANUAL_REVIEW"

\* simulate_shadow: the first failures that would have been rerun.
ShadowDecisions ==
  {f \in study.samples : f.attempt = 1 /\ Policy(f.job, Samples(f)) = "AUTO_RERUN_ONCE"}

-------------------------------------------------------------------------------
RerunNext ==
  \/ \E endings \in Fresh :
       \/ NewRun(endings)
       \/ \E r \in PastRun, again \in SUBSET PastJob \ {{}} : Rerun(r, again, endings)
  \/ \E c \in PastRun : ListPast(c)
  \/ \E unread \in SUBSET {x \in Others \X Tick : x[2] \leq study.attempts[x[1]]},
        n \in 0 .. MaxCandidates :
       /\ Cardinality(unread) \leq MaxUnread
       /\ \E lost \in SUBSET {x[1] : x \in unread} : ReadPast(unread, lost, n)

RerunSpec == RerunInit /\ [][RerunNext]_rerunVars

-------------------------------------------------------------------------------
RerunTypeOK ==
  /\ \A r \in DOMAIN past : r \in PastRun /\ \A a \in DOMAIN past[r] :
       past[r][a] \in [PastJob -> Execution]
  /\ study.samples \subseteq Sample
  /\ study.verified \subseteq PastRun \X PastJob

\* In truth: the job was executed by a later attempt than a, and ended so.
ReallyEnded(r, a, j, endings) ==
  \E b \in DOMAIN past[r] : /\ b > a
                            /\ past[r][b][j].start > past[r][a][j].start
                            /\ past[r][b][j].ending \in endings

\* What is said of reruns is said of executions, not of the copies that later
\* attempts list: a validated recovery is one in which the failed step passed
\* (recovery_ground_truth.py, "ignoring copied untouched jobs"), a rerun that
\* did not recover was executed, and each recovery in the historical
\* reliability of the gate is one of a job that had failed.
RecoveryIsRerun ==
  /\ \A f \in study.samples :
       /\ f.truth = "VALIDATED_RECOVERY" => ReallyEnded(f.run, f.attempt, f.job, {"passed"})
       /\ f.truth = "NOT_RECOVERED" => ReallyEnded(f.run, f.attempt, f.job, Ending)
  /\ \A x \in study.verified :
       past[x[1]][1][x[2]].ending \in FailureEnding /\ ReallyEnded(x[1], 1, x[2], SuccessEnding)

\* The backtest decides for a rerun only if the job had failed in the first
\* attempt of enough runs created before, was executed again in each of them,
\* and its step passed in four of five (simulate_shadow).
BacktestIsEarned ==
  \A f \in ShadowDecisions : \E runs \in SUBSET (1 .. f.run - 1), good \in SUBSET PastRun :
    /\ Cardinality(runs) >= MinSamples
    /\ good \subseteq runs /\ 10 * Cardinality(good) >= 8 * Cardinality(runs)
    /\ \A r \in runs : /\ past[r][1][f.job].ending \in FailureEnding
                       /\ ReallyEnded(r, 1, f.job, IF r \in good THEN {"passed"} ELSE Ending)
===============================================================================
