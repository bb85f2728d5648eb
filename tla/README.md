# Formal models of CI Retry Gate

TLA+ models, TLC runs and TLAPS proofs for the CI retry gate of this repository: the composite action
that decides whether a failed GitHub Actions run may be rerun, the durable records it keeps of the decision
and of the effect, and the lease that lets several jobs carry out one plan safely.

## The system

The gate is a set of Python programs that run as steps of workflow jobs. They share nothing but GitHub: the
workflow run and its jobs, the artifacts store, git refs, attestations and issues. Everything that is hard
follows from that: each program reads by several requests and acts by another, jobs run at the same time,
a job can be cancelled between any two requests, and an answer can get lost after the request was carried out.

| Part (source) | State | Operations | Talks to | Correct when |
|---|---|---|---|---|
| Retry gate (`ci_retry_gate.py`, `evidence_gate.py`, `decision_record.py`, `effect_plan.py`) | its locals; the decision record and the effect plan it writes | read run and jobs, find the previous decision, reconcile it, decide, revalidate, write, upload | run API, artifacts | it allows only what the policy allows, on jobs of the attempt it names; the record is stored before any effect |
| Decision history (`decision_history.py`) | none | find the record and the receipt of the previous attempt | artifacts | never picks one of several |
| Outcome reconciliation (`outcome_record.py`) | none | bind the parent decision, compare the jobs of two attempts, classify | gate | a recovery is never claimed over a failure; a dispatch is claimed only if there was one, and of no decision but the one that caused it |
| Effect executor (`effect_executor.py`) | its locals; the execution receipt | verify plan and record, fence, root, lease, revalidate, dispatch, receipt | run API, lease, root | at most one effect per execution; the receipt says no more than is known; a late takeover does nothing |
| Linearizable lease (`linearizable_lease.py`) | a coordination ref, a witness ref, candidate and tombstone commits | seed, delete, prepare, claim, publish, verify token | git data API | one winner per base; a superseded token never passes again |
| Execution lease (`execution_lease.py`) | published leases with epochs and expiry | acquire, take over, resolve contention, verify ownership | artifacts, clock | one owner per epoch, none when two contend |
| External monotonic root (`external_monotonic_root.py`) | attested root records of an anchor | attest, verify the latest | attestation API | an old root is never taken for the latest |
| Integration contract (`eba_integration_contract.py`, `ci_assumption_profile.py`, `ci_authority_profile.py`) | request, assumption, grant and decision, sealed by digests | build, narrow an ALLOW, check at the effect, judge the receipt | clock | an effect rests on the artifacts of one gate and falls into their term |
| Evidence (`ci_retry_gate.py`, `evidence_producer.py`, `evidence_gate.py`) | a bundle in a file, read by a process of its own | classify a log, bind it to a failed step, decide | logs, check runs | an ALLOW has a transient signal of every failed job, near a step that failed |
| Selective rerun (`selective_rerun.py`) | its locals | plan one job, revalidate, rerun | run API | at most one rerun for each state evaluated |
| Flaky test history (`flaky_test_history.py`, `runtime/flaky/`) | none; a manifest in the repository | list runs, attribute artifacts, find recoveries, shadow, quarantine lifecycle, enforcement | run API, artifacts | a recovery is a failure and a pass that followed it; no quarantine beyond its term or over a known regression |
| Flaky issue lifecycle (`flaky_issue_lifecycle.py`, `flaky_triage.py`) | issues and a comment on GitHub | find, create, update, close | issues API | one issue for a test, one comment for a pull request |
| Rerun history (`history_ci_waste.py`, `recovery_ground_truth.py`, `policy_shadow.py`, the historical reliability of the gate) | none | read attempts and their jobs, ground truth, policy, backtest | run API | what is said of reruns is said of executions, not of copied jobs |
| Retry policy package (`src/workflow_failure_lab`) | none | classify a record, decide | - | lost data never permits a retry, except that of an inconclusive step |
| Promotion gates, benchmark, doctor, end-to-end helpers, research | none that a later step depends on | batch reports | run API | - |

The hard behaviours are listed one by one, each at its line, under `hazards` in `PROJECT.json`.

## Modules

| Module | What it models |
|---|---|
| `GitRefs` | The git data API as the lease uses it (external): immutable commits and refs. For each commit the set of commits reachable from it is kept, so that "is a fast-forward" is a membership test. |
| `LinearizableLease` | `linearizable_lease.py` and the commands of `e2e/linearizable_lease_cli.py`. A worker runs one call at a time; `call[w]` is its progress and locals, and every API request is an action. `inflight` holds updates whose caller gave up and that may still arrive. `left` and `won` are history. |
| `LeaseRegister`, `LeaseImplements` | What the lease promises, as a register of final single-winner decisions, and the refinement mapping from the commit graph to it. |
| `WorkflowRun` | The workflow run as GitHub keeps it and, with a lag, shows it (external). An attempt and the number of its failed jobs stand for the job list. |
| `RetryGate` | `main` of `ci_retry_gate.py` in report-only mode and in deferred auto-rerun mode, request by request, with the history lookup and the reconciliation of the previous decision. |
| `EffectBoundary` | `effect_executor.py` on top of `RetryGate`: several executions, also of one plan; POSTs that are answered, refused, lost or late; receipts; dying jobs. |
| `EffectLedger`, `EffectImplements` | What the audit chain promises, as a ledger of decisions, effects, receipts and credits that is only written to, and the refinement mapping from `EffectBoundary` to it. |
| `ArtifactListing` | The two lookups of `decision_history.py`, page by page, in a listing that grows at its front while artifacts expire and are deleted. |
| `OutcomeRecord` | The functions of `outcome_record.py` on the job lists of two attempts, read one job at a time in any order, with repeated names. |
| `ExecutionLease` | `execution_lease.py` and its command line: leases as sealed files that jobs issue, take over, resolve and download; the executor's lease check and the request that follows it. A lease carries the set `past` of the leases its digest commits to. |
| `ExternalRoot` | `external_monotonic_root.py` and its command line on top of `GitRefs`: roots that jobs attest for the anchor of a plan, the listing that shows them late and by the page, and the executor's verification request by request. |
| `JobEvidence` | From the logs of the failed jobs to ALLOW or BLOCK: `classify_log` with its scores and corrections, the provenance checks of `assess_job`, the bundle and its file, `evidence_gate.py`; and the plan of `selective_rerun.py`, which reads the logs again and judges them by itself. |
| `Contract` | The request, assumption, grant and decision of `eba_integration_contract.py` and the two profiles, as several gates build them and several executors read them; the check at the moment of the effect; the direct rerun of the gate; the receipts. |
| `SelectiveRerun` | `selective_rerun.py` on top of `WorkflowRun`, request by request, beside other reruns. |
| `FlakyHistory` | `flaky_test_history.py` up to its report: runs, their attempts and artifacts, the attribution of artifacts to attempts, recoveries and recommendations, the shadow comparison, the quarantine lifecycle; and `quarantine_enforcement.py`. |
| `FlakyIssues` | The rest of `flaky_test_history.py`: the comment (`flaky_triage.py`) and the issues (`flaky_issue_lifecycle.py`) of analyses that may race. |
| `RerunHistory` | What the gate learns from earlier runs: ground truth of reruns, samples, historical reliability, recommended policy, backtest. |
| `RetryPolicy` | `analysis.py` and `retry_policy.py` of the `workflow_failure_lab` package, on a record that loses data. |
| `..._proofs` | The theorems, with their proofs: a module each for `LinearizableLease`, `EffectBoundary`, `ExecutionLease`, `ExternalRoot` and `Contract`; `Evidence_proofs` for `JobEvidence`, `RetryPolicy`, `OutcomeRecord` and `ArtifactListing`; `Flaky_proofs` for `FlakyHistory` and `FlakyIssues`; `Reruns_proofs` for `SelectiveRerun` and `RerunHistory`. |
| `MCLease`, `MCEffect`, `MCExecutionLease` | Symmetry sets and views for TLC. |
| `MCBefore`, `MCAfter` | Instances of several components that do not interact: every behaviour is one of a single component (`part`), beside which the variables of the others keep their first values. |

`EffectBoundary` extends `RetryGate`, which extends `WorkflowRun`: the three share the run and the artifacts,
as the programs do. A definition whose comment begins "What X would be if" is a deliberately wrong variant of the
definition X that follows it; the table of `mutants` in `PROJECT.json` says which property notices it. No
specification uses them.

### Correspondence with the code

Gate and executor:

* `gate[g].step` of `RetryGate` is the place in `main` of `ci_retry_gate.py`: `idle`, `jobs` (the run is read),
  `history`, `trail` (record found), `assess`, `rereadRun` and `rereadJobs` (the two requests of
  `revalidate_rerun_subject_binding`), `written`, `stored`. A failing request of the first part ends the program
  (`GateDies`), of the history part leaves it without a parent (`NoParent`), of the last part blocks (`Block`).
  Log evidence, classification and the other policy conditions are the choice between `Block` and `Allow`;
  what is kept of the policy is that it needs a failed job and an attempt below `max-attempts`. `JobEvidence`
  says what that choice rests on.
* `FoundParent` of `RetryGate` looks at all artifacts at one moment. `ArtifactListing` has the requests: `matches` are
  pairs of a page and an id, as an artifact that is pushed to the next page between two requests is found twice, and two
  matches are an error. What `newestFirst` lists moves down when something is uploaded and up when something is deleted.
  `since`, `steady` and `fits` are history. A lookup need not see the listing as it was at any one moment: a rival may
  expire before its page is read and the artifact found after its own. `LookupsAgree` is the part of the atomic lookup
  that holds: lookups of one record that nothing disturbs never go on with two artifacts that both still stand.
* In `EffectImplements` a decision counts as decided once its record is stored and admits the rerun, an execution as
  closed once its POST has been carried out, or can be neither sent nor carried out any more.
* `exec[e].step` is the place in `main` of `effect_executor.py`. `late` is history: the API already showed
  another state than the plan's when the execution began. The fence, root, lease and contract checks appear as
  `NOT_EXECUTED` that may always happen; only the run's own state is checked in the model, which is the
  weaker assumption for every safety property here.
* `GitHubAPI.request` repeats a GET and not a POST, and turns HTTP errors and lost connections into one kind
  of error: `PatchRefused` and `PatchUnanswered` lead to the same step, as do `DispatchRefused` and
  `DispatchUnanswered`. A 2xx answer whose body cannot be decoded escapes the handlers and ends the program:
  `Dies` at `dispatch`.

Evidence and contract:

* A log line of `JobEvidence` is what the patterns make of it: a kind, with the weights it scores in each category.
  The kinds are representatives of the rules of `_CATEGORY_RULES`, chosen so that every branch of the confidence is
  taken: lines of two categories, a symptom beside its cause, an unanchored phrase, a line that is not evidence.
  Several lines of a kind differ by a number, as the code counts a text once. Only the first three texts of a
  category are cited, and only these are looked for within two seconds of a failed step. `truth` and `read` are history.
  `PlanAlone` is the plan of `selective_rerun.py`: it asks for each log again, may get one that the gate could not get or
  miss one, and has no fallback to annotations. It may also know of a side effect in a job that did not fail (`elsewhere`).
* In `Contract` an artifact is its content, as its id and digest are hashes of it. The four files (and the plan) of
  an executor are named by inputs of their own, so any mixture of the files of gates that have written theirs may be
  read. `since` and `at` are history: the time when the request was made and when the effect was admitted, where the
  code has only the clock of its process, which may be ahead by `Skew`. `PostAtGate` is the POST of the gate itself, without `defer-effect`.
* A gate that dies without a request on its way is one that takes no further step.

Leases and roots:

* In `ExecutionLease`, `files[w]` is what the current job of executor `w` has downloaded or written, and is taken as
  its registry directory: which leases it lacks is a matter of which it has not downloaded. `clock` is the time of the
  slowest clock, and every reading is at most `MaxSkew` ahead of it. `admitted[w]` lasts from the lease check to the
  request; the guards in between (fence, root, decision, revalidation, contract) may refuse, which looks like the end
  of the job. Nothing forbids two `initial` leases, as nothing in the command line does. A lease file counts as
  downloadable once it is written: the upload that follows in the workflow is part of the writing step, and a job
  that dies in between leaves a lease nobody downloads.
* In `ExternalRoot` there are no refs: whoever can delete a ref and create it again makes it point at any commit, so all
  that `verify_fencing_token` tells is what the token's own metadata say (`Begin`). The command line compares epoch,
  token and state of a root with nothing, and so does `Attest`; `Orderly` (roots attested along the lineage) and `Honest`
  (CLOSED only for a tombstone) are what the calling workflow has to see to, and appear as conditions of the properties
  that need them. `floor` is history: what the listing held when the execution began. A root that is listed later does
  not stop an execution that has read its page.

After the run:

* `SelectiveRerun`: the failed jobs of an attempt are numbered in the order of their ids, of which `execute_selective_epoch`
  takes the smallest. Its second look asks for the run first and for the job afterwards; a later attempt lists a job it
  does not run again as it was, so the job alone does not tell (`TargetListed`).
* `FlakyHistory`: `second` is the clock of the API, coarse enough that windows of attempts meet. An artifact belongs to
  the attempt that made it, which the API does not show: `Attributed` is what `_artifact_attempt_from_metadata` takes it
  to be of. Runs are listed first (`ListRuns`), artifacts and windows are read later (`Analyse`); between the two, runs
  finish and are run again. The run analysed may be in progress (`until` is when it was last updated) and, if it is not
  among the newest, takes the place of the last of them. `InTurn` is the order in time, where the code goes by run and
  attempt. After `Analyse` nothing looks at the runs, and the model stops them.
* `FlakyIssues`: the issues updated last (`recent`) and the issues the search knows (`indexed`) are two views of the
  issues that lag apart; an issue may be in neither, and `missed` records who was looking for it then. People close,
  reopen and comment. `Fail` is a request that raises, before or after it took effect.
* `RerunHistory`: an attempt lists all jobs of its run, the ones it executed and copies of the others with the same start,
  which is what `recovery_ground_truth.py` tells them apart by. A run may be run again long after newer ones.
* `RetryPolicy`: the loss of a field, of a step or of all steps is one step of the model; the property compares the verdicts
  before and after it.

## Runs

| Run | Bounds | Shows |
|---|---|---|
| `lease_stable` | 2 workers, 4 commits, 1 ref, 1 late update | `SingleWinner`, `NeverReturns`, `WinnerIsAncestor`, `StaleTokenStops`; every step of the lease is a step of `LeaseRegister` (`ImplementsRegister`). Three commits besides the root allow two siblings on one base and a successor of the winner, which is the longest story a property speaks of. |
| `lease_aba` | 2 workers, 3 commits, coordination and witness refs, coordination deletable | `NoResurrection`: a token the witness had left does not pass although the coordination ref was recreated at it. |
| `effect_safety` | 2 gates, 2 executions, 3 attempts, `max-attempts` 2 | `ReceiptIsTrue`, `OneEffect`, `EffectAfterAudit`, `DispatchIsReal`; every step is one of `EffectLedger` (`ImplementsLedger`). Two executions can share a plan or carry out two plans; the third attempt is the one nobody should start. |
| `effect_takeover` | 1 gate, 2 executions, up to 2 failed jobs | `LateHasNoEffect`; `Reports` under weak fairness. |
| `audit_history` | 4 gates on 2 attempts without an execution, or 3 with one (`FewAdmitted`) | `OneParent`: two records to confuse and two later gates to pick them. `CreditIsDue`: two records, one of which is executed, and a later gate. |
| `epoch_safety` | 3 leases, 2 owners, 1 effect, lifetime 1, clocks up to 1 apart, time to 2, 2 checks | `HandoverOrder`, `HandoverInTime`, `MutualView`, `SoleOwner`. Three leases are a chain of two takeovers, a contention and its resolution, or a contender taken over while the other is valid. A lease can run out and be taken over on one clock while it is valid on another. |
| `before` | `JobEvidence`: 2 failed jobs, 2 and 1 log lines of 9 kinds, 2 timed steps and one without times, 2 moments, attempts and limits to 2 | `AllowIsEvidenced`, `SelectiveAgrees`. Two lines are what every branch of the confidence compares (a cause and what competes with it); two jobs, that one bad job stops all, and that the plan and the gate may have read different ones. |
| | `ExternalRoot`: 1 execution, 3 commits, epochs 1 and 2, 4 roots, pages of 3 | `LatestRootOnly`, `FloorHolds`, `ClosedHistoryEnds`. Four roots allow a fork, an old root beside a later one, and a listing that does not fit the page. |
| | `Contract`: 2 gates, 1 executor, 1 revision, 1 bundle, term 1, clocks up to 1 apart, time to 2 | `AdmittedOnBasis`, `AdmittedInTerm`, `AcceptedIsReported`. Two gates on one revision are the files that are easiest to mix up; what is issued first has run out at the end, on some clock or on all. |
| | `ArtifactListing`: 1 lookup, 5 uploads, 2 pages of 2 | `NoRival`. Two pages are enough for an artifact to be pushed over their border and for one to be passed over; the fifth artifact is one that the pages do not hold. |
| `after` | `FlakyHistory`: 2 runs of one revision or two, 2 attempts each, 2 artifacts each, 2 moments, 1 manifest entry | `RecoveriesAreReal`, `ActiveIsEarned`, `ReleasedIsHealthy`, `ShadowLooksBack`. A quarantine needs recoveries on two revisions, which two runs that are each run again have. |
| | `FlakyIssues`: 2 analyses, 1 test, 3 statuses, 2 issues, pages of 1 comment | `IssuesUnique`, `CommentUnique`, `SettledAsSeen`. The second issue, and the second comment, are the ones that should not be. |
| | `SelectiveRerun`: 1 execution, 3 attempts, `max-attempts` 2, 2 failed jobs | `OneRerunPerEpoch`. |
| | `OutcomeRecord`: 2 names, 2 jobs for each attempt | `ClaimsHaveWitnesses`. |
| | `RerunHistory`: 2 jobs, 3 runs, 4 attempts in all, 1 failed request, 1 sample needed | `RecoveryIsRerun`, `BacktestIsEarned`. Four attempts are two runs that are each run again, a run that is run twice again beside another, or an older run that is run again late. |
| | `RetryPolicy`: up to 2 steps | `OnlyMissingStepProves`. Two steps are one that is lost and one that is left. |
| `lease_loss`, `beyond_max_attempts`, `outcome_recovered`, `owned_effect` | smallest that show it | the four disagreements below. |

No run repeats a type invariant: each of them is a theorem.

Deadlock is not checked in the effect and audit runs and in `before` and `after`, because attempts, gates, executions,
roots and everything else there is bounded, and the system may come to its end; in the runs of the two leases, whose
calls and jobs start over, it is. `View` in `MCLease` leaves out the result of a finished call, which no action reads.
Symmetry is used for safety properties only.

Fairness: `FairSpec` of `EffectBoundary` has weak fairness of `Proceed(e)`, the steps an execution takes by itself. A
process that was started and has not died goes on; every one of its requests ends, because each has a timeout of 30
seconds. Nothing is assumed of GitHub, of other people, or of the scheduling of jobs. `Reports` allows for a dead job.
The other components promise nothing that must happen: their programs run once, when a workflow calls them, and a
request that fails may end them.

## Disagreements between code and text

Shown by a run:

1. `lease_loss`: a claimant whose update was carried out and whose answer got lost is told `CAS_LOST`
   (`linearizable_lease.py:245`), although the head that is read back is its own candidate. Safe, but the lease is
   then held by nobody until it is taken over; the module's text says that only later siblings lose.
2. `beyond_max_attempts`: when somebody else reruns the run between the executor's last read and its POST, the
   gate's own dispatch can exceed `max-attempts`,
   "Maximum total attempts for the target workflow run" (`action.yml:31`).
3. `outcome_recovered`: a job that failed and was then cancelled or skipped is neither recovered, recurrent nor
   missing, so `RECOVERED_AFTER_RERUN` is recorded with the reason that every failed job succeeded.
4. `owned_effect`: the lease is checked once, before all other guards; it can have expired, and a successor can have
   been issued, when the rerun is requested, although a worker may execute "only while it owns" the lease
   (`execution_lease.py:3`). `HandoverOrder` says what does hold: checks pass in the order of the leases.

Met while modelling, without a run of their own; the models follow the code:

* The reasons of a reconciliation speak of "the gate-dispatched next attempt" (`outcome_record.py:284-302`). When somebody
  else makes attempt n + 1 between the executor's last read and its POST, the POST makes n + 2; the receipt of n confirms
  a dispatch, and n + 1 is credited to the gate. `DispatchIsReal` says "an attempt after the one decided on", not the next.
* A runner-loss annotation can take the place of a log that is gone (`docs/technical-reference.md:20`,
  `ci_retry_gate.py:1436-1477`). The selective plan has no such fallback (`selective_rerun.py:389-395`): the gate may allow
  where the plan blocks, and the two may differ as well when one of them gets a log that the other could not get.
  `SelectiveAgrees` is about jobs whose logs both have read.
* A recovery needs a "later execution" of the revision that passes (`docs/technical-reference.md:49`,
  `docs/adr/0004-flaky-test-intelligence-wave1.md:40` and `:54`). Later means a higher run number, or attempt of one run
  (`flaky_test_intelligence.py:160`): when two runs of a revision pass and the older one is run again and fails, that
  failure counts as recovered by the newer run's pass, which came before it. `RecoveriesAreReal` and `ActiveIsEarned`
  exempt a failure of an older run run again (`FailedAgain`), and TLC finds them violated without that.
* "Later runs update the same Issue instead of creating duplicates" (`docs/technical-reference.md:358`): two analyses that
  race create two issues, and so does one that looks while an issue is no longer among the 100 updated last and not yet
  known to the search (`find_managed_issue`, `flaky_issue_lifecycle.py:245`). `IssuesUnique` says that nothing else does.
* "Missing or ambiguous evidence must classify as `INDETERMINATE`" (`docs/adr/0001-scope-and-vocabulary.md:34`, also
  `analysis.py:3-8`): a step that is missing altogether leaves no trace. Without its unfinished step, a record with a
  confirmed failure becomes `FAILED_CONFIRMED`, which permits a retry; without its failing step, one with status success
  becomes `SUCCEEDED`. `OnlyMissingStepProves` says that no other loss does either.
* What holds of `max-attempts` and the executor (2. above) holds of the selective rerun: the attempt assessed is below the
  limit (`OneRerunPerEpoch`), and a foreign rerun before its request arrives can take it beyond.

* `find_previous_decision_artifact` finds "one unique non-expired DER artifact" (`decision_history.py:95`) among those on
  the pages it reads. When an artifact is deleted between two pages, the next one moves up past the lookup; and beyond
  the fifth page nothing is read. In both cases the other of two candidates counts as unique. `NoRival` holds without
  such a deletion and up to five pages, and TLC finds it violated when either condition is dropped.
* `safe-to-rerun` is "true only when every failed job is a high-confidence transient failure" (`action.yml:226`), of the
  failed jobs among the first 100 jobs of an attempt: `get_jobs` reads one page (`ci_retry_gate.py:1232`). The failed jobs
  of the models are those on that page.
* "Mixed evidence" blocks (`docs/technical-reference.md:859`), but a line that is specific to a transient category gives
  high confidence beside a line of another category that scores no more than 2 (`classify_log`).
* A revision whose test failed, passed and failed again counts as recovered, not as a persistent failure
  (`RecoveredAt`); whether that failure is "unresolved" (`docs/adr/0004-flaky-test-intelligence-wave1.md:52`) may be argued.
* Artifacts whose name tells no attempt are not all "skipped" (`docs/technical-reference.md:89`): they are attributed
  by the time windows of the attempts where exactly one fits (`Attributed`).
* "Only evidence older than each simulated decision" (`policy_shadow.py:79`) and recoveries "observed before the current
  failure" (`ci_retry_gate.py:897`) are ordered by the creation of runs. An older run may be run again after the failure,
  and its rerun then counts. `BacktestIsEarned` says "created before", as the code does.
* After a direct rerun was accepted, a failing request for the history ends the gate without a receipt
  (`ci_retry_gate.py:2063`, `HistoryUnavailable`).
* A copy of a failed job in a later attempt is itself a failed job of that attempt, and so a sample of its own in the
  history. `RecoveryIsRerun` says that its ground truth is about executions all the same.

## Proofs

`LinearizableLease_proofs` proves for any number of workers, commits, refs and plans, from the assumptions
`StoreAssumption` and `LeaseAssumption`:
`Typing`, `NoReturn` (`NeverReturns`), `OneWinner` (`SingleWinner`), `WinnersStay` (`WinnerIsAncestor`) and
`WitnessFences` (`NoResurrection`). None of them is inductive by itself. The invariant adds that reachability is
a partial order closed downwards (`Reachability`), that in the history of any commit a base occurs once
(`Linear`, what "one parent" means), that what a ref has left lies strictly behind its head (`Behind`), and what
calls in progress hold (`Candidates`, `Winners`, `LateChecks`). A step does one of few things to the commit graph
(`GraphStep`) and to the refs (`RefStep`); each part is proved against those shapes and the worker actions that
touch it.

Two more theorems rest on the same invariant. `RefFences` (`StaleTokenStops`): if nobody deletes the coordination ref,
the first read of a check lets no token through that the ref has left. The read is of one moment, the ref stands at
the token then, and what a ref has left lies behind its head (`FirstRead`, `Behind`). `LeaseRefinement`: under the
assumption that nobody deletes the coordination ref, which is what `lease_stable` is set up with, every step
implements one of `LeaseRegister` or a stutter. The decisions are the history of the head, one for each base
(`OneDecision`, from `Linear`); they only grow, as a ref moves forward only (`DecidedGrows`); and what a confirming
read grants has been decided (`GrantStep`). Without the assumption it is false: a ref that is deleted forgets its
decisions.

`EffectBoundary_proofs` proves for any number of decisions, executions, attempts and failed jobs, from `RunAssumption`
and `GateAssumption`: `Typing`, `TruthfulReceipts` (`ReceiptIsTrue`), `AtMostOnce` (`OneEffect`), `LateTakeover`
(`LateHasNoEffect`), `AuditFirst` (`EffectAfterAudit`) and `Reconciliation` (`DispatchIsReal`). They share one
inductive invariant, `IInv`, checked by TLC before it was proved. What it adds: an execution is without any effect
until it dispatches (`Fresh`), and a request on its way means that there is none yet (`Single`); a stored decision
never changes (`Decided`); whoever has an effect has a stored, admitted plan (`Planned`); snapshots of the run are
ordered, and no snapshot is ahead of the one the API shows (`Past`), so that a plan the run has left behind never fits
again; a late execution cannot get to its dispatch (`Lateness`); receipts agree with their executions (`Filed`); a
dispatched attempt comes after the one planned on (`Ahead`). `AuditFirst` adds that the jobs of an admitted decision
are those of its attempt: they were read after the run, which was found unchanged later (`Labelled`). To executions
and effects a step does one of six things (`Shape`), shown once in `Shapes`; the parts are then proved against those.
`UniqueParent` (`OneParent`) has an invariant of its own: a parent is a stored decision on the attempt before, and a
gate has none before its lookup (`Parented`). A lookup that finds two candidates finds none, so a second parent on one
attempt can appear only when the first has expired. `CreditToTheCause` (`CreditIsDue`) rests on the same: the decision
behind an attempt is stored and stands, so that the lookup finds it, or finds several and none.

`LedgerRefinement` says that every step implements one of `EffectLedger` or a stutter. Under the mapping a step of the
programs decides plans, settles executions, adds an effect, stores a receipt or credits a plan, and never two of these
that the ledger keeps apart (`LedgerSteps`, one case for each action). What has to be seen is that nothing is taken back
and nothing happens out of turn: an execution that is settled never dispatches again, as its POST is neither on its way
nor ahead of it (`SettlesOne`); the attempt that a POST starts comes after every attempt before it, and after the one its
plan was made on (`NewEffectIsNewest`); a receipt that tells of an effect, or of none, is about an execution that is
settled so (`ReceiptIssued`); and a plan is credited for an effect it has (`TrailCredits`). All of it rests on `IInv`.

`ExecutionLease_proofs` proves the type invariant and all four invariants of `epoch_safety` (`Typing`, `Handover`,
`HandoverTiming`, `SeenExcludes`, `Exclusion`) for any number of leases, owners and effects, any lifetimes and any skew,
from `LeaseAssumption`. The invariant says that a lease begins when all leases it commits to have ended, has a higher
epoch than they, and commits to one of every lower epoch (`Follows`), and that a check was made within its window with
the one lease of the highest epoch seen (`Valid`). The last part of `Follows` is what exclusion needs: if no epoch is
claimed twice, the lease of a lower epoch is the one committed to, and so has ended.

`ExternalRoot_proofs` proves the types and the three invariants of the external root in `before` (`Typing`, `Freshness`,
`HighWater`, `Closing`) for any number of executions, commits and roots and any page size, from `StoreAssumption` and
`RootAssumption`. The invariant says that reachability is a partial order (`Store`), and what each step of a
verification has established (`Progress`): past the listing, the root is above all of `floor`, because a page that is
not full is the whole listing and the listing only grows. `HighWater` then chains the order of the roots with the
comparison of the token.

`Contract_proofs` proves `OneBasis` (`AdmittedOnBasis`), `WithinTerm` (`AdmittedInTerm`) and `ReceiptsStand`
(`AcceptedIsReported`) for any number of gates, executors, revisions and bundles, any term and any skew, from
`ContractAssumption`. The invariant says that a gate keeps what it has built (`Built`: the decision is its verdict
narrowed by its own assumption and grant, dated within the skew), that a gate that may post has been admitted with the
decision it holds now (`Covered`), that an executor holds the decision of a gate that has written its files and so
changes no more (`Founded`), and that what it admitted was allowed at that moment (`Allowed`). A decision contains its
assumption and grant, so an executor with files of several gates is admitted only if they agree with those of one.
`ContractTyping` says besides that no gate and no executor sends a second POST: whoever has sent one has left the steps
from which one is sent (`Unposted`).

`Evidence_proofs` proves of `JobEvidence`, for any failed jobs, logs, steps and times, `AllowRestsOnEvidence`
(`AllowIsEvidenced`) and `GateAndPlanAgree` (`SelectiveAgrees`). The invariant (`EvidenceInv`) says that a confirmed
provenance means a transient line near a failed step (`ConfirmedIsTrue`: a text is cited for a category only where it
scores), and that what the gate said is what the written bundle leads to. Neither needs the scores to be numbers; the
types do (`EvidenceTyping`). The score of a category is the number of points of its texts, which are finitely many for
a finite log (`TextsFinite`, `ScoreType`). So one of the five categories leads (`LeaderUpTo`, one category at a time),
`TopIndex` chooses a category, and the gate a decision. `GateAndPlanAgree` rests on the two judging the same log where
both have one (`Alone`), and on an ALLOW that has an assessment of every job that is safe by itself. Its last part
needs a failed job: for none at all `evidence_gate.py` blocks, which the runs, with two failed jobs, do not show. Of
`RetryPolicy` it proves `PolicyTyping` and `LossIsSafe` (`OnlyMissingStepProves`) for records of any length, from
`PolicyAssumption`: a record that the loss of fields leaves unambiguous was unambiguous before, with the same steps
failing, and a missing step that passed or failed changes nothing that a retry rests on. Of `OutcomeRecord` it proves
`OutcomeTyping` and `ClaimsAreWitnessed` (`ClaimsHaveWitnesses`) for any number of names and jobs, from
`OutcomeAssumption`: in whatever order jobs are read, the map has for a name a conclusion that was listed for it, or
none was (`Kept`).

Of `ArtifactListing` it proves `ListingTyping`, `NoOtherCandidate` (`NoRival`) and `LookupsAgree` for any number of
artifacts, lookups and pages of any size, from `ListingAssumption`. The listing is in the order of the uploads
(`NewestFirst`). A lookup answers for the artifacts listed when it began, and for those older than what it has found
(`Claimed`): each that it would take has been found already or is on a page to come (`Looked`), because uploads push
artifacts towards the pages to come only. At the end there is no page to come: a page before a listed position is full
(`FullPage`), and the lookup ends on one that is not. `LookupsAgree` follows: the older of two answers would have been
found by the other lookup, too.

`Reruns_proofs` proves of `SelectiveRerun` the types (`SelectiveTyping`) and `OneRerun` (`OneRerunPerEpoch`) for any
number of executions, attempts, failed jobs and reruns by others, from `RunAssumption` and `TriesAssumption`. The
invariant says that an execution that has not ended has sent nothing (`Unsent`), that a request without an answer has
not started an attempt yet (`Open`), and that whoever is past the second look has a safe job and an attempt below the
limit (`Allowed`). Of `RerunHistory` it proves `RerunTyping`, `RecoveriesWereRun` (`RecoveryIsRerun`) and
`BacktestCounts` (`BacktestIsEarned`) for any number of jobs, runs and attempts and any requests that fail, from
`RerunAssumption`. A later attempt lists of a job what an earlier one does, or an execution that started after it
(`Chronicle`). So a listing with another start is of a later execution, even where the jobs of an attempt were read as
those of a later one (`JobsOf`, `TruthOf`). A listed failure is one sample (`Studied`), so the samples of one job that
the backtest counts are as many runs (`RunsOf`), which is why a share of samples is a share of runs.

`Flaky_proofs` proves of `FlakyHistory` the types (`HistoryTyping`), `RecoveriesHappened` (`RecoveriesAreReal`),
`ActiveIsWarranted` (`ActiveIsEarned`), `ReleaseIsEarned` (`ReleasedIsHealthy`) and `ShadowIsPrior`
(`ShadowLooksBack`) for any number of revisions, runs, attempts, moments and entries, from `HistoryAssumption`. The
invariant orders the attempts of a run in time, and the first attempts of the runs by their numbers (`Numbered`), and
puts every artifact inside its attempt (`RunsInv`). Windows then overlap at their ends at most, and an artifact that
fits exactly one of those listed was made by that attempt or, if that is the last one listed, by it or a later one
(`OneWindow`, `AttributionOf`). Neither kind of mistake puts a pass before the failure it followed, unless that
failure is of an older run that was run again (`InTurnIfEarlier`): a first attempt of an older run began before the
newer run did. So a recovery is one whichever attempts the artifacts were attributed to, or is of that kind
(`FailedAgain`). What the analysis concluded is kept as it was concluded (`Findings`), because nothing that happens
afterwards changes an artifact.

Of `FlakyIssues` it proves the types (`IssuesTyping`), `OneIssue` (`IssuesUnique`), `OneComment` (`CommentUnique`) and
`Settling` (`SettledAsSeen`) for any number of analyses, tests and issues and any page size, from `IssuesAssumption`.
The invariant says that an analysis on its way to the search leaves out only issues the search will find, and that one
about to create an issue, or to post a comment, knows that there is none (`Unseen`, `Unposted`), unless another has
been faster, which `raced` records, or an issue was on neither list, which `missed` records. The types include that no
analysis exceeds its changes, which holds because it takes up a test only while one is left (`Modest`). `Settling`
adds that an undisturbed analysis is the only one running (`Solitary`), that what it has seen is still so, and that
each test it has finished with is settled (`Tidy`).

Only model-checked: `Reports`, because liveness is outside the prover. The combinations of components in `MCBefore`
and `MCAfter` have no theorem of their own; the behaviours of each component in them are those of its specification.

## Not modelled

* Redaction, rendering of reports, comments and outputs: no control state. The text of a log line is reduced to the rules
  it matches, the text of an issue to its status.
* Digests and schema checks of artifacts: an artifact is what its program wrote, or another that does not verify. The
  models say nothing of digests that collide.
* Jobs beyond the first 100 of an attempt, which the code never sees; the download of artifacts and its limits.
* Failed jobs of one attempt with equal names, in `RerunHistory`; `OutcomeRecord` has them.
* Ownership and durations of tests, coverage attribution, decision experience: counts of what the modelled parts say.
* Promotion gates: studies of unknown failures, each a function of one report or log. `history_ci_waste.py` and
  `benchmark_mode.py` copy one of their labels into a record, and no decision reads it.
* Benchmark, doctor, research, release scripts: batch programs without state that a later step depends on. The
  end-to-end helpers poll the run, or inject the faults that `EffectBoundary` has as actions.

## Plan

1. Done: lease, audit chain with effect, reconciliation, execution lease and external root, with their proofs.
2. Done: evidence, contract, selective rerun, flaky history with quarantine and enforcement, issues, rerun history, retry
   policy, artifact listing, with their proofs; the refinements of `LeaseRegister` and `EffectLedger`, proved.
3. `GuardedEffect`: the executor behind fence, root and lease, with the claim that two holders do not both cause an
   effect unless a lease changed hands between check and dispatch.
