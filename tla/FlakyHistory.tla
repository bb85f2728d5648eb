----------------------------- MODULE FlakyHistory -----------------------------
(***************************************************************************)
(* flaky_test_history.py with runtime/flaky/: what the JUnit artifacts of  *)
(* past runs say of one test, the lifecycle of its quarantine, the shadow  *)
(* comparison, and the enforcement of the quarantine in a later job.       *)
(*                                                                         *)
(* Runs, numbered as they were created, execute a revision, one attempt    *)
(* after the other; a run may be run again after later runs have started.  *)
(* An artifact belongs to the attempt that made it, but the API shows only *)
(* its run, its name and when it was made: whether the name tells the      *)
(* attempt is a convention of the workflow file, so of the revision.       *)
(***************************************************************************)
EXTENDS Naturals, FiniteSets

CONSTANTS
  LastSha,        \* bound: revisions
  Manifest,       \* entries of the test that a manifest may hold
  CleanShas,      \* quarantine-release-clean-shas
  HistoryRuns,    \* flaky-history-runs
  LastCi,         \* bound: runs
  LastAttempt,    \* bound: attempts of a run
  MaxReports,     \* bound: artifacts of a run
  LastSecond      \* bound: the last moment of a behaviour

Sha == 1 .. LastSha
Run == 1 .. LastCi
Attempts == 1 .. LastAttempt
Moment == 0 .. LastSecond
Ids == {"tracked", "other"}  \* of the failing tests that enforcement sees

\* Approved from `from', until `to', active since run `since' (0: an older run).
Entry == [from : Moment, to : Moment, since : 0 .. LastCi]
ASSUME HistoryAssumption ==
  /\ LastSha \in Nat /\ LastCi \in Nat /\ LastAttempt \in Nat \ {0} /\ LastSecond \in Nat
  /\ HistoryRuns \in Nat \ {0}
  /\ Manifest \subseteq {e \in Entry : e.from < e.to}

Report == [run : Run, attempt : Attempts, at : Moment, status : {"pass", "fail"}]

VARIABLES
  second,    \* the time
  ci,        \* ci[r]: revision, current attempt, whether it runs, its windows
  naming,    \* the revisions whose artifacts are named after their attempts
  reports,   \* the artifacts
  analysis   \* the progress and the findings of an analysis

historyVars == <<second, ci, naming, reports, analysis>>

Unstarted == [sha |-> 0, attempt |-> 0, open |-> FALSE,
              from |-> [a \in Attempts |-> 0], to |-> [a \in Attempts |-> 0]]

\* quiet is history: no run was run again since the runs were listed.
NoAnalysis == [step |-> "none", subject |-> 0, listed |-> [r \in Run |-> 0],
               obs |-> {}, quiet |-> TRUE, entries |-> {}, states |-> {}, at |-> 0,
               masked |-> {}]

HistoryInit ==
  /\ second = 0
  /\ ci = [r \in Run |-> Unstarted]
  /\ naming \in SUBSET Sha
  /\ reports = {}
  /\ analysis = NoAnalysis

-------------------------------------------------------------------------------
(* The runs.                                                               *)

Begun(r) == ci[r].attempt > 0

\* Bound: once the artifacts are read, no later step looks at the runs.
Watched == analysis.step \in {"none", "listed"}

NextSecond ==
  /\ Watched /\ second < LastSecond
  /\ second' = second + 1
  /\ UNCHANGED <<ci, naming, reports, analysis>>

\* Revisions are numbered as runs of them first begin.
StartCi(r, v) ==
  /\ analysis.step = "none"     \* bound: a later run is not in the listing
  /\ ~Begun(r) /\ \A q \in Run : q < r => Begun(q)
  /\ \A u \in Sha : u < v => \E q \in Run : ci[q].sha = u
  /\ ci' = [ci EXCEPT ![r] =
       [@ EXCEPT !.sha = v, !.attempt = 1, !.open = TRUE, !.from[1] = second]]
  /\ UNCHANGED <<second, naming, reports, analysis>>

Upload(r, s) ==
  /\ Watched /\ ci[r].open
  /\ Cardinality({q \in reports : q.run = r}) < MaxReports
  /\ reports' = reports \cup
       {[run |-> r, attempt |-> ci[r].attempt, at |-> second, status |-> s]}
  /\ UNCHANGED <<second, ci, naming, analysis>>

FinishCi(r) ==
  /\ Watched /\ ci[r].open
  /\ ci' = [ci EXCEPT ![r].open = FALSE, ![r].to[ci[r].attempt] = second]
  /\ UNCHANGED <<second, naming, reports, analysis>>

RerunCi(r) ==
  /\ Watched /\ Begun(r) /\ ~ci[r].open /\ ci[r].attempt < LastAttempt
  /\ LET n == ci[r].attempt + 1
     IN  ci' = [ci EXCEPT ![r] = [@ EXCEPT !.attempt = n, !.open = TRUE, !.from[n] = second]]
  /\ analysis.quiet              \* bound: one run is run again after the listing
  /\ analysis' = [analysis EXCEPT !.quiet = @ /\ analysis.step = "none"]
  /\ UNCHANGED <<second, naming, reports>>

-------------------------------------------------------------------------------
(* collect_flaky_history                                                   *)

\* The end of attempt a of run x, as the API has it: an attempt in progress has
\* been updated at some moment, `until', since it began.
End(x, a, until) == IF x.open /\ a = x.attempt THEN until ELSE x.to[a]
Containing(q, k, until) ==
  LET x == ci[q.run]
  IN  {a \in 1 .. k : x.from[a] \leq q.at /\ q.at \leq End(x, a, until)}

\* What Unambiguous would be if the last window were taken.
AnyWindow(w) == w # {}
Unambiguous(w) == Cardinality(w) = 1
LastOf(w) == CHOOSE a \in w : \A b \in w : b \leq a

\* _artifact_attempt_from_metadata: the attempt an artifact of a run listed
\* with k attempts is taken to be of, or 0; known: the windows could be read.
Attributed(q, k, known, until) ==
  IF ci[q.run].sha \in naming THEN q.attempt
  ELSE IF k = 1 THEN 1
  ELSE LET w == Containing(q, k, until) IN IF known /\ Unambiguous(w) THEN LastOf(w) ELSE 0

\* An artifact is dated by the attempt it is attributed to where the windows
\* were read, and otherwise by the run as it was listed.
Dated(q, k, known, until) ==
  LET a == Attributed(q, k, known, until)
  IN  ci[q.run].from[IF ci[q.run].sha \notin naming /\ k > 1 THEN a ELSE k]

Observed(q, k, known, until) ==
  [sha |-> ci[q.run].sha, run |-> q.run, attempt |-> Attributed(q, k, known, until),
   dated |-> Dated(q, k, known, until), status |-> q.status, report |-> q]

\* _completed_runs: the newest runs that have completed, with the run analysed,
\* which may be older, or still in progress, in the place of the last of them.
Completed == {q \in Run : Begun(q) /\ ~ci[q].open}
Newest(n) == {q \in Completed : Cardinality({p \in Completed : p >= q}) \leq n}
Scanned(r) ==
  IF r \in Newest(HistoryRuns) THEN Newest(HistoryRuns) ELSE {r} \cup Newest(HistoryRuns - 1)
ListRuns(r) ==
  /\ analysis.step = "none" /\ Begun(r)
  /\ analysis' = [NoAnalysis EXCEPT !.step = "listed", !.subject = r,
       !.listed = [q \in Run |-> IF q \in Scanned(r) THEN ci[q].attempt ELSE 0]]
  /\ UNCHANGED <<second, ci, naming, reports>>

-------------------------------------------------------------------------------
(* summarize_flaky_tests                                                   *)

Earlier(o, p) == o.run < p.run \/ (o.run = p.run /\ o.attempt < p.attempt)

Failures(obs) == {o \in obs : o.status = "fail"}
Passes(obs) == {o \in obs : o.status = "pass"}
At(obs, v) == {o \in obs : o.sha = v}

\* _same_sha_evidence: the first failure of the revision is followed by a pass.
RecoveredAt(obs, v) ==
  \E f \in Failures(At(obs, v)), p \in Passes(At(obs, v)) :
    /\ \A g \in Failures(At(obs, v)) : ~Earlier(g, f)
    /\ Earlier(f, p)

Recoveries(obs) == {v \in Sha : RecoveredAt(obs, v)}
Persistent(obs) == {v \in Sha : Failures(At(obs, v)) # {} /\ ~RecoveredAt(obs, v)}

Candidate(obs) == Persistent(obs) = {} /\ Cardinality(Recoveries(obs)) >= 2

\* _recommend
Recommended(obs) ==
  IF Candidate(obs) THEN "QUARANTINE_CANDIDATE"
  ELSE IF Persistent(obs) = {} /\ Recoveries(obs) # {} THEN "INVESTIGATE"
  ELSE "DO_NOT_QUARANTINE"

-------------------------------------------------------------------------------
(* historical_flakiness_shadow.py                                          *)

\* What Prior would be if runs were ordered by their numbers.
PriorByRun(o, c) == Earlier(o, c)
\* _prior
Prior(o, c) == IF o.run = c.run THEN o.attempt < c.attempt ELSE o.dated < c.dated
Unordered(o, c) == o.run # c.run /\ o.dated = c.dated

\* The failures of the attempt analysed.
Subject(obs) ==
  {o \in Failures(obs) : /\ o.run = analysis.subject
                        /\ o.attempt = analysis.listed[analysis.subject]}
PriorTo(c) == {o \in analysis.obs : Prior(o, c)}

\* _evaluate
Shadow(c) ==
  IF \E o \in analysis.obs : Unordered(o, c) THEN "ORDERING_UNAVAILABLE"
  ELSE IF PriorTo(c) = {} THEN "NO_PRIOR"
  ELSE IF Persistent(PriorTo(c)) # {} THEN "CONTRADICTION"
  ELSE IF Cardinality(Recoveries(PriorTo(c))) >= 2 THEN "SUPPORT" ELSE "INSUFFICIENT"

-------------------------------------------------------------------------------
(* evaluate_lifecycle                                                      *)

After(obs, e) == {o \in obs : o.run > e.since}
NewestRun(obs) == CHOOSE r \in {o.run : o \in obs} : \A o \in obs : o.run \leq r

\* What Streak would be if it counted revisions whatever came after them.
CleanAtAll(obs) == {v \in Sha : At(obs, v) # {} /\ Failures(At(obs, v)) = {}}
\* clean_revision_streak: the revisions newer than any that failed.
Streak(obs) ==
  {v \in Sha : /\ At(obs, v) # {}
               /\ \A u \in Sha :
                    Failures(At(obs, u)) # {} => NewestRun(At(obs, u)) < NewestRun(At(obs, v))}

\* What Lapsed would be if the last moment still counted.
LapsedAfter(e) == second > e.to
Lapsed(e) == second >= e.to

LifecycleState(obs, e) ==
  IF second < e.from THEN "BLOCKED_UNVERIFIED"
  ELSE IF Lapsed(e) THEN "EXPIRED"
  ELSE IF obs = {} THEN "BLOCKED_UNVERIFIED"
  ELSE IF Persistent(obs) # {} THEN "BLOCKED_REGRESSION"
  ELSE IF Cardinality(Streak(After(obs, e))) >= CleanShas THEN "RELEASED_HEALTHY"
  ELSE IF Recommended(obs) # "QUARANTINE_CANDIDATE" THEN "BLOCKED_UNVERIFIED"
  ELSE "ACTIVE"

\* The artifacts of the listed runs, as they are now: one that cannot be
\* attributed is skipped, one that cannot be read ends the analysis.  Then the
\* manifest of the revision, with one entry of the test, or none: there is no
\* manifest, or it cannot be read.
Analyse(known, until, entries) ==
  /\ analysis.step = "listed"
  /\ LET x == ci[analysis.subject] IN x.open => x.from[x.attempt] \leq until /\ until \leq second
  /\ LET k == analysis.listed
         read == {q \in reports : k[q.run] > 0 /\ Attributed(q, k[q.run], known, until) > 0}
         obs == {Observed(q, k[q.run], known, until) : q \in read}
     IN  analysis' = [analysis EXCEPT !.step = "analysed", !.obs = obs,
           !.at = second, !.entries = entries,
           !.states = {LifecycleState(obs, e) : e \in entries}]
  /\ UNCHANGED <<second, ci, naming, reports>>

-------------------------------------------------------------------------------
(* quarantine_enforcement.py: a later job runs the tests.                  *)

ActiveTests == IF "ACTIVE" \in analysis.states THEN {"tracked"} ELSE {}

\* The command fails with some tests, or broken: without a report, with more
\* failures than the report names, or with none.
Excused(failed, broken) == ~broken /\ failed # {} /\ failed \subseteq ActiveTests

\* The job succeeds all the same; one that fails leaves nothing to look at.
Enforce(failed, broken) ==
  /\ analysis.step = "analysed" /\ Excused(failed, broken)
  /\ analysis' = [analysis EXCEPT !.masked = failed]
  /\ UNCHANGED <<second, ci, naming, reports>>

-------------------------------------------------------------------------------
HistoryNext ==
  \/ NextSecond
  \/ \E r \in Run :
       \/ \E v \in Sha : StartCi(r, v)
       \/ \E s \in {"pass", "fail"} : Upload(r, s)
       \/ FinishCi(r)
       \/ RerunCi(r)
       \/ ListRuns(r)
  \/ \E known \in BOOLEAN, until \in Moment, entries \in {{}} \cup {{e} : e \in Manifest} :
       Analyse(known, until, entries)
  \/ \E failed \in SUBSET Ids, broken \in BOOLEAN : Enforce(failed, broken)

HistorySpec == HistoryInit /\ [][HistoryNext]_historyVars

-------------------------------------------------------------------------------
HistoryTypeOK ==
  /\ second \in Moment
  /\ ci \in [Run -> [sha : 0 .. LastSha, attempt : 0 .. LastAttempt, open : BOOLEAN,
                     from : [Attempts -> Moment], to : [Attempts -> Moment]]]
  /\ naming \subseteq Sha
  /\ reports \subseteq Report

Began(q) == ci[q.run].from[q.attempt]

\* Execution p follows execution q, in time.
InTurn(q, p) == IF q.run = p.run THEN q.attempt < p.attempt ELSE Began(q) \leq Began(p)
Recovery(q, p, v) ==
  /\ q.status = "fail" /\ p.status = "pass" /\ ci[q.run].sha = v /\ ci[p.run].sha = v

\* In truth: an execution of the revision failed and one that followed it passed.
ReallyRecovered(v) == \E q, p \in reports : Recovery(q, p, v) /\ InTurn(q, p)

\* The execution that failed is of an older run, which was run again late: it may
\* have followed the one that passed, but _same_sha_evidence goes by the runs.
FailedAgain(v) ==
  \E q, p \in reports : Recovery(q, p, v) /\ q.run < p.run /\ q.attempt > 1

\* Every recovery the analysis counts is a failure and a pass that followed it,
\* whichever attempts the artifacts were attributed to (collect_flaky_history),
\* unless an older run was run again and failed: its failure may have been last.
RecoveriesAreReal == \A v \in Recoveries(analysis.obs) : ReallyRecovered(v) \/ FailedAgain(v)

\* A quarantine is active only while its approval lasts, by recoveries of at
\* least two revisions, real ones but for failures of older runs run again, and
\* not while a revision is known to fail only (evaluate_lifecycle, "fail-closed").
\* A later command that fails is green by failures of that test alone
\* (run_enforced).
ActiveIsEarned ==
  /\ analysis.masked # {} => analysis.masked = {"tracked"} /\ "ACTIVE" \in analysis.states
  /\ "ACTIVE" \in analysis.states =>
       /\ \A e \in analysis.entries : e.from \leq analysis.at /\ analysis.at < e.to
       /\ \E u, v \in Sha : u # v /\ \A w \in {u, v} : ReallyRecovered(w) \/ FailedAgain(w)
       /\ \A v \in Sha : Passes(At(analysis.obs, v)) = {} => Failures(At(analysis.obs, v)) = {}

\* A quarantine is released as healthy only if no failure is known of any run
\* as new as the clean revisions (clean_revision_streak).
ReleasedIsHealthy ==
  "RELEASED_HEALTHY" \in analysis.states =>
    \E clean \in SUBSET Sha :
      /\ Cardinality(clean) >= CleanShas
      /\ \A v \in clean :
           \E r \in Run :
             /\ \A e \in analysis.entries : r > e.since
             /\ \E o \in At(analysis.obs, v) : o.run = r
             /\ \A o \in analysis.obs : o.run >= r => o.status = "pass"

\* The shadow counts no execution that started after the failure it explains
\* (historical_flakiness_shadow.py, docs/adr/0013), unless a run was started
\* again between the listing and the download.
ShadowLooksBack ==
  analysis.step # "none" /\ analysis.quiet =>
    \A c \in Subject(analysis.obs) : Shadow(c) # "ORDERING_UNAVAILABLE" =>
      \A o \in PriorTo(c) :
        ci[o.run].from[o.report.attempt] \leq ci[c.run].from[c.report.attempt]
===============================================================================
