------------------------------ MODULE JobEvidence ------------------------------
(***************************************************************************)
(* From the logs of the failed jobs to ALLOW or BLOCK: classify_log and    *)
(* the provenance checks of ci_retry_gate.py, the bundle of                *)
(* evidence_producer.py, its file, and evidence_gate.py, a process of its  *)
(* own.  The plan of selective_rerun.py, made later in the same job, reads *)
(* the logs again: it may get one that the gate could not get, or miss one *)
(* that the gate has read, and it looks at no annotation.                  *)
(*                                                                         *)
(* A log line is what the patterns make of it: kinds of lines with the     *)
(* weights they score.  Lines of one kind and number have the same text.   *)
(***************************************************************************)
EXTENDS Integers, Sequences, FiniteSets, FiniteSetsExt

CONSTANTS
  Failed,       \* the failed jobs on the one page that get_jobs reads
  MaxLines,     \* MaxLines[j], bound: lines of the log of j that match a pattern
  LineKind,         \* the kinds of lines of an instance
  Copies,       \* bound: texts of one kind
  Instant,      \* times that lines carry, in seconds
  Step,         \* Step[s] = [from, to]: the steps, with the times of their ends
  LastTry       \* bound: run attempts, and the limits on them

\* LineKind, category and weight, the first rule of a category that matches.
Rules == {<<"lost", "RUNNER_INFRA", 5>>, <<"shutdown", "RUNNER_INFRA", 4>>,
          <<"unavailable", "RUNNER_INFRA", 3>>, <<"unavailable", "DEPENDENCY_NETWORK", 3>>,
          <<"curl", "DEPENDENCY_NETWORK", 5>>, <<"unresolved", "DEPENDENCY_NETWORK", 5>>,
          <<"read_timeout", "DEPENDENCY_NETWORK", 2>>,
          <<"killed", "RESOURCE_TIMEOUT", 5>>, <<"killed", "CODE_REGRESSION", 2>>,
          <<"flaky", "FLAKY_TEST", 5>>,
          <<"assertion", "CODE_REGRESSION", 4>>, <<"exit", "CODE_REGRESSION", 2>>}
\* _HIGH_SPECIFICITY_TRANSIENT_RULES; the lines that are terminal symptoms;
\* those with an operational anchor; those that are not evidence at all.
Specific == {<<"lost", "RUNNER_INFRA">>, <<"curl", "DEPENDENCY_NETWORK">>}
Symptoms == {"shutdown"}
Anchored == {"curl", "killed", "exit"}
NonCausal == {"quoted"}

\* In the order of _CATEGORY_RULES, which decides among equal scores.
Categories == <<"RUNNER_INFRA", "DEPENDENCY_NETWORK", "RESOURCE_TIMEOUT", "FLAKY_TEST",
                "CODE_REGRESSION">>
Transient == {"RUNNER_INFRA", "DEPENDENCY_NETWORK"}

Text == LineKind \X (1 .. Copies)
\* at = -1: the line has no timestamp.
Line == [text : Text, at : Instant \cup {-1}]
ASSUME EvidenceAssumption ==
  /\ LineKind \subseteq {r[1] : r \in Rules} \cup NonCausal
  /\ MaxLines \in [Failed -> Nat]

VARIABLES
  assessed,   \* assessed[j]: the assessment of failed job j
  truth,      \* history: truth[j], whether j has a transient signal (see Truth)
  read,       \* history: the jobs whose logs the gate has read
  bundle,     \* where the bundle is, and whether its file is as written
  gateSays,   \* the decision of the gate process
  attempt,    \* the attempt and the limit the gate was called with
  plan        \* what selective_rerun.py makes of the same failed jobs

evidenceVars == <<assessed, truth, read, bundle, gateSays, attempt, plan>>

NotAssessed == [category |-> "none", confidence |-> "none", provenance |-> "none",
                step |-> "none", risk |-> FALSE]
NoDecision == [decision |-> "none", status |-> "none"]

\* What the plan knows of a job: whether it has the log, and whether that has
\* a transient signal (history), and whether the job alone is safe to rerun.
NoLog == [got |-> FALSE, real |-> FALSE, safe |-> FALSE]
\* elsewhere: a job that did not fail tells of a side effect.
NoPlan == [made |-> FALSE, elsewhere |-> FALSE, judged |-> [j \in Failed |-> NoLog]]

EvidenceInit ==
  /\ assessed = [j \in Failed |-> NotAssessed]
  /\ truth = [j \in Failed |-> FALSE]
  /\ read = {}
  /\ plan = NoPlan
  /\ bundle = "none"
  /\ gateSays = NoDecision
  /\ attempt \in [now : 1 .. LastTry, most : 1 .. LastTry]

EvidenceTypeOK ==
  /\ assessed \in [Failed ->
       [category : {Categories[i] : i \in DOMAIN Categories}
                     \cup {"none", "UNKNOWN", "EVIDENCE_UNAVAILABLE"},
        confidence : {"none", "low", "medium", "high"},
        provenance : {"none", "NOT_APPLICABLE", "UNAVAILABLE", "CONFIRMED", "MISMATCH"},
        step : {"none", "FAILURE_STEP_UNAVAILABLE", "FAILURE_STEP_CONFIRMED",
                "FAILURE_STEP_AMBIGUOUS"},
        risk : BOOLEAN]]
  /\ truth \in [Failed -> BOOLEAN]
  /\ read \subseteq Failed
  /\ plan \in [made : BOOLEAN, elsewhere : BOOLEAN,
               judged : [Failed -> [got : BOOLEAN, real : BOOLEAN, safe : BOOLEAN]]]
  /\ bundle \in {"none", "written", "lost", "other"}
  /\ gateSays \in [decision : {"none", "ALLOW", "BLOCK"},
                    status : {"none", "SUFFICIENT", "CONTRADICTED", "UNKNOWN"}]
  /\ attempt \in [now : 1 .. LastTry, most : 1 .. LastTry]

-------------------------------------------------------------------------------
(* classify_log                                                            *)

Texts(log) == {log[i].text : i \in {k \in DOMAIN log : log[k].text[1] \notin NonCausal}}

\* A weak transient phrase without an anchor counts as a hint only.
Weight(t, c) ==
  LET w == {r[3] : r \in {x \in Rules : x[1] = t[1] /\ x[2] = c}}
  IN  IF w = {} THEN 0
      ELSE IF c \in Transient /\ t[1] \notin Anchored /\ Max(w) \leq 2 THEN 1 ELSE Max(w)

\* The sum of the weights: every text scores as many points as it weighs.
Score(log, c) == Cardinality(UNION {{t} \X (1 .. Weight(t, c)) : t \in Texts(log)})

Ranked(log) == [i \in DOMAIN Categories |-> Score(log, Categories[i])]
TopIndex(score) ==
  CHOOSE i \in DOMAIN score : /\ \A k \in DOMAIN score : score[k] \leq score[i]
                              /\ \A k \in 1 .. i - 1 : score[k] < score[i]
RunnerUp(score, i) == Max({score[k] : k \in DOMAIN score \ {i}})

IsSpecific(log, c) == \E t \in Texts(log) : <<t[1], c>> \in Specific
HasSymptom(log) == \E t \in Texts(log) : t[1] \in Symptoms

Margin(top, second) ==
  IF top >= 7 /\ top - second >= 3 THEN "high"
  ELSE IF top >= 4 /\ top - second >= 2 THEN "medium" ELSE "low"

\* The three corrections of the confidence, each of which overrides the last.
Confidence(log, c, top, second) ==
  LET reduced == IF top >= 4 THEN "medium" ELSE "low"
      specific == IsSpecific(log, c)
  IN  IF c = "CODE_REGRESSION" /\ top < 7 THEN reduced
      ELSE IF c = "RUNNER_INFRA" /\ HasSymptom(log) /\ ~specific THEN reduced
      ELSE IF c \in Transient /\ specific /\ second \leq 2 THEN "high"
      ELSE Margin(top, second)

\* The first three texts that score for the category.
Cited(log, c) ==
  LET scoring == {i \in DOMAIN log :
                    /\ log[i].text \in Texts(log) /\ Weight(log[i].text, c) > 0
                    /\ \A k \in 1 .. i - 1 : log[k].text # log[i].text}
  IN  {log[i].text : i \in {k \in scoring : Cardinality({h \in scoring : h < k}) < 3}}

Classify(log) ==
  LET score == Ranked(log)  i == TopIndex(score)  top == score[i]
  IN  IF top < 3 THEN [category |-> "UNKNOWN", confidence |-> "low", cited |-> {}]
      ELSE [category |-> Categories[i],
            confidence |-> Confidence(log, Categories[i], top, RunnerUp(score, i)),
            cited |-> Cited(log, Categories[i])]

-------------------------------------------------------------------------------
(* assess_job                                                              *)

\* assess_failure_step_provenance
FailureStep(steps) ==
  IF steps = {} THEN "FAILURE_STEP_UNAVAILABLE"
  ELSE IF Cardinality(steps) = 1 THEN "FAILURE_STEP_CONFIRMED" ELSE "FAILURE_STEP_AMBIGUOUS"

\* What Windows would be if the steps that succeeded counted too.
EveryStep(steps) == DOMAIN Step
\* The failed steps whose start and end are known.
Windows(steps) == {s \in steps : s \in DOMAIN Step}

Near(at, s) == at # -1 /\ Step[s].from - 2 \leq at /\ at \leq Step[s].to + 2

\* assess_execution_provenance
Provenance(log, class, steps) ==
  LET stamped == {log[i].at : i \in {k \in DOMAIN log : log[k].text \in class.cited}} \ {-1}
  IN  IF class.category \notin Transient \/ class.confidence # "high" THEN "NOT_APPLICABLE"
      ELSE IF steps = {} \/ stamped = {} THEN "UNAVAILABLE"
      ELSE IF \E s \in Windows(steps), at \in stamped : Near(at, s) THEN "CONFIRMED"
      ELSE IF Windows(steps) = {} THEN "UNAVAILABLE" ELSE "MISMATCH"

Assessment(category, confidence, provenance, steps, risk) ==
  [category |-> category, confidence |-> confidence, provenance |-> provenance,
   step |-> FailureStep(steps), risk |-> risk]

\* Whether a transient line is near a failed step.
Truth(log, steps) ==
  \E i \in DOMAIN log, s \in steps \cap DOMAIN Step, c \in Transient :
    Weight(log[i].text, c) > 0 /\ Near(log[i].at, s)

Logs(n) == UNION {[1 .. k -> Line] : k \in 0 .. n}
Stepping == SUBSET (DOMAIN Step \cup {0})  \* the failed steps; 0: one without times

\* What the logs of j may lead to.
Assessable == [j \in Failed |->
  {LET class == Classify(log)
   IN  [truth |-> Truth(log, steps),
        assessment |-> Assessment(class.category, class.confidence,
                                  Provenance(log, class, steps), steps, FALSE)] :
     log \in Logs(MaxLines[j]), steps \in Stepping}]

\* The failed jobs still to be assessed.
Unassessed == {j \in Failed : bundle = "none" /\ assessed[j] = NotAssessed}

\* risk: the name of the job or of a step tells of a side effect
\* (detect_side_effect_risk).
AssessJob(j, x, risk) ==
  /\ j \in Unassessed
  /\ assessed' = [assessed EXCEPT ![j] = [x.assessment EXCEPT !.risk = risk]]
  /\ truth' = [truth EXCEPT ![j] = x.truth]
  /\ read' = read \cup {j}
  /\ UNCHANGED <<bundle, gateSays, attempt, plan>>

\* The log cannot be had; the annotation of the check run says the runner was
\* lost, and the check run is the job's: id, name, commit, conclusion, app.
BoundExactly(note) == note.lost /\ note.bound

AssessWithoutLog(j, note, steps, risk) ==
  /\ j \in Unassessed
  /\ assessed' = [assessed EXCEPT ![j] =
       IF BoundExactly(note) THEN Assessment("RUNNER_INFRA", "high", "CONFIRMED", steps, risk)
       ELSE Assessment("EVIDENCE_UNAVAILABLE", "none", "UNAVAILABLE", steps, risk)]
  /\ truth' = [truth EXCEPT ![j] = note.lost /\ note.bound]
  /\ UNCHANGED <<read, bundle, gateSays, attempt, plan>>

-------------------------------------------------------------------------------
(* evidence_producer.py, evidence_artifact.py                              *)

WriteBundle ==
  /\ bundle = "none" /\ \A j \in Failed : assessed[j] # NotAssessed
  /\ bundle' = "written"
  /\ UNCHANGED <<assessed, truth, read, gateSays, attempt, plan>>

\* Before the gate reads the file it is lost, or another takes its place.
SpoilBundle ==
  /\ bundle = "written" /\ gateSays = NoDecision
  /\ bundle' \in {"lost", "other"}
  /\ UNCHANGED <<assessed, truth, read, gateSays, attempt, plan>>

-------------------------------------------------------------------------------
(* evidence_gate.py                                                        *)

\* evidence_contradictions
Contradicted ==
  \E j \in Failed :
    LET a == assessed[j]
    IN  a.risk \/ a.category \notin Transient \cup {"UNKNOWN"} \/ a.provenance = "MISMATCH"

\* What Proven would be if only missing provenance counted.
Available(a) == a.provenance # "UNAVAILABLE"
Proven(a) == a.provenance = "CONFIRMED"

Certain(a) == a.category \in Transient /\ a.confidence = "high"

\* assess_ci_retry_evidence
Sufficient ==
  /\ Failed # {}
  /\ \A j \in Failed : ~assessed[j].risk /\ Certain(assessed[j]) /\ Proven(assessed[j])

\* decide_ci_retry, build_ci_retry_decision
Decide ==
  LET allow == Sufficient /\ attempt.now < attempt.most
  IN  [decision |-> IF allow THEN "ALLOW" ELSE "BLOCK",
       status |-> IF allow THEN "SUFFICIENT" ELSE IF Contradicted THEN "CONTRADICTED" ELSE "UNKNOWN"]

Intact == bundle = "written"

\* evidence_gate_cli.py; another bundle could say anything.
RunGate ==
  /\ bundle # "none" /\ gateSays = NoDecision
  /\ IF Intact
     THEN gateSays' = IF bundle = "other" THEN [decision |-> "ALLOW", status |-> "SUFFICIENT"]
                      ELSE Decide
     ELSE gateSays' = [decision |-> "BLOCK", status |-> "UNKNOWN"]
  /\ UNCHANGED <<assessed, truth, read, bundle, attempt, plan>>

-------------------------------------------------------------------------------
(* selective_rerun.py                                                      *)

\* selective_plan, of one job.
SafeAlone(a) ==
  /\ attempt.now < attempt.most
  /\ ~a.risk /\ a.category \in Transient /\ a.confidence = "high"
  /\ a.provenance = "CONFIRMED"

\* What the plan may make of job j: nothing without a log; what the gate made
\* of it, if that has read the log; else what some log leads to, with the name
\* and the steps that the job has.
Alone(j) ==
  {NoLog} \cup
  IF j \in read
  THEN {[got |-> TRUE, real |-> truth[j], safe |-> SafeAlone(assessed[j])]}
  ELSE {[got |-> TRUE, real |-> x.truth,
         safe |-> SafeAlone([x.assessment EXCEPT !.risk = assessed[j].risk])] :
          x \in {y \in Assessable[j] : y.assessment.step = assessed[j].step}}

\* A side effect of any job stops the plan.
Picked ==
  {j \in Failed : /\ plan.made /\ ~plan.elsewhere
                  /\ \A k \in Failed : ~assessed[k].risk
                  /\ plan.judged[j].safe}

PlanAlone ==
  /\ gateSays # NoDecision /\ ~plan.made
  /\ \E judged \in [Failed -> UNION {Alone(j) : j \in Failed}], elsewhere \in BOOLEAN :
       /\ \A j \in Failed : judged[j] \in Alone(j)
       /\ plan' = [made |-> TRUE, elsewhere |-> elsewhere, judged |-> judged]
  /\ UNCHANGED <<assessed, truth, read, bundle, gateSays, attempt>>

EvidenceNext ==
  \/ \E j \in Unassessed, risk \in BOOLEAN :
       \/ \E x \in Assessable[j] : AssessJob(j, x, risk)
       \/ \E note \in [lost : BOOLEAN, bound : BOOLEAN], steps \in Stepping :
            AssessWithoutLog(j, note, steps, risk)
  \/ WriteBundle
  \/ SpoilBundle
  \/ RunGate
  \/ PlanAlone

EvidenceSpec == EvidenceInit /\ [][EvidenceNext]_evidenceVars

-------------------------------------------------------------------------------
\* An ALLOW rests on a transient signal of every failed job, near one of its
\* failed steps or annotated by its own check run, and on no job with side
\* effects ("Execution Provenance Gate", docs/technical-reference.md), and was
\* given for the file that the producer wrote (--expected-sha256).
AllowIsEvidenced ==
  gateSays.decision = "ALLOW" =>
    /\ bundle = "written"
    /\ \A j \in Failed : truth[j] /\ ~assessed[j].risk

\* The gate process and the selective plan, which share no decision code, differ
\* in what they know only.  The plan picks jobs with a transient signal near a
\* failed step in a log.  Where the gate allows, the plan picks every job whose
\* log both have read, unless a job that did not fail tells of a side effect.
\* Where the plan picks all failed jobs and the gate has read all their logs,
\* the gate allows ("Execution Provenance Gate", docs/technical-reference.md).
SelectiveAgrees ==
  plan.made =>
    /\ \A j \in Picked : plan.judged[j].real
    /\ gateSays.decision = "ALLOW" /\ ~plan.elsewhere =>
         \A j \in read : plan.judged[j].got => j \in Picked
    /\ Failed # {} /\ Picked = Failed /\ Failed \subseteq read /\ bundle = "written" =>
         gateSays.decision = "ALLOW"
===============================================================================
