---------------------------- MODULE Evidence_proofs ----------------------------
(***************************************************************************)
(* Proofs about what the evidence of a run may lead to: JobEvidence, for   *)
(* any number of failed jobs and logs of any length, RetryPolicy, for      *)
(* records of any number of steps, OutcomeRecord, for job lists of any     *)
(* length, and ArtifactListing, for any number of artifacts and lookups.   *)
(***************************************************************************)
EXTENDS JobEvidence, RetryPolicy, OutcomeRecord, ArtifactListing, FiniteSetTheorems,
        TLAPS

-------------------------------------------------------------------------------
(* JobEvidence: what a confirmed provenance rests on *)

\* A text is cited for a category only where it scores for it.
LEMMA CitedScores ==
  ASSUME NEW log, NEW c, NEW t \in Cited(log, c)
  PROVE  Weight(t, c) > 0
BY DEF Cited

\* Only a transient signal near a failed step confirms the provenance.
LEMMA ConfirmedIsTrue ==
  ASSUME NEW log, NEW steps,
         Provenance(log, Classify(log), steps) = "CONFIRMED"
  PROVE  Truth(log, steps)
<1> DEFINE class == Classify(log)
           stamped == {log[i].at : i \in {k \in DOMAIN log : log[k].text \in class.cited}} \ {-1}
<1>1. /\ class.category \in Transient
      /\ \E s \in Windows(steps), at \in stamped : Near(at, s)
  BY DEF Provenance
<1>2. PICK s \in Windows(steps), k \in DOMAIN log :
        log[k].text \in class.cited /\ Near(log[k].at, s)
  BY <1>1
<1>3. class.cited = Cited(log, class.category)
  BY <1>1 DEF Classify, Transient
<1>4. Weight(log[k].text, class.category) > 0
  BY <1>2, <1>3, CitedScores
<1> QED
  BY <1>1, <1>2, <1>4 DEF Truth, Windows

LEMMA AssessableIsTrue ==
  ASSUME NEW j \in Failed, NEW x \in Assessable[j], x.assessment.provenance = "CONFIRMED"
  PROVE  x.truth
<1> DEFINE Leads(log, steps) ==
      LET class == Classify(log)
      IN  [truth |-> Truth(log, steps),
           assessment |-> Assessment(class.category, class.confidence,
                            Provenance(log, class, steps), steps, FALSE)]
<1>0. Assessable[j] = {Leads(log, steps) : log \in Logs(MaxLines[j]), steps \in Stepping}
  BY DEF Assessable
<1>1. PICK log, steps : x = Leads(log, steps)
  <2> HIDE DEF Leads
  <2> QED
    BY <1>0
<1>2. Provenance(log, Classify(log), steps) = "CONFIRMED"
  BY <1>1 DEF Assessment
<1> QED
  BY <1>1, <1>2, ConfirmedIsTrue

\* The jobs with a confirmed provenance have a transient signal; a decision is
\* the one that the written bundle leads to, or no ALLOW; and the plan is made
\* of what the logs may lead to, after the gate.
EvidenceInv ==
  /\ DOMAIN assessed = Failed /\ DOMAIN truth = Failed /\ read \subseteq Failed
  /\ \A j \in Failed : assessed[j].provenance = "CONFIRMED" => truth[j]
  /\ gateSays # NoDecision =>
       /\ bundle # "none"
       /\ gateSays = IF bundle = "written" THEN Decide
                     ELSE [decision |-> "BLOCK", status |-> "UNKNOWN"]
  /\ plan.made =>
       /\ gateSays # NoDecision
       /\ \A j \in Failed : plan.judged[j] \in Alone(j)

LEMMA EvidenceStays == EvidenceInv /\ [EvidenceNext]_evidenceVars => EvidenceInv'
<1> SUFFICES ASSUME EvidenceInv, [EvidenceNext]_evidenceVars PROVE EvidenceInv'
  OBVIOUS
<1> DEFINE Judged(f, t) == /\ DOMAIN f = Failed /\ DOMAIN t = Failed
                           /\ \A j \in Failed : f[j].provenance = "CONFIRMED" => t[j]
<1>1. ASSUME NEW j \in Unassessed, NEW x \in Assessable[j], NEW risk \in BOOLEAN,
             AssessJob(j, x, risk)
      PROVE  EvidenceInv'
  <2>1. j \in Failed /\ bundle = "none" /\ gateSays = NoDecision
    BY DEF Unassessed, EvidenceInv
  <2>2. [x.assessment EXCEPT !.risk = risk].provenance = x.assessment.provenance
    BY DEF Assessable, Assessment
  <2>3. Judged(assessed', truth')
    BY <1>1, <2>1, <2>2, AssessableIsTrue DEF AssessJob, EvidenceInv
  <2>4. ~plan'.made
    BY <1>1, <2>1 DEF AssessJob, EvidenceInv
  <2> QED
    BY <1>1, <2>1, <2>3, <2>4 DEF AssessJob, EvidenceInv
<1>2. ASSUME NEW j \in Unassessed, NEW note \in [lost : BOOLEAN, bound : BOOLEAN],
             NEW steps \in Stepping, NEW risk \in BOOLEAN,
             AssessWithoutLog(j, note, steps, risk)
      PROVE  EvidenceInv'
  <2>1. j \in Failed /\ bundle = "none" /\ gateSays = NoDecision
    BY DEF Unassessed, EvidenceInv
  <2>2. Judged(assessed', truth')
    BY <1>2, <2>1 DEF AssessWithoutLog, EvidenceInv, BoundExactly, Assessment
  <2>3. ~plan'.made
    BY <1>2, <2>1 DEF AssessWithoutLog, EvidenceInv
  <2> QED
    BY <1>2, <2>1, <2>2, <2>3 DEF AssessWithoutLog, EvidenceInv
<1>3. CASE WriteBundle
  <2>1. gateSays = NoDecision /\ ~plan.made
    BY <1>3 DEF WriteBundle, EvidenceInv
  <2> QED
    BY <1>3, <2>1 DEF WriteBundle, EvidenceInv
<1>4. CASE SpoilBundle
  <2>1. gateSays = NoDecision /\ ~plan.made
    BY <1>4 DEF SpoilBundle, EvidenceInv
  <2> QED
    BY <1>4, <2>1 DEF SpoilBundle, EvidenceInv
<1>5. CASE RunGate
  <2>1. Decide' = Decide
    BY <1>5 DEF RunGate, Decide, Sufficient, Contradicted
  <2>2. gateSays' = IF bundle = "written" THEN Decide
                    ELSE [decision |-> "BLOCK", status |-> "UNKNOWN"]
    BY <1>5 DEF RunGate, Intact
  <2>3. ~plan.made
    BY <1>5 DEF RunGate, EvidenceInv
  <2> QED
    BY <1>5, <2>1, <2>2, <2>3 DEF RunGate, EvidenceInv
<1>6. CASE PlanAlone
  <2>1. Decide' = Decide /\ \A j \in Failed : Alone(j)' = Alone(j)
    BY <1>6 DEF PlanAlone, Decide, Sufficient, Contradicted, Alone, SafeAlone
  <2>2. \A j \in Failed : plan'.judged[j] \in Alone(j)
    <3> HIDE DEF Alone
    <3> QED
      BY <1>6 DEF PlanAlone
  <2> QED
    BY <1>6, <2>1, <2>2 DEF PlanAlone, EvidenceInv
<1>7. CASE UNCHANGED evidenceVars
  <2>1. Decide' = Decide /\ \A j \in Failed : Alone(j)' = Alone(j)
    BY <1>7 DEF evidenceVars, Decide, Sufficient, Contradicted, Alone, SafeAlone
  <2> QED
    BY <1>7, <2>1 DEF evidenceVars, EvidenceInv
<1> QED
  BY <1>1, <1>2, <1>3, <1>4, <1>5, <1>6, <1>7 DEF EvidenceNext

LEMMA EvidenceInvariance == EvidenceSpec => []EvidenceInv
<1>1. EvidenceInit => EvidenceInv
  BY DEF EvidenceInit, EvidenceInv, NotAssessed, NoPlan
<1> QED
  BY <1>1, EvidenceStays, PTL DEF EvidenceSpec

(* What evidence_gate.py allows rests on a transient signal of every failed  *)
(* job near one of its failed steps, or annotated by its own check run, and  *)
(* on the file that the producer wrote, whatever the logs say.               *)
THEOREM AllowRestsOnEvidence == EvidenceSpec => []AllowIsEvidenced
<1>1. EvidenceInv => AllowIsEvidenced
  <2> SUFFICES ASSUME EvidenceInv, gateSays.decision = "ALLOW" PROVE AllowIsEvidenced
    BY DEF AllowIsEvidenced
  <2>1. gateSays # NoDecision
    BY DEF NoDecision
  <2>2. bundle = "written" /\ gateSays = Decide
    BY <2>1 DEF EvidenceInv
  <2>3. Sufficient
    BY <2>2 DEF Decide
  <2> QED
    BY <2>2, <2>3 DEF Sufficient, Proven, EvidenceInv, AllowIsEvidenced
<1> QED
  BY <1>1, EvidenceInvariance, PTL

\* A judgement of the plan that has a job picked rests on a signal.
LEMMA PickedIsReal ==
  ASSUME EvidenceInv, NEW j \in Failed, NEW own \in Alone(j), own.safe
  PROVE  own.real /\ (j \in read => SafeAlone(assessed[j]))
<1>1. own # NoLog
  BY DEF NoLog
<1>2. CASE j \in read
  <2>1. own = [got |-> TRUE, real |-> truth[j], safe |-> SafeAlone(assessed[j])]
    BY <1>1, <1>2 DEF Alone
  <2>2. own.real = truth[j] /\ own.safe = SafeAlone(assessed[j])
    BY <2>1
  <2> QED
    BY <2>2 DEF SafeAlone, EvidenceInv
<1>3. CASE j \notin read
  <2> DEFINE Again(x) == [got |-> TRUE, real |-> x.truth,
                safe |-> SafeAlone([x.assessment EXCEPT !.risk = assessed[j].risk])]
  <2>1. PICK x \in Assessable[j] : own = Again(x)
    BY <1>1, <1>3 DEF Alone
  <2>2. own.real = x.truth /\ own.safe = SafeAlone([x.assessment EXCEPT !.risk = assessed[j].risk])
    BY <2>1
  <2>3. [x.assessment EXCEPT !.risk = assessed[j].risk].provenance = x.assessment.provenance
    BY DEF Assessable, Assessment
  <2> QED
    BY <1>3, <2>2, <2>3, AssessableIsTrue DEF SafeAlone
<1> QED
  BY <1>2, <1>3

(* evidence_gate.py and selective_plan, which share no decision code, differ *)
(* in what they have read only: the plan picks jobs with a signal near a     *)
(* failed step; an ALLOW has it pick every job whose log both have read; and *)
(* where it picks all of them, the gate that read their logs allows.         *)
THEOREM GateAndPlanAgree == EvidenceSpec => []SelectiveAgrees
<1>1. EvidenceInv => SelectiveAgrees
  <2> SUFFICES ASSUME EvidenceInv, plan.made PROVE SelectiveAgrees
    BY DEF SelectiveAgrees
  <2>0. gateSays # NoDecision /\ \A j \in Failed : plan.judged[j] \in Alone(j)
    BY DEF EvidenceInv
  <2>1. ASSUME NEW j \in Picked PROVE plan.judged[j].real /\ (j \in read => SafeAlone(assessed[j]))
    <3>1. j \in Failed /\ plan.judged[j].safe
      BY <2>1 DEF Picked
    <3> QED
      BY <2>0, <3>1, PickedIsReal
  <2>2. ASSUME gateSays.decision = "ALLOW", ~plan.elsewhere, NEW j \in read, plan.judged[j].got
        PROVE  j \in Picked
    <3>1. bundle = "written" /\ gateSays = Decide
      BY <2>0, <2>2 DEF EvidenceInv
    <3>2. Sufficient /\ attempt.now < attempt.most
      BY <2>2, <3>1 DEF Decide
    <3>3. j \in Failed
      BY DEF EvidenceInv
    <3>4. \A k \in Failed : ~assessed[k].risk /\ SafeAlone(assessed[k])
      BY <3>2 DEF Sufficient, Certain, Proven, SafeAlone
    <3>5. plan.judged[j] \in Alone(j) /\ plan.judged[j] # NoLog
      BY <2>0, <2>2, <3>3 DEF NoLog
    <3>6. plan.judged[j] = [got |-> TRUE, real |-> truth[j], safe |-> SafeAlone(assessed[j])]
      BY <2>2, <3>5 DEF Alone
    <3>7. plan.judged[j].safe = SafeAlone(assessed[j])
      BY <3>6
    <3>8. plan.judged[j].safe
      BY <3>3, <3>4, <3>7
    <3> QED
      BY <2>2, <3>3, <3>4, <3>8 DEF Picked
  <2>3. ASSUME Failed # {}, Picked = Failed, Failed \subseteq read, bundle = "written"
        PROVE  gateSays.decision = "ALLOW"
    <3>1. \A j \in Failed : SafeAlone(assessed[j])
      BY <2>1, <2>3
    <3>2. Sufficient /\ attempt.now < attempt.most
      BY <2>3, <3>1 DEF Sufficient, SafeAlone, Certain, Proven
    <3> QED
      BY <2>0, <2>3, <3>2 DEF EvidenceInv, Decide
  <2> QED
    BY <2>1, <2>2, <2>3 DEF SelectiveAgrees
<1> QED
  BY <1>1, EvidenceInvariance, PTL

-------------------------------------------------------------------------------
(* JobEvidence: the types.  The category is the first with the largest score, *)
(* so there has to be one: scores are numbers, because the points that the    *)
(* texts of a log score are finitely many.                                    *)

\* What is finite stays so when each element is replaced by another.
LEMMA ImageFinite ==
  ASSUME NEW S, IsFiniteSet(S), NEW f, DOMAIN f = S
  PROVE  IsFiniteSet({f[x] : x \in S})
<1> DEFINE g == [x \in S |-> f[x]]
<1>1. g \in Surjection(S, {f[x] : x \in S})
  BY DEF Surjection
<1> QED
  BY <1>1, FS_Surjection

LEMMA TextsFinite ==
  ASSUME NEW n \in Nat, NEW log \in [1 .. n -> Line]
  PROVE  IsFiniteSet(Texts(log))
<1> DEFINE S == {k \in DOMAIN log : log[k].text[1] \notin NonCausal}
           f == [i \in S |-> log[i].text]
<1>1. IsFiniteSet(S)
  BY FS_Interval, FS_Subset
<1>2. IsFiniteSet({f[i] : i \in S})
  BY <1>1, ImageFinite, ZenonT(40)
<1> QED
  BY <1>2 DEF Texts

LEMMA WeightType ==
  ASSUME NEW t, NEW c
  PROVE  Weight(t, c) \in Nat
<1> DEFINE w == {r[3] : r \in {x \in Rules : x[1] = t[1] /\ x[2] = c}}
<1>1. w \subseteq 2 .. 5
  <2>1. \A r \in Rules : r[3] \in 2 .. 5
    BY DEF Rules
  <2> QED
    BY <2>1
<1>2. w # {} => Max(w) \in Nat
  <2> HIDE DEF w
  <2> SUFFICES ASSUME w # {} PROVE Max(w) \in Nat
    OBVIOUS
  <2>1. \E x \in w : \A y \in w : x >= y
    <3>1. PICK z \in w : TRUE
      OBVIOUS
    <3>2. CASE 5 \in w
      BY <1>1, <3>2
    <3>3. CASE 5 \notin w /\ 4 \in w
      BY <1>1, <3>3
    <3>4. CASE 5 \notin w /\ 4 \notin w /\ 3 \in w
      BY <1>1, <3>4
    <3>5. CASE 5 \notin w /\ 4 \notin w /\ 3 \notin w
      <4>1. w \subseteq {2} /\ z = 2
        BY <1>1, <3>1, <3>5
      <4> QED
        BY <3>1, <4>1
    <3> QED
      BY <3>2, <3>3, <3>4, <3>5
  <2>2. Max(w) \in w
    BY <2>1 DEF Max
  <2>3. \A x \in w : x \in Nat
    BY <1>1
  <2> QED
    BY <2>2, <2>3, Zenon
<1>3. Weight(t, c) \in {0, 1, Max(w)} /\ (w = {} => Weight(t, c) = 0)
      /\ (w # {} => Weight(t, c) \in {1, Max(w)})
  BY DEF Weight
<1> QED
  BY <1>2, <1>3

LEMMA ScoreType ==
  ASSUME NEW n \in Nat, NEW log \in [1 .. n -> Line], NEW c
  PROVE  Score(log, c) \in Nat
<1> DEFINE Points(t) == {t} \X (1 .. Weight(t, c))
           f == [t \in Texts(log) |-> Points(t)]
<1>1. \A t : IsFiniteSet(Points(t))
  <2> SUFFICES ASSUME NEW t PROVE IsFiniteSet(Points(t))
    OBVIOUS
  <2>1. IsFiniteSet({t})
    BY FS_Singleton
  <2>2. Weight(t, c) \in Int
    BY WeightType
  <2>3. IsFiniteSet(1 .. Weight(t, c))
    BY <2>2, FS_Interval
  <2> QED
    BY <2>1, <2>3, FS_Product
<1> HIDE DEF Points
<1>2. IsFiniteSet({f[t] : t \in Texts(log)})
  BY TextsFinite, ImageFinite
<1>3. {f[t] : t \in Texts(log)} = {Points(t) : t \in Texts(log)}
  OBVIOUS
<1>4. IsFiniteSet(UNION {Points(t) : t \in Texts(log)})
  BY <1>1, <1>2, <1>3, FS_UNION
<1> QED
  BY <1>4, FS_CardinalityType DEF Score, Points

\* Ahead of the categories before i as ranked, and not behind those up to n.
LeadsTo(score, n, i) ==
  /\ i \in 1 .. n
  /\ \A k \in 1 .. n : score[k] \leq score[i]
  /\ \A k \in 1 .. i - 1 : score[k] < score[i]

LEMMA LeaderUpTo ==
  ASSUME NEW score \in [1 .. 5 -> Nat], NEW n \in 1 .. 4, NEW i, LeadsTo(score, n, i)
  PROVE  \E j : LeadsTo(score, n + 1, j)
<1>0. 1 .. n + 1 = (1 .. n) \cup {n + 1} /\ i \in 1 .. n
  BY DEF LeadsTo
<1>1. CASE score[n + 1] \leq score[i]
  <2>1. LeadsTo(score, n + 1, i)
    BY <1>0, <1>1 DEF LeadsTo
  <2> QED
    BY <2>1
<1>2. CASE score[n + 1] > score[i]
  <2>1. LeadsTo(score, n + 1, n + 1)
    BY <1>0, <1>2 DEF LeadsTo
  <2> QED
    BY <2>1
<1> QED
  BY <1>0, <1>1, <1>2

LEMMA CategoryCount == DOMAIN Categories = 1 .. 5
BY DEF Categories

LEMMA TopIndexType ==
  ASSUME NEW n \in Nat, NEW log \in [1 .. n -> Line]
  PROVE  TopIndex(Ranked(log)) \in DOMAIN Categories
<1> DEFINE score == Ranked(log)
<1>1. score \in [1 .. 5 -> Nat]
  BY ScoreType, CategoryCount DEF Ranked
<1> HIDE DEF score
<1>2. LeadsTo(score, 1, 1)
  BY <1>1 DEF LeadsTo
<1>3. \E i : LeadsTo(score, 2, i)
  BY <1>1, <1>2, LeaderUpTo
<1>4. \E i : LeadsTo(score, 3, i)
  BY <1>1, <1>3, LeaderUpTo
<1>5. \E i : LeadsTo(score, 4, i)
  BY <1>1, <1>4, LeaderUpTo
<1>6. \E i : LeadsTo(score, 5, i)
  BY <1>1, <1>5, LeaderUpTo
<1>7. \E i \in DOMAIN score : /\ \A k \in DOMAIN score : score[k] \leq score[i]
                              /\ \A k \in 1 .. i - 1 : score[k] < score[i]
  BY <1>1, <1>6 DEF LeadsTo
<1>8. TopIndex(score) \in DOMAIN score
  BY <1>7 DEF TopIndex
<1> QED
  BY <1>1, <1>8, CategoryCount DEF score

Confidences == {"none", "low", "medium", "high"}
CategoryNames ==
  {Categories[i] : i \in DOMAIN Categories} \cup {"none", "UNKNOWN", "EVIDENCE_UNAVAILABLE"}
AssessmentType ==
  [category : CategoryNames, confidence : Confidences,
   provenance : {"none", "NOT_APPLICABLE", "UNAVAILABLE", "CONFIRMED", "MISMATCH"},
   step : {"none", "FAILURE_STEP_UNAVAILABLE", "FAILURE_STEP_CONFIRMED",
           "FAILURE_STEP_AMBIGUOUS"},
   risk : BOOLEAN]

LEMMA ClassifyType ==
  ASSUME NEW n \in Nat, NEW log \in [1 .. n -> Line]
  PROVE  Classify(log).category \in CategoryNames /\ Classify(log).confidence \in Confidences
<1>1. \A c, top, second : Confidence(log, c, top, second) \in Confidences
  BY DEF Confidence, Margin, Confidences
<1>2. Categories[TopIndex(Ranked(log))] \in CategoryNames
  BY TopIndexType DEF CategoryNames
<1> QED
  BY <1>1, <1>2 DEF Classify, CategoryNames, Confidences

LEMMA AssessmentTyped ==
  ASSUME NEW category \in CategoryNames, NEW confidence \in Confidences,
         NEW provenance \in {"NOT_APPLICABLE", "UNAVAILABLE", "CONFIRMED", "MISMATCH"},
         NEW steps, NEW risk \in BOOLEAN
  PROVE  /\ Assessment(category, confidence, provenance, steps, risk) \in AssessmentType
         /\ \A b \in BOOLEAN :
              [Assessment(category, confidence, provenance, steps, risk) EXCEPT !.risk = b]
                \in AssessmentType
BY DEF Assessment, AssessmentType, FailureStep

PlanType == [made : BOOLEAN, elsewhere : BOOLEAN,
             judged : [Failed -> [got : BOOLEAN, real : BOOLEAN, safe : BOOLEAN]]]

LEMMA SafeIsBoolean == ASSUME NEW a PROVE SafeAlone(a) \in BOOLEAN
BY DEF SafeAlone

LEMMA TruthIsBoolean ==
  ASSUME NEW j \in Failed, NEW x \in Assessable[j]
  PROVE  x.truth \in BOOLEAN
<1> DEFINE Leads(log, steps) ==
      LET class == Classify(log)
      IN  [truth |-> Truth(log, steps),
           assessment |-> Assessment(class.category, class.confidence,
                            Provenance(log, class, steps), steps, FALSE)]
<1>0. Assessable[j] = {Leads(log, steps) : log \in Logs(MaxLines[j]), steps \in Stepping}
  BY DEF Assessable
<1>1. PICK log, steps : x = Leads(log, steps)
  <2> HIDE DEF Leads
  <2> QED
    BY <1>0
<1> QED
  BY <1>1 DEF Truth

LEMMA EvidenceTyped == EvidenceTypeOK /\ [EvidenceNext]_evidenceVars => EvidenceTypeOK'
<1> SUFFICES ASSUME EvidenceTypeOK, [EvidenceNext]_evidenceVars PROVE EvidenceTypeOK'
  OBVIOUS
<1>0. assessed \in [Failed -> AssessmentType] /\ truth \in [Failed -> BOOLEAN]
  BY DEF EvidenceTypeOK, AssessmentType, CategoryNames, Confidences
<1>1. ASSUME NEW j \in Unassessed, NEW x \in Assessable[j], NEW risk \in BOOLEAN,
             AssessJob(j, x, risk)
      PROVE  assessed' \in [Failed -> AssessmentType] /\ truth' \in [Failed -> BOOLEAN]
  <2>1. j \in Failed
    BY DEF Unassessed
  <2> DEFINE Leads(log, steps) ==
        LET class == Classify(log)
        IN  [truth |-> Truth(log, steps),
             assessment |-> Assessment(class.category, class.confidence,
                              Provenance(log, class, steps), steps, FALSE)]
  <2>0. Assessable[j] = {Leads(log, steps) : log \in Logs(MaxLines[j]), steps \in Stepping}
    BY <2>1 DEF Assessable
  <2>2. PICK log \in Logs(MaxLines[j]), steps \in Stepping : x = Leads(log, steps)
    <3> HIDE DEF Leads
    <3> QED
      BY <2>0
  <2>3. PICK n \in Nat : log \in [1 .. n -> Line]
    BY <2>1, <2>2, EvidenceAssumption DEF Logs
  <2>4. Provenance(log, Classify(log), steps)
          \in {"NOT_APPLICABLE", "UNAVAILABLE", "CONFIRMED", "MISMATCH"}
    BY DEF Provenance
  <2>5. [x.assessment EXCEPT !.risk = risk] \in AssessmentType
    BY <2>2, <2>3, <2>4, ClassifyType, AssessmentTyped
  <2>6. x.truth \in BOOLEAN
    BY <2>2 DEF Truth
  <2> QED
    BY <1>0, <1>1, <2>5, <2>6 DEF AssessJob
<1>2. ASSUME NEW j \in Unassessed, NEW note \in [lost : BOOLEAN, bound : BOOLEAN],
             NEW steps \in Stepping, NEW risk \in BOOLEAN,
             AssessWithoutLog(j, note, steps, risk)
      PROVE  assessed' \in [Failed -> AssessmentType] /\ truth' \in [Failed -> BOOLEAN]
  <2>1. {"RUNNER_INFRA", "EVIDENCE_UNAVAILABLE"} \subseteq CategoryNames
    BY CategoryCount DEF CategoryNames, Categories
  <2>2. /\ Assessment("RUNNER_INFRA", "high", "CONFIRMED", steps, risk) \in AssessmentType
        /\ Assessment("EVIDENCE_UNAVAILABLE", "none", "UNAVAILABLE", steps, risk)
             \in AssessmentType
    BY <2>1, AssessmentTyped DEF Confidences
  <2> QED
    BY <1>0, <1>2, <2>2 DEF AssessWithoutLog, BoundExactly
<1>3. assessed' \in [Failed -> AssessmentType] /\ truth' \in [Failed -> BOOLEAN]
  BY <1>0, <1>1, <1>2 DEF EvidenceNext, WriteBundle, SpoilBundle, RunGate, PlanAlone, evidenceVars
<1>4. bundle' \in {"none", "written", "lost", "other"}
  BY DEF EvidenceTypeOK, EvidenceNext, AssessJob, AssessWithoutLog, WriteBundle, SpoilBundle,
     RunGate, PlanAlone, evidenceVars
<1>5. gateSays' \in [decision : {"none", "ALLOW", "BLOCK"},
                     status : {"none", "SUFFICIENT", "CONTRADICTED", "UNKNOWN"}]
  BY DEF EvidenceTypeOK, EvidenceNext, AssessJob, AssessWithoutLog, WriteBundle, SpoilBundle,
     RunGate, Decide, PlanAlone, evidenceVars
<1>6. attempt' = attempt
  BY DEF EvidenceNext, AssessJob, AssessWithoutLog, WriteBundle, SpoilBundle, RunGate, PlanAlone,
     evidenceVars
<1>7. read' \subseteq Failed
  BY DEF EvidenceTypeOK, EvidenceNext, AssessJob, AssessWithoutLog, WriteBundle, SpoilBundle,
     RunGate, PlanAlone, evidenceVars, Unassessed
<1>8. plan' \in PlanType
  <2>1. plan \in PlanType
    BY DEF EvidenceTypeOK, PlanType
  <2>2. CASE PlanAlone
    <3>1. \A j \in Failed : Alone(j) \subseteq [got : BOOLEAN, real : BOOLEAN, safe : BOOLEAN]
      <4> SUFFICES ASSUME NEW j \in Failed, NEW own \in Alone(j)
                   PROVE  own \in [got : BOOLEAN, real : BOOLEAN, safe : BOOLEAN]
        OBVIOUS
      <4>1. CASE own = NoLog
        BY <4>1 DEF NoLog
      <4>2. CASE own # NoLog /\ j \in read
        <5>1. own = [got |-> TRUE, real |-> truth[j], safe |-> SafeAlone(assessed[j])]
          BY <4>2 DEF Alone
        <5> QED
          BY <1>0, <5>1, SafeIsBoolean
      <4>3. CASE own # NoLog /\ j \notin read
        <5> DEFINE Again(x) == [got |-> TRUE, real |-> x.truth,
                      safe |-> SafeAlone([x.assessment EXCEPT !.risk = assessed[j].risk])]
        <5>1. PICK x \in Assessable[j] : own = Again(x)
          BY <4>3 DEF Alone
        <5> QED
          BY <5>1, SafeIsBoolean, TruthIsBoolean
      <4> QED
        BY <4>1, <4>2, <4>3
    <3>2. PICK judged \in [Failed -> UNION {Alone(j) : j \in Failed}], elsewhere \in BOOLEAN :
            /\ \A j \in Failed : judged[j] \in Alone(j)
            /\ plan' = [made |-> TRUE, elsewhere |-> elsewhere, judged |-> judged]
      BY <2>2 DEF PlanAlone
    <3>3. judged \in [Failed -> [got : BOOLEAN, real : BOOLEAN, safe : BOOLEAN]]
      BY <3>1, <3>2
    <3> QED
      BY <3>2, <3>3 DEF PlanType
  <2> QED
    BY <2>1, <2>2 DEF EvidenceNext, AssessJob, AssessWithoutLog, WriteBundle, SpoilBundle, RunGate,
       evidenceVars
<1> QED
  BY <1>3, <1>4, <1>5, <1>6, <1>7, <1>8
     DEF EvidenceTypeOK, AssessmentType, CategoryNames, Confidences, PlanType

(* classify_log gives every log a category, a known confidence, and          *)
(* evidence_gate.py every bundle a decision, for logs of any length.         *)
THEOREM EvidenceTyping == EvidenceSpec => []EvidenceTypeOK
<1>1. EvidenceInit => EvidenceTypeOK
  BY DEF EvidenceInit, EvidenceTypeOK, NotAssessed, NoDecision, NoPlan, NoLog
<1> QED
  BY <1>1, EvidenceTyped, PTL DEF EvidenceSpec

-------------------------------------------------------------------------------
(* Sequences that lose an element *)

LEMMA Concatenated ==
  ASSUME NEW S, NEW s \in Seq(S), NEW t \in Seq(S), NEW j \in 1 .. Len(s) + Len(t)
  PROVE  (s \o t)[j] = IF j \leq Len(s) THEN s[j] ELSE t[j - Len(s)]
OBVIOUS

LEMMA RemovedAt ==
  ASSUME NEW S, NEW s \in Seq(S), NEW i \in DOMAIN s
  PROVE  /\ RemoveAt(s, i) \in Seq(S)
         /\ Len(RemoveAt(s, i)) = Len(s) - 1
         /\ \A j \in DOMAIN RemoveAt(s, i) :
              RemoveAt(s, i)[j] = IF j < i THEN s[j] ELSE s[j + 1]
<1> DEFINE before == SubSeq(s, 1, i - 1)
           after == SubSeq(s, i + 1, Len(s))
<1>1. /\ before \in Seq(S) /\ Len(before) = i - 1
      /\ \A j \in 1 .. i - 1 : before[j] = s[j]
  OBVIOUS
<1>2. /\ after \in Seq(S) /\ Len(after) = Len(s) - i
      /\ \A j \in 1 .. Len(s) - i : after[j] = s[i + j]
  OBVIOUS
<1>3. RemoveAt(s, i) = before \o after
  BY DEF RemoveAt
<1> HIDE DEF before, after
<1>4. i \in Int /\ Len(s) \in Int
  OBVIOUS
<1>5. /\ before \o after \in Seq(S)
      /\ Len(before \o after) = Len(s) - 1
      /\ \A j \in DOMAIN (before \o after) :
           (before \o after)[j] = IF j < i THEN s[j] ELSE s[j + 1]
  <2>1. before \o after \in Seq(S) /\ Len(before \o after) = Len(s) - 1
    BY <1>1, <1>2, <1>4
  <2>2. ASSUME NEW j \in 1 .. Len(s) - 1, j < i
        PROVE  (before \o after)[j] = s[j]
    BY <1>1, <1>2, <1>4, <2>2
  <2>3. ASSUME NEW j \in 1 .. Len(s) - 1, ~(j < i)
        PROVE  (before \o after)[j] = s[j + 1]
    <3>1. (before \o after)[j] = after[j - (i - 1)]
      <4>1. j \in 1 .. Len(before) + Len(after) /\ ~(j \leq Len(before))
        BY <1>1, <1>2, <1>4, <2>3
      <4> QED
        <5>1. before \in Seq(S) /\ after \in Seq(S) /\ Len(before) = i - 1
          BY <1>1, <1>2
        <5>2. (before \o after)[j] = after[j - Len(before)]
          BY <4>1, <5>1, Concatenated
        <5> QED
          BY <5>1, <5>2
    <3>2. j - (i - 1) \in 1 .. Len(s) - i /\ i + (j - (i - 1)) = j + 1
      BY <1>4, <2>3
    <3> QED
      BY <1>2, <3>1, <3>2
  <2>4. DOMAIN (before \o after) = 1 .. Len(s) - 1
    BY <2>1
  <2> QED
    BY <2>1, <2>2, <2>3, <2>4
<1> QED
  BY <1>3, <1>5

-------------------------------------------------------------------------------
(* RetryPolicy: what a record that loses data may prove *)

\* What step s may become by losses.
WeakerStep(t, s) ==
  /\ t.finished => s.finished
  /\ t.status = s.status \/ t.status = "neither"
  /\ t.error => s.error

\* What record r may become by losses that leave the other steps in place.
Weaker(q, r) ==
  /\ q.finished => r.finished
  /\ q.status = r.status \/ q.status = "neither"
  /\ \/ q.steps = <<>>
     \/ /\ DOMAIN q.steps = DOMAIN r.steps
        /\ \A i \in DOMAIN r.steps : WeakerStep(q.steps[i], r.steps[i])

\* A step that still tells how it ended, did end so.
LEMMA StepsKept ==
  ASSUME NEW s \in StepRecord, NEW t \in StepRecord, WeakerStep(t, s),
         Failing(t) \/ Passing(t)
  PROVE  (Failing(t) <=> Failing(s)) /\ (Passing(t) <=> Passing(s))
BY DEF StepRecord, Reading, WeakerStep, Failing, Passing

LEMMA StepTypes ==
  ASSUME NEW r \in Record, NEW i \in DOMAIN r.steps
  PROVE  r.steps[i] \in StepRecord
<1>1. PICK n \in 0 .. MaxSteps : r.steps \in [1 .. n -> StepRecord]
  BY DEF Record
<1> QED  BY <1>1

\* A weaker record is classified as the record is, or not at all: what is left
\* of it is conclusive only if nothing was lost that counts.
LEMMA WeakerProvesLess ==
  ASSUME NEW r \in Record, NEW q \in Record, Weaker(q, r)
  PROVE  Classification(q) \in {Classification(r), "INDETERMINATE"}
<1>1. CASE Ambiguous(q)
  BY <1>1 DEF Classification
<1>2. CASE ~Ambiguous(q)
  <2>1. q.status = r.status /\ q.status # "neither" /\ q.finished /\ r.finished
    BY <1>2 DEF Ambiguous, Weaker
  <2>2. /\ q.steps # <<>>
        /\ DOMAIN q.steps = DOMAIN r.steps
        /\ \A i \in DOMAIN r.steps : WeakerStep(q.steps[i], r.steps[i])
    BY <1>2 DEF Ambiguous, Weaker
  <2>3. \A i \in DOMAIN q.steps : Failing(q.steps[i]) \/ Passing(q.steps[i])
    BY <1>2 DEF Ambiguous
  <2>4. \A i \in DOMAIN r.steps : /\ Failing(q.steps[i]) <=> Failing(r.steps[i])
                                  /\ Passing(q.steps[i]) <=> Passing(r.steps[i])
    BY <2>2, <2>3, StepsKept, StepTypes
  <2>5. r.steps # <<>>
    <3>1. PICK n \in 0 .. MaxSteps : q.steps \in [1 .. n -> StepRecord]
      BY DEF Record
    <3>2. PICK m \in 0 .. MaxSteps : r.steps \in [1 .. m -> StepRecord]
      BY DEF Record
    <3>3. DOMAIN q.steps # {}
      BY <2>2, <3>1
    <3> QED  BY <2>2, <3>2, <3>3
  <2>6. ~Ambiguous(r)
    BY <2>1, <2>2, <2>3, <2>4, <2>5 DEF Ambiguous
  <2>7. (\E i \in DOMAIN q.steps : Failing(q.steps[i]))
          <=> \E i \in DOMAIN r.steps : Failing(r.steps[i])
    BY <2>2, <2>4
  <2> QED  BY <1>2, <2>1, <2>6, <2>7 DEF Classification
<1> QED  BY <1>1, <1>2

\* The invariant: the classification is always that of the record as it is.
UpToDate == record \in Record /\ classified = Classification(record)

\* One step of a record changes, and is weaker than it was.
LEMMA OneStepLost ==
  ASSUME NEW r \in Record, NEW i \in DOMAIN r.steps, NEW t \in StepRecord,
         WeakerStep(t, r.steps[i])
  PROVE  LET q == [r EXCEPT !.steps[i] = t] IN q \in Record /\ Weaker(q, r)
<1> DEFINE steps == [r.steps EXCEPT ![i] = t]
           q == [r EXCEPT !.steps = steps]
<1>1. PICK n \in 0 .. MaxSteps : r.steps \in [1 .. n -> StepRecord]
  BY DEF Record
<1>2. steps \in [1 .. n -> StepRecord]
  BY <1>1
<1>3. q \in Record
  BY <1>2 DEF Record
<1>4. \A k \in DOMAIN r.steps : WeakerStep(steps[k], r.steps[k])
  BY <1>1 DEF WeakerStep
<1>5. q.steps = steps /\ q.finished = r.finished /\ q.status = r.status
  BY DEF Record
<1>6. Weaker(q, r)
  BY <1>1, <1>2, <1>4, <1>5 DEF Weaker
<1> QED  BY <1>3, <1>6

\* What may become of the classification when step i of r is missing.
MayProve(q, r, i) ==
  \/ Classification(q) \in {Classification(r), "INDETERMINATE"}
  \/ /\ Failing(r.steps[i]) => Classification(q) = "SUCCEEDED"
     /\ ~Passing(r.steps[i])

LEMMA OneStepMissing ==
  ASSUME NEW r \in Record, NEW i \in DOMAIN r.steps
  PROVE  LET q == [r EXCEPT !.steps = RemoveAt(r.steps, i)]
         IN  q \in Record /\ q.steps = RemoveAt(r.steps, i) /\ MayProve(q, r, i)
<1> DEFINE rest == RemoveAt(r.steps, i)
           q == [r EXCEPT !.steps = rest]
<1>1. PICK n \in 0 .. MaxSteps : r.steps \in [1 .. n -> StepRecord]
  BY DEF Record
<1>2. r.steps \in Seq(StepRecord) /\ Len(r.steps) = n /\ DOMAIN r.steps = 1 .. n
  BY <1>1
<1>3. /\ rest \in Seq(StepRecord) /\ Len(rest) = n - 1
      /\ \A j \in DOMAIN rest : rest[j] = IF j < i THEN r.steps[j] ELSE r.steps[j + 1]
  BY <1>2, RemovedAt
<1> HIDE DEF rest
<1>4. DOMAIN rest = 1 .. n - 1 /\ i \in 1 .. n
  BY <1>2, <1>3
<1>5. q \in Record /\ q.steps = rest /\ q.status = r.status /\ q.finished = r.finished
  <2>1. rest \in [1 .. n - 1 -> StepRecord] /\ n - 1 \in 0 .. MaxSteps
    BY <1>3, <1>4, PolicyAssumption
  <2> QED
    BY <2>1 DEF Record
<1>6. \A j \in DOMAIN rest : \E k \in DOMAIN r.steps \ {i} : rest[j] = r.steps[k]
  <2>1. ASSUME NEW j \in 1 .. n - 1, j < i PROVE \E k \in 1 .. n : k # i /\ rest[j] = r.steps[k]
    BY <1>3, <1>4, <2>1
  <2>2. ASSUME NEW j \in 1 .. n - 1, ~(j < i)
        PROVE  \E k \in 1 .. n : k # i /\ rest[j] = r.steps[k]
    <3>1. j + 1 \in 1 .. n /\ j + 1 # i /\ rest[j] = r.steps[j + 1]
      BY <1>3, <1>4, <2>2
    <3> QED
      BY <3>1
  <2> QED
    BY <1>2, <1>4, <2>1, <2>2
<1>7. \A k \in DOMAIN r.steps \ {i} : \E j \in DOMAIN rest : rest[j] = r.steps[k]
  <2>1. ASSUME NEW k \in 1 .. n, k < i PROVE \E j \in 1 .. n - 1 : rest[j] = r.steps[k]
    BY <1>3, <1>4, <2>1
  <2>2. ASSUME NEW k \in 1 .. n, k > i PROVE \E j \in 1 .. n - 1 : rest[j] = r.steps[k]
    <3>1. /\ k - 1 \in 1 .. n - 1 /\ ~(k - 1 < i) /\ (k - 1) + 1 = k
      BY <1>4, <2>2
    <3>2. rest[k - 1] = r.steps[k]
      BY <1>3, <1>4, <3>1
    <3> QED
      BY <3>1, <3>2
  <2> QED
    BY <1>2, <1>4, <2>1, <2>2
<1>8. MayProve(q, r, i)
  <2>1. CASE Ambiguous(q)
    BY <2>1 DEF MayProve, Classification
  <2>2. CASE ~Ambiguous(q)
    <3> DEFINE s == r.steps[i]
    <3>1. \A j \in DOMAIN rest : Failing(rest[j]) \/ Passing(rest[j])
      BY <1>5, <2>2 DEF Ambiguous
    <3>2. r.status # "neither" /\ r.finished /\ r.steps # <<>>
      <4>1. r.steps # <<>>
        BY <1>2, <1>4
      <4> QED
        BY <1>5, <2>2, <4>1 DEF Ambiguous
    <3>3. (\E j \in DOMAIN rest : Failing(rest[j]))
            <=> \E k \in DOMAIN r.steps \ {i} : Failing(r.steps[k])
      <4> HIDE DEF Failing
      <4> QED
        BY <1>6, <1>7
    <3>4. Failing(s) \/ Passing(s) => ~Ambiguous(r)
      <4>1. \A k \in DOMAIN r.steps \ {i} : Failing(r.steps[k]) \/ Passing(r.steps[k])
        <5> HIDE DEF Failing, Passing
        <5> QED
          BY <1>7, <3>1
      <4> QED
        BY <3>2, <4>1 DEF Ambiguous
    <3>5. CASE Passing(s)
      <4>1. ~Failing(s)
        BY <3>5 DEF Passing, Failing
      <4>2. (\E j \in DOMAIN rest : Failing(rest[j])) <=> \E k \in DOMAIN r.steps : Failing(r.steps[k])
        BY <3>3, <4>1
      <4> QED
        BY <1>5, <2>2, <3>4, <3>5, <4>2 DEF MayProve, Classification
    <3>6. CASE Failing(s)
      <4>1. \E k \in DOMAIN r.steps : Failing(r.steps[k])
        BY <3>6
      <4>2. ~Passing(s)
        BY <3>6 DEF Passing, Failing
      <4> QED
        BY <1>5, <2>2, <3>4, <3>6, <4>1, <4>2 DEF MayProve, Classification
    <3>7. CASE ~Passing(s) /\ ~Failing(s)
      BY <3>7 DEF MayProve
    <3> QED
      BY <3>5, <3>6, <3>7
  <2> QED
    BY <2>1, <2>2
<1> QED
  BY <1>5, <1>8 DEF rest

\* Every action makes the record a weaker one, or takes a step out of it.
LEMMA OnlyLosses ==
  ASSUME record \in Record, PolicyNext
  PROVE  /\ record' \in Record /\ classified' = Classification(record')
         /\ \/ Weaker(record', record)
            \/ \E i \in DOMAIN record.steps :
                 StepMissing(i) /\ MayProve(record', record, i)
<1> USE DEF Recorded
<1>1. ASSUME LoseEnd
      PROVE  record' \in Record /\ Weaker(record', record)
  BY <1>1 DEF LoseEnd, Record, Weaker, WeakerStep
<1>2. ASSUME LoseStatus
      PROVE  record' \in Record /\ Weaker(record', record)
  BY <1>2 DEF LoseStatus, Record, Reading, Weaker, WeakerStep
<1>3. ASSUME LoseSteps
      PROVE  record' \in Record /\ Weaker(record', record)
  <2>1. <<>> \in [1 .. 0 -> StepRecord] /\ 0 \in 0 .. MaxSteps
    BY PolicyAssumption
  <2>2. record' = [record EXCEPT !.steps = <<>>]
    BY <1>3 DEF LoseSteps
  <2> QED  BY <2>1, <2>2 DEF Record, Weaker
<1>4. ASSUME NEW i \in DOMAIN record.steps, LoseStepEnd(i) \/ LoseStepStatus(i) \/ LoseError(i)
      PROVE  record' \in Record /\ Weaker(record', record)
  <2> DEFINE s == record.steps[i]
  <2>1. s \in StepRecord
    BY StepTypes
  <2>2. PICK t \in StepRecord : WeakerStep(t, s) /\ record' = [record EXCEPT !.steps[i] = t]
    <3>1. CASE LoseStepEnd(i)
      <4> DEFINE t == [s EXCEPT !.finished = FALSE]
      <4>1. t \in StepRecord /\ WeakerStep(t, s)
        BY <2>1 DEF WeakerStep, StepRecord
      <4>2. record' = [record EXCEPT !.steps[i] = t]
        BY <3>1 DEF LoseStepEnd
      <4> QED  BY <4>1, <4>2
    <3>2. CASE LoseStepStatus(i)
      <4> DEFINE t == [s EXCEPT !.status = "neither"]
      <4>1. t \in StepRecord /\ WeakerStep(t, s)
        BY <2>1 DEF WeakerStep, StepRecord, Reading
      <4>2. record' = [record EXCEPT !.steps[i] = t]
        BY <3>2 DEF LoseStepStatus
      <4> QED  BY <4>1, <4>2
    <3>3. CASE LoseError(i)
      <4> DEFINE t == [s EXCEPT !.error = FALSE]
      <4>1. t \in StepRecord /\ WeakerStep(t, s)
        BY <2>1 DEF WeakerStep, StepRecord
      <4>2. record' = [record EXCEPT !.steps[i] = t]
        BY <3>3 DEF LoseError
      <4> QED  BY <4>1, <4>2
    <3> QED  BY <1>4, <3>1, <3>2, <3>3
  <2> QED  BY <2>2, OneStepLost
<1>5. ASSUME NEW i \in DOMAIN record.steps, LoseStep(i)
      PROVE  record' \in Record /\ StepMissing(i) /\ MayProve(record', record, i)
  <2>1. record' = [record EXCEPT !.steps = RemoveAt(record.steps, i)]
    <3>1. [record EXCEPT !.steps = RemoveAt(@, i)]
            = [record EXCEPT !.steps = RemoveAt(record.steps, i)]
      BY Zenon
    <3> QED
      BY <1>5, <3>1, Zenon DEF LoseStep
  <2> QED
    BY <2>1, OneStepMissing DEF StepMissing
<1>6. classified' = Classification(record')
  BY DEF PolicyNext, LoseEnd, LoseStatus, LoseSteps, LoseStepEnd, LoseStepStatus, LoseError,
     LoseStep
<1> QED  BY <1>1, <1>2, <1>3, <1>4, <1>5, <1>6 DEF PolicyNext

LEMMA PolicyInvariance == PolicySpec => []UpToDate
<1>1. PolicyInit => UpToDate
  BY DEF PolicyInit, UpToDate
<1>2. UpToDate /\ [PolicyNext]_policyVars => UpToDate'
  <2> SUFFICES ASSUME UpToDate, [PolicyNext]_policyVars PROVE UpToDate'
    OBVIOUS
  <2>1. CASE PolicyNext
    BY <2>1, OnlyLosses DEF UpToDate
  <2>2. CASE UNCHANGED policyVars
    BY <2>2 DEF UpToDate, policyVars, Classification, Ambiguous, Failing, Passing
  <2> QED  BY <2>1, <2>2
<1> QED  BY <1>1, <1>2, PTL DEF PolicySpec

\* What is left of a record is a record, and every record has one of the three
\* classifications (analyze), for records of any length.
THEOREM PolicyTyping == PolicySpec => []PolicyTypeOK
<1>1. UpToDate => PolicyTypeOK
  BY DEF UpToDate, PolicyTypeOK, Classification
<1> QED  BY <1>1, PolicyInvariance, PTL

\* The classification of a record never becomes another conclusive one by the
\* fields, or all the steps, that it loses, in whatever order.  A missing step
\* may change it, if the step was inconclusive or a success is what is left.
THEOREM LossIsSafe == PolicySpec => OnlyMissingStepProves
<1>1. UpToDate /\ [PolicyNext]_policyVars
        => [\/ classified' \in {classified, "INDETERMINATE"}
            \/ \E i \in DOMAIN record.steps :
                 /\ StepMissing(i)
                 /\ Failing(record.steps[i]) => classified' = "SUCCEEDED"
                 /\ ~Passing(record.steps[i])]_policyVars
  <2> SUFFICES ASSUME UpToDate, PolicyNext
               PROVE  \/ classified' \in {classified, "INDETERMINATE"}
                      \/ \E i \in DOMAIN record.steps :
                           /\ StepMissing(i)
                           /\ Failing(record.steps[i]) => classified' = "SUCCEEDED"
                           /\ ~Passing(record.steps[i])
    OBVIOUS
  <2>1. CASE Weaker(record', record)
    BY <2>1, OnlyLosses, WeakerProvesLess DEF UpToDate
  <2>2. ASSUME NEW i \in DOMAIN record.steps, StepMissing(i), MayProve(record', record, i)
        PROVE  \/ classified' \in {classified, "INDETERMINATE"}
               \/ /\ Failing(record.steps[i]) => classified' = "SUCCEEDED"
                  /\ ~Passing(record.steps[i])
    BY <2>2, OnlyLosses DEF UpToDate, MayProve
  <2> QED
    BY <2>1, <2>2, OnlyLosses DEF UpToDate
<1> QED  BY <1>1, PolicyInvariance, PTL DEF PolicySpec, OnlyMissingStepProves

-------------------------------------------------------------------------------
(* OutcomeRecord: what a map of job names keeps of a job list *)

\* A name that is absent from the map was listed without a conclusion only; any
\* other has a conclusion that was listed for it.
Kept ==
  \A a \in Attempt, n \in Name :
    IF conclusion[a][n] = Absent THEN Listed(a, n) \subseteq {Pending}
    ELSE conclusion[a][n] \in Listed(a, n)

OutcomeInv == TypeOK /\ Kept /\ (status # "none" => status = Classified)

LEMMA ListedGrows ==
  ASSUME TypeOK, NEW a \in Attempt, NEW n \in Name, NEW c \in Conclusion \cup {Pending},
         ReadJob(a, n, c), NEW b \in Attempt, NEW m \in Name
  PROVE  Listed(b, m)' = IF b = a /\ m = n THEN Listed(b, m) \cup {c} ELSE Listed(b, m)
<1> DEFINE Of(r, k) == {x[2] : x \in {y \in r : y[1] = k}}
<1>1. \A r, k, p : Of(r \cup {p}, k) = IF p[1] = k THEN Of(r, k) \cup {p[2]} ELSE Of(r, k)
  OBVIOUS
<1>2. shown'[b] = IF b = a THEN shown[a] \cup {<<n, c>>} ELSE shown[b]
  BY DEF ReadJob, TypeOK
<1>3. Listed(b, m) = Of(shown[b], m) /\ Listed(b, m)' = Of(shown'[b], m)
  BY DEF Listed
<1> HIDE DEF Of
<1>4. Of(shown[a] \cup {<<n, c>>}, m)
        = IF n = m THEN Of(shown[a], m) \cup {c} ELSE Of(shown[a], m)
  <2> DEFINE x == <<n, c>>
  <2>1. x[1] = n /\ x[2] = c
    OBVIOUS
  <2> HIDE DEF x
  <2>2. Of(shown[a] \cup {x}, m) = IF x[1] = m THEN Of(shown[a], m) \cup {x[2]}
                                   ELSE Of(shown[a], m)
    BY <1>1
  <2>3. Of(shown[a] \cup {x}, m) = IF n = m THEN Of(shown[a], m) \cup {c}
                                   ELSE Of(shown[a], m)
    BY <2>1, <2>2
  <2> QED
    BY <2>3 DEF x
<1> QED
  BY <1>2, <1>3, <1>4

LEMMA ReadTyped ==
  ASSUME TypeOK, NEW a \in Attempt, NEW n \in Name, NEW c \in Conclusion \cup {Pending},
         ReadJob(a, n, c)
  PROVE  TypeOK'
<1>1. \A b \in Attempt : MaxJobs(b) \in Nat
  BY OutcomeAssumption DEF MaxJobs
<1>2. count' \in [Attempt -> Nat] /\ \A b \in Attempt : count'[b] \leq MaxJobs(b)
  BY <1>1 DEF ReadJob, TypeOK
<1>3. shown' \in [Attempt -> SUBSET (Name \X (Conclusion \cup {Pending}))]
  BY DEF ReadJob, TypeOK
<1>4. conclusion' \in [Attempt -> [Name -> Conclusion \cup {Absent}]]
  BY DEF ReadJob, TypeOK
<1> QED
  BY <1>2, <1>3, <1>4 DEF ReadJob, TypeOK

LEMMA ReadKeeps ==
  ASSUME TypeOK, Kept, NEW a \in Attempt, NEW n \in Name, NEW c \in Conclusion \cup {Pending},
         ReadJob(a, n, c)
  PROVE  Kept'
<1> SUFFICES ASSUME NEW b \in Attempt, NEW m \in Name
             PROVE  IF conclusion'[b][m] = Absent THEN Listed(b, m)' \subseteq {Pending}
                    ELSE conclusion'[b][m] \in Listed(b, m)'
  BY DEF Kept
<1>1. Listed(b, m)' = IF b = a /\ m = n THEN Listed(b, m) \cup {c} ELSE Listed(b, m)
  BY ListedGrows
<1>2. conclusion'[b][m] = IF b = a /\ m = n /\ c # Pending THEN c ELSE conclusion[b][m]
  BY DEF ReadJob, TypeOK
<1>3. IF conclusion[b][m] = Absent THEN Listed(b, m) \subseteq {Pending}
      ELSE conclusion[b][m] \in Listed(b, m)
  BY DEF Kept
<1>4. Absent \notin Conclusion \cup {Pending}
  BY DEF Absent, Conclusion, Failure, Pending
<1> QED
  BY <1>1, <1>2, <1>3, <1>4

LEMMA ClassifiedTyped == ASSUME TypeOK PROVE Classified \in Reconciliation \ {"none"}
BY DEF TypeOK, Classified, ParentDecision, Reconciliation

LEMMA OutcomeStays == OutcomeInv /\ [Next]_vars => OutcomeInv'
<1> SUFFICES ASSUME OutcomeInv, [Next]_vars PROVE OutcomeInv'
  OBVIOUS
<1>1. ASSUME NEW a \in Attempt, NEW n \in Name, NEW c \in Conclusion \cup {Pending},
             ReadJob(a, n, c)
      PROVE  OutcomeInv'
  BY <1>1, ReadTyped, ReadKeeps DEF OutcomeInv, ReadJob
<1>2. UNCHANGED <<decision, receipt, conclusion>> => UNCHANGED Classified
  BY DEF Classified, Confirmed, Recurrent, Recovered, Missing, PreviousFailed
<1>3. UNCHANGED <<conclusion, shown>> => UNCHANGED Kept
  BY DEF Kept, Listed
<1>4. CASE Reconcile
  <2>1. TypeOK'
    BY <1>4, ClassifiedTyped DEF OutcomeInv, TypeOK, Reconcile
  <2> QED
    BY <1>2, <1>3, <1>4, <2>1 DEF OutcomeInv, Reconcile
<1>5. CASE UNCHANGED vars
  <2>1. TypeOK'
    BY <1>5 DEF OutcomeInv, TypeOK, vars
  <2> QED
    BY <1>2, <1>3, <1>5, <2>1 DEF OutcomeInv, vars
<1> QED
  BY <1>1, <1>4, <1>5 DEF Next

LEMMA OutcomeInvariance == Spec => []OutcomeInv
<1>1. Init => OutcomeInv
  <2> SUFFICES ASSUME Init PROVE OutcomeInv
    OBVIOUS
  <2>1. TypeOK
    BY OutcomeAssumption DEF Init, TypeOK, MaxJobs, Reconciliation
  <2>2. Kept
    BY DEF Init, Kept, Listed
  <2> QED
    BY <2>1, <2>2 DEF Init, OutcomeInv
<1> QED
  BY <1>1, OutcomeStays, PTL DEF Spec

(* Maps, lists and the reconciliation have their types.                      *)
THEOREM OutcomeTyping == Spec => []TypeOK
<1>1. OutcomeInv => TypeOK
  BY DEF OutcomeInv
<1> QED
  BY <1>1, OutcomeInvariance, PTL

(* What build_reconciliation_record claims of a rerun has its witnesses in   *)
(* the job lists and hides no failure, for lists of any length, in any       *)
(* order, with any repetition of names.                                      *)
THEOREM ClaimsAreWitnessed == Spec => []ClaimsHaveWitnesses
<1>1. OutcomeInv => ClaimsHaveWitnesses
  <2> SUFFICES ASSUME OutcomeInv PROVE ClaimsHaveWitnesses
    OBVIOUS
  <2>1. \A a \in Attempt, n \in Name :
          /\ conclusion[a][n] \in Conclusion \cup {Absent}
          /\ IF conclusion[a][n] = Absent THEN Listed(a, n) \subseteq {Pending}
             ELSE conclusion[a][n] \in Listed(a, n)
    BY DEF OutcomeInv, TypeOK, Kept
  <2>2. {"previous", "current"} = Attempt
    BY DEF Attempt
  <2>3. /\ status \in {"RECOVERED_AFTER_RERUN", "PARTIAL_RECOVERY"} => Recovered # {}
        /\ status \in {"RECURRENT_FAILURE", "PARTIAL_RECOVERY"} => Recurrent # {}
        /\ status = "RECOVERED_AFTER_RERUN" => Recurrent = {} /\ Missing = {}
    BY DEF OutcomeInv, TypeOK, Classified, ParentDecision
  <2>4. NoFailureHidden
    <3> SUFFICES ASSUME status = "RECOVERED_AFTER_RERUN", NEW n \in Name, OnlyFailed(n)
                 PROVE  ~(Listed("current", n) \subseteq Failure \cup {Pending})
      BY DEF NoFailureHidden
    <3>1. n \in PreviousFailed
      BY <2>1, <2>2 DEF OnlyFailed, PreviousFailed, Pending, Failure
    <3>2. conclusion["current"][n] \in Conclusion \ Failure
      BY <2>1, <2>2, <2>3, <3>1 DEF Recurrent, Missing
    <3> QED
      BY <2>1, <2>2, <3>2 DEF Conclusion, Failure, Pending, Absent
  <2>5. \A n \in Recovered : /\ Listed("previous", n) \cap Failure # {}
                             /\ "success" \in Listed("current", n)
    BY <2>1, <2>2 DEF Recovered, PreviousFailed, Failure, Absent
  <2>6. \A n \in Recurrent : /\ Listed("previous", n) \cap Failure # {}
                             /\ Listed("current", n) \cap Failure # {}
    BY <2>1, <2>2 DEF Recurrent, PreviousFailed, Failure, Absent
  <2>7. Recovered \subseteq Name /\ Recurrent \subseteq Name
    BY DEF Recovered, Recurrent, PreviousFailed
  <2> QED
    BY <2>3, <2>4, <2>5, <2>6, <2>7 DEF ClaimsHaveWitnesses
<1> QED
  BY <1>1, OutcomeInvariance, PTL

-------------------------------------------------------------------------------
(* ArtifactListing: what a lookup leaves out *)

LEMMA InRange == ASSUME NEW s, NEW x
                 PROVE  x \in ToSet(s) <=> \E i \in DOMAIN s : s[i] = x
BY DEF ToSet

LEMMA Numbers ==
  ASSUME ListingTypeOK
  PROVE  /\ DOMAIN nameOf \subseteq Nat
         /\ Len(newestFirst) \in Nat
         /\ DOMAIN newestFirst = 1 .. Len(newestFirst)
         /\ \A i \in DOMAIN newestFirst : newestFirst[i] \in DOMAIN nameOf
BY DEF ListingTypeOK

\* The artifacts a lookup has to answer for.
Claimed(l) == l.since \cup {a \in DOMAIN nameOf : \E b \in Found(l) : a \leq b}

\* The listing is in the order of the uploads.
NewestFirst ==
  \A i, j \in DOMAIN newestFirst : i < j => newestFirst[j] < newestFirst[i]

\* What a lookup knows is listed by now; one that has not begun knows nothing.
Known(l) ==
  /\ l.since \cup Found(l) \subseteq DOMAIN nameOf
  /\ l.page = 0 => l.step # "returned" /\ l.since = {} /\ l.matches = {}
  /\ l.step = "returned" => Cardinality(l.matches) \leq 1

\* Between pages, the candidates it has not found are on pages to come; at the
\* end there are none.
Looked(r) ==
  LET l == lookup[r] IN
  \A i \in DOMAIN newestFirst :
    newestFirst[i] \in (Candidates(r) \cap Claimed(l)) \ Found(l) =>
      /\ BetweenPages(l) /\ l.steady => l.page * PageSize < i
      /\ ~Undisturbed(l)

ListingInv ==
  /\ ListingTypeOK
  /\ NewestFirst
  /\ \A r \in Reader : Known(lookup[r]) /\ Looked(r)

LEMMA ListingInitially == ListingInit => ListingInv
<1> SUFFICES ASSUME ListingInit PROVE ListingInv
  OBVIOUS
<1>1. ListingTypeOK
  BY ListingAssumption DEF ListingInit, ListingTypeOK, Lookup
<1>2. NewestFirst
  BY DEF ListingInit, NewestFirst
<1>3. ASSUME NEW r \in Reader PROVE Known(lookup[r]) /\ Looked(r)
  BY DEF ListingInit, Known, Looked, Found
<1> QED
  BY <1>1, <1>2, <1>3 DEF ListingInv

LEMMA UploadStays ==
  ASSUME ListingInv, NEW n \in ArtifactName, UploadArtifact(n)
  PROVE  ListingInv'
<1> DEFINE new == Len(nameOf) + 1
<1> USE DEF ListingInv, ListingTypeOK, UploadArtifact
<1>1. /\ nameOf' \in Seq(ArtifactName)
      /\ DOMAIN nameOf' = DOMAIN nameOf \cup {new}
      /\ \A a \in DOMAIN nameOf : nameOf'[a] = nameOf[a]
      /\ new \notin DOMAIN nameOf
  OBVIOUS
<1>2. /\ newestFirst' \in Seq(DOMAIN nameOf')
      /\ Len(newestFirst') = Len(newestFirst) + 1
      /\ newestFirst'[1] = new
      /\ \A i \in DOMAIN newestFirst' \ {1} :
           i - 1 \in DOMAIN newestFirst /\ newestFirst'[i] = newestFirst[i - 1]
  BY <1>1
<1>3. ListingTypeOK'
  <2>1. expired' \subseteq ToSet(newestFirst')
    <3> SUFFICES ASSUME NEW a \in expired PROVE a \in ToSet(newestFirst')
      OBVIOUS
    <3>1. PICK i \in DOMAIN newestFirst : newestFirst[i] = a
      BY InRange
    <3>2. i + 1 \in DOMAIN newestFirst' /\ newestFirst'[i + 1] = a
      BY <1>2, <3>1
    <3> QED
      BY <3>2, InRange
  <2>2. Len(nameOf') \leq MaxUploads
    BY <1>1, ListingAssumption
  <2> QED
    BY <1>1, <1>2, <2>1, <2>2
<1>4. NewestFirst'
  <2> SUFFICES ASSUME NEW i \in DOMAIN newestFirst', NEW j \in DOMAIN newestFirst', i < j
               PROVE  newestFirst'[j] < newestFirst'[i]
    BY DEF NewestFirst
  <2>1. j # 1
    BY <1>2
  <2>2. j - 1 \in DOMAIN newestFirst /\ newestFirst'[j] = newestFirst[j - 1]
    BY <1>2, <2>1
  <2>3. CASE i = 1
    BY <1>2, <2>2, <2>3
  <2>4. CASE i # 1
    BY <1>2, <2>2, <2>4 DEF NewestFirst
  <2> QED
    BY <2>3, <2>4
<1>5. ASSUME NEW r \in Reader PROVE (Known(lookup[r]) /\ Looked(r))'
  <2>1. Known(lookup[r])'
    BY <1>1 DEF Known, Found
  <2>2. Looked(r)'
    <3> DEFINE l == lookup[r]
    <3> SUFFICES ASSUME NEW i \in DOMAIN newestFirst',
                        newestFirst'[i] \in (Candidates(r)' \cap Claimed(l)') \ Found(l)
                 PROVE  /\ BetweenPages(l) /\ l.steady => l.page * PageSize < i
                        /\ ~Undisturbed(l)
      BY DEF Looked, BetweenPages, Undisturbed, Found
    <3>1. i # 1
      <4>1. newestFirst'[i] \in DOMAIN nameOf
        <5>1. newestFirst'[i] \notin Found(l) /\ newestFirst'[i] \in Claimed(l)'
          OBVIOUS
        <5>2. \A b \in Found(l) : b \in Nat /\ b < new
          BY Numbers DEF Known
        <5>3. l.since \subseteq DOMAIN nameOf
          BY DEF Known
        <5>4. DOMAIN nameOf' \subseteq Nat
          BY <1>1, Numbers
        <5>5. newestFirst'[i] \in l.since
                \/ (newestFirst'[i] \in DOMAIN nameOf' /\ \E b \in Found(l) : newestFirst'[i] \leq b)
          BY <5>1 DEF Claimed, Found
        <5>6. newestFirst'[i] # new
          BY <5>2, <5>3, <5>4, <5>5, <1>1
        <5> QED
          BY <1>1, <5>3, <5>5, <5>6
      <4> QED
        BY <1>1, <1>2, <4>1
    <3>2. i - 1 \in DOMAIN newestFirst /\ newestFirst'[i] = newestFirst[i - 1]
      BY <1>2, <3>1
    <3>3. newestFirst[i - 1] \in (Candidates(r) \cap Claimed(l)) \ Found(l)
      BY <1>1, <3>2, InRange DEF Candidates, Claimed, Found
    <3>4. /\ BetweenPages(l) /\ l.steady => l.page * PageSize < i - 1
          /\ ~Undisturbed(l)
      BY <3>2, <3>3 DEF Looked
    <3>5. l.page * PageSize \in Nat
      BY ListingAssumption DEF Lookup
    <3> QED
      BY <3>2, <3>4, <3>5
  <2> QED
    BY <2>1, <2>2
<1> QED
  BY <1>3, <1>4, <1>5

LEMMA RemoveStays ==
  ASSUME ListingInv, NEW i \in DOMAIN newestFirst, RemoveArtifact(i)
  PROVE  ListingInv'
<1> USE DEF ListingInv, ListingTypeOK, RemoveArtifact
<1> DEFINE n == Len(newestFirst)
<1>0. n \in Nat /\ DOMAIN newestFirst = 1 .. n /\ i \in 1 .. n
  BY Numbers
<1>1. /\ newestFirst' \in Seq(DOMAIN nameOf)
      /\ Len(newestFirst') = n - 1
      /\ DOMAIN newestFirst' = 1 .. n - 1
      /\ \A j \in 1 .. n - 1 :
           newestFirst'[j] = IF j < i THEN newestFirst[j] ELSE newestFirst[j + 1]
  <2>1. newestFirst' \in Seq(DOMAIN nameOf) /\ Len(newestFirst') = n - 1
    BY RemovedAt
  <2>2. DOMAIN newestFirst' = 1 .. n - 1
    BY <2>1
  <2> QED
    BY <2>1, <2>2, RemovedAt
<1> HIDE DEF n
<1>2. \A j \in 1 .. n - 1 : j \in 1 .. n /\ j + 1 \in 1 .. n /\ j \in Nat
  BY <1>0
<1>3. ListingTypeOK'
  <2>1. expired' \subseteq ToSet(newestFirst')
    <3> SUFFICES ASSUME NEW a \in expired, a # newestFirst[i] PROVE a \in ToSet(newestFirst')
      OBVIOUS
    <3>1. PICK j \in DOMAIN newestFirst : newestFirst[j] = a
      BY InRange
    <3>2. CASE j < i
      <4>1. j \in 1 .. n - 1
        BY <1>0, <3>2
      <4> QED
        BY <1>1, <3>1, <3>2, <4>1, InRange
    <3>3. CASE j > i
      <4>1. j - 1 \in DOMAIN newestFirst' /\ newestFirst'[j - 1] = a
        <5>1. j - 1 \in 1 .. n - 1 /\ ~(j - 1 < i) /\ (j - 1) + 1 = j
          BY <1>0, <3>3
        <5> QED
          BY <1>1, <3>1, <5>1
      <4> QED
        BY <4>1, InRange
    <3> QED
      BY <1>0, <3>1, <3>2, <3>3
  <2>2. ASSUME NEW r \in Reader
        PROVE  [lookup[r] EXCEPT !.steady = @ /\ ~BetweenPages(lookup[r])] \in Lookup
    <3> DEFINE l == lookup[r]
               left == l.steady /\ ~BetweenPages(l)
    <3>1. l \in Lookup /\ left \in BOOLEAN
      BY DEF Lookup
    <3> HIDE DEF left
    <3>2. [l EXCEPT !.steady = left] \in Lookup
      BY <3>1 DEF Lookup
    <3> QED
      BY <3>2 DEF left
  <2>3. lookup' \in [Reader -> Lookup]
    BY <2>2
  <2> QED
    BY <1>1, <2>1, <2>3
<1>4. NewestFirst'
  <2> SUFFICES ASSUME NEW j \in DOMAIN newestFirst', NEW k \in DOMAIN newestFirst', j < k
               PROVE  newestFirst'[k] < newestFirst'[j]
    BY DEF NewestFirst
  <2> DEFINE at(m) == IF m < i THEN m ELSE m + 1
  <2>1. /\ at(j) \in DOMAIN newestFirst /\ newestFirst'[j] = newestFirst[at(j)]
        /\ at(k) \in DOMAIN newestFirst /\ newestFirst'[k] = newestFirst[at(k)]
    BY <1>0, <1>1, <1>2
  <2>2. at(j) < at(k)
    <3>1. i \in Int /\ j \in Int /\ k \in Int
      BY <1>0, <1>1
    <3> QED
      BY <3>1
  <2> HIDE DEF at
  <2> QED
    BY <2>1, <2>2 DEF NewestFirst
<1>5. ASSUME NEW r \in Reader PROVE (Known(lookup[r]) /\ Looked(r))'
  <2> DEFINE l == lookup[r]
  <2>1. lookup'[r] = [l EXCEPT !.steady = l.steady /\ ~BetweenPages(l)]
    OBVIOUS
  <2>2. /\ lookup'[r].step = l.step /\ lookup'[r].page = l.page
        /\ lookup'[r].matches = l.matches /\ lookup'[r].since = l.since
        /\ lookup'[r].fits = l.fits
        /\ lookup'[r].steady => l.steady /\ ~BetweenPages(l)
    BY <2>1 DEF Lookup
  <2>3. Known(lookup[r])'
    BY <2>2 DEF Known, Found
  <2>4. Looked(r)'
    <3> SUFFICES ASSUME NEW j \in DOMAIN newestFirst',
                        newestFirst'[j] \in ((Candidates(r) \cap Claimed(l)) \ Found(l))'
                 PROVE  (~(BetweenPages(l) /\ l.steady) /\ ~Undisturbed(l))'
      BY DEF Looked
    <3>1. PICK k \in DOMAIN newestFirst : newestFirst'[j] = newestFirst[k] /\ k # i
      <4>1. j \in 1 .. n - 1
        BY <1>1
      <4>2. CASE j < i
        BY <1>0, <1>1, <1>2, <4>1, <4>2
      <4>3. CASE ~(j < i)
        <5>1. j + 1 \in DOMAIN newestFirst /\ j + 1 # i
          BY <1>0, <1>2, <4>1, <4>3
        <5>2. newestFirst'[j] = newestFirst[j + 1]
          BY <1>1, <4>1, <4>3
        <5> QED
          BY <5>1, <5>2
      <4> QED
        BY <4>2, <4>3
    <3>2. newestFirst[k] # newestFirst[i]
      <4>1. k \in Int /\ newestFirst[k] \in Int /\ newestFirst[i] \in Int
        BY <1>0, Numbers
      <4>2. CASE k < i
        BY <4>1, <4>2 DEF NewestFirst
      <4>3. CASE i < k
        BY <4>1, <4>3 DEF NewestFirst
      <4> QED
        BY <1>0, <3>1, <4>1, <4>2, <4>3
    <3>3. newestFirst[k] \in (Candidates(r) \cap Claimed(l)) \ Found(l)
      BY <2>2, <3>1, <3>2, InRange DEF Candidates, Claimed, Found
    <3>4. ~Undisturbed(l)
      BY <3>3 DEF Looked
    <3> QED
      BY <2>2, <3>4 DEF BetweenPages, Undisturbed
  <2> QED
    BY <2>3, <2>4
<1> QED
  BY <1>3, <1>4, <1>5

LEMMA ExpireStays ==
  ASSUME ListingInv, NEW x \in DOMAIN nameOf, ExpireArtifact(x)
  PROVE  ListingInv'
<1>1. expired' \subseteq ToSet(newestFirst)
  BY DEF ListingInv, ListingTypeOK, ExpireArtifact
<1>2. ListingTypeOK' /\ NewestFirst'
  BY <1>1 DEF ListingInv, ListingTypeOK, ExpireArtifact, NewestFirst
<1>3. ASSUME NEW r \in Reader PROVE (Known(lookup[r]) /\ Looked(r))'
  <2>1. Known(lookup[r]) /\ Looked(r)
    BY DEF ListingInv
  <2>2. Candidates(r)' \subseteq Candidates(r)
    BY DEF Candidates, ExpireArtifact
  <2>3. Known(lookup[r])'
    BY <2>1 DEF Known, Found, ExpireArtifact
  <2>4. Claimed(lookup[r])' = Claimed(lookup[r]) /\ Found(lookup[r])' = Found(lookup[r])
    BY DEF Claimed, Found, ExpireArtifact
  <2>5. Looked(r)'
    BY <2>1, <2>2, <2>4 DEF Looked, BetweenPages, Undisturbed, ExpireArtifact
  <2> QED
    BY <2>3, <2>5
<1> QED
  BY <1>2, <1>3 DEF ListingInv

LEMMA UnavailableStays ==
  ASSUME ListingInv, NEW q \in Reader, PageUnavailable(q)
  PROVE  ListingInv'
<1> DEFINE l == lookup[q]
<1>1. l \in Lookup /\ lookup \in [Reader -> Lookup]
  BY DEF ListingInv, ListingTypeOK
<1>2. /\ \A r \in Reader \ {q} : lookup'[r] = lookup[r]
      /\ lookup'[q] = [l EXCEPT !.step = "raised"]
      /\ UNCHANGED <<nameOf, newestFirst, expired>>
  BY <1>1 DEF PageUnavailable
<1>3. lookup' \in [Reader -> Lookup]
  BY <1>1 DEF PageUnavailable, Lookup
<1>4. ListingTypeOK' /\ NewestFirst'
  BY <1>2, <1>3 DEF ListingInv, ListingTypeOK, NewestFirst
<1>5. ASSUME NEW r \in Reader \ {q} PROVE (Known(lookup[r]) /\ Looked(r))'
  BY <1>2 DEF ListingInv, Known, Looked, Found, Claimed, Candidates, BetweenPages, Undisturbed
<1>6. (Known(lookup[q]) /\ Looked(q))'
  <2>1. /\ l'.step = "raised" /\ l'.page = l.page
        /\ l'.since = l.since /\ l'.matches = l.matches
    BY <1>1, <1>2 DEF Lookup
  <2>2. Known(l)
    BY DEF ListingInv
  <2> QED
    BY <1>2, <2>1, <2>2 DEF Known, Looked, Found, BetweenPages, Undisturbed
<1> QED
  BY <1>4, <1>5, <1>6 DEF ListingInv

\* A page before a listed position is full.
LEMMA FullPage ==
  ASSUME ListingTypeOK, NEW k \in 1 .. MaxPages, NEW i \in DOMAIN newestFirst,
         k * PageSize < i
  PROVE  Cardinality(Positions(k)) = PageSize
<1> DEFINE from == (k - 1) * PageSize + 1
           to == k * PageSize
<1>1. k \in Nat \ {0} /\ PageSize \in Nat \ {0} /\ i \in Nat
  BY ListingAssumption, Numbers
<1>2. from \in Nat /\ to \in Nat /\ to = from + PageSize - 1 /\ from > 0
  BY <1>1
<1>3. \A j \in Nat : (k - 1) * PageSize < j <=> from \leq j
  BY <1>1, <1>2
<1>4. i \in 1 .. Len(newestFirst) /\ DOMAIN newestFirst = 1 .. Len(newestFirst)
      /\ Len(newestFirst) \in Nat
  BY Numbers
<1>5. to < i
  OBVIOUS
<1>6. Positions(k) = {j \in 1 .. Len(newestFirst) : from \leq j /\ j \leq to}
  BY <1>3, <1>4 DEF Positions
<1> HIDE DEF from, to
<1>7. Positions(k) = from .. to
  BY <1>2, <1>4, <1>5, <1>6
<1>8. Cardinality(from .. to) = to - from + 1
  BY <1>1, <1>2, FS_Interval
<1> QED
  BY <1>1, <1>2, <1>7, <1>8

\* What is claimed of a lookup that goes on is on the page it reads, or on
\* one to come.
LEMMA NotBefore ==
  ASSUME ListingInv, NEW r \in Reader, ReadPage(r), lookup[r].steady,
         NEW i \in DOMAIN newestFirst,
         newestFirst[i] \in (Candidates(r) \cap Claimed(lookup[r])') \ Found(lookup[r])
  PROVE  (lookup[r].page) * PageSize < i
<1> DEFINE l == lookup[r]
           k == l.page + 1
<1>1. l \in Lookup /\ l.page \in Nat /\ PageSize \in Nat /\ i \in Nat \ {0}
  BY ListingAssumption, Numbers DEF ListingInv, ListingTypeOK, Lookup
<1>2. CASE l.page = 0
  BY <1>1, <1>2
<1>3. CASE l.page # 0
  <2>1. k # 1 /\ BetweenPages(l)
    BY <1>1, <1>3 DEF ReadPage, BetweenPages
  <2>2. Known(l) /\ Looked(r) /\ NewestFirst
    BY DEF ListingInv
  <2>3. /\ lookup'[r].since = l.since
        /\ lookup'[r].matches = l.matches \cup MatchesOn(r, k)
        /\ nameOf' = nameOf
    BY <2>1 DEF ReadPage, ListingInv, ListingTypeOK
  <2>4. CASE newestFirst[i] \in Claimed(l)
    BY <2>1, <2>2, <2>4 DEF Looked
  <2>5. CASE newestFirst[i] \notin Claimed(l)
    <3>1. PICK m \in MatchesOn(r, k) : newestFirst[i] \leq m[2]
      BY <2>3, <2>5 DEF Claimed, Found
    <3>2. PICK j \in Positions(k) : m[2] = newestFirst[j]
      BY <3>1 DEF MatchesOn
    <3>3. /\ j \in DOMAIN newestFirst /\ j \in Nat
          /\ newestFirst[j] \in Nat /\ newestFirst[i] \in Nat
      BY <3>2, Numbers DEF Positions, ListingInv
    <3>4. ~(i < j)
      BY <2>2, <3>1, <3>2, <3>3 DEF NewestFirst
    <3>5. (k - 1) * PageSize < j
      BY <3>2 DEF Positions
    <3>6. l.page * PageSize < j /\ l.page * PageSize \in Nat
      BY <1>1, <3>5
    <3> QED
      BY <1>1, <3>3, <3>4, <3>6
  <2> QED
    BY <2>4, <2>5
<1> QED
  BY <1>2, <1>3

LEMMA FiniteMatches ==
  ASSUME NEW matches \in SUBSET ((1 .. MaxPages) \X (1 .. MaxUploads))
  PROVE  IsFiniteSet(matches) /\ Cardinality(matches) \in Nat
<1>1. IsFiniteSet(1 .. MaxPages) /\ IsFiniteSet(1 .. MaxUploads)
  BY FS_Interval, ListingAssumption
<1>2. IsFiniteSet((1 .. MaxPages) \X (1 .. MaxUploads))
  BY <1>1, FS_Product
<1>3. IsFiniteSet(matches)
  BY <1>2, FS_Subset
<1> QED
  BY <1>3, FS_CardinalityType

LEMMA ReadStays ==
  ASSUME ListingInv, NEW q \in Reader, ReadPage(q)
  PROVE  ListingInv'
<1> DEFINE l == lookup[q]
           k == l.page + 1
           found == MatchesOn(q, k)
           matches == l.matches \cup found
           last == LastPage(k)
           after == [step |-> IF last THEN Judge(matches) ELSE "reading",
                     page |-> k,
                     matches |-> matches,
                     since |-> IF k = 1 THEN ToSet(newestFirst) ELSE l.since,
                     steady |-> l.steady,
                     fits |-> Len(newestFirst) \leq MaxPages * PageSize]
<1>1. l \in Lookup /\ lookup \in [Reader -> Lookup] /\ Known(l) /\ ListingTypeOK
  BY DEF ListingInv, ListingTypeOK
<1>2. /\ \A r \in Reader \ {q} : lookup'[r] = lookup[r]
      /\ lookup'[q] = after
      /\ lookup' = [lookup EXCEPT ![q] = after]
      /\ UNCHANGED <<nameOf, newestFirst, expired>>
      /\ l.step = "reading" /\ k \leq MaxPages
  BY <1>1 DEF ReadPage
<1>3. k \in 1 .. MaxPages
  BY <1>1, <1>2, ListingAssumption DEF Lookup
<1>4. ToSet(newestFirst) \subseteq DOMAIN nameOf
  BY <1>1, Numbers DEF ToSet
<1>5. DOMAIN nameOf \subseteq 1 .. MaxUploads
  BY <1>1, ListingAssumption DEF ListingTypeOK
<1>6. /\ \A m \in found : m[1] = k /\ m[2] \in DOMAIN nameOf
      /\ found \subseteq (1 .. MaxPages) \X (1 .. MaxUploads)
  <2>1. \A j \in Positions(k) : newestFirst[j] \in DOMAIN nameOf
    BY <1>1, Numbers DEF Positions
  <2> QED
    BY <1>3, <1>5, <2>1 DEF MatchesOn
<1>7. after \in Lookup
  <2>1. (IF last THEN Judge(matches) ELSE "reading") \in {"reading", "returned", "raised"}
    BY DEF Judge
  <2>2. matches \in SUBSET ((1 .. MaxPages) \X (1 .. MaxUploads))
    BY <1>1, <1>6 DEF Lookup
  <2>3. (IF k = 1 THEN ToSet(newestFirst) ELSE l.since) \in SUBSET (1 .. MaxUploads)
    BY <1>1, <1>4, <1>5 DEF Lookup
  <2>4. k \in 0 .. MaxPages /\ l.steady \in BOOLEAN
    BY <1>1, <1>3 DEF Lookup
  <2>5. (Len(newestFirst) \leq MaxPages * PageSize) \in BOOLEAN
    OBVIOUS
  <2> HIDE DEF last, matches, k
  <2> QED
    BY <2>1, <2>2, <2>3, <2>4, <2>5 DEF Lookup
<1>8. lookup' \in [Reader -> Lookup]
  BY <1>1, <1>2, <1>7
<1>9. ListingTypeOK' /\ NewestFirst'
  BY <1>2, <1>8 DEF ListingInv, ListingTypeOK, NewestFirst
<1>10. ASSUME NEW r \in Reader \ {q} PROVE (Known(lookup[r]) /\ Looked(r))'
  BY <1>2 DEF ListingInv, Known, Looked, Found, Claimed, Candidates, BetweenPages, Undisturbed
<1> HIDE DEF found, last, k, matches
<1>11. /\ l'.step = (IF last THEN Judge(matches) ELSE "reading")
       /\ l'.page = k /\ l'.matches = matches /\ l'.steady = l.steady
       /\ l'.fits = (Len(newestFirst) \leq MaxPages * PageSize)
       /\ l'.since = (IF k = 1 THEN ToSet(newestFirst) ELSE l.since)
  BY <1>2
<1>12. Known(lookup[q])'
  <2>1. (l.since \cup Found(l))' \subseteq DOMAIN nameOf
    BY <1>1, <1>4, <1>6, <1>11 DEF Known, Found, matches
  <2>2. l'.page # 0
    BY <1>3, <1>11
  <2>3. Cardinality(matches) \in Nat
    <3>1. matches \subseteq (1 .. MaxPages) \X (1 .. MaxUploads)
      BY <1>1, <1>6 DEF Lookup, matches
    <3> QED
      BY <3>1, FiniteMatches
  <2>4. l'.step = "returned" => Cardinality(matches) \leq 1
    BY <1>11, <2>3 DEF Judge
  <2> QED
    BY <1>2, <1>11, <2>1, <2>2, <2>4 DEF Known
<1>13. Looked(q)'
  <2> SUFFICES ASSUME NEW i \in DOMAIN newestFirst,
                      newestFirst[i] \in (Candidates(q) \cap Claimed(l)') \ Found(l)'
               PROVE  (/\ BetweenPages(l) /\ l.steady => l.page * PageSize < i
                       /\ ~Undisturbed(l))'
    BY <1>2 DEF Looked, Candidates
  <2> SUFFICES ASSUME l.steady
               PROVE  /\ k * PageSize < i
                      /\ last => ~(l'.fits)
    BY <1>11 DEF BetweenPages, Undisturbed
  <2>1. newestFirst[i] \notin Found(l)
    BY <1>11 DEF Found, matches
  <2>2. l.page * PageSize < i
    BY <2>1, NotBefore
  <2>3. PageSize \in Nat \ {0} /\ i \in Nat /\ l.page \in Nat /\ k = l.page + 1
    BY <1>1, ListingAssumption, Numbers DEF Lookup, k
  <2>4. i \notin Positions(k)
    <3> SUFFICES ASSUME i \in Positions(k) PROVE FALSE
      OBVIOUS
    <3>1. <<k, newestFirst[i]>> \in found
      BY DEF found, MatchesOn, Candidates
    <3>2. newestFirst[i] \in Found(l)'
      BY <1>11, <3>1 DEF Found, matches
    <3> QED
      BY <3>2
  <2>5. k * PageSize < i
    <3>1. (k - 1) * PageSize < i
      BY <2>2, <2>3
    <3>2. ~(i \leq k * PageSize)
      BY <2>4, <3>1 DEF Positions
    <3>3. k * PageSize \in Nat
      BY <2>3
    <3> QED
      BY <2>3, <3>2, <3>3
  <2>6. ASSUME last PROVE ~(l'.fits)
    <3>1. Cardinality(Positions(k)) = PageSize
      BY <1>1, <1>3, <2>5, FullPage
    <3>2. k = MaxPages
      BY <2>3, <2>6, <3>1 DEF last, LastPage
    <3>3. MaxPages * PageSize < Len(newestFirst)
      <4>1. i \leq Len(newestFirst) /\ Len(newestFirst) \in Nat
        BY <1>1, Numbers
      <4>2. k * PageSize \in Nat
        BY <2>3
      <4> QED
        BY <2>3, <2>5, <3>2, <4>1, <4>2
    <3>4. MaxPages * PageSize \in Nat /\ Len(newestFirst) \in Nat
      BY <1>1, ListingAssumption, Numbers
    <3>5. ~(Len(newestFirst) \leq MaxPages * PageSize)
      BY <3>3, <3>4
    <3> QED
      BY <1>11, <3>5, Zenon
  <2> QED
    BY <2>5, <2>6
<1> QED
  BY <1>9, <1>10, <1>12, <1>13 DEF ListingInv

LEMMA ListingInvariance == ListingSpec => []ListingInv
<1>1. ASSUME ListingInv, [ListingNext]_listingVars PROVE ListingInv'
  <2>1. CASE UNCHANGED listingVars
    BY <1>1, <2>1 DEF listingVars, ListingInv, ListingTypeOK, NewestFirst, Known, Looked,
                      Found, Claimed, Candidates, BetweenPages, Undisturbed
  <2>2. CASE ListingNext
    BY <1>1, <2>2, UploadStays, ExpireStays, RemoveStays, ReadStays, UnavailableStays
       DEF ListingNext
  <2> QED
    BY <1>1, <2>1, <2>2
<1> QED
  BY <1>1, ListingInitially, PTL DEF ListingSpec

\* One match is one artifact.
LEMMA OneFound ==
  ASSUME ListingInv, NEW r \in Reader, lookup[r].step = "returned",
         NEW a \in Found(lookup[r])
  PROVE  Found(lookup[r]) = {a}
<1> DEFINE matches == lookup[r].matches
<1>1. IsFiniteSet(matches)
  <2>1. matches \subseteq (1 .. MaxPages) \X (1 .. MaxUploads)
    BY DEF ListingInv, ListingTypeOK, Lookup
  <2> QED
    BY <2>1, FiniteMatches
<1>2. PICK m \in matches : m[2] = a
  BY DEF Found
<1>3. Cardinality(matches) \leq 1
  BY DEF ListingInv, Known
<1>4. ASSUME NEW b \in matches PROVE b = m
  <2>1. {b, m} \subseteq matches
    BY <1>2
  <2>2. IsFiniteSet({b, m}) /\ Cardinality({b, m}) \leq Cardinality(matches)
    BY <1>1, <2>1, FS_Subset
  <2>3. b # m => Cardinality({b, m}) = 2
    <3> SUFFICES ASSUME b # m PROVE Cardinality({b, m}) = 2
      OBVIOUS
    <3>1. IsFiniteSet({m}) /\ Cardinality({m}) = 1
      BY FS_Singleton
    <3>2. Cardinality({m} \cup {b}) = Cardinality({m}) + 1
      BY <3>1, FS_AddElement
    <3>3. {m} \cup {b} = {b, m}
      OBVIOUS
    <3> QED
      BY <3>1, <3>2, <3>3
  <2>4. Cardinality({b, m}) \in Nat /\ Cardinality(matches) \in Nat
    BY <1>1, <2>2, FS_CardinalityType
  <2> QED
    BY <1>3, <2>2, <2>3, <2>4
<1> QED
  BY <1>2, <1>4 DEF Found

(* Every lookup leaves a typed state, for pages of any size and any number of *)
(* artifacts and lookups.                                                     *)
THEOREM ListingTyping == ListingSpec => []ListingTypeOK
<1>1. ListingInv => ListingTypeOK
  BY DEF ListingInv
<1> QED
  BY <1>1, ListingInvariance, PTL

(* What find_previous_decision_artifact and find_matching_receipt_artifact    *)
(* return is the only candidate of those there were when they began, and of   *)
(* those older than it, whatever is uploaded and expires while they read.     *)
THEOREM NoOtherCandidate == ListingSpec => []NoRival
<1>1. ListingInv => NoRival
  <2> SUFFICES ASSUME ListingInv, NEW r \in Reader, Undisturbed(lookup[r]),
                      NEW a \in Candidates(r),
                      a \in lookup[r].since \/ \E b \in Found(lookup[r]) : a \leq b
               PROVE  Found(lookup[r]) = {a}
    BY DEF NoRival
  <2>1. PICK i \in DOMAIN newestFirst : newestFirst[i] = a
    BY InRange DEF Candidates
  <2>2. a \in Claimed(lookup[r])
    BY <2>1, Numbers DEF Claimed, ListingInv
  <2>3. a \in Found(lookup[r])
    BY <2>1, <2>2 DEF ListingInv, Looked
  <2> QED
    BY <2>3, OneFound DEF Undisturbed
<1> QED
  BY <1>1, ListingInvariance, PTL

(* Two lookups for the same record, undisturbed, never go on with two that    *)
(* both still stand: of different answers one has expired or is gone.         *)
THEOREM LookupsAgree ==
  ListingSpec =>
    [](\A q, r \in Reader :
         /\ Undisturbed(lookup[q]) /\ Undisturbed(lookup[r])
         /\ Wanted[q] = Wanted[r]
         => \A a \in Found(lookup[q]) \cap Candidates(q),
               b \in Found(lookup[r]) \cap Candidates(r) : a = b)
<1> DEFINE Agree == \A q, r \in Reader :
                      /\ Undisturbed(lookup[q]) /\ Undisturbed(lookup[r])
                      /\ Wanted[q] = Wanted[r]
                      => \A a \in Found(lookup[q]) \cap Candidates(q),
                            b \in Found(lookup[r]) \cap Candidates(r) : a = b
<1>1. ListingInv /\ NoRival => Agree
  <2> SUFFICES ASSUME ListingInv, NoRival, NEW q \in Reader, NEW r \in Reader,
                      Undisturbed(lookup[q]), Undisturbed(lookup[r]), Wanted[q] = Wanted[r],
                      NEW a \in Found(lookup[q]) \cap Candidates(q),
                      NEW b \in Found(lookup[r]) \cap Candidates(r)
               PROVE  a = b
    BY DEF Agree
  <2>1. Candidates(q) = Candidates(r)
    BY DEF Candidates
  <2>2. a \in Nat /\ b \in Nat
    BY Numbers DEF ListingInv, Known
  <2>3. CASE a \leq b
    <3>1. Found(lookup[r]) = {a}
      BY <2>1, <2>3 DEF NoRival
    <3> QED
      BY <3>1
  <2>4. CASE b \leq a
    <3>1. Found(lookup[q]) = {b}
      BY <2>1, <2>4 DEF NoRival
    <3> QED
      BY <3>1
  <2> QED
    BY <2>2, <2>3, <2>4
<1> QED
  BY <1>1, ListingInvariance, NoOtherCandidate, PTL
===============================================================================
