------------------------------ MODULE RetryPolicy ------------------------------
(***************************************************************************)
(* The workflow_failure_lab package: analysis.py classifies the record of  *)
(* one execution, retry_policy.py says whether it may be retried.  The     *)
(* record comes from another system, which may lose what it knew of it.    *)
(* Raw statuses are what analysis.py reads them as.                        *)
(***************************************************************************)
EXTENDS Naturals, Sequences, SequencesExt

CONSTANT MaxSteps  \* bound: steps of an execution
ASSUME PolicyAssumption == MaxSteps \in Nat

Reading == {"success", "failure", "neither"}
StepRecord == [finished : BOOLEAN, status : Reading, error : BOOLEAN]
Record == [finished : BOOLEAN, status : Reading,
           steps : UNION {[1 .. n -> StepRecord] : n \in 0 .. MaxSteps}]

VARIABLES record, classified  \* the record, and what analyze makes of it

policyVars == <<record, classified>>

-------------------------------------------------------------------------------
\* A step recorded as failed counts as failed only with its error.
Failing(s) == s.finished /\ s.status = "failure" /\ s.error
Passing(s) == s.finished /\ s.status = "success"

\* What Ambiguous would be if every step that has finished were conclusive.
AmbiguousUnfinished(r) ==
  r.status = "neither" \/ ~r.finished \/ r.steps = <<>>
    \/ \E i \in DOMAIN r.steps : ~r.steps[i].finished
Ambiguous(r) ==
  \/ r.status = "neither" \/ ~r.finished \/ r.steps = <<>>
  \/ \E i \in DOMAIN r.steps : ~Failing(r.steps[i]) /\ ~Passing(r.steps[i])

\* analyze
Classification(r) ==
  LET failed == \E i \in DOMAIN r.steps : Failing(r.steps[i])
  IN  IF Ambiguous(r) THEN "INDETERMINATE"
      ELSE IF r.status = "failure" /\ failed THEN "FAILED_CONFIRMED"
      ELSE IF r.status = "success" /\ ~failed THEN "SUCCEEDED"
      ELSE "INDETERMINATE"

\* decide
RetryPermitted(c) == c = "FAILED_CONFIRMED"

-------------------------------------------------------------------------------
PolicyInit ==
  /\ record \in Record
  /\ classified = Classification(record)

Recorded(r) == record' = r /\ classified' = Classification(r)

LoseEnd == record.finished /\ Recorded([record EXCEPT !.finished = FALSE])
LoseStatus == record.status # "neither" /\ Recorded([record EXCEPT !.status = "neither"])
LoseStepEnd(i) ==
  record.steps[i].finished /\ Recorded([record EXCEPT !.steps[i].finished = FALSE])
LoseStepStatus(i) ==
  record.steps[i].status # "neither" /\ Recorded([record EXCEPT !.steps[i].status = "neither"])
LoseError(i) == record.steps[i].error /\ Recorded([record EXCEPT !.steps[i].error = FALSE])
LoseStep(i) == Recorded([record EXCEPT !.steps = RemoveAt(@, i)])
LoseSteps == record.steps # <<>> /\ Recorded([record EXCEPT !.steps = <<>>])

PolicyNext ==
  \/ LoseEnd \/ LoseStatus \/ LoseSteps
  \/ \E i \in DOMAIN record.steps :
       LoseStepEnd(i) \/ LoseStepStatus(i) \/ LoseError(i) \/ LoseStep(i)

PolicyTypeOK ==
  record \in Record /\ classified \in {"SUCCEEDED", "FAILED_CONFIRMED", "INDETERMINATE"}

PolicySpec == PolicyInit /\ [][PolicyNext]_policyVars

-------------------------------------------------------------------------------
StepMissing(i) == record'.steps = RemoveAt(record.steps, i)

\* A record that loses what it says of its end, of its status or of a step, or
\* all its steps, proves no more than before ("never an optimistic SUCCEEDED or
\* a pessimistic FAILED_CONFIRMED", analysis.py).  A step that is missing
\* altogether is not noticed: the rest proves more than before only if that
\* step was inconclusive, or had failed in what is now a SUCCEEDED; a
\* permission to retry is never gained by the loss of a conclusive step.
OnlyMissingStepProves ==
  [][ \/ classified' \in {classified, "INDETERMINATE"}
      \/ \E i \in DOMAIN record.steps :
           /\ StepMissing(i)
           /\ Failing(record.steps[i]) => classified' = "SUCCEEDED"
           /\ ~Passing(record.steps[i])
    ]_policyVars
===============================================================================
