---------------------------- MODULE OutcomeRecord ----------------------------
(***************************************************************************)
(* outcome_record.py: what became of a decision in the next attempt.  The  *)
(* jobs of the two attempts are taken in the order the API lists them,     *)
(* each attempt as a map from job names to conclusions, and the maps are   *)
(* compared.  A job name may occur twice in one attempt.                   *)
(***************************************************************************)
EXTENDS Naturals, FiniteSets

CONSTANTS
  Name,         \* job names
  MaxPrevious,  \* bound: jobs listed for the previous attempt
  MaxCurrent    \* bound: jobs listed for the current one

ASSUME OutcomeAssumption == MaxPrevious \in Nat /\ MaxCurrent \in Nat

Failure == {"failure", "timed_out"}
Conclusion == Failure \cup {"success", "cancelled"}
Pending == "pending"      \* a job without a conclusion
Absent == "absent"        \* a name that no concluded job has

Attempt == {"previous", "current"}
MaxJobs(a) == IF a = "previous" THEN MaxPrevious ELSE MaxCurrent
ParentDecision == {"ALLOW", "BLOCK"}
ReceiptOutcome == {"none", "SUCCEEDED", "NOT_EXECUTED", "UNKNOWN"}
Reconciliation == {"none", "SUBSEQUENT_ATTEMPT_AFTER_BLOCK",
           "SUBSEQUENT_ATTEMPT_EXTERNAL_OR_UNKNOWN", "PARTIAL_RECOVERY",
           "RECURRENT_FAILURE", "RECOVERED_AFTER_RERUN", "OUTCOME_UNKNOWN"}

VARIABLES
  decision,   \* the parent decision
  receipt,    \* the outcome in its execution receipt, if one was found
  conclusion, \* conclusion[a]: the map of attempt a built so far
  shown,     \* history: shown[a] is the set of <<name, conclusion>> read
  count,      \* jobs read of each attempt
  status      \* the reconciliation

vars == <<decision, receipt, conclusion, shown, count, status>>

TypeOK ==
  /\ decision \in ParentDecision
  /\ receipt \in ReceiptOutcome
  /\ conclusion \in [Attempt -> [Name -> Conclusion \cup {Absent}]]
  /\ shown \in [Attempt -> SUBSET (Name \X (Conclusion \cup {Pending}))]
  /\ count \in [Attempt -> Nat] /\ \A a \in Attempt : count[a] \leq MaxJobs(a)
  /\ status \in Reconciliation

Init ==
  /\ decision \in ParentDecision
  /\ receipt \in ReceiptOutcome
  /\ conclusion = [a \in Attempt |-> [n \in Name |-> Absent]]
  /\ shown = [a \in Attempt |-> {}]
  /\ count = [a \in Attempt |-> 0]
  /\ status = "none"

\* One turn of the loop of _terminal_job_map.
ReadJob(a, n, c) ==
  /\ status = "none"
  /\ count[a] < MaxJobs(a)
  /\ count' = [count EXCEPT ![a] = @ + 1]
  /\ shown' = [shown EXCEPT ![a] = @ \cup {<<n, c>>}]
  /\ conclusion' = IF c = Pending THEN conclusion
                   ELSE [conclusion EXCEPT ![a][n] = c]
  /\ UNCHANGED <<decision, receipt, status>>

-------------------------------------------------------------------------------
(* build_outcome_record *)

PreviousFailed == {n \in Name : conclusion["previous"][n] \in Failure}

\* What Missing would be if it looked for names that no job has in either attempt.
MissingInBoth == {n \in Name : \A a \in Attempt : conclusion[a][n] = Absent} \cap PreviousFailed

Recovered == {n \in PreviousFailed : conclusion["current"][n] = "success"}
Recurrent == {n \in PreviousFailed : conclusion["current"][n] \in Failure}
Missing == {n \in PreviousFailed : conclusion["current"][n] = Absent}
Confirmed == receipt = "SUCCEEDED"

\* build_reconciliation_record
Classified ==
  CASE decision = "BLOCK" -> "SUBSEQUENT_ATTEMPT_AFTER_BLOCK"
    [] decision = "ALLOW" /\ ~Confirmed -> "SUBSEQUENT_ATTEMPT_EXTERNAL_OR_UNKNOWN"
    [] decision = "ALLOW" /\ Confirmed ->
         IF Recurrent # {} THEN IF Recovered # {} THEN "PARTIAL_RECOVERY"
                                ELSE "RECURRENT_FAILURE"
         ELSE IF Recovered # {} /\ Missing = {} THEN "RECOVERED_AFTER_RERUN"
         ELSE "OUTCOME_UNKNOWN"

Reconcile ==
  /\ status = "none"
  /\ status' = Classified
  /\ UNCHANGED <<decision, receipt, conclusion, shown, count>>

Next ==
  \/ \E a \in Attempt, n \in Name, c \in Conclusion \cup {Pending} : ReadJob(a, n, c)
  \/ Reconcile

Spec == Init /\ [][Next]_vars

-------------------------------------------------------------------------------
(* Properties *)

\* What was listed of a name, and what of it was a failure.
Listed(a, n) == {x[2] : x \in {y \in shown[a] : y[1] = n}}
OnlyFailed(n) == Listed("previous", n) # {} /\ Listed("previous", n) \subseteq Failure

(* A recovery is never claimed over a failure: no name that had only failed  *)
(* before has only failed again, or was left unlisted, when reconciliation   *)
(* says RECOVERED_AFTER_RERUN, whatever the order and the repetitions.       *)
NoFailureHidden ==
  status = "RECOVERED_AFTER_RERUN" =>
    \A n \in Name :
      OnlyFailed(n) => ~(Listed("current", n) \subseteq Failure \cup {Pending})

(* A claim about recovery or recurrence hides no failure, and has a witness  *)
(* in the job lists of both attempts: a name that failed and then succeeded, *)
(* or failed again.                                                          *)
ClaimsHaveWitnesses ==
  /\ NoFailureHidden
  /\ status \in {"RECOVERED_AFTER_RERUN", "PARTIAL_RECOVERY"} =>
       \E n \in Name : /\ Listed("previous", n) \cap Failure # {}
                       /\ "success" \in Listed("current", n)
  /\ status \in {"RECURRENT_FAILURE", "PARTIAL_RECOVERY"} =>
       \E n \in Name : /\ Listed("previous", n) \cap Failure # {}
                       /\ Listed("current", n) \cap Failure # {}

(* RECOVERED_AFTER_RERUN means success for every previously failed name, as  *)
(* the reason that goes with it says.  (It does not hold: a job that was     *)
(* cancelled in the next attempt is passed over.)                            *)
RecoveredMeansAll ==
  status = "RECOVERED_AFTER_RERUN" =>
    \A n \in Name : OnlyFailed(n) => "success" \in Listed("current", n)
===============================================================================
