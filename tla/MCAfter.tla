-------------------------------- MODULE MCAfter --------------------------------
(* Instances of what is made of runs that are over: the history of a flaky     *)
(* test, its issues and comments, the selective rerun, the retry policy, the   *)
(* outcome of a rerun, and what the gate learns from runs.  Each behaviour is  *)
(* one of a single module, its part; the variables of the others keep the      *)
(* values they begin with.                                                     *)
EXTENDS FlakyHistory, FlakyIssues, SelectiveRerun, RetryPolicy, OutcomeRecord,
        RerunHistory, TLC

VARIABLE part

\* One entry, approved for the first moment, and active since an older run.
Entries == {[from |-> 0, to |-> 1, since |-> 0]}

\* One job that may end in several ways, beside one that only succeeds.
JobEndings == "a" :> {"failed", "unbound", "passed", "skipped"} @@ "b" :> {"passed"}

HistoryPart == part = "history" /\ HistoryNext
  /\ UNCHANGED <<part, issuesVars, selectiveVars, policyVars, vars, rerunVars>>
IssuesPart == part = "issues" /\ IssuesNext
  /\ UNCHANGED <<part, historyVars, selectiveVars, policyVars, vars, rerunVars>>
SelectivePart == part = "selective" /\ SelectiveNext
  /\ UNCHANGED <<part, historyVars, issuesVars, policyVars, vars, rerunVars>>
PolicyPart == part = "policy" /\ PolicyNext
  /\ UNCHANGED <<part, historyVars, issuesVars, selectiveVars, vars, rerunVars>>
OutcomePart == part = "outcome" /\ Next
  /\ UNCHANGED <<part, historyVars, issuesVars, selectiveVars, policyVars, rerunVars>>
RerunPart == part = "reruns" /\ RerunNext
  /\ UNCHANGED <<part, historyVars, issuesVars, selectiveVars, policyVars, vars>>

\* Where a module has several initial states, the others begin in one of them.
AfterInit ==
  /\ part \in {"history", "issues", "selective", "policy", "outcome", "reruns"}
  /\ HistoryInit /\ naming \in {{}} \cup {v \in {Sha} : part = "history"}
  /\ IssuesInit
  /\ SelectiveInit
  /\ PolicyInit
  /\ part = "policy" \/ record = [finished |-> FALSE, status |-> "neither", steps |-> <<>>]
  /\ Init /\ (part = "outcome" \/ <<decision, receipt>> = <<"BLOCK", "none">>)
  /\ RerunInit

AfterNext == HistoryPart \/ IssuesPart \/ SelectivePart \/ PolicyPart \/ OutcomePart \/ RerunPart

allVars == <<part, historyVars, issuesVars, selectiveVars, policyVars, vars, rerunVars>>
AfterSpec == AfterInit /\ [][AfterNext]_allVars
===============================================================================
