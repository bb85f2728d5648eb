------------------------------- MODULE Contract -------------------------------
(***************************************************************************)
(* eba_integration_contract.py with ci_assumption_profile.py and           *)
(* ci_authority_profile.py: the request, the assumption, the grant and the *)
(* decision that a gate writes, and the check that the gate and the        *)
(* executor of a deferred rerun make of them.  The executor reads four     *)
(* files, each named by an input of its own, so any mixture of the files   *)
(* of different gates may reach it.                                        *)
(*                                                                         *)
(* An artifact's id and its integrity digest are hashes of its content:    *)
(* artifacts are equal when their contents are, and a file that does not   *)
(* verify is not read.  A request is made for a revision (repository, run, *)
(* attempt, commit and workflow) and dated; two gates that look at one     *)
(* revision in the same second make the same request.  Every process reads *)
(* its own clock; `now' is the slowest, no other is more than Skew ahead.  *)
(***************************************************************************)
EXTENDS Naturals, FiniteSets

CONSTANTS
  Gate,      \* executions of the gate
  Boundary,  \* executions of the effect executor
  Revision,  \* what a request is about
  Bundle,    \* evidence bundles, by digest
  Term,      \* AUTHORITY_TTL_SECONDS
  Skew,      \* how far the clocks of two processes may be apart
  LastNow    \* bound: the last moment of a behaviour

ASSUME ContractAssumption ==
  /\ Gate \cap Boundary = {}
  /\ Term \in Nat \ {0} /\ Skew \in Nat /\ LastNow \in Nat

Moment == 0 .. (LastNow + Skew)
None == "none"

Request == [revision : Revision, made : Moment]
Status == {"VALID", "CONTRADICTED", "UNKNOWN"}
Assumption == [request : Request, bundle : Bundle, status : Status, checked : Moment]
Grant == [request : Request, from : Moment, to : Nat]
Verdict == {"ALLOW", "BLOCK"}
Decision == [request : Request, bundle : Bundle, verdict : Verdict,
             assumption : Assumption, grant : Grant]

Outcome == {None, "NOT_EXECUTED", "SUCCEEDED", "UNKNOWN"}

VARIABLES
  now,       \* the time
  gate,      \* gate[g]: the local state and the artifacts of gate g
  boundary,  \* boundary[x]: the local state and the files of executor x
  posted     \* history: posted[p], how often the POST of p was carried out

contractVars == <<now, gate, boundary, posted>>

Clock == now .. (now + Skew)

-------------------------------------------------------------------------------
(* The artifacts, and the checks that narrow an ALLOW.                     *)

\* build_ci_retry_assumption_state
AssumptionFor(r, b, verdict, contradicted) ==
  [request |-> r, bundle |-> b, checked |-> r.made,
   status |-> IF verdict = "ALLOW" THEN "VALID"
              ELSE IF contradicted THEN "CONTRADICTED" ELSE "UNKNOWN"]

\* build_ci_authority_grant
GrantFor(r) == [request |-> r, from |-> r.made, to |-> r.made + Term]

\* _validate_assumption_state; the gate leaves valid_until empty.
AssumptionValid(a, r, b, t) ==
  /\ a.status = "VALID"
  /\ a.request = r
  /\ a.bundle = b
  /\ a.checked \leq t

\* What GrantValid would be if the grant were valid once issued.
GrantIssued(g, r, t) == g.request = r /\ g.from \leq t

\* _validate_authority_grant; nothing revokes a grant.
GrantValid(g, r, t) ==
  /\ g.request = r
  /\ g.from < g.to
  /\ g.from \leq t
  /\ t < g.to

\* What Narrowed would be if it took the assumption's word for the verdict.
NarrowedByBasis(r, b, verdict, a, g) ==
  [request |-> r, bundle |-> b, assumption |-> a, grant |-> g,
   verdict |-> IF AssumptionValid(a, r, b, r.made) /\ GrantValid(g, r, r.made)
               THEN "ALLOW" ELSE "BLOCK"]

\* build_decision_artifact, made and judged at the time of the request.
Narrowed(r, b, verdict, a, g) ==
  [request |-> r, bundle |-> b, assumption |-> a, grant |-> g,
   verdict |-> IF /\ verdict = "ALLOW"
                  /\ AssumptionValid(a, r, b, r.made)
                  /\ GrantValid(g, r, r.made)
               THEN "ALLOW" ELSE "BLOCK"]

\* ensure_decision_allows_request
Ensured(d, r, a, g, t) ==
  /\ d.verdict = "ALLOW"
  /\ d.request = r
  /\ d.assumption = a
  /\ AssumptionValid(a, r, d.bundle, t)
  /\ d.grant = g
  /\ GrantValid(g, r, t)

-------------------------------------------------------------------------------
(* The gate.                                                               *)

NewGate == [step |-> "start"]

\* The evidence gate has answered; the four artifacts are built at once.
Assess(g, v, b, verdict, contradicted, deferred, t) ==
  LET r == [revision |-> v, made |-> t]
      a == AssumptionFor(r, b, verdict, contradicted)
  IN  /\ gate[g].step = "start"
      /\ t \in Clock
      /\ gate' = [gate EXCEPT ![g] =
           [step |-> "assessed", request |-> r, assumption |-> a,
            grant |-> GrantFor(r), verdict |-> verdict, deferred |-> deferred,
            planned |-> FALSE, admitted |-> t, since |-> now,
            decision |-> Narrowed(r, b, verdict, a, GrantFor(r))]]
      /\ UNCHANGED <<now, boundary, posted>>

\* The decision rebuilt from the verdict as it now is; dated as the request.
Rebuild(g, verdict, planned, t) ==
  LET G == gate[g]
  IN  gate' = [gate EXCEPT ![g] =
        [G EXCEPT !.step = "decided", !.verdict = verdict, !.planned = planned,
           !.admitted = t,
           !.decision = Narrowed(G.request, G.assumption.bundle, verdict,
                                 G.assumption, G.grant)]]

\* The failures recovered or recurred, or the run moved on or cannot be read.
Withdraw(g) ==
  /\ gate[g].step = "assessed"
  /\ Rebuild(g, "BLOCK", FALSE, gate[g].admitted)
  /\ UNCHANGED <<now, boundary, posted>>

\* Without auto-rerun an ALLOW is reported and nothing is planned.
ReportOnly(g) ==
  /\ gate[g].step = "assessed"
  /\ Rebuild(g, gate[g].verdict, FALSE, gate[g].admitted)
  /\ UNCHANGED <<now, boundary, posted>>

\* The run is as it was: the contract is checked once more, at this moment.
AdmitAtGate(g, t) ==
  /\ gate[g].step = "assessed"
  /\ gate[g].verdict = "ALLOW"
  /\ t \in Clock
  /\ LET ok == Ensured(gate[g].decision, gate[g].request, gate[g].assumption,
                       gate[g].grant, t)
     IN  Rebuild(g, IF ok THEN "ALLOW" ELSE "BLOCK", ok, t)
  /\ UNCHANGED <<now, boundary, posted>>

\* Without defer-effect the gate sends the POST itself.  An error that it
\* does not catch ends it before its outputs, whatever became of the POST.
PostAtGate(g, answered, carried) ==
  /\ gate[g].step = "decided"
  /\ gate[g].planned /\ ~gate[g].deferred
  /\ answered => carried
  /\ gate' = [gate EXCEPT ![g].step = IF answered THEN "reran" ELSE "dead"]
  /\ posted' = [posted EXCEPT ![g] = @ + IF carried THEN 1 ELSE 0]
  /\ UNCHANGED <<now, boundary>>

\* What Judged would be if the receipt were judged when it is written.
JudgedNow(d, r, a, g, admitted) == \E t \in Clock : Ensured(d, r, a, g, t)

\* A receipt of an effect repeats the check at the moment of admission.
Judged(d, r, a, g, admitted) == Ensured(d, r, a, g, admitted)

\* The receipt and the artifacts are written, or the receipt raises.
WriteArtifacts(g) ==
  LET G == gate[g]
      reran == G.step = "reran"
  IN  /\ \/ reran
         \/ G.step = "decided" /\ (G.deferred \/ ~G.planned)
      /\ gate' = [gate EXCEPT ![g].step =
           IF reran => Judged(G.decision, G.request, G.assumption, G.grant, G.admitted)
           THEN "written" ELSE "raised"]
      /\ UNCHANGED <<now, boundary, posted>>

\* The history of the workflow is read before the files are written, and a
\* request that fails then ends the gate, though its rerun was accepted.  (A
\* gate without one may stop at any step: it is the one that never goes on.)
HistoryUnavailable(g) ==
  /\ gate[g].step = "reran"
  /\ gate' = [gate EXCEPT ![g].step = "dead"]
  /\ UNCHANGED <<now, boundary, posted>>

-------------------------------------------------------------------------------
(* The executor.                                                           *)

NewBoundary == [step |-> "start"]

Written(g) == gate[g].step = "written" /\ gate[g].deferred

\* The plan and the four artifacts are read, each from a path of its own.
ReadArtifacts(x, p, q, a, u, d) ==
  /\ boundary[x].step = "start"
  /\ \A g \in {p, q, a, u, d} : Written(g)
  /\ boundary' = [boundary EXCEPT ![x] =
       [step |-> "read", planned |-> gate[p].planned, request |-> gate[q].request,
        assumption |-> gate[a].assumption, grant |-> gate[u].grant,
        decision |-> gate[d].decision, outcome |-> None, admitted |-> 0, at |-> now]]
  /\ UNCHANGED <<now, gate, posted>>

\* A file is absent or does not verify: the executor ends without a receipt.
Unverified(x) ==
  /\ boundary[x].step = "start"
  /\ boundary' = [boundary EXCEPT ![x] = [step |-> "ended"]]
  /\ UNCHANGED <<now, gate, posted>>

\* Nothing is planned, or a lease, the record or the run as it is forbids it.
RefuseEffect(x) ==
  /\ boundary[x].step = "read"
  /\ boundary' = [boundary EXCEPT ![x].step = "done", ![x].outcome = "NOT_EXECUTED"]
  /\ UNCHANGED <<now, gate, posted>>

AdmitAtBoundary(x, t) ==
  LET B == boundary[x]
  IN  /\ B.step = "read" /\ B.planned
      /\ t \in Clock
      /\ boundary' = [boundary EXCEPT ![x] =
           IF Ensured(B.decision, B.request, B.assumption, B.grant, t)
           THEN [B EXCEPT !.step = "admitted", !.admitted = t, !.at = now]
           ELSE [B EXCEPT !.step = "done", !.outcome = "NOT_EXECUTED"]]
      /\ UNCHANGED <<now, gate, posted>>

PostAtBoundary(x, answered, carried) ==
  /\ boundary[x].step = "admitted"
  /\ answered => carried
  /\ boundary' = [boundary EXCEPT ![x].step = "done",
                    ![x].outcome = IF answered THEN "SUCCEEDED" ELSE "UNKNOWN"]
  /\ posted' = [posted EXCEPT ![x] = @ + IF carried THEN 1 ELSE 0]
  /\ UNCHANGED <<now, gate>>

\* build_execution_receipt and write_contract_artifact
WriteReceipt(x) ==
  LET B == boundary[x]
  IN  /\ B.step = "done"
      /\ boundary' = [boundary EXCEPT ![x].step =
           IF B.outcome = "SUCCEEDED" =>
                Judged(B.decision, B.request, B.assumption, B.grant, B.admitted)
           THEN "written" ELSE "raised"]
      /\ UNCHANGED <<now, gate, posted>>

-------------------------------------------------------------------------------

ContractInit ==
  /\ now = 0
  /\ gate = [g \in Gate |-> NewGate]
  /\ boundary = [x \in Boundary |-> NewBoundary]
  /\ posted = [p \in Gate \cup Boundary |-> 0]

Wait ==
  /\ now < LastNow
  /\ now' = now + 1
  /\ UNCHANGED <<gate, boundary, posted>>

GateActs(g) ==
  \/ \E v \in Revision, b \in Bundle, deferred \in BOOLEAN, t \in Moment :
       \/ Assess(g, v, b, "ALLOW", FALSE, deferred, t)
       \/ \E contradicted \in BOOLEAN : Assess(g, v, b, "BLOCK", contradicted, deferred, t)
  \/ Withdraw(g)
  \/ ReportOnly(g)
  \/ \E t \in Moment : AdmitAtGate(g, t)
  \/ \E answered, carried \in BOOLEAN : PostAtGate(g, answered, carried)
  \/ WriteArtifacts(g)
  \/ HistoryUnavailable(g)

BoundaryActs(x) ==
  \/ \E p, q, a, u, d \in Gate : ReadArtifacts(x, p, q, a, u, d)
  \/ Unverified(x)
  \/ RefuseEffect(x)
  \/ \E t \in Moment : AdmitAtBoundary(x, t)
  \/ \E answered, carried \in BOOLEAN : PostAtBoundary(x, answered, carried)
  \/ WriteReceipt(x)

ContractNext ==
  \/ Wait
  \/ \E g \in Gate : GateActs(g)
  \/ \E x \in Boundary : BoundaryActs(x)

ContractSpec == ContractInit /\ [][ContractNext]_contractVars

-------------------------------------------------------------------------------
(* Properties.                                                             *)

\* The values of the contract's state.
GateType ==
  [step : {"assessed", "decided", "reran", "written", "dead", "raised"},
   request : Request, assumption : Assumption, grant : Grant, verdict : Verdict,
   deferred : BOOLEAN, planned : BOOLEAN, admitted : Moment, since : Moment,
   decision : Decision]
BoundaryType ==
  [step : {"read", "admitted", "done", "written", "raised"}, planned : BOOLEAN,
   request : Request, assumption : Assumption, grant : Grant, decision : Decision,
   outcome : Outcome, admitted : Moment, at : Moment]
ContractTypeOK ==
  /\ now \in 0 .. LastNow
  /\ \A g \in Gate : gate[g] \in GateType \cup {NewGate}
  /\ \A x \in Boundary : boundary[x] \in BoundaryType \cup {NewBoundary, [step |-> "ended"]}
  /\ posted \in [Gate \cup Boundary -> {0, 1}]

\* The executions that have admitted an effect, and the gates that have judged.
Admitted == {x \in Boundary : \/ boundary[x].step = "admitted"
                              \/ /\ boundary[x].step \in {"done", "written", "raised"}
                                 /\ boundary[x].outcome # "NOT_EXECUTED"}
Judging == {g \in Gate : gate[g].step # "start"}

\* An executor that admits an effect holds the decision of a gate whose evidence
\* was sufficient and which no guard withdrew, and the request, assumption and
\* grant that this gate made for it, whichever files it was handed.
AdmittedOnBasis ==
  \A x \in Admitted : \E g \in Judging :
    /\ gate[g].verdict = "ALLOW"
    /\ gate[g].assumption.status = "VALID"
    /\ gate[g].request = boundary[x].request
    /\ gate[g].assumption = boundary[x].assumption
    /\ gate[g].grant = boundary[x].grant
    /\ gate[g].decision = boundary[x].decision

\* An executor admits an effect within the term of the grant, counted in real
\* time from the gate that issued it, and within the skew of two clocks.
AdmittedInTerm ==
  \A x \in Admitted : \E g \in Judging :
    /\ gate[g].grant = boundary[x].grant
    /\ boundary[x].at < gate[g].since + Term + Skew
    /\ gate[g].since \leq boundary[x].at + Skew

\* The receipt of an accepted POST is never refused, however long after the
\* admission it is built: no effect goes without one because its term has run
\* out.  NOT_EXECUTED is never said of a POST that was carried out.  A gate whose
\* POST or request for the history raises (PostAtGate, HistoryUnavailable) still
\* ends without a receipt, and this does not say otherwise.
AcceptedIsReported ==
  /\ \A g \in Gate : gate[g].step # "raised"
  /\ \A x \in Boundary :
       /\ boundary[x].step # "raised"
       /\ posted[x] > 0 => x \in Admitted
===============================================================================
