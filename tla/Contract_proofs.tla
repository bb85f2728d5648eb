---------------------------- MODULE Contract_proofs ----------------------------
(* What a gate and an executor admit, for any number of gates, executors,     *)
(* revisions and bundles, any term and any skew of the clocks.                *)
(*                                                                            *)
(* A gate that is past its start keeps what it has built: its decision is the *)
(* narrowing of its verdict by its own assumption and grant, and the grant    *)
(* dates from the moment of the request (Built).  A gate that may post, or    *)
(* has posted, admitted the effect with the decision it holds now (Covered).  *)
(* An executor holds the decision of a gate that has written its files and    *)
(* changes no more (Founded), and what it has admitted the contract allowed   *)
(* at the moment of admission (Allowed).                                      *)
EXTENDS Contract, TLAPS

Ended == [step |-> "ended"]

ContractTypes ==
  /\ now \in 0 .. LastNow
  /\ gate \in [Gate -> GateType \cup {NewGate}]
  /\ boundary \in [Boundary -> BoundaryType \cup {NewBoundary, Ended}]
  /\ posted \in [Gate \cup Boundary -> Nat]

Built(G) ==
  G.step # "start" =>
    /\ G.decision = Narrowed(G.request, G.assumption.bundle, G.verdict, G.assumption, G.grant)
    /\ G.grant = GrantFor(G.request)
    /\ G.since \leq G.request.made /\ G.request.made \leq G.since + Skew

Covered(G) ==
  /\ G.step = "reran" \/ (G.step = "decided" /\ G.planned)
       => Ensured(G.decision, G.request, G.assumption, G.grant, G.admitted)
  /\ G.step # "raised"

Holds(B) == B.step \notin {"start", "ended"}
Admits(B) == B.step = "admitted"
             \/ (B.step \in {"done", "written", "raised"} /\ B.outcome # "NOT_EXECUTED")

Founded(B) ==
  Holds(B) => \E g \in Gate : gate[g].step = "written" /\ gate[g].decision = B.decision

Allowed(B) ==
  /\ Admits(B) => /\ Ensured(B.decision, B.request, B.assumption, B.grant, B.admitted)
                  /\ B.at \leq B.admitted /\ B.admitted \leq B.at + Skew
  /\ B.step # "raised"

ContractInv ==
  /\ ContractTypes
  /\ \A g \in Gate : Built(gate[g]) /\ Covered(gate[g])
  /\ \A x \in Boundary : /\ Founded(boundary[x]) /\ Allowed(boundary[x])
                         /\ posted[x] > 0 => Admits(boundary[x])

-------------------------------------------------------------------------------
(* What is built has its type.                                              *)

LEMMA ArtifactTypes ==
  ASSUME NEW r \in Request, NEW b \in Bundle, NEW v \in Verdict, NEW c \in BOOLEAN
  PROVE  AssumptionFor(r, b, v, c) \in Assumption /\ GrantFor(r) \in Grant
BY ContractAssumption
   DEF AssumptionFor, GrantFor, Assumption, Grant, Request, Status, Moment

LEMMA NarrowedType ==
  ASSUME NEW r \in Request, NEW b \in Bundle, NEW v \in Verdict,
         NEW a \in Assumption, NEW u \in Grant
  PROVE  Narrowed(r, b, v, a, u) \in Decision
BY DEF Narrowed, Decision, Verdict

\* A decision that allows was narrowed from an ALLOW on a valid basis.
LEMMA NarrowedAllows ==
  ASSUME NEW r, NEW b, NEW v, NEW a, NEW u
  PROVE  LET d == Narrowed(r, b, v, a, u)
         IN  /\ d.request = r /\ d.bundle = b /\ d.assumption = a /\ d.grant = u
             /\ d.verdict = "ALLOW" => v = "ALLOW"
             /\ d.verdict = "ALLOW" <=> /\ v = "ALLOW"
                                        /\ AssumptionValid(a, r, b, r.made)
                                        /\ GrantValid(u, r, r.made)
BY DEF Narrowed

\* A moment of a clock is one, and no further from the time than the skew.
LEMMA ClockReading ==
  ASSUME now \in 0 .. LastNow, NEW t \in Clock
  PROVE  t \in Moment /\ now \leq t /\ t \leq now + Skew
BY ContractAssumption DEF Clock, Moment

-------------------------------------------------------------------------------
(* The gate.  Whatever it does, it replaces its own state by one that is      *)
(* built and covered, and never after it has written its files.               *)

LEMMA Rebuilt ==
  ASSUME ContractInv, NEW g \in Gate, gate[g].step = "assessed",
         NEW v \in Verdict, NEW planned \in BOOLEAN, NEW t \in Moment,
         Rebuild(g, v, planned, t),
         planned => /\ v = "ALLOW"
                    /\ Ensured(gate[g].decision, gate[g].request, gate[g].assumption,
                               gate[g].grant, t)
  PROVE  \E G \in GateType : /\ gate' = [gate EXCEPT ![g] = G]
                             /\ Built(G) /\ Covered(G)
<1> DEFINE H == gate[g]
           d == Narrowed(H.request, H.assumption.bundle, v, H.assumption, H.grant)
           G == [H EXCEPT !.step = "decided", !.verdict = v, !.planned = planned,
                          !.admitted = t, !.decision = d]
<1>1. H \in GateType
  BY DEF ContractInv, ContractTypes, NewGate
<1>2. /\ H.request \in Request /\ H.assumption \in Assumption /\ H.grant \in Grant
      /\ H.assumption.bundle \in Bundle
  BY <1>1 DEF GateType, Assumption
<1>3. d \in Decision
  BY <1>2, NarrowedType
<1>4. G \in GateType
  BY <1>1, <1>3 DEF GateType
<1>5. /\ G.step = "decided" /\ G.verdict = v /\ G.planned = planned /\ G.admitted = t
      /\ G.decision = d /\ G.request = H.request /\ G.assumption = H.assumption
      /\ G.grant = H.grant /\ G.since = H.since
  BY <1>1 DEF GateType
<1>6. Built(H)
  BY DEF ContractInv
<1>7. Built(G)
  BY <1>5, <1>6 DEF Built
<1>8. planned => Ensured(d, H.request, H.assumption, H.grant, t)
  <2> SUFFICES ASSUME planned PROVE Ensured(d, H.request, H.assumption, H.grant, t)
    OBVIOUS
  <2> DEFINE old == Narrowed(H.request, H.assumption.bundle, H.verdict, H.assumption, H.grant)
  <2>1. H.decision = old
    BY <1>6 DEF Built
  <2>2. Ensured(old, H.request, H.assumption, H.grant, t)
    BY <2>1
  <2>3. old.verdict = "ALLOW" /\ old.bundle = H.assumption.bundle
    BY <2>2, NarrowedAllows DEF Ensured
  <2>4. d.verdict = "ALLOW"
    BY <2>3 DEF Narrowed
  <2>5. /\ d.request = H.request /\ d.assumption = H.assumption /\ d.grant = H.grant
        /\ d.bundle = H.assumption.bundle
    BY DEF Narrowed
  <2> QED  BY <2>2, <2>3, <2>4, <2>5 DEF Ensured
<1>9. Covered(G)
  BY <1>5, <1>8 DEF Covered
<1> QED  BY <1>4, <1>7, <1>9 DEF Rebuild

LEMMA Assessed ==
  ASSUME ContractInv, NEW g \in Gate, NEW r \in Revision, NEW b \in Bundle,
         NEW v \in Verdict, NEW c \in BOOLEAN, NEW deferred \in BOOLEAN, NEW t \in Moment,
         Assess(g, r, b, v, c, deferred, t)
  PROVE  \E G \in GateType : /\ gate' = [gate EXCEPT ![g] = G]
                             /\ Built(G) /\ Covered(G)
<1> DEFINE q == [revision |-> r, made |-> t]
           a == AssumptionFor(q, b, v, c)
           d == Narrowed(q, b, v, a, GrantFor(q))
           G == [step |-> "assessed", request |-> q, assumption |-> a,
                 grant |-> GrantFor(q), verdict |-> v, deferred |-> deferred,
                 planned |-> FALSE, admitted |-> t, since |-> now, decision |-> d]
<1>1. now \in 0 .. LastNow /\ t \in Clock
  BY DEF ContractInv, ContractTypes, Assess
<1>2. t \in Moment /\ now \leq t /\ t \leq now + Skew
  BY <1>1, ClockReading
<1>3. now \in Moment
  BY <1>1, ContractAssumption DEF Moment
<1>4. q \in Request
  BY DEF Request
<1>5. a \in Assumption /\ GrantFor(q) \in Grant
  BY <1>4, ArtifactTypes
<1>6. d \in Decision
  BY <1>4, <1>5, NarrowedType
<1>7. G \in GateType
  BY <1>3, <1>4, <1>5, <1>6 DEF GateType
<1>8. a.bundle = b
  BY DEF AssumptionFor
<1>9. Built(G)
  BY <1>2, <1>8 DEF Built
<1>10. Covered(G)
  BY DEF Covered
<1> QED  BY <1>7, <1>9, <1>10 DEF Assess

LEMMA GateShape ==
  ASSUME ContractInv, NEW g \in Gate, GateActs(g)
  PROVE  /\ gate[g].step # "written"
         /\ \E G \in GateType : gate' = [gate EXCEPT ![g] = G] /\ Built(G) /\ Covered(G)
<1> DEFINE Goal == /\ gate[g].step # "written"
                   /\ \E G \in GateType : /\ gate' = [gate EXCEPT ![g] = G]
                                          /\ Built(G) /\ Covered(G)
<1>1. /\ gate[g] \in GateType \cup {NewGate}
      /\ gate[g].step # "start" => gate[g] \in GateType
      /\ Built(gate[g]) /\ Covered(gate[g])
  BY DEF ContractInv, ContractTypes, NewGate
<1>2. "ALLOW" \in Verdict /\ "BLOCK" \in Verdict
  BY DEF Verdict
\* A change of the step alone: the record stays built.
<1>3. ASSUME NEW s \in {"reran", "written", "dead"}, gate[g].step \notin {"start", "written"},
             gate' = [gate EXCEPT ![g].step = s],
             s = "reran" => Ensured(gate[g].decision, gate[g].request, gate[g].assumption,
                                    gate[g].grant, gate[g].admitted)
      PROVE  Goal
  <2> DEFINE G == [gate[g] EXCEPT !.step = s]
  <2>1. G \in GateType
    BY <1>1, <1>3 DEF GateType
  <2>2. /\ G.step = s /\ G.request = gate[g].request /\ G.assumption = gate[g].assumption
        /\ G.grant = gate[g].grant /\ G.verdict = gate[g].verdict
        /\ G.admitted = gate[g].admitted /\ G.since = gate[g].since
        /\ G.decision = gate[g].decision
    BY <1>1, <1>3 DEF GateType
  <2>3. Built(G)
    BY <1>1, <1>3, <2>2 DEF Built
  <2>4. Covered(G)
    BY <1>3, <2>2 DEF Covered
  <2> QED  BY <1>3, <2>1, <2>3, <2>4
<1>4. ASSUME NEW v \in Revision, NEW b \in Bundle, NEW deferred \in BOOLEAN, NEW t \in Moment,
             \/ Assess(g, v, b, "ALLOW", FALSE, deferred, t)
             \/ \E contradicted \in BOOLEAN :
                  Assess(g, v, b, "BLOCK", contradicted, deferred, t)
      PROVE  Goal
  <2>1. gate[g].step = "start"
    BY <1>4 DEF Assess
  <2>2. PICK w \in Verdict, c \in BOOLEAN : Assess(g, v, b, w, c, deferred, t)
    BY <1>2, <1>4
  <2>3. \E G \in GateType : gate' = [gate EXCEPT ![g] = G] /\ Built(G) /\ Covered(G)
    BY <2>2, Assessed
  <2> QED  BY <2>1, <2>3
<1>5. CASE Withdraw(g)
  <2>1. gate[g].admitted \in Moment /\ gate[g].step = "assessed"
    BY <1>1, <1>5 DEF Withdraw, GateType
  <2>2. \E G \in GateType : gate' = [gate EXCEPT ![g] = G] /\ Built(G) /\ Covered(G)
    BY <1>2, <1>5, <2>1, Rebuilt DEF Withdraw
  <2> QED  BY <2>1, <2>2
<1>6. CASE ReportOnly(g)
  <2>1. gate[g].admitted \in Moment /\ gate[g].step = "assessed" /\ gate[g].verdict \in Verdict
    BY <1>1, <1>6 DEF ReportOnly, GateType
  <2>2. \E G \in GateType : gate' = [gate EXCEPT ![g] = G] /\ Built(G) /\ Covered(G)
    BY <1>6, <2>1, Rebuilt DEF ReportOnly
  <2> QED  BY <2>1, <2>2
<1>7. ASSUME NEW t \in Moment, AdmitAtGate(g, t) PROVE Goal
  <2> DEFINE ok == Ensured(gate[g].decision, gate[g].request, gate[g].assumption,
                           gate[g].grant, t)
  <2>1. gate[g].step = "assessed" /\ Rebuild(g, IF ok THEN "ALLOW" ELSE "BLOCK", ok, t)
    BY <1>7 DEF AdmitAtGate
  <2>2. ok \in BOOLEAN
    BY DEF Ensured
  <2>3. \E G \in GateType : gate' = [gate EXCEPT ![g] = G] /\ Built(G) /\ Covered(G)
    <3>1. CASE ok
      <4>1. Rebuild(g, "ALLOW", TRUE, t)
        BY <2>1, <2>2, <3>1
      <4> QED  BY <1>2, <2>1, <3>1, <4>1, Rebuilt
    <3>2. CASE ~ok
      <4>1. Rebuild(g, "BLOCK", FALSE, t)
        BY <2>1, <2>2, <3>2
      <4> QED  BY <1>2, <2>1, <4>1, Rebuilt
    <3> QED  BY <3>1, <3>2
  <2> QED  BY <2>1, <2>3
<1>8. ASSUME NEW answered \in BOOLEAN, NEW carried \in BOOLEAN, PostAtGate(g, answered, carried)
      PROVE  Goal
  <2>1. gate[g].step = "decided" /\ gate[g].planned
    BY <1>8 DEF PostAtGate
  <2>2. Ensured(gate[g].decision, gate[g].request, gate[g].assumption, gate[g].grant,
                gate[g].admitted)
    BY <1>1, <2>1 DEF Covered
  <2>3. PICK s \in {"reran", "dead"} : gate' = [gate EXCEPT ![g].step = s]
    BY <1>8 DEF PostAtGate
  <2> QED  BY <1>3, <2>1, <2>2, <2>3
<1>9. CASE WriteArtifacts(g)
  <2>1. gate[g].step \in {"decided", "reran"}
    BY <1>9 DEF WriteArtifacts
  <2>2. gate[g].step = "reran" =>
          Judged(gate[g].decision, gate[g].request, gate[g].assumption, gate[g].grant,
                 gate[g].admitted)
    BY <1>1 DEF Covered, Judged
  <2>3. gate' = [gate EXCEPT ![g].step = "written"]
    BY <1>9, <2>2 DEF WriteArtifacts
  <2> QED  BY <1>3, <2>1, <2>3
<1>10. CASE HistoryUnavailable(g)
  BY <1>3, <1>10 DEF HistoryUnavailable
<1> QED  BY <1>4, <1>5, <1>6, <1>7, <1>8, <1>9, <1>10 DEF GateActs

LEMMA GateStep ==
  ASSUME ContractInv, NEW g \in Gate, GateActs(g)
  PROVE  ContractInv'
<1>1. PICK G \in GateType : gate' = [gate EXCEPT ![g] = G] /\ Built(G) /\ Covered(G)
  BY GateShape
<1>2. /\ gate \in [Gate -> GateType \cup {NewGate}]
      /\ posted \in [Gate \cup Boundary -> Nat]
  BY DEF ContractInv, ContractTypes
<1>3. /\ now' = now /\ boundary' = boundary
      /\ posted' = posted \/ \E n \in {0, 1} : posted' = [posted EXCEPT ![g] = @ + n]
  <2>1. ASSUME NEW answered \in BOOLEAN, NEW carried \in BOOLEAN,
               PostAtGate(g, answered, carried)
        PROVE  /\ now' = now /\ boundary' = boundary
               /\ \E n \in {0, 1} : posted' = [posted EXCEPT ![g] = @ + n]
    <3> DEFINE n == IF carried THEN 1 ELSE 0
    <3>1. posted' = [posted EXCEPT ![g] = @ + n] /\ now' = now /\ boundary' = boundary
      BY <2>1 DEF PostAtGate
    <3>2. n \in {0, 1}
      OBVIOUS
    <3> HIDE DEF n
    <3> QED  BY <3>1, <3>2
  <2>2. ASSUME NEW v \in Revision, NEW b \in Bundle, NEW w, NEW c, NEW deferred, NEW t,
               Assess(g, v, b, w, c, deferred, t)
        PROVE  UNCHANGED <<now, boundary, posted>>
    BY <2>2 DEF Assess
  <2>3. ASSUME NEW t \in Moment, AdmitAtGate(g, t)
        PROVE  UNCHANGED <<now, boundary, posted>>
    BY <2>3 DEF AdmitAtGate
  <2>4. CASE Withdraw(g) \/ ReportOnly(g) \/ WriteArtifacts(g) \/ HistoryUnavailable(g)
    BY <2>4 DEF Withdraw, ReportOnly, WriteArtifacts, HistoryUnavailable
  <2> QED  BY <2>1, <2>2, <2>3, <2>4 DEF GateActs
\* No gate is an executor: the counters of the executors stay.
<1>4. /\ posted' \in [Gate \cup Boundary -> Nat]
      /\ \A x \in Boundary : posted'[x] = posted[x]
  BY <1>2, <1>3, ContractAssumption
<1>5. ContractTypes'
  BY <1>1, <1>2, <1>3, <1>4 DEF ContractInv, ContractTypes
<1>6. \A h \in Gate : gate'[h] = IF h = g THEN G ELSE gate[h]
  BY <1>1, <1>2
<1>7. (\A h \in Gate : Built(gate[h]) /\ Covered(gate[h]))'
  BY <1>1, <1>6 DEF ContractInv, Built, Covered
<1>8. ASSUME NEW x \in Boundary PROVE Founded(boundary[x])'
  <2>1. Founded(boundary[x])
    BY DEF ContractInv
  <2>2. \A h \in Gate : gate[h].step = "written" => gate'[h] = gate[h]
    BY <1>6, GateShape
  <2> QED  BY <1>3, <2>1, <2>2 DEF Founded, Holds
<1>9. ASSUME NEW x \in Boundary
      PROVE  (Allowed(boundary[x]) /\ (posted[x] > 0 => Admits(boundary[x])))'
  BY <1>3, <1>4 DEF ContractInv, Allowed, Admits
<1> QED  BY <1>5, <1>7, <1>8, <1>9 DEF ContractInv

-------------------------------------------------------------------------------
(* The executor.  What it admits is what it holds, at a moment of its clock.  *)

LEMMA BoundaryShape ==
  ASSUME ContractInv, NEW x \in Boundary, BoundaryActs(x)
  PROVE  \E B \in BoundaryType \cup {Ended}, n \in {0, 1} :
           /\ boundary' = [boundary EXCEPT ![x] = B]
           /\ posted' = [posted EXCEPT ![x] = @ + n]
           /\ Founded(B) /\ Allowed(B)
           /\ posted[x] + n > 0 => Admits(B)
<1> DEFINE A == boundary[x]
           Goal == \E B \in BoundaryType \cup {Ended}, n \in {0, 1} :
                     /\ boundary' = [boundary EXCEPT ![x] = B]
                     /\ posted' = [posted EXCEPT ![x] = @ + n]
                     /\ Founded(B) /\ Allowed(B)
                     /\ posted[x] + n > 0 => Admits(B)
<1>1. /\ A.step \in {"read", "admitted", "done", "written", "raised"} => A \in BoundaryType
      /\ Founded(A) /\ Allowed(A)
      /\ posted[x] \in Nat
      /\ posted[x] > 0 => Admits(A)
      /\ posted = [posted EXCEPT ![x] = @ + 0]
  BY DEF ContractInv, ContractTypes, NewBoundary, Ended
\* A step that sends nothing.
<1>2. ASSUME NEW B \in BoundaryType \cup {Ended}, posted' = posted,
             boundary' = [boundary EXCEPT ![x] = B], Founded(B), Allowed(B),
             Admits(A) => Admits(B)
      PROVE  Goal
  <2>1. posted' = [posted EXCEPT ![x] = @ + 0] /\ (posted[x] + 0 > 0 => Admits(B))
    BY <1>1, <1>2
  <2> QED  BY <1>2, <2>1
<1>3. ASSUME NEW p \in Gate, NEW q \in Gate, NEW a \in Gate, NEW u \in Gate, NEW d \in Gate,
             ReadArtifacts(x, p, q, a, u, d)
      PROVE  Goal
  <2> DEFINE B == [step |-> "read", planned |-> gate[p].planned, request |-> gate[q].request,
                   assumption |-> gate[a].assumption, grant |-> gate[u].grant,
                   decision |-> gate[d].decision, outcome |-> None, admitted |-> 0,
                   at |-> now]
  <2>1. \A h \in {p, q, a, u, d} : gate[h].step = "written" /\ gate[h] \in GateType
    BY <1>3 DEF ReadArtifacts, Written, ContractInv, ContractTypes, NewGate
  <2>2. now \in Moment /\ 0 \in Moment
    BY ContractAssumption DEF ContractInv, ContractTypes, Moment
  <2>3. B \in BoundaryType
    BY <2>1, <2>2 DEF BoundaryType, GateType, Outcome
  <2>4. Founded(B) /\ Allowed(B) /\ ~Admits(A)
    BY <1>3, <2>1 DEF Founded, Allowed, Admits, Holds, ReadArtifacts
  <2>5. boundary' = [boundary EXCEPT ![x] = B] /\ posted' = posted
    BY <1>3 DEF ReadArtifacts
  <2> QED  BY <1>2, <2>3, <2>4, <2>5
<1>4. CASE Unverified(x)
  <2>1. Founded(Ended) /\ Allowed(Ended) /\ ~Admits(A)
    BY <1>4 DEF Founded, Allowed, Admits, Holds, Ended, Unverified
  <2>2. boundary' = [boundary EXCEPT ![x] = Ended] /\ posted' = posted
    BY <1>4 DEF Unverified, Ended
  <2> QED  BY <1>2, <2>1, <2>2
\* A refusal, by any of the guards.
<1>5. ASSUME A.step = "read", posted' = posted,
             boundary' = [boundary EXCEPT ![x] = [A EXCEPT !.step = "done",
                                                           !.outcome = "NOT_EXECUTED"]]
      PROVE  Goal
  <2> DEFINE B == [A EXCEPT !.step = "done", !.outcome = "NOT_EXECUTED"]
  <2>1. B \in BoundaryType
    BY <1>1, <1>5 DEF BoundaryType, Outcome
  <2>2. B.step = "done" /\ B.outcome = "NOT_EXECUTED" /\ B.decision = A.decision
    BY <1>1, <1>5 DEF BoundaryType
  <2>3. Founded(B) /\ Allowed(B) /\ ~Admits(A)
    BY <1>1, <1>5, <2>2 DEF Founded, Allowed, Admits, Holds
  <2> QED  BY <1>2, <1>5, <2>1, <2>3
<1>6. CASE RefuseEffect(x)
  BY <1>5, <1>6 DEF RefuseEffect, ContractInv, ContractTypes
<1>7. ASSUME NEW t \in Moment, AdmitAtBoundary(x, t) PROVE Goal
  <2>1. CASE Ensured(A.decision, A.request, A.assumption, A.grant, t)
    <3> DEFINE B == [A EXCEPT !.step = "admitted", !.admitted = t, !.at = now]
    <3>1. A \in BoundaryType /\ A.step = "read" /\ t \in Clock
      BY <1>1, <1>7 DEF AdmitAtBoundary
    <3>2. now \in 0 .. LastNow
      BY DEF ContractInv, ContractTypes
    <3>3. now \leq t /\ t \leq now + Skew
      BY <3>1, <3>2, ClockReading
    <3>4. now \in Moment
      BY <3>2, ContractAssumption DEF Moment
    <3>5. B \in BoundaryType
      BY <3>1, <3>4 DEF BoundaryType
    <3>6. /\ B.step = "admitted" /\ B.admitted = t /\ B.at = now
          /\ B.decision = A.decision /\ B.request = A.request
          /\ B.assumption = A.assumption /\ B.grant = A.grant
      BY <3>1 DEF BoundaryType
    <3>7. Founded(B)
      BY <1>1, <3>1, <3>6 DEF Founded, Holds
    <3>8. Allowed(B)
      BY <2>1, <3>3, <3>6 DEF Allowed
    <3>9. ~Admits(A)
      BY <3>1 DEF Admits
    <3>10. boundary' = [boundary EXCEPT ![x] = B] /\ posted' = posted
      BY <1>7, <2>1 DEF AdmitAtBoundary
    <3> QED  BY <1>2, <3>5, <3>7, <3>8, <3>9, <3>10
  <2>2. CASE ~Ensured(A.decision, A.request, A.assumption, A.grant, t)
    BY <1>5, <1>7, <2>2 DEF AdmitAtBoundary
  <2> QED  BY <2>1, <2>2
<1>8. ASSUME NEW answered \in BOOLEAN, NEW carried \in BOOLEAN,
             PostAtBoundary(x, answered, carried)
      PROVE  Goal
  <2> DEFINE o == IF answered THEN "SUCCEEDED" ELSE "UNKNOWN"
             n == IF carried THEN 1 ELSE 0
             B == [A EXCEPT !.step = "done", !.outcome = o]
  <2>1. A \in BoundaryType /\ A.step = "admitted"
    BY <1>1, <1>8 DEF PostAtBoundary
  <2>2. B \in BoundaryType
    BY <2>1 DEF BoundaryType, Outcome
  <2>3. /\ B.step = "done" /\ B.outcome = o /\ B.admitted = A.admitted /\ B.at = A.at
        /\ B.decision = A.decision /\ B.request = A.request
        /\ B.assumption = A.assumption /\ B.grant = A.grant
    BY <2>1 DEF BoundaryType
  <2>4. Admits(A) /\ Admits(B)
    BY <2>1, <2>3 DEF Admits
  <2>5. Founded(B) /\ Allowed(B)
    BY <1>1, <2>1, <2>3, <2>4 DEF Founded, Allowed, Holds
  <2>6. boundary' = [boundary EXCEPT ![x] = B]
    BY <1>8 DEF PostAtBoundary, ContractInv, ContractTypes
  <2>7. posted' = [posted EXCEPT ![x] = @ + n] /\ n \in {0, 1}
    BY <1>8 DEF PostAtBoundary
  <2> HIDE DEF B, n
  <2> QED  BY <2>2, <2>4, <2>5, <2>6, <2>7
<1>9. CASE WriteReceipt(x)
  <2> DEFINE B == [A EXCEPT !.step = "written"]
  <2>1. A \in BoundaryType /\ A.step = "done"
    BY <1>1, <1>9 DEF WriteReceipt
  <2>2. A.outcome = "SUCCEEDED" =>
          Judged(A.decision, A.request, A.assumption, A.grant, A.admitted)
    BY <1>1, <2>1 DEF Allowed, Admits, Judged
  <2>3. boundary' = [boundary EXCEPT ![x] = B] /\ posted' = posted
    BY <1>9, <2>2 DEF WriteReceipt
  <2>4. B \in BoundaryType
    BY <2>1 DEF BoundaryType
  <2>5. /\ B.step = "written" /\ B.outcome = A.outcome /\ B.admitted = A.admitted
        /\ B.at = A.at /\ B.decision = A.decision /\ B.request = A.request
        /\ B.assumption = A.assumption /\ B.grant = A.grant
    BY <2>1 DEF BoundaryType
  <2>6. Admits(A) <=> Admits(B)
    BY <2>1, <2>5 DEF Admits
  <2>7. Founded(B) /\ Allowed(B)
    BY <1>1, <2>1, <2>5, <2>6 DEF Founded, Allowed, Holds
  <2> QED  BY <1>2, <2>3, <2>4, <2>6, <2>7
<1> QED  BY <1>3, <1>4, <1>6, <1>7, <1>8, <1>9 DEF BoundaryActs

LEMMA BoundaryStep ==
  ASSUME ContractInv, NEW x \in Boundary, BoundaryActs(x)
  PROVE  ContractInv'
<1>1. PICK B \in BoundaryType \cup {Ended}, n \in {0, 1} :
        /\ boundary' = [boundary EXCEPT ![x] = B]
        /\ posted' = [posted EXCEPT ![x] = @ + n]
        /\ Founded(B) /\ Allowed(B)
        /\ posted[x] + n > 0 => Admits(B)
  BY BoundaryShape
<1>2. now' = now /\ gate' = gate
  BY DEF BoundaryActs, ReadArtifacts, Unverified, RefuseEffect, AdmitAtBoundary,
         PostAtBoundary, WriteReceipt
<1>3. /\ boundary \in [Boundary -> BoundaryType \cup {NewBoundary, Ended}]
      /\ posted \in [Gate \cup Boundary -> Nat]
  BY DEF ContractInv, ContractTypes
<1>4. ContractTypes'
  BY <1>1, <1>2, <1>3 DEF ContractInv, ContractTypes
<1>5. (\A g \in Gate : Built(gate[g]) /\ Covered(gate[g]))'
  BY <1>2 DEF ContractInv, Built, Covered
<1>6. ASSUME NEW y \in Boundary
      PROVE  (/\ Founded(boundary[y]) /\ Allowed(boundary[y])
              /\ posted[y] > 0 => Admits(boundary[y]))'
  <2>1. CASE y = x
    <3>1. boundary'[y] = B /\ posted'[y] = posted[x] + n
      BY <1>1, <1>3, <2>1
    <3> QED  BY <1>1, <1>2, <3>1 DEF Founded, Allowed, Holds, Admits
  <2>2. CASE y # x
    <3>1. boundary'[y] = boundary[y] /\ posted'[y] = posted[y]
      BY <1>1, <1>3, <2>2
    <3> QED  BY <1>2, <3>1 DEF ContractInv, Founded, Allowed, Holds, Admits
  <2> QED  BY <2>1, <2>2
<1> QED  BY <1>4, <1>5, <1>6 DEF ContractInv

-------------------------------------------------------------------------------

LEMMA ContractStart == ContractInit => ContractInv
<1> SUFFICES ASSUME ContractInit PROVE ContractInv
  OBVIOUS
<1>1. ContractTypes
  BY ContractAssumption DEF ContractInit, ContractTypes
<1>2. \A g \in Gate : Built(gate[g]) /\ Covered(gate[g])
  BY DEF ContractInit, NewGate, Built, Covered
<1>3. \A x \in Boundary : Founded(boundary[x]) /\ Allowed(boundary[x]) /\ posted[x] = 0
  BY DEF ContractInit, NewBoundary, Founded, Allowed, Holds, Admits
<1> QED  BY <1>1, <1>2, <1>3 DEF ContractInv

LEMMA ContractStep == ContractInv /\ [ContractNext]_contractVars => ContractInv'
<1> SUFFICES ASSUME ContractInv, [ContractNext]_contractVars PROVE ContractInv'
  OBVIOUS
<1>1. CASE Wait \/ UNCHANGED contractVars
  <2>1. gate' = gate /\ boundary' = boundary /\ posted' = posted
    BY <1>1 DEF Wait, contractVars
  <2>2. now' \in 0 .. LastNow
    BY <1>1, ContractAssumption DEF Wait, contractVars, ContractInv, ContractTypes
  <2>3. ContractTypes'
    BY <2>1, <2>2 DEF ContractInv, ContractTypes
  <2> QED  BY <2>1, <2>3
           DEF ContractInv, Built, Covered, Founded, Allowed, Holds, Admits
<1> QED  BY <1>1, GateStep, BoundaryStep DEF ContractNext

LEMMA ContractHolds == ContractSpec => []ContractInv
BY ContractStart, ContractStep, PTL DEF ContractSpec

\* Whoever has sent a POST has left the steps from which one is sent.
Unposted ==
  /\ \A g \in Gate : gate[g].step \in {"start", "assessed", "decided"} => posted[g] = 0
  /\ \A x \in Boundary : boundary[x].step \in {"start", "read", "admitted"} => posted[x] = 0
OnePost == posted \in [Gate \cup Boundary -> {0, 1}] /\ Unposted

LEMMA GatePosts ==
  ASSUME NEW g \in Gate, GateActs(g)
  PROVE  /\ boundary' = boundary
         /\ \/ posted' = posted /\ gate[g].step \in {"start", "assessed", "decided"}
            \/ posted' = posted /\ (WriteArtifacts(g) \/ HistoryUnavailable(g))
            \/ \E answered, carried \in BOOLEAN : PostAtGate(g, answered, carried)
<1>1. ASSUME NEW v, NEW b, NEW verdict, NEW contradicted, NEW deferred, NEW t,
             Assess(g, v, b, verdict, contradicted, deferred, t)
      PROVE  boundary' = boundary /\ posted' = posted /\ gate[g].step = "start"
  BY <1>1 DEF Assess
<1>2. ASSUME Withdraw(g) \/ ReportOnly(g) \/ \E t : AdmitAtGate(g, t)
      PROVE  boundary' = boundary /\ posted' = posted /\ gate[g].step = "assessed"
  BY <1>2 DEF Withdraw, ReportOnly, AdmitAtGate
<1>3. ASSUME WriteArtifacts(g) \/ HistoryUnavailable(g)
      PROVE  boundary' = boundary /\ posted' = posted
  BY <1>3 DEF WriteArtifacts, HistoryUnavailable
<1>4. ASSUME \E answered, carried \in BOOLEAN : PostAtGate(g, answered, carried)
      PROVE  boundary' = boundary
  BY <1>4 DEF PostAtGate
<1> QED
  BY <1>1, <1>2, <1>3, <1>4 DEF GateActs

LEMMA OnePostAtGate ==
  ASSUME ContractInv, OnePost, NEW g \in Gate, GateActs(g)
  PROVE  OnePost'
<1>1. PICK G \in GateType : gate' = [gate EXCEPT ![g] = G]
  BY GateShape
<1>2. /\ gate \in [Gate -> GateType \cup {NewGate}] /\ Gate \cap Boundary = {}
      /\ boundary' = boundary
  BY ContractAssumption, GatePosts DEF ContractInv, ContractTypes
<1>3. /\ gate'[g] = G
      /\ \A h \in Gate \ {g} : gate'[h] = gate[h]
  BY <1>1, <1>2
<1>4. CASE \E answered, carried \in BOOLEAN : PostAtGate(g, answered, carried)
  <2>1. PICK answered, carried \in BOOLEAN : PostAtGate(g, answered, carried)
    BY <1>4
  <2>2. posted[g] = 0 /\ gate[g].step = "decided"
    BY <2>1 DEF PostAtGate, OnePost, Unposted
  <2>3. gate[g] \in GateType
    BY <1>2, <2>2 DEF NewGate
  <2>4. gate'[g].step \in {"reran", "dead"}
    BY <1>2, <2>1, <2>3 DEF PostAtGate, GateType
  <2>5. posted' = [posted EXCEPT ![g] = IF carried THEN 1 ELSE 0]
    BY <2>1, <2>2 DEF PostAtGate, OnePost
  <2>6. posted' \in [Gate \cup Boundary -> {0, 1}]
    BY <2>5 DEF OnePost
  <2>7. \A p \in Gate \cup Boundary : p # g => posted'[p] = posted[p]
    BY <2>5 DEF OnePost
  <2> QED
    BY <1>2, <1>3, <2>4, <2>6, <2>7 DEF OnePost, Unposted
<1>5. ASSUME posted' = posted, gate[g].step \in {"start", "assessed", "decided"}
      PROVE  OnePost'
  BY <1>2, <1>3, <1>5 DEF OnePost, Unposted
<1>6. ASSUME posted' = posted, WriteArtifacts(g) \/ HistoryUnavailable(g)
      PROVE  OnePost'
  <2>1. gate[g] \in GateType
    BY <1>2, <1>6 DEF WriteArtifacts, HistoryUnavailable, NewGate
  <2>2. gate'[g].step \in {"written", "raised", "dead"}
    BY <1>2, <1>6, <2>1 DEF WriteArtifacts, HistoryUnavailable, GateType
  <2> QED
    BY <1>2, <1>3, <1>6, <2>2 DEF OnePost, Unposted
<1> QED
  BY <1>4, <1>5, <1>6, GatePosts

LEMMA OnePostAtBoundary ==
  ASSUME ContractInv, OnePost, NEW x \in Boundary, BoundaryActs(x)
  PROVE  OnePost'
<1>1. /\ boundary \in [Boundary -> BoundaryType \cup {NewBoundary, Ended}]
      /\ boundary[x].step \notin {"start", "ended"} => boundary[x] \in BoundaryType
      /\ Gate \cap Boundary = {}
  BY ContractAssumption DEF ContractInv, ContractTypes, NewBoundary, Ended
<1>2. /\ gate' = gate
      /\ \A y \in Boundary \ {x} : boundary'[y] = boundary[y]
  BY <1>1 DEF BoundaryActs, ReadArtifacts, Unverified, RefuseEffect, AdmitAtBoundary,
       PostAtBoundary, WriteReceipt
<1>3. CASE \E answered, carried \in BOOLEAN : PostAtBoundary(x, answered, carried)
  <2>1. PICK answered, carried \in BOOLEAN : PostAtBoundary(x, answered, carried)
    BY <1>3
  <2>2. posted[x] = 0 /\ boundary[x].step = "admitted"
    BY <2>1 DEF PostAtBoundary, OnePost, Unposted
  <2>3. boundary'[x].step = "done"
    BY <1>1, <2>1, <2>2 DEF PostAtBoundary, BoundaryType
  <2>4. posted' = [posted EXCEPT ![x] = IF carried THEN 1 ELSE 0]
    BY <2>1, <2>2 DEF PostAtBoundary, OnePost
  <2>5. posted' \in [Gate \cup Boundary -> {0, 1}]
    BY <2>4 DEF OnePost
  <2>6. \A p \in Gate \cup Boundary : p # x => posted'[p] = posted[p]
    BY <2>4 DEF OnePost
  <2> QED
    BY <1>1, <1>2, <2>3, <2>5, <2>6 DEF OnePost, Unposted
<1>4. CASE ~\E answered, carried \in BOOLEAN : PostAtBoundary(x, answered, carried)
  <2>1. posted' = posted
    BY <1>4 DEF BoundaryActs, ReadArtifacts, Unverified, RefuseEffect, AdmitAtBoundary,
         WriteReceipt
  <2>2. \/ boundary[x].step \in {"start", "read", "admitted"}
        \/ boundary'[x].step \notin {"start", "read", "admitted"}
    <3>1. CASE WriteReceipt(x)
      <4>1. boundary[x] \in BoundaryType
        BY <1>1, <3>1 DEF WriteReceipt
      <4>2. boundary'[x].step \in {"written", "raised"}
        BY <1>1, <3>1, <4>1 DEF WriteReceipt, BoundaryType
      <4> QED
        BY <4>2
    <3>2. CASE ~WriteReceipt(x)
      BY <1>4, <3>2 DEF BoundaryActs, ReadArtifacts, Unverified, RefuseEffect, AdmitAtBoundary
    <3> QED
      BY <3>1, <3>2
  <2> QED
    BY <1>2, <2>1, <2>2 DEF OnePost, Unposted
<1> QED
  BY <1>3, <1>4

\* The contract has its types, and no process sends a second POST, for any
\* number of gates and executors and any term and skew: main of the gate and of
\* the executor have one place each from which it is sent.
THEOREM ContractTyping == ContractSpec => []ContractTypeOK
<1>1. ContractInit => OnePost
  BY DEF ContractInit, OnePost, Unposted
<1>2. ContractInv /\ OnePost /\ [ContractNext]_contractVars => OnePost'
  <2> SUFFICES ASSUME ContractInv, OnePost, [ContractNext]_contractVars PROVE OnePost'
    OBVIOUS
  <2>1. CASE Wait \/ UNCHANGED contractVars
    BY <2>1 DEF Wait, contractVars, OnePost, Unposted
  <2> QED
    BY <2>1, OnePostAtGate, OnePostAtBoundary DEF ContractNext
<1>3. ContractInv /\ OnePost => ContractTypeOK
  BY DEF ContractInv, ContractTypes, OnePost, ContractTypeOK, Ended
<1> QED
  BY <1>1, <1>2, <1>3, ContractHolds, PTL DEF ContractSpec

\* An executor that has admitted an effect holds the decision of a gate.
LEMMA Backed ==
  ASSUME ContractInv, NEW x \in Admitted
  PROVE  \E g \in Judging :
           /\ gate[g].decision = boundary[x].decision
           /\ gate[g].verdict = "ALLOW" /\ gate[g].assumption.status = "VALID"
           /\ gate[g].request = boundary[x].request
           /\ gate[g].assumption = boundary[x].assumption
           /\ gate[g].grant = boundary[x].grant
           /\ gate[g].grant = GrantFor(gate[g].request)
           /\ gate[g] \in GateType
           /\ gate[g].since \leq gate[g].request.made
           /\ gate[g].request.made \leq gate[g].since + Skew
<1> DEFINE B == boundary[x]
<1>1. x \in Boundary /\ Admits(B) /\ Holds(B)
  BY DEF Admitted, Admits, Holds
<1>2. PICK g \in Gate : gate[g].step = "written" /\ gate[g].decision = B.decision
  BY <1>1 DEF ContractInv, Founded
<1>3. Ensured(B.decision, B.request, B.assumption, B.grant, B.admitted)
  BY <1>1 DEF ContractInv, Allowed
<1> DEFINE G == gate[g]
           d == Narrowed(G.request, G.assumption.bundle, G.verdict, G.assumption, G.grant)
<1>4. /\ G.decision = d /\ G.grant = GrantFor(G.request)
      /\ G.since \leq G.request.made /\ G.request.made \leq G.since + Skew
  BY <1>2 DEF ContractInv, Built
<1>5. /\ d.verdict = "ALLOW" /\ d.request = B.request /\ d.assumption = B.assumption
      /\ d.grant = B.grant
  BY <1>2, <1>3, <1>4 DEF Ensured
<1>6. /\ d.request = G.request /\ d.assumption = G.assumption /\ d.grant = G.grant
      /\ G.verdict = "ALLOW" /\ G.assumption.status = "VALID"
  BY <1>5, NarrowedAllows DEF AssumptionValid
<1>7. g \in Judging /\ G \in GateType
  BY <1>2 DEF Judging, ContractInv, ContractTypes, NewGate
<1> QED  BY <1>2, <1>4, <1>5, <1>6, <1>7

\* An executor admits an effect only on the verdict, the assumption and the
\* grant of one and the same gate, whichever files it was handed, for any
\* number of gates whose files are mixed: ensure_decision_allows_request ties
\* the files together.
THEOREM OneBasis == ContractSpec => []AdmittedOnBasis
<1>1. ContractInv => AdmittedOnBasis
  BY Backed DEF AdmittedOnBasis
<1> QED  BY <1>1, ContractHolds, PTL

\* For any term of a grant and any skew of the clocks, an effect is admitted
\* less than the term and the skew after the gate issued the grant, and at most
\* the skew before it: _validate_authority_grant by the clock of the executor.
THEOREM WithinTerm == ContractSpec => []AdmittedInTerm
<1>1. ASSUME ContractInv, NEW x \in Admitted
      PROVE  \E g \in Judging : /\ gate[g].grant = boundary[x].grant
                                /\ boundary[x].at < gate[g].since + Term + Skew
                                /\ gate[g].since \leq boundary[x].at + Skew
  <2> DEFINE B == boundary[x]
  <2>1. PICK g \in Judging :
           /\ gate[g].grant = B.grant /\ gate[g].grant = GrantFor(gate[g].request)
           /\ gate[g] \in GateType
           /\ gate[g].since \leq gate[g].request.made
           /\ gate[g].request.made \leq gate[g].since + Skew
    BY <1>1, Backed
  <2> DEFINE made == gate[g].request.made
  <2>2. /\ x \in Boundary /\ Admits(B) /\ B.step # "start" /\ B.step # "ended"
    BY <1>1 DEF Admitted, Admits
  <2>3. B \in BoundaryType
    BY <1>1, <2>2 DEF ContractInv, ContractTypes, NewBoundary, Ended
  <2>4. /\ GrantValid(B.grant, B.request, B.admitted)
        /\ B.at \leq B.admitted /\ B.admitted \leq B.at + Skew
    BY <1>1, <2>2 DEF ContractInv, Allowed, Ensured
  <2>5. B.grant.from = made /\ B.grant.to = made + Term
    BY <2>1 DEF GrantFor
  <2>6. made \leq B.admitted /\ B.admitted < made + Term
    BY <2>4, <2>5 DEF GrantValid
  <2>7. /\ made \in Nat /\ gate[g].since \in Nat /\ B.at \in Nat /\ B.admitted \in Nat
        /\ Term \in Nat /\ Skew \in Nat
    BY <2>1, <2>3, ContractAssumption DEF GateType, BoundaryType, Request, Moment
  <2>8. B.at < gate[g].since + Term + Skew /\ gate[g].since \leq B.at + Skew
    <3> HIDE DEF made, B
    <3> QED  BY <2>1, <2>4, <2>6, <2>7 DEF made
  <2> QED  BY <2>1, <2>8
<1>2. ContractInv => AdmittedInTerm
  BY <1>1 DEF AdmittedInTerm
<1> QED  BY <1>2, ContractHolds, PTL

\* No receipt of an accepted effect is refused, at any later time, and an
\* effect that was carried out is never reported as not executed:
\* build_execution_receipt judges the moment of admission.
THEOREM ReceiptsStand == ContractSpec => []AcceptedIsReported
<1>1. ContractInv => AcceptedIsReported
  <2> SUFFICES ASSUME ContractInv PROVE AcceptedIsReported
    OBVIOUS
  <2>1. \A g \in Gate : gate[g].step # "raised"
    BY DEF ContractInv, Covered
  <2>2. ASSUME NEW x \in Boundary
        PROVE  /\ boundary[x].step # "raised"
               /\ posted[x] > 0 => x \in Admitted
    BY DEF ContractInv, Allowed, Admits, Admitted
  <2> QED  BY <2>1, <2>2 DEF AcceptedIsReported
<1> QED  BY <1>1, ContractHolds, PTL
===============================================================================
