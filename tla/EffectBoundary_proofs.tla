------------------------- MODULE EffectBoundary_proofs -------------------------
(***************************************************************************)
(* Proofs about EffectBoundary, for any number of decisions, executions    *)
(* and attempts.                                                           *)
(***************************************************************************)
EXTENDS EffectImplements, TLAPS

-------------------------------------------------------------------------------
(* The inductive invariant *)

\* Nothing has come of execution e, and nothing will without another POST.
Quiet(e) == Effects(e) = {} /\ e \notin posts

\* An execution has no effect before its POST, and one from one POST.
Fresh ==
  \A e \in Executor :
    exec[e].step \in {"idle", "run", "jobs", "dispatch"} =>
      Quiet(e) /\ exec[e].outcome = "none"

\* Executions have plans, and in the end an outcome to report.
Found ==
  \A e \in Executor :
    /\ exec[e].step # "idle" => exec[e].plan \in Gate
    /\ exec[e].step = "receipt" => exec[e].outcome # "none"

Single ==
  /\ OneEffect
  /\ \A e \in posts : Effects(e) = {}

\* A stored decision is final, and mutation is admitted within the policy only.
Decided ==
  /\ \A g \in stored : gate[g].step = "stored"
  /\ \A g \in Gate :
       \/ gate[g].step \in {"rereadRun", "rereadJobs"}
       \/ gate[g].admitted /\ gate[g].allow
       => gate[g].attempt < MaxAttempts

\* Executions have stored plans; those with an effect, admitted ones.
Planned ==
  \A e \in Executor :
    /\ exec[e].step # "idle" => exec[e].plan \in stored
    /\ (exec[e].step \in {"run", "jobs", "dispatch"} \/ ~Quiet(e)) =>
         exec[e].plan \in stored /\ MayExecute(exec[e].plan)

\* Snapshots are never ahead of what they are snapshots of.
Before(x, y) ==
  \/ x.attempt < y.attempt
  \/ x.attempt = y.attempt /\ x.fails \leq y.fails

Past ==
  /\ Before(seen, current)
  /\ \A g \in Gate : Before(gate[g].jobs, seen) /\ gate[g].attempt \leq seen.attempt

Lateness ==
  \A e \in Executor :
    exec[e].late =>
      /\ Quiet(e)
      /\ exec[e].step # "dispatch"
      /\ exec[e].step \in {"run", "jobs"} => seen # gate[exec[e].plan].jobs

\* A receipt is what its execution found out.
Filed ==
  \A r \in receipts :
    LET x == exec[r.executor] IN
    x.step = "done" /\ x.plan = r.gate /\ x.outcome = r.outcome

\* A dispatched attempt comes after the one the plan was made on.
Ahead == \A x \in dispatched : x[1] > gate[exec[x[2]].plan].attempt

\* What reconciliation has found out about a stored parent.
Attributed ==
  \A g \in Gate :
    /\ gate[g].step \in {"idle", "jobs", "history", "trail"} => gate[g].verdict = "none"
    /\ gate[g].step = "trail" => gate[g].parent \in stored
    /\ gate[g].verdict = "GATE_DISPATCHED" =>
         /\ gate[g].parent \in stored
         /\ \E x \in dispatched :
              exec[x[2]].plan = gate[g].parent /\ x[1] > gate[gate[g].parent].attempt

IInv ==
  TypeOK /\ Found /\ Fresh /\ Single /\ ReceiptIsTrue /\ Decided /\ Planned /\ Past
  /\ Lateness /\ Filed /\ Ahead /\ Attributed

-------------------------------------------------------------------------------
USE RunAssumption, GateAssumption

LEMMA InitHolds == Init => IInv
<1> SUFFICES ASSUME Init PROVE IInv
  OBVIOUS
<1> USE DEF Init, RunInit, GateInit
<1>1. FirstAttempt \in Snapshot
  BY DEF FirstAttempt, Snapshot
<1>2. RunTypeOK
  BY <1>1 DEF RunTypeOK
<1>3. GateTypeOK
  BY <1>1 DEF GateTypeOK, GateState, Step, Verdict
<1>4. TypeOK
  BY <1>2, <1>3 DEF TypeOK, ExecState, ExecStep
<1>5. \A e \in Executor : Quiet(e)
  BY DEF Quiet, Effects
<1>6. Found /\ Fresh /\ Single /\ ReceiptIsTrue
  BY <1>5 DEF Found, Fresh, Single, OneEffect, ReceiptIsTrue, Effects
<1>7. Decided /\ Planned
  BY <1>5 DEF Decided, Planned
<1>8. Past
  BY DEF Past, Before, FirstAttempt
<1>9. Lateness /\ Filed /\ Ahead /\ Attributed
  BY DEF Lateness, Filed, Ahead, Attributed
<1>10. QED
  BY <1>4, <1>6, <1>7, <1>8, <1>9 DEF IInv

-------------------------------------------------------------------------------
(* Type correctness *)

LEMMA RunTyped ==
  ASSUME RunTypeOK, NextAttempt
  PROVE  /\ current' \in Snapshot
         /\ running' \in BOOLEAN
         /\ seen' = seen
         /\ current'.attempt = current.attempt + 1
         /\ current.attempt + 1 \in 1 .. LastRun
  BY DEF RunTypeOK, NextAttempt, Snapshot

LEMMA RunNextTyped ==
  ASSUME RunTypeOK, RunNext
  PROVE  RunTypeOK'
<1>1. CASE JobFails
  BY <1>1 DEF JobFails, RunTypeOK, Snapshot
<1>2. CASE Complete
  BY <1>2 DEF Complete, RunTypeOK
<1>3. CASE Show
  BY <1>3 DEF Show, RunTypeOK
<1>4. CASE OtherRerun
  BY <1>4, RunTyped DEF OtherRerun, RunTypeOK
<1>5. QED
  BY <1>1, <1>2, <1>3, <1>4 DEF RunNext

LEMMA AcceptTyped ==
  ASSUME RunTypeOK, NEW e \in Executor, AcceptRerun(e)
  PROVE  RunTypeOK'
  BY RunTyped DEF AcceptRerun, RunTypeOK

LEMMA GateFieldsTyped ==
  ASSUME GateTypeOK, NEW g \in Gate, NEW s \in Step
  PROVE  /\ [gate EXCEPT ![g].step = s] \in [Gate -> GateState]
         /\ \A a \in 1 .. LastRun :
              [gate EXCEPT ![g].step = s, ![g].attempt = a] \in [Gate -> GateState]
         /\ \A j \in Snapshot :
              [gate EXCEPT ![g].step = s, ![g].jobs = j] \in [Gate -> GateState]
         /\ \A d \in Gate \cup {NoGate} :
              [gate EXCEPT ![g].step = s, ![g].parent = d] \in [Gate -> GateState]
         /\ \A v \in Verdict :
              [gate EXCEPT ![g].step = s, ![g].verdict = v] \in [Gate -> GateState]
         /\ \A a \in BOOLEAN, b \in BOOLEAN :
              [gate EXCEPT ![g].step = s, ![g].allow = a, ![g].admitted = b]
                \in [Gate -> GateState]
<1>0. gate \in [Gate -> GateState]
  BY DEF GateTypeOK
<1>1. \A x \in GateState : [gate EXCEPT ![g] = x] \in [Gate -> GateState]
  BY <1>0
<1> DEFINE y == gate[g]
<1>2. y \in GateState
  BY <1>0
<1>3. [gate EXCEPT ![g].step = s] = [gate EXCEPT ![g] = [y EXCEPT !.step = s]]
  BY <1>0
<1>4. ASSUME NEW v
      PROVE  /\ [gate EXCEPT ![g].step = s, ![g].attempt = v]
                  = [gate EXCEPT ![g] = [y EXCEPT !.step = s, !.attempt = v]]
             /\ [gate EXCEPT ![g].step = s, ![g].jobs = v]
                  = [gate EXCEPT ![g] = [y EXCEPT !.step = s, !.jobs = v]]
             /\ [gate EXCEPT ![g].step = s, ![g].parent = v]
                  = [gate EXCEPT ![g] = [y EXCEPT !.step = s, !.parent = v]]
             /\ [gate EXCEPT ![g].step = s, ![g].verdict = v]
                  = [gate EXCEPT ![g] = [y EXCEPT !.step = s, !.verdict = v]]
  BY <1>0
<1>5. ASSUME NEW v, NEW w
      PROVE  [gate EXCEPT ![g].step = s, ![g].allow = v, ![g].admitted = w]
               = [gate EXCEPT ![g] = [y EXCEPT !.step = s, !.allow = v, !.admitted = w]]
  BY <1>0
<1> HIDE DEF y
<1>6. [y EXCEPT !.step = s] \in GateState
  BY <1>2 DEF GateState
<1>7. \A a \in 1 .. LastRun : [y EXCEPT !.step = s, !.attempt = a] \in GateState
  BY <1>2 DEF GateState
<1>8. \A j \in Snapshot : [y EXCEPT !.step = s, !.jobs = j] \in GateState
  BY <1>2 DEF GateState
<1>9. \A d \in Gate \cup {NoGate} : [y EXCEPT !.step = s, !.parent = d] \in GateState
  BY <1>2 DEF GateState
<1>10. \A v \in Verdict : [y EXCEPT !.step = s, !.verdict = v] \in GateState
  BY <1>2 DEF GateState
<1>11. ASSUME NEW a \in BOOLEAN, NEW b \in BOOLEAN
       PROVE  [y EXCEPT !.step = s, !.allow = a, !.admitted = b] \in GateState
  BY <1>2 DEF GateState
<1>12. [gate EXCEPT ![g].step = s] \in [Gate -> GateState]
  BY <1>1, <1>3, <1>6
<1>13. \A a \in 1 .. LastRun :
         [gate EXCEPT ![g].step = s, ![g].attempt = a] \in [Gate -> GateState]
  BY <1>1, <1>4, <1>7, ZenonT(40)
<1>14. \A j \in Snapshot :
         [gate EXCEPT ![g].step = s, ![g].jobs = j] \in [Gate -> GateState]
  BY <1>1, <1>4, <1>8, ZenonT(40)
<1>15. \A d \in Gate \cup {NoGate} :
         [gate EXCEPT ![g].step = s, ![g].parent = d] \in [Gate -> GateState]
  BY <1>1, <1>4, <1>9, ZenonT(40)
<1>16. \A v \in Verdict :
         [gate EXCEPT ![g].step = s, ![g].verdict = v] \in [Gate -> GateState]
  BY <1>1, <1>4, <1>10, ZenonT(40)
<1>17. \A a \in BOOLEAN, b \in BOOLEAN :
         [gate EXCEPT ![g].step = s, ![g].allow = a, ![g].admitted = b]
           \in [Gate -> GateState]
  <2> SUFFICES ASSUME NEW a \in BOOLEAN, NEW b \in BOOLEAN
               PROVE  [gate EXCEPT ![g].step = s, ![g].allow = a, ![g].admitted = b]
                        \in [Gate -> GateState]
    OBVIOUS
  <2>1. [y EXCEPT !.step = s, !.allow = a, !.admitted = b] \in GateState
    BY <1>11
  <2>2. [gate EXCEPT ![g] = [y EXCEPT !.step = s, !.allow = a, !.admitted = b]]
          \in [Gate -> GateState]
    BY <1>1, <2>1, Zenon
  <2>3. [gate EXCEPT ![g].step = s, ![g].allow = a, ![g].admitted = b]
          = [gate EXCEPT ![g] = [y EXCEPT !.step = s, !.allow = a, !.admitted = b]]
    BY <1>5, ZenonT(40)
  <2>4. QED
    BY <2>2, <2>3, Zenon
<1>18. QED
  BY <1>12, <1>13, <1>14, <1>15, <1>16, <1>17

LEMMA WriteTyped ==
  ASSUME GateTypeOK, NEW g \in Gate, NEW a \in BOOLEAN, NEW b \in BOOLEAN, Write(g, a, b)
  PROVE  gate' \in [Gate -> GateState]
  BY GateFieldsTyped, ZenonT(40) DEF Write, Step

LEMMA GateTyped ==
  ASSUME RunTypeOK, GateTypeOK, NEW g \in Gate, GateNext(g)
  PROVE  GateTypeOK' /\ UNCHANGED runVars
<1> USE DEF runVars
<1>1. CASE ReadRun(g)
  BY <1>1, GateFieldsTyped, ZenonT(40) DEF ReadRun, GateTypeOK, Step, RunTypeOK, Snapshot
<1>2. CASE ReadJobs(g)
  <2>1. PICK t \in Step : gate' = [gate EXCEPT ![g].step = t, ![g].jobs = seen]
    BY <1>2 DEF ReadJobs, Step
  <2>2. seen \in Snapshot
    BY DEF RunTypeOK
  <2>3. gate' \in [Gate -> GateState]
    BY <2>1, <2>2, GateFieldsTyped, ZenonT(40)
  <2>4. QED
    BY <1>2, <2>3 DEF ReadJobs, GateTypeOK
<1>3. CASE FindParent(g)
  <2>1. PICK d \in Gate : gate' = [gate EXCEPT ![g].step = "trail", ![g].parent = d]
    BY <1>3 DEF FindParent
  <2>2. QED
    BY <1>3, <2>1, GateFieldsTyped, ZenonT(40) DEF FindParent, GateTypeOK, Step
<1>4. CASE NoParent(g)
  BY <1>4, GateFieldsTyped, ZenonT(40) DEF NoParent, GateTypeOK, Step
<1>5. CASE ReadTrail(g)
  <2>1. PICK v \in {"none", Reconciled(gate[g].parent)} :
          gate' = [gate EXCEPT ![g].step = "assess", ![g].verdict = v]
    BY <1>5 DEF ReadTrail
  <2>2. v \in Verdict
    BY <2>1 DEF Reconciled, Verdict
  <2>3. QED
    BY <1>5, <2>1, <2>2, GateFieldsTyped, ZenonT(40) DEF ReadTrail, GateTypeOK, Step
<1>6. CASE Block(g)
  BY <1>6, WriteTyped DEF Block, GateTypeOK
<1>7. CASE Allow(g)
  <2>1. CASE Write(g, TRUE, FALSE)
    BY <1>7, <2>1, WriteTyped DEF Allow, GateTypeOK
  <2>2. CASE gate' = [gate EXCEPT ![g].step = "rereadRun"]
    BY <1>7, <2>2, GateFieldsTyped, ZenonT(40) DEF Allow, GateTypeOK, Step
  <2>3. QED
    BY <1>7, <2>1, <2>2 DEF Allow
<1>8. CASE RereadRun(g)
  BY <1>8, GateFieldsTyped DEF RereadRun, GateTypeOK, Step
<1>9. CASE Admit(g)
  BY <1>9, WriteTyped DEF Admit, GateTypeOK
<1>10. CASE Store(g)
  BY <1>10, GateFieldsTyped, ZenonT(40) DEF Store, GateTypeOK, Step
<1>11. CASE GateDies(g)
  BY <1>11, GateFieldsTyped, ZenonT(40) DEF GateDies, GateTypeOK, Step
<1>12. CASE Expire(g)
  BY <1>12 DEF Expire, GateTypeOK
<1>13. UNCHANGED runVars
  BY DEF GateNext, ReadRun, ReadJobs, FindParent, NoParent, ReadTrail, Block, Allow,
         RereadRun, Admit, Store, GateDies, Expire
<1>14. QED
  BY <1>1, <1>2, <1>3, <1>4, <1>5, <1>6, <1>7, <1>8, <1>9, <1>10, <1>11, <1>12, <1>13
     DEF GateNext

\* The fields of an execution change in two ways only.
LEMMA ExecFieldsTyped ==
  ASSUME TypeOK, NEW e \in Executor, NEW s \in ExecStep
  PROVE  /\ [exec EXCEPT ![e].step = s] \in [Executor -> ExecState]
         /\ \A o \in EffectOutcome :
              [exec EXCEPT ![e].step = s, ![e].outcome = o] \in [Executor -> ExecState]
         /\ \A g \in Gate, o \in EffectOutcome \cup {"none"} :
              [exec EXCEPT ![e] = [step |-> s, plan |-> g, outcome |-> o,
                                   late |-> seen # gate[g].jobs]]
                \in [Executor -> ExecState]
<1>0. exec \in [Executor -> ExecState]
  BY DEF TypeOK
<1>1. \A x \in ExecState : [exec EXCEPT ![e] = x] \in [Executor -> ExecState]
  BY <1>0
<1> DEFINE y == exec[e]
<1>2. y \in ExecState
  BY <1>0
<1>3. [exec EXCEPT ![e].step = s] = [exec EXCEPT ![e] = [y EXCEPT !.step = s]]
  BY <1>0
<1>4. ASSUME NEW o
      PROVE  [exec EXCEPT ![e].step = s, ![e].outcome = o]
               = [exec EXCEPT ![e] = [y EXCEPT !.step = s, !.outcome = o]]
  BY <1>0
<1> HIDE DEF y
<1>5. [y EXCEPT !.step = s] \in ExecState
  BY <1>2 DEF ExecState
<1>6. \A o \in EffectOutcome : [y EXCEPT !.step = s, !.outcome = o] \in ExecState
  BY <1>2 DEF ExecState
<1>7. ASSUME NEW g \in Gate, NEW o \in EffectOutcome \cup {"none"}, NEW b \in BOOLEAN
      PROVE  [step |-> s, plan |-> g, outcome |-> o, late |-> b] \in ExecState
  BY DEF ExecState
<1>8. [exec EXCEPT ![e].step = s] \in [Executor -> ExecState]
  BY <1>1, <1>3, <1>5
<1>9. \A o \in EffectOutcome :
        [exec EXCEPT ![e].step = s, ![e].outcome = o] \in [Executor -> ExecState]
  BY <1>1, <1>4, <1>6
<1>10. ASSUME NEW g \in Gate, NEW o \in EffectOutcome \cup {"none"}
       PROVE  [exec EXCEPT ![e] = [step |-> s, plan |-> g, outcome |-> o,
                                   late |-> seen # gate[g].jobs]]
                \in [Executor -> ExecState]
  <2> DEFINE b == seen # gate[g].jobs
  <2>1. b \in BOOLEAN
    OBVIOUS
  <2> HIDE DEF b
  <2>2. [step |-> s, plan |-> g, outcome |-> o, late |-> b] \in ExecState
    BY <1>7, <2>1, Zenon
  <2>3. [exec EXCEPT ![e] = [step |-> s, plan |-> g, outcome |-> o, late |-> b]]
          \in [Executor -> ExecState]
    BY <1>1, <2>2, Zenon
  <2>4. QED
    BY <2>3, Zenon DEF b
<1>11. QED
  BY <1>8, <1>9, <1>10, Zenon

LEMMA SettleTyped ==
  ASSUME TypeOK, NEW e \in Executor, NEW o \in EffectOutcome, Settle(e, o)
  PROVE  exec' \in [Executor -> ExecState]
<1>1. "receipt" \in ExecStep
  BY DEF ExecStep
<1>2. QED
  BY <1>1, ExecFieldsTyped DEF Settle

LEMMA StartTyped ==
  ASSUME TypeOK, NEW e \in Executor, NEW g \in Gate, Start(e, g)
  PROVE  exec' \in [Executor -> ExecState]
<1>1. CASE Begins(e, g, "run", "none")
  <2>1. "run" \in ExecStep /\ "none" \in EffectOutcome \cup {"none"}
    BY DEF ExecStep
  <2>2. QED
    BY <1>1, <2>1, ExecFieldsTyped, Zenon DEF Begins
<1>2. CASE Begins(e, g, "receipt", "NOT_EXECUTED")
  <2>1. "receipt" \in ExecStep /\ "NOT_EXECUTED" \in EffectOutcome \cup {"none"}
    BY DEF ExecStep, EffectOutcome
  <2>2. QED
    BY <1>2, <2>1, ExecFieldsTyped, Zenon DEF Begins
<1>3. QED
  BY <1>1, <1>2 DEF Start

LEMMA ProceedTyped ==
  ASSUME TypeOK, Found, NEW e \in Executor, Proceed(e)
  PROVE  /\ exec' \in [Executor -> ExecState]
         /\ RunTypeOK'
         /\ receipts' \in SUBSET Receipt
         /\ posts' \in SUBSET Executor
         /\ UNCHANGED <<gate, stored, expired>>
<1> USE DEF runVars, gateVars
<1>0. RunTypeOK /\ receipts \in SUBSET Receipt /\ posts \in SUBSET Executor
  BY DEF TypeOK, GateTypeOK
<1>1. CASE ExecReadRun(e)
  <2>1. exec' \in [Executor -> ExecState]
    <3>1. CASE exec' = [exec EXCEPT ![e].step = "jobs"]
      BY <3>1, ExecFieldsTyped DEF ExecStep
    <3>2. CASE Settle(e, "NOT_EXECUTED")
      BY <3>2, SettleTyped DEF EffectOutcome
    <3>3. QED
      BY <1>1, <3>1, <3>2 DEF ExecReadRun
  <2>2. QED
    BY <1>0, <1>1, <2>1 DEF ExecReadRun, RunTypeOK
<1>2. CASE ExecReadJobs(e)
  <2>1. exec' \in [Executor -> ExecState]
    <3>1. CASE exec' = [exec EXCEPT ![e].step = "dispatch"]
      BY <3>1, ExecFieldsTyped DEF ExecStep
    <3>2. CASE Settle(e, "NOT_EXECUTED")
      BY <3>2, SettleTyped DEF EffectOutcome
    <3>3. QED
      BY <1>2, <3>1, <3>2 DEF ExecReadJobs
  <2>2. QED
    BY <1>0, <1>2, <2>1 DEF ExecReadJobs, RunTypeOK
<1>3. CASE DispatchAccepted(e)
  BY <1>0, <1>3, AcceptTyped, SettleTyped DEF DispatchAccepted, EffectOutcome
<1>4. CASE DispatchRefused(e)
  BY <1>0, <1>4, SettleTyped DEF DispatchRefused, EffectOutcome, RunTypeOK
<1>5. CASE DispatchUnanswered(e)
  BY <1>0, <1>5, SettleTyped DEF DispatchUnanswered, EffectOutcome, RunTypeOK
<1>6. CASE StoreReceipt(e)
  <2>1. exec[e].plan \in Gate /\ exec[e].outcome \in EffectOutcome
    BY <1>6 DEF StoreReceipt, Found, TypeOK, ExecState
  <2>2. exec' \in [Executor -> ExecState]
    BY <1>6, ExecFieldsTyped DEF StoreReceipt, ExecStep
  <2>3. QED
    BY <1>0, <1>6, <2>1, <2>2 DEF StoreReceipt, RunTypeOK, Receipt
<1>7. QED
  BY <1>1, <1>2, <1>3, <1>4, <1>5, <1>6 DEF Proceed

LEMMA NextTyped ==
  ASSUME TypeOK, Found, [Next]_vars
  PROVE  TypeOK'
<1>0. RunTypeOK /\ GateTypeOK
  BY DEF TypeOK
<1>1. CASE RunNext /\ UNCHANGED <<gateVars, exec, posts>>
  BY <1>0, <1>1, RunNextTyped DEF TypeOK, GateTypeOK, gateVars
<1>2. ASSUME NEW g \in Gate, GateNext(g), UNCHANGED <<exec, posts>>
      PROVE  TypeOK'
  BY <1>0, <1>2, GateTyped DEF TypeOK, RunTypeOK, runVars
<1>3. ASSUME NEW e \in Executor, NEW g \in Gate, Start(e, g)
      PROVE  TypeOK'
  BY <1>3, StartTyped DEF Start, TypeOK, RunTypeOK, GateTypeOK, runVars, gateVars
<1>4. ASSUME NEW e \in Executor, Proceed(e)
      PROVE  TypeOK'
  BY <1>4, ProceedTyped DEF TypeOK, GateTypeOK
<1>5. ASSUME NEW e \in Executor, PostArrives(e)
      PROVE  TypeOK'
  BY <1>0, <1>5, AcceptTyped DEF PostArrives, TypeOK, GateTypeOK, gateVars
<1>6. ASSUME NEW e \in Executor, PostLost(e)
      PROVE  TypeOK'
  BY <1>6 DEF PostLost, TypeOK, RunTypeOK, GateTypeOK, runVars, gateVars
<1>7. ASSUME NEW e \in Executor, Dies(e)
      PROVE  TypeOK'
  <2>1. exec' \in [Executor -> ExecState]
    BY <1>7, ExecFieldsTyped DEF Dies, ExecStep
  <2>2. QED
    BY <1>7, <2>1 DEF Dies, TypeOK, RunTypeOK, GateTypeOK, runVars, gateVars
<1>8. CASE UNCHANGED vars
  BY <1>8 DEF vars, TypeOK, RunTypeOK, GateTypeOK, runVars, gateVars
<1>9. QED
  BY <1>1, <1>2, <1>3, <1>4, <1>5, <1>6, <1>7, <1>8 DEF Next

-------------------------------------------------------------------------------
(* The shapes of a step *)

\* What a step does to the executions and their effects is one of six things.

Rest(e) == \A f \in Executor \ {e} : exec'[f] = exec[f]
Kept(e) == exec'[e].plan = exec[e].plan /\ exec'[e].late = exec[e].late
To(e, step, outcome) == exec'[e].step = step /\ exec'[e].outcome = outcome
NewEffect(e) == dispatched' = dispatched \cup {<<current.attempt + 1, e>>}

Passive == UNCHANGED <<exec, dispatched>> /\ posts' \subseteq posts

Begun(e, g) ==
  /\ Rest(e)
  /\ exec[e].step = "idle"
  /\ g \in stored
  /\ exec'[e].plan = g
  /\ exec'[e].late = (seen # gate[g].jobs)
  /\ \/ To(e, "run", "none") /\ MayExecute(g)
     \/ To(e, "receipt", "NOT_EXECUTED")
  /\ UNCHANGED <<dispatched, posts>>

Advanced(e) ==
  /\ Rest(e) /\ Kept(e)
  /\ \/ exec[e].step = "run" /\ To(e, "jobs", exec[e].outcome)
     \/ exec[e].step = "jobs" /\ SameJobs(exec[e].plan) /\ To(e, "dispatch", exec[e].outcome)
     \/ exec[e].step \in {"run", "jobs"} /\ To(e, "receipt", "NOT_EXECUTED")
     \/ exec[e].step = "dispatch" /\ To(e, "receipt", "UNKNOWN")
     \/ exec[e].step = "receipt" /\ To(e, "done", exec[e].outcome)
     \/ exec[e].step \notin {"idle", "done", "dead"} /\ To(e, "dead", exec[e].outcome)
  /\ UNCHANGED <<dispatched, posts>>

Accepted(e) ==
  /\ Rest(e) /\ Kept(e)
  /\ exec[e].step = "dispatch" /\ To(e, "receipt", "SUCCEEDED")
  /\ NewEffect(e) /\ UNCHANGED posts

Posted(e) ==
  /\ Rest(e) /\ Kept(e)
  /\ exec[e].step = "dispatch"
  /\ To(e, "receipt", "UNKNOWN") \/ To(e, "dead", exec[e].outcome)
  /\ posts' = posts \cup {e} /\ UNCHANGED dispatched

Arrived(e) ==
  /\ e \in posts /\ posts' = posts \ {e}
  /\ NewEffect(e) /\ UNCHANGED exec

Shape ==
  \/ Passive
  \/ \E e \in Executor :
       \/ \E g \in Gate : Begun(e, g)
       \/ Advanced(e) \/ Accepted(e) \/ Posted(e) \/ Arrived(e)

LEMMA Goes ==
  ASSUME TypeOK, NEW e \in Executor, NEW s, exec' = [exec EXCEPT ![e].step = s]
  PROVE  Rest(e) /\ Kept(e) /\ To(e, s, exec[e].outcome)
  BY DEF TypeOK, ExecState, Rest, Kept, To

LEMMA Settles ==
  ASSUME TypeOK, NEW e \in Executor, NEW o, Settle(e, o)
  PROVE  Rest(e) /\ Kept(e) /\ To(e, "receipt", o)
  BY DEF Settle, TypeOK, ExecState, Rest, Kept, To

LEMMA Starts ==
  ASSUME TypeOK, NEW e \in Executor, NEW g \in Gate, NEW s, NEW o, Begins(e, g, s, o)
  PROVE  /\ Rest(e) /\ To(e, s, o) /\ exec'[e].plan = g
         /\ exec'[e].late = (seen # gate[g].jobs)
<1> DEFINE x == [step |-> s, plan |-> g, outcome |-> o, late |-> seen # gate[g].jobs]
<1>0. exec \in [Executor -> ExecState]
  BY DEF TypeOK
<1>1. exec'[e] = x /\ Rest(e)
  BY <1>0 DEF Begins, Rest
<1>2. x.step = s /\ x.plan = g /\ x.outcome = o /\ x.late = (seen # gate[g].jobs)
  OBVIOUS
<1> HIDE DEF x
<1>3. QED
  BY <1>1, <1>2, Zenon DEF To

LEMMA Shapes ==
  ASSUME TypeOK, Found, [Next]_vars
  PROVE  Shape
<1> USE DEF runVars, gateVars
<1>1. CASE RunNext /\ UNCHANGED <<gateVars, exec, posts>>
  BY <1>1 DEF RunNext, JobFails, Complete, Show, OtherRerun, Shape, Passive
<1>2. ASSUME NEW g \in Gate, GateNext(g), UNCHANGED <<exec, posts>>
      PROVE  Shape
  BY <1>2, GateTyped DEF TypeOK, Shape, Passive
<1>3. ASSUME NEW e \in Executor, NEW g \in Gate, Start(e, g)
      PROVE  Shape
  <2>1. exec[e].step = "idle" /\ g \in stored /\ UNCHANGED <<dispatched, posts>>
    BY <1>3 DEF Start
  <2>2. CASE MayExecute(g) /\ Begins(e, g, "run", "none")
    BY <2>1, <2>2, Starts DEF Begun, Shape
  <2>3. CASE Begins(e, g, "receipt", "NOT_EXECUTED")
    BY <2>1, <2>3, Starts DEF Begun, Shape
  <2>4. QED
    BY <1>3, <2>2, <2>3 DEF Start
<1>4. ASSUME NEW e \in Executor, Proceed(e)
      PROVE  Shape
  <2>1. CASE ExecReadRun(e)
    BY <2>1, Goes, Settles DEF ExecReadRun, Advanced, Shape
  <2>2. CASE ExecReadJobs(e)
    BY <2>2, Goes, Settles DEF ExecReadJobs, Advanced, Shape
  <2>3. CASE DispatchAccepted(e)
    BY <2>3, Settles DEF DispatchAccepted, AcceptRerun, NewEffect, Accepted, Shape
  <2>4. CASE DispatchRefused(e)
    BY <2>4, Settles DEF DispatchRefused, Advanced, Shape
  <2>5. CASE DispatchUnanswered(e)
    BY <2>5, Settles DEF DispatchUnanswered, Posted, Shape
  <2>6. CASE StoreReceipt(e)
    BY <2>6, Goes DEF StoreReceipt, Advanced, Shape
  <2>7. QED
    BY <1>4, <2>1, <2>2, <2>3, <2>4, <2>5, <2>6 DEF Proceed
<1>5. ASSUME NEW e \in Executor, PostArrives(e)
      PROVE  Shape
  BY <1>5 DEF PostArrives, AcceptRerun, NewEffect, Arrived, Shape
<1>6. ASSUME NEW e \in Executor, PostLost(e)
      PROVE  Shape
  BY <1>6 DEF PostLost, Passive, Shape
<1>7. ASSUME NEW e \in Executor, Dies(e)
      PROVE  Shape
  <2>1. Rest(e) /\ Kept(e) /\ To(e, "dead", exec[e].outcome)
    BY <1>7, Goes DEF Dies
  <2>2. QED
    BY <1>7, <2>1 DEF Dies, Advanced, Posted, Shape
<1>8. CASE UNCHANGED vars
  BY <1>8 DEF vars, Passive, Shape
<1>9. QED
  BY <1>1, <1>2, <1>3, <1>4, <1>5, <1>6, <1>7, <1>8 DEF Next

LEMMA StoredStays ==
  ASSUME TypeOK, Found, Decided, [Next]_vars
  PROVE  /\ stored \subseteq stored'
         /\ \A g \in stored : gate'[g] = gate[g]
<1>0. gate \in [Gate -> GateState] /\ stored \subseteq Gate
  BY DEF TypeOK, GateTypeOK
<1>1. ASSUME NEW g \in Gate, GateNext(g)
      PROVE  /\ stored \subseteq stored'
             /\ \A h \in stored : gate'[h] = gate[h]
  <2> USE <1>0
  <2>1. CASE g \in stored
    <3>1. gate[g].step = "stored"
      BY <2>1 DEF Decided
    <3>2. Expire(g)
      BY <1>1, <3>1 DEF GateNext, ReadRun, ReadJobs, FindParent, NoParent, ReadTrail,
           Block, Allow, RereadRun, Admit, Store, GateDies
    <3>3. QED
      BY <3>2 DEF Expire
  <2>2. CASE g \notin stored
    <3>1. stored \subseteq stored'
      BY <1>1 DEF GateNext, ReadRun, ReadJobs, FindParent, NoParent, ReadTrail,
           Block, Allow, RereadRun, Admit, Store, GateDies, Expire
    <3>2. \A h \in Gate \ {g} : gate'[h] = gate[h]
      BY <1>1 DEF GateNext, ReadRun, ReadJobs, FindParent, NoParent, ReadTrail, Write,
           Block, Allow, RereadRun, Admit, Store, GateDies, Expire
    <3>3. QED
      BY <2>2, <3>1, <3>2
  <2>3. QED
    BY <2>1, <2>2
<1>2. ASSUME NEW e \in Executor, Proceed(e)
      PROVE  UNCHANGED <<gate, stored>>
  BY <1>2, ProceedTyped
<1>3. QED
  BY <1>1, <1>2
     DEF Next, Start, PostArrives, PostLost, Dies, vars, gateVars

LEMMA EffectsOf ==
  ASSUME NEW e \in Executor, NEW f \in Executor
  PROVE  /\ UNCHANGED dispatched => Effects(f)' = Effects(f)
         /\ NewEffect(e) => /\ Effects(e)' # {}
                            /\ f # e => Effects(f)' = Effects(f)
<1>1. UNCHANGED dispatched => Effects(f)' = Effects(f)
  BY DEF Effects
<1>2. ASSUME NewEffect(e)
      PROVE  Effects(e)' # {}
  <2>1. <<current.attempt + 1, e>> \in Effects(e)'
    BY <1>2 DEF NewEffect, Effects
  <2>2. QED
    BY <2>1
<1>3. ASSUME NewEffect(e), f # e
      PROVE  Effects(f)' = Effects(f)
  BY <1>3 DEF NewEffect, Effects
<1>4. QED
  BY <1>1, <1>2, <1>3

-------------------------------------------------------------------------------
(* Executions: what they found, and their effects *)

LEMMA FoundStays ==
  ASSUME TypeOK, Found, Shape
  PROVE  Found'
<1> SUFFICES ASSUME NEW f \in Executor
             PROVE  /\ exec'[f].step # "idle" => exec'[f].plan \in Gate
                    /\ exec'[f].step = "receipt" => exec'[f].outcome # "none"
  BY DEF Found
<1>0. stored \subseteq Gate
  BY DEF TypeOK, GateTypeOK
<1>1. CASE exec'[f] = exec[f]
  BY <1>1 DEF Found
<1>2. ASSUME NEW g \in Gate, Begun(f, g)
      PROVE  exec'[f].plan \in Gate /\ (exec'[f].step = "receipt" => exec'[f].outcome # "none")
  BY <1>0, <1>2 DEF Begun, To
<1>3. CASE Advanced(f)
  BY <1>3 DEF Advanced, To, Kept, Found
<1>4. CASE Accepted(f)
  BY <1>4 DEF Accepted, To, Kept, Found
<1>5. CASE Posted(f)
  BY <1>5 DEF Posted, To, Kept, Found
<1>6. QED
  BY <1>1, <1>2, <1>3, <1>4, <1>5
     DEF Shape, Passive, Begun, Advanced, Accepted, Posted, Arrived, Rest

LEMMA FreshStays ==
  ASSUME TypeOK, Fresh, Shape
  PROVE  Fresh'
<1> SUFFICES ASSUME NEW f \in Executor,
                    exec'[f].step \in {"idle", "run", "jobs", "dispatch"}
             PROVE  Quiet(f)' /\ exec'[f].outcome = "none"
  BY DEF Fresh
<1>1. CASE Passive
  BY <1>1, EffectsOf DEF Passive, Quiet, Fresh
<1>2. ASSUME NEW e \in Executor, NEW g \in Gate, Begun(e, g)
      PROVE  Quiet(f)' /\ exec'[f].outcome = "none"
  BY <1>2, EffectsOf DEF Begun, Rest, To, Quiet, Fresh
<1>3. ASSUME NEW e \in Executor, Advanced(e)
      PROVE  Quiet(f)' /\ exec'[f].outcome = "none"
  BY <1>3, EffectsOf DEF Advanced, Rest, To, Quiet, Fresh
<1>4. ASSUME NEW e \in Executor, Accepted(e)
      PROVE  Quiet(f)' /\ exec'[f].outcome = "none"
  BY <1>4, EffectsOf DEF Accepted, Rest, To, Quiet, Fresh
<1>5. ASSUME NEW e \in Executor, Posted(e)
      PROVE  Quiet(f)' /\ exec'[f].outcome = "none"
  BY <1>5, EffectsOf DEF Posted, Rest, To, Quiet, Fresh
<1>6. ASSUME NEW e \in Executor, Arrived(e)
      PROVE  Quiet(f)' /\ exec'[f].outcome = "none"
  BY <1>6, EffectsOf DEF Arrived, Quiet, Fresh
<1>7. QED
  BY <1>1, <1>2, <1>3, <1>4, <1>5, <1>6 DEF Shape

LEMMA SingleStays ==
  ASSUME TypeOK, Fresh, Single, Shape
  PROVE  Single'
<1>1. ASSUME NEW e \in Executor, Effects(e) = {}, NewEffect(e)
      PROVE  OneEffect'
  BY <1>1 DEF NewEffect, Effects, Single, OneEffect
<1>2. ASSUME UNCHANGED dispatched
      PROVE  OneEffect'
  BY <1>2 DEF Single, OneEffect
<1>3. posts \subseteq Executor
  BY DEF TypeOK
<1>4. CASE UNCHANGED dispatched /\ posts' \subseteq posts
  BY <1>2, <1>3, <1>4, EffectsOf DEF Single
<1>5. ASSUME NEW e \in Executor, Accepted(e)
      PROVE  Single'
  <2>1. Effects(e) = {} /\ e \notin posts /\ NewEffect(e) /\ posts' = posts
    BY <1>5 DEF Accepted, Fresh, Quiet
  <2>2. QED
    BY <1>1, <1>3, <2>1, EffectsOf DEF Single
<1>6. ASSUME NEW e \in Executor, Posted(e)
      PROVE  Single'
  <2>1. Effects(e) = {} /\ posts' = posts \cup {e} /\ UNCHANGED dispatched
    BY <1>6 DEF Posted, Fresh, Quiet
  <2>2. QED
    BY <1>2, <1>3, <2>1, EffectsOf DEF Single
<1>7. ASSUME NEW e \in Executor, Arrived(e)
      PROVE  Single'
  <2>1. Effects(e) = {} /\ posts' = posts \ {e} /\ NewEffect(e)
    BY <1>7 DEF Arrived, Single
  <2>2. QED
    BY <1>1, <1>3, <2>1, EffectsOf DEF Single
<1>8. QED
  BY <1>4, <1>5, <1>6, <1>7 DEF Shape, Passive, Begun, Advanced

LEMMA ReceiptStaysTrue ==
  ASSUME TypeOK, Fresh, ReceiptIsTrue, Shape
  PROVE  ReceiptIsTrue'
<1> SUFFICES ASSUME NEW f \in Executor
             PROVE  /\ exec'[f].outcome = "SUCCEEDED" => Effects(f)' # {}
                    /\ exec'[f].outcome = "NOT_EXECUTED" => Effects(f)' = {} /\ f \notin posts'
  BY DEF ReceiptIsTrue
<1> DEFINE Goal == /\ exec'[f].outcome = "SUCCEEDED" => Effects(f)' # {}
                   /\ exec'[f].outcome = "NOT_EXECUTED" => Effects(f)' = {} /\ f \notin posts'
<1>1. CASE Passive
  BY <1>1, EffectsOf DEF Passive, ReceiptIsTrue
<1>2. ASSUME NEW e \in Executor, NEW g \in Gate, Begun(e, g)
      PROVE  Goal
  BY <1>2, EffectsOf DEF Begun, Rest, To, Quiet, Fresh, ReceiptIsTrue
<1>3. ASSUME NEW e \in Executor, Advanced(e)
      PROVE  Goal
  BY <1>3, EffectsOf DEF Advanced, Rest, To, Quiet, Fresh, ReceiptIsTrue
<1>4. ASSUME NEW e \in Executor, Accepted(e)
      PROVE  Goal
  BY <1>4, EffectsOf DEF Accepted, Rest, To, ReceiptIsTrue
<1>5. ASSUME NEW e \in Executor, Posted(e)
      PROVE  Goal
  BY <1>5, EffectsOf DEF Posted, Rest, To, Fresh, ReceiptIsTrue
<1>6. ASSUME NEW e \in Executor, Arrived(e)
      PROVE  Goal
  BY <1>6, EffectsOf DEF Arrived, ReceiptIsTrue
<1>7. QED
  BY <1>1, <1>2, <1>3, <1>4, <1>5, <1>6 DEF Shape

-------------------------------------------------------------------------------
(* Decisions and plans *)

\* What a step of gate g leaves of the other gates, and of its own attempt.
LEMMA GateOthers ==
  ASSUME TypeOK, NEW g \in Gate, GateNext(g), NEW h \in Gate \ {g}
  PROVE  /\ gate'[h] = gate[h]
         /\ h \in stored' <=> h \in stored
<1> USE DEF TypeOK, GateTypeOK
<1>1. QED
  BY DEF GateNext, ReadRun, ReadJobs, FindParent, NoParent, ReadTrail, Write,
         Block, Allow, RereadRun, Admit, Store, GateDies, Expire

LEMMA DecidedStays ==
  ASSUME TypeOK, Decided, [Next]_vars, Found
  PROVE  Decided'
<1> USE DEF TypeOK, GateTypeOK
<1> DEFINE Final(g) == g \in stored => gate[g].step = "stored"
           Within(g) == \/ gate[g].step \in {"rereadRun", "rereadJobs"}
                        \/ gate[g].admitted /\ gate[g].allow
                        => gate[g].attempt < MaxAttempts
<1>1. ASSUME NEW g \in Gate, GateNext(g)
      PROVE  Final(g)' /\ Within(g)'
  <2>0. Final(g) /\ Within(g)
    BY DEF Decided
  <2>1. CASE ReadRun(g)
    BY <2>0, <2>1 DEF ReadRun, GateState
  <2>2. CASE ReadJobs(g)
    BY <2>0, <2>2 DEF ReadJobs, GateState
  <2>3. CASE FindParent(g)
    BY <2>0, <2>3 DEF FindParent, GateState
  <2>4. CASE NoParent(g)
    BY <2>0, <2>4 DEF NoParent, GateState
  <2>5. CASE ReadTrail(g)
    BY <2>0, <2>5 DEF ReadTrail, GateState
  <2>6. CASE Block(g)
    BY <2>0, <2>6 DEF Block, Write, GateState
  <2>7. CASE Allow(g)
    BY <2>0, <2>7 DEF Allow, WithinPolicy, Write, GateState
  <2>8. CASE RereadRun(g)
    BY <2>0, <2>8 DEF RereadRun, GateState
  <2>9. CASE Admit(g)
    BY <2>0, <2>9 DEF Admit, Write, GateState
  <2>10. CASE Store(g)
    BY <2>0, <2>10 DEF Store, GateState
  <2>11. CASE GateDies(g)
    BY <2>0, <2>11 DEF GateDies, GateState
  <2>12. CASE Expire(g)
    BY <2>0, <2>12 DEF Expire
  <2>13. QED
    BY <1>1, <2>1, <2>2, <2>3, <2>4, <2>5, <2>6, <2>7, <2>8, <2>9, <2>10, <2>11, <2>12
       DEF GateNext
<1>2. ASSUME NEW g \in Gate, GateNext(g)
      PROVE  \A h \in Gate : Final(h)' /\ Within(h)'
  <2>1. \A h \in Gate : Final(h) /\ Within(h)
    BY DEF Decided
  <2>2. \A h \in Gate \ {g} : Final(h)' /\ Within(h)'
    BY <1>2, <2>1, GateOthers
  <2>3. QED
    BY <1>1, <1>2, <2>2
<1>3. stored' \subseteq Gate
  BY NextTyped
<1>4. CASE \E g \in Gate : GateNext(g)
  BY <1>2, <1>3, <1>4 DEF Decided
<1>5. CASE UNCHANGED <<gate, stored>>
  BY <1>5 DEF Decided
<1>6. ASSUME NEW e \in Executor, Proceed(e)
      PROVE  UNCHANGED <<gate, stored>>
  BY <1>6, ProceedTyped
<1>7. QED
  BY <1>4, <1>5, <1>6 DEF Next, Start, PostArrives, PostLost, Dies, vars, gateVars

LEMMA PlannedStays ==
  ASSUME TypeOK, Found, Decided, Fresh, Planned, Shape, [Next]_vars
  PROVE  Planned'
<1> DEFINE P(f) == exec[f].plan \in stored /\ MayExecute(exec[f].plan)
           May(g) == gate'[g].admitted /\ gate'[g].allow
           Q(f) == exec'[f].plan \in stored' /\ May(exec'[f].plan)
<1> SUFFICES ASSUME NEW f \in Executor
             PROVE  /\ exec'[f].step # "idle" => exec'[f].plan \in stored'
                    /\ (exec'[f].step \in {"run", "jobs", "dispatch"} \/ ~Quiet(f)') => Q(f)
  BY DEF Planned, MayExecute
<1>1. stored \subseteq stored' /\ \A g \in stored : May(g) <=> MayExecute(g)
  BY StoredStays DEF MayExecute
<1>2. ASSUME exec'[f].plan = exec[f].plan, P(f)
      PROVE  Q(f)
  BY <1>1, <1>2, StoredStays DEF MayExecute
<1>3. ASSUME exec'[f] = exec[f], ~Quiet(f)' => ~Quiet(f)
      PROVE  /\ exec'[f].step # "idle" => exec'[f].plan \in stored'
             /\ (exec'[f].step \in {"run", "jobs", "dispatch"} \/ ~Quiet(f)') => Q(f)
  BY <1>1, <1>2, <1>3 DEF Planned
<1>4. ASSUME Kept(f), P(f)
      PROVE  exec'[f].plan \in stored' /\ Q(f)
  BY <1>1, <1>2, <1>4 DEF Kept
<1>5. CASE Passive
  BY <1>3, <1>5, EffectsOf DEF Passive, Quiet
<1>6. ASSUME NEW e \in Executor, NEW g \in Gate, Begun(e, g)
      PROVE  /\ exec'[f].step # "idle" => exec'[f].plan \in stored'
             /\ (exec'[f].step \in {"run", "jobs", "dispatch"} \/ ~Quiet(f)') => Q(f)
  <2>1. Quiet(f)' = Quiet(f)
    BY <1>6, EffectsOf DEF Begun, Quiet
  <2>2. CASE f # e
    BY <1>3, <1>6, <2>1, <2>2 DEF Begun, Rest
  <2>3. CASE f = e
    <3>1. exec'[e].plan = g /\ g \in stored /\ Quiet(e)
      BY <1>6 DEF Begun, Fresh
    <3>2. MayExecute(g) \/ exec'[e].step = "receipt"
      BY <1>6 DEF Begun, To
    <3>3. MayExecute(g) => May(exec'[e].plan)
      BY <3>1, StoredStays DEF MayExecute
    <3>4. QED
      BY <1>1, <2>1, <2>3, <3>1, <3>2, <3>3
  <2>4. QED
    BY <2>2, <2>3
<1>7. ASSUME NEW e \in Executor, Advanced(e)
      PROVE  /\ exec'[f].step # "idle" => exec'[f].plan \in stored'
             /\ (exec'[f].step \in {"run", "jobs", "dispatch"} \/ ~Quiet(f)') => Q(f)
  <2>1. Quiet(f)' = Quiet(f)
    BY <1>7, EffectsOf DEF Advanced, Quiet
  <2>2. CASE f # e
    BY <1>3, <1>7, <2>1, <2>2 DEF Advanced, Rest
  <2>3. CASE f = e
    <3>1. Kept(e) /\ exec[e].step # "idle"
      BY <1>7 DEF Advanced
    <3>2. exec'[e].plan \in stored'
      BY <1>1, <3>1 DEF Kept, Planned
    <3>3. exec'[e].step \in {"run", "jobs", "dispatch"} => exec[e].step \in {"run", "jobs"}
      BY <1>7 DEF Advanced, To
    <3>4. QED
      BY <1>4, <2>1, <2>3, <3>1, <3>2, <3>3 DEF Planned
  <2>4. QED
    BY <2>2, <2>3
<1>8. ASSUME NEW e \in Executor, Accepted(e) \/ Posted(e)
      PROVE  /\ exec'[f].step # "idle" => exec'[f].plan \in stored'
             /\ (exec'[f].step \in {"run", "jobs", "dispatch"} \/ ~Quiet(f)') => Q(f)
  <2>1. CASE f # e
    <3>1. Quiet(f)' = Quiet(f)
      BY <1>8, <2>1, EffectsOf DEF Accepted, Posted, Quiet
    <3>2. QED
      BY <1>3, <1>8, <2>1, <3>1 DEF Accepted, Posted, Rest
  <2>2. CASE f = e
    <3>1. Kept(e) /\ exec[e].step = "dispatch"
      BY <1>8 DEF Accepted, Posted
    <3>2. QED
      BY <1>4, <2>2, <3>1 DEF Planned
  <2>3. QED
    BY <2>1, <2>2
<1>9. ASSUME NEW e \in Executor, Arrived(e)
      PROVE  /\ exec'[f].step # "idle" => exec'[f].plan \in stored'
             /\ (exec'[f].step \in {"run", "jobs", "dispatch"} \/ ~Quiet(f)') => Q(f)
  <2>1. ~Quiet(f)' => ~Quiet(f)
    BY <1>9, EffectsOf DEF Arrived, Quiet
  <2>2. QED
    BY <1>3, <1>9, <2>1 DEF Arrived
<1>10. QED
  BY <1>5, <1>6, <1>7, <1>8, <1>9 DEF Shape

-------------------------------------------------------------------------------
(* The run and its snapshots *)

LEMMA BeforeOrder ==
  ASSUME NEW x \in Snapshot, NEW y \in Snapshot, NEW z \in Snapshot
  PROVE  /\ Before(x, x)
         /\ Before(x, y) /\ Before(y, z) => Before(x, z)
         /\ Before(x, y) /\ Before(y, x) => x = y
<1>1. /\ Before(x, x)
      /\ Before(x, y) /\ Before(y, z) => Before(x, z)
  BY DEF Before, Snapshot
<1>2. ASSUME Before(x, y), Before(y, x)
      PROVE  x = y
  <2>1. x.attempt = y.attempt /\ x.fails = y.fails
    BY <1>2 DEF Before, Snapshot
  <2>2. QED
    BY <2>1 DEF Snapshot
<1>3. QED
  BY <1>1, <1>2

\* The run and its snapshot move forward, a new attempt by one.
LEMMA RunMoves ==
  ASSUME TypeOK, Found, [Next]_vars
  PROVE  \/ UNCHANGED <<current, seen>>
         \/ seen' = seen /\ Before(current, current')
         \/ seen' = current /\ current' = current
<1>0. current \in Snapshot /\ RunTypeOK /\ GateTypeOK
  BY DEF TypeOK, RunTypeOK
<1> DEFINE Goal == \/ UNCHANGED <<current, seen>>
                   \/ seen' = seen /\ Before(current, current')
                   \/ seen' = current /\ current' = current
<1>1. ASSUME NextAttempt
      PROVE  Goal
  BY <1>0, <1>1, RunTyped DEF Before, Snapshot
<1>2. CASE RunNext
  <2>1. CASE JobFails
    BY <1>0, <2>1 DEF JobFails, Before, Snapshot
  <2>2. QED
    BY <1>1, <1>2, <2>1 DEF RunNext, Complete, Show, OtherRerun
<1>3. ASSUME NEW g \in Gate, GateNext(g)
      PROVE  Goal
  BY <1>0, <1>3, GateTyped DEF runVars
<1>4. ASSUME NEW e \in Executor, Proceed(e) \/ PostArrives(e)
      PROVE  Goal
  BY <1>1, <1>4 DEF Proceed, ExecReadRun, ExecReadJobs, DispatchAccepted, DispatchRefused,
       DispatchUnanswered, StoreReceipt, PostArrives, AcceptRerun, runVars
<1>5. QED
  BY <1>2, <1>3, <1>4 DEF Next, Start, PostLost, Dies, vars, runVars

LEMMA GateReads ==
  ASSUME TypeOK, NEW g \in Gate, GateNext(g)
  PROVE  /\ gate'[g].jobs \in {gate[g].jobs, seen}
         /\ gate'[g].attempt \in {gate[g].attempt, seen.attempt}
<1> USE DEF TypeOK, GateTypeOK, GateState
<1>1. CASE ReadRun(g)
  BY <1>1 DEF ReadRun
<1>2. CASE ReadJobs(g)
  BY <1>2 DEF ReadJobs
<1>3. CASE FindParent(g)
  BY <1>3 DEF FindParent
<1>4. CASE NoParent(g)
  BY <1>4 DEF NoParent
<1>5. CASE ReadTrail(g)
  BY <1>5 DEF ReadTrail
<1>6. CASE Block(g)
  BY <1>6 DEF Block, Write
<1>7. CASE Allow(g)
  BY <1>7 DEF Allow, Write
<1>8. CASE RereadRun(g)
  BY <1>8 DEF RereadRun
<1>9. CASE Admit(g)
  BY <1>9 DEF Admit, Write
<1>10. CASE Store(g)
  BY <1>10 DEF Store
<1>11. CASE GateDies(g)
  BY <1>11 DEF GateDies
<1>12. CASE Expire(g)
  BY <1>12 DEF Expire
<1>13. QED
  BY <1>1, <1>2, <1>3, <1>4, <1>5, <1>6, <1>7, <1>8, <1>9, <1>10, <1>11, <1>12
     DEF GateNext

LEMMA PastStays ==
  ASSUME TypeOK, Found, Past, [Next]_vars
  PROVE  Past'
<1>0. TypeOK'
  BY NextTyped
<1>1. /\ current \in Snapshot /\ seen \in Snapshot
      /\ current' \in Snapshot /\ seen' \in Snapshot
      /\ \A g \in Gate : gate[g].jobs \in Snapshot /\ gate[g].attempt \in 1 .. LastRun
      /\ \A g \in Gate : gate'[g].jobs \in Snapshot /\ gate'[g].attempt \in 1 .. LastRun
  BY <1>0 DEF TypeOK, RunTypeOK, GateTypeOK, GateState
<1>2. Before(seen', current') /\ Before(seen, seen') /\ seen.attempt \leq seen'.attempt
  <2>1. Before(seen', current') /\ Before(seen, seen')
    BY <1>1, RunMoves, BeforeOrder DEF Past
  <2>2. QED
    BY <1>1, <2>1 DEF Before, Snapshot
<1>3. ASSUME NEW g \in Gate
      PROVE  /\ gate'[g].jobs \in {gate[g].jobs, seen}
             /\ gate'[g].attempt \in {gate[g].attempt, seen.attempt}
  <2>1. CASE gate'[g] = gate[g]
    BY <2>1
  <2>2. CASE \E h \in Gate : GateNext(h)
    BY <2>1, <2>2, GateReads, GateOthers
  <2>3. ASSUME NEW e \in Executor, Proceed(e)
        PROVE  gate' = gate
    BY <2>3, ProceedTyped
  <2>4. QED
    BY <2>1, <2>2, <2>3 DEF Next, Start, PostArrives, PostLost, Dies, vars, gateVars
<1>4. ASSUME NEW g \in Gate
      PROVE  Before(gate'[g].jobs, seen') /\ gate'[g].attempt \leq seen'.attempt
  <2>1. Before(gate[g].jobs, seen) /\ gate[g].attempt \leq seen.attempt
    BY DEF Past
  <2>2. Before(gate'[g].jobs, seen)
    BY <1>1, <1>3, <2>1, BeforeOrder
  <2>3. Before(gate'[g].jobs, seen')
    BY <1>1, <1>2, <2>2, BeforeOrder
  <2>4. gate'[g].attempt \leq seen.attempt
    BY <1>1, <1>3, <2>1 DEF Snapshot
  <2>5. seen.attempt \in Nat /\ seen'.attempt \in Nat /\ gate'[g].attempt \in Nat
    BY <1>1 DEF Snapshot
  <2>6. gate'[g].attempt \leq seen'.attempt
    BY <1>2, <2>4, <2>5
  <2>7. QED
    BY <2>3, <2>6
<1>5. QED
  BY <1>2, <1>4 DEF Past

-------------------------------------------------------------------------------
(* Late executions *)

\* What the run has left it does not come back to.
LEMMA StillLate ==
  ASSUME TypeOK, Found, Decided, Past, [Next]_vars, NEW g \in stored, seen # gate[g].jobs
  PROVE  seen' # gate'[g].jobs
<1>0. TypeOK' /\ Past'
  BY NextTyped, PastStays
<1>1. g \in Gate /\ gate'[g] = gate[g]
  BY StoredStays DEF TypeOK, GateTypeOK
<1>2. /\ current \in Snapshot /\ seen \in Snapshot /\ gate[g].jobs \in Snapshot
      /\ Before(seen, current) /\ Before(gate[g].jobs, seen)
  BY <1>1 DEF TypeOK, RunTypeOK, GateTypeOK, GateState, Past
<1>3. CASE seen' = seen
  BY <1>1, <1>3
<1>4. CASE seen' = current
  BY <1>1, <1>2, <1>4, BeforeOrder
<1>5. QED
  BY <1>3, <1>4, RunMoves

LEMMA LatenessStays ==
  ASSUME TypeOK, Found, Fresh, Decided, Planned, Past, Lateness, Shape, [Next]_vars
  PROVE  Lateness'
<1> DEFINE Fine(f) == /\ Quiet(f)'
                      /\ exec'[f].step # "dispatch"
                      /\ exec'[f].step \in {"run", "jobs"} => seen' # gate'[exec'[f].plan].jobs
<1> SUFFICES ASSUME NEW f \in Executor, exec'[f].late
             PROVE  Fine(f)
  BY DEF Lateness
<1>1. ASSUME exec'[f] = exec[f], Quiet(f) => Quiet(f)'
      PROVE  Fine(f)
  <2>1. exec[f].step \in {"run", "jobs"} => exec[f].plan \in stored
    BY DEF Planned
  <2>2. QED
    BY <1>1, <2>1, StillLate DEF Lateness
<1>2. CASE Passive
  BY <1>1, <1>2, EffectsOf DEF Passive, Quiet
<1>3. ASSUME NEW e \in Executor, NEW g \in Gate, Begun(e, g)
      PROVE  Fine(f)
  <2>1. Quiet(f)' = Quiet(f)
    BY <1>3, EffectsOf DEF Begun, Quiet
  <2>2. CASE f # e
    BY <1>1, <1>3, <2>1, <2>2 DEF Begun, Rest
  <2>3. CASE f = e
    <3>1. Quiet(e) /\ g \in stored /\ seen # gate[g].jobs /\ exec'[e].plan = g
      BY <1>3, <2>3 DEF Begun, Fresh
    <3>2. exec'[e].step # "dispatch"
      BY <1>3 DEF Begun, To
    <3>3. QED
      BY <2>1, <2>3, <3>1, <3>2, StillLate
  <2>4. QED
    BY <2>2, <2>3
<1>4. ASSUME NEW e \in Executor, Advanced(e)
      PROVE  Fine(f)
  <2>1. Quiet(f)' = Quiet(f)
    BY <1>4, EffectsOf DEF Advanced, Quiet
  <2>2. CASE f # e
    BY <1>1, <1>4, <2>1, <2>2 DEF Advanced, Rest
  <2>3. CASE f = e
    <3>1. Kept(e) /\ exec[e].late
      BY <1>4, <2>3 DEF Advanced, Kept
    <3>2. Quiet(e) /\ exec[e].step # "dispatch"
      BY <3>1 DEF Lateness
    <3>3. exec[e].step \in {"run", "jobs"} =>
            seen # gate[exec[e].plan].jobs /\ exec[e].plan \in stored
      BY <3>1 DEF Lateness, Planned
    <3>4. exec'[e].step # "dispatch"
      BY <1>4, <3>3 DEF Advanced, To, SameJobs
    <3>5. exec'[e].step \in {"run", "jobs"} => exec[e].step \in {"run", "jobs"}
      BY <1>4 DEF Advanced, To
    <3>6. QED
      BY <2>1, <2>3, <3>1, <3>2, <3>3, <3>4, <3>5, StillLate DEF Kept
  <2>4. QED
    BY <2>2, <2>3
<1>5. ASSUME NEW e \in Executor, Accepted(e) \/ Posted(e)
      PROVE  Fine(f)
  <2>1. CASE f # e
    BY <1>1, <1>5, <2>1, EffectsOf DEF Accepted, Posted, Rest, Quiet
  <2>2. CASE f = e
    BY <1>5, <2>2 DEF Accepted, Posted, Kept, Lateness
  <2>3. QED
    BY <2>1, <2>2
<1>6. ASSUME NEW e \in Executor, Arrived(e)
      PROVE  Fine(f)
  <2>1. CASE f # e
    BY <1>1, <1>6, <2>1, EffectsOf DEF Arrived, Quiet
  <2>2. CASE f = e
    BY <1>6, <2>2 DEF Arrived, Lateness, Quiet
  <2>3. QED
    BY <2>1, <2>2
<1>7. QED
  BY <1>2, <1>3, <1>4, <1>5, <1>6 DEF Shape

-------------------------------------------------------------------------------
(* Receipts, and what they attest *)

\* An execution that is done stays as it is; one that began keeps its plan.
LEMMA PlanKept ==
  ASSUME TypeOK, Shape, NEW f \in Executor
  PROVE  /\ exec[f].step # "idle" => exec'[f].plan = exec[f].plan
         /\ exec[f].step = "done" => exec'[f] = exec[f]
<1>1. CASE Passive
  BY <1>1 DEF Passive
<1>2. ASSUME NEW e \in Executor, NEW g \in Gate, Begun(e, g)
      PROVE  exec[f].step # "idle" => exec'[f] = exec[f]
  BY <1>2 DEF Begun, Rest
<1>3. ASSUME NEW e \in Executor, Advanced(e) \/ Accepted(e) \/ Posted(e)
      PROVE  /\ exec'[f].plan = exec[f].plan
             /\ exec[f].step = "done" => exec'[f] = exec[f]
  BY <1>3 DEF Advanced, Accepted, Posted, Rest, Kept
<1>4. ASSUME NEW e \in Executor, Arrived(e)
      PROVE  exec' = exec
  BY <1>4 DEF Arrived
<1>5. QED
  BY <1>1, <1>2, <1>3, <1>4 DEF Shape

LEMMA FiledStays ==
  ASSUME TypeOK, Found, Filed, Shape, [Next]_vars
  PROVE  Filed'
<1>0. receipts \subseteq Receipt
  BY DEF TypeOK, GateTypeOK
<1>1. ASSUME NEW r \in receipts
      PROVE  /\ exec'[r.executor].step = "done"
             /\ exec'[r.executor].plan = r.gate
             /\ exec'[r.executor].outcome = r.outcome
  <2>1. r.executor \in Executor
    BY <1>0 DEF Receipt
  <2>2. QED
    BY <2>1, PlanKept DEF Filed
<1>2. CASE UNCHANGED receipts
  BY <1>1, <1>2 DEF Filed
<1>3. ASSUME NEW e \in Executor, StoreReceipt(e)
      PROVE  Filed'
  <2> DEFINE n == [gate |-> exec[e].plan, executor |-> e, outcome |-> exec[e].outcome]
  <2>1. receipts' = receipts \cup {n}
    BY <1>3 DEF StoreReceipt
  <2>2. Kept(e) /\ To(e, "done", exec[e].outcome)
    BY <1>3, Goes DEF StoreReceipt
  <2>3. /\ exec'[n.executor].step = "done"
        /\ exec'[n.executor].plan = n.gate
        /\ exec'[n.executor].outcome = n.outcome
    BY <2>2 DEF Kept, To
  <2> HIDE DEF n
  <2>4. QED
    BY <1>1, <2>1, <2>3 DEF Filed
<1>4. ASSUME NEW g \in Gate, GateNext(g)
      PROVE  UNCHANGED receipts
  BY <1>4 DEF GateNext, ReadRun, ReadJobs, FindParent, NoParent, ReadTrail,
       Block, Allow, RereadRun, Admit, Store, GateDies, Expire
<1>5. QED
  BY <1>2, <1>3, <1>4
     DEF Next, Start, Proceed, ExecReadRun, ExecReadJobs, DispatchAccepted, DispatchRefused,
         DispatchUnanswered, PostArrives, PostLost, Dies, vars, gateVars

\* Who has an effect has a stored plan, and keeps it.
LEMMA EffectPlan ==
  ASSUME TypeOK, Found, Fresh, Decided, Planned, Shape, [Next]_vars, NEW x \in dispatched
  PROVE  /\ x[2] \in Executor
         /\ exec[x[2]].plan \in stored
         /\ exec'[x[2]].plan = exec[x[2]].plan
         /\ gate'[exec[x[2]].plan] = gate[exec[x[2]].plan]
<1>1. x[2] \in Executor
  BY DEF TypeOK, RunTypeOK
<1>2. x \in Effects(x[2])
  BY DEF Effects
<1>3. ~Quiet(x[2])
  BY <1>2 DEF Quiet
<1>4. exec[x[2]].plan \in stored /\ exec[x[2]].step # "idle"
  BY <1>1, <1>3 DEF Planned, Fresh
<1>5. QED
  BY <1>1, <1>4, PlanKept, StoredStays

LEMMA AheadStays ==
  ASSUME TypeOK, Found, Fresh, Decided, Planned, Past, Ahead, Shape, [Next]_vars
  PROVE  Ahead'
<1>1. ASSUME NEW x \in dispatched
      PROVE  x[1] > gate'[exec'[x[2]].plan].attempt
  BY <1>1, EffectPlan DEF Ahead
<1>2. CASE UNCHANGED dispatched
  BY <1>1, <1>2 DEF Ahead
<1>3. ASSUME NEW e \in Executor, NewEffect(e), exec'[e].plan = exec[e].plan,
             exec[e].plan \in stored
      PROVE  Ahead'
  <2> DEFINE g == exec[e].plan
  <2>1. g \in Gate /\ gate'[g] = gate[g]
    BY <1>3, StoredStays DEF TypeOK, GateTypeOK
  <2>2. gate[g].attempt \leq seen.attempt /\ Before(seen, current)
    BY <2>1 DEF Past
  <2>3. gate[g].attempt \in Nat /\ seen \in Snapshot /\ current \in Snapshot
    BY <2>1 DEF TypeOK, GateTypeOK, GateState, RunTypeOK
  <2>4. current.attempt + 1 > gate[g].attempt
    BY <2>2, <2>3 DEF Before, Snapshot
  <2>5. ASSUME NEW x \in dispatched'
        PROVE  x[1] > gate'[exec'[x[2]].plan].attempt
    <3>1. CASE x \in dispatched
      BY <1>1, <3>1
    <3>2. CASE x = <<current.attempt + 1, e>>
      BY <1>3, <2>1, <2>4, <3>2
    <3>3. QED
      BY <1>3, <3>1, <3>2 DEF NewEffect
  <2>6. QED
    BY <2>5 DEF Ahead
<1>4. ASSUME NEW e \in Executor, Accepted(e) \/ Arrived(e)
      PROVE  Ahead'
  <2>1. exec[e].plan \in stored
    BY <1>4 DEF Accepted, Arrived, Planned, Quiet
  <2>2. NewEffect(e) /\ exec'[e].plan = exec[e].plan
    BY <1>4 DEF Accepted, Arrived, Kept
  <2>3. QED
    BY <1>3, <2>1, <2>2
<1>5. QED
  BY <1>2, <1>4 DEF Shape, Passive, Begun, Advanced, Posted

LEMMA DispatchedGrows ==
  ASSUME Shape
  PROVE  dispatched \subseteq dispatched'
  BY DEF Shape, Passive, Begun, Advanced, Accepted, Posted, Arrived, NewEffect

LEMMA AttributedStays ==
  ASSUME IInv, Shape, [Next]_vars
  PROVE  Attributed'
<1> USE DEF IInv
<1> DEFINE Real(p) == \E x \in dispatched : exec[x[2]].plan = p /\ x[1] > gate[p].attempt
           Real2(p) == \E x \in dispatched' : exec'[x[2]].plan = p /\ x[1] > gate'[p].attempt
           Early == {"idle", "jobs", "history", "trail"}
           Fine(g) == /\ gate'[g].step \in Early => gate'[g].verdict = "none"
                      /\ gate'[g].step = "trail" => gate'[g].parent \in stored'
                      /\ gate'[g].verdict = "GATE_DISPATCHED" =>
                           gate'[g].parent \in stored' /\ Real2(gate'[g].parent)
<1> SUFFICES ASSUME NEW g \in Gate
             PROVE  Fine(g)
  BY DEF Attributed
<1>0. /\ gate[g].step \in Early => gate[g].verdict = "none"
      /\ gate[g].step = "trail" => gate[g].parent \in stored
      /\ gate[g].verdict = "GATE_DISPATCHED" =>
           gate[g].parent \in stored /\ Real(gate[g].parent)
  BY DEF Attributed
<1>1. stored \subseteq stored'
  BY StoredStays
<1>2. ASSUME NEW p \in stored, Real(p)
      PROVE  Real2(p)
  <2>1. PICK x \in dispatched : exec[x[2]].plan = p /\ x[1] > gate[p].attempt
    BY <1>2
  <2>2. QED
    BY <2>1, EffectPlan, DispatchedGrows
<1>3. ASSUME gate'[g].parent = gate[g].parent, gate'[g].verdict = gate[g].verdict,
             gate'[g].step \in Early => gate[g].step \in Early,
             gate'[g].step = "trail" => gate[g].step = "trail"
      PROVE  Fine(g)
  BY <1>0, <1>1, <1>2, <1>3
<1>4. CASE GateNext(g)
  <2> USE DEF TypeOK, GateTypeOK, GateState
  <2> HIDE DEF Fine, Real, Real2
  <2>1. CASE FindParent(g)
    <3>1. PICK d \in Gate : FoundParent(g, d)
                            /\ gate' = [gate EXCEPT ![g].step = "trail", ![g].parent = d]
      BY <2>1 DEF FindParent
    <3>2. d \in stored
      BY <3>1 DEF FoundParent, PriorRecords
    <3>3. gate'[g].parent = d /\ gate'[g].verdict = "none"
      BY <1>0, <2>1, <3>1 DEF FindParent
    <3>4. QED
      BY <1>1, <3>2, <3>3 DEF Fine
  <2>2. CASE NoParent(g)
    <3>1. gate'[g].verdict = "none" /\ gate'[g].step = "assess"
      BY <1>0, <2>2 DEF NoParent
    <3>2. QED
      BY <3>1 DEF Fine
  <2>3. CASE ReadTrail(g)
    <3> DEFINE d == gate[g].parent
    <3>1. PICK v \in {"none", Reconciled(d)} :
            gate' = [gate EXCEPT ![g].step = "assess", ![g].verdict = v]
      BY <2>3 DEF ReadTrail
    <3>2. gate'[g].step = "assess" /\ gate'[g].verdict = v /\ gate'[g].parent = d
      BY <3>1
    <3>3. d \in stored
      BY <1>0, <2>3 DEF ReadTrail
    <3>4. ASSUME v = "GATE_DISPATCHED"
          PROVE  Real(d)
      <4>1. PICK r \in Receipts(d) : Confirmed(r)
        BY <3>1, <3>4 DEF Reconciled
      <4>2. r \in receipts /\ r.gate = d /\ r.outcome = "SUCCEEDED" /\ r.executor \in Executor
        BY <4>1 DEF Receipts, Confirmed, Receipt
      <4>3. exec[r.executor].plan = d /\ exec[r.executor].outcome = "SUCCEEDED"
        BY <4>2 DEF Filed
      <4>4. PICK x \in Effects(r.executor) : TRUE
        BY <4>2, <4>3 DEF ReceiptIsTrue
      <4>5. x \in dispatched /\ x[2] = r.executor
        BY <4>4 DEF Effects
      <4>6. QED
        BY <4>3, <4>5 DEF Ahead, Real
    <3>5. QED
      BY <1>1, <1>2, <3>2, <3>3, <3>4 DEF Fine
  <2>4. CASE ReadRun(g)
    BY <1>3, <2>4 DEF ReadRun
  <2>5. CASE ReadJobs(g)
    BY <1>3, <2>5 DEF ReadJobs
  <2>6. CASE Block(g)
    BY <1>3, <2>6 DEF Block, Write
  <2>7. CASE Allow(g)
    BY <1>3, <2>7 DEF Allow, Write
  <2>8. CASE RereadRun(g)
    BY <1>3, <2>8 DEF RereadRun
  <2>9. CASE Admit(g)
    BY <1>3, <2>9 DEF Admit, Write
  <2>10. CASE Store(g)
    BY <1>3, <2>10 DEF Store
  <2>11. CASE GateDies(g)
    BY <1>3, <2>11 DEF GateDies
  <2>12. CASE Expire(g)
    BY <1>3, <2>12 DEF Expire
  <2>13. QED
    BY <1>4, <2>1, <2>2, <2>3, <2>4, <2>5, <2>6, <2>7, <2>8, <2>9, <2>10, <2>11, <2>12
       DEF GateNext
<1>5. CASE gate'[g] = gate[g]
  BY <1>3, <1>5
<1>6. ASSUME NEW h \in Gate \ {g}, GateNext(h)
      PROVE  gate'[g] = gate[g]
  BY <1>6, GateOthers
<1>7. ASSUME NEW e \in Executor, Proceed(e)
      PROVE  gate' = gate
  BY <1>7, ProceedTyped
<1>8. QED
  BY <1>4, <1>5, <1>6, <1>7 DEF Next, Start, PostArrives, PostLost, Dies, vars, gateVars

-------------------------------------------------------------------------------
(* Theorems *)

LEMMA IInvStays == IInv /\ [Next]_vars => IInv'
<1> SUFFICES ASSUME IInv, [Next]_vars PROVE IInv'
  OBVIOUS
<1> USE DEF IInv
<1>1. TypeOK' /\ Shape
  BY NextTyped, Shapes
<1>2. Found' /\ Fresh' /\ Single' /\ ReceiptIsTrue'
  BY <1>1, FoundStays, FreshStays, SingleStays, ReceiptStaysTrue
<1>3. Decided' /\ Planned'
  BY <1>1, DecidedStays, PlannedStays
<1>4. Past' /\ Lateness'
  BY <1>1, PastStays, LatenessStays
<1>5. Filed' /\ Ahead' /\ Attributed'
  BY <1>1, FiledStays, AheadStays, AttributedStays
<1>6. QED
  BY <1>1, <1>2, <1>3, <1>4, <1>5

LEMMA Invariance == Spec => []IInv
<1>1. Init => IInv
  BY InitHolds
<1>2. IInv /\ [Next]_vars => IInv'
  BY IInvStays
<1>3. QED
  BY <1>1, <1>2, PTL DEF Spec

(* The variables have their types: every attempt, record and receipt is one  *)
(* the programs could have made.                                             *)
THEOREM Typing == Spec => []TypeOK
<1>1. IInv => TypeOK
  BY DEF IInv
<1>2. QED
  BY <1>1, Invariance, PTL

(* The receipt of effect_executor.py says SUCCEEDED only of a rerun that was *)
(* made, and NOT_EXECUTED only of one that never will be.                    *)
THEOREM TruthfulReceipts == Spec => []ReceiptIsTrue
<1>1. IInv => ReceiptIsTrue
  BY DEF IInv
<1>2. QED
  BY <1>1, Invariance, PTL

(* However requests get lost or arrive late, and wherever its job dies, an   *)
(* execution makes at most one attempt.                                      *)
THEOREM AtMostOnce == Spec => []OneEffect
<1>1. IInv => OneEffect
  BY DEF IInv, Single
<1>2. QED
  BY <1>1, Invariance, PTL

(* A takeover that begins after the run has visibly moved on has no effect.  *)
THEOREM LateTakeover == Spec => []LateHasNoEffect
<1>1. IInv => LateHasNoEffect
  BY DEF IInv, Lateness, LateHasNoEffect, Quiet
<1>2. QED
  BY <1>1, Invariance, PTL

\* The jobs were read after the run.  They are those of the attempt read first
\* once the run has been read again and found at that attempt.
LabelOf(x) ==
  /\ x.step \in {"history", "trail", "assess", "rereadRun", "rereadJobs"} =>
       x.attempt \leq x.jobs.attempt
  /\ x.step = "rereadJobs" \/ (x.admitted /\ x.allow) => x.jobs.attempt = x.attempt
  /\ x.step \in {"idle", "jobs"} => ~x.admitted

Labelled == \A g \in Gate : LabelOf(gate[g])

LEMMA LabelStep ==
  ASSUME TypeOK, Past, NEW g \in Gate, LabelOf(gate[g]), GateNext(g)
  PROVE  LabelOf(gate'[g])
<1> USE DEF TypeOK, GateTypeOK, LabelOf
<1>0. /\ gate[g] \in GateState
      /\ gate[g].attempt \in Nat /\ gate[g].jobs.attempt \in Nat /\ seen.attempt \in Nat
      /\ gate[g].attempt \leq seen.attempt /\ gate[g].jobs.attempt \leq seen.attempt
  <2>1. gate[g].jobs \in Snapshot /\ seen \in Snapshot /\ gate[g].attempt \in 1 .. LastRun
    BY DEF GateState, RunTypeOK
  <2> QED
    BY <2>1 DEF Snapshot, Past, Before
<1>1. CASE ReadRun(g)
  BY <1>0, <1>1 DEF ReadRun, GateState
<1>2. CASE ReadJobs(g)
  BY <1>0, <1>2 DEF ReadJobs, GateState
<1>3. CASE FindParent(g)
  BY <1>0, <1>3 DEF FindParent, GateState
<1>4. CASE NoParent(g)
  BY <1>0, <1>4 DEF NoParent, GateState
<1>5. CASE ReadTrail(g)
  BY <1>0, <1>5 DEF ReadTrail, GateState
<1>6. CASE Block(g)
  BY <1>0, <1>6 DEF Block, Write, GateState
<1>7. CASE Allow(g)
  BY <1>0, <1>7 DEF Allow, Write, GateState
<1>8. CASE RereadRun(g)
  <2>1. gate'[g] = [gate[g] EXCEPT !.step = "rereadJobs"]
    BY <1>8 DEF RereadRun
  <2>2. gate[g].jobs.attempt = gate[g].attempt
    BY <1>0, <1>8 DEF RereadRun, SameRun
  <2> QED
    BY <1>0, <2>1, <2>2 DEF GateState
<1>9. CASE Admit(g)
  BY <1>0, <1>9 DEF Admit, Write, GateState
<1>10. CASE Store(g)
  BY <1>0, <1>10 DEF Store, GateState
<1>11. CASE GateDies(g)
  BY <1>0, <1>11 DEF GateDies, GateState
<1>12. CASE Expire(g)
  BY <1>12 DEF Expire
<1> QED
  BY <1>1, <1>2, <1>3, <1>4, <1>5, <1>6, <1>7, <1>8, <1>9, <1>10, <1>11, <1>12 DEF GateNext

LEMMA LabelledStays ==
  ASSUME TypeOK, Found, Past, Labelled, [Next]_vars
  PROVE  Labelled'
<1>1. ASSUME NEW g \in Gate, GateNext(g) PROVE Labelled'
  BY <1>1, LabelStep, GateOthers DEF Labelled
<1>2. CASE UNCHANGED gate
  BY <1>2 DEF Labelled
<1>3. ASSUME NEW e \in Executor, Proceed(e) PROVE UNCHANGED gate
  BY <1>3, ProceedTyped
<1> QED
  BY <1>1, <1>2, <1>3 DEF Next, Start, PostArrives, PostLost, Dies, vars, gateVars

(* No rerun without a stored decision record that allows it, about an        *)
(* attempt below max-attempts and on evidence of that attempt.               *)
THEOREM AuditFirst == Spec => []EffectAfterAudit
<1>1. IInv /\ Labelled => EffectAfterAudit
  <2> SUFFICES ASSUME IInv, Labelled, NEW e \in Executor, Effects(e) # {} \/ e \in posts
               PROVE  LET g == exec[e].plan IN
                      /\ g \in stored /\ gate[g].allow /\ gate[g].attempt < MaxAttempts
                      /\ gate[g].jobs.attempt = gate[g].attempt
    BY DEF EffectAfterAudit
  <2>1. exec[e].plan \in stored /\ MayExecute(exec[e].plan)
    BY DEF IInv, Planned, Quiet
  <2>2. QED
    BY <2>1 DEF IInv, Decided, Labelled, LabelOf, MayExecute, TypeOK, GateTypeOK
<1>2. Init => Labelled
  BY DEF Init, GateInit, Labelled, LabelOf
<1>3. IInv /\ Labelled /\ [Next]_vars => Labelled'
  BY LabelledStays DEF IInv
<1>4. QED
  BY <1>1, <1>2, <1>3, Invariance, PTL DEF Spec

(* Where reconciliation says that the gate dispatched the next attempt, an   *)
(* execution of the parent decision dispatched that one or a later one.      *)
THEOREM Reconciliation == Spec => []DispatchIsReal
<1>1. IInv => DispatchIsReal
  BY DEF IInv, Attributed, DispatchIsReal
<1>2. QED
  BY <1>1, Invariance, PTL
-------------------------------------------------------------------------------
(* Parents.  That two decisions on one attempt have one parent is inductive  *)
(* with what FindParent has seen of a parent: it was stored then, so it is   *)
(* final, and it was made on the attempt before.                             *)

Parented ==
  \A g \in Gate :
    /\ gate[g].step \in {"idle", "jobs", "history"} => gate[g].parent = NoGate
    /\ gate[g].parent # NoGate =>
         /\ gate[g].parent \in stored
         /\ gate[gate[g].parent].attempt + 1 = gate[g].attempt

\* A step of a gate finds it a parent, or leaves its attempt and its parent, or
\* loses the parent; the attempt changes once, before there is a parent.
LEMMA ParentStep ==
  ASSUME TypeOK, Parented, NEW g \in Gate, GateNext(g)
  PROVE  \/ /\ gate'[g].step = "trail" /\ gate'[g].attempt = gate[g].attempt
            /\ \E d \in Gate : FoundParent(g, d) /\ gate'[g].parent = d
            /\ UNCHANGED <<stored, expired>>
         \/ /\ gate'[g].parent \in {gate[g].parent, NoGate}
            /\ gate'[g].parent # NoGate => gate'[g].attempt = gate[g].attempt
            /\ gate'[g].step \in {"idle", "jobs", "history"} => gate'[g].parent = NoGate
            /\ expired \subseteq expired'
<1> USE DEF TypeOK, GateTypeOK
<1>1. CASE ReadRun(g)
  BY <1>1 DEF ReadRun, Parented
<1>2. CASE ReadJobs(g)
  BY <1>2 DEF ReadJobs, Parented
<1>3. CASE FindParent(g)
  <2>1. PICK d \in Gate : FoundParent(g, d)
                          /\ gate' = [gate EXCEPT ![g].step = "trail", ![g].parent = d]
    BY <1>3 DEF FindParent
  <2> QED
    BY <1>3, <2>1 DEF FindParent
<1>4. CASE NoParent(g)
  BY <1>4 DEF NoParent
<1>5. CASE ReadTrail(g)
  <2>1. PICK v \in {"none", Reconciled(gate[g].parent)} :
          gate' = [gate EXCEPT ![g].step = "assess", ![g].verdict = v]
    BY <1>5 DEF ReadTrail
  <2> QED
    BY <1>5, <2>1 DEF ReadTrail
<1>6. CASE Block(g) \/ Allow(g) \/ RereadRun(g) \/ Admit(g) \/ Store(g)
  <2>1. ASSUME NEW a \in BOOLEAN, NEW b \in BOOLEAN, Write(g, a, b)
        PROVE  /\ gate'[g].step = "written" /\ gate'[g].parent = gate[g].parent
               /\ gate'[g].attempt = gate[g].attempt
    BY <2>1 DEF Write
  <2>2. CASE Block(g)
    BY <2>1, <2>2 DEF Block
  <2>3. CASE Allow(g)
    <3>1. UNCHANGED <<stored, expired>>
          /\ (Write(g, TRUE, FALSE) \/ gate' = [gate EXCEPT ![g].step = "rereadRun"])
      BY <2>3 DEF Allow
    <3>2. CASE Write(g, TRUE, FALSE)
      BY <2>1, <3>1, <3>2
    <3>3. CASE gate' = [gate EXCEPT ![g].step = "rereadRun"]
      BY <3>1, <3>3
    <3> QED
      BY <3>1, <3>2, <3>3
  <2>4. CASE RereadRun(g)
    BY <2>4 DEF RereadRun
  <2>5. CASE Admit(g)
    BY <2>1, <2>5 DEF Admit
  <2>6. CASE Store(g)
    BY <2>6 DEF Store
  <2> QED
    BY <1>6, <2>2, <2>3, <2>4, <2>5, <2>6
<1>7. CASE GateDies(g)
  BY <1>7 DEF GateDies
<1>8. CASE Expire(g)
  BY <1>8 DEF Expire, Parented
<1> QED
  BY <1>1, <1>2, <1>3, <1>4, <1>5, <1>6, <1>7, <1>8 DEF GateNext

LEMMA ParentedStays ==
  ASSUME TypeOK, Found, Decided, Parented, [Next]_vars
  PROVE  Parented'
<1> USE DEF TypeOK, GateTypeOK
<1> DEFINE Good(h) ==
      /\ gate[h].step \in {"idle", "jobs", "history"} => gate[h].parent = NoGate
      /\ gate[h].parent # NoGate =>
           /\ gate[h].parent \in stored
           /\ gate[gate[h].parent].attempt + 1 = gate[h].attempt
<1>1. stored \subseteq stored' /\ \A d \in stored : gate'[d] = gate[d]
  BY StoredStays
<1>2. ASSUME NEW h \in Gate, gate'[h] = gate[h] PROVE Good(h)'
  BY <1>1, <1>2 DEF Parented
<1>3. ASSUME NEW g \in Gate, GateNext(g) PROVE Good(g)'
  <2>1. ASSUME NEW d \in Gate, FoundParent(g, d), gate'[g].parent = d,
               gate'[g].attempt = gate[g].attempt, gate'[g].step = "trail"
        PROVE  Good(g)'
    BY <1>1, <2>1 DEF FoundParent, PriorRecords
  <2>2. CASE /\ gate'[g].parent \in {gate[g].parent, NoGate}
             /\ gate'[g].parent # NoGate => gate'[g].attempt = gate[g].attempt
             /\ gate'[g].step \in {"idle", "jobs", "history"} => gate'[g].parent = NoGate
    BY <1>1, <2>2 DEF Parented
  <2> QED
    BY <1>3, <2>1, <2>2, ParentStep
<1>4. ASSUME NEW g \in Gate, GateNext(g) PROVE Parented'
  <2>1. \A h \in Gate \ {g} : gate'[h] = gate[h]
    BY <1>4, GateOthers
  <2> HIDE DEF Good
  <2>2. \A h \in Gate : Good(h)'
    BY <1>2, <1>3, <1>4, <2>1
  <2> QED
    BY <2>2 DEF Parented, Good
<1>5. CASE UNCHANGED <<gate, stored>>
  BY <1>5 DEF Parented
<1>6. ASSUME NEW e \in Executor, Proceed(e) PROVE UNCHANGED <<gate, stored>>
  BY <1>6, ProceedTyped
<1> QED
  BY <1>4, <1>5, <1>6 DEF Next, Start, PostArrives, PostLost, Dies, vars, gateVars

LEMMA OneParentStays ==
  ASSUME TypeOK, Found, Decided, Parented, Parented', OneParent, [Next]_vars
  PROVE  OneParent'
<1> USE DEF TypeOK, GateTypeOK
<1> DEFINE Apart(g, h) ==
      /\ gate[g].attempt = gate[h].attempt
      /\ gate[g].parent # NoGate /\ gate[h].parent # NoGate
      /\ gate[g].parent # gate[h].parent
      => {gate[g].parent, gate[h].parent} \cap expired # {}
<1>1. \A d \in stored : gate'[d] = gate[d]
  BY StoredStays
<1>2. ASSUME NEW g \in Gate, GateNext(g), NEW h \in Gate \ {g} PROVE Apart(g, h)'
  <2>1. gate'[h] = gate[h]
    BY <1>2, GateOthers
  <2>2. ASSUME NEW d \in Gate, FoundParent(g, d), gate'[g].parent = d,
               gate'[g].attempt = gate[g].attempt, UNCHANGED expired
        PROVE  Apart(g, h)'
    <3> SUFFICES ASSUME gate[g].attempt = gate[h].attempt,
                        gate[h].parent # NoGate, gate[h].parent # d
                 PROVE  gate[h].parent \in expired
      BY <2>1, <2>2
    <3>1. gate[h].parent \in stored
          /\ gate[gate[h].parent].attempt + 1 = gate[g].attempt
      BY DEF Parented
    <3> QED
      BY <2>2, <3>1 DEF FoundParent, PriorRecords
  <2>3. CASE /\ gate'[g].parent \in {gate[g].parent, NoGate}
             /\ gate'[g].parent # NoGate => gate'[g].attempt = gate[g].attempt
             /\ expired \subseteq expired'
    BY <2>1, <2>3 DEF OneParent
  <2> QED
    BY <1>2, <2>2, <2>3, ParentStep
<1>3. ASSUME NEW g \in Gate, GateNext(g) PROVE OneParent'
  <2>1. ASSUME NEW f \in Gate, NEW h \in Gate, f # g, h # g PROVE Apart(f, h)'
    <3>1. gate'[f] = gate[f] /\ gate'[h] = gate[h]
      BY <1>3, <2>1, GateOthers
    <3>2. expired \subseteq expired'
      BY <1>3, ParentStep
    <3> QED
      BY <3>1, <3>2 DEF OneParent
  <2>2. \A f \in Gate, h \in Gate : Apart(f, h)' <=> Apart(h, f)'
    OBVIOUS
  <2>3. Apart(g, g)'
    OBVIOUS
  <2> HIDE DEF Apart
  <2>4. \A f \in Gate, h \in Gate : Apart(f, h)'
    BY <1>2, <1>3, <2>1, <2>2, <2>3
  <2> QED
    BY <2>4 DEF OneParent, Apart
<1>4. CASE UNCHANGED <<gate, expired>>
  BY <1>4 DEF OneParent
<1>5. ASSUME NEW e \in Executor, Proceed(e) PROVE UNCHANGED <<gate, expired>>
  BY <1>5 DEF Proceed, ExecReadRun, ExecReadJobs, DispatchAccepted, DispatchRefused,
       DispatchUnanswered, StoreReceipt, gateVars
<1> QED
  BY <1>3, <1>4, <1>5 DEF Next, Start, PostArrives, PostLost, Dies, vars, gateVars

LEMMA CreditStays ==
  ASSUME IInv, Parented, CreditIsDue, [Next]_vars
  PROVE  CreditIsDue'
<1> USE DEF IInv, TypeOK, GateTypeOK
<1> DEFINE Due(g, x) ==
      /\ gate[g].parent # NoGate
      /\ x[1] = gate[g].attempt /\ gate[exec[x[2]].plan].attempt + 1 = gate[g].attempt
      => exec[x[2]].plan \in expired \cup {gate[g].parent}
<1>0. Shape
  BY Shapes
<1>1. \A d \in stored : gate'[d] = gate[d]
  BY StoredStays
<1>2. \A x \in dispatched :
        /\ exec[x[2]].plan \in stored /\ exec'[x[2]].plan = exec[x[2]].plan
        /\ gate'[exec[x[2]].plan] = gate[exec[x[2]].plan]
  BY <1>0, EffectPlan
\* A step of a gate: what it finds is what is stored of the attempt before.
<1>3. ASSUME NEW g \in Gate, GateNext(g), UNCHANGED dispatched PROVE CreditIsDue'
  <2>1. ASSUME NEW x \in dispatched PROVE Due(g, x)'
    <3> DEFINE p == exec[x[2]].plan
    <3>1. p \in stored /\ exec'[x[2]].plan = p /\ gate'[p] = gate[p]
      BY <1>2
    <3>2. ASSUME NEW d \in Gate, FoundParent(g, d), gate'[g].parent = d,
                 gate'[g].attempt = gate[g].attempt, UNCHANGED expired
          PROVE  Due(g, x)'
      BY <3>1, <3>2 DEF FoundParent, PriorRecords
    <3>3. CASE /\ gate'[g].parent \in {gate[g].parent, NoGate}
               /\ gate'[g].parent # NoGate => gate'[g].attempt = gate[g].attempt
               /\ expired \subseteq expired'
      BY <3>1, <3>3 DEF CreditIsDue
    <3> QED
      BY <1>3, <3>2, <3>3, ParentStep
  <2>2. ASSUME NEW h \in Gate \ {g}, NEW x \in dispatched PROVE Due(h, x)'
    <3>1. gate'[h] = gate[h]
      BY <1>3, GateOthers
    <3>2. expired \subseteq expired'
      BY <1>3, ParentStep
    <3> QED
      BY <1>2, <3>1, <3>2 DEF CreditIsDue
  <2> HIDE DEF Due
  <2>3. \A h \in Gate, x \in dispatched' : Due(h, x)'
    BY <1>3, <2>1, <2>2
  <2> QED
    BY <2>3 DEF CreditIsDue, Due
\* An attempt that is made now is newer than every decision.
<1>4. ASSUME UNCHANGED <<gate, expired>> PROVE CreditIsDue'
  <2>1. ASSUME NEW h \in Gate, NEW x \in dispatched PROVE Due(h, x)'
    BY <1>2, <1>4 DEF CreditIsDue
  <2>2. ASSUME NEW h \in Gate PROVE gate'[h].attempt # current.attempt + 1
    <3>1. gate[h].attempt \leq seen.attempt /\ Before(seen, current)
      BY DEF Past
    <3>2. gate[h].attempt \in Nat /\ seen \in Snapshot /\ current \in Snapshot
      BY DEF GateState, RunTypeOK
    <3> QED
      BY <1>4, <3>1, <3>2 DEF Before, Snapshot
  <2>3. \A x \in dispatched' : x \in dispatched \/ x[1] = current.attempt + 1
    BY <1>0 DEF Shape, Passive, Begun, Advanced, Accepted, Posted, Arrived, NewEffect
  <2>4. ASSUME NEW h \in Gate, NEW x \in dispatched' PROVE Due(h, x)'
    <3>1. CASE x \in dispatched
      BY <2>1, <3>1
    <3>2. CASE x[1] = current.attempt + 1
      BY <2>2, <3>2
    <3> QED
      BY <2>3, <3>1, <3>2
  <2> HIDE DEF Due
  <2> QED
    BY <2>4 DEF CreditIsDue, Due
<1>5. ASSUME NEW e \in Executor, Proceed(e) PROVE UNCHANGED <<gate, expired>>
  BY <1>5 DEF Proceed, ExecReadRun, ExecReadJobs, DispatchAccepted, DispatchRefused,
       DispatchUnanswered, StoreReceipt, gateVars
<1>6. ASSUME NEW g \in Gate, GateNext(g) PROVE UNCHANGED dispatched
  BY <1>6 DEF GateNext, ReadRun, ReadJobs, FindParent, NoParent, ReadTrail, Block, Allow,
       RereadRun, Admit, Store, GateDies, Expire, runVars
<1> QED
  BY <1>3, <1>4, <1>5, <1>6 DEF Next, Start, PostArrives, PostLost, Dies, vars, gateVars

(* decision_history.py picks a parent only where there is one record of the  *)
(* attempt before: of all decisions on an attempt, however they overlap and  *)
(* whenever their records appear, those with a parent have the same, until   *)
(* an artifact expires.                                                      *)
THEOREM UniqueParent == Spec => []OneParent
<1>1. Init => Parented /\ OneParent
  BY DEF Init, GateInit, Parented, OneParent
<1>2. IInv /\ IInv' /\ Parented /\ [Next]_vars => Parented'
  BY ParentedStays DEF IInv
<1>3. IInv /\ Parented /\ Parented' /\ OneParent /\ [Next]_vars => OneParent'
  BY OneParentStays DEF IInv
<1> QED
  BY <1>1, <1>2, <1>3, Invariance, PTL DEF Spec

(* An attempt that an execution made for a decision on the attempt before    *)
(* is credited to that decision or, once its artifact has expired, to        *)
(* another, however many decisions and executions overlap.                   *)
THEOREM CreditToTheCause == Spec => []CreditIsDue
<1>1. Init => Parented /\ CreditIsDue
  BY DEF Init, GateInit, RunInit, Parented, CreditIsDue
<1>2. IInv /\ IInv' /\ Parented /\ [Next]_vars => Parented'
  BY ParentedStays DEF IInv
<1>3. IInv /\ Parented /\ CreditIsDue /\ [Next]_vars => CreditIsDue'
  BY CreditStays
<1> QED
  BY <1>1, <1>2, <1>3, Invariance, PTL DEF Spec

-------------------------------------------------------------------------------
(* The refinement.  An attempt that a POST starts is the newest one; with     *)
(* that, each step is one of EffectLedger's, or changes nothing the ledger    *)
(* knows of.                                                                  *)

Drawn == \A x \in dispatched : x[1] \leq current.attempt

LEMMA NewEffectIsNewest ==
  ASSUME TypeOK, Found, [Next]_vars
  PROVE  dispatched' = dispatched \/ current'.attempt = current.attempt + 1
<1> USE DEF runVars
<1>0. RunTypeOK
  BY DEF TypeOK
<1>1. ASSUME NEW e \in Executor, AcceptRerun(e)
      PROVE  current'.attempt = current.attempt + 1
  BY <1>0, <1>1, RunTyped DEF AcceptRerun
<1>2. CASE RunNext
  BY <1>2 DEF RunNext, JobFails, Complete, Show, OtherRerun
<1>3. ASSUME NEW g \in Gate, GateNext(g)
      PROVE  dispatched' = dispatched
  BY <1>3, GateTyped DEF TypeOK
<1>4. ASSUME NEW e \in Executor, Proceed(e) \/ PostArrives(e)
      PROVE  dispatched' = dispatched \/ current'.attempt = current.attempt + 1
  BY <1>1, <1>4 DEF Proceed, ExecReadRun, ExecReadJobs, DispatchAccepted, DispatchRefused,
       DispatchUnanswered, StoreReceipt, PostArrives
<1>5. QED
  BY <1>2, <1>3, <1>4 DEF Next, Start, PostLost, Dies, vars

LEMMA DrawnStays ==
  ASSUME TypeOK, TypeOK', Found, Drawn, Shape, [Next]_vars
  PROVE  Drawn'
<1>1. current.attempt \in Nat /\ current'.attempt \in Nat
  BY DEF TypeOK, RunTypeOK, Snapshot
<1>2. \A x \in dispatched : x[1] \in Nat
  BY DEF TypeOK, RunTypeOK
<1>3. current.attempt \leq current'.attempt
  BY <1>1, RunMoves DEF Before
<1>4. CASE dispatched' = dispatched
  BY <1>1, <1>2, <1>3, <1>4 DEF Drawn
<1>5. ASSUME NEW e \in Executor, NewEffect(e), current'.attempt = current.attempt + 1
      PROVE  Drawn'
  <2>1. \A x \in dispatched : x[1] \leq current'.attempt
    BY <1>1, <1>2, <1>3 DEF Drawn
  <2>2. \A x \in {<<current.attempt + 1, e>>} : x[1] \leq current'.attempt
    BY <1>1, <1>5
  <2> QED
    BY <1>5, <2>1, <2>2 DEF Drawn, NewEffect
<1> QED
  BY <1>4, <1>5, NewEffectIsNewest DEF Shape, Passive, Begun, Advanced, Accepted, Posted, Arrived

\* Effects keep their plans, so the ledger's effects change with dispatched.
LEMMA EffectsRecorded ==
  ASSUME IInv, Shape, [Next]_vars
  PROVE  /\ dispatched' = dispatched => PlannedEffects' = PlannedEffects
         /\ \A e \in Executor :
              NewEffect(e) =>
                PlannedEffects' =
                  PlannedEffects \cup {<<current.attempt + 1, exec'[e].plan, e>>}
<1> DEFINE Was(x) == <<x[1], exec[x[2]].plan, x[2]>>
           Is(x) == <<x[1], exec'[x[2]].plan, x[2]>>
<1>1. \A x \in dispatched : Is(x) = Was(x)
  BY EffectPlan DEF IInv
<1>2. PlannedEffects = {Was(x) : x \in dispatched}
      /\ PlannedEffects' = {Is(x) : x \in dispatched'}
  BY DEF PlannedEffects
<1>3. \A e : Is(<<current.attempt + 1, e>>) = <<current.attempt + 1, exec'[e].plan, e>>
  OBVIOUS
<1> HIDE DEF Was, Is
<1>4. ASSUME dispatched' = dispatched PROVE PlannedEffects' = PlannedEffects
  BY <1>1, <1>2, <1>4
<1>5. ASSUME NEW e \in Executor, NewEffect(e)
      PROVE  PlannedEffects' =
               PlannedEffects \cup {<<current.attempt + 1, exec'[e].plan, e>>}
  <2>1. PlannedEffects' = {Is(x) : x \in dispatched} \cup {Is(<<current.attempt + 1, e>>)}
    BY <1>2, <1>5 DEF NewEffect
  <2>2. {Is(x) : x \in dispatched} = PlannedEffects
    BY <1>1, <1>2
  <2> QED
    BY <1>3, <2>1, <2>2
<1> QED
  BY <1>4, <1>5

\* Where an execution stays as it is, the ledger's view of it does.
LEMMA SettlesOne ==
  ASSUME NEW e \in Executor,
         \A f \in Executor \ {e} :
           exec'[f] = exec[f] /\ (f \in posts' <=> f \in posts) /\ Effects(f)' = Effects(f),
         e \in Settled => e \in Settled'
  PROVE  Settled' = Settled \/ Settled' = Settled \cup {e}
<1>1. \A f \in Executor \ {e} : f \in Settled' <=> f \in Settled
  BY DEF Settled
<1>2. Settled \subseteq Executor /\ Settled' \subseteq Executor
  BY DEF Settled
<1> QED
  BY <1>1, <1>2

\* What the programs outside the gate leave alone.
LEMMA DecisionsKept ==
  ASSUME UNCHANGED <<gate, stored>>
  PROVE  DecidedPlans' = DecidedPlans /\ Credited' = Credited
  BY DEF DecidedPlans, Credited, MayExecute

LEMMA ExecutionsKept ==
  ASSUME UNCHANGED <<exec, posts, dispatched>>
  PROVE  PlannedEffects' = PlannedEffects /\ Settled' = Settled
  BY DEF PlannedEffects, Settled, Effects

\* A stored decision stays as it is; one that gets stored is a new plan.
LEMMA StoreDecides ==
  ASSUME IInv, NEW g \in Gate, Store(g)
  PROVE  /\ Credited' = Credited
         /\ \/ DecidedPlans' = DecidedPlans
            \/ /\ DecidedPlans' = DecidedPlans \cup {<<g, gate[g].attempt>>}
               /\ gate[g].attempt \in 1 .. LastRun
               /\ gate[g].attempt < MaxAttempts
               /\ \A x \in DecidedPlans : x[1] # g
<1> USE DEF IInv, TypeOK, GateTypeOK
<1>1. /\ gate[g].step = "written" /\ stored' = stored \cup {g} /\ g \notin stored
      /\ gate'[g] = [gate[g] EXCEPT !.step = "stored"]
      /\ \A h \in Gate \ {g} : gate'[h] = gate[h]
  BY DEF Store, Decided
<1>2. \A h \in Gate : /\ gate'[h].attempt = gate[h].attempt
                      /\ gate'[h].parent = gate[h].parent
                      /\ gate'[h].verdict = gate[h].verdict
                      /\ gate'[h].allow = gate[h].allow
                      /\ gate'[h].admitted = gate[h].admitted
  BY <1>1 DEF GateState
<1>3. Credited' = Credited
  BY <1>2 DEF Credited
<1>4. DecidedPlans' = {<<h, gate[h].attempt>> : h \in {k \in stored \cup {g} : MayExecute(k)}}
  BY <1>1, <1>2 DEF DecidedPlans, MayExecute
<1>5. CASE MayExecute(g)
  <2>1. DecidedPlans' = DecidedPlans \cup {<<g, gate[g].attempt>>}
    BY <1>4, <1>5 DEF DecidedPlans
  <2>2. gate[g].attempt \in 1 .. LastRun /\ gate[g].attempt < MaxAttempts
    BY <1>5 DEF MayExecute, Decided, GateState
  <2>3. \A x \in DecidedPlans : x[1] # g
    BY <1>1 DEF DecidedPlans
  <2> QED
    BY <1>3, <2>1, <2>2, <2>3
<1>6. CASE ~MayExecute(g)
  BY <1>3, <1>4, <1>6 DEF DecidedPlans
<1> QED
  BY <1>5, <1>6

LEMMA TrailCredits ==
  ASSUME IInv, IInv', NEW g \in Gate, ReadTrail(g), UNCHANGED exec
  PROVE  /\ DecidedPlans' = DecidedPlans
         /\ \/ Credited' = Credited
            \/ \E p \in Gate : /\ Credited' = Credited \cup {p}
                               /\ \E x \in PlannedEffects : x[2] = p
<1> USE DEF IInv, TypeOK, GateTypeOK
<1> DEFINE d == gate[g].parent
<1>1. PICK v : gate' = [gate EXCEPT ![g].step = "assess", ![g].verdict = v]
  BY DEF ReadTrail
<1>2. /\ gate[g].step = "trail" /\ gate[g].verdict = "none"
      /\ stored' = stored /\ g \notin stored
      /\ \A h \in Gate \ {g} : gate'[h] = gate[h]
      /\ gate'[g].parent = d /\ gate'[g].verdict = v
  BY <1>1 DEF ReadTrail, Attributed, Decided, GateState
<1>3. DecidedPlans' = DecidedPlans
  BY <1>2 DEF DecidedPlans, MayExecute
<1>4. CASE v = "GATE_DISPATCHED"
  <2>1. Credited' = Credited \cup {d}
    BY <1>2, <1>4 DEF Credited
  <2>2. PICK x \in dispatched' : exec'[x[2]].plan = d
    BY <1>2, <1>4 DEF Attributed
  <2>3. x \in dispatched /\ exec[x[2]].plan = d
    BY <2>2 DEF ReadTrail, runVars
  <2>4. <<x[1], d, x[2]>> \in PlannedEffects
    BY <2>3 DEF PlannedEffects
  <2>5. d \in Gate
    BY <1>2 DEF Attributed
  <2> QED
    BY <1>3, <2>1, <2>4, <2>5
<1>5. CASE v # "GATE_DISPATCHED"
  BY <1>2, <1>3, <1>5 DEF Credited
<1> QED
  BY <1>3, <1>4, <1>5

\* Every other step of a gate is nothing to the ledger.
LEMMA GateKeeps ==
  ASSUME IInv, NEW g \in Gate, GateNext(g), ~Store(g), ~ReadTrail(g)
  PROVE  DecidedPlans' = DecidedPlans /\ Credited' = Credited
<1> USE DEF IInv, TypeOK, GateTypeOK
<1>1. \A h \in Gate \ {g} : gate'[h] = gate[h]
  BY GateOthers
<1>2. stored' = stored
  BY DEF GateNext, ReadRun, ReadJobs, FindParent, NoParent,
       Block, Allow, RereadRun, Admit, GateDies, Expire
<1>3. gate'[g] = gate[g] \/ g \notin stored
  BY DEF Decided, GateNext, ReadRun, ReadJobs, FindParent, NoParent,
       Block, Allow, RereadRun, Admit, GateDies, Expire
<1>4. DecidedPlans' = DecidedPlans
  <2>1. \A h \in stored : gate'[h] = gate[h]
    BY <1>1, <1>3
  <2> QED
    BY <1>2, <2>1 DEF DecidedPlans, MayExecute
<1>5. /\ gate'[g].verdict = gate[g].verdict
      /\ gate[g].verdict = "GATE_DISPATCHED" => gate'[g].parent = gate[g].parent
  <2>1. CASE FindParent(g) \/ NoParent(g)
    <3>1. gate[g].verdict = "none"
      BY <2>1 DEF FindParent, NoParent, Attributed
    <3>2. gate'[g].verdict = gate[g].verdict
      BY <2>1 DEF FindParent, NoParent, GateState
    <3> QED
      BY <3>1, <3>2
  <2>2. CASE ReadRun(g) \/ ReadJobs(g)
    BY <2>2 DEF ReadRun, ReadJobs, GateState
  <2>3. CASE Block(g) \/ Allow(g) \/ RereadRun(g) \/ Admit(g)
    BY <2>3 DEF Block, Allow, RereadRun, Admit, Write, GateState
  <2>4. CASE GateDies(g) \/ Expire(g)
    BY <2>4 DEF GateDies, Expire, GateState
  <2> QED
    BY <2>1, <2>2, <2>3, <2>4 DEF GateNext
<1>6. Credited' = Credited
  BY <1>1, <1>5 DEF Credited
<1> QED
  BY <1>4, <1>6

\* A gate's step decides a plan, credits one, or is nothing to the ledger.
LEMMA GateImplements ==
  ASSUME IInv, IInv', NEW g \in Gate, GateNext(g), UNCHANGED <<exec, posts>>
  PROVE  Ledger!Next \/ UNCHANGED Ledger!ledger
<1>1. UNCHANGED <<dispatched, receipts>>
  BY GateTyped DEF IInv, TypeOK, runVars, GateNext, ReadRun, ReadJobs, FindParent, NoParent,
     ReadTrail, Block, Allow, RereadRun, Admit, Store, GateDies, Expire
<1>2. PlannedEffects' = PlannedEffects /\ Settled' = Settled
  BY <1>1, ExecutionsKept
<1>3. CASE Store(g)
  BY <1>1, <1>2, <1>3, StoreDecides DEF Ledger!Next, Ledger!Decide, Ledger!ledger
<1>4. CASE ReadTrail(g)
  BY <1>1, <1>2, <1>4, TrailCredits DEF Ledger!Next, Ledger!Credit, Ledger!ledger
<1>5. CASE ~Store(g) /\ ~ReadTrail(g)
  BY <1>1, <1>2, <1>5, GateKeeps DEF Ledger!ledger
<1> QED
  BY <1>3, <1>4, <1>5

\* An attempt started by e, which was open, for its stored plan.
LEMMA EffectRecorded ==
  ASSUME IInv, IInv', Drawn, Shape, [Next]_vars, NEW e \in Executor, NewEffect(e),
         Effects(e) = {}, e \in posts \/ exec[e].step = "dispatch", e \in Settled',
         \A f \in Executor \ {e} : exec'[f] = exec[f] /\ (f \in posts' <=> f \in posts),
         UNCHANGED <<gate, stored, receipts>>
  PROVE  Ledger!Next
<1> DEFINE p == exec'[e].plan
           a == current.attempt + 1
<1>1. DecidedPlans' = DecidedPlans /\ Credited' = Credited
  BY DecisionsKept
<1>2. PlannedEffects' = PlannedEffects \cup {<<a, p, e>>}
  BY EffectsRecorded
<1>3. e \notin Settled /\ Settled' = Settled \cup {e}
  <2>1. e \notin Settled
    BY DEF Settled
  <2>2. Settled' = Settled \/ Settled' = Settled \cup {e}
    BY <2>1, EffectsOf, SettlesOne
  <2> QED
    BY <2>1, <2>2
<1>4. <<a, e>> \in dispatched'
  BY DEF NewEffect
<1>5. a \in 1 .. LastRun /\ p \in Gate
  <2>1. a \in 1 .. LastRun
    BY <1>4 DEF IInv, TypeOK, RunTypeOK
  <2>2. p \in stored'
    BY <1>4 DEF IInv, Planned, Quiet, Effects
  <2> QED
    BY <2>1, <2>2 DEF IInv, TypeOK, GateTypeOK
<1>6. \E x \in DecidedPlans : x[1] = p /\ x[2] < a
  <2>1. p \in stored /\ MayExecute(p)
    BY <1>4 DEF IInv, Planned, Quiet, Effects, MayExecute
  <2>2. gate[p].attempt < a
    BY <1>4 DEF IInv, Ahead
  <2>3. <<p, gate[p].attempt>> \in DecidedPlans
    BY <2>1 DEF DecidedPlans
  <2> QED
    BY <2>2, <2>3
<1>7. \A x \in PlannedEffects : x[1] < a
  <2>1. current.attempt \in Nat /\ \A x \in dispatched : x[1] \in Nat
    BY DEF IInv, TypeOK, RunTypeOK, Snapshot
  <2> QED
    BY <2>1 DEF PlannedEffects, Drawn
<1>8. Ledger!Effect(e, p, a)
  BY <1>1, <1>2, <1>3, <1>6, <1>7 DEF Ledger!Effect
<1> QED
  BY <1>5, <1>8 DEF Ledger!Next

\* An execution without a new effect is closed by a step, or it is not.
LEMMA ClosingRecorded ==
  ASSUME IInv, Shape, [Next]_vars, NEW e \in Executor, e \in Settled => e \in Settled',
         \A f \in Executor \ {e} : exec'[f] = exec[f] /\ (f \in posts' <=> f \in posts),
         UNCHANGED <<gate, stored, receipts, dispatched>>
  PROVE  Ledger!Next \/ UNCHANGED Ledger!ledger
<1>1. DecidedPlans' = DecidedPlans /\ Credited' = Credited
  BY DecisionsKept
<1>2. PlannedEffects' = PlannedEffects
  BY EffectsRecorded
<1>3. Settled' = Settled \/ Settled' = Settled \cup {e}
  BY EffectsOf, SettlesOne
<1> QED
  BY <1>1, <1>2, <1>3 DEF Ledger!Next, Ledger!Close, Ledger!ledger

LEMMA ReceiptIssued ==
  ASSUME IInv, Shape, [Next]_vars, NEW e \in Executor, StoreReceipt(e)
  PROVE  Ledger!Next
<1> USE DEF IInv
<1> DEFINE p == exec[e].plan
           o == exec[e].outcome
<1>1. /\ Rest(e) /\ Kept(e) /\ To(e, "done", o) /\ exec[e].step = "receipt"
      /\ UNCHANGED <<gate, stored, dispatched, posts>>
      /\ receipts' = receipts \cup {[gate |-> p, executor |-> e, outcome |-> o]}
  BY Goes DEF StoreReceipt, runVars
<1>2. p \in Gate /\ o \in {"SUCCEEDED", "NOT_EXECUTED", "UNKNOWN"}
  BY <1>1 DEF Found, TypeOK, ExecState, EffectOutcome
<1>3. DecidedPlans' = DecidedPlans /\ Credited' = Credited /\ PlannedEffects' = PlannedEffects
  BY <1>1, DecisionsKept, EffectsRecorded
<1>4. Settled' = Settled
  <2>1. \A f \in Executor : Effects(f)' = Effects(f)
    BY <1>1, EffectsOf
  <2>2. e \in Settled' <=> e \in Settled
    BY <1>1, <2>1 DEF Settled, To
  <2>3. Settled' = Settled \/ Settled' = Settled \cup {e}
    BY <1>1, <2>1, <2>2, SettlesOne DEF Rest
  <2> QED
    BY <2>2, <2>3
<1>5. \A r \in receipts : r.executor # e
  BY <1>1 DEF Filed
<1>6. \A x \in Effects(e) : <<x[1], p, e>> \in PlannedEffects
  BY DEF Effects, PlannedEffects
<1>7. \A x \in PlannedEffects : x[3] = e => Effects(e) # {}
  BY DEF Effects, PlannedEffects
<1>8. o = "SUCCEEDED" => \E x \in Ledger!EffectsBy(e) : x[2] = p
  <2> SUFFICES ASSUME o = "SUCCEEDED" PROVE \E x \in Ledger!EffectsBy(e) : x[2] = p
    OBVIOUS
  <2>1. PICK x \in Effects(e) : TRUE
    BY DEF ReceiptIsTrue
  <2>2. <<x[1], p, e>> \in Ledger!EffectsBy(e)
    BY <1>6, <2>1 DEF Ledger!EffectsBy
  <2> QED
    BY <2>2
<1>9. o = "NOT_EXECUTED" => e \in Settled /\ Ledger!EffectsBy(e) = {}
  BY <1>1, <1>7 DEF ReceiptIsTrue, Settled, Ledger!EffectsBy
<1>10. Ledger!Issue(p, e, o)
  BY <1>1, <1>3, <1>4, <1>5, <1>8, <1>9 DEF Ledger!Issue
<1> QED
  BY <1>2, <1>10 DEF Ledger!Next

LEMMA LedgerSteps ==
  ASSUME IInv, IInv', Drawn, [Next]_vars
  PROVE  Ledger!Next \/ UNCHANGED Ledger!ledger
<1>0. TypeOK /\ Found /\ Fresh /\ Single /\ Shape
  BY Shapes DEF IInv
<1> USE <1>0
<1>1. CASE RunNext /\ UNCHANGED <<gateVars, exec, posts>>
  BY <1>1, DecisionsKept, ExecutionsKept
     DEF RunNext, JobFails, Complete, Show, OtherRerun, gateVars, Ledger!ledger
<1>2. ASSUME NEW g \in Gate, GateNext(g), UNCHANGED <<exec, posts>>
      PROVE  Ledger!Next \/ UNCHANGED Ledger!ledger
  BY <1>2, GateImplements
<1>3. ASSUME NEW e \in Executor, NEW g \in Gate, Start(e, g)
      PROVE  Ledger!Next \/ UNCHANGED Ledger!ledger
  <2>1. /\ UNCHANGED <<gate, stored, receipts, dispatched, posts>>
        /\ exec[e].step = "idle"
    BY <1>3 DEF Start, runVars, gateVars
  <2>2. e \notin Settled
    BY <2>1 DEF Fresh, Quiet, Settled
  <2>3. \A f \in Executor \ {e} : exec'[f] = exec[f]
    BY <1>3, Starts DEF Start, Rest
  <2> QED
    BY <2>1, <2>2, <2>3, ClosingRecorded
<1>4. ASSUME NEW e \in Executor, Proceed(e)
      PROVE  Ledger!Next \/ UNCHANGED Ledger!ledger
  <2>1. CASE ExecReadRun(e) \/ ExecReadJobs(e) \/ DispatchRefused(e)
    <3>1. /\ UNCHANGED <<gate, stored, receipts, dispatched, posts>>
          /\ exec[e].step \in {"run", "jobs", "dispatch"}
      BY <2>1 DEF ExecReadRun, ExecReadJobs, DispatchRefused, runVars, gateVars
    <3>2. e \notin Settled
      BY <3>1 DEF Fresh, Quiet, Settled
    <3>3. Rest(e)
      BY <2>1, Goes, Settles DEF ExecReadRun, ExecReadJobs, DispatchRefused
    <3> QED
      BY <3>1, <3>2, <3>3, ClosingRecorded DEF Rest
  <2>2. CASE DispatchUnanswered(e)
    <3>1. /\ UNCHANGED <<gate, stored, receipts, dispatched>>
          /\ exec[e].step = "dispatch" /\ posts' = posts \cup {e} /\ Rest(e)
      BY <2>2, Settles DEF DispatchUnanswered, runVars, gateVars
    <3>2. e \notin Settled
      BY <3>1 DEF Fresh, Quiet, Settled
    <3> QED
      BY <3>1, <3>2, ClosingRecorded DEF Rest
  <2>3. CASE DispatchAccepted(e)
    <3>1. /\ UNCHANGED <<gate, stored, receipts, posts>>
          /\ exec[e].step = "dispatch" /\ NewEffect(e) /\ Rest(e)
      BY <2>3, Settles DEF DispatchAccepted, AcceptRerun, NewEffect, gateVars
    <3>2. Effects(e) = {} /\ e \in Settled'
      BY <3>1, EffectsOf DEF Fresh, Quiet, Settled
    <3> QED
      BY <3>1, <3>2, EffectRecorded DEF Rest
  <2>4. CASE StoreReceipt(e)
    BY <2>4, ReceiptIssued
  <2> QED
    BY <1>4, <2>1, <2>2, <2>3, <2>4 DEF Proceed
<1>5. ASSUME NEW e \in Executor, PostArrives(e)
      PROVE  Ledger!Next
  <2>1. /\ UNCHANGED <<gate, stored, receipts, exec>>
        /\ e \in posts /\ posts' = posts \ {e} /\ NewEffect(e)
    BY <1>5 DEF PostArrives, AcceptRerun, NewEffect, gateVars
  <2>2. Effects(e) = {} /\ e \in Settled'
    BY <2>1, EffectsOf DEF Single, Settled
  <2> QED
    BY <2>1, <2>2, EffectRecorded
<1>6. ASSUME NEW e \in Executor, PostLost(e)
      PROVE  Ledger!Next \/ UNCHANGED Ledger!ledger
  <2>1. /\ UNCHANGED <<gate, stored, receipts, dispatched, exec>>
        /\ posts' = posts \ {e} /\ e \in posts
    BY <1>6 DEF PostLost, runVars, gateVars
  <2>2. e \in Settled => e \in Settled'
    BY <2>1, EffectsOf DEF Settled
  <2> QED
    BY <2>1, <2>2, ClosingRecorded
<1>7. ASSUME NEW e \in Executor, Dies(e)
      PROVE  Ledger!Next \/ UNCHANGED Ledger!ledger
  <2>1. /\ UNCHANGED <<gate, stored, receipts, dispatched>>
        /\ Rest(e) /\ exec'[e].step = "dead" /\ exec[e].step # "idle"
        /\ \/ posts' = posts
           \/ exec[e].step = "dispatch" /\ posts' = posts \cup {e}
    BY <1>7, Goes DEF Dies, To, runVars, gateVars
  <2>2. e \in Settled => e \in Settled'
    BY <2>1, EffectsOf DEF Fresh, Quiet, Settled
  <2> QED
    BY <2>1, <2>2, ClosingRecorded DEF Rest
<1>8. CASE UNCHANGED vars
  BY <1>8, DecisionsKept, ExecutionsKept DEF vars, runVars, gateVars, Ledger!ledger
<1> QED
  BY <1>1, <1>2, <1>3, <1>4, <1>5, <1>6, <1>7, <1>8 DEF Next

(* The gate, the executor, the artifacts and the run implement the ledger:    *)
(* whatever jobs die and answers get lost, decisions, effects and receipts    *)
(* are only ever added, each execution is closed once, and each receipt, and  *)
(* each credit for a rerun, is true when it is given and stays so.            *)
THEOREM LedgerRefinement == Spec => ImplementsLedger
<1>1. Init => Ledger!Init /\ Drawn
  <2>1. ASSUME Init PROVE Settled = {}
    BY <2>1 DEF Init, RunInit, Settled, Effects
  <2> QED
    BY <2>1 DEF Init, RunInit, GateInit, Drawn, Ledger!Init, DecidedPlans, PlannedEffects, Credited
<1>2. IInv /\ IInv' /\ Drawn /\ [Next]_vars => Drawn'
  BY Shapes, DrawnStays DEF IInv
<1>3. IInv /\ IInv' /\ Drawn /\ [Next]_vars => [Ledger!Next]_(Ledger!ledger)
  BY LedgerSteps
<1> QED
  BY <1>1, <1>2, <1>3, Invariance, PTL DEF Spec, ImplementsLedger, Ledger!Spec
===============================================================================
