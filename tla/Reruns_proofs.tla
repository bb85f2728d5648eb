----------------------------- MODULE Reruns_proofs -----------------------------
(* One epoch, one rerun, for any number of executions, attempts and jobs; and *)
(* what the gate learns from reruns, for any number of runs and attempts.     *)
(*                                                                            *)
(* An execution that has not ended has sent nothing (Unsent); what was sent   *)
(* without an answer has not started an attempt yet (Open).  Whoever has got  *)
(* past its plan assessed an attempt below the limit (Allowed).  So an        *)
(* execution starts at most one attempt (Once).                               *)
(*                                                                            *)
(* Of a job, a later attempt lists what an earlier one does or an execution   *)
(* that started after it (Chronicle): so a listing that differs in its start  *)
(* is of an execution, even if the jobs of an attempt were read as those of a *)
(* later one (JobsOf, TruthOf).  A listed failure is one sample (Studied), so *)
(* as many samples of one job are as many runs (RunsOf).                      *)
EXTENDS SelectiveRerun, RerunHistory, FiniteSetTheorems, FunctionTheorems,
        WellFoundedInduction, TLAPS

Ended(e) == selective[e].step \in {"done", "escaped"}

Unsent(e) ==
  ~Ended(e) => e \notin unanswered /\ StartedBy(e) = {} /\ selective[e].triggered = {}
Open(e) == e \in unanswered => StartedBy(e) = {}
Allowed(e) ==
  /\ selective[e].step \in {"run", "job", "post"} =>
       selective[e].run.attempt < MaxTries /\ selective[e].safe # {}
  /\ e \in unanswered \/ StartedBy(e) # {} => selective[e].run.attempt < MaxTries
Once(e) ==
  /\ \A a, b \in StartedBy(e) : a = b
  /\ \A j, k \in selective[e].triggered : j = k
  /\ selective[e].triggered # {} => StartedBy(e) # {}

Part(e) == Unsent(e) /\ Open(e) /\ Allowed(e) /\ Once(e)
SelectiveInv == SelectiveTypeOK /\ \A e \in Executor : Part(e)

-------------------------------------------------------------------------------

\* The safe jobs have one with the lowest id.
LEMMA TargetIsSafe ==
  ASSUME SelectiveTypeOK, NEW e \in Executor, selective[e].safe # {}
  PROVE  Target(e) \in selective[e].safe /\ Target(e) \in Job
<1>1. selective[e].safe \subseteq Job /\ Job \subseteq Nat
  BY RunAssumption DEF SelectiveTypeOK, Selective, Job
<1>2. PICK j \in selective[e].safe :
        \A k \in selective[e].safe : <<k, j>> \notin OpToRel(<, Nat)
  BY <1>1, WFMin, NatLessThanWellFounded
<1>3. \A k \in selective[e].safe : j \leq k
  <2> SUFFICES ASSUME NEW k \in selective[e].safe PROVE j \leq k
    OBVIOUS
  <2>1. k \in Nat /\ j \in Nat /\ <<k, j>> \in Nat \X Nat
    BY <1>1
  <2>2. ~(k < j)
    BY <1>2, <2>1 DEF OpToRel
  <2> QED  BY <2>1, <2>2
<1> QED  BY <1>1, <1>3 DEF Target

\* The run by itself starts no attempt of an execution.
LEMMA RunStep ==
  ASSUME RunTypeOK, RunNext
  PROVE  RunTypeOK' /\ dispatched' = dispatched
<1>1. CASE JobFails
  <2> DEFINE c == [current EXCEPT !.fails = @ + 1]
  <2>1. c \in Snapshot
    BY <1>1, RunAssumption DEF RunTypeOK, JobFails, Snapshot
  <2>2. current' = c /\ UNCHANGED <<running, seen, dispatched>>
    BY <1>1 DEF JobFails
  <2> HIDE DEF c
  <2> QED  BY <2>1, <2>2 DEF RunTypeOK
<1>2. CASE Complete
  BY <1>2 DEF RunTypeOK, Complete
<1>3. CASE Show
  BY <1>3 DEF RunTypeOK, Show
<1>4. CASE OtherRerun
  <2>1. /\ current.attempt + 1 \in 1 .. LastRun /\ 0 \in 0 .. MaxFails
        /\ current' = [attempt |-> current.attempt + 1, fails |-> 0]
        /\ running' = TRUE /\ UNCHANGED <<seen, dispatched>>
    BY <1>4, RunAssumption DEF OtherRerun, NextAttempt, RunTypeOK, Snapshot
  <2>2. current' \in Snapshot
    BY <2>1 DEF Snapshot
  <2> QED  BY <2>1, <2>2 DEF RunTypeOK
<1> QED  BY <1>1, <1>2, <1>3, <1>4 DEF RunNext

\* A request that is carried out starts one attempt, of its execution.
LEMMA AcceptStep ==
  ASSUME RunTypeOK, NEW e \in Executor, AcceptRerun(e)
  PROVE  /\ RunTypeOK'
         /\ \E a \in 1 .. LastRun :
              /\ StartedBy(e)' = StartedBy(e) \cup {a}
              /\ \A f \in Executor \ {e} : StartedBy(f)' = StartedBy(f)
<1> DEFINE a == current.attempt + 1
<1>1. /\ current.attempt \in 1 .. LastRun /\ current.attempt < LastRun /\ LastRun \in Nat
      /\ dispatched' = dispatched \cup {<<a, e>>}
  BY RunAssumption DEF RunTypeOK, Snapshot, AcceptRerun, NextAttempt
<1>2. a \in 1 .. LastRun
  BY <1>1
<1>3. RunTypeOK'
  BY <1>1, <1>2, RunAssumption DEF RunTypeOK, Snapshot, AcceptRerun, NextAttempt
<1> HIDE DEF a
<1>4. StartedBy(e)' = StartedBy(e) \cup {a}
  BY <1>1, <1>2 DEF StartedBy
<1>5. ASSUME NEW f \in Executor \ {e} PROVE StartedBy(f)' = StartedBy(f)
  BY <1>1 DEF StartedBy
<1> QED  BY <1>2, <1>3, <1>4, <1>5

\* To say that a part holds of an execution again, it is enough to know what
\* it has become; of the others nothing changes.
LEMMA OthersKeep ==
  ASSUME SelectiveInv, NEW e \in Executor, NEW s \in Selective,
         selective' = [selective EXCEPT ![e] = s],
         \A f \in Executor \ {e} : /\ f \in unanswered <=> f \in unanswered'
                                   /\ StartedBy(f)' = StartedBy(f)
  PROVE  /\ selective' \in [Executor -> Selective] /\ selective'[e] = s
         /\ \A f \in Executor \ {e} : Part(f)'
<1>1. selective \in [Executor -> Selective]
  BY DEF SelectiveInv, SelectiveTypeOK
<1>2. ASSUME NEW f \in Executor \ {e} PROVE Part(f)'
  <2>1. selective'[f] = selective[f] /\ Part(f)
    BY <1>1 DEF SelectiveInv
  <2> QED  BY <2>1 DEF Part, Unsent, Open, Allowed, Once, Ended
<1> QED  BY <1>1, <1>2

\* A step that changes the execution only.
LEMMA BecomeStep ==
  ASSUME SelectiveInv, NEW e \in Executor, NEW s \in Selective, Become(e, s),
         ~Ended(e), s.step # "start", s.triggered = selective[e].triggered,
         s.step \in {"run", "job", "post"} => s.run.attempt < MaxTries /\ s.safe # {}
  PROVE  SelectiveInv'
<1>1. /\ selective' = [selective EXCEPT ![e] = s] /\ unanswered' = unanswered
      /\ dispatched' = dispatched /\ UNCHANGED runVars
  BY DEF Become, runVars
<1>2. \A f \in Executor : StartedBy(f)' = StartedBy(f)
  BY <1>1 DEF StartedBy
<1>3. /\ selective' \in [Executor -> Selective] /\ selective'[e] = s
      /\ \A f \in Executor \ {e} : Part(f)'
  BY <1>1, <1>2, OthersKeep
<1>4. SelectiveTypeOK'
  BY <1>1, <1>3 DEF SelectiveInv, SelectiveTypeOK, RunTypeOK, runVars
<1>5. Unsent(e)
  BY DEF SelectiveInv, Part
<1>6. Part(e)'
  BY <1>1, <1>2, <1>3, <1>5 DEF Part, Unsent, Open, Allowed, Once, Ended
<1> QED  BY <1>3, <1>4, <1>6 DEF SelectiveInv

-------------------------------------------------------------------------------

LEMMA SelectiveStart == SelectiveInit => SelectiveInv
<1> SUFFICES ASSUME SelectiveInit PROVE SelectiveInv
  OBVIOUS
<1>1. SelectiveTypeOK
  BY RunAssumption DEF SelectiveInit, RunInit, SelectiveTypeOK, RunTypeOK, Selective,
                       Snapshot, FirstAttempt, Job
<1>2. ASSUME NEW e \in Executor PROVE Part(e)
  <2>1. /\ selective[e].step = "start" /\ selective[e].triggered = {}
        /\ unanswered = {} /\ StartedBy(e) = {}
    BY <1>2 DEF SelectiveInit, RunInit, StartedBy
  <2> QED  BY <2>1 DEF Part, Unsent, Open, Allowed, Once, Ended
<1> QED  BY <1>1, <1>2 DEF SelectiveInv

LEMMA SelectiveSteps == SelectiveInv /\ [SelectiveNext]_selectiveVars => SelectiveInv'
<1> SUFFICES ASSUME SelectiveInv, [SelectiveNext]_selectiveVars PROVE SelectiveInv'
  OBVIOUS
<1> USE DEF SelectiveInv
<1>1. SelectiveTypeOK /\ RunTypeOK
  BY DEF SelectiveTypeOK
<1>2. CASE (RunNext /\ UNCHANGED <<selective, unanswered>>) \/ UNCHANGED selectiveVars
  <2>1. RunTypeOK' /\ dispatched' = dispatched
    BY <1>1, <1>2, RunStep DEF selectiveVars, runVars, RunTypeOK
  <2>2. selective' = selective /\ unanswered' = unanswered
    BY <1>2 DEF selectiveVars
  <2>3. SelectiveTypeOK'
    BY <1>1, <2>1, <2>2 DEF SelectiveTypeOK
  <2>4. ASSUME NEW e \in Executor PROVE Part(e)'
    <3>1. Part(e) /\ StartedBy(e)' = StartedBy(e)
      BY <2>1 DEF StartedBy
    <3> QED  BY <2>2, <3>1 DEF Part, Unsent, Open, Allowed, Once, Ended
  <2> QED  BY <2>3, <2>4
<1>3. ASSUME NEW e \in Executor
      PROVE  selective[e] \in Selective /\ Part(e)
  BY DEF SelectiveTypeOK
<1>4. seen \in Snapshot
  BY <1>1 DEF RunTypeOK
<1>5. ASSUME NEW e \in Executor, LookAtRun(e) PROVE SelectiveInv'
  <2> DEFINE s == [selective[e] EXCEPT !.step = "jobs", !.run = seen]
  <2>1. s \in Selective /\ s.step = "jobs" /\ s.triggered = selective[e].triggered
    BY <1>3, <1>4, <1>5 DEF Selective
  <2>2. ~Ended(e) /\ Become(e, s)
    BY <1>5 DEF LookAtRun, Ended
  <2> HIDE DEF s, SelectiveInv
  <2> QED  BY <1>3, <2>1, <2>2, BecomeStep DEF SelectiveInv
<1>6. ASSUME NEW e \in Executor, LookAtJobs(e) PROVE SelectiveInv'
  <2> DEFINE s == [selective[e] EXCEPT !.step = "plan", !.jobs = seen]
  <2>1. s \in Selective /\ s.step = "plan" /\ s.triggered = selective[e].triggered
    BY <1>3, <1>4, <1>6 DEF Selective
  <2>2. ~Ended(e) /\ Become(e, s)
    BY <1>6 DEF LookAtJobs, Ended
  <2> QED  BY <1>3, <2>1, <2>2, BecomeStep
<1>7. ASSUME NEW e \in Executor, NEW safe \in SUBSET Job, NEW sideEffect \in BOOLEAN,
             Plan(e, safe, sideEffect)
      PROVE  SelectiveInv'
  <2> DEFINE s == [selective[e] EXCEPT !.step = IF safe = {} THEN "done" ELSE "run",
                                       !.safe = safe]
  <2>1. /\ s \in Selective /\ s.triggered = selective[e].triggered
        /\ s.safe = safe /\ s.run = selective[e].run
        /\ s.step = IF safe = {} THEN "done" ELSE "run"
    BY <1>3, <1>7 DEF Selective
  <2>2. ~Ended(e) /\ Become(e, s)
    BY <1>7 DEF Plan, Ended
  <2>3. safe # {} => selective[e].run.attempt < MaxTries
    <3>1. selective[e].run.attempt \in Nat
      BY <1>3 DEF Selective, Snapshot
    <3> QED  BY <1>7, <3>1, TriesAssumption DEF Plan, Eligible
  <2> HIDE DEF s
  <2> QED  BY <2>1, <2>2, <2>3, BecomeStep
<1>8. ASSUME NEW e \in Executor, LookAgainAtRun(e) PROVE SelectiveInv'
  <2> DEFINE again == seen.attempt = selective[e].run.attempt
             s == [selective[e] EXCEPT !.step = IF again THEN "job" ELSE "done"]
  <2>1. /\ s \in Selective /\ s.triggered = selective[e].triggered
        /\ s.safe = selective[e].safe /\ s.run = selective[e].run
        /\ s.step \in {"job", "done"}
    BY <1>3 DEF Selective
  <2>2. ~Ended(e) /\ Become(e, s)
    BY <1>8 DEF LookAgainAtRun, Ended
  <2>3. selective[e].run.attempt < MaxTries /\ selective[e].safe # {}
    BY <1>3, <1>8 DEF Part, Allowed, LookAgainAtRun
  <2> HIDE DEF s
  <2> QED  BY <2>1, <2>2, <2>3, BecomeStep
<1>9. ASSUME NEW e \in Executor, LookAgainAtJob(e) PROVE SelectiveInv'
  <2> DEFINE s == [selective[e] EXCEPT !.step = "post"]
  <2>1. /\ s \in Selective /\ s.triggered = selective[e].triggered /\ s.step = "post"
        /\ s.safe = selective[e].safe
        /\ s.run = selective[e].run
    BY <1>3, <1>9 DEF Selective
  <2>2. ~Ended(e) /\ Become(e, s)
    BY <1>9 DEF LookAgainAtJob, Ended
  <2>3. selective[e].run.attempt < MaxTries /\ selective[e].safe # {}
    BY <1>3, <1>9 DEF Part, Allowed, LookAgainAtJob
  <2> QED  BY <1>3, <2>1, <2>2, <2>3, BecomeStep
<1>10. ASSUME NEW e \in Executor, Differs(e) \/ BeRefused(e) PROVE SelectiveInv'
  <2> DEFINE s == [selective[e] EXCEPT !.step = "done"]
  <2>1. /\ s \in Selective /\ s.triggered = selective[e].triggered /\ s.step = "done"
    BY <1>3, <1>10 DEF Selective
  <2>2. ~Ended(e) /\ Become(e, s)
    BY <1>10 DEF Differs, BeRefused, Ended
  <2> QED  BY <2>1, <2>2, BecomeStep
<1>11. ASSUME NEW e \in Executor, PostAccepted(e) PROVE SelectiveInv'
  <2> DEFINE s == Triggered(e)
  <2>1. /\ selective[e].step = "post" /\ AcceptRerun(e) /\ unanswered' = unanswered
        /\ selective' = [selective EXCEPT ![e] = s]
    BY <1>11 DEF PostAccepted
  <2>2. /\ selective[e].run.attempt < MaxTries /\ selective[e].safe # {}
        /\ e \notin unanswered /\ StartedBy(e) = {}
    BY <1>3, <2>1 DEF Part, Allowed, Unsent, Ended
  <2>3. Target(e) \in Job
    BY <1>1, <2>2, TargetIsSafe
  <2>4. /\ s \in Selective /\ s.step = "done" /\ s.triggered = {Target(e)}
        /\ s.run = selective[e].run
    BY <1>3, <2>3 DEF Triggered, Selective
  <2>5. PICK a \in 1 .. LastRun :
          /\ StartedBy(e)' = StartedBy(e) \cup {a}
          /\ \A f \in Executor \ {e} : StartedBy(f)' = StartedBy(f)
    BY <1>1, <2>1, AcceptStep
  <2>6. RunTypeOK'
    BY <1>1, <2>1, AcceptStep
  <2>7. /\ selective' \in [Executor -> Selective] /\ selective'[e] = s
        /\ \A f \in Executor \ {e} : Part(f)'
    BY <2>1, <2>4, <2>5, OthersKeep
  <2>8. SelectiveTypeOK'
    BY <1>1, <2>1, <2>6, <2>7 DEF SelectiveTypeOK
  <2>9. Part(e)'
    BY <2>1, <2>2, <2>4, <2>5, <2>7 DEF Part, Unsent, Open, Allowed, Once, Ended
  <2> QED  BY <2>7, <2>8, <2>9
<1>12. ASSUME NEW e \in Executor, NEW escaped \in BOOLEAN, Unanswered(e, escaped)
       PROVE  SelectiveInv'
  <2> DEFINE s == [selective[e] EXCEPT !.step = IF escaped THEN "escaped" ELSE "done"]
  <2>1. /\ selective[e].step = "post" /\ unanswered' = unanswered \cup {e}
        /\ selective' = [selective EXCEPT ![e] = s] /\ UNCHANGED runVars
    BY <1>12 DEF Unanswered, SelectiveTypeOK
  <2>2. /\ selective[e].run.attempt < MaxTries /\ StartedBy(e) = {}
        /\ selective[e].triggered = {}
    BY <1>3, <2>1 DEF Part, Allowed, Unsent, Ended
  <2>3. /\ s \in Selective /\ s.step = IF escaped THEN "escaped" ELSE "done"
        /\ s.triggered = selective[e].triggered
        /\ s.run = selective[e].run
    BY <1>3 DEF Selective
  <2>4. \A f \in Executor : StartedBy(f)' = StartedBy(f)
    BY <2>1 DEF StartedBy, runVars
  <2>5. /\ selective' \in [Executor -> Selective] /\ selective'[e] = s
        /\ \A f \in Executor \ {e} : Part(f)'
    BY <2>1, <2>3, <2>4, OthersKeep
  <2>6. SelectiveTypeOK'
    BY <1>1, <2>1, <2>5 DEF SelectiveTypeOK, RunTypeOK, runVars
  <2>7. Part(e)'
    BY <2>1, <2>2, <2>3, <2>4, <2>5 DEF Part, Unsent, Open, Allowed, Once, Ended
  <2> QED  BY <2>5, <2>6, <2>7
<1>13. ASSUME NEW e \in Executor, Arrives(e) PROVE SelectiveInv'
  <2>1. /\ e \in unanswered /\ unanswered' = unanswered \ {e} /\ AcceptRerun(e)
        /\ selective' = [selective EXCEPT ![e] = selective[e]]
    BY <1>13 DEF Arrives, SelectiveTypeOK
  <2>2. /\ Ended(e) /\ selective[e].run.attempt < MaxTries
        /\ StartedBy(e) = {}
    BY <1>3, <2>1 DEF Part, Allowed, Unsent, Open
  <2>3. PICK a \in 1 .. LastRun :
          /\ StartedBy(e)' = StartedBy(e) \cup {a}
          /\ \A f \in Executor \ {e} : StartedBy(f)' = StartedBy(f)
    BY <1>1, <2>1, AcceptStep
  <2>4. RunTypeOK'
    BY <1>1, <2>1, AcceptStep
  <2>5. /\ selective' \in [Executor -> Selective] /\ selective'[e] = selective[e]
        /\ \A f \in Executor \ {e} : Part(f)'
    BY <1>3, <2>1, <2>3, OthersKeep
  <2>6. SelectiveTypeOK'
    BY <1>1, <2>1, <2>4, <2>5 DEF SelectiveTypeOK
  <2>7. Part(e)'
    BY <1>3, <2>1, <2>2, <2>3, <2>5 DEF Part, Unsent, Open, Allowed, Once, Ended
  <2> QED  BY <2>5, <2>6, <2>7
<1> HIDE DEF SelectiveInv
<1> QED  BY <1>2, <1>5, <1>6, <1>7, <1>8, <1>9, <1>10, <1>11, <1>12, <1>13
         DEF SelectiveNext

LEMMA SelectiveHolds == SelectiveSpec => []SelectiveInv
BY SelectiveStart, SelectiveSteps, PTL DEF SelectiveSpec

\* Selective rerun has its types, for any number of executions, attempts and
\* jobs (execute_selective_epoch).
THEOREM SelectiveTyping == SelectiveSpec => []SelectiveTypeOK
<1>1. SelectiveInv => SelectiveTypeOK
  BY DEF SelectiveInv
<1> QED  BY <1>1, SelectiveHolds, PTL

\* A set with at most one member has at most one member.
LEMMA AtMostOne ==
  ASSUME NEW S, \A x, y \in S : x = y
  PROVE  /\ IsFiniteSet(S) /\ Cardinality(S) \in {0, 1}
         /\ S = {} <=> Cardinality(S) = 0
<1>1. CASE S = {}
  BY <1>1, FS_EmptySet
<1>2. CASE S # {}
  <2>1. PICK x \in S : S = {x}
    BY <1>2
  <2>2. IsFiniteSet({x}) /\ Cardinality({x}) = 1
    BY FS_Singleton
  <2> QED  BY <1>2, <2>1, <2>2
<1> QED  BY <1>1, <1>2

\* Whatever becomes of its request, an execution of selective_rerun.py starts at
\* most one attempt, below max-attempts, and what it counts as rerun took place:
\* for any number of executions, attempts, jobs and foreign reruns.
THEOREM OneRerun == SelectiveSpec => []OneRerunPerEpoch
<1>1. ASSUME SelectiveInv, NEW e \in Executor
      PROVE  /\ Cardinality(selective[e].triggered) \leq Cardinality(StartedBy(e))
             /\ Cardinality(StartedBy(e)) \leq 1
             /\ StartedBy(e) # {} => selective[e].run.attempt < MaxTries
  <2> DEFINE T == selective[e].triggered
             A == StartedBy(e)
  <2>1. /\ \A a, b \in A : a = b
        /\ \A j, k \in T : j = k
        /\ T # {} => A # {}
        /\ A # {} => selective[e].run.attempt < MaxTries
    BY <1>1 DEF SelectiveInv, Part, Once, Allowed
  <2> HIDE DEF T, A
  <2>2. /\ Cardinality(A) \in {0, 1} /\ (A = {} <=> Cardinality(A) = 0)
        /\ Cardinality(T) \in {0, 1} /\ (T = {} <=> Cardinality(T) = 0)
    BY <2>1, AtMostOne
  <2>3. Cardinality(T) \leq Cardinality(A) /\ Cardinality(A) \leq 1
    BY <2>1, <2>2
  <2> QED  BY <2>1, <2>3 DEF T, A
<1>2. SelectiveInv => OneRerunPerEpoch
  BY <1>1 DEF OneRerunPerEpoch
<1> QED  BY <1>2, SelectiveHolds, PTL

-------------------------------------------------------------------------------
(* RerunHistory: the runs.                                                    *)

\* A run while there are t attempts: a later attempt lists of a job what an
\* earlier one does, or an execution that started after that.
Chronicle(p, t) ==
  /\ p \in Seq([PastJob -> Execution]) /\ p # <<>>
  /\ Len(p) \leq t
  /\ \A a \in DOMAIN p, j \in PastJob : p[a][j].start \leq t
  /\ \A a, b \in DOMAIN p, j \in PastJob :
       a < b => p[a][j] = p[b][j] \/ p[a][j].start < p[b][j].start

PastInv ==
  /\ past \in Seq(Seq([PastJob -> Execution]))
  /\ Len(past) \leq LastPast
  /\ IsFiniteSet(PastAttempts) /\ Ticks \leq LastTick
  /\ \A r \in DOMAIN past : Chronicle(past[r], Ticks)

LEMMA ExecutionTyped ==
  ASSUME NEW p \in Seq([PastJob -> Execution])
  PROVE  /\ Len(p) \in Nat /\ DOMAIN p = 1 .. Len(p)
         /\ \A a \in DOMAIN p : a \in Nat
         /\ \A a \in DOMAIN p, j \in PastJob :
              /\ p[a][j] \in Execution /\ p[a][j].start \in Nat /\ p[a][j].ending \in Ending
BY DEF Execution, Tick

LEMMA Appended ==
  ASSUME NEW S, NEW s \in Seq(S), NEW e \in S
  PROVE  /\ Append(s, e) \in Seq(S) /\ DOMAIN s = 1 .. Len(s) /\ Len(s) \in Nat
         /\ Len(Append(s, e)) = Len(s) + 1 /\ DOMAIN Append(s, e) = 1 .. (Len(s) + 1)
         /\ \A i \in 1 .. Len(s) : Append(s, e)[i] = s[i]
         /\ Append(s, e)[Len(s) + 1] = e
OBVIOUS

LEMMA ChronicleGrows ==
  ASSUME NEW t \in Nat, NEW p, Chronicle(p, t), NEW e \in [PastJob -> Execution],
         \A j \in PastJob : e[j] = p[Len(p)][j] \/ e[j].start = t + 1
  PROVE  Chronicle(Append(p, e), t + 1)
<1> DEFINE q == Append(p, e)
           n == Len(p)
<1>1. p \in Seq([PastJob -> Execution]) /\ p # <<>> /\ n \leq t
  BY DEF Chronicle
<1>2. /\ n \in Nat /\ n > 0 /\ DOMAIN p = 1 .. n
      /\ \A a \in DOMAIN p, j \in PastJob : p[a][j].start \in Nat
  BY <1>1, ExecutionTyped
<1>3. /\ q \in Seq([PastJob -> Execution]) /\ q # <<>> /\ Len(q) = n + 1
      /\ DOMAIN q = 1 .. (n + 1)
      /\ \A a \in 1 .. n : q[a] = p[a]
      /\ q[n + 1] = e
  BY <1>1
<1>4. n \in DOMAIN p
  BY <1>2
<1> HIDE DEF q, n
<1>5. ASSUME NEW j \in PastJob
      PROVE  /\ \A a \in 1 .. n : p[a][j].start \leq t
             /\ e[j] = p[n][j] \/ e[j].start = t + 1
  BY <1>2 DEF Chronicle, n
<1>6. ASSUME NEW a \in DOMAIN q, NEW j \in PastJob PROVE q[a][j].start \leq t + 1
  <2>1. CASE a \in 1 .. n
    BY <1>2, <1>3, <1>5, <2>1
  <2>2. CASE a = n + 1
    BY <1>2, <1>3, <1>4, <1>5, <2>2
  <2> QED
    BY <1>2, <1>3, <2>1, <2>2
<1>7. ASSUME NEW a \in DOMAIN q, NEW b \in DOMAIN q, NEW j \in PastJob, a < b
      PROVE  q[a][j] = q[b][j] \/ q[a][j].start < q[b][j].start
  <2>1. a \in 1 .. n /\ a \in DOMAIN p /\ q[a] = p[a]
    BY <1>2, <1>3, <1>7
  <2>2. CASE b \in 1 .. n
    BY <1>2, <1>3, <1>7, <2>1, <2>2 DEF Chronicle
  <2>3. CASE b = n + 1 /\ e[j].start = t + 1
    BY <1>2, <1>3, <1>5, <2>1, <2>3
  <2>4. CASE b = n + 1 /\ e[j] = p[n][j]
    <3>1. p[a][j] = p[n][j] \/ p[a][j].start < p[n][j].start
      <4>1. a = n \/ a < n
        BY <1>2, <2>1
      <4> QED
        BY <1>4, <2>1, <4>1 DEF Chronicle
    <3> QED
      BY <1>3, <2>1, <2>4, <3>1
  <2> QED
    BY <1>2, <1>3, <1>5, <2>2, <2>3, <2>4
<1>8. Len(q) \leq t + 1
  BY <1>1, <1>2, <1>3
<1> QED
  BY <1>3, <1>6, <1>7, <1>8 DEF Chronicle, q

LEMMA ChronicleLater ==
  ASSUME NEW t \in Nat, NEW p, Chronicle(p, t)
  PROVE  Chronicle(p, t + 1)
<1>1. p \in Seq([PastJob -> Execution])
  BY DEF Chronicle
<1>2. Len(p) \in Nat /\ \A a \in DOMAIN p, j \in PastJob : p[a][j].start \in Nat
  BY <1>1, ExecutionTyped
<1>3. Len(p) \leq t + 1 /\ \A a \in DOMAIN p, j \in PastJob : p[a][j].start \leq t + 1
  BY <1>2 DEF Chronicle
<1> QED
  BY <1>3 DEF Chronicle

\* A step of the runs: there is one more attempt, of one run.
RunGrows(r) ==
  /\ past' \in Seq(Seq([PastJob -> Execution])) /\ DOMAIN past \subseteq DOMAIN past'
  /\ DOMAIN past' = DOMAIN past \cup {r} /\ Len(past') \leq LastPast
  /\ \A q \in DOMAIN past : q # r => past'[q] = past[q]
  /\ r \in DOMAIN past => DOMAIN past'[r] = DOMAIN past[r] \cup {Len(past[r]) + 1}
  /\ r \notin DOMAIN past => DOMAIN past'[r] = {1}

LEMMA OneMoreAttempt ==
  ASSUME PastInv, NEW r, RunGrows(r), Ticks < LastTick
  PROVE  /\ IsFiniteSet(PastAttempts)' /\ Ticks' = Ticks + 1 /\ Ticks' \leq LastTick
         /\ Ticks \in Nat
<1> DEFINE a == IF r \in DOMAIN past THEN Len(past[r]) + 1 ELSE 1
<1>0. past \in Seq(Seq([PastJob -> Execution])) /\ IsFiniteSet(PastAttempts)
  BY DEF PastInv
<1>1. r \in DOMAIN past => a \notin DOMAIN past[r]
  <2>1. r \in DOMAIN past => past[r] \in Seq([PastJob -> Execution])
    BY <1>0
  <2> QED
    BY <2>1
<1>2. \A q, b : <<q, b>> \in PastAttempts <=> q \in DOMAIN past /\ b \in DOMAIN past[q]
  BY DEF PastAttempts
<1>3. \A q, b : <<q, b>> \in PastAttempts' <=> q \in DOMAIN past' /\ b \in DOMAIN past'[q]
  BY DEF PastAttempts
<1>4. \A x : x \in PastAttempts => x = <<x[1], x[2]>>
  BY DEF PastAttempts
<1>5. \A x : x \in PastAttempts' => x = <<x[1], x[2]>>
  BY DEF PastAttempts
<1>6. <<r, a>> \notin PastAttempts
  BY <1>1, <1>2
<1>7. \A q, b : <<q, b>> \in PastAttempts' <=> <<q, b>> \in PastAttempts \/ (q = r /\ b = a)
  BY <1>2, <1>3 DEF RunGrows
<1> HIDE DEF a
<1>8. PastAttempts' = PastAttempts \cup {<<r, a>>}
  BY <1>4, <1>5, <1>7
<1>9. /\ IsFiniteSet(PastAttempts \cup {<<r, a>>})
      /\ Cardinality(PastAttempts \cup {<<r, a>>}) = Cardinality(PastAttempts) + 1
  BY <1>0, <1>6, FS_AddElement
<1>10. Ticks \in Nat
  BY <1>0, FS_CardinalityType DEF Ticks
<1>11. IsFiniteSet(PastAttempts)' /\ Ticks' = Ticks + 1
  BY <1>8, <1>9 DEF Ticks
<1> QED
  BY <1>10, <1>11, RerunAssumption

LEMMA RunsGrow ==
  ASSUME PastInv, RerunNext, past' # past
  PROVE  /\ PastInv' /\ UNCHANGED study /\ study.step \in {"none", "listed"}
         /\ \E q : RunGrows(q)
<1>0. /\ past \in Seq(Seq([PastJob -> Execution])) /\ Len(past) \leq LastPast
      /\ DOMAIN past = 1 .. Len(past) /\ Len(past) \in Nat
      /\ \A r \in DOMAIN past :
           Chronicle(past[r], Ticks) /\ past[r] \in Seq([PastJob -> Execution])
  BY DEF PastInv
<1>1. IsFiniteSet(PastAttempts) /\ Ticks \in Nat
  BY FS_CardinalityType DEF PastInv, Ticks
<1>2. ASSUME NEW r, RunGrows(r), Ticks < LastTick, past' \in Seq(Seq([PastJob -> Execution])),
             Chronicle(past'[r], Ticks + 1)
      PROVE  PastInv'
  <2>1. IsFiniteSet(PastAttempts)' /\ Ticks' = Ticks + 1 /\ Ticks' \leq LastTick
    BY <1>2, OneMoreAttempt
  <2>2. ASSUME NEW q \in DOMAIN past' PROVE Chronicle(past'[q], Ticks + 1)
    <3>1. CASE q = r
      BY <1>2, <3>1
    <3>2. CASE q # r
      <4>1. q \in DOMAIN past /\ past'[q] = past[q]
        BY <1>2, <3>2 DEF RunGrows
      <4> QED
        BY <1>0, <1>1, <4>1, ChronicleLater
    <3> QED
      BY <3>1, <3>2
  <2>3. Len(past') \leq LastPast
    BY <1>2 DEF RunGrows
  <2>4. \A q \in DOMAIN past' : Chronicle(past'[q], Ticks')
    BY <2>1, <2>2
  <2> QED
    BY <1>2, <2>1, <2>3, <2>4 DEF PastInv
<1>3. ASSUME NEW t \in Nat, t < LastTick PROVE t + 1 \in Tick
  BY <1>3, RerunAssumption DEF Tick
<1>4. ASSUME NEW endings \in Fresh, NewRun(endings)
      PROVE  /\ PastInv' /\ UNCHANGED study /\ study.step \in {"none", "listed"}
             /\ \E q : RunGrows(q)
  <2> DEFINE e == [j \in PastJob |-> [start |-> Ticks + 1, ending |-> endings[j]]]
             r == Len(past) + 1
  <2>1. /\ past' = Append(past, <<e>>) /\ UNCHANGED study /\ study.step \in {"none", "listed"}
        /\ Ticks < LastTick /\ Len(past) < LastPast
    BY <1>4 DEF NewRun, Watching
  <2>2. e \in [PastJob -> Execution]
    BY <1>1, <1>3, <1>4, <2>1 DEF Execution, Fresh
  <2>3. \A j \in PastJob : e[j].start = Ticks + 1
    OBVIOUS
  <2> HIDE DEF e
  <2>4. /\ <<e>> \in Seq([PastJob -> Execution]) /\ Len(<<e>>) = 1
        /\ DOMAIN <<e>> = {1} /\ <<e>>[1] = e
    BY <2>2
  <2> DEFINE p == <<e>>
  <2> HIDE DEF p
  <2>5. /\ p \in Seq([PastJob -> Execution]) /\ Len(p) = 1 /\ DOMAIN p = {1} /\ p[1] = e
        /\ past' = Append(past, p)
    BY <2>1, <2>4 DEF p
  <2>6. /\ past' \in Seq(Seq([PastJob -> Execution])) /\ past'[r] = p
        /\ DOMAIN past' = 1 .. r /\ Len(past') = r
        /\ \A q \in DOMAIN past : past'[q] = past[q]
    <3> DEFINE S == Seq([PastJob -> Execution])
    <3>1. past \in Seq(S) /\ p \in S /\ past' = Append(past, p)
      BY <1>0, <2>5
    <3> HIDE DEF S
    <3>2. /\ Append(past, p) \in Seq(S) /\ Len(Append(past, p)) = Len(past) + 1
          /\ DOMAIN Append(past, p) = 1 .. (Len(past) + 1)
          /\ Append(past, p)[Len(past) + 1] = p
          /\ DOMAIN past = 1 .. Len(past)
          /\ \A q \in 1 .. Len(past) : Append(past, p)[q] = past[q]
      BY <3>1, Appended
    <3> QED
      BY <3>1, <3>2, ZenonT(40) DEF S
  <2>7. DOMAIN past' = DOMAIN past \cup {r} /\ r \notin DOMAIN past
    BY <1>0, <2>6, SMTT(40)
  <2>8. Len(past') \leq LastPast
    <3>1. Len(past) \in Nat /\ Len(past) < LastPast /\ Len(past') = Len(past) + 1
      BY <1>0, <2>1, <2>6
    <3> QED
      BY <3>1, RerunAssumption
  <2>9. RunGrows(r)
    BY <2>5, <2>6, <2>7, <2>8 DEF RunGrows
  <2>10. Chronicle(p, Ticks + 1)
    <3>1. p # <<>> /\ Len(p) \leq Ticks + 1
      BY <1>1, <2>5
    <3>2. \A a \in DOMAIN p, j \in PastJob : p[a][j].start \leq Ticks + 1
      BY <1>1, <2>3, <2>5
    <3>3. \A a, b \in DOMAIN p : ~(a < b)
      BY <2>5
    <3> QED
      BY <2>5, <3>1, <3>2, <3>3 DEF Chronicle
  <2> QED
    BY <1>2, <2>1, <2>6, <2>9, <2>10
<1>5. ASSUME NEW endings \in Fresh, NEW r \in PastRun, NEW again \in SUBSET PastJob,
             Rerun(r, again, endings)
      PROVE  /\ PastInv' /\ UNCHANGED study /\ study.step \in {"none", "listed"}
             /\ \E q : RunGrows(q)
  <2> DEFINE p == past[r]
             last == p[Len(p)]
             e == Listing(last, again, endings, Ticks + 1)
  <2>1. /\ past' = [past EXCEPT ![r] = Append(p, e)] /\ UNCHANGED study
        /\ study.step \in {"none", "listed"} /\ Ticks < LastTick /\ r \in DOMAIN past
    BY <1>5 DEF Rerun, Watching
  <2>2. Chronicle(p, Ticks) /\ p \in Seq([PastJob -> Execution])
    BY <1>0, <2>1
  <2> HIDE DEF p
  <2>3. Len(p) \in DOMAIN p
    BY <2>2 DEF Chronicle
  <2>4. last \in [PastJob -> Execution]
    BY <2>2, <2>3
  <2> HIDE DEF last
  <2>5. e \in [PastJob -> Execution]
    BY <1>1, <1>3, <1>5, <2>1, <2>4 DEF Listing, Execution, Fresh
  <2>6. \A j \in PastJob : e[j] = last[j] \/ e[j].start = Ticks + 1
    BY DEF Listing
  <2> HIDE DEF e
  <2>7. Chronicle(Append(p, e), Ticks + 1)
    BY <1>1, <2>2, <2>5, <2>6, ChronicleGrows DEF last
  <2>8. /\ Append(p, e) \in Seq([PastJob -> Execution])
        /\ DOMAIN Append(p, e) = DOMAIN p \cup {Len(p) + 1}
    BY <2>2, <2>5
  <2>9. /\ past' \in Seq(Seq([PastJob -> Execution])) /\ past'[r] = Append(p, e)
        /\ DOMAIN past' = DOMAIN past /\ Len(past') = Len(past)
        /\ \A q \in DOMAIN past : q # r => past'[q] = past[q]
    BY <1>0, <2>1, <2>8
  <2>10. RunGrows(r)
    BY <1>0, <2>1, <2>8, <2>9 DEF RunGrows, p
  <2> QED
    BY <1>2, <2>1, <2>7, <2>9, <2>10
<1>6. \A c : ListPast(c) => UNCHANGED past
  BY DEF ListPast
<1>7. \A u, l, n : ReadPast(u, l, n) => UNCHANGED past
  BY DEF ReadPast
<1> QED
  BY <1>4, <1>5, <1>6, <1>7 DEF RerunNext

-------------------------------------------------------------------------------
(* RerunHistory: the study.                                                   *)

Sampled(f) ==
  f.truth \in {"VALIDATED_RECOVERY", "NOT_RECOVERED"} =>
    /\ past[f.run][f.attempt][f.job].ending \in FailureEnding
    /\ ReallyEnded(f.run, f.attempt, f.job,
                   IF f.truth = "VALIDATED_RECOVERY" THEN {"passed"} ELSE Ending)
Reliable(x) ==
  past[x[1]][1][x[2]].ending \in FailureEnding /\ ReallyEnded(x[1], 1, x[2], SuccessEnding)

\* A listed failure is one sample.
Studied ==
  /\ study.samples \subseteq Sample /\ study.verified \subseteq PastRun \X PastJob
  /\ \A f, g \in study.samples :
       f.run = g.run /\ f.attempt = g.attempt /\ f.job = g.job => f = g
  /\ \A f \in study.samples : Sampled(f)
  /\ \A x \in study.verified : Reliable(x)

StudyInv ==
  /\ DOMAIN study = DOMAIN NoStudy
  /\ study.step \in {"none", "listed", "done"}
  /\ study.step # "none" =>
       /\ study.current \in DOMAIN study.attempts
       /\ DOMAIN study.attempts \subseteq DOMAIN past
       /\ \A r \in DOMAIN study.attempts : study.attempts[r] \in DOMAIN past[r]
  /\ IF study.step = "done" THEN Studied ELSE study.samples = {} /\ study.verified = {}

RerunInv == PastInv /\ StudyInv

LEMMA FirstOfAll ==
  ASSUME NEW S, S \subseteq Nat, S # {}
  PROVE  FirstOf(S) \in S
<1>1. PICK m \in S : \A n \in S : <<n, m>> \notin OpToRel(<, Nat)
  BY NatLessThanWellFounded, WFMin
<1>2. ASSUME NEW n \in S PROVE m \leq n
  <2>1. n \in Nat /\ m \in Nat /\ <<n, m>> \in Nat \X Nat
    OBVIOUS
  <2>2. ~(n < m)
    BY <1>1, <2>1 DEF OpToRel
  <2> QED
    BY <2>1, <2>2
<1> QED
  BY <1>2 DEF FirstOf

LEMMA RunTyped ==
  ASSUME PastInv, NEW r \in DOMAIN past
  PROVE  /\ Chronicle(past[r], Ticks) /\ past[r] \in Seq([PastJob -> Execution])
         /\ Len(past[r]) \in Nat /\ DOMAIN past[r] = 1 .. Len(past[r])
         /\ Len(past[r]) \in DOMAIN past[r] /\ 1 \in DOMAIN past[r]
         /\ DOMAIN past[r] \subseteq Tick /\ r \in PastRun
         /\ \A a \in DOMAIN past[r] : past[r][a] \in [PastJob -> Execution]
<1>1. /\ past \in Seq(Seq([PastJob -> Execution])) /\ Len(past) \leq LastPast
      /\ Chronicle(past[r], Ticks) /\ IsFiniteSet(PastAttempts) /\ Ticks \leq LastTick
  BY DEF PastInv
<1>2. Ticks \in Nat
  BY <1>1, FS_CardinalityType DEF Ticks
<1>3. r \in 1 .. Len(past) /\ Len(past) \in Nat
  BY <1>1
<1>4. r \in PastRun
  BY <1>1, <1>3, RerunAssumption DEF PastRun
<1> DEFINE p == past[r]
<1>5. p \in Seq([PastJob -> Execution]) /\ p # <<>> /\ Len(p) \leq Ticks
  BY <1>1 DEF Chronicle
<1> HIDE DEF p
<1>6. /\ Len(p) \in Nat /\ DOMAIN p = 1 .. Len(p) /\ Len(p) > 0
      /\ \A a \in DOMAIN p : p[a] \in [PastJob -> Execution]
  BY <1>5
<1>7. Len(p) \in DOMAIN p /\ 1 \in DOMAIN p
  BY <1>6
<1>8. DOMAIN p \subseteq Tick
  BY <1>1, <1>2, <1>5, <1>6, RerunAssumption DEF Tick
<1> QED
  BY <1>1, <1>4, <1>5, <1>6, <1>7, <1>8 DEF p

\* What a later attempt lists of a job differs from an earlier one only if the
\* job was executed in between.
LEMMA Reexecuted ==
  ASSUME PastInv, NEW r \in DOMAIN past, NEW a \in DOMAIN past[r], NEW b \in DOMAIN past[r],
         NEW j \in PastJob, a < b, past[r][a][j] # past[r][b][j]
  PROVE  ReallyEnded(r, a, j, {past[r][b][j].ending})
<1>1. /\ a \in Nat /\ b \in Nat
      /\ past[r][a][j].start \in Nat /\ past[r][b][j].start \in Nat
  BY RunTyped, ExecutionTyped
<1>2. past[r][a][j].start < past[r][b][j].start
  BY RunTyped DEF Chronicle
<1> QED
  BY <1>1, <1>2 DEF ReallyEnded

LEMMA MoreEndings ==
  ASSUME NEW r, NEW a, NEW j, NEW E, NEW F, E \subseteq F, ReallyEnded(r, a, j, E)
  PROVE  ReallyEnded(r, a, j, F)
BY DEF ReallyEnded

\* The jobs of an attempt are those of a later one at most if it was the last.
LEMMA JobsOf ==
  ASSUME PastInv, NEW r \in DOMAIN past, study.attempts[r] \in DOMAIN past[r],
         NEW unread, NEW lost, NEW a \in 1 .. study.attempts[r]
  PROVE  /\ a \in DOMAIN past[r]
         /\ \/ Jobs(r, a, unread, lost) = <<>>
            \/ \E b \in DOMAIN past[r] :
                 /\ Jobs(r, a, unread, lost) = past[r][b] /\ a \leq b
                 /\ a # study.attempts[r] => b = a
<1> DEFINE n == Len(past[r])
           k == study.attempts[r]
<1>1. n \in Nat /\ DOMAIN past[r] = 1 .. n /\ n \in DOMAIN past[r]
  BY RunTyped
<1>2. k \in 1 .. n
  BY <1>1
<1> HIDE DEF n, k
<1>3. a \in 1 .. n /\ a \leq n /\ a \leq a
  BY <1>1, <1>2 DEF k
<1> QED
  BY <1>1, <1>3 DEF Jobs, n, k

LEMMA TruthOf ==
  ASSUME PastInv, NEW r \in DOMAIN past, study.attempts[r] \in DOMAIN past[r],
         NEW unread, NEW lost, NEW jobs,
         jobs = [a \in 1 .. study.attempts[r] |-> Jobs(r, a, unread, lost)],
         NEW a, NEW j, <<a, j>> \in Failed(jobs),
         GroundTruth(jobs, a, j) \in {"VALIDATED_RECOVERY", "NOT_RECOVERED"}
  PROVE  /\ past[r][a][j].ending \in FailureEnding
         /\ ReallyEnded(r, a, j, IF GroundTruth(jobs, a, j) = "VALIDATED_RECOVERY"
                                 THEN {"passed"} ELSE Ending)
<1> DEFINE k == study.attempts[r]
<1>1. /\ DOMAIN jobs = 1 .. k /\ a \in 1 .. k /\ j \in PastJob /\ j \in DOMAIN jobs[a]
      /\ jobs[a][j].ending \in FailureEnding
  BY DEF Failed
<1>2. k \in Nat /\ Len(past[r]) \in Nat
  BY RunTyped
<1>3. PICK b \in Later(jobs, a, j) :
        GroundTruth(jobs, a, j) = "VALIDATED_RECOVERY" => jobs[b][j].ending = "passed"
  <2>1. CASE GroundTruth(jobs, a, j) = "NOT_RECOVERED"
    <3>1. Later(jobs, a, j) # {}
      BY <2>1 DEF GroundTruth
    <3> QED
      BY <2>1, <3>1
  <2>2. CASE GroundTruth(jobs, a, j) = "VALIDATED_RECOVERY"
    <3> DEFINE S == Successes(jobs, a, j)
    <3>1. S # {} /\ jobs[FirstOf(S)][j].ending = "passed"
      BY <2>2 DEF GroundTruth
    <3>2. S \subseteq Later(jobs, a, j) /\ S \subseteq Nat
      BY <1>1 DEF Successes, Later
    <3>3. FirstOf(S) \in S
      BY <3>1, <3>2, FirstOfAll
    <3> QED
      BY <3>1, <3>2, <3>3
  <2> QED
    BY <2>1, <2>2
<1>4. /\ b \in 1 .. k /\ b > a /\ j \in DOMAIN jobs[b]
      /\ jobs[b][j].start # jobs[a][j].start
  BY <1>1 DEF Later, Executed
<1>5. a # k /\ a \in Nat /\ b \in Nat
  BY <1>1, <1>2, <1>4
<1>6. DOMAIN <<>> = {}
  OBVIOUS
<1>7. jobs[a] = past[r][a] /\ a \in DOMAIN past[r]
  BY <1>1, <1>5, <1>6, JobsOf
<1>8. PICK c \in DOMAIN past[r] : jobs[b] = past[r][c] /\ b \leq c
  BY <1>4, <1>6, JobsOf
<1>9. a < c /\ past[r][a][j] # past[r][c][j]
  <2>1. c \in Nat
    BY RunTyped
  <2> QED
    BY <1>4, <1>5, <1>7, <1>8, <2>1
<1>10. ReallyEnded(r, a, j, {past[r][c][j].ending})
  BY <1>1, <1>7, <1>9, Reexecuted
<1>11. past[r][c][j].ending \in Ending
  BY <1>1, RunTyped DEF Execution
<1>12. GroundTruth(jobs, a, j) = "VALIDATED_RECOVERY" => past[r][c][j].ending = "passed"
  BY <1>3, <1>8
<1> QED
  BY <1>1, <1>7, <1>10, <1>11, <1>12, MoreEndings

LEMMA ReadingFinds ==
  ASSUME RerunInv, NEW unread, NEW lost, NEW n, ReadPast(unread, lost, n)
  PROVE  StudyInv'
<1>1. /\ PastInv /\ study.step = "listed" /\ DOMAIN study = DOMAIN NoStudy
      /\ study.current \in DOMAIN study.attempts
      /\ DOMAIN study.attempts \subseteq DOMAIN past
      /\ \A r \in DOMAIN study.attempts : study.attempts[r] \in DOMAIN past[r]
  BY DEF RerunInv, StudyInv, ReadPast
<1>2. /\ past' = past /\ DOMAIN study' = DOMAIN NoStudy /\ study'.step = "done"
      /\ study'.current = study.current /\ study'.attempts = study.attempts
      /\ study'.verified = Verified(n)
      /\ study'.samples = UNION {SamplesOf(r, Snapshots(r, unread, lost)) : r \in Others}
  BY <1>1 DEF ReadPast, NoStudy
<1>3. \A r \in Others : r \in DOMAIN past /\ study.attempts[r] \in DOMAIN past[r]
  BY <1>1 DEF Others
<1>4. ASSUME NEW f \in study'.samples
      PROVE  \E r \in Others : \E x \in Failed(Snapshots(r, unread, lost)) :
               /\ f = SampleOf(r, Snapshots(r, unread, lost), x)
               /\ x = <<x[1], x[2]>> /\ x[1] \in 1 .. study.attempts[r] /\ x[2] \in PastJob
  <2>1. PICK r \in Others : f \in SamplesOf(r, Snapshots(r, unread, lost))
    BY <1>2, <1>4
  <2> DEFINE jobs == Snapshots(r, unread, lost)
  <2>2. PICK x \in Failed(jobs) : f = SampleOf(r, jobs, x)
    BY <2>1 DEF SamplesOf
  <2>3. DOMAIN jobs = 1 .. study.attempts[r]
    BY DEF Snapshots
  <2>4. x = <<x[1], x[2]>> /\ x[1] \in 1 .. study.attempts[r] /\ x[2] \in PastJob
    BY <2>2, <2>3 DEF Failed
  <2> QED
    BY <2>2, <2>4
<1>5. ASSUME NEW f \in study'.samples PROVE f \in Sample /\ Sampled(f)
  <2>1. PICK r \in Others : \E x \in Failed(Snapshots(r, unread, lost)) :
          /\ f = SampleOf(r, Snapshots(r, unread, lost), x)
          /\ x = <<x[1], x[2]>> /\ x[1] \in 1 .. study.attempts[r] /\ x[2] \in PastJob
    BY <1>4, <1>5
  <2> DEFINE jobs == Snapshots(r, unread, lost)
  <2>2. PICK x \in Failed(jobs) :
          /\ f = SampleOf(r, jobs, x)
          /\ x = <<x[1], x[2]>> /\ x[1] \in 1 .. study.attempts[r] /\ x[2] \in PastJob
    BY <2>1
  <2> DEFINE a == x[1]
             j == x[2]
  <2>3. jobs = [b \in 1 .. study.attempts[r] |-> Jobs(r, b, unread, lost)]
        /\ <<a, j>> \in Failed(jobs)
    BY <2>2 DEF Snapshots
  <2> HIDE DEF jobs, a, j
  <2>4. /\ f.run = r /\ f.attempt = a /\ f.job = j /\ f.truth = GroundTruth(jobs, a, j)
        /\ f = [run |-> r, attempt |-> a, job |-> j, truth |-> GroundTruth(jobs, a, j)]
    BY <2>2 DEF SampleOf, a, j
  <2>5. r \in PastRun /\ a \in Tick /\ j \in PastJob
    <3>1. a \in DOMAIN past[r]
      BY <1>1, <1>3, <2>2, JobsOf DEF a
    <3> QED
      BY <1>1, <1>3, <2>2, <3>1, RunTyped DEF j
  <2>6. GroundTruth(jobs, a, j) \in Truths
    BY DEF GroundTruth, Truths
  <2>7. f \in Sample
    BY <2>4, <2>5, <2>6 DEF Sample
  <2>8. GroundTruth(jobs, a, j) \in {"VALIDATED_RECOVERY", "NOT_RECOVERED"} =>
          /\ past[r][a][j].ending \in FailureEnding
          /\ ReallyEnded(r, a, j, IF GroundTruth(jobs, a, j) = "VALIDATED_RECOVERY"
                                  THEN {"passed"} ELSE Ending)
    BY <1>1, <1>3, <2>3, TruthOf
  <2> QED
    BY <2>4, <2>7, <2>8 DEF Sampled
<1>6. ASSUME NEW f \in study'.samples, NEW g \in study'.samples,
             f.run = g.run, f.attempt = g.attempt, f.job = g.job
      PROVE  f = g
  <2>1. \A h \in study'.samples :
          /\ h = [run |-> h.run, attempt |-> h.attempt, job |-> h.job, truth |-> h.truth]
          /\ h.truth = GroundTruth(Snapshots(h.run, unread, lost), h.attempt, h.job)
    <3> SUFFICES ASSUME NEW h \in study'.samples
                 PROVE  /\ h = [run |-> h.run, attempt |-> h.attempt, job |-> h.job,
                                truth |-> h.truth]
                        /\ h.truth = GroundTruth(Snapshots(h.run, unread, lost), h.attempt,
                                                 h.job)
      OBVIOUS
    <3>1. PICK r \in Others : \E x \in Failed(Snapshots(r, unread, lost)) :
            h = SampleOf(r, Snapshots(r, unread, lost), x)
      BY <1>4
    <3>2. PICK x : h = SampleOf(r, Snapshots(r, unread, lost), x)
      BY <3>1
    <3> QED
      BY <3>2 DEF SampleOf
  <2> QED
    BY <1>6, <2>1
<1>7. ASSUME NEW x \in study'.verified PROVE x \in PastRun \X PastJob /\ Reliable(x)
  <2>1. /\ x \in Candidates(n) \X PastJob
        /\ x[2] \in RecoveredLater(past[x[1]][1], past[x[1]][study.attempts[x[1]]])
    BY <1>2, <1>7 DEF Verified
  <2> DEFINE r == x[1]
             j == x[2]
             b == study.attempts[r]
  <2>2. x = <<r, j>> /\ r \in Others /\ b > 1 /\ j \in PastJob
    BY <2>1 DEF Candidates
  <2>3. /\ past[r][1][j].ending \in FailureEnding /\ past[r][b][j].ending \in SuccessEnding
    BY <2>1 DEF RecoveredLater
  <2> HIDE DEF r, j, b
  <2>4. r \in DOMAIN past /\ b \in DOMAIN past[r] /\ 1 \in DOMAIN past[r] /\ r \in PastRun
    BY <1>1, <1>3, <2>2, RunTyped DEF b
  <2>5. b \in Nat
    BY <1>1, <2>4, RunTyped
  <2>6. past[r][1][j] # past[r][b][j]
    BY <2>3 DEF FailureEnding, SuccessEnding
  <2>7. ReallyEnded(r, 1, j, {past[r][b][j].ending})
    BY <1>1, <2>2, <2>4, <2>5, <2>6, Reexecuted
  <2>8. ReallyEnded(r, 1, j, SuccessEnding)
    BY <2>3, <2>7, MoreEndings
  <2>9. x[1] = r /\ x[2] = j
    BY DEF r, j
  <2> QED
    BY <2>2, <2>3, <2>4, <2>8, <2>9, SMTT(40) DEF Reliable
<1>8. Studied'
  BY <1>2, <1>5, <1>6, <1>7 DEF Studied, Sampled, Reliable, ReallyEnded
<1> QED
  BY <1>1, <1>2, <1>8 DEF StudyInv

LEMMA RerunSteps == RerunInv /\ [RerunNext]_rerunVars => RerunInv'
<1> SUFFICES ASSUME RerunInv, [RerunNext]_rerunVars PROVE RerunInv'
  OBVIOUS
<1>1. CASE past' # past
  <2>1. RerunNext
    BY <1>1 DEF rerunVars
  <2>2. PastInv' /\ study' = study /\ study.step \in {"none", "listed"}
    BY <1>1, <2>1, RunsGrow DEF RerunInv
  <2>3. \A r \in DOMAIN past : r \in DOMAIN past' /\ DOMAIN past[r] \subseteq DOMAIN past'[r]
    <3>1. PICK q : RunGrows(q)
      BY <1>1, <2>1, RunsGrow DEF RerunInv
    <3> QED
      BY <3>1 DEF RunGrows
  <2>4. StudyInv'
    BY <2>2, <2>3 DEF RerunInv, StudyInv
  <2> QED
    BY <2>2, <2>4 DEF RerunInv
<1>2. CASE past' = past
  <2>1. PastInv'
    BY <1>2 DEF RerunInv, PastInv, PastAttempts, Ticks
  <2>2. CASE study' = study
    BY <1>2, <2>1, <2>2
       DEF RerunInv, StudyInv, Studied, Sampled, Reliable, ReallyEnded
  <2>3. ASSUME NEW c, ListPast(c) PROVE StudyInv'
    <3>1. /\ DOMAIN study' = DOMAIN NoStudy /\ study'.step = "listed" /\ study'.current = c
          /\ study'.attempts = [r \in DOMAIN past |-> Len(past[r])]
          /\ study'.samples = {} /\ study'.verified = {} /\ c \in DOMAIN past
      BY <2>3 DEF ListPast, NoStudy
    <3>2. \A r \in DOMAIN past : Len(past[r]) \in DOMAIN past[r]
      BY RunTyped DEF RerunInv
    <3> QED
      BY <1>2, <3>1, <3>2 DEF StudyInv
  <2>4. ASSUME NEW unread, NEW lost, NEW n, ReadPast(unread, lost, n) PROVE StudyInv'
    BY <2>4, ReadingFinds
  <2>5. study' # study => RerunNext
    BY <1>2 DEF rerunVars
  <2>6. ASSUME NEW e, NewRun(e) PROVE study' = study
    BY <2>6 DEF NewRun
  <2>7. ASSUME NEW e, NEW r, NEW again, Rerun(r, again, e) PROVE study' = study
    BY <2>7 DEF Rerun
  <2> QED
    BY <2>1, <2>2, <2>3, <2>4, <2>5, <2>6, <2>7 DEF RerunNext, RerunInv
<1> QED
  BY <1>1, <1>2

LEMMA RerunHolds == RerunSpec => []RerunInv
<1>1. RerunInit => RerunInv
  <2> SUFFICES ASSUME RerunInit PROVE RerunInv
    OBVIOUS
  <2>1. past = <<>> /\ study = NoStudy
    BY DEF RerunInit
  <2>2. past \in Seq(Seq([PastJob -> Execution])) /\ Len(past) = 0 /\ DOMAIN past = {}
    BY <2>1
  <2>3. PastAttempts = {}
    BY <2>2 DEF PastAttempts
  <2>4. IsFiniteSet(PastAttempts) /\ Ticks = 0
    BY <2>3, FS_EmptySet DEF Ticks
  <2>5. PastInv
    BY <2>2, <2>4, RerunAssumption DEF PastInv
  <2>6. StudyInv
    BY <2>1 DEF StudyInv, NoStudy
  <2> QED
    BY <2>5, <2>6 DEF RerunInv
<1> QED
  BY <1>1, RerunSteps, PTL DEF RerunSpec

\* What is said of the reruns in the history is said of executions, whatever
\* copies later attempts list, and whatever is run again, or cannot be read,
\* between the listing and the reading (recovery_ground_truth.py).
THEOREM RecoveriesWereRun == RerunSpec => []RecoveryIsRerun
<1>1. RerunInv => RecoveryIsRerun
  BY DEF RerunInv, StudyInv, Studied, Sampled, Reliable, RecoveryIsRerun
<1> QED
  BY <1>1, RerunHolds, PTL

\* The runs and the samples keep their types.
THEOREM RerunTyping == RerunSpec => []RerunTypeOK
<1>1. ASSUME RerunInv PROVE RerunTypeOK
  <2>1. \A r \in DOMAIN past : r \in PastRun /\ \A a \in DOMAIN past[r] :
          past[r][a] \in [PastJob -> Execution]
    BY <1>1, RunTyped DEF RerunInv
  <2> QED
    BY <1>1, <2>1 DEF RerunInv, StudyInv, Studied, RerunTypeOK
<1> QED
  BY <1>1, RerunHolds, PTL

\* Samples of one job, of first attempts, are as many as their runs.
LEMMA RunsOf ==
  ASSUME RerunInv, NEW f \in study.samples, NEW S \in SUBSET Samples(f)
  PROVE  LET runs == {s.run : s \in S}
         IN  /\ runs \subseteq 1 .. f.run - 1 /\ runs \subseteq PastRun
             /\ IsFiniteSet(S) /\ Cardinality(runs) = Cardinality(S)
<1> DEFINE runs == {s.run : s \in S}
           g == [s \in S |-> s.run]
<1>1. study.samples \subseteq Sample /\ Studied
  BY DEF RerunInv, StudyInv, Studied
<1>2. \A s \in S : /\ s \in study.samples /\ s \in Sample /\ s.job = f.job /\ s.attempt = 1
                   /\ s.run < f.run /\ s.run \in PastRun /\ s.run \in Nat /\ s.run > 0
  BY <1>1 DEF Samples, Sample, PastRun
<1>3. f.run \in Nat
  BY <1>1 DEF Sample, PastRun
<1>4. runs \subseteq 1 .. f.run - 1 /\ runs \subseteq PastRun
  BY <1>2, <1>3
<1>5. IsFiniteSet(runs)
  <2>1. IsFiniteSet(1 .. f.run - 1)
    BY <1>3, FS_Interval
  <2> QED
    BY <1>4, <2>1, FS_Subset
<1>6. g \in [S -> runs] /\ \A s \in S : g[s] = s.run
  OBVIOUS
<1>7. \A s, t \in S : g[s] = g[t] => s = t
  BY <1>1, <1>2, <1>6 DEF Studied
<1>8. \A r \in runs : \E s \in S : g[s] = r
  BY <1>6
<1> HIDE DEF runs, g
<1>9. g \in Injection(S, runs)
  BY <1>6, <1>7, Fun_IsInj
<1>10. g \in Surjection(S, runs)
  BY <1>6, <1>8, Fun_IsSurj
<1>11. IsFiniteSet(S) /\ Cardinality(S) = Cardinality(runs)
  BY <1>5, <1>9, <1>10, FS_Injection
<1> QED
  BY <1>4, <1>11 DEF runs

\* The backtest decides for a rerun on the evidence of enough earlier runs, each
\* of which failed in the job and executed it again, four of five of them with
\* the failed step passing: no run counts twice (simulate_shadow).
THEOREM BacktestCounts == RerunSpec => []BacktestIsEarned
<1>1. ASSUME RerunInv, NEW f \in ShadowDecisions
      PROVE  \E runs \in SUBSET (1 .. f.run - 1), good \in SUBSET PastRun :
               /\ Cardinality(runs) >= MinSamples
               /\ good \subseteq runs /\ 10 * Cardinality(good) >= 8 * Cardinality(runs)
               /\ \A r \in runs :
                    /\ past[r][1][f.job].ending \in FailureEnding
                    /\ ReallyEnded(r, 1, f.job, IF r \in good THEN {"passed"} ELSE Ending)
  <2> DEFINE S == Evaluable(Samples(f))
             V == Validated(Samples(f))
             runs == {s.run : s \in S}
             good == {s.run : s \in V}
  <2>1. f \in study.samples /\ Policy(f.job, Samples(f)) = "AUTO_RERUN_ONCE"
    BY DEF ShadowDecisions
  <2>2. S \subseteq Samples(f) /\ V \subseteq S
    BY DEF Evaluable, Validated
  <2>3. /\ runs \subseteq 1 .. f.run - 1 /\ runs \subseteq PastRun
        /\ Cardinality(runs) = Cardinality(S) /\ Cardinality(good) = Cardinality(V)
        /\ good \subseteq runs
        /\ Cardinality(S) \in Nat /\ Cardinality(V) \in Nat
    <3>1. /\ runs \subseteq 1 .. f.run - 1 /\ runs \subseteq PastRun
          /\ IsFiniteSet(S) /\ Cardinality(runs) = Cardinality(S)
      BY <1>1, <2>1, <2>2, RunsOf
    <3>2. IsFiniteSet(V) /\ Cardinality(good) = Cardinality(V)
      BY <1>1, <2>1, <2>2, RunsOf
    <3> QED
      BY <2>2, <3>1, <3>2, FS_CardinalityType
  <2>4. Cardinality(S) >= MinSamples /\ 10 * Cardinality(V) >= 8 * Cardinality(S)
    BY <2>1, <2>3, RerunAssumption DEF Policy
  <2>5. ASSUME NEW s \in S
        PROVE  /\ past[s.run][1][f.job].ending \in FailureEnding
               /\ ReallyEnded(s.run, 1, f.job, Ending)
               /\ s \in V => ReallyEnded(s.run, 1, f.job, {"passed"})
    <3>1. /\ Sampled(s) /\ s.job = f.job /\ s.attempt = 1
          /\ s.truth \in {"VALIDATED_RECOVERY", "NOT_RECOVERED"}
      BY <1>1, <2>5 DEF Evaluable, Samples, RerunInv, StudyInv, Studied
    <3>2. {"passed"} \subseteq Ending
      BY DEF Ending
    <3>3. ReallyEnded(s.run, 1, f.job, IF s.truth = "VALIDATED_RECOVERY" THEN {"passed"}
                                                                       ELSE Ending)
      BY <3>1 DEF Sampled
    <3>4. s.truth = "VALIDATED_RECOVERY" => ReallyEnded(s.run, 1, f.job, {"passed"})
      BY <3>3
    <3>5. ReallyEnded(s.run, 1, f.job, Ending)
      BY <3>2, <3>3, <3>4, MoreEndings
    <3>6. s \in V => s.truth = "VALIDATED_RECOVERY"
      BY DEF Validated
    <3> QED
      BY <3>1, <3>4, <3>5, <3>6 DEF Sampled
  <2>6. ASSUME NEW r \in runs
        PROVE  /\ past[r][1][f.job].ending \in FailureEnding
               /\ ReallyEnded(r, 1, f.job, IF r \in good THEN {"passed"} ELSE Ending)
    <3>1. CASE r \in good
      <4>1. PICK s \in V : s.run = r
        BY <3>1
      <4> QED
        BY <2>2, <2>5, <3>1, <4>1
    <3>2. CASE r \notin good
      <4>1. PICK s \in S : s.run = r
        BY <2>6
      <4> QED
        BY <2>5, <3>2, <4>1
    <3> QED
      BY <3>1, <3>2
  <2> HIDE DEF runs, good
  <2> QED
    BY <2>3, <2>4, <2>6
<1>2. RerunInv => BacktestIsEarned
  BY <1>1 DEF BacktestIsEarned
<1> QED
  BY <1>2, RerunHolds, PTL
===============================================================================
