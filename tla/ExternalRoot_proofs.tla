-------------------------- MODULE ExternalRoot_proofs --------------------------
(***************************************************************************)
(* Proofs about ExternalRoot, for any number of executions, commits, roots *)
(* and attestations, and any size of a page.                               *)
(***************************************************************************)
EXTENDS ExternalRoot, TLAPS

-------------------------------------------------------------------------------
(* The inductive invariant *)

\* Reachability of commits is a partial order closed downwards.
Store ==
  /\ \A c \in Commit : lineage[c] \subseteq Known
  /\ \A c \in Known : c \in lineage[c]
  /\ \A c \in Commit : \A b \in lineage[c] : lineage[b] \subseteq lineage[c]
  /\ \A b, c \in Commit : b \in lineage[c] /\ c \in lineage[b] => b = c

Tokens == \A r \in attested : r.token \in Known

Begun == {x \in Executor : exec[x].step # "idle"}
Compared == {x \in Executor : exec[x].step \in {"compare", "passed"}}

\* What an execution knows: its token is a claim, its floor is still listed;
\* once it has compared roots, its root is listed and above its floor; once it
\* has passed, its token is not below its root.
Progress ==
  /\ \A x \in Begun : /\ exec[x].token \in Known
                      /\ info[exec[x].token].kind = "claim"
                      /\ exec[x].floor \subseteq Of(listed, exec[x].root.plan)
  /\ \A x \in Compared : Latest(exec[x].root, exec[x].floor \cup {exec[x].root})
                         /\ exec[x].root \in listed
  /\ \A x \in RootPassed : exec[x].root.token \in lineage[exec[x].token]

IInv == RootTypeOK /\ Store /\ Tokens /\ Progress

LEMMA InitHolds == RootInit => IInv
<1> SUFFICES ASSUME RootInit PROVE IInv
  OBVIOUS
<1>1. AnyRoot \in RootRecord
  <2>1. PICK e \in Epoch, p \in Plan : TRUE
    BY RootAssumption
  <2>2. [epoch |-> e, token |-> Root, closed |-> FALSE, plan |-> p] \in RootRecord
    BY StoreAssumption DEF RootRecord
  <2>3. QED
    BY <2>2 DEF AnyRoot
<1>2. exec \in [Executor -> Exec] /\ \A x \in Executor : exec[x].step = "idle"
  BY <1>1, StoreAssumption DEF RootInit, Exec
<1>3. SourceInfo \in Info
  BY StoreAssumption, RootAssumption DEF SourceInfo, Info, Kind, AnyPlan
<1>4. RootTypeOK
  BY <1>2, <1>3, StoreAssumption DEF RootInit, StoreInit, RootTypeOK
<1>5. Store
  BY StoreAssumption DEF RootInit, StoreInit, Store, Known
<1>6. Tokens /\ Progress
  BY <1>2 DEF RootInit, Tokens, Progress, Begun, Compared, RootPassed
<1>7. QED
  BY <1>4, <1>5, <1>6 DEF IInv

-------------------------------------------------------------------------------
(* Steps *)

LEMMA BuildStays ==
  ASSUME IInv, NEW c \in Commit, NEW b \in Commit, NEW k \in Kind, NEW p \in Plan,
         BuildCommit(c, b, k, p)
  PROVE  IInv'
<1>1. /\ c \notin Known /\ b \in Known
      /\ lineage' = [lineage EXCEPT ![c] = lineage[b] \cup {c}]
      /\ info' = [info EXCEPT ![c] = [kind |-> k, base |-> b, plan |-> p]]
      /\ UNCHANGED <<head, attested, listed, exec>>
  BY DEF BuildCommit, AddCommit
<1>2. /\ lineage \in [Commit -> SUBSET Commit] /\ lineage' \in [Commit -> SUBSET Commit]
      /\ Known \subseteq Commit
  BY <1>1 DEF IInv, RootTypeOK, Known
<1>3. /\ lineage'[c] = lineage[b] \cup {c}
      /\ \A d \in Commit \ {c} : lineage'[d] = lineage[d]
  BY <1>1, <1>2
<1>4. Known' = Known \cup {c} /\ \A d \in Known : d # c /\ lineage'[d] = lineage[d]
  BY <1>1, <1>2, <1>3 DEF Known
<1>5. lineage[c] = {} /\ \A d \in Commit : c \notin lineage[d]
  BY <1>1, <1>2 DEF IInv, Store, Known
<1>6. RootTypeOK'
  <2>1. [kind |-> k, base |-> b, plan |-> p] \in Info
    BY DEF Info
  <2>2. QED
    BY <1>1, <1>2, <2>1 DEF IInv, RootTypeOK
<1>7. Store'
  <2>1. \A d \in Commit : lineage'[d] \subseteq Known'
    BY <1>1, <1>2, <1>3, <1>4 DEF IInv, Store
  <2>2. \A d \in Known' : d \in lineage'[d]
    BY <1>3, <1>4 DEF IInv, Store
  <2>3. \A d \in Commit : \A e \in lineage'[d] : lineage'[e] \subseteq lineage'[d]
    <3> SUFFICES ASSUME NEW d \in Commit, NEW e \in lineage'[d]
                 PROVE  lineage'[e] \subseteq lineage'[d]
      OBVIOUS
    <3>1. CASE d # c
      BY <3>1, <1>2, <1>3, <1>5 DEF IInv, Store
    <3>2. CASE d = c /\ e = c
      BY <3>2
    <3>3. CASE d = c /\ e # c
      BY <3>3, <1>1, <1>2, <1>3 DEF IInv, Store
    <3>4. QED
      BY <3>1, <3>2, <3>3
  <2>4. \A d, e \in Commit : d \in lineage'[e] /\ e \in lineage'[d] => d = e
    BY <1>2, <1>3, <1>5 DEF IInv, Store
  <2>5. QED
    BY <2>1, <2>2, <2>3, <2>4 DEF Store
<1>8. Tokens'
  BY <1>1, <1>4 DEF IInv, Tokens
<1>9. \A d \in Known : info'[d] = info[d]
  BY <1>1, <1>4 DEF IInv, RootTypeOK, Known
<1>10. Progress'
  BY <1>1, <1>4, <1>9 DEF IInv, Progress, Begun, Compared, RootPassed, Of, Latest
<1>11. QED
  BY <1>6, <1>7, <1>8, <1>10 DEF IInv

LEMMA ListStays ==
  ASSUME IInv, NEW r \in RootRecord, Attest(r) \/ ShowAttestation(r)
  PROVE  IInv'
<1>1. UNCHANGED <<storeVars, exec>> /\ listed \subseteq listed'
  BY DEF Attest, ShowAttestation
<1>2. RootTypeOK'
  BY <1>1 DEF IInv, RootTypeOK, Attest, ShowAttestation, storeVars
<1>3. Store'
  BY <1>1 DEF IInv, Store, storeVars, Known
<1>4. Tokens'
  BY <1>1 DEF IInv, Tokens, Attest, ShowAttestation, storeVars, Known
<1>5. Progress'
  BY <1>1 DEF IInv, Progress, Begun, Compared, RootPassed, Of, Latest, storeVars, Known
<1>6. QED
  BY <1>2, <1>3, <1>4, <1>5 DEF IInv

LEMMA BeginStays ==
  ASSUME IInv, NEW x \in Executor, NEW t \in Commit, NEW r \in RootRecord,
         Begin(x, t, r)
  PROVE  IInv'
<1> DEFINE new == [step |-> "list", token |-> t, root |-> r,
                   floor |-> Of(listed, r.plan)]
<1>1. new \in Exec
  BY DEF Exec, Of, IInv, RootTypeOK
<1>2. /\ exec' = [exec EXCEPT ![x] = new]
      /\ UNCHANGED <<storeVars, attested, listed>>
      /\ t \in Known /\ info[t].kind = "claim"
  BY DEF Begin
<1>3. /\ new.step = "list" /\ new.token = t /\ new.root = r
      /\ new.floor = Of(listed, r.plan)
  OBVIOUS
<1> HIDE DEF new
<1>4. /\ exec'[x] = new
      /\ \A y \in Executor \ {x} : exec'[y] = exec[y]
      /\ exec' \in [Executor -> Exec]
  BY <1>1, <1>2 DEF IInv, RootTypeOK
<1>5. RootTypeOK' /\ Store' /\ Tokens'
  BY <1>2, <1>4 DEF IInv, RootTypeOK, Store, Tokens, storeVars, Known
<1>6. Progress'
  <2>1. lineage' = lineage /\ info' = info /\ listed' = listed /\ Known' = Known
    BY <1>2 DEF storeVars, Known
  <2>2. ASSUME NEW y \in Begun'
        PROVE  /\ exec'[y].token \in Known
               /\ info[exec'[y].token].kind = "claim"
               /\ exec'[y].floor \subseteq Of(listed, exec'[y].root.plan)
    <3>1. CASE y = x
      BY <3>1, <1>2, <1>3, <1>4
    <3>2. CASE y # x
      BY <3>2, <1>4 DEF IInv, Progress, Begun
    <3>3. QED
      BY <3>1, <3>2
  <2>3. Compared' \subseteq Compared /\ RootPassed' \subseteq RootPassed
        /\ \A y \in Compared' \cup RootPassed' : exec'[y] = exec[y]
    BY <1>3, <1>4 DEF Compared, RootPassed
  <2>4. QED
    BY <2>1, <2>2, <2>3 DEF IInv, Progress, Of
<1>7. QED
  BY <1>5, <1>6 DEF IInv

\* A step of execution x that only moves it on.
LEMMA GotoStays ==
  ASSUME IInv, NEW x \in Executor, x \in Begun,
         NEW s \in {"compare", "passed", "refused"}, Goto(x, s),
         s \in {"compare", "passed"} =>
           /\ Latest(exec[x].root, exec[x].floor \cup {exec[x].root})
           /\ exec[x].root \in listed,
         s = "passed" => exec[x].root.token \in lineage[exec[x].token]
  PROVE  IInv'
<1>1. /\ exec' = [exec EXCEPT ![x].step = s]
      /\ UNCHANGED <<storeVars, attested, listed>>
  BY DEF Goto
<1>2. /\ exec' \in [Executor -> Exec]
      /\ exec'[x].step = s /\ exec'[x].token = exec[x].token
      /\ exec'[x].root = exec[x].root /\ exec'[x].floor = exec[x].floor
      /\ \A y \in Executor \ {x} : exec'[y] = exec[y]
  BY <1>1 DEF IInv, RootTypeOK, Exec
<1>3. RootTypeOK' /\ Store' /\ Tokens'
  BY <1>1, <1>2 DEF IInv, RootTypeOK, Store, Tokens, storeVars, Known
<1>4. lineage' = lineage /\ info' = info /\ listed' = listed /\ Known' = Known
  BY <1>1 DEF storeVars, Known
<1>5. \A y \in Begun' : y \in Begun /\ exec'[y].token = exec[y].token
        /\ exec'[y].root = exec[y].root /\ exec'[y].floor = exec[y].floor
  BY <1>2 DEF Begun
<1>6. \A y \in Compared' \ {x} : y \in Compared /\ exec'[y] = exec[y]
  BY <1>2 DEF Compared
<1>7. \A y \in RootPassed' \ {x} : y \in RootPassed /\ exec'[y] = exec[y]
  BY <1>2 DEF RootPassed
<1>8. Progress'
  <2>1. ASSUME NEW y \in Begun'
        PROVE  /\ exec'[y].token \in Known
               /\ info[exec'[y].token].kind = "claim"
               /\ exec'[y].floor \subseteq Of(listed, exec'[y].root.plan)
    BY <1>5 DEF IInv, Progress
  <2>2. ASSUME NEW y \in Compared'
        PROVE  /\ Latest(exec'[y].root, exec'[y].floor \cup {exec'[y].root})
               /\ exec'[y].root \in listed
    <3>1. CASE y = x
      BY <3>1, <1>2 DEF Compared
    <3>2. CASE y # x
      BY <3>2, <1>6 DEF IInv, Progress
    <3>3. QED
      BY <3>1, <3>2
  <2>3. ASSUME NEW y \in RootPassed'
        PROVE  exec'[y].root.token \in lineage[exec'[y].token]
    <3>1. CASE y = x
      BY <3>1, <1>2 DEF RootPassed
    <3>2. CASE y # x
      BY <3>2, <1>7 DEF IInv, Progress
    <3>3. QED
      BY <3>1, <3>2
  <2>4. QED
    BY <2>1, <2>2, <2>3, <1>4 DEF Progress, Of, Latest
<1>9. QED
  BY <1>3, <1>8 DEF IInv

LEMMA VerifyStays ==
  ASSUME IInv, NEW x \in Executor, VerifyLatest(x)
  PROVE  IInv'
<1>1. x \in Begun
  BY DEF VerifyLatest, Begun
<1>2. PICK s \in Page(exec[x].root.plan) : Complete(s) /\ Latest(exec[x].root, s)
  BY DEF VerifyLatest
<1>3. s = Of(listed, exec[x].root.plan)
  BY <1>2, RootAssumption DEF Page, Complete
<1>4. exec[x].floor \subseteq s
  BY <1>1, <1>3 DEF IInv, Progress
<1>5. exec[x].root \in listed
  BY <1>2, <1>3 DEF Latest, Of
<1>6. Latest(exec[x].root, exec[x].floor \cup {exec[x].root})
  BY <1>2, <1>4 DEF Latest
<1>7. QED
  BY <1>1, <1>5, <1>6, GotoStays DEF VerifyLatest

LEMMA CompareStays ==
  ASSUME IInv, NEW x \in Executor, CompareToken(x)
  PROVE  IInv'
<1>1. x \in Begun /\ x \in Compared
  BY DEF CompareToken, Begun, Compared
<1>2. exec[x].root \in listed /\ Latest(exec[x].root, exec[x].floor \cup {exec[x].root})
  BY <1>1 DEF IInv, Progress
<1>3. exec[x].root.token \in lineage[exec[x].token]
  BY DEF CompareToken, NotBelow
<1>4. QED
  BY <1>1, <1>2, <1>3, GotoStays DEF CompareToken

LEMMA RefuseStays ==
  ASSUME IInv, NEW x \in Executor, Refuse(x)
  PROVE  IInv'
<1>1. x \in Begun
  BY DEF Refuse, Begun
<1>2. QED
  BY <1>1, GotoStays DEF Refuse

LEMMA IInvStays == IInv /\ [RootNext]_rootVars => IInv'
<1> SUFFICES ASSUME IInv, [RootNext]_rootVars PROVE IInv'
  OBVIOUS
<1>1. CASE \E c, b \in Commit, k \in Kind, p \in Plan : BuildCommit(c, b, k, p)
  BY <1>1, BuildStays
<1>2. CASE \E r \in RootRecord : Attest(r) \/ ShowAttestation(r)
  BY <1>2, ListStays
<1>3. CASE \E x \in Executor, t \in Commit, r \in RootRecord : Begin(x, t, r)
  BY <1>3, BeginStays
<1>4. CASE \E x \in Executor : VerifyLatest(x) \/ CompareToken(x) \/ Refuse(x)
  BY <1>4, VerifyStays, CompareStays, RefuseStays
<1>5. CASE UNCHANGED rootVars
  BY <1>5 DEF rootVars, storeVars, IInv, RootTypeOK, Store, Tokens, Progress, Known, Begun,
              Compared, RootPassed, Of, Latest
<1>6. QED
  BY <1>1, <1>2, <1>3, <1>4, <1>5 DEF RootNext

LEMMA Invariance == RootSpec => []IInv
<1>1. QED
  BY InitHolds, IInvStays, PTL DEF RootSpec

-------------------------------------------------------------------------------
(* Theorems *)

(* Commits, attestations and executions have their types. *)
THEOREM Typing == RootSpec => []RootTypeOK
<1>1. IInv => RootTypeOK
  BY DEF IInv
<1>2. QED
  BY <1>1, Invariance, PTL

(* verify_latest_root_attestation: no listed root stands beside or above the *)
(* one an execution passes with.                                             *)
THEOREM Freshness == RootSpec => []LatestRootOnly
<1>1. ASSUME IInv, NEW x \in RootPassed, NEW q \in exec[x].floor \ {exec[x].root}
      PROVE  q.epoch < exec[x].root.epoch
  <2>1. x \in Compared
    BY DEF RootPassed, Compared
  <2>2. Latest(exec[x].root, exec[x].floor \cup {exec[x].root})
    BY <1>1, <2>1 DEF IInv, Progress
  <2>3. QED
    BY <2>2 DEF Latest
<1>2. IInv => LatestRootOnly
  BY <1>1 DEF LatestRootOnly
<1>3. QED
  BY <1>2, Invariance, PTL

LEMMA AboveFloor ==
  ASSUME IInv, NEW x \in RootPassed, Orderly(exec[x].root.plan),
         NEW q \in exec[x].floor
  PROVE  q.token \in lineage[exec[x].token]
<1>1. x \in Begun /\ x \in Compared
  BY DEF RootPassed, Begun, Compared
<1>2. /\ q \in Of(attested, exec[x].root.plan)
      /\ exec[x].root \in Of(attested, exec[x].root.plan)
      /\ q \in RootRecord /\ exec[x].root \in RootRecord
  BY <1>1 DEF IInv, RootTypeOK, Progress, Of
<1>3. q = exec[x].root \/ q.epoch < exec[x].root.epoch
  BY <1>1 DEF IInv, Progress, Latest
<1>4. q.epoch <= exec[x].root.epoch
  BY <1>2, <1>3, RootAssumption DEF RootRecord
<1>5. q.token \in lineage[exec[x].root.token]
  BY <1>2, <1>4 DEF Orderly
<1>6. exec[x].root.token \in lineage[exec[x].token]
  BY DEF IInv, Progress
<1>7. exec[x].token \in Commit
  BY <1>1 DEF IInv, Progress, Known
<1>8. QED
  BY <1>5, <1>6, <1>7 DEF IInv, Store

(* The high-water mark: when roots were attested in the order of the         *)
(* lineage, no token below a listed one passes.                              *)
THEOREM HighWater == RootSpec => []FloorHolds
<1>1. IInv => FloorHolds
  BY AboveFloor DEF FloorHolds
<1>2. QED
  BY <1>1, Invariance, PTL

(* And none that belongs to a history whose closing was listed. *)
THEOREM Closing == RootSpec => []ClosedHistoryEnds
<1>1. ASSUME IInv, NEW x \in RootPassed, Orderly(exec[x].root.plan),
             NEW q \in exec[x].floor, q.closed, Honest(q),
             exec[x].token \in lineage[q.token]
      PROVE  FALSE
  <2>1. x \in Begun
    BY DEF RootPassed, Begun
  <2>2. exec[x].token \in Commit /\ q.token \in Commit
    <3>1. q \in RootRecord
      BY <1>1, <2>1 DEF IInv, Progress, RootTypeOK, Of
    <3>2. exec[x].token \in Commit
      BY <1>1, <2>1 DEF IInv, Progress, Known
    <3>3. QED
      BY <3>1, <3>2 DEF RootRecord
  <2>3. exec[x].token = q.token
    BY <1>1, <2>2, AboveFloor DEF IInv, Store
  <2>4. info[exec[x].token].kind = "claim" /\ info[q.token].kind = "closed"
    BY <1>1, <2>1 DEF IInv, Progress, Honest
  <2>5. QED
    BY <2>3, <2>4
<1>2. IInv => ClosedHistoryEnds
  BY <1>1 DEF ClosedHistoryEnds
<1>3. QED
  BY <1>2, Invariance, PTL
===============================================================================
