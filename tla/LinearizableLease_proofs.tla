----------------------- MODULE LinearizableLease_proofs -----------------------
(***************************************************************************)
(* Proofs about LinearizableLease, for any number of workers, commits and  *)
(* refs.                                                                   *)
(*                                                                         *)
(* The steps of the specification fall into few shapes as far as the store *)
(* is concerned: the commit graph stays as it is or grows by one commit on *)
(* top of a known one; the refs stay, or one ref is created, advanced or   *)
(* deleted.  Each part of the inductive invariant is proved against these  *)
(* shapes.                                                                 *)
(***************************************************************************)
EXTENDS LeaseImplements, TLAPS

-------------------------------------------------------------------------------
(* The inductive invariant *)

\* What the parts below speak of has been made.
Made ==
  /\ \A r \in Ref : head[r] \in Known \cup {NoCommit}
  /\ \A r \in Ref : left[r] \subseteq Known

\* Commits have one parent each, so histories are linear.
Reachability ==
  /\ Root \in Known
  /\ \A c \in Known : c \in lineage[c] /\ lineage[c] \subseteq Known
  /\ \A c \in Known : \A d \in lineage[c] : lineage[d] \subseteq lineage[c]
  /\ \A c, d \in Known : c \in lineage[d] /\ d \in lineage[c] => c = d

Linear ==
  /\ \A c \in Known \ {Root} : info[c].base \in lineage[c] /\ info[c].base # c
  /\ \A h \in Known : \A c, d \in lineage[h] \ {Root} :
        info[c].base = info[d].base => c = d

\* What a ref has left lies strictly behind it.
Behind ==
  \A r \in Ref \ Deletable : \A c \in left[r] :
    /\ head[r] \in Known
    /\ c \in lineage[head[r]]
    /\ c # head[r]

\* What a call is about to publish is a commit with a parent.
Candidates ==
  /\ \A w \in Worker : call[w].step \in {"patch", "confirm", "report"} =>
                         call[w].cand \in Known \ {Root}
  /\ \A w \in Worker : call[w].step # "idle" =>
                         call[w].cand \in Known /\ call[w].base \in Known
  /\ \A x \in inflight : x[2] \in Known \ {Root}

Winners ==
  \A x \in won :
    /\ x[2] # Root
    /\ x[1] \notin Deletable => head[x[1]] \in Known /\ x[2] \in lineage[head[x[1]]]

\* A late check is still at its refs, with the token behind the witness, or over.
Late(w) ==
  call[w].late =>
    /\ call[w].witnessed
    /\ Witness \in Ref
    /\ call[w].result # "FENCE_PASSED"
    /\ call[w].step \in {"idle", "fenceRef", "fenceWitness"}
    /\ call[w].step # "idle" => call[w].cand \in left[Witness]

LateChecks == Witness \notin Deletable => \A w \in Worker : Late(w)

-------------------------------------------------------------------------------
(* The shapes of a step *)

GraphStep ==
  \/ UNCHANGED <<lineage, info>>
  \/ /\ \E c, b \in Commit, k \in {"claim", "closed"}, p \in Plan : BuildCommit(c, b, k, p)
     /\ UNCHANGED <<left, inflight, won>>

RefStep ==
  \/ UNCHANGED <<head, left>>
  \/ \E r \in Ref, c \in Known :
       /\ UNCHANGED <<lineage, info>>
       /\ \/ head[r] = NoCommit /\ MoveRef(r, c) /\ UNCHANGED left
          \/ Advance(r, c)
          \/ r \in Deletable /\ MoveRef(r, NoCommit) /\ Leave(r)

USE StoreAssumption, LeaseAssumption

LEMMA PlanChoice == AnyPlan \in Plan
  BY DEF AnyPlan

LEMMA NoCallTyped == NoCall \in Call
  BY PlanChoice DEF NoCall, Call, Step, Outcome

LEMMA InitTyped == Init => TypeOK
<1> SUFFICES ASSUME Init PROVE TypeOK
  OBVIOUS
<1> USE DEF Init, StoreInit
<1>1. lineage \in [Commit -> SUBSET Commit]
  OBVIOUS
<1>2. info \in [Commit -> Info]
  BY PlanChoice DEF SourceInfo, Info, Kind
<1>3. head \in [Ref -> Commit \cup {NoCommit}]
  OBVIOUS
<1>4. call \in [Worker -> Call]
  BY NoCallTyped
<1>5. QED
  BY <1>1, <1>2, <1>3, <1>4 DEF TypeOK

LEMMA CallTyped ==
  ASSUME TypeOK, [Next]_vars
  PROVE  call' \in [Worker -> Call]
<1> USE DEF TypeOK
<1>0. ASSUME NEW w \in Worker, NEW x \in Call, call' = [call EXCEPT ![w] = x]
      PROVE  call' \in [Worker -> Call]
  BY <1>0
<1>1. ASSUME NEW w \in Worker, Begin(w)
      PROVE  call' \in [Worker -> Call]
  <2>0. ASSUME NEW s \in Step, NEW r \in Ref, NEW b \in Commit, NEW c \in Commit,
               NEW p \in Plan, Start(w, s, r, b, c, p)
        PROVE  call' \in [Worker -> Call]
    <3>1. [NoCall EXCEPT !.step = s, !.ref = r, !.base = b, !.cand = c, !.plan = p] \in Call
      BY PlanChoice DEF NoCall, Call, Outcome
    <3>2. QED
      BY <2>0, <3>1, <1>0 DEF Start
  <2>a. ASSUME NEW o \in Outcome, Finish(w, o)
        PROVE  call' \in [Worker -> Call]
    <3>1. [NoCall EXCEPT !.result = o] \in Call
      BY PlanChoice DEF NoCall, Call, Step
    <3>2. QED
      BY <2>a, <3>1, <1>0 DEF Finish
  <2>1. \A r \in Ref, b \in Commit : SeedRef(w, r, b) => call' \in [Worker -> Call]
    BY <2>0, PlanChoice DEF SeedRef, Step
  <2>2. \A r \in Ref : SeedRefused(w, r) => call' \in [Worker -> Call]
    BY <2>a DEF SeedRefused, Outcome
  <2>3. \A c, b \in Commit, k \in Kind, p \in Plan :
          Prepare(w, c, b, k, p) => call' \in [Worker -> Call]
    BY <2>a DEF Prepare, Outcome
  <2>4. \A r \in Ref, b \in Commit, p \in Plan : TryClaim(w, r, b, p) => call' \in [Worker -> Call]
    BY <2>0 DEF TryClaim, Step
  <2>5. \A r \in Ref, c \in Commit : Publish(w, r, c) => call' \in [Worker -> Call]
    BY <2>0 DEF Publish, Step, Info
  <2>6. ASSUME NEW t \in Commit, NEW p \in Plan, NEW x \in BOOLEAN, CheckFence(w, t, p, x)
        PROVE  call' \in [Worker -> Call]
    <3> DEFINE late == x /\ Superseded(Witness, t)
               new == [step |-> "fenceRef", ref |-> Coordination, base |-> t, cand |-> t,
                       plan |-> p, witnessed |-> x, late |-> late, result |-> "none"]
    <3>1. late \in BOOLEAN
      OBVIOUS
    <3> HIDE DEF late
    <3>3. new \in Call
      BY <3>1 DEF Call, Step, Outcome
    <3>4. call' = [call EXCEPT ![w] = new]
      BY <2>6 DEF CheckFence, late
    <3>5. QED
      BY <3>3, <3>4, <1>0
  <2>7. QED
    BY <1>1, <2>1, <2>2, <2>3, <2>4, <2>5, <2>6 DEF Begin
<1>2. ASSUME NEW w \in Worker, Continue(w)
      PROVE  call' \in [Worker -> Call]
  <2>1. ASSUME NEW s \in Step, Goto(w, s) PROVE call' \in [Worker -> Call]
    BY <2>1 DEF Goto, Call
  <2>2. ASSUME NEW o \in Outcome, Return(w, o) PROVE call' \in [Worker -> Call]
    <3>1. [NoCall EXCEPT !.result = o, !.witnessed = call[w].witnessed, !.late = call[w].late]
            \in Call
      BY PlanChoice DEF NoCall, Call, Step
    <3>2. QED
      BY <2>2, <3>1, <1>0 DEF Return
  <2>3. CASE SeedReadBack(w)
    BY <2>2, <2>3 DEF SeedReadBack, Outcome
  <2>4. CASE ReadBase(w)
    BY <2>1, <2>2, <2>4 DEF ReadBase, Step, Outcome
  <2>5. CASE \E c \in Commit : BuildCandidate(w, c)
    <3>1. PICK c \in Commit : BuildCandidate(w, c)
      BY <2>5
    <3>2. [call[w] EXCEPT !.step = "patch", !.cand = c] \in Call
      <4>1. call[w] \in Call /\ "patch" \in Step
        BY DEF Step
      <4> QED
        BY <4>1 DEF Call
    <3>3. call' = [call EXCEPT ![w] = [call[w] EXCEPT !.step = "patch", !.cand = c]]
      BY <3>1 DEF BuildCandidate
    <3>4. QED
      BY <3>2, <3>3, <1>0
  <2>6. CASE PatchApplied(w) \/ PatchRefused(w) \/ PatchUnanswered(w)
    BY <2>1, <2>6 DEF PatchApplied, PatchRefused, PatchUnanswered, Step
  <2>7. CASE Confirm(w) \/ ReportLoss(w) \/ Abort(w)
    BY <2>2, <2>7 DEF Confirm, ReportLoss, Abort, Outcome
  <2>8. CASE FenceReadRef(w) \/ FenceReadWitness(w)
    BY <2>1, <2>2, <2>8 DEF FenceReadRef, FenceReadWitness, Step, Outcome
  <2>9. CASE FenceReadMeta(w)
    BY <2>2, <2>9 DEF FenceReadMeta, Outcome
  <2>10. QED
    BY <1>2, <2>3, <2>4, <2>5, <2>6, <2>7, <2>8, <2>9 DEF Continue
<1>3. CASE \E r \in Ref : DeleteRef(r)
  BY <1>3 DEF DeleteRef
<1>4. CASE \E r \in Ref, c \in Commit : Arrive(r, c) \/ Lose(r, c)
  BY <1>4 DEF Arrive, Lose
<1>5. CASE UNCHANGED vars
  BY <1>5 DEF vars
<1>6. QED
  BY <1>1, <1>2, <1>3, <1>4, <1>5 DEF Next

LEMMA Shapes ==
  ASSUME TypeOK, Candidates, Made, [Next]_vars
  PROVE  GraphStep /\ RefStep
<1> USE DEF GraphStep, RefStep, storeVars
<1>1. ASSUME NEW w \in Worker, Begin(w)
      PROVE  GraphStep /\ RefStep
  <2>1. ASSUME NEW r \in Ref, NEW b \in Commit, SeedRef(w, r, b) PROVE GraphStep /\ RefStep
    BY <2>1 DEF SeedRef, MoveRef
  <2>2. ASSUME NEW r \in Ref, SeedRefused(w, r) PROVE GraphStep /\ RefStep
    BY <2>2 DEF SeedRefused
  <2>3. ASSUME NEW c \in Commit, NEW b \in Commit, NEW k \in Kind, NEW p \in Plan,
               Prepare(w, c, b, k, p)
        PROVE  GraphStep /\ RefStep
    <3>1. BuildCommit(c, b, k, p) /\ UNCHANGED <<inflight, left, won>> /\ k \in {"claim", "closed"}
      BY <2>3 DEF Prepare
    <3>2. UNCHANGED head
      BY <3>1 DEF BuildCommit, AddCommit
    <3>3. QED
      BY <3>1, <3>2
  <2>4. ASSUME NEW r \in Ref, NEW b \in Commit, NEW p \in Plan, TryClaim(w, r, b, p)
        PROVE  GraphStep /\ RefStep
    BY <2>4 DEF TryClaim
  <2>5. ASSUME NEW r \in Ref, NEW c \in Commit, Publish(w, r, c) PROVE GraphStep /\ RefStep
    BY <2>5 DEF Publish
  <2>6. ASSUME NEW t \in Commit, NEW p \in Plan, NEW x \in BOOLEAN, CheckFence(w, t, p, x)
        PROVE  GraphStep /\ RefStep
    BY <2>6 DEF CheckFence
  <2>7. QED
    BY <1>1, <2>1, <2>2, <2>3, <2>4, <2>5, <2>6 DEF Begin
<1>2. ASSUME NEW w \in Worker, Continue(w)
      PROVE  GraphStep /\ RefStep
  <2>1. CASE SeedReadBack(w) \/ ReadBase(w) \/ PatchRefused(w) \/ PatchUnanswered(w)
             \/ Confirm(w) \/ ReportLoss(w)
    BY <2>1 DEF SeedReadBack, ReadBase, PatchRefused, PatchUnanswered, Confirm, ReportLoss
  <2>2. CASE FenceReadRef(w) \/ FenceReadWitness(w) \/ FenceReadMeta(w) \/ Abort(w)
    BY <2>2 DEF FenceReadRef, FenceReadWitness, FenceReadMeta, Abort
  <2>3. CASE \E c \in Commit : BuildCandidate(w, c)
    <3>1. PICK c \in Commit : BuildCandidate(w, c)
      BY <2>3
    <3>2. call[w].base \in Commit /\ call[w].plan \in Plan
      BY DEF TypeOK, Call
    <3>3. BuildCommit(c, call[w].base, "claim", call[w].plan) /\ UNCHANGED <<inflight, left, won>>
      BY <3>1 DEF BuildCandidate
    <3>4. UNCHANGED head
      BY <3>3 DEF BuildCommit, AddCommit
    <3>5. QED
      BY <3>2, <3>3, <3>4
  <2>4. CASE PatchApplied(w)
    <3>1. call[w].ref \in Ref /\ call[w].cand \in Known
      BY <2>4 DEF TypeOK, Call, Candidates, PatchApplied
    <3>2. Advance(call[w].ref, call[w].cand)
      BY <2>4 DEF PatchApplied
    <3>3. UNCHANGED <<lineage, info>>
      BY <3>2 DEF Advance, MoveRef
    <3>4. QED
      BY <3>1, <3>2, <3>3
  <2>5. QED
    BY <1>2, <2>1, <2>2, <2>3, <2>4 DEF Continue
<1>3. ASSUME NEW r \in Ref, DeleteRef(r) PROVE GraphStep /\ RefStep
  <2>1. Root \in Known \/ head[r] \in Known
    BY <1>3 DEF DeleteRef, Made
  <2>2. QED
    BY <1>3, <2>1 DEF DeleteRef, MoveRef
<1>4. ASSUME NEW r \in Ref, NEW c \in Commit, Arrive(r, c) \/ Lose(r, c)
      PROVE  GraphStep /\ RefStep
  <2>1. CASE Arrive(r, c)
    <3>1. c \in Known
      BY <2>1 DEF Arrive, Candidates
    <3>2. Advance(r, c) /\ UNCHANGED <<lineage, info>>
      BY <2>1 DEF Arrive, Advance, MoveRef
    <3>3. QED
      BY <3>1, <3>2
  <2>2. CASE Lose(r, c)
    BY <2>2 DEF Lose
  <2>3. QED
    BY <1>4, <2>1, <2>2
<1>5. CASE UNCHANGED vars
  BY <1>5 DEF vars
<1>6. QED
  BY <1>1, <1>2, <1>3, <1>4, <1>5 DEF Next

\* Commits are never changed or removed.
LEMMA GraphGrows ==
  ASSUME TypeOK, GraphStep
  PROVE  \A c \in Known : /\ c \in Known'
                           /\ lineage'[c] = lineage[c]
                           /\ info'[c] = info[c]
BY DEF TypeOK, GraphStep, BuildCommit, AddCommit, Known

LEMMA StoreTyped ==
  ASSUME TypeOK, GraphStep
  PROVE  lineage' \in [Commit -> SUBSET Commit] /\ info' \in [Commit -> Info]
<1>1. CASE UNCHANGED <<lineage, info>>
  BY <1>1 DEF TypeOK
<1>2. ASSUME NEW c \in Commit, NEW b \in Commit, NEW k \in {"claim", "closed"}, NEW p \in Plan,
             BuildCommit(c, b, k, p)
      PROVE  lineage' \in [Commit -> SUBSET Commit] /\ info' \in [Commit -> Info]
  <2>1. [kind |-> k, base |-> b, plan |-> p] \in Info
    BY DEF Info, Kind
  <2>2. QED
    BY <1>2, <2>1 DEF TypeOK, BuildCommit, AddCommit
<1>3. QED
  BY <1>1, <1>2 DEF GraphStep

LEMMA RefsTyped ==
  ASSUME TypeOK, RefStep
  PROVE  head' \in [Ref -> Commit \cup {NoCommit}] /\ left' \in [Ref -> SUBSET Commit]
<1> USE DEF TypeOK
<1>1. CASE UNCHANGED <<head, left>>
  BY <1>1
<1>2. ASSUME NEW r \in Ref, NEW c \in Known \cup {NoCommit}, MoveRef(r, c),
             UNCHANGED left \/ Leave(r)
      PROVE  head' \in [Ref -> Commit \cup {NoCommit}] /\ left' \in [Ref -> SUBSET Commit]
  <2>1. head' \in [Ref -> Commit \cup {NoCommit}]
    BY <1>2 DEF MoveRef, Known
  <2>2. head[r] \in Commit \cup {NoCommit}
    OBVIOUS
  <2>3. left' \in [Ref -> SUBSET Commit]
    BY <1>2, <2>2 DEF Leave
  <2>4. QED
    BY <2>1, <2>3
<1>3. QED
  BY <1>1, <1>2 DEF RefStep, Advance

LEMMA HistoryTyped ==
  ASSUME TypeOK, [Next]_vars
  PROVE  inflight' \in SUBSET (Ref \X Commit) /\ won' \in SUBSET (Ref \X Commit)
<1> USE DEF TypeOK
<1>1. ASSUME NEW w \in Worker, Begin(w)
      PROVE  UNCHANGED <<inflight, won>>
  BY <1>1 DEF Begin, SeedRef, SeedRefused, Prepare, TryClaim, Publish, CheckFence
<1>2. ASSUME NEW w \in Worker, Continue(w)
      PROVE  inflight' \in SUBSET (Ref \X Commit) /\ won' \in SUBSET (Ref \X Commit)
  <2>1. call[w].ref \in Ref /\ call[w].cand \in Commit
    BY DEF Call
  <2>2. inflight' \in {inflight, inflight \cup {<<call[w].ref, call[w].cand>>}}
    BY <1>2 DEF Continue, SeedReadBack, ReadBase, BuildCandidate, PatchApplied, PatchRefused,
         PatchUnanswered, Confirm, ReportLoss, FenceReadRef, FenceReadWitness, FenceReadMeta, Abort
  <2>3. won' \in {won, won \cup {<<call[w].ref, call[w].cand>>}}
    BY <1>2 DEF Continue, SeedReadBack, ReadBase, BuildCandidate, PatchApplied, PatchRefused,
         PatchUnanswered, Confirm, ReportLoss, FenceReadRef, FenceReadWitness, FenceReadMeta, Abort
  <2>4. QED
    BY <2>1, <2>2, <2>3
<1>3. CASE (\E r \in Ref : DeleteRef(r))
           \/ (\E r \in Ref, c \in Commit : Arrive(r, c) \/ Lose(r, c))
           \/ UNCHANGED vars
  BY <1>3 DEF DeleteRef, Arrive, Lose, vars
<1>4. QED
  BY <1>1, <1>2, <1>3 DEF Next

-------------------------------------------------------------------------------
(* The commit graph *)

LEMMA ReachabilityKept ==
  ASSUME TypeOK, Reachability, GraphStep
  PROVE  Reachability'
<1>1. CASE UNCHANGED <<lineage, info>>
  BY <1>1 DEF Reachability, Known
<1>2. ASSUME NEW n \in Commit, NEW b \in Commit, NEW k \in {"claim", "closed"}, NEW p \in Plan,
             BuildCommit(n, b, k, p)
      PROVE  Reachability'
  <2>1. /\ n \notin Known
        /\ b \in Known
        /\ Known' = Known \cup {n}
        /\ lineage'[n] = lineage[b] \cup {n}
        /\ \A c \in Known : lineage'[c] = lineage[c]
    BY <1>2 DEF TypeOK, BuildCommit, AddCommit, Known
  <2>2. n \notin lineage[b] /\ \A c \in Known : n \notin lineage[c]
    BY <2>1 DEF Reachability
  <2>3. (Root \in Known /\ \A c \in Known : c \in lineage[c] /\ lineage[c] \subseteq Known)'
    BY <2>1 DEF Reachability
  <2>4. (\A c \in Known : \A d \in lineage[c] : lineage[d] \subseteq lineage[c])'
    BY <2>1 DEF Reachability
  <2>5. (\A c, d \in Known : c \in lineage[d] /\ d \in lineage[c] => c = d)'
    BY <2>1, <2>2 DEF Reachability
  <2>6. QED
    BY <2>3, <2>4, <2>5 DEF Reachability
<1>3. QED
  BY <1>1, <1>2 DEF GraphStep

LEMMA LinearKept ==
  ASSUME TypeOK, Reachability, Linear, GraphStep
  PROVE  Linear'
<1>1. CASE UNCHANGED <<lineage, info>>
  BY <1>1 DEF Linear, Known
<1>2. ASSUME NEW n \in Commit, NEW b \in Commit, NEW k \in {"claim", "closed"}, NEW p \in Plan,
             BuildCommit(n, b, k, p)
      PROVE  Linear'
  <2>1. /\ n \notin Known
        /\ b \in Known
        /\ Known' = Known \cup {n}
        /\ lineage'[n] = lineage[b] \cup {n}
        /\ info'[n].base = b
        /\ \A c \in Known : lineage'[c] = lineage[c] /\ info'[c] = info[c]
    BY <1>2 DEF TypeOK, BuildCommit, AddCommit, Known
  <2>2. b \in lineage[b] /\ n # b /\ n # Root /\ lineage[b] \subseteq Known
    BY <2>1 DEF Reachability
  <2>3. (\A c \in Known \ {Root} : info[c].base \in lineage[c] /\ info[c].base # c)'
    BY <2>1, <2>2 DEF Linear
  <2>4. \A d \in lineage[b] \ {Root} : info[d].base # b
    \* d would be a child of b that b descends from
    BY <2>1, <2>2 DEF Linear, Reachability
  <2>5. (\A h \in Known : \A c, d \in lineage[h] \ {Root} : info[c].base = info[d].base => c = d)'
    <3>1. SUFFICES ASSUME NEW h \in Known \cup {n}, NEW c \in lineage'[h] \ {Root},
                          NEW d \in lineage'[h] \ {Root}, info'[c].base = info'[d].base
                   PROVE  c = d
      BY <2>1
    <3>2. CASE h # n
      BY <2>1, <3>1, <3>2 DEF Linear, Reachability
    <3>3. CASE h = n
      BY <2>1, <2>2, <2>4, <3>1, <3>3 DEF Linear, Reachability
    <3>4. QED
      BY <3>2, <3>3
  <2>6. QED
    BY <2>3, <2>5 DEF Linear
<1>3. QED
  BY <1>1, <1>2 DEF GraphStep

-------------------------------------------------------------------------------
(* The refs *)

\* A ref is only ever moved to a commit that has its old one in its history.
LEMMA MadeKept ==
  ASSUME TypeOK, Made, GraphStep, RefStep
  PROVE  Made'
<1>1. Known \subseteq Known'
  BY GraphGrows
<1>2. CASE UNCHANGED <<head, left>>
  BY <1>1, <1>2 DEF Made
<1>3. ASSUME NEW r \in Ref, NEW c \in Known \cup {NoCommit}, MoveRef(r, c),
             UNCHANGED left \/ Leave(r)
      PROVE  Made'
  <2>1. \A q \in Ref : head'[q] \in Known \cup {NoCommit}
    BY <1>3 DEF MoveRef, TypeOK, Made
  <2>2. \A q \in Ref : left'[q] \subseteq Known
    BY <1>3 DEF Leave, TypeOK, Made
  <2>3. QED
    BY <1>1, <2>1, <2>2 DEF Made
<1>4. QED
  BY <1>2, <1>3 DEF RefStep, Advance

LEMMA BehindKept ==
  ASSUME TypeOK, Made, Reachability, Behind, GraphStep, RefStep
  PROVE  Behind'
<1>1. \A c \in Known : c \in Known' /\ lineage'[c] = lineage[c]
  BY GraphGrows
<1>2. CASE UNCHANGED <<head, left>>
  BY <1>1, <1>2 DEF Behind
<1>3. ASSUME NEW r \in Ref, NEW n \in Known, UNCHANGED <<lineage, info>>,
             \/ head[r] = NoCommit /\ MoveRef(r, n) /\ UNCHANGED left
             \/ Advance(r, n)
             \/ r \in Deletable /\ MoveRef(r, NoCommit) /\ Leave(r)
      PROVE  Behind'
  <2>1. SUFFICES ASSUME NEW q \in Ref \ Deletable, NEW c \in left'[q]
                 PROVE  head'[q] \in Known /\ c \in lineage[head'[q]] /\ c # head'[q]
    BY <1>3 DEF Behind, Known
  <2>2. CASE q # r
    <3>1. head'[q] = head[q] /\ left'[q] = left[q]
      BY <1>3, <2>2 DEF MoveRef, Advance, Leave, TypeOK
    <3>2. QED
      BY <2>1, <3>1 DEF Behind
  <2>3. CASE q = r /\ head[r] = NoCommit /\ UNCHANGED left
    \* nothing is behind a ref that does not exist
    BY <2>1, <2>3 DEF Behind, Known
  <2>4. CASE q = r /\ Advance(r, n)
    <3>1. head'[r] = n /\ head[r] \in lineage[n]
      BY <2>4 DEF Advance, MoveRef, FastForward, TypeOK
    <3>2. c \in left[r] \/ (c = head[r] /\ head[r] # n)
      BY <2>1, <2>4 DEF Advance, Leave, TypeOK
    <3>3. head[r] \in Known
      BY <3>1 DEF Reachability
    <3>4. CASE c \in left[r]
      <4>1. c \in lineage[head[r]] /\ c # head[r]
        BY <2>1, <2>4, <3>4 DEF Behind
      <4>2. c \in lineage[n]
        BY <3>1, <4>1 DEF Reachability
      <4>3. c # n
        BY <3>1, <3>3, <4>1 DEF Reachability
      <4>4. QED
        BY <2>4, <3>1, <4>2, <4>3
    <3>5. CASE c = head[r] /\ head[r] # n
      BY <2>4, <3>1, <3>5
    <3>6. QED
      BY <3>2, <3>4, <3>5
  <2>5. QED
    BY <1>3, <2>1, <2>2, <2>3, <2>4
<1>4. QED
  BY <1>2, <1>3 DEF RefStep

\* A commit in the history of a ref nobody deletes stays there.
LEMMA HistoryKept ==
  ASSUME TypeOK, Made, Reachability, GraphStep, RefStep,
         NEW r \in Ref \ Deletable, NEW c,
         head[r] \in Known, c \in lineage[head[r]]
  PROVE  (head[r] \in Known /\ c \in lineage[head[r]])'
<1>1. \A k \in Known : k \in Known' /\ lineage'[k] = lineage[k]
  BY GraphGrows
<1>2. CASE UNCHANGED <<head, left>>
  BY <1>1, <1>2
<1>3. ASSUME NEW q \in Ref, NEW n \in Known, UNCHANGED <<lineage, info>>,
             \/ head[q] = NoCommit /\ MoveRef(q, n) /\ UNCHANGED left
             \/ Advance(q, n)
             \/ q \in Deletable /\ MoveRef(q, NoCommit) /\ Leave(q)
      PROVE  (head[r] \in Known /\ c \in lineage[head[r]])'
  <2>1. CASE q # r
    <3>1. head'[r] = head[r]
      BY <1>3, <2>1 DEF MoveRef, Advance, TypeOK
    <3>2. QED
      BY <1>1, <3>1
  <2>2. CASE q = r
    <3>1. Advance(r, n)
      BY <1>3, <2>2 DEF Known
    <3>2. head'[r] = n /\ head[r] \in lineage[n]
      BY <3>1 DEF Advance, MoveRef, FastForward, TypeOK
    <3>3. c \in lineage[n]
      BY <3>2 DEF Reachability
    <3>4. QED
      BY <1>1, <3>2, <3>3
  <2>3. QED
    BY <2>1, <2>2
<1>4. QED
  BY <1>2, <1>3 DEF RefStep

-------------------------------------------------------------------------------
(* The calls *)

LEMMA CandidatesKept ==
  ASSUME TypeOK, Made, Reachability, Linear, Candidates, [Next]_vars, GraphStep
  PROVE  Candidates'
<1> DEFINE Good(x) == /\ x.step \in {"patch", "confirm", "report"} => x.cand \in Known' \ {Root}
                      /\ x.step # "idle" => x.cand \in Known' /\ x.base \in Known'
<1>1. Known \subseteq Known'
  BY GraphGrows
<1>2. \A w \in Worker : Good(call[w])
  BY <1>1 DEF Candidates
<1>3. ASSUME NEW w \in Worker, NEW x, call' = [call EXCEPT ![w] = x], Good(x)
      PROVE  \A v \in Worker : Good(call'[v])
  BY <1>2, <1>3 DEF TypeOK
<1>4. ASSUME NEW w \in Worker, Begin(w)
      PROVE  Candidates'
  <2>1. ASSUME NEW r \in Ref, NEW b \in Commit, NEW p \in Plan,
               SeedRef(w, r, b) \/ TryClaim(w, r, b, p)
        PROVE  \A v \in Worker : Good(call'[v])
    <3>1. CASE SeedRef(w, r, b)
      <4>1. Good([NoCall EXCEPT !.step = "seed", !.ref = r, !.base = b, !.cand = b, !.plan = AnyPlan])
        BY <1>1, <3>1 DEF SeedRef, NoCall
      <4>2. QED
        BY <1>3, <3>1, <4>1 DEF SeedRef, Start
    <3>2. CASE TryClaim(w, r, b, p)
      <4>1. Good([NoCall EXCEPT !.step = "read", !.ref = r, !.base = b, !.cand = b, !.plan = p])
        BY <1>1, <3>2 DEF TryClaim, NoCall
      <4>2. QED
        BY <1>3, <3>2, <4>1 DEF TryClaim, Start
    <3>3. QED
      BY <2>1, <3>1, <3>2
  <2>2. ASSUME NEW o, Finish(w, o)
        PROVE  \A v \in Worker : Good(call'[v])
    <3>1. Good([NoCall EXCEPT !.result = o])
      BY DEF NoCall
    <3>2. QED
      BY <1>3, <2>2, <3>1 DEF Finish
  <2>3. ASSUME NEW r \in Ref, NEW c \in Commit, Publish(w, r, c)
        PROVE  \A v \in Worker : Good(call'[v])
    <3>1. c \in Known \ {Root} /\ info[c].base \in Known
      BY <2>3 DEF Publish, Linear, Reachability
    <3>2. Good([NoCall EXCEPT !.step = "patch", !.ref = r, !.base = info[c].base, !.cand = c,
                               !.plan = info[c].plan])
      BY <1>1, <3>1 DEF NoCall
    <3>3. QED
      BY <1>3, <2>3, <3>2 DEF Publish, Start
  <2>4. ASSUME NEW t \in Commit, NEW p \in Plan, NEW x \in BOOLEAN, CheckFence(w, t, p, x)
        PROVE  \A v \in Worker : Good(call'[v])
    <3> DEFINE late == x /\ Superseded(Witness, t)
               new == [step |-> "fenceRef", ref |-> Coordination, base |-> t, cand |-> t,
                       plan |-> p, witnessed |-> x, late |-> late, result |-> "none"]
    <3>1. call' = [call EXCEPT ![w] = new] /\ t \in Known
      BY <2>4 DEF CheckFence
    <3> HIDE DEF late
    <3>2. Good(new)
      BY <1>1, <3>1
    <3>3. QED
      BY <1>3, <3>1, <3>2
  <2>5. UNCHANGED inflight
    BY <1>4 DEF Begin, SeedRef, SeedRefused, Prepare, TryClaim, Publish, CheckFence
  <2>6. \A v \in Worker : Good(call'[v])
    BY <1>4, <2>1, <2>2, <2>3, <2>4, PlanChoice DEF Begin, SeedRefused, Prepare
  <2>7. QED
    BY <1>1, <2>5, <2>6 DEF Candidates
<1>5. ASSUME NEW w \in Worker, Continue(w)
      PROVE  Candidates'
  <2>1. ASSUME NEW o, Return(w, o)
        PROVE  \A v \in Worker : Good(call'[v])
    <3>1. Good([NoCall EXCEPT !.result = o, !.witnessed = call[w].witnessed, !.late = call[w].late])
      BY DEF NoCall
    <3>2. QED
      BY <1>3, <2>1, <3>1 DEF Return
  <2>2. ASSUME NEW s, Goto(w, s), call[w].step # "idle",
               s \in {"patch", "confirm", "report"} => call[w].step = "patch"
        PROVE  \A v \in Worker : Good(call'[v])
    <3>1. Good([call[w] EXCEPT !.step = s])
      BY <1>1, <2>2 DEF Candidates, TypeOK, Call
    <3>2. QED
      BY <1>3, <2>2, <3>1 DEF Goto
  <2>3. CASE \E c \in Commit : BuildCandidate(w, c)
    <3>1. PICK c \in Commit : BuildCandidate(w, c)
      BY <2>3
    <3>2. c \in Known' \ {Root} /\ call[w].base \in Known
      BY <3>1 DEF BuildCandidate, BuildCommit, AddCommit, Known, TypeOK, Reachability
    <3>3. Good([call[w] EXCEPT !.step = "patch", !.cand = c])
      BY <1>1, <3>2 DEF TypeOK, Call
    <3>4. call' = [call EXCEPT ![w] = [call[w] EXCEPT !.step = "patch", !.cand = c]]
      BY <3>1 DEF BuildCandidate
    <3>5. (\A v \in Worker : Good(call'[v])) /\ UNCHANGED inflight
      BY <1>3, <3>1, <3>3, <3>4 DEF BuildCandidate
    <3>6. QED
      BY <1>1, <3>5 DEF Candidates
  <2>4. CASE PatchUnanswered(w)
    <3>1. inflight' = inflight \cup {<<call[w].ref, call[w].cand>>} /\ call[w].cand \in Known \ {Root}
      BY <2>4 DEF PatchUnanswered, Candidates
    <3>2. \A v \in Worker : Good(call'[v])
      BY <2>2, <2>4 DEF PatchUnanswered
    <3>3. QED
      BY <1>1, <3>1, <3>2 DEF Candidates
  <2>5. CASE PatchApplied(w) \/ PatchRefused(w)
    <3>1. \A v \in Worker : Good(call'[v])
      BY <2>2, <2>5 DEF PatchApplied, PatchRefused
    <3>2. QED
      BY <1>1, <2>5, <3>1 DEF Candidates, PatchApplied, PatchRefused
  <2>6. CASE ReadBase(w) \/ FenceReadRef(w) \/ FenceReadWitness(w)
    <3>1. \A v \in Worker : Good(call'[v])
      BY <2>1, <2>2, <2>6 DEF ReadBase, FenceReadRef, FenceReadWitness
    <3>2. QED
      BY <1>1, <2>6, <3>1 DEF Candidates, ReadBase, FenceReadRef, FenceReadWitness
  <2>7. CASE SeedReadBack(w) \/ Confirm(w) \/ ReportLoss(w) \/ FenceReadMeta(w) \/ Abort(w)
    <3>1. \A v \in Worker : Good(call'[v])
      BY <2>1, <2>7 DEF SeedReadBack, Confirm, ReportLoss, FenceReadMeta, Abort
    <3>2. QED
      BY <1>1, <2>7, <3>1 DEF Candidates, SeedReadBack, Confirm, ReportLoss, FenceReadMeta, Abort
  <2>8. QED
    BY <1>5, <2>3, <2>4, <2>5, <2>6, <2>7 DEF Continue
<1>6. CASE (\E r \in Ref : DeleteRef(r))
           \/ (\E r \in Ref, c \in Commit : Arrive(r, c) \/ Lose(r, c))
           \/ UNCHANGED vars
  <2>1. call' = call /\ inflight' \subseteq inflight
    BY <1>6 DEF DeleteRef, Arrive, Lose, vars
  <2>2. QED
    BY <1>1, <1>2, <2>1 DEF Candidates
<1>7. QED
  BY <1>4, <1>5, <1>6 DEF Next

LEMMA WinnersKept ==
  ASSUME TypeOK, Made, Reachability, Candidates, Winners, [Next]_vars, GraphStep, RefStep
  PROVE  Winners'
<1> DEFINE Kept(x) == /\ x[2] # Root
                      /\ x[1] \notin Deletable => /\ head'[x[1]] \in Known'
                                                  /\ x[2] \in lineage'[head'[x[1]]]
<1>1. \A x \in won : Kept(x)
  BY HistoryKept DEF Winners, TypeOK
<1>2. CASE UNCHANGED won
  BY <1>1, <1>2 DEF Winners
<1>3. ASSUME NEW w \in Worker, Confirm(w), ~UNCHANGED won
      PROVE  Winners'
  <2>1. /\ won' = won \cup {<<call[w].ref, call[w].cand>>}
        /\ head[call[w].ref] = call[w].cand
        /\ UNCHANGED <<lineage, head>>
    BY <1>3 DEF Confirm, storeVars
  <2>2. call[w].cand \in Known \ {Root}
    BY <1>3 DEF Confirm, Candidates
  <2>3. Kept(<<call[w].ref, call[w].cand>>)
    BY <2>1, <2>2 DEF Reachability, Known
  <2>4. QED
    BY <1>1, <2>1, <2>3 DEF Winners
<1>4. UNCHANGED won \/ \E w \in Worker : Confirm(w)
  <2>1. ASSUME NEW w \in Worker, Begin(w) PROVE UNCHANGED won
    BY <2>1 DEF Begin, SeedRef, SeedRefused, Prepare, TryClaim, Publish, CheckFence
  <2>2. ASSUME NEW w \in Worker, Continue(w) PROVE UNCHANGED won \/ Confirm(w)
    BY <2>2 DEF Continue, SeedReadBack, ReadBase, BuildCandidate, PatchApplied, PatchRefused,
         PatchUnanswered, ReportLoss, FenceReadRef, FenceReadWitness, FenceReadMeta, Abort
  <2>3. QED
    BY <2>1, <2>2 DEF Next, DeleteRef, Arrive, Lose, vars
<1>5. QED
  BY <1>2, <1>3, <1>4

\* A late check cannot get past the witness: the witness is not where the token is.
LEMMA LateKept ==
  ASSUME TypeOK, Behind, LateChecks, [Next]_vars, RefStep
  PROVE  LateChecks'
<1> SUFFICES ASSUME Witness \notin Deletable, NEW v \in Worker, call'[v].late
             PROVE  Late(v)'
  BY DEF LateChecks, Late
<1>1. Witness \in Ref => left[Witness] \subseteq left'[Witness]
  BY DEF RefStep, Advance, Leave, TypeOK
<1>2. CASE call'[v] = call[v]
  BY <1>1, <1>2 DEF LateChecks, Late
<1>3. ASSUME NEW o, o # "FENCE_PASSED", Return(v, o)
      PROVE  Late(v)'
  <2>1. call'[v] = [NoCall EXCEPT !.result = o, !.witnessed = call[v].witnessed, !.late = call[v].late]
    BY <1>3 DEF Return, TypeOK
  <2>2. /\ call'[v].step = "idle" /\ call'[v].result = o
        /\ call'[v].late = call[v].late /\ call'[v].witnessed = call[v].witnessed
    BY <2>1 DEF NoCall
  <2>3. QED
    BY <1>3, <2>2 DEF LateChecks, Late
<1>4. ASSUME NEW w \in Worker, Begin(w)
      PROVE  Late(v)'
  <2>1. CASE w # v
    <3>1. call'[v] = call[v]
      BY <1>4, <2>1 DEF Begin, SeedRef, SeedRefused, Prepare, TryClaim, Publish, CheckFence,
           Start, Finish, TypeOK
    <3>2. QED
      BY <1>2, <3>1
  <2>2. CASE w = v
    <3>1. ASSUME NEW s, NEW r, NEW b, NEW c, NEW p, Start(v, s, r, b, c, p) PROVE FALSE
      <4>1. call'[v] = [NoCall EXCEPT !.step = s, !.ref = r, !.base = b, !.cand = c, !.plan = p]
        BY <3>1 DEF Start, TypeOK
      <4>2. QED
        BY <4>1 DEF NoCall
    <3>2. ASSUME NEW o, Finish(v, o) PROVE FALSE
      <4>1. call'[v] = [NoCall EXCEPT !.result = o]
        BY <3>2 DEF Finish, TypeOK
      <4>2. QED
        BY <4>1 DEF NoCall
    <3>3. ASSUME NEW t \in Commit, NEW p \in Plan, NEW x \in BOOLEAN, CheckFence(v, t, p, x)
          PROVE  Late(v)'
      <4> DEFINE late == x /\ Superseded(Witness, t)
      <4>1. call'[v] = [step |-> "fenceRef", ref |-> Coordination, base |-> t, cand |-> t,
                        plan |-> p, witnessed |-> x, late |-> late, result |-> "none"]
        BY <3>3 DEF CheckFence, TypeOK
      <4>2. /\ call'[v].late = late /\ call'[v].witnessed = x /\ call'[v].step = "fenceRef"
            /\ call'[v].cand = t /\ call'[v].result = "none"
        <5> HIDE DEF late
        <5>1. QED
          BY <4>1
      <4>3. x /\ t \in left[Witness]
        BY <4>2 DEF Superseded
      <4>4. Witness \in Ref
        BY <3>3, <4>3 DEF CheckFence
      <4>5. QED
        BY <1>1, <4>2, <4>3, <4>4 DEF Late
    <3>4. QED
      BY <1>4, <2>2, <3>1, <3>2, <3>3 DEF Begin, SeedRef, SeedRefused, Prepare, TryClaim, Publish
  <2>3. QED
    BY <2>1, <2>2
<1>5. ASSUME NEW w \in Worker, Continue(w)
      PROVE  Late(v)'
  <2>1. CASE w # v
    <3>1. call'[v] = call[v]
      BY <1>5, <2>1 DEF Continue, SeedReadBack, ReadBase, BuildCandidate, PatchApplied, PatchRefused,
           PatchUnanswered, Confirm, ReportLoss, FenceReadRef, FenceReadWitness, FenceReadMeta,
           Abort, Return, Goto, TypeOK
    <3>2. QED
      BY <1>2, <3>1
  <2>2. ASSUME NEW s, Goto(v, s)
        PROVE  /\ call'[v].late = call[v].late /\ call'[v].witnessed = call[v].witnessed
               /\ call'[v].cand = call[v].cand /\ call'[v].result = call[v].result
               /\ call'[v].step = s
    BY <2>2 DEF Goto, TypeOK, Call
  <2>3. CASE FenceReadRef(v)
    <3>1. CASE Goto(v, IF call[v].witnessed THEN "fenceWitness" ELSE "fenceMeta")
      <4>1. call[v].late
        BY <2>2, <3>1
      <4>2. call[v].witnessed /\ Witness \in Ref /\ call[v].result # "FENCE_PASSED"
            /\ call[v].cand \in left[Witness]
        BY <2>3, <4>1 DEF LateChecks, Late, FenceReadRef
      <4>3. Goto(v, "fenceWitness")
        BY <3>1, <4>2
      <4>4. QED
        BY <1>1, <2>2, <4>2, <4>3 DEF Late
    <3>2. QED
      BY <1>3, <2>3, <3>1 DEF FenceReadRef
  <2>4. CASE FenceReadWitness(v)
    <3>1. CASE Goto(v, "fenceMeta")
      <4>1. call[v].late
        BY <2>2, <3>1
      <4>2. Witness \in Ref /\ call[v].cand \in left[Witness]
        BY <2>4, <4>1 DEF LateChecks, Late, FenceReadWitness
      <4>3. head[Witness] # call[v].cand
        BY <4>2 DEF Behind
      <4>4. ~Return(v, "ERROR") /\ ~Return(v, "ABA_WITNESS_MISMATCH")
        <5>1. ASSUME NEW o, Return(v, o) PROVE call'[v].step = "idle"
          BY <5>1 DEF Return, NoCall, TypeOK
        <5>2. call'[v].step = "fenceMeta"
          BY <2>2, <3>1
        <5>3. QED
          BY <5>1, <5>2
      <4>5. QED
        BY <2>4, <4>3, <4>4 DEF FenceReadWitness
    <3>2. QED
      BY <1>3, <2>4, <3>1 DEF FenceReadWitness
  <2>5. CASE SeedReadBack(v) \/ Confirm(v) \/ ReportLoss(v) \/ Abort(v)
    BY <1>3, <2>5 DEF SeedReadBack, Confirm, ReportLoss, Abort
  <2>6. CASE ReadBase(v) \/ PatchApplied(v) \/ PatchRefused(v) \/ PatchUnanswered(v)
    <3>1. call[v].step \in {"read", "patch"}
      BY <2>6 DEF ReadBase, PatchApplied, PatchRefused, PatchUnanswered
    <3>2. ~call[v].late
      BY <3>1 DEF LateChecks, Late
    <3>3. (\E s : Goto(v, s)) => FALSE
      BY <2>2, <3>2
    <3>4. QED
      BY <1>3, <2>6, <3>3 DEF ReadBase, PatchApplied, PatchRefused, PatchUnanswered
  <2>7. CASE FenceReadMeta(v) \/ \E c \in Commit : BuildCandidate(v, c)
    <3>1. ~call[v].late
      BY <2>7 DEF LateChecks, Late, FenceReadMeta, BuildCandidate
    <3>2. ASSUME NEW o, Return(v, o) PROVE FALSE
      <4>1. call'[v].late = call[v].late
        BY <3>2 DEF Return, NoCall, TypeOK
      <4>2. QED
        BY <3>1, <4>1
    <3>3. ASSUME NEW c \in Commit, BuildCandidate(v, c) PROVE FALSE
      <4>1. call'[v].late = call[v].late
        BY <3>3 DEF BuildCandidate, TypeOK, Call
      <4>2. QED
        BY <3>1, <4>1
    <3>4. QED
      BY <2>7, <3>2, <3>3 DEF FenceReadMeta
  <2>8. QED
    BY <1>5, <2>1, <2>3, <2>4, <2>5, <2>6, <2>7 DEF Continue
<1>6. CASE (\E r \in Ref : DeleteRef(r))
           \/ (\E r \in Ref, c \in Commit : Arrive(r, c) \/ Lose(r, c))
           \/ UNCHANGED vars
  BY <1>2, <1>6 DEF DeleteRef, Arrive, Lose, vars
<1>7. QED
  BY <1>4, <1>5, <1>6 DEF Next

-------------------------------------------------------------------------------
(* The theorems *)

IInv ==
  /\ TypeOK
  /\ Made
  /\ Reachability
  /\ Linear
  /\ Behind
  /\ Candidates
  /\ Winners
  /\ LateChecks

LEMMA InitInv == Init => IInv
<1> SUFFICES ASSUME Init PROVE IInv
  OBVIOUS
<1>1. TypeOK
  BY InitTyped
<1>2. Known = {Root} /\ lineage[Root] = {Root}
  BY DEF Init, StoreInit, Known
<1>3. Made /\ Reachability /\ Linear
  BY <1>2 DEF Made, Reachability, Linear, Init, StoreInit
<1>4. Behind /\ Winners
  BY DEF Behind, Winners, Init
<1>5. Candidates
  BY DEF Candidates, Init, NoCall
<1>6. LateChecks
  BY DEF LateChecks, Late, Init, NoCall
<1>7. QED
  BY <1>1, <1>3, <1>4, <1>5, <1>6 DEF IInv

LEMMA NextInv == IInv /\ [Next]_vars => IInv'
<1> SUFFICES ASSUME IInv, [Next]_vars PROVE IInv'
  OBVIOUS
<1> USE DEF IInv
<1>1. GraphStep /\ RefStep
  BY Shapes
<1>2. TypeOK'
  BY <1>1, StoreTyped, RefsTyped, CallTyped, HistoryTyped DEF TypeOK
<1>3. Made' /\ Reachability' /\ Linear' /\ Behind'
  BY <1>1, MadeKept, ReachabilityKept, LinearKept, BehindKept
<1>4. Candidates' /\ Winners' /\ LateChecks'
  BY <1>1, CandidatesKept, WinnersKept, LateKept
<1>5. QED
  BY <1>2, <1>3, <1>4

LEMMA Invariance == Spec => []IInv
  BY InitInv, NextInv, PTL DEF Spec

(* Every variable keeps its type: the requests of any number of jobs leave   *)
(* a well-formed store, whatever commits and refs it holds.                  *)
THEOREM Typing == Spec => []TypeOK
<1>1. IInv => TypeOK
  BY DEF IInv
<1>2. QED
  BY <1>1, Invariance, PTL

(* publish_candidate has one winner per base: two claims made on the same    *)
(* base and reported as acquired on a ref nobody deletes are one claim.      *)
THEOREM OneWinner == Spec => []SingleWinner
<1>1. IInv => SingleWinner
  <2> SUFFICES ASSUME IInv, NEW x \in won, NEW y \in won, x[1] = y[1],
                      x[1] \notin Deletable, info[x[2]].base = info[y[2]].base
               PROVE  x = y
    BY DEF SingleWinner
  <2>1. x \in Ref \X Commit /\ y \in Ref \X Commit
    BY DEF IInv, TypeOK
  <2>2. /\ head[x[1]] \in Known
        /\ x[2] \in lineage[head[x[1]]] \ {Root}
        /\ y[2] \in lineage[head[x[1]]] \ {Root}
    BY DEF IInv, Winners
  <2>3. x[2] = y[2]
    BY <2>2 DEF IInv, Linear
  <2>4. QED
    BY <2>1, <2>3
<1>2. QED
  BY <1>1, Invariance, PTL

(* A ref nobody deletes never points again at a commit it has left.          *)
THEOREM NoReturn == Spec => []NeverReturns
<1>1. IInv => NeverReturns
  BY DEF IInv, Behind, NeverReturns
<1>2. QED
  BY <1>1, Invariance, PTL

(* An acquired token stays in the history of its ref.                        *)
THEOREM WinnersStay == Spec => []WinnerIsAncestor
<1>1. IInv => WinnerIsAncestor
  BY DEF IInv, Winners, WinnerIsAncestor, Known
<1>2. QED
  BY <1>1, Invariance, PTL

(* verify_fencing_token with a witness nobody deletes lets no superseded     *)
(* token through, whatever happens to the coordination ref: the argument of  *)
(* the ABA workflow, for every interleaving.                                 *)
THEOREM WitnessFences == Spec => []NoResurrection
<1>1. IInv => NoResurrection
  BY DEF IInv, LateChecks, Late, NoResurrection
<1>2. QED
  BY <1>1, Invariance, PTL

-------------------------------------------------------------------------------
(* The fencing check of the coordination ref alone *)

\* Only the first read of a check takes a call past it, and it has found the
\* ref at the token.
LEMMA FirstRead ==
  ASSUME TypeOK, [Next]_vars, NEW w \in Worker,
         call[w].step = "fenceRef", call'[w].step \in {"fenceWitness", "fenceMeta"}
  PROVE  head[Coordination] = call[w].cand
<1>1. ASSUME NEW v \in Worker, Begin(v)
      PROVE  call'[w] = call[w]
  BY <1>1 DEF Begin, SeedRef, SeedRefused, Prepare, TryClaim, Publish, CheckFence,
       Start, Finish, Idle, TypeOK
<1>2. ASSUME NEW v \in Worker, Continue(v), v # w
      PROVE  call'[w] = call[w]
  BY <1>2 DEF Continue, SeedReadBack, ReadBase, BuildCandidate, PatchApplied, PatchRefused,
       PatchUnanswered, Confirm, ReportLoss, FenceReadRef, FenceReadWitness, FenceReadMeta,
       Abort, Return, Goto, TypeOK
<1>3. CASE Continue(w)
  <2>1. FenceReadRef(w) \/ Abort(w)
    BY <1>3 DEF Continue, SeedReadBack, ReadBase, BuildCandidate, PatchApplied, PatchRefused,
         PatchUnanswered, Confirm, ReportLoss, FenceReadRef, FenceReadWitness, FenceReadMeta
  <2>2. ASSUME NEW o, Return(w, o) PROVE FALSE
    <3>1. call'[w].step = "idle"
      BY <2>2 DEF Return, NoCall, TypeOK
    <3> QED
      BY <3>1
  <2>3. ~Abort(w)
    BY <2>2 DEF Abort
  <2> QED
    BY <2>1, <2>2, <2>3 DEF FenceReadRef
<1>4. CASE (\E r \in Ref : DeleteRef(r))
           \/ (\E r \in Ref, c \in Commit : Arrive(r, c) \/ Lose(r, c))
           \/ UNCHANGED vars
  BY <1>4 DEF DeleteRef, Arrive, Lose, vars
<1> QED
  BY <1>1, <1>2, <1>3, <1>4 DEF Next

(* The first read of verify_fencing_token lets no token through that the     *)
(* coordination ref has left, as long as nobody deletes that ref.            *)
THEOREM RefFences == Spec => StaleTokenStops
<1>1. IInv /\ [Next]_vars =>
        [\A w \in Worker :
           /\ call[w].step = "fenceRef"
           /\ call'[w].step \in {"fenceWitness", "fenceMeta"}
           /\ Coordination \notin Deletable
           => ~Superseded(Coordination, call[w].cand)]_vars
  <2> SUFFICES ASSUME IInv, [Next]_vars, NEW w \in Worker, call[w].step = "fenceRef",
                      call'[w].step \in {"fenceWitness", "fenceMeta"},
                      Coordination \notin Deletable
               PROVE  call[w].cand \notin left[Coordination]
    BY DEF Superseded
  <2>1. head[Coordination] = call[w].cand
    BY FirstRead DEF IInv
  <2> QED
    BY <2>1 DEF IInv, Behind
<1> QED
  BY <1>1, Invariance, PTL DEF Spec, StaleTokenStops

-------------------------------------------------------------------------------
(* The refinement of LeaseRegister *)

\* Of what a ref has been moved over no two commits have one base.
LEMMA OneDecision == ASSUME IInv PROVE Register!Single(Decided)
<1> SUFFICES ASSUME NEW c \in History \ {Root}, NEW d \in History \ {Root},
                    info[c].base = info[d].base
             PROVE  c = d
  BY DEF Decided, Register!Single
<1>1. head[Coordination] \in Known /\ History = lineage[head[Coordination]]
  BY DEF History, IInv, Made
<1> QED
  BY <1>1 DEF IInv, Linear

\* Commits once passed over stay, with their bases.
LEMMA DecidedGrows ==
  ASSUME IInv, [Next]_vars, Coordination \notin Deletable
  PROVE  /\ History \subseteq History'
         /\ \A c \in History : info'[c] = info[c]
         /\ Decided \subseteq Decided'
<1>1. GraphStep /\ RefStep
  BY Shapes DEF IInv
<1>2. History # {} => head[Coordination] \in Known /\ History = lineage[head[Coordination]]
  BY DEF History, IInv, Made
<1>3. ASSUME NEW c \in History PROVE c \in History' /\ info'[c] = info[c]
  <2>1. (head[Coordination] \in Known /\ c \in lineage[head[Coordination]])'
    BY <1>1, <1>2, HistoryKept DEF IInv
  <2>2. c \in Known
    BY <1>2 DEF IInv, Reachability
  <2>3. NoCommit \notin Known'
    BY DEF Known
  <2> QED
    BY <1>1, <2>1, <2>2, <2>3, GraphGrows DEF History, IInv
<1> QED
  BY <1>3 DEF Decided

LEMMA DecidedTyped == ASSUME IInv PROVE Decided \in SUBSET (Commit \X Commit)
<1>1. \A c \in History : c \in Commit /\ info[c].base \in Commit
  BY DEF History, IInv, TypeOK, Made, Info, Known
<1> QED
  BY <1>1 DEF Decided

\* A claim is granted by a read that finds the ref where the claim put it; no
\* other step tells anybody anything.
LEMMA GrantStep ==
  ASSUME IInv, [Next]_vars, Coordination \notin Deletable
  PROVE  \/ Granted' = Granted
         \/ /\ Decided' = Decided
            /\ \E x \in Decided : Granted' = Granted \cup {x}
<1>1. GraphStep
  BY Shapes DEF IInv
<1>2. CASE UNCHANGED won
  <2> DEFINE Told == {y \in won : y[1] = Coordination /\ y[2] # Root}
  <2>1. \A x \in Told : info'[x[2]] = info[x[2]]
    BY <1>1, GraphGrows DEF IInv, Winners, Reachability
  <2>2. Granted = {<<info[x[2]].base, x[2]>> : x \in Told}
    BY DEF Granted
  <2>3. Granted' = {<<info'[x[2]].base, x[2]>> : x \in Told}
    BY <1>2 DEF Granted
  <2> QED
    BY <2>1, <2>2, <2>3
<1>3. ASSUME NEW w \in Worker, Confirm(w), ~UNCHANGED won
      PROVE  \/ Granted' = Granted
             \/ /\ Decided' = Decided
                /\ \E x \in Decided : Granted' = Granted \cup {x}
  <2> DEFINE c == call[w].cand
             x == <<info[c].base, c>>
  <2>1. /\ won' = won \cup {<<call[w].ref, c>>} /\ head[call[w].ref] = c
        /\ UNCHANGED <<lineage, info, head>>
    BY <1>3 DEF Confirm, storeVars
  <2>2. c \in Known \ {Root}
    BY <1>3 DEF Confirm, IInv, Candidates
  <2>3. Decided' = Decided
    BY <2>1 DEF Decided, History
  <2>4. CASE call[w].ref = Coordination
    <3>1. History = lineage[c]
      BY <2>1, <2>2, <2>4 DEF History, Known
    <3>2. c \in History \ {Root}
      BY <2>2, <3>1 DEF IInv, Reachability
    <3>3. x \in Decided
      BY <3>2 DEF Decided
    <3> DEFINE Told == {y \in won : y[1] = Coordination /\ y[2] # Root}
               Claim(y) == <<info[y[2]].base, y[2]>>
               new == <<Coordination, c>>
    <3>4. Told' = Told \cup {new}
      <4>1. won' = won \cup {new}
        BY <2>1, <2>4
      <4> QED
        BY <2>2, <4>1
    <3>5. Granted = {Claim(y) : y \in Told} /\ Granted' = {Claim(y) : y \in Told'}
      BY <2>1 DEF Granted
    <3>6. Claim(new) = x
      OBVIOUS
    <3>7. Granted' = Granted \cup {x}
      <4> HIDE DEF Told, Claim, new, x
      <4> QED
        BY <3>4, <3>5, <3>6
    <3> QED
      BY <2>3, <3>3, <3>7
  <2>5. CASE call[w].ref # Coordination
    BY <2>1, <2>5 DEF Granted
  <2> QED
    BY <2>4, <2>5
<1>4. UNCHANGED won \/ \E w \in Worker : Confirm(w)
  <2>1. ASSUME NEW w \in Worker, Begin(w) PROVE UNCHANGED won
    BY <2>1 DEF Begin, SeedRef, SeedRefused, Prepare, TryClaim, Publish, CheckFence
  <2>2. ASSUME NEW w \in Worker, Continue(w) PROVE UNCHANGED won \/ Confirm(w)
    BY <2>2 DEF Continue, SeedReadBack, ReadBase, BuildCandidate, PatchApplied, PatchRefused,
         PatchUnanswered, ReportLoss, FenceReadRef, FenceReadWitness, FenceReadMeta, Abort
  <2> QED
    BY <2>1, <2>2 DEF Next, DeleteRef, Arrive, Lose, vars
<1> QED
  BY <1>2, <1>3, <1>4

(* Every step of the lease is, for the abstract register, a takeover, a      *)
(* grant of a takeover that has happened, or nothing, as long as nobody      *)
(* deletes the coordination ref: decisions made by compare-and-swap are      *)
(* final, one for each base, and granted only to whom they name              *)
(* (publish_candidate).                                                      *)
THEOREM LeaseRefinement ==
  ASSUME Coordination \notin Deletable
  PROVE  Spec => ImplementsRegister
<1>1. Init => Register!Init
  BY DEF Init, StoreInit, Register!Init, Decided, Granted, History
<1>2. IInv => Decided \in SUBSET (Commit \X Commit) /\ Register!Single(Decided)
  BY DecidedTyped, OneDecision
<1>3. IInv' => (Decided \in SUBSET (Commit \X Commit) /\ Register!Single(Decided))'
  BY <1>2, PTL
<1>4. IInv /\ IInv' /\ [Next]_vars => [Register!Next]_<<Decided, Granted>>
  <2> SUFFICES ASSUME IInv, IInv', [Next]_vars
               PROVE  Register!Next \/ (Decided' = Decided /\ Granted' = Granted)
    OBVIOUS
  <2>1. CASE Granted' = Granted
    <3>1. Decided \subseteq Decided'
      BY DecidedGrows
    <3>2. Decided' \in SUBSET (Commit \X Commit) /\ Register!Single(Decided)'
      BY <1>3
    <3> QED
      BY <2>1, <3>1, <3>2 DEF Register!Next, Register!Decide, Register!Single
  <2>2. ASSUME Decided' = Decided, NEW x \in Decided, Granted' = Granted \cup {x}
        PROVE  Register!Next
    BY <2>2 DEF Register!Next, Register!Grant
  <2> QED
    BY <2>1, <2>2, GrantStep
<1> QED
  BY <1>1, <1>4, Invariance, PTL DEF Spec, ImplementsRegister, Register!Spec
===============================================================================
