-------------------------- MODULE LinearizableLease --------------------------
(***************************************************************************)
(* linearizable_lease.py: single-winner lease acquisition by              *)
(* compare-and-swap on a git ref, and the fencing check made with the      *)
(* winning commit.  Workers are workflow jobs; each runs one call of the   *)
(* module at a time, and every request of a call to the API is a step of   *)
(* its own, so calls of several jobs interleave between their requests.    *)
(*                                                                         *)
(* A request can fail in two ways that its caller cannot tell apart: it    *)
(* was refused or never arrived, or it was carried out and the answer was  *)
(* lost.  A job can die between any two requests.                          *)
(***************************************************************************)
EXTENDS GitRefs

CONSTANTS
  Worker,        \* jobs that call the module
  Coordination,  \* the ref that names the lease's holder
  Witness,       \* the ref that keeps the high-water mark, if it is a Ref at all
  Deletable,     \* refs that some job may delete and create again
  MaxInflight    \* bound: updates whose caller gave up and that may still arrive

ASSUME LeaseAssumption ==
  /\ Coordination \in Ref
  /\ Coordination # Witness
  /\ Deletable \subseteq Ref
  /\ Plan # {}
  /\ MaxInflight \in Nat

VARIABLES
  call,   \* call[w]: the progress and the locals of the call of worker w
  inflight, \* updates <<ref, candidate>> whose caller stopped waiting for them
  left,   \* history: left[r] is the set of commits that r moved away from
  won     \* history: the claims <<ref, candidate>> reported as acquired

vars == <<lineage, info, head, call, inflight, left, won>>

Step == {"idle", "read", "build", "patch", "confirm", "report", "seed",
         "fenceRef", "fenceWitness", "fenceMeta"}
Outcome == {"none", "ERROR", "SEEDED", "PREPARED", "COORDINATION_BASE_CHANGED",
            "CAS_LOST", "CAS_ACQUIRED", "FENCING_TOKEN_STALE",
            "FENCING_TOKEN_METADATA_MISSING",
            "ABA_WITNESS_MISMATCH", "FENCING_TOKEN_NOT_EXECUTABLE",
            "BINDING_MISMATCH", "FENCE_PASSED"}
Call == [step : Step, ref : Ref, base : Commit, cand : Commit, plan : Plan,
         witnessed : BOOLEAN, late : BOOLEAN, result : Outcome]

NoCall == [step |-> "idle", ref |-> Coordination, base |-> Root, cand |-> Root,
           plan |-> AnyPlan,
           witnessed |-> FALSE, late |-> FALSE, result |-> "none"]

Init ==
  /\ StoreInit
  /\ call = [w \in Worker |-> NoCall]
  /\ inflight = {}
  /\ left = [r \in Ref |-> {}]
  /\ won = {}

-------------------------------------------------------------------------------
(* How a call proceeds: Start it at its first request, Goto the next one,   *)
(* Return from it; Finish is a call that is over with its first request.    *)

Idle(w) == call[w].step = "idle"

Goto(w, s) == call' = [call EXCEPT ![w].step = s]

Start(w, s, r, b, c, p) ==
  /\ Idle(w)
  /\ call' = [call EXCEPT ![w] = [NoCall EXCEPT !.step = s, !.ref = r,
                                   !.base = b, !.cand = c, !.plan = p]]

Finish(w, outcome) ==
  /\ Idle(w)
  /\ call' = [call EXCEPT ![w] = [NoCall EXCEPT !.result = outcome]]

Return(w, outcome) ==
  call' = [call EXCEPT ![w] = [NoCall EXCEPT !.result = outcome,
                                 !.witnessed = call[w].witnessed, !.late = call[w].late]]

\* A ref leaves the commit it points at; the history remembers it.
Leave(r) ==
  left' = [left EXCEPT ![r] = @ \cup ({head[r]} \ {NoCommit})]

\* Strictly behind: r was on c once and has moved on.
Superseded(r, c) == c \in left[r]

-------------------------------------------------------------------------------
(* create_coordination_ref: POST the ref, then read it back. *)

SeedRef(w, r, b) ==
  /\ b \in Known
  /\ head[r] = NoCommit
  /\ Start(w, "seed", r, b, b, AnyPlan)
  /\ MoveRef(r, b)
  /\ UNCHANGED <<inflight, left, won>>

\* The ref exists already: HTTP 422, the request raises.
SeedRefused(w, r) ==
  /\ head[r] # NoCommit
  /\ Finish(w, "ERROR")
  /\ UNCHANGED <<storeVars, inflight, left, won>>

SeedReadBack(w) ==
  LET c == call[w] IN
  /\ c.step = "seed"
  /\ Return(w, IF head[c.ref] = c.base THEN "SEEDED" ELSE "ERROR")
  /\ UNCHANGED <<storeVars, inflight, left, won>>

\* delete_coordination_ref
DeleteRef(r) ==
  /\ r \in Deletable
  /\ head[r] # NoCommit
  /\ MoveRef(r, NoCommit)
  /\ Leave(r)
  /\ UNCHANGED <<call, inflight, won>>

-------------------------------------------------------------------------------
(* build_candidate_commit and build_tombstone_commit, as a job of its own  *)
(* (the prepare commands of the lease CLI) or as a step of try_claim.      *)

BuildCommit(c, b, k, p) ==
  AddCommit(c, b, [kind |-> k, base |-> b, plan |-> p])

Prepare(w, c, b, k, p) ==
  /\ k \in {"claim", "closed"}
  /\ Finish(w, "PREPARED")
  /\ BuildCommit(c, b, k, p)
  /\ UNCHANGED <<inflight, left, won>>

\* try_claim
TryClaim(w, r, b, p) ==
  /\ b \in Known
  /\ Start(w, "read", r, b, b, p)
  /\ UNCHANGED <<storeVars, inflight, left, won>>

ReadBase(w) ==
  LET c == call[w] IN
  /\ c.step = "read"
  /\ \/ head[c.ref] = NoCommit /\ Return(w, "ERROR")
     \/ head[c.ref] = c.base /\ Goto(w, "build")
     \/ head[c.ref] \notin {NoCommit, c.base} /\ Return(w, "COORDINATION_BASE_CHANGED")
  /\ UNCHANGED <<storeVars, inflight, left, won>>

BuildCandidate(w, cand) ==
  /\ call[w].step = "build"
  /\ BuildCommit(cand, call[w].base, "claim", call[w].plan)
  /\ call' = [call EXCEPT ![w].step = "patch", ![w].cand = cand]
  /\ UNCHANGED <<inflight, left, won>>

\* publish_candidate of a commit made earlier (the publish command of the CLI)
Publish(w, r, c) ==
  /\ c \in Known \ {Root}
  /\ Start(w, "patch", r, info[c].base, c, info[c].plan)
  /\ UNCHANGED <<storeVars, inflight, left, won>>

-------------------------------------------------------------------------------
(* publish_candidate: a non-force PATCH, then a read of the ref. *)

Advance(r, c) ==
  /\ FastForward(r, c)
  /\ MoveRef(r, c)
  /\ IF head[r] = c THEN UNCHANGED left ELSE Leave(r)

PatchApplied(w) ==
  /\ call[w].step = "patch"
  /\ Advance(call[w].ref, call[w].cand)
  /\ Goto(w, "confirm")
  /\ UNCHANGED <<inflight, won>>

\* HTTP 422 or 404: not a fast-forward, or the ref is gone.
PatchRefused(w) ==
  /\ call[w].step = "patch"
  /\ ~FastForward(call[w].ref, call[w].cand)
  /\ Goto(w, "report")
  /\ UNCHANGED <<storeVars, inflight, left, won>>

\* The connection fails: the update may still be carried out, or never.
PatchUnanswered(w) ==
  /\ call[w].step = "patch"
  /\ Cardinality(inflight) < MaxInflight
  /\ inflight' = inflight \cup {<<call[w].ref, call[w].cand>>}
  /\ Goto(w, "report")
  /\ UNCHANGED <<storeVars, left, won>>

Arrive(r, c) ==
  /\ <<r, c>> \in inflight
  /\ Advance(r, c)
  /\ inflight' = inflight \ {<<r, c>>}
  /\ UNCHANGED <<call, won>>

\* It never arrives, or is refused when it does.
Lose(r, c) ==
  /\ <<r, c>> \in inflight
  /\ inflight' = inflight \ {<<r, c>>}
  /\ UNCHANGED <<storeVars, call, left, won>>

Confirm(w) ==
  LET c == call[w] IN
  /\ c.step = "confirm"
  /\ IF head[c.ref] = c.cand
       THEN Return(w, "CAS_ACQUIRED") /\ won' = won \cup {<<c.ref, c.cand>>}
       ELSE Return(w, "ERROR") /\ UNCHANGED won
  /\ UNCHANGED <<storeVars, inflight, left>>

ReportLoss(w) ==
  LET c == call[w] IN
  /\ c.step = "report"
  /\ Return(w, IF head[c.ref] = NoCommit THEN "ERROR" ELSE "CAS_LOST")
  /\ UNCHANGED <<storeVars, inflight, left, won>>

-------------------------------------------------------------------------------
(* verify_fencing_token: three reads.  late records whether the witness    *)
(* had already moved past the token when the check began.                  *)

CheckFence(w, t, p, witnessed) ==
  /\ t \in Known
  /\ Idle(w)
  /\ witnessed => Witness \in Ref
  /\ call' = [call EXCEPT ![w] =
                [step |-> "fenceRef", ref |-> Coordination, base |-> t, cand |-> t,
                 plan |-> p, witnessed |-> witnessed,
                 late |-> witnessed /\ Superseded(Witness, t), result |-> "none"]]
  /\ UNCHANGED <<storeVars, inflight, left, won>>

\* What FenceReadRef would be if a token in the history of the ref would do.
FenceReadRefAncestor(w) ==
  LET c == call[w] IN
  /\ c.step = "fenceRef"
  /\ \/ head[Coordination] = NoCommit /\ Return(w, "ERROR")
     \/ /\ head[Coordination] # NoCommit
        /\ IF c.cand \in lineage[head[Coordination]]
             THEN Goto(w, IF c.witnessed THEN "fenceWitness" ELSE "fenceMeta")
             ELSE Return(w, "FENCING_TOKEN_STALE")
  /\ UNCHANGED <<storeVars, inflight, left, won>>

FenceReadRef(w) ==
  LET c == call[w] IN
  /\ c.step = "fenceRef"
  /\ \/ head[Coordination] = NoCommit /\ Return(w, "ERROR")
     \/ head[Coordination] \notin {NoCommit, c.cand} /\ Return(w, "FENCING_TOKEN_STALE")
     \/ /\ head[Coordination] = c.cand
        /\ Goto(w, IF c.witnessed THEN "fenceWitness" ELSE "fenceMeta")
  /\ UNCHANGED <<storeVars, inflight, left, won>>

\* The same leniency towards the witness.
FenceReadWitnessAncestor(w) ==
  LET c == call[w] IN
  /\ c.step = "fenceWitness"
  /\ \/ head[Witness] = NoCommit /\ Return(w, "ERROR")
     \/ /\ head[Witness] # NoCommit
        /\ IF c.cand \in lineage[head[Witness]]
             THEN Goto(w, "fenceMeta")
             ELSE Return(w, "ABA_WITNESS_MISMATCH")
  /\ UNCHANGED <<storeVars, inflight, left, won>>

FenceReadWitness(w) ==
  LET c == call[w] IN
  /\ c.step = "fenceWitness"
  /\ \/ head[Witness] = NoCommit /\ Return(w, "ERROR")
     \/ head[Witness] \notin {NoCommit, c.cand} /\ Return(w, "ABA_WITNESS_MISMATCH")
     \/ head[Witness] = c.cand /\ Goto(w, "fenceMeta")
  /\ UNCHANGED <<storeVars, inflight, left, won>>

FenceReadMeta(w) ==
  LET c == call[w] m == info[c.cand] IN
  /\ c.step = "fenceMeta"
  /\ Return(w, CASE m.kind = "source" -> "FENCING_TOKEN_METADATA_MISSING"
                 [] m.kind = "closed" -> "FENCING_TOKEN_NOT_EXECUTABLE"
                 [] m.kind = "claim" /\ m.plan # c.plan -> "BINDING_MISMATCH"
                 [] OTHER -> "FENCE_PASSED")
  /\ UNCHANGED <<storeVars, inflight, left, won>>

-------------------------------------------------------------------------------
\* A read fails three times, or the job is cancelled or its runner lost.
Abort(w) ==
  /\ ~Idle(w)
  /\ Return(w, "ERROR")
  /\ UNCHANGED <<storeVars, inflight, left, won>>

Begin(w) ==
  \/ \E r \in Ref, b \in Commit : SeedRef(w, r, b)
  \/ \E r \in Ref : SeedRefused(w, r)
  \/ \E c, b \in Commit, k \in Kind, p \in Plan : Prepare(w, c, b, k, p)
  \/ \E r \in Ref, b \in Commit, p \in Plan : TryClaim(w, r, b, p)
  \/ \E r \in Ref, c \in Commit : Publish(w, r, c)
  \/ \E t \in Commit, p \in Plan, x \in BOOLEAN : CheckFence(w, t, p, x)

Continue(w) ==
  \/ SeedReadBack(w)
  \/ ReadBase(w)
  \/ \E c \in Commit : BuildCandidate(w, c)
  \/ PatchApplied(w)
  \/ PatchRefused(w)
  \/ PatchUnanswered(w)
  \/ Confirm(w)
  \/ ReportLoss(w)
  \/ FenceReadRef(w)
  \/ FenceReadWitness(w)
  \/ FenceReadMeta(w)
  \/ Abort(w)

Next ==
  \/ \E w \in Worker : Begin(w) \/ Continue(w)
  \/ \E r \in Ref : DeleteRef(r)
  \/ \E r \in Ref, c \in Commit : Arrive(r, c) \/ Lose(r, c)

Spec == Init /\ [][Next]_vars

-------------------------------------------------------------------------------
(* Properties *)

TypeOK ==
  /\ lineage \in [Commit -> SUBSET Commit]
  /\ info \in [Commit -> Info]
  /\ head \in [Ref -> Commit \cup {NoCommit}]
  /\ call \in [Worker -> Call]
  /\ inflight \in SUBSET (Ref \X Commit)
  /\ left \in [Ref -> SUBSET Commit]
  /\ won \in SUBSET (Ref \X Commit)

(* Of all claims made on one base commit, at most one is ever reported as    *)
(* acquired, however the requests of the claimants interleave, and even when *)
(* an update arrives after its caller gave up on it: publish_candidate's     *)
(* compare-and-swap.  It holds for a ref nobody deletes.                     *)
SingleWinner ==
  \A x, y \in won :
    /\ x[1] = y[1]
    /\ x[1] \notin Deletable
    /\ info[x[2]].base = info[y[2]].base
    => x = y

(* A ref that nobody deletes never points again at a commit it has left:     *)
(* what makes a superseded fencing token useless forever.                    *)
NeverReturns ==
  \A r \in Ref \ Deletable : head[r] \notin left[r]

(* A token reported as acquired stays in the history of its ref, so every    *)
(* later holder has taken over from it, directly or through others.          *)
WinnerIsAncestor ==
  \A x \in won :
    x[1] \notin Deletable =>
      /\ head[x[1]] # NoCommit
      /\ x[2] \in lineage[head[x[1]]]

(* verify_fencing_token with a witness ref: a token the witness had already  *)
(* moved past when the check began does not pass, even when the coordination *)
(* ref was deleted and created again at that very token (ABA).               *)
NoResurrection ==
  \A w \in Worker :
    /\ Witness \notin Deletable
    /\ call[w].result = "FENCE_PASSED"
    /\ call[w].witnessed
    => ~call[w].late

(* The same of the coordination ref alone, when nobody deletes it: a check   *)
(* in verify_fencing_token lets no token through that the ref has left.      *)
StaleTokenStops ==
  [][\A w \in Worker :
       /\ call[w].step = "fenceRef"
       /\ call'[w].step \in {"fenceWitness", "fenceMeta"}
       /\ Coordination \notin Deletable
       => ~Superseded(Coordination, call[w].cand)]_vars

(* A claim reported as CAS_LOST was beaten: if the ref has moved on from the *)
(* base of the claim, publish_candidate re-reads some other commit than its  *)
(* own candidate.  (It does not hold: a lost answer is reported as a loss.)  *)
LossIsReal ==
  [][\A w \in Worker :
       /\ call[w].step = "report"
       /\ call'[w].result = "CAS_LOST"
       /\ Superseded(call[w].ref, call[w].base)
       => head[call[w].ref] # call[w].cand]_vars
===============================================================================
