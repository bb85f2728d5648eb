----------------------------- MODULE ExternalRoot -----------------------------
(***************************************************************************)
(* external_monotonic_root.py and its command line: roots, attested for    *)
(* the anchor of one decision and plan, below which no fencing token may   *)
(* reach the effect.  The refs of the lease are left out: whoever can      *)
(* delete them and create them again can make them point at any commit, so *)
(* all that verify_fencing_token tells here is what the token's own        *)
(* metadata say.                                                           *)
(*                                                                         *)
(* Jobs build commits (a claim or a tombstone on any base) and attest      *)
(* roots; the command line takes epoch, token and state as arguments and   *)
(* compares them with nothing.  The attestations API shows an attestation  *)
(* some time after it was made, and at most one page of them.              *)
(***************************************************************************)
EXTENDS GitRefs

CONSTANTS
  Executor,         \* executions of the effect boundary
  Epoch,            \* the epochs roots may be given
  MaxAttestations,  \* attestations on a page of the API
  MaxRoots          \* bound: roots attested

ASSUME RootAssumption ==
  /\ Epoch \subseteq Nat \ {0} /\ Epoch # {}
  /\ Plan # {}
  /\ MaxAttestations \in Nat

VARIABLES
  attested,   \* the roots attested, for any anchor
  listed,     \* those the API shows
  exec        \* exec[x]: the progress of execution x

rootVars == <<storeVars, attested, listed, exec>>

\* A root and its anchor: one plan stands for run, decision record and plan.
RootRecord == [epoch : Epoch, token : Commit, closed : BOOLEAN, plan : Plan]

AnyRoot == CHOOSE r \in RootRecord : TRUE

Of(s, p) == {r \in s : r.plan = p}

\* floor is history: the roots of the plan listed when the execution began.
Exec == [step : {"idle", "list", "compare", "passed", "refused"},
         token : Commit, root : RootRecord, floor : SUBSET RootRecord]

RootTypeOK ==
  /\ lineage \in [Commit -> SUBSET Commit]
  /\ info \in [Commit -> Info]
  /\ head \in [Ref -> Commit \cup {NoCommit}]
  /\ attested \subseteq RootRecord
  /\ listed \subseteq attested
  /\ exec \in [Executor -> Exec]

RootInit ==
  /\ StoreInit
  /\ attested = {}
  /\ listed = {}
  /\ exec = [x \in Executor |-> [step |-> "idle", token |-> Root, root |-> AnyRoot,
                                 floor |-> {}]]

-----------------------------------------------------------------------------
\* build_candidate_commit, build_tombstone_commit
BuildCommit(c, b, k, p) ==
  /\ k \in {"claim", "closed"}
  /\ AddCommit(c, b, [kind |-> k, base |-> b, plan |-> p])
  /\ UNCHANGED <<attested, listed, exec>>

\* The build command with a commit of the lease, and the attestation of its
\* predicate for its anchor.
Attest(r) ==
  /\ r.token \in Known \ {Root}
  /\ Cardinality(attested) < MaxRoots
  /\ attested' = attested \cup {r}
  /\ UNCHANGED <<storeVars, listed, exec>>

ShowAttestation(r) ==
  /\ r \in attested \ listed
  /\ listed' = listed \cup {r}
  /\ UNCHANGED <<storeVars, attested, exec>>

-----------------------------------------------------------------------------
(* verify_external_monotonic_root.                                          *)

\* read_root_record, verify_root_binding, verify_anchor_binding: record r is
\* about the plan of the execution.  The fence has let token t through.
\* verify_sigstore_attestation: the bundle supplied attests the anchor with
\* some root, not necessarily the one supplied.
Begin(x, t, r) ==
  /\ exec[x].step = "idle"
  /\ t \in Known
  /\ info[t].kind = "claim" /\ info[t].plan = r.plan
  /\ Of(attested, r.plan) # {}
  /\ exec' = [exec EXCEPT ![x] =
       [step |-> "list", token |-> t, root |-> r, floor |-> Of(listed, r.plan)]]
  /\ UNCHANGED <<storeVars, attested, listed>>

Goto(x, s) ==
  /\ exec' = [exec EXCEPT ![x].step = s]
  /\ UNCHANGED <<storeVars, attested, listed>>

\* The attestations of anchor p that one request may return.
Page(p) ==
  {s \in SUBSET Of(listed, p) :
     s = Of(listed, p) \/ Cardinality(s) = MaxAttestations}

Complete(s) == s # {} /\ Cardinality(s) < MaxAttestations

\* What Latest would be if an attestation of any epoch would do.
Attested(r, s) == r \in s
\* r alone has the highest epoch of s.
Latest(r, s) == r \in s /\ \A q \in s \ {r} : q.epoch < r.epoch

\* verify_sigstore_attestation_set, verify_latest_root_attestation
VerifyLatest(x) ==
  /\ exec[x].step = "list"
  /\ \E s \in Page(exec[x].root.plan) : Complete(s) /\ Latest(exec[x].root, s)
  /\ Goto(x, "compare")

\* What NotBelow would be if a token in the root's history would do.
Related(r, t) == r.token \in lineage[t] \/ t \in lineage[r.token]
NotBelow(r, t) == r.token \in lineage[t]

\* verify_token_not_below_root: the token is the root's or ahead of it.
CompareToken(x) ==
  /\ exec[x].step = "compare"
  /\ NotBelow(exec[x].root, exec[x].token)
  /\ Goto(x, "passed")

\* A check that does not hold, an answer that is missing or malformed, or a
\* request that failed: EXTERNAL_MONOTONIC_ROOT_BLOCK.
Refuse(x) ==
  /\ exec[x].step \in {"list", "compare"}
  /\ Goto(x, "refused")

RootNext ==
  \/ \E c, b \in Commit, k \in Kind, p \in Plan : BuildCommit(c, b, k, p)
  \/ \E r \in RootRecord : Attest(r) \/ ShowAttestation(r)
  \/ \E x \in Executor, t \in Commit, r \in RootRecord : Begin(x, t, r)
  \/ \E x \in Executor :
       VerifyLatest(x) \/ CompareToken(x) \/ Refuse(x)

RootSpec == RootInit /\ [][RootNext]_rootVars

-----------------------------------------------------------------------------
(* Properties.                                                              *)

RootPassed == {x \in Executor : exec[x].step = "passed"}

\* The root an execution passes with is above every other that was listed for
\* the anchor when it began: an authentic old root does not pass once a later
\* one is listed, and of two roots of one epoch neither does
\* (verify_latest_root_attestation, and the refusal of a full page).
LatestRootOnly ==
  \A x \in RootPassed : \A q \in exec[x].floor \ {exec[x].root} :
    q.epoch < exec[x].root.epoch

\* The roots of a plan were attested in the order of the lineage, as the
\* workflow does it: each on a descendant of those before.
Orderly(p) ==
  \A q, r \in Of(attested, p) : q.epoch <= r.epoch => q.token \in lineage[r.token]

\* High-water mark: a token that passes is, or descends from, the token of
\* every root listed when its execution began, whatever became of the refs.
FloorHolds ==
  \A x \in RootPassed :
    Orderly(exec[x].root.plan) =>
      \A q \in exec[x].floor : q.token \in lineage[exec[x].token]

\* A root that says CLOSED was made for a tombstone.
Honest(q) == q.closed => info[q.token].kind = "closed"

\* After a closing is listed, no token of the closed history passes, not even
\* one that the refs have been made to point at again.
ClosedHistoryEnds ==
  \A x \in RootPassed :
    Orderly(exec[x].root.plan) =>
      \A q \in exec[x].floor :
        q.closed /\ Honest(q) => exec[x].token \notin lineage[q.token]
===============================================================================
