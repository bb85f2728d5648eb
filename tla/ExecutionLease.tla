---------------------------- MODULE ExecutionLease ----------------------------
(***************************************************************************)
(* execution_lease.py and e2e/execution_lease_cli.py: ownership of a       *)
(* deferred effect by a lease that is a sealed file.  Jobs issue leases,   *)
(* publish them as artifacts, download the ones they want into a registry  *)
(* directory, and the executor passes its lease check when its lease is    *)
(* the only one of the highest epoch in that directory and has not         *)
(* expired.  Nothing is shared but the artifacts: two jobs may take over   *)
(* the same lease, and a registry may lack what others have published.     *)
(*                                                                         *)
(* A digest commits to the previous lease (or set of leases) and through   *)
(* it to all before, so a lease carries the set `past' of the leases its   *)
(* digest commits to.  Every job reads its own clock; `clock' is the time  *)
(* of the slowest, and no other is more than MaxSkew ahead of it.          *)
(***************************************************************************)
EXTENDS Integers, FiniteSets

CONSTANTS
  Lease,       \* lease ids (bound: the leases that can be issued)
  NoLease,     \* no lease: what is not issued, or not held
  Owner,       \* executor ids; each runs one job at a time
  Effect,      \* what a lease binds: decision record, plan, repository, run
  Ttl,         \* times to live
  MaxSkew,     \* how far the clocks of two jobs may be apart
  MaxClock,    \* bound: the last moment of a behaviour
  MaxChecks    \* bound: checks passed in a behaviour

Content == [owner : Owner, effect : Effect, epoch : Nat, from : Int, to : Int,
            past : SUBSET Lease]

ASSUME LeaseAssumption ==
  /\ NoLease \notin Lease \cup Content
  /\ Ttl \subseteq Nat \ {0}
  /\ MaxSkew \in Nat

VARIABLES
  clock,      \* the time
  lease,      \* lease[i]: the content of lease i, or NoLease
  files,      \* files[w]: the lease files of w's current job
  admitted,   \* admitted[w]: the lease w's executor has passed its check with
  checks      \* history: the checks passed

vars == <<clock, lease, files, admitted, checks>>

Passed == [lease : Lease, now : Int, at : Nat, seen : SUBSET Lease]

Issued == {i \in Lease : lease[i] # NoLease}

TypeOK ==
  /\ clock \in Nat
  /\ lease \in [Lease -> Content \cup {NoLease}]
  /\ files \in [Owner -> SUBSET Issued]
  /\ admitted \in [Owner -> Issued \cup {NoLease}]
  /\ checks \subseteq Passed
  /\ \A c \in checks : c.lease \in Issued /\ c.seen \subseteq Issued

Init ==
  /\ clock = 0
  /\ lease = [i \in Lease |-> NoLease]
  /\ files = [w \in Owner |-> {}]
  /\ admitted = [w \in Owner |-> NoLease]
  /\ checks = {}

-----------------------------------------------------------------------------
(* Issuing.  A lease id is new (uuid4), so two leases are never equal.      *)

\* What a job's clock may show.
Shown == clock .. (clock + MaxSkew)

Write(w, i, e, n, t, d, p) ==
  /\ i \notin Issued
  /\ lease' = [lease EXCEPT ![i] =
       [owner |-> w, effect |-> e, epoch |-> n, from |-> t, to |-> t + d,
        past |-> p]]
  /\ files' = [files EXCEPT ![w] = @ \cup {i}]
  /\ UNCHANGED <<clock, admitted, checks>>

Initial(w, i, e, t, d) ==
  /\ t \in Shown
  /\ Write(w, i, e, 1, t, d, {})

\* What Expired would be if a lease could be taken over in its last moment.
ExpiringAt(p, t) == t + 1 >= lease[p].to
Expired(p, t) == t >= lease[p].to

Takeover(w, i, p, t, d) ==
  /\ p \in files[w]
  /\ t \in Shown
  /\ Expired(p, t)
  /\ Write(w, i, lease[p].effect, lease[p].epoch + 1, t, d,
           {p} \cup lease[p].past)

Lineage(s) == s \cup UNION {lease[p].past : p \in s}

Resolve(w, i, s, t, d) ==
  /\ s \subseteq files[w]
  /\ Cardinality(s) >= 2
  /\ t \in Shown
  /\ \A p \in s : Expired(p, t)
  /\ \E e \in Effect, n \in {lease[p].epoch : p \in s} :
       /\ \A p \in s : lease[p].effect = e /\ lease[p].epoch = n
       /\ Write(w, i, e, n + 1, t, d, Lineage(s))

-----------------------------------------------------------------------------
(* Artifacts and jobs.                                                      *)

\* A lease that was not uploaded is one that no other job downloads.
Download(w, i) ==
  /\ i \in Issued \ files[w]
  /\ files' = [files EXCEPT ![w] = @ \cup {i}]
  /\ UNCHANGED <<clock, lease, admitted, checks>>

\* A job ends or dies; the next one of the same owner starts with no files.
EndJob(w) ==
  /\ files[w] # {} \/ admitted[w] # NoLease
  /\ files' = [files EXCEPT ![w] = {}]
  /\ admitted' = [admitted EXCEPT ![w] = NoLease]
  /\ UNCHANGED <<clock, lease, checks>>

-----------------------------------------------------------------------------
(* The executor.                                                            *)

\* What Current would be if the registry's first lease of the highest epoch
\* were taken.
OneOfCurrent(i, r) == i \in r /\ \A j \in r : lease[j].epoch <= lease[i].epoch
\* i alone has the highest epoch of registry r.
Current(i, r) == i \in r /\ \A j \in r \ {i} : lease[j].epoch < lease[i].epoch

\* What InWindow would be if the end of the window were within it.
InClosedWindow(i, t) == lease[i].from <= t /\ t <= lease[i].to
InWindow(i, t) == lease[i].from <= t /\ t < lease[i].to

CheckOwnership(w, i, e, t) ==
  /\ admitted[w] = NoLease
  /\ i \in files[w]
  /\ t \in Shown
  /\ Current(i, files[w])
  /\ lease[i].owner = w
  /\ lease[i].effect = e
  /\ InWindow(i, t)
  /\ Cardinality(checks) < MaxChecks
  /\ admitted' = [admitted EXCEPT ![w] = i]
  /\ checks' = checks \cup
       {[lease |-> i, now |-> t, at |-> clock, seen |-> files[w]]}
  /\ UNCHANGED <<clock, lease, files>>

\* The guards that follow the lease check pass, and the rerun is requested.
\* One of them may refuse instead (EndJob).
RequestRerun(w) ==
  /\ admitted[w] # NoLease
  /\ admitted' = [admitted EXCEPT ![w] = NoLease]
  /\ UNCHANGED <<clock, lease, files, checks>>

Tick ==
  /\ clock < MaxClock
  /\ clock' = clock + 1
  /\ UNCHANGED <<lease, files, admitted, checks>>

Issue(w) ==
  \E i \in Lease, t \in Shown, d \in Ttl :
    \/ \E e \in Effect : Initial(w, i, e, t, d)
    \/ \E p \in Lease : Takeover(w, i, p, t, d)
    \/ \E s \in SUBSET files[w] : Resolve(w, i, s, t, d)

Next ==
  \/ \E w \in Owner : Issue(w) \/ EndJob(w) \/ RequestRerun(w)
  \/ \E w \in Owner, i \in Lease : Download(w, i)
  \/ \E w \in Owner, i \in Lease, e \in Effect, t \in Shown :
       CheckOwnership(w, i, e, t)
  \/ Tick

Spec == Init /\ [][Next]_vars

-----------------------------------------------------------------------------
(* Properties.                                                              *)

\* Ownership passes on in order: a check passed with a lease that another
\* lease descends from, by takeovers or resolutions, however many, is for the
\* same effect and bears an earlier time than any check passed with that
\* other lease, whichever jobs made them and whatever their clocks show
\* (build_takeover_lease, build_contention_resolution_lease,
\* verify_effect_ownership).
HandoverOrder ==
  \A c, d \in checks :
    c.lease \in lease[d.lease].past =>
      /\ c.now < d.now
      /\ lease[c.lease].effect = lease[d.lease].effect

\* In real time the same order holds up to the skew of the clocks.
HandoverInTime ==
  \A c, d \in checks :
    c.lease \in lease[d.lease].past => c.at < d.at + MaxSkew

\* Two owners that had each other's lease in their registry cannot both pass
\* (current_registry_lease refuses an epoch with two leases).
MutualView ==
  \A c, d \in checks :
    c.lease \in d.seen /\ d.lease \in c.seen => c.lease = d.lease

\* No two leases of e share an epoch: the contention that the registry is
\* there to find has not arisen.
Uncontended(e) ==
  \A i, j \in Issued :
    /\ lease[i].effect = e /\ lease[j].effect = e
    /\ lease[i].epoch = lease[j].epoch
    => i = j

\* Without contention a lease excludes all others of its effect: two checks
\* that pass at one time, as their clocks show it, are with the same lease,
\* even with registries that lack leases.
SoleOwner ==
  \A c, d \in checks :
    LET e == lease[c.lease].effect IN
      Uncontended(e) /\ lease[d.lease].effect = e /\ c.now = d.now
        => c.lease = d.lease

\* The module's docstring: a worker may execute a plan only while it owns the
\* lease.  The lease is checked first and the rerun requested last.
EffectWhileOwned ==
  [][\A w \in Owner : RequestRerun(w) => clock < lease[admitted[w]].to]_vars
===============================================================================
