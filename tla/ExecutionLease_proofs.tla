------------------------ MODULE ExecutionLease_proofs ------------------------
(***************************************************************************)
(* Proofs about ExecutionLease, for any number of leases, owners and       *)
(* effects and any skew of their clocks.                                   *)
(***************************************************************************)
EXTENDS ExecutionLease, TLAPS

-------------------------------------------------------------------------------
(* The inductive invariant *)

\* A lease with this content follows the leases it commits to: it begins when
\* they have ended, has a higher epoch, and there is one for every lower epoch.
Follows(e, n, t, p) ==
  /\ \A q \in p : /\ lease[q].to <= t
                  /\ lease[q].epoch < n
                  /\ lease[q].effect = e
  /\ \A m \in 1 .. (n - 1) : \E q \in p : lease[q].epoch = m

Ordered ==
  \A i \in Issued :
    /\ lease[i].from < lease[i].to
    /\ lease[i].epoch >= 1
    /\ lease[i].past \subseteq Issued
    /\ Follows(lease[i].effect, lease[i].epoch, lease[i].from, lease[i].past)

\* A check was passed with a lease that alone had the highest epoch of the
\* registry, within its window, on a clock ahead by MaxSkew at most.
Valid(c) ==
  /\ Current(c.lease, c.seen)
  /\ InWindow(c.lease, c.now)
  /\ c.at <= c.now
  /\ c.now <= c.at + MaxSkew

IInv ==
  /\ TypeOK
  /\ Ordered
  /\ \A c \in checks : Valid(c)

LEMMA InitHolds == Init => IInv
<1> SUFFICES ASSUME Init PROVE IInv
  OBVIOUS
<1>1. Issued = {}
  BY DEF Init, Issued
<1>2. TypeOK
  BY <1>1, LeaseAssumption DEF Init, TypeOK
<1>3. QED
  BY <1>1, <1>2 DEF Init, IInv, Ordered

-------------------------------------------------------------------------------
(* Steps that issue a lease *)

LEMMA IssuedContent ==
  ASSUME TypeOK, NEW i \in Issued
  PROVE  i \in Lease /\ lease[i] \in Content
  BY DEF TypeOK, Issued

LEMMA WriteStays ==
  ASSUME IInv, NEW w \in Owner, NEW i \in Lease, NEW e \in Effect,
         NEW n \in Nat \ {0}, NEW t \in Int, NEW d \in Nat \ {0},
         NEW p \in SUBSET Issued, Follows(e, n, t, p),
         Write(w, i, e, n, t, d, p)
  PROVE  IInv'
<1> DEFINE new == [owner |-> w, effect |-> e, epoch |-> n, from |-> t,
                   to |-> t + d, past |-> p]
<1>1. new \in Content
  BY DEF Content, Issued
<1>2. new # NoLease
  BY <1>1, LeaseAssumption
<1> HIDE DEF new
<1>3. lease' = [lease EXCEPT ![i] = new] /\ lease \in [Lease -> Content \cup {NoLease}]
  BY DEF Write, new, IInv, TypeOK
<1>4. /\ lease'[i] = new
      /\ \A j \in Lease : j # i => lease'[j] = lease[j]
      /\ lease' \in [Lease -> Content \cup {NoLease}]
  BY <1>1, <1>3
<1>5. i \notin Issued /\ Issued' = Issued \cup {i}
  BY <1>2, <1>4 DEF Issued, Write
<1>6. \A j \in Issued : lease'[j] = lease[j]
  BY <1>4, <1>5 DEF Issued
<1>7. TypeOK'
  BY <1>4, <1>5 DEF IInv, TypeOK, Write
<1>8. Ordered'
  <2> SUFFICES ASSUME NEW j \in Issued'
               PROVE  /\ lease'[j].from < lease'[j].to
                      /\ lease'[j].epoch >= 1
                      /\ lease'[j].past \subseteq Issued'
                      /\ \A q \in lease'[j].past :
                           /\ lease'[q].to <= lease'[j].from
                           /\ lease'[q].epoch < lease'[j].epoch
                           /\ lease'[q].effect = lease'[j].effect
                      /\ \A m \in 1 .. (lease'[j].epoch - 1) :
                           \E q \in lease'[j].past : lease'[q].epoch = m
    BY DEF Ordered, Follows
  <2>1. CASE j \in Issued
    BY <2>1, <1>5, <1>6 DEF IInv, Ordered, Follows
  <2>2. CASE j = i
    <3>1. /\ lease'[j].from = t /\ lease'[j].to = t + d
          /\ lease'[j].epoch = n /\ lease'[j].effect = e
          /\ lease'[j].past = p
      BY <2>2, <1>4 DEF new
    <3>2. QED
      BY <3>1, <1>5, <1>6 DEF Follows
  <2>3. QED
    BY <2>1, <2>2, <1>5
<1>9. \A c \in checks' : Valid(c)'
  <2> SUFFICES ASSUME NEW c \in checks PROVE Valid(c)'
    BY DEF Write
  <2>1. c.lease \in Issued /\ c.seen \subseteq Issued /\ Valid(c)
    BY DEF IInv, TypeOK
  <2>2. QED
    BY <2>1, <1>6 DEF Valid, Current, InWindow
<1>10. QED
  BY <1>7, <1>8, <1>9 DEF IInv

LEMMA InitialStays ==
  ASSUME IInv, NEW w \in Owner, NEW i \in Lease, NEW e \in Effect,
         NEW t \in Shown, NEW d \in Ttl, Initial(w, i, e, t, d)
  PROVE  IInv'
<1>1. t \in Int /\ d \in Nat \ {0} /\ 1 \in Nat \ {0}
  BY LeaseAssumption DEF Shown, IInv, TypeOK
<1>2. Follows(e, 1, t, {})
  BY DEF Follows
<1>3. QED
  BY <1>1, <1>2, WriteStays DEF Initial

LEMMA TakeoverStays ==
  ASSUME IInv, NEW w \in Owner, NEW i \in Lease, NEW p \in Lease,
         NEW t \in Shown, NEW d \in Ttl, Takeover(w, i, p, t, d)
  PROVE  IInv'
<1> DEFINE past == {p} \cup lease[p].past
<1>1. t \in Int /\ d \in Nat \ {0}
  BY LeaseAssumption DEF Shown, IInv, TypeOK
<1>2. p \in Issued
  BY DEF IInv, TypeOK, Takeover
<1>3. lease[p] \in Content
  BY <1>2, IssuedContent DEF IInv
<1>4. /\ lease[p].from < lease[p].to /\ lease[p].to <= t
      /\ lease[p].from \in Int /\ lease[p].to \in Int
      /\ lease[p].epoch \in Nat \ {0} /\ lease[p].effect \in Effect
      /\ lease[p].past \subseteq Issued
  BY <1>2, <1>3, <1>1 DEF IInv, Ordered, Takeover, Expired, Content
<1>5. Follows(lease[p].effect, lease[p].epoch, lease[p].from, lease[p].past)
  BY <1>2 DEF IInv, Ordered
<1>6. \A q \in Issued : lease[q].to \in Int /\ lease[q].epoch \in Nat
  BY IssuedContent DEF IInv, Content
<1>7. Follows(lease[p].effect, lease[p].epoch + 1, t, past)
  <2>1. ASSUME NEW q \in past
        PROVE  /\ lease[q].to <= t
               /\ lease[q].epoch < lease[p].epoch + 1
               /\ lease[q].effect = lease[p].effect
    BY <1>1, <1>4, <1>5, <1>6 DEF Follows
  <2>2. ASSUME NEW m \in 1 .. lease[p].epoch
        PROVE  \E q \in past : lease[q].epoch = m
    <3>1. CASE m = lease[p].epoch
      BY <3>1
    <3>2. CASE m # lease[p].epoch
      <4>1. m \in 1 .. (lease[p].epoch - 1)
        BY <3>2, <1>4
      <4>2. QED
        BY <4>1, <1>5 DEF Follows
    <3>3. QED
      BY <3>1, <3>2
  <2>3. (lease[p].epoch + 1) - 1 = lease[p].epoch
    BY <1>4
  <2> HIDE DEF past
  <2>4. QED
    BY <2>1, <2>2, <2>3 DEF Follows
<1>8. past \in SUBSET Issued /\ lease[p].epoch + 1 \in Nat \ {0}
  BY <1>2, <1>4
<1>9. Write(w, i, lease[p].effect, lease[p].epoch + 1, t, d, past)
  BY DEF Takeover
<1> HIDE DEF past
<1>10. QED
  BY <1>1, <1>4, <1>7, <1>8, <1>9, WriteStays

LEMMA ResolveStays ==
  ASSUME IInv, NEW w \in Owner, NEW i \in Lease, NEW s \in SUBSET files[w],
         NEW t \in Shown, NEW d \in Ttl, Resolve(w, i, s, t, d)
  PROVE  IInv'
<1>1. t \in Int /\ d \in Nat \ {0}
  BY LeaseAssumption DEF Shown, IInv, TypeOK
<1>2. s \subseteq Issued
  BY DEF IInv, TypeOK
<1>3. PICK e \in Effect, n \in {lease[p].epoch : p \in s} :
        /\ \A p \in s : lease[p].effect = e /\ lease[p].epoch = n
        /\ Write(w, i, e, n + 1, t, d, Lineage(s))
  BY DEF Resolve
<1>4. PICK r \in s : lease[r].epoch = n
  BY <1>3
<1>5. \A q \in Issued : /\ lease[q].to \in Int /\ lease[q].from \in Int
                        /\ lease[q].epoch \in Nat /\ lease[q].epoch >= 1
                        /\ lease[q].past \subseteq Issued
                        /\ lease[q].from < lease[q].to
  BY IssuedContent DEF IInv, Content, Ordered
<1>6. n \in Nat \ {0}
  BY <1>2, <1>4, <1>5
<1>7. ASSUME NEW p \in s
      PROVE  /\ lease[p].to <= t /\ p \in Issued
             /\ lease[p].epoch = n /\ lease[p].effect = e
             /\ Follows(e, n, lease[p].from, lease[p].past)
  <2>1. lease[p].epoch = n /\ lease[p].effect = e /\ p \in Issued
    BY <1>2, <1>3
  <2>2. Follows(lease[p].effect, lease[p].epoch, lease[p].from, lease[p].past)
    BY <2>1 DEF IInv, Ordered
  <2>3. lease[p].to <= t
    BY DEF Resolve, Expired, IInv, TypeOK
  <2>4. QED
    BY <2>1, <2>2, <2>3
<1>8. Follows(e, n + 1, t, Lineage(s))
  <2>1. ASSUME NEW q \in Lineage(s)
        PROVE  /\ lease[q].to <= t
               /\ lease[q].epoch < n + 1
               /\ lease[q].effect = e
    <3>1. CASE q \in s
      BY <3>1, <1>6, <1>7
    <3>2. CASE \E p \in s : q \in lease[p].past
      <4>1. PICK p \in s : q \in lease[p].past
        BY <3>2
      <4>2. lease[q].to <= lease[p].from /\ lease[q].epoch < n /\ lease[q].effect = e
        BY <4>1, <1>7 DEF Follows
      <4>3. lease[p].from < lease[p].to /\ lease[p].to <= t /\ q \in Issued /\ p \in Issued
        BY <4>1, <1>5, <1>7
      <4>4. QED
        BY <4>2, <4>3, <1>1, <1>5, <1>6
    <3>3. QED
      BY <3>1, <3>2 DEF Lineage
  <2>2. ASSUME NEW m \in 1 .. n
        PROVE  \E q \in Lineage(s) : lease[q].epoch = m
    <3>1. CASE m = n
      BY <3>1, <1>4 DEF Lineage
    <3>2. CASE m # n
      <4>1. m \in 1 .. (n - 1)
        BY <3>2, <1>6
      <4>2. PICK q \in lease[r].past : lease[q].epoch = m
        BY <4>1, <1>7, <1>4 DEF Follows
      <4>3. QED
        BY <4>2, <1>4 DEF Lineage
    <3>3. QED
      BY <3>1, <3>2
  <2>3. (n + 1) - 1 = n
    BY <1>6
  <2>4. QED
    BY <2>1, <2>2, <2>3 DEF Follows
<1>9. Lineage(s) \in SUBSET Issued /\ n + 1 \in Nat \ {0}
  BY <1>2, <1>5, <1>6 DEF Lineage
<1>10. QED
  BY <1>1, <1>3, <1>8, <1>9, WriteStays

-------------------------------------------------------------------------------
(* The other steps *)

LEMMA OtherStays ==
  ASSUME IInv, UNCHANGED lease, TypeOK', \A c \in checks' : Valid(c)
  PROVE  IInv'
<1>1. Ordered'
  BY DEF IInv, Ordered, Follows, Issued
<1>2. \A c \in checks' : Valid(c)'
  BY DEF Valid, Current, InWindow
<1>3. QED
  BY <1>1, <1>2 DEF IInv

LEMMA CheckStays ==
  ASSUME IInv, NEW w \in Owner, NEW i \in Lease, NEW e \in Effect,
         NEW t \in Shown, CheckOwnership(w, i, e, t)
  PROVE  IInv'
<1> DEFINE c == [lease |-> i, now |-> t, at |-> clock, seen |-> files[w]]
<1>1. /\ t \in Int /\ clock \in Nat /\ i \in Issued /\ files[w] \subseteq Issued
      /\ clock <= t /\ t <= clock + MaxSkew
  BY LeaseAssumption DEF Shown, IInv, TypeOK, CheckOwnership
<1>2. UNCHANGED <<clock, lease, files>> /\ Issued' = Issued
  BY DEF CheckOwnership, Issued
<1>3. checks' = checks \cup {c} /\ admitted' = [admitted EXCEPT ![w] = i]
  BY DEF CheckOwnership
<1>4. c \in Passed
  BY <1>1 DEF Passed, Issued
<1>5. Valid(c)
  BY <1>1 DEF Valid, CheckOwnership
<1>6. c.lease \in Issued /\ c.seen \subseteq Issued
  BY <1>1
<1> HIDE DEF c
<1>7. TypeOK'
  BY <1>1, <1>2, <1>3, <1>4, <1>6 DEF IInv, TypeOK
<1>8. QED
  BY <1>2, <1>3, <1>5, <1>7, OtherStays DEF IInv

LEMMA FilesStay ==
  ASSUME IInv,
         \/ \E w \in Owner : EndJob(w) \/ RequestRerun(w)
         \/ \E w \in Owner, i \in Lease : Download(w, i)
         \/ Tick
  PROVE  IInv'
<1>1. UNCHANGED <<lease, checks>> /\ Issued' = Issued
  BY DEF EndJob, RequestRerun, Download, Tick, Issued
<1>2. TypeOK'
  <2>1. ASSUME NEW w \in Owner, EndJob(w) PROVE TypeOK'
    BY <2>1, <1>1 DEF IInv, TypeOK, EndJob
  <2>2. ASSUME NEW w \in Owner, RequestRerun(w) PROVE TypeOK'
    BY <2>2, <1>1 DEF IInv, TypeOK, RequestRerun
  <2>3. ASSUME NEW w \in Owner, NEW i \in Lease, Download(w, i) PROVE TypeOK'
    BY <2>3, <1>1 DEF IInv, TypeOK, Download
  <2>4. ASSUME Tick PROVE TypeOK'
    BY <2>4, <1>1 DEF IInv, TypeOK, Tick
  <2>5. QED
    BY <2>1, <2>2, <2>3, <2>4
<1>3. QED
  BY <1>1, <1>2, OtherStays DEF IInv

LEMMA IInvStays == IInv /\ [Next]_vars => IInv'
<1> SUFFICES ASSUME IInv, [Next]_vars PROVE IInv'
  OBVIOUS
<1>1. ASSUME NEW w \in Owner, Issue(w) PROVE IInv'
  <2>1. PICK i \in Lease, t \in Shown, d \in Ttl :
          \/ \E e \in Effect : Initial(w, i, e, t, d)
          \/ \E p \in Lease : Takeover(w, i, p, t, d)
          \/ \E s \in SUBSET files[w] : Resolve(w, i, s, t, d)
    BY <1>1 DEF Issue
  <2>2. QED
    BY <2>1, InitialStays, TakeoverStays, ResolveStays
<1>2. ASSUME NEW w \in Owner, NEW i \in Lease, NEW e \in Effect, NEW t \in Shown,
             CheckOwnership(w, i, e, t)
      PROVE  IInv'
  BY <1>2, CheckStays
<1>3. CASE \/ \E w \in Owner : EndJob(w) \/ RequestRerun(w)
           \/ \E w \in Owner, i \in Lease : Download(w, i)
           \/ Tick
  BY <1>3, FilesStay
<1>4. CASE UNCHANGED vars
  BY <1>4, OtherStays DEF vars, IInv, TypeOK, Issued
<1>5. QED
  BY <1>1, <1>2, <1>3, <1>4 DEF Next

LEMMA Invariance == Spec => []IInv
<1>1. QED
  BY InitHolds, IInvStays, PTL DEF Spec

-------------------------------------------------------------------------------
(* Theorems *)

LEMMA PassedFacts ==
  ASSUME IInv, NEW c \in checks
  PROVE  /\ c.lease \in Issued /\ lease[c.lease] \in Content
         /\ c.now \in Int /\ c.at \in Nat
         /\ lease[c.lease].from <= c.now /\ c.now < lease[c.lease].to
         /\ c.at <= c.now /\ c.now <= c.at + MaxSkew
<1>1. c \in Passed /\ c.lease \in Issued /\ Valid(c)
  BY DEF IInv, TypeOK
<1>2. QED
  BY <1>1, IssuedContent DEF IInv, Valid, InWindow, Passed

(* Leases, registries and checks have their types. *)
THEOREM Typing == Spec => []TypeOK
<1>1. IInv => TypeOK
  BY DEF IInv
<1>2. QED
  BY <1>1, Invariance, PTL

(* Through any number of takeovers and resolutions, checks are passed in the *)
(* order of the leases, as the clocks of the jobs show the time.             *)
THEOREM Handover == Spec => []HandoverOrder
<1>1. ASSUME IInv, NEW c \in checks, NEW d \in checks,
             c.lease \in lease[d.lease].past
      PROVE  c.now < d.now /\ lease[c.lease].effect = lease[d.lease].effect
  <2>1. /\ lease[c.lease].to <= lease[d.lease].from
        /\ lease[c.lease].effect = lease[d.lease].effect
    BY <1>1, PassedFacts DEF IInv, Ordered, Follows
  <2>2. QED
    BY <2>1, <1>1, PassedFacts DEF Content
<1>2. IInv => HandoverOrder
  BY <1>1 DEF HandoverOrder
<1>3. QED
  BY <1>2, Invariance, PTL

(* And in real time, up to the skew of the clocks. *)
THEOREM HandoverTiming == Spec => []HandoverInTime
<1>1. ASSUME IInv, NEW c \in checks, NEW d \in checks,
             c.lease \in lease[d.lease].past
      PROVE  c.at < d.at + MaxSkew
  <2>1. lease[c.lease].to <= lease[d.lease].from
    BY <1>1, PassedFacts DEF IInv, Ordered, Follows
  <2>2. c.now < d.now
    BY <2>1, <1>1, PassedFacts DEF Content
  <2>3. QED
    BY <2>2, <1>1, PassedFacts, LeaseAssumption
<1>2. IInv => HandoverInTime
  BY <1>1 DEF HandoverInTime
<1>3. QED
  BY <1>2, Invariance, PTL

(* Two owners that saw each other's leases do not both pass. *)
THEOREM SeenExcludes == Spec => []MutualView
<1>1. ASSUME IInv, NEW c \in checks, NEW d \in checks,
             c.lease \in d.seen, d.lease \in c.seen, c.lease # d.lease
      PROVE  FALSE
  <2>1. Valid(c) /\ Valid(d)
    BY <1>1 DEF IInv
  <2>2. /\ lease[c.lease].epoch < lease[d.lease].epoch
        /\ lease[d.lease].epoch < lease[c.lease].epoch
    BY <2>1, <1>1 DEF Valid, Current
  <2>3. QED
    BY <2>2, <1>1, PassedFacts DEF Content
<1>2. IInv => MutualView
  BY <1>1 DEF MutualView
<1>3. QED
  BY <1>2, Invariance, PTL

(* As long as no epoch of an effect is claimed twice, one lease of it at a   *)
(* time lets its owner pass, whatever the registries lack.                   *)
THEOREM Exclusion == Spec => []SoleOwner
<1>1. ASSUME IInv, NEW c \in checks, NEW d \in checks,
             Uncontended(lease[c.lease].effect),
             lease[d.lease].effect = lease[c.lease].effect, c.now = d.now,
             lease[c.lease].epoch < lease[d.lease].epoch
      PROVE  FALSE
  <2>1. /\ c.lease \in Issued /\ d.lease \in Issued
        /\ lease[c.lease].epoch \in Nat /\ lease[d.lease].epoch \in Nat
        /\ lease[c.lease].epoch >= 1
    BY <1>1, PassedFacts DEF Content, IInv, Ordered
  <2>2. lease[c.lease].epoch \in 1 .. (lease[d.lease].epoch - 1)
    BY <2>1, <1>1
  <2>3. PICK p \in lease[d.lease].past : lease[p].epoch = lease[c.lease].epoch
    BY <2>1, <2>2, <1>1 DEF IInv, Ordered, Follows
  <2>4. /\ p \in Issued /\ lease[p].effect = lease[d.lease].effect
        /\ lease[p].to <= lease[d.lease].from
    BY <2>1, <2>3, <1>1 DEF IInv, Ordered, Follows
  <2>5. p = c.lease
    BY <2>1, <2>3, <2>4, <1>1 DEF Uncontended
  <2>6. QED
    BY <2>4, <2>5, <1>1, PassedFacts DEF Content
<1>2. ASSUME IInv, NEW c \in checks, NEW d \in checks,
             Uncontended(lease[c.lease].effect),
             lease[d.lease].effect = lease[c.lease].effect, c.now = d.now
      PROVE  c.lease = d.lease
  <2>1. /\ c.lease \in Issued /\ d.lease \in Issued
        /\ lease[c.lease].epoch \in Nat /\ lease[d.lease].epoch \in Nat
    BY <1>2, PassedFacts DEF Content
  <2>2. lease[c.lease].epoch = lease[d.lease].epoch
    <3>1. ~(lease[c.lease].epoch < lease[d.lease].epoch)
      BY <1>1, <1>2
    <3>2. ~(lease[d.lease].epoch < lease[c.lease].epoch)
      BY <1>1, <1>2
    <3>3. QED
      BY <3>1, <3>2, <2>1
  <2>3. QED
    BY <2>1, <2>2, <1>2 DEF Uncontended
<1>3. IInv => SoleOwner
  BY <1>2 DEF SoleOwner
<1>4. QED
  BY <1>3, Invariance, PTL
===============================================================================
