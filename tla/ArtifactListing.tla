---------------------------- MODULE ArtifactListing ----------------------------
(***************************************************************************)
(* How decision_history.py looks for the one artifact of an earlier        *)
(* decision, or for the receipt of one: GitHub lists artifacts newest      *)
(* first, and the listing is read page by page while other workflows       *)
(* upload, artifacts expire, and people delete them.                       *)
(***************************************************************************)
EXTENDS Integers, Sequences, FiniteSets, SequencesExt

CONSTANTS
  Reader,       \* the lookups
  ArtifactName,
  Wanted,       \* Wanted[r]: the names that lookup r takes
  PageSize,     \* 100 in the code
  MaxPages,     \* 5 in the code
  MaxUploads    \* bound: artifacts

ASSUME ListingAssumption ==
  /\ Wanted \in [Reader -> SUBSET ArtifactName]
  /\ PageSize \in Nat \ {0}
  /\ MaxPages \in Nat \ {0}
  /\ MaxUploads \in Nat

VARIABLES
  nameOf,       \* nameOf[a]: the name of the artifact whose id is a
  newestFirst,  \* the ids that are listed
  expired,      \* the ids listed as expired
  lookup        \* lookup[r]: the state of lookup r

listingVars == <<nameOf, newestFirst, expired, lookup>>

(* matches are the pairs of a page and an id found on it: an artifact that   *)
(* moves to the next page between two requests is found twice.  History:     *)
(* since, what was listed when the first page was read; steady, whether      *)
(* nothing was removed between the pages; fits, whether all was on the       *)
(* pages that are read, when the last of them was.                           *)
Lookup == [step : {"reading", "returned", "raised"},
           page : 0 .. MaxPages,
           matches : SUBSET ((1 .. MaxPages) \X (1 .. MaxUploads)),
           since : SUBSET (1 .. MaxUploads),
           steady : BOOLEAN,
           fits : BOOLEAN]

ListingTypeOK ==
  /\ nameOf \in Seq(ArtifactName) /\ Len(nameOf) \leq MaxUploads
  /\ newestFirst \in Seq(DOMAIN nameOf)
  /\ expired \subseteq ToSet(newestFirst)
  /\ lookup \in [Reader -> Lookup]

ListingInit ==
  /\ nameOf = <<>>
  /\ newestFirst = <<>>
  /\ expired = {}
  /\ lookup = [r \in Reader |-> [step |-> "reading", page |-> 0, matches |-> {}, since |-> {},
                                 steady |-> TRUE, fits |-> TRUE]]

-------------------------------------------------------------------------------
(* GitHub, other workflows and people. *)

UploadArtifact(n) ==
  /\ Len(nameOf) < MaxUploads
  /\ nameOf' = Append(nameOf, n)
  /\ newestFirst' = <<Len(nameOf) + 1>> \o newestFirst
  /\ UNCHANGED <<expired, lookup>>

ExpireArtifact(a) ==
  /\ a \in ToSet(newestFirst) \ expired
  /\ expired' = expired \cup {a}
  /\ UNCHANGED <<nameOf, newestFirst, lookup>>

\* Those between two pages see what follows move up.
BetweenPages(l) == l.step = "reading" /\ l.page > 0

RemoveArtifact(i) ==
  /\ newestFirst' = RemoveAt(newestFirst, i)
  /\ lookup' = [r \in Reader |->
                 [lookup[r] EXCEPT !.steady = @ /\ ~BetweenPages(lookup[r])]]
  /\ expired' = expired \ {newestFirst[i]}
  /\ UNCHANGED nameOf

-------------------------------------------------------------------------------
(* find_previous_decision_artifact, find_matching_receipt_artifact: one page  *)
(* at a time.  DecisionHistoryError ends a lookup, as a request does that     *)
(* fails.                                                                     *)

\* The positions on page k.
Positions(k) == {i \in DOMAIN newestFirst : (k - 1) * PageSize < i /\ i \leq k * PageSize}

\* _artifact_ref, and the same conditions for a receipt.
MatchesOn(r, k) ==
  {<<k, newestFirst[i]>> : i \in {j \in Positions(k) : /\ newestFirst[j] \notin expired
                                                       /\ nameOf[newestFirst[j]] \in Wanted[r]}}

\* A page that is not full is the last one.
LastPage(k) == k = MaxPages \/ Cardinality(Positions(k)) < PageSize

\* What Judge would be if the latest of several matches were chosen.
TakeLatest(matches) == "returned"

\* More than one match is an error, never a choice.
Judge(matches) == IF Cardinality(matches) > 1 THEN "raised" ELSE "returned"

ReadPage(r) ==
  LET l == lookup[r]
      k == l.page + 1
      matches == l.matches \cup MatchesOn(r, k)
      last == LastPage(k)
  IN /\ l.step = "reading"
     /\ k \leq MaxPages
     /\ lookup' = [lookup EXCEPT ![r] =
                    [step |-> IF last THEN Judge(matches) ELSE "reading",
                     page |-> k,
                     matches |-> matches,
                     since |-> IF k = 1 THEN ToSet(newestFirst) ELSE l.since,
                     steady |-> l.steady,
                     fits |-> Len(newestFirst) \leq MaxPages * PageSize]]
     /\ UNCHANGED <<nameOf, newestFirst, expired>>

\* The request fails, or answers with something that is no listing.
PageUnavailable(r) ==
  /\ lookup[r].step = "reading"
  /\ lookup' = [lookup EXCEPT ![r].step = "raised"]
  /\ UNCHANGED <<nameOf, newestFirst, expired>>

ListingNext ==
  \/ \E n \in ArtifactName : UploadArtifact(n)
  \/ \E a \in DOMAIN nameOf : ExpireArtifact(a)
  \/ \E i \in DOMAIN newestFirst : RemoveArtifact(i)
  \/ \E r \in Reader : ReadPage(r) \/ PageUnavailable(r)

ListingSpec == ListingInit /\ [][ListingNext]_listingVars

-------------------------------------------------------------------------------
\* The artifacts that a lookup would still take.
Candidates(r) == {a \in ToSet(newestFirst) \ expired : nameOf[a] \in Wanted[r]}

Found(l) == {m[2] : m \in l.matches}

\* A lookup that nobody cut short: nothing was removed under it, and five
\* pages were enough.
Undisturbed(l) == l.step = "returned" /\ l.steady /\ l.fits

\* What a lookup returns has no rival (find_previous_decision_artifact, "one
\* unique"): a candidate that was there when the lookup began, or is older
\* than the artifact it found, is that artifact, however many were uploaded
\* between the pages.  A lookup that returns none leaves none behind.
NoRival ==
  \A r \in Reader : Undisturbed(lookup[r]) =>
    \A a \in Candidates(r) :
      a \in lookup[r].since \/ (\E b \in Found(lookup[r]) : a \leq b) =>
        Found(lookup[r]) = {a}
===============================================================================
