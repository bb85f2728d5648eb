---------------------------- MODULE LeaseRegister ----------------------------
(***************************************************************************)
(* What a lease on a git ref promises: for every base commit one decision  *)
(* among the claims made on it.  A decision is final, and a claim is       *)
(* granted only when it is the decision.                                   *)
(***************************************************************************)
CONSTANT Commit

VARIABLES
  decided,  \* the pairs <<b, c>> such that c took over from b
  granted   \* those of which the claimant was told

Init ==
  /\ decided = {}
  /\ granted = {}

\* No base has two decisions.
Single(s) == \A x, y \in s : x[1] = y[1] => x = y

\* Takeovers from bases that were undecided.
Decide ==
  /\ UNCHANGED granted
  /\ decided \subseteq decided'
  /\ decided' \in SUBSET (Commit \X Commit)
  /\ Single(decided')

Grant(x) ==
  /\ UNCHANGED decided
  /\ granted' = granted \cup {x}

Next == Decide \/ \E x \in decided : Grant(x)

Spec == Init /\ [][Next]_<<decided, granted>>
===============================================================================
