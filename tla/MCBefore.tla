------------------------------- MODULE MCBefore -------------------------------
(* Instances of what is judged before an effect: the evidence, the external   *)
(* root, the contract and the artifacts of earlier decisions.  Each behaviour *)
(* is one of a single module, its part; the variables of the others keep the  *)
(* values they begin with.                                                    *)
EXTENDS JobEvidence, ExternalRoot, Contract, ArtifactListing

VARIABLE part

\* Two lines of one log and one of another; two steps, and times in one only.
Lines == 1 :> 2 @@ 2 :> 1
Steps == <<[from |-> 0, to |-> 1], [from |-> 4, to |-> 5]>>

\* A lookup takes the records of one attempt, and not those of others.
Taken == "first" :> {"of the attempt"}

EvidencePart == part = "evidence" /\ EvidenceNext
  /\ UNCHANGED <<part, rootVars, contractVars, listingVars>>
RootPart == part = "root" /\ RootNext
  /\ UNCHANGED <<part, evidenceVars, contractVars, listingVars>>
ContractPart == part = "contract" /\ ContractNext
  /\ UNCHANGED <<part, evidenceVars, rootVars, listingVars>>
ListingPart == part = "listing" /\ ListingNext
  /\ UNCHANGED <<part, evidenceVars, rootVars, contractVars>>

\* Where a module has several initial states, the others begin in one of them.
BeforeInit ==
  /\ part \in {"evidence", "root", "contract", "listing"}
  /\ EvidenceInit /\ (part = "evidence" \/ attempt = [now |-> 1, most |-> 1])
  /\ RootInit
  /\ ContractInit
  /\ ListingInit

BeforeNext == EvidencePart \/ RootPart \/ ContractPart \/ ListingPart

BeforeSpec ==
  BeforeInit /\ [][BeforeNext]_<<part, evidenceVars, rootVars, contractVars, listingVars>>

\* Commits are interchangeable.
Symmetry == Permutations(Commit \ {Root})
===============================================================================
