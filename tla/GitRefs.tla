------------------------------- MODULE GitRefs -------------------------------
(***************************************************************************)
(* The part of GitHub's git-data API that the lease code relies on: a      *)
(* store of immutable commits and a few branches (refs) that point at      *)
(* them.  This service is external to the repository; it is modelled from  *)
(* the requests linearizable_lease.py sends and the answers it expects.    *)
(*                                                                         *)
(* A commit is a name.  Instead of its parent the model keeps, for every   *)
(* commit, the set of commits reachable from it: a non-force update of a   *)
(* ref is a fast-forward exactly when the ref's current commit is in that  *)
(* set.                                                                    *)
(***************************************************************************)
EXTENDS Naturals, FiniteSets

CONSTANTS
  Commit,     \* commit names
  Root,       \* the commit of the checked run (its head_sha): the seed
  NoCommit,   \* no commit: the value of a ref that does not exist
  Ref,        \* the refs of one lease
  Plan        \* what a commit message binds: decision record and effect plan

ASSUME StoreAssumption ==
  /\ Root \in Commit
  /\ NoCommit \notin Commit

VARIABLES
  lineage,    \* lineage[c]: commits reachable from c; {} while c is unmade
  info,       \* info[c]: the metadata in the message of commit c
  head        \* head[r]: the commit ref r points at

storeVars == <<lineage, info, head>>

Kind == {"source", "claim", "closed"}
Info == [kind : Kind, base : Commit, plan : Plan]

Known == {c \in Commit : lineage[c] # {}}

AnyPlan == CHOOSE p \in Plan : TRUE

SourceInfo == [kind |-> "source", base |-> Root, plan |-> AnyPlan]

StoreInit ==
  /\ lineage = [c \in Commit |-> IF c = Root THEN {Root} ELSE {}]
  /\ info = [c \in Commit |-> SourceInfo]
  /\ head = [r \in Ref |-> NoCommit]

\* POST /git/commits: a new commit c whose only parent is b.
AddCommit(c, b, i) ==
  /\ c \in Commit \ Known
  /\ b \in Known
  /\ lineage' = [lineage EXCEPT ![c] = lineage[b] \cup {c}]
  /\ info' = [info EXCEPT ![c] = i]
  /\ UNCHANGED head

\* A forced update would be applied whatever the ref points at.
ForcedUpdate(r, c) == head[r] # NoCommit /\ c \in Known

\* A non-force PATCH of ref r to c is applied only when it fast-forwards r.
FastForward(r, c) == head[r] \in lineage[c]

MoveRef(r, c) ==
  /\ head' = [head EXCEPT ![r] = c]
  /\ UNCHANGED <<lineage, info>>
===============================================================================
