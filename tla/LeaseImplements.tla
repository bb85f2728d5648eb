--------------------------- MODULE LeaseImplements ---------------------------
(* The lease on the coordination ref implements LeaseRegister, as long as   *)
(* nobody deletes that ref.                                                 *)
EXTENDS LinearizableLease

\* The commits the coordination ref has been moved over: the history of its head.
History == IF head[Coordination] = NoCommit THEN {} ELSE lineage[head[Coordination]]

Decided == {<<info[c].base, c>> : c \in History \ {Root}}

Granted ==
  {<<info[x[2]].base, x[2]>> : x \in {y \in won : y[1] = Coordination /\ y[2] # Root}}

Register == INSTANCE LeaseRegister WITH decided <- Decided, granted <- Granted

(* Every step of the jobs and of the store is a takeover, a grant of the    *)
(* takeover that happened, or nothing at all for the lease: try_claim and   *)
(* publish_candidate make the ref a sequence of single-winner decisions.    *)
ImplementsRegister == Register!Spec
===============================================================================
