----------------------------- MODULE EffectLedger -----------------------------
(***************************************************************************)
(* What the audit chain promises, as a ledger that is only written to:     *)
(* decisions, effects of executions on a decision, and what receipts say   *)
(* of them.  An execution has its one effect or none at all; which of the  *)
(* two may stay open after its receipt, but once closed is final.          *)
(***************************************************************************)
EXTENDS Naturals

CONSTANTS
  Plan,       \* decisions that may be carried out
  Execution,  \* executions of them
  Attempt,    \* the attempts that decisions are made on and effects start
  Limit       \* attempts from which on no effect is decided

VARIABLES
  decided,    \* <<p, a>>: plan p was made on attempt a and may be carried out
  effects,    \* <<a, p, e>>: attempt a was started by execution e, for plan p
  closed,     \* executions that have had their effect, or never will have one
  receipts,   \* receipts: for a plan, by an execution, with an outcome
  credited    \* plans of which a later decision says that they were carried out

ledger == <<decided, effects, closed, receipts, credited>>

Init ==
  /\ decided = {}
  /\ effects = {}
  /\ closed = {}
  /\ receipts = {}
  /\ credited = {}

EffectsBy(e) == {x \in effects : x[3] = e}

\* A plan is decided once, on one attempt.
Decide(p, a) ==
  /\ a < Limit
  /\ \A x \in decided : x[1] # p
  /\ decided' = decided \cup {<<p, a>>}
  /\ UNCHANGED <<effects, closed, receipts, credited>>

\* The effect of a decided plan: an attempt after all that were started before,
\* and after the one the plan was made on.
Effect(e, p, a) ==
  /\ e \notin closed
  /\ \E x \in decided : x[1] = p /\ x[2] < a
  /\ \A x \in effects : x[1] < a
  /\ effects' = effects \cup {<<a, p, e>>}
  /\ closed' = closed \cup {e}
  /\ UNCHANGED <<decided, receipts, credited>>

\* It is settled that there will be none.
Close(e) ==
  /\ closed' = closed \cup {e}
  /\ UNCHANGED <<decided, effects, receipts, credited>>

\* One receipt for an execution.  SUCCEEDED and NOT_EXECUTED are said of what
\* is settled, UNKNOWN of anything.
Issue(p, e, outcome) ==
  /\ \A r \in receipts : r.executor # e
  /\ outcome = "SUCCEEDED" => \E x \in EffectsBy(e) : x[2] = p
  /\ outcome = "NOT_EXECUTED" => e \in closed /\ EffectsBy(e) = {}
  /\ receipts' = receipts \cup {[gate |-> p, executor |-> e, outcome |-> outcome]}
  /\ UNCHANGED <<decided, effects, closed, credited>>

Credit(p) ==
  /\ \E x \in effects : x[2] = p
  /\ credited' = credited \cup {p}
  /\ UNCHANGED <<decided, effects, closed, receipts>>

Next ==
  \/ \E p \in Plan, a \in Attempt : Decide(p, a)
  \/ \E e \in Execution, p \in Plan, a \in Attempt : Effect(e, p, a)
  \/ \E e \in Execution : Close(e)
  \/ \E p \in Plan, e \in Execution, outcome \in {"SUCCEEDED", "NOT_EXECUTED", "UNKNOWN"} :
       Issue(p, e, outcome)
  \/ \E p \in Plan : Credit(p)

Spec == Init /\ [][Next]_ledger
===============================================================================
