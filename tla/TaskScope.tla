------------------------------ MODULE TaskScope ------------------------------
(***************************************************************************)
(* What a nursery promises to the task that opens it: structured           *)
(* concurrency.  Tasks come to life only while the scope is open, the      *)
(* opening task proceeds once, only when none of them is left, and only as *)
(* cancelled if none of them failed.                                       *)
(***************************************************************************)
CONSTANT Members

VARIABLES
  phase,   \* the opening task: "before", "inside", "resumed" or "cancelled"
  lived,   \* tasks that have come to life
  live,    \* those that still hold their frame
  failed   \* an error is due to the opening task

scopeVars == <<phase, lived, live, failed>>

ScopeInit ==
  phase = "before" /\ lived = {} /\ live = {} /\ failed = FALSE

Enter ==
  /\ phase = "before" /\ phase' = "inside"
  /\ \E S \in SUBSET Members : lived' = S /\ live' = S
  /\ failed' \in BOOLEAN
  /\ failed' => live' = {}

Spawn(t) ==
  /\ phase = "inside" /\ t \notin lived
  /\ lived' = lived \cup {t} /\ live' = live \cup {t}
  /\ UNCHANGED <<phase, failed>>

Exit(S) ==
  /\ S # {} /\ live' = live \ S
  /\ UNCHANGED <<phase, lived, failed>>

Fail ==
  /\ phase = "inside" /\ ~failed /\ failed' = TRUE
  /\ UNCHANGED <<phase, lived, live>>

Proceed ==
  /\ phase = "inside" /\ live = {}
  /\ phase' \in {"resumed"} \cup (IF failed THEN {} ELSE {"cancelled"})
  /\ UNCHANGED <<lived, live, failed>>

ScopeNext ==
  \/ Enter
  \/ \E t \in Members : Spawn(t)
  \/ \E S \in SUBSET live : Exit(S)
  \/ Fail
  \/ Proceed

ScopeSpec == ScopeInit /\ [][ScopeNext]_scopeVars
=============================================================================
