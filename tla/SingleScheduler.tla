-------------------------- MODULE SingleScheduler --------------------------
(***************************************************************************)
(* What the leader election of internal/scheduler promises to the rest of  *)
(* the system: of all worker pods, at most one at a time runs an asynq     *)
(* Scheduler that may enqueue periodic tasks.  A term begins only when no  *)
(* other pod is in one; it ends when the pod stops its scheduler or dies.  *)
(***************************************************************************)
CONSTANT Pods

VARIABLE active         \* the pods whose scheduler may enqueue a task now

Init == active = {}

BeginTerm(p) == active = {} /\ active' = {p}

EndTerm(p) == active = {p} /\ active' = {}

Next == \E p \in Pods : BeginTerm(p) \/ EndTerm(p)

Spec == Init /\ [][Next]_active
=============================================================================
