------------------------------ MODULE MCTasks ------------------------------
(***************************************************************************)
(* TaskLifecycle on small instances: tasks that always succeed, are        *)
(* refused, always fail or do so now and then; the pods are alike.         *)
(***************************************************************************)
EXTENDS TaskLifecycle, TLC

CONSTANTS good, refused, failing, flaky, p1, p2

PodSymmetry == Permutations(Pods)
=============================================================================
