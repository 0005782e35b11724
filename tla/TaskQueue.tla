----------------------------- MODULE TaskQueue -----------------------------
(***************************************************************************)
(* What the queues promise for the tasks in them, however many pods work,  *)
(* crash and race on the way: a task waits until it is acknowledged,       *)
(* archived or deleted, and that is the end of it.  It is acknowledged     *)
(* only if a handler succeeded, and archived only if a handler refuses it  *)
(* or no retry is left; a failed attempt uses up one retry, and nothing    *)
(* gives any back.                                                         *)
(***************************************************************************)
EXTENDS Integers

CONSTANT Tasks

VARIABLES
    status,         \* of each task
    left,           \* retries it has left
    handled,        \* tasks for which a handler has succeeded
    refused         \* tasks that a handler answers with SkipRetry

Statuses == {"absent", "waiting", "done", "archived", "deleted"}

Init ==
    /\ status \in [Tasks -> {"absent", "waiting"}]
    /\ left \in [Tasks -> Nat]
    /\ handled = {}
    /\ refused \subseteq Tasks

\* (The value at t is compared first, for TLC to turn most tasks away soon.)
Moves(t, a, b) == status[t] = a /\ status'[t] = b /\ status' = [status EXCEPT ![t] = b]

Accept(t) ==
    /\ Moves(t, "absent", "waiting")
    /\ left'[t] \in Nat /\ left' = [left EXCEPT ![t] = left'[t]]
    /\ UNCHANGED handled

\* A handler may succeed after another attempt has settled the task.
Serve(t) ==
    /\ status[t] # "absent" /\ handled' = handled \cup {t}
    /\ UNCHANGED <<status, left>>

Acknowledge(t) ==
    /\ Moves(t, "waiting", "done") /\ handled' = handled \cup {t}
    /\ UNCHANGED left

Retry(t) ==
    /\ status[t] = "waiting" /\ left[t] > 0
    /\ left' = [left EXCEPT ![t] = @ - 1]
    /\ UNCHANGED <<status, handled>>

Archive(t) ==
    /\ Moves(t, "waiting", "archived")
    /\ left[t] = 0 \/ t \in refused'
    /\ UNCHANGED <<left, handled>>

\* Any tasks, or none: by hand, or with an aggregation set.
Delete ==
    /\ status' \in [Tasks -> Statuses]
    /\ \A t \in Tasks :
          status'[t] = status[t] \/ (status[t] # "absent" /\ status'[t] = "deleted")
    /\ UNCHANGED <<left, handled>>

Next ==
    /\ \/ Delete
       \/ \E t \in Tasks : Accept(t) \/ Serve(t) \/ Acknowledge(t) \/ Retry(t) \/ Archive(t)
    /\ refused \subseteq refused' /\ refused' \subseteq Tasks

vars == <<status, left, handled, refused>>

Spec == Init /\ [][Next]_vars
=============================================================================
