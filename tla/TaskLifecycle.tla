--------------------------- MODULE TaskLifecycle ---------------------------
(***************************************************************************)
(* The way of tasks through one queue and the worker pods: the middleware  *)
(* chain of NewServeMux around a handler (internal/worker/server.go,       *)
(* internal/middleware/middleware.go), what the handlers of internal/tasks *)
(* return, what asynq makes of it under the server's configuration, the    *)
(* shutdown of runWorker and the queue administration of internal/web.     *)
(*                                                                         *)
(* asynq itself is external: a pod takes a pending task under a lease that *)
(* it keeps alive while it can; what a pod writes after it has lost the    *)
(* lease is dropped, and the task is recovered for another attempt.        *)
(***************************************************************************)
EXTENDS Integers, FiniteSets

CONSTANTS
    Tasks,
    Pods,
    GoodTasks,      \* tasks whose handler always succeeds
    RefusedTasks,   \* tasks whose handler answers SkipRetry
    FailingTasks,   \* tasks whose handler always fails; the others do now and then
    MaxRetry,       \* asynq.MaxRetry of the tasks
    Burst,          \* of each pod's rate limiter
    MaxFaults,      \* bound: kills, lost leases and signals in one behaviour
    NoPod

ASSUME TasksAssumption ==
    /\ GoodTasks \cup RefusedTasks \cup FailingTasks \subseteq Tasks
    /\ GoodTasks \cap (RefusedTasks \cup FailingTasks) = {}
    /\ MaxRetry \in Nat /\ Burst \in Nat \ {0} /\ MaxFaults \in Nat
    /\ NoPod \notin Pods /\ IsFiniteSet(Pods)

VARIABLES
    state,          \* of each task in Redis
    holder,         \* the pod whose lease on an active task is valid
    retried,        \* the task's retry count
    exec,           \* how far each pod's attempt at each task is
    tokens,         \* what each pod's rate limiter has left
    up,             \* the worker server of each pod
    paused,         \* whether the queue is paused
    lost,           \* times a lease on the task was lost
    aborted,        \* times an attempt at the task was cut off by a shutdown
    delivered,      \* times a handler of the task ran to success
    budget

podVars == <<tokens, up>>
taskVars == <<state, holder, retried>>
counts == <<lost, aborted, delivered>>
vars == <<taskVars, exec, podVars, paused, counts, budget>>

TaskStates == {"pending", "active", "retry", "archived", "completed", "deleted"}
Attempts == {"none", "begun", "handling", "ok", "fail", "skip", "limited"}

TypeOK ==
    /\ state \in [Tasks -> TaskStates]
    /\ holder \in [Tasks -> Pods \cup {NoPod}]
    /\ retried \in [Tasks -> 0 .. MaxRetry]
    /\ exec \in [Pods -> [Tasks -> Attempts]]
    /\ tokens \in [Pods -> 0 .. Burst]
    /\ up \in [Pods -> {"up", "stopping", "down"}]
    /\ paused \in BOOLEAN
    /\ lost \in [Tasks -> Nat] /\ aborted \in [Tasks -> Nat] /\ delivered \in [Tasks -> Nat]
    /\ budget \in 0 .. MaxFaults
    /\ \A t \in Tasks : holder[t] # NoPod =>
           state[t] = "active" /\ up[holder[t]] # "down" /\ exec[holder[t]][t] # "none"

Init ==
    /\ state = [t \in Tasks |-> "pending"]
    /\ holder = [t \in Tasks |-> NoPod]
    /\ retried = [t \in Tasks |-> 0]
    /\ exec = [p \in Pods |-> [t \in Tasks |-> "none"]]
    /\ tokens = [p \in Pods |-> Burst]
    /\ up = [p \in Pods |-> "up"]
    /\ paused = FALSE
    /\ lost = [t \in Tasks |-> 0]
    /\ aborted = [t \in Tasks |-> 0]
    /\ delivered = [t \in Tasks |-> 0]
    /\ budget = MaxFaults

-----------------------------------------------------------------------------
Fault == budget > 0 /\ budget' = budget - 1

SetState(t, s) == state' = [state EXCEPT ![t] = s]
SetExec(p, t, e) == exec' = [exec EXCEPT ![p][t] = e]
Attempting(p) == {t \in Tasks : exec[p][t] # "none"}

(* The attempt: LoggingMiddleware and RecoveryMiddleware only pass on what *)
(* they get, RateLimitMiddleware is the last before the handler.           *)

\* asynq hands a pending task to a pod that still pulls and has no attempt at it.
Dequeue(p, t) ==
    /\ up[p] = "up" /\ ~paused
    /\ state[t] = "pending" /\ exec[p][t] = "none"
    /\ SetState(t, "active")
    /\ holder' = [holder EXCEPT ![t] = p]
    /\ SetExec(p, t, "begun")
    /\ UNCHANGED <<retried, podVars, paused, counts, budget>>

\* limiter.Allow takes a token: the handler is called.
Allow(p, t) ==
    /\ exec[p][t] = "begun" /\ tokens[p] > 0
    /\ tokens' = [tokens EXCEPT ![p] = @ - 1]
    /\ SetExec(p, t, "handling")
    /\ UNCHANGED <<taskVars, up, paused, counts, budget>>

\* Mutant of Limit: the limiter is asked only after the handler has been called.
LimitAfterHandler(p, t) ==
    /\ exec[p][t] = "begun" /\ tokens[p] = 0
    /\ SetExec(p, t, "limited")
    /\ delivered' = [delivered EXCEPT ![t] = @ + 1]
    /\ UNCHANGED <<taskVars, podVars, paused, lost, aborted, budget>>

\* No token: a RateLimitError, and the handler is not called.
Limit(p, t) ==
    /\ exec[p][t] = "begun" /\ tokens[p] = 0
    /\ SetExec(p, t, "limited")
    /\ UNCHANGED <<taskVars, podVars, paused, counts, budget>>

\* What a handler returns: a webhook's 4xx and an undecodable payload wrap SkipRetry; a 5xx,
\* an expired context and a panic, which RecoveryMiddleware turns into an error, do not.
Outcomes(t) ==
    CASE t \in GoodTasks -> {"ok"}
      [] t \in RefusedTasks -> {"skip"}
      [] t \in FailingTasks -> {"fail"}
      [] OTHER -> {"ok", "fail"}

Handle(p, t) ==
    /\ exec[p][t] = "handling"
    /\ \E e \in Outcomes(t) :
          /\ SetExec(p, t, e)
          /\ delivered' = IF e = "ok" THEN [delivered EXCEPT ![t] = @ + 1] ELSE delivered
    /\ UNCHANGED <<taskVars, podVars, paused, lost, aborted, budget>>

\* The limiter's ten tokens a second.
Refill(p) ==
    /\ up[p] # "down" /\ tokens[p] < Burst
    /\ tokens' = [tokens EXCEPT ![p] = @ + 1]
    /\ UNCHANGED <<taskVars, exec, up, paused, counts, budget>>

-----------------------------------------------------------------------------
(* What asynq makes of the result, under IsFailure and RetryDelayFunc.     *)

\* Mutant of Failure: the last retry is not made.
FailureEarly(t) ==
    IF retried[t] + 1 < MaxRetry
    THEN SetState(t, "retry") /\ retried' = [retried EXCEPT ![t] = @ + 1]
    ELSE SetState(t, "archived") /\ UNCHANGED retried

\* A failed attempt: another retry while there is one left, else the archive.
Failure(t) ==
    IF retried[t] < MaxRetry
    THEN SetState(t, "retry") /\ retried' = [retried EXCEPT ![t] = @ + 1]
    ELSE SetState(t, "archived") /\ UNCHANGED retried

\* Mutant of IsFailure: left out of the configuration, every error counts.
IsFailureAlways(result) == result \in {"limited", "fail", "skip"}

\* Mutant of IsFailure: the negation is lost, only rate limits count.
IsFailureInverted(result) == result = "limited"

\* A RateLimitError does not count.
IsFailure(result) == result # "limited"

\* Mutant of Settle: an attempt that was only limited is acknowledged.
SettleAcknowledging(t, result) ==
    CASE result \in {"ok", "limited"} -> SetState(t, "completed") /\ UNCHANGED retried
      [] result = "skip" -> SetState(t, "archived") /\ UNCHANGED retried
      [] result = "fail" -> Failure(t)

\* An error that does not count is retried after the delay it asks for, however often;
\* whether it may once the counted retries are used up is left to asynq.
Settle(t, result) ==
    CASE result = "ok" -> SetState(t, "completed") /\ UNCHANGED retried
      [] result = "skip" /\ IsFailure(result) -> SetState(t, "archived") /\ UNCHANGED retried
      [] result \in {"fail", "limited"} /\ IsFailure(result) -> Failure(t)
      [] OTHER -> /\ UNCHANGED retried
                  /\ \/ SetState(t, "retry")
                     \/ retried[t] = MaxRetry /\ SetState(t, "archived")

\* Mutant of Finish: the result is written whether or not the lease is still valid.
FinishUnchecked(p, t) ==
    /\ exec[p][t] \in {"ok", "fail", "skip", "limited"}
    /\ SetExec(p, t, "none")
    /\ Settle(t, exec[p][t])
    /\ holder' = [holder EXCEPT ![t] = NoPod]
    /\ UNCHANGED <<podVars, paused, counts, budget>>

\* The attempt ends; its result is written if the pod still has the lease.
Finish(p, t) ==
    /\ exec[p][t] \in {"ok", "fail", "skip", "limited"}
    /\ SetExec(p, t, "none")
    /\ IF holder[t] = p
       THEN Settle(t, exec[p][t]) /\ holder' = [holder EXCEPT ![t] = NoPod]
       ELSE UNCHANGED taskVars
    /\ UNCHANGED <<podVars, paused, counts, budget>>

\* The retry delay of RetryDelayFunc is over.
Forward(t) ==
    /\ state[t] = "retry"
    /\ SetState(t, "pending")
    /\ UNCHANGED <<holder, retried, exec, podVars, paused, counts, budget>>

\* The recoverer of some pod finds an active task without a valid lease.
Recover(p, t) ==
    /\ up[p] # "down"
    /\ state[t] = "active" /\ holder[t] = NoPod
    /\ Failure(t)
    /\ UNCHANGED <<holder, exec, podVars, paused, counts, budget>>

\* A pod that is cut off or stalled fails to extend its lease; its handler runs on.
LoseLease(t) ==
    /\ holder[t] # NoPod /\ Fault
    /\ holder' = [holder EXCEPT ![t] = NoPod]
    /\ lost' = [lost EXCEPT ![t] = @ + 1]
    /\ UNCHANGED <<state, retried, exec, podVars, paused, aborted, delivered>>

-----------------------------------------------------------------------------
(* The worker process: runWorker.                                          *)

\* Mutant of StopServer: running attempts go back to the queue at once.
StopServerRequeues(p) ==
    /\ up[p] = "up" /\ Fault
    /\ up' = [up EXCEPT ![p] = "stopping"]
    /\ state' = [t \in Tasks |-> IF holder[t] = p THEN "pending" ELSE state[t]]
    /\ holder' = [t \in Tasks |-> IF holder[t] = p THEN NoPod ELSE holder[t]]
    /\ UNCHANGED <<retried, exec, tokens, paused, counts>>

\* srv.Stop: no more tasks are pulled.
StopServer(p) ==
    /\ up[p] = "up" /\ Fault
    /\ up' = [up EXCEPT ![p] = "stopping"]
    /\ UNCHANGED <<taskVars, exec, tokens, paused, counts>>

Forget(p) == exec' = [exec EXCEPT ![p] = [t \in Tasks |-> "none"]]

\* srv.Shutdown: what is still being attempted when shutdown_timeout is over goes back to
\* the queue, unless its lease was lost; then the process ends.
Shutdown(p) ==
    LET requeued == {t \in Attempting(p) : holder[t] = p}
    IN  /\ up[p] = "stopping"
        /\ up' = [up EXCEPT ![p] = "down"]
        /\ Forget(p)
        /\ state' = [t \in Tasks |-> IF t \in requeued THEN "pending" ELSE state[t]]
        /\ holder' = [t \in Tasks |-> IF t \in requeued THEN NoPod ELSE holder[t]]
        /\ aborted' = [t \in Tasks |-> IF t \in requeued THEN aborted[t] + 1 ELSE aborted[t]]
        /\ UNCHANGED <<retried, tokens, paused, lost, delivered, budget>>

\* The process is killed: its leases run out.
Crash(p) ==
    /\ up[p] # "down" /\ Fault
    /\ up' = [up EXCEPT ![p] = "down"]
    /\ Forget(p)
    /\ holder' = [t \in Tasks |-> IF holder[t] = p THEN NoPod ELSE holder[t]]
    /\ lost' = [t \in Tasks |-> IF holder[t] = p THEN lost[t] + 1 ELSE lost[t]]
    /\ UNCHANGED <<state, retried, tokens, paused, aborted, delivered>>

Restart(p) ==
    /\ up[p] = "down"
    /\ up' = [up EXCEPT ![p] = "up"]
    /\ tokens' = [tokens EXCEPT ![p] = Burst]
    /\ UNCHANGED <<taskVars, exec, paused, counts, budget>>

-----------------------------------------------------------------------------
(* The administration of internal/web/api.go.                              *)

\* Mutant of Delete: an active task is deleted too.
DeleteActive(t) ==
    /\ state[t] # "deleted"
    /\ SetState(t, "deleted")
    /\ UNCHANGED <<holder, retried, exec, podVars, paused, counts, budget>>

\* DeleteTaskHandler: every one of its five tries makes the same call, which refuses an
\* active task (the handler then answers 404 and nothing has changed).
Delete(t) ==
    /\ state[t] \in {"pending", "retry", "archived", "completed"}
    /\ SetState(t, "deleted")
    /\ UNCHANGED <<holder, retried, exec, podVars, paused, counts, budget>>

PauseQueue ==
    /\ ~paused /\ paused' = TRUE
    /\ UNCHANGED <<taskVars, exec, podVars, counts, budget>>

UnpauseQueue ==
    /\ paused /\ paused' = FALSE
    /\ UNCHANGED <<taskVars, exec, podVars, counts, budget>>

-----------------------------------------------------------------------------
Attempt(p, t) ==
    \/ Dequeue(p, t) \/ Allow(p, t) \/ Limit(p, t) \/ Handle(p, t) \/ Finish(p, t)

Queue(t) == Forward(t) \/ LoseLease(t) \/ Delete(t) \/ \E p \in Pods : Recover(p, t)

Process(p) == Refill(p) \/ StopServer(p) \/ Shutdown(p) \/ Crash(p) \/ Restart(p)

Next ==
    \/ \E p \in Pods, t \in Tasks : Attempt(p, t)
    \/ \E t \in Tasks : Queue(t)
    \/ \E p \in Pods : Process(p)
    \/ PauseQueue \/ UnpauseQueue

Spec == Init /\ [][Next]_vars

\* Attempts go on, delays and leases end, containers restart, a paused queue is resumed.
Fairness ==
    /\ \A p \in Pods, t \in Tasks :
          /\ SF_vars(Dequeue(p, t))
          /\ WF_vars(Allow(p, t) \/ Limit(p, t))
          /\ WF_vars(Handle(p, t))
          /\ WF_vars(Finish(p, t))
    /\ \A t \in Tasks : WF_vars(Forward(t)) /\ WF_vars(\E p \in Pods : Recover(p, t))
    /\ \A p \in Pods : WF_vars(Refill(p)) /\ WF_vars(Shutdown(p)) /\ WF_vars(Restart(p))
    /\ WF_vars(UnpauseQueue)

FairSpec == Spec /\ Fairness

-----------------------------------------------------------------------------
(* Properties.                                                             *)

\* README.md:106, "rate-limited tasks don't count as failures": a task whose handler
\* always succeeds is archived only after it has lost a lease for each of its retries,
\* however often and on whichever pods it was rate limited.
GoodTaskNotArchived ==
    \A t \in GoodTasks : state[t] = "archived" => lost[t] >= MaxRetry

\* A handler runs to success a second time only when a lease was lost or a shutdown cut an
\* attempt off: retries, rate limits, late results and the recoverer add no delivery.
RepeatedOnlyByLoss == \A t \in Tasks : delivered[t] <= 1 + lost[t] + aborted[t]

\* A completed task was delivered: no path through the middleware, the retries and the
\* recovery acknowledges a task whose handler did not succeed.
CompletedWasDelivered == \A t \in Tasks : state[t] = "completed" => delivered[t] > 0

\* Two pods attempt the same task at once only after a lease on it was lost.
SingleAttempt ==
    \A t \in Tasks, p, q \in Pods :
        exec[p][t] # "none" /\ exec[q][t] # "none" /\ p # q => lost[t] > 0

\* The deleted tasks that this step brings back.
Revived == {t \in Tasks : state[t] = "deleted" /\ state'[t] # "deleted"}

\* A deleted task stays deleted: no late result, recovery or retry brings it back.
DeletedForGood == [][Revived = {}]_vars

\* What the queue promises for its tasks.  Pending, active and waiting for a retry are all
\* one to whoever asked for the task.
Status(s) == CASE s \in {"pending", "active", "retry"} -> "waiting"
               [] s = "completed" -> "done"
               [] OTHER -> s

\* Leases, late results, recovery, requeueing and administration implement TaskQueue: a
\* settled task never comes back, a task is acknowledged for a success only, every retry
\* is used up before a task that no handler refuses is archived, and no retry is given
\* twice, whichever of several attempts at the task ends first.
Promised == INSTANCE TaskQueue WITH
    status <- [t \in Tasks |-> Status(state[t])],
    left <- [t \in Tasks |-> MaxRetry - retried[t]],
    handled <- {t \in Tasks : delivered[t] > 0},
    refused <- RefusedTasks
QueueSpec == Promised!Spec

\* Every task ends up completed, archived or deleted, whatever limits, faults, shutdowns
\* and pauses come in between.
EveryTaskSettles ==
    \A t \in Tasks : <>[](state[t] \in {"completed", "archived", "deleted"})
=============================================================================
