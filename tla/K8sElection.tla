---------------------------- MODULE K8sElection ----------------------------
(***************************************************************************)
(* RunWithLeaderElection over a Kubernetes Lease (runWithK8sLeaderElection *)
(* and client-go's LeaderElector), with its fallback to the Redis lock,    *)
(* as run by runWorker.  The Redis election is here what RedisElection     *)
(* shows of it: one pod at a time has a term, its scheduler within it.     *)
(*                                                                         *)
(* The pods have distinct IDs, and one configuration of the durations.     *)
(* Between a step of the API server and what a pod does of it, time may    *)
(* pass; a Tick counts every running timer down by one unit.               *)
(***************************************************************************)
EXTENDS ElectionSettings

CONSTANTS
    Pods,
    BadPods,        \* pods whose configuration RegisterTasks refuses
    Environments,   \* what pods may find around them, see EnvironmentType
    Settings,       \* the durations that may be configured
    Delay,          \* how late a timely goroutine may be
    StopTime,       \* how long a timely scheduler takes to stop once told to
    MaxFaults,      \* bound: crashes and signals in one behaviour
    NoPod

\* What decides whether a pod elects over Kubernetes: its configuration, whether it runs
\* in a cluster, and who names its namespace.
EnvironmentType ==
    [enabled : BOOLEAN, inCluster : BOOLEAN,
     namespaces : SUBSET {"config", "POD_NAMESPACE", "serviceaccount"}]

ASSUME K8sAssumption ==
    /\ BadPods \subseteq Pods /\ NoPod \notin Pods
    /\ Settings \subseteq Configured /\ Environments \subseteq EnvironmentType
    /\ Delay \in Nat /\ StopTime \in Nat \ {0} /\ MaxFaults \in Nat

VARIABLES
    settings,       \* the durations in force
    env,            \* the environment of each pod
    proc,           \* the worker process of each pod
    ctxDone,        \* whether the context of runWorker is cancelled
    loop,           \* where RunWithLeaderElection is
    sched,          \* the scheduler of the pod's term
    due,            \* time the renewing, or the release, of a term may still take
    stopIn,         \* time a timely scheduler has left to stop
    holder,         \* the holder of the Lease
    lease,          \* time to its expiry
    lost,           \* whether the process has lost the Lease
    stray,          \* for how long a scheduler has run without its pod holding the Lease
    budget          \* faults that may still happen

config == <<settings, env>>
podVars == <<proc, ctxDone, loop, sched>>
timers == <<due, stopIn>>
leaseVars == <<holder, lease>>
ghosts == <<lost, stray>>
vars == <<config, podVars, timers, leaseVars, ghosts, budget>>

-----------------------------------------------------------------------------
\* Otherwise runWithK8sLeaderElection is unavailable, and RunWithLeaderElection falls back.
Offered(e) == e.enabled /\ e.inCluster /\ e.namespaces # {}

Alive(p) == proc[p] \in {"serving", "stopping"}

\* The goroutine of OnStartedLeading, or of a term in Redis, has a scheduler.
Live(p) == sched[p] \in {"starting", "running"}

Mine(p) == holder = p /\ lease > 0

\* Mutant of Told: OnStartedLeading passes on the context of runWorker.
ToldByParent(p) == ctxDone[p]

\* leaderCtx is done: with its parent, or when elector.Run returns.
Told(p) == ctxDone[p] \/ loop[p] \notin {"lead", "release", "redisTerm"}

Positive(n) == IF n > 0 THEN n ELSE 0

\* The renewals of a term end retry + renew after the last one, and a release that is not
\* answered another renew later; only then is the scheduler told.
StrayBound == Positive(settings.retry + 2 * settings.renew + Delay - settings.lease) + StopTime

\* The lease outlives the renewals.
Roomy == settings.lease > settings.retry + settings.renew + Delay

Max == settings.retry + settings.renew + Delay

TypeOK ==
    /\ settings \in {Normalised(c) : c \in Settings}
    /\ env \in [Pods -> Environments]
    /\ proc \in [Pods -> {"serving", "stopping", "exited", "crashed"}]
    /\ ctxDone \in [Pods -> BOOLEAN]
    /\ loop \in [Pods -> {"start", "acquire", "lead", "release", "redis", "redisTerm",
                          "returned", "failed", "gone"}]
    /\ sched \in [Pods -> {"off", "starting", "running", "failed"}]
    /\ due \in [Pods -> 0 .. Max]
    /\ stopIn \in [Pods -> 0 .. StopTime]
    /\ holder \in Pods \cup {NoPod}
    /\ lease \in 0 .. settings.lease
    /\ lost \in [Pods -> BOOLEAN]
    /\ stray \in [Pods -> 0 .. StrayBound + 1]
    /\ budget \in 0 .. MaxFaults
    /\ \A p \in Pods :
          /\ (loop[p] = "gone") <=> ~Alive(p)
          /\ loop[p] \in {"start", "acquire", "redis", "gone"} => sched[p] = "off"

Init ==
    /\ settings \in {Normalised(c) : c \in Settings}
    /\ env \in [Pods -> Environments]
    /\ proc = [p \in Pods |-> "serving"]
    /\ ctxDone = [p \in Pods |-> FALSE]
    /\ loop = [p \in Pods |-> "start"]
    /\ sched = [p \in Pods |-> "off"]
    /\ due = [p \in Pods |-> 0]
    /\ stopIn = [p \in Pods |-> 0]
    /\ holder = NoPod /\ lease = 0
    /\ lost = [p \in Pods |-> FALSE]
    /\ stray = [p \in Pods |-> 0]
    /\ budget = MaxFaults

-----------------------------------------------------------------------------
Goto(p, where) == loop' = [loop EXCEPT ![p] = where]
Fault == budget > 0 /\ budget' = budget - 1

\* No scheduler of p, or one that holds the Lease, is astray.
Settled(p, still) == stray' = [stray EXCEPT ![p] = IF still THEN @ ELSE 0]

\* What RunWithLeaderElection finds: no Kubernetes, durations that NewLeaderElector
\* refuses (an error that ends the worker), or an elector that campaigns.
Elect(p) ==
    /\ loop[p] = "start"
    /\ Goto(p, IF ~Offered(env[p]) THEN "redis"
               ELSE IF Accepted(settings) THEN "acquire" ELSE "failed")
    /\ UNCHANGED <<config, proc, ctxDone, sched, timers, leaseVars, ghosts, budget>>

\* The Lease has no holder, has expired, or is held under the pod's own name.
Acquire(p) ==
    /\ loop[p] = "acquire" /\ ~ctxDone[p]
    /\ holder = NoPod \/ lease = 0 \/ holder = p
    /\ holder' = p /\ lease' = settings.lease
    /\ Goto(p, "lead")
    /\ sched' = [sched EXCEPT ![p] = "starting"]
    /\ \E d \in 0 .. Delay : due' = [due EXCEPT ![p] = settings.renew + d]
    /\ UNCHANGED <<config, proc, ctxDone, stopIn, ghosts, budget>>

\* ctx is cancelled: elector.Run returns, or so does the Redis election.
Cancel(p) ==
    /\ loop[p] \in {"acquire", "redis"} /\ ctxDone[p]
    /\ Goto(p, "returned")
    /\ UNCHANGED <<config, proc, ctxDone, sched, timers, leaseVars, ghosts, budget>>

\* The retry period is over, and an attempt succeeds before the deadline.
Renew(p) ==
    /\ loop[p] = "lead" /\ ~ctxDone[p] /\ sched[p] # "failed"
    /\ due[p] <= settings.renew + Delay
    /\ holder = NoPod \/ lease = 0 \/ holder = p
    /\ holder' = p /\ lease' = settings.lease
    /\ \E d \in 0 .. Delay :
          due' = [due EXCEPT ![p] = settings.retry + settings.renew + d]
    /\ Settled(p, FALSE)
    /\ UNCHANGED <<config, podVars, stopIn, lost, budget>>

\* No attempt has succeeded by the deadline.  The scheduler is not told yet.
Lose(p) ==
    /\ loop[p] = "lead" /\ due[p] = 0
    /\ Goto(p, "release")
    /\ due' = [due EXCEPT ![p] = settings.renew]
    /\ lost' = [lost EXCEPT ![p] = TRUE]
    /\ UNCHANGED <<config, proc, ctxDone, sched, stopIn, leaseVars, stray, budget>>

\* ctx is done, or runSchedulerAsLeader failed and cancelled electionCtx.
Leave(p) ==
    /\ loop[p] = "lead" /\ (ctxDone[p] \/ sched[p] = "failed")
    /\ Goto(p, "release")
    /\ due' = [due EXCEPT ![p] = settings.renew]
    /\ UNCHANGED <<config, proc, ctxDone, sched, stopIn, leaseVars, ghosts, budget>>

\* Mutant of AfterRun: the error of the scheduler is not looked at.
AfterRunNil(p) == "returned"

\* Mutant of AfterRun: a pod that lost the Lease goes on with Redis.
AfterRunFallsBack(p) ==
    IF sched[p] = "failed" THEN "failed" ELSE IF ctxDone[p] THEN "returned" ELSE "redis"

\* elector.Run has returned: the error of the scheduler if there is one, and nil even
\* when ctx is not done.
AfterRun(p) == IF sched[p] = "failed" THEN "failed" ELSE "returned"

\* ReleaseOnCancel: the Lease is given up if it is still the pod's and the API server
\* answers; then leaderCtx is cancelled.  Nobody waits for the scheduler.
Release(p) ==
    /\ loop[p] = "release"
    /\ \/ UNCHANGED leaseVars
       \/ holder = p /\ holder' = NoPod /\ lease' = 0
    /\ Goto(p, AfterRun(p))
    /\ due' = [due EXCEPT ![p] = 0]
    /\ stopIn' = [stopIn EXCEPT ![p] = IF Live(p) /\ ~ctxDone[p] THEN StopTime ELSE @]
    /\ UNCHANGED <<config, proc, ctxDone, sched, ghosts, budget>>

-----------------------------------------------------------------------------
(* The scheduler of a term: runSchedulerAsLeader.                          *)

\* Mutant of SchedStart: a failure is logged only, and the term goes on.
SchedStartSwallows(p) ==
    /\ sched[p] = "starting"
    /\ sched' = [sched EXCEPT ![p] = IF p \in BadPods THEN "off" ELSE "running"]
    /\ stopIn' = [stopIn EXCEPT ![p] = IF p \in BadPods THEN 0 ELSE @]
    /\ Settled(p, p \notin BadPods)
    /\ UNCHANGED <<config, proc, ctxDone, loop, due, leaseVars, lost, budget>>

\* RegisterTasks and Start succeed, or one fails: the error is put where the election
\* will find it, and the election is cancelled.
SchedStart(p) ==
    /\ sched[p] = "starting"
    /\ sched' = [sched EXCEPT ![p] = IF p \in BadPods THEN "failed" ELSE "running"]
    /\ stopIn' = [stopIn EXCEPT ![p] = IF p \in BadPods THEN 0 ELSE @]
    /\ Settled(p, p \notin BadPods)
    /\ UNCHANGED <<config, proc, ctxDone, loop, due, leaseVars, lost, budget>>

SchedStop(p) ==
    /\ sched[p] = "running" /\ Told(p)
    /\ sched' = [sched EXCEPT ![p] = "off"]
    /\ stopIn' = [stopIn EXCEPT ![p] = 0]
    /\ Settled(p, FALSE)
    /\ UNCHANGED <<config, proc, ctxDone, loop, due, leaseVars, lost, budget>>

-----------------------------------------------------------------------------
(* The fallback, as RedisElection implements SingleScheduler.              *)

BeginRedisTerm(p) ==
    /\ loop[p] = "redis" /\ ~ctxDone[p]
    /\ \A q \in Pods : loop[q] # "redisTerm"
    /\ Goto(p, "redisTerm")
    /\ sched' = [sched EXCEPT ![p] = "starting"]
    /\ UNCHANGED <<config, proc, ctxDone, timers, leaseVars, ghosts, budget>>

\* The drain wait of a term that is lost is for its scheduler, one that starts too.
EndRedisTerm(p) ==
    /\ loop[p] = "redisTerm" /\ sched[p] # "starting"
    /\ Goto(p, IF sched[p] = "failed" THEN "failed"
               ELSE IF ctxDone[p] THEN "returned" ELSE "redis")
    /\ sched' = [sched EXCEPT ![p] = "off"]
    /\ stopIn' = [stopIn EXCEPT ![p] = 0]
    /\ Settled(p, FALSE)
    /\ UNCHANGED <<config, proc, ctxDone, due, leaseVars, lost, budget>>

-----------------------------------------------------------------------------
(* The worker process: runWorker, its signals and its restarts.            *)

Signal(p) ==
    /\ proc[p] = "serving" /\ ~ctxDone[p] /\ Fault
    /\ ctxDone' = [ctxDone EXCEPT ![p] = TRUE]
    /\ stopIn' = [stopIn EXCEPT ![p] = IF Live(p) /\ ~Told(p) THEN StopTime ELSE @]
    /\ UNCHANGED <<config, proc, loop, sched, due, leaseVars, ghosts>>

\* A signal, or an error of RunWithLeaderElection, then srv.Stop.
StopServing(p) ==
    /\ proc[p] = "serving" /\ (ctxDone[p] \/ loop[p] = "failed")
    /\ proc' = [proc EXCEPT ![p] = "stopping"]
    /\ ctxDone' = [ctxDone EXCEPT ![p] = TRUE]
    /\ UNCHANGED <<config, loop, sched, timers, leaseVars, ghosts, budget>>

\* Mutant of Gone: what the process held in memory is not gone.
GoneLeavesScheduler(p, how) ==
    /\ proc' = [proc EXCEPT ![p] = how]
    /\ Goto(p, "gone")
    /\ UNCHANGED <<sched, due, stopIn, lost, stray>>

\* The process ends and its goroutines with it.  The Lease is left to expire.
Gone(p, how) ==
    /\ proc' = [proc EXCEPT ![p] = how]
    /\ Goto(p, "gone")
    /\ sched' = [sched EXCEPT ![p] = "off"]
    /\ due' = [due EXCEPT ![p] = 0]
    /\ stopIn' = [stopIn EXCEPT ![p] = 0]
    /\ lost' = [lost EXCEPT ![p] = FALSE]
    /\ Settled(p, FALSE)

\* srv.Shutdown returns and so does main, without waiting for the election.
Exit(p) ==
    /\ proc[p] = "stopping" /\ Gone(p, "exited")
    /\ UNCHANGED <<config, ctxDone, leaseVars, budget>>

Crash(p) ==
    /\ Alive(p) /\ Fault /\ Gone(p, "crashed")
    /\ UNCHANGED <<config, ctxDone, leaseVars>>

\* The container is started again, under its old name.
Restart(p) ==
    /\ ~Alive(p)
    /\ proc' = [proc EXCEPT ![p] = "serving"]
    /\ ctxDone' = [ctxDone EXCEPT ![p] = FALSE]
    /\ Goto(p, "start")
    /\ UNCHANGED <<config, sched, timers, leaseVars, ghosts, budget>>

-----------------------------------------------------------------------------
\* No goroutine of p has used up the time a timely one takes.
OnTime(p) ==
    /\ loop[p] = "lead" /\ ~ctxDone[p] => due[p] > 0
    /\ loop[p] = "release" => due[p] > 0
    /\ Live(p) /\ Told(p) => stopIn[p] > 0

Astray(p) == Live(p) /\ Offered(env[p]) /\ ~Mine(p)

Tick ==
    /\ \A p \in Pods : OnTime(p)
    /\ due' = [p \in Pods |-> Positive(due[p] - 1)]
    /\ stopIn' = [p \in Pods |-> Positive(stopIn[p] - 1)]
    /\ lease' = Positive(lease - 1)
    /\ stray' = [p \in Pods |->
                    IF Astray(p) /\ stray[p] <= StrayBound THEN stray[p] + 1 ELSE stray[p]]
    /\ UNCHANGED <<config, podVars, holder, lost, budget>>

ElectorStep(p) ==
    Elect(p) \/ Acquire(p) \/ Cancel(p) \/ Renew(p) \/ Lose(p) \/ Leave(p) \/ Release(p)
SchedulerStep(p) == SchedStart(p) \/ SchedStop(p)
RedisStep(p) == BeginRedisTerm(p) \/ EndRedisTerm(p)
ProcessStep(p) == Signal(p) \/ StopServing(p) \/ Exit(p) \/ Crash(p) \/ Restart(p)

PodStep(p) == ElectorStep(p) \/ SchedulerStep(p) \/ RedisStep(p) \/ ProcessStep(p)

Next == Tick \/ \E p \in Pods : PodStep(p)

Spec == Init /\ [][Next]_vars

\* Every goroutine that can go on does.  An answer of the API server, a signal and a crash
\* are not owed; the container runtime restarts what exited.
Fairness ==
    /\ WF_vars(Tick)
    /\ \A p \in Pods :
          /\ WF_vars(Elect(p)) /\ WF_vars(Acquire(p)) /\ WF_vars(Cancel(p))
          /\ WF_vars(Lose(p)) /\ WF_vars(Leave(p)) /\ WF_vars(Release(p))
          /\ WF_vars(SchedulerStep(p))
          /\ WF_vars(BeginRedisTerm(p))
          /\ WF_vars(EndRedisTerm(p) /\ (ctxDone[p] \/ sched[p] = "failed"))
          /\ WF_vars(StopServing(p)) /\ WF_vars(Exit(p)) /\ WF_vars(Restart(p))

FairSpec == Spec /\ Fairness

-----------------------------------------------------------------------------
(* Properties.                                                             *)

Leads(p) == loop[p] \in {"lead", "redisTerm"} /\ Live(p) /\ ~ctxDone[p]

\* Of the pods to which Kubernetes offers its election, at most one at a time leads, on
\* whatever path through RunWithLeaderElection it came to: the abstract specification,
\* when the durations leave room for a last attempt to renew.  (A pod that lost the Lease
\* may still be stopping its scheduler, see StrayBounded; a pod that fell back to Redis
\* may lead beside it.)
Single == INSTANCE SingleScheduler WITH
    active <- IF Roomy THEN {p \in Pods : Leads(p) /\ Offered(env[p])} ELSE {}
LeaseSpec == Single!Spec

\* A scheduler whose pod does not hold the Lease any more, because it expired, was given
\* up on a signal, or was taken by another, stops within a time that the durations
\* determine, whether or not they leave room.
StrayBounded == \A p \in Pods : stray[p] <= StrayBound

\* A worker that serves on without an election has lost the Lease: neither a scheduler that
\* failed nor durations that are refused leave it so, they end the worker.
DeafOnlyAfterLoss ==
    \A p \in Pods : loop[p] = "returned" /\ ~ctxDone[p] => lost[p]

\* As long as one pod stays in the election, some pod's scheduler runs again and again, or
\* one that cannot ends its worker.
LeaderAgain ==
    (\E p \in Pods : <>[](Alive(p) /\ ~ctxDone[p] /\ loop[p] \notin {"returned", "failed"}))
        => []<>(\E p \in Pods : sched[p] = "running" \/ loop[p] = "failed")
=============================================================================
