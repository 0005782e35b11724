--------------------------- MODULE RedisElection ---------------------------
(***************************************************************************)
(* The Redis leader election of the worker pods:                           *)
(* runWithRedisLeaderElection (internal/scheduler/scheduler.go) as run by  *)
(* runWorker (cmd/worker.go), with runSchedulerAsLeader reduced to what    *)
(* the election sees of it: it starts, runs, and stops or fails.           *)
(*                                                                         *)
(* Each pod has four concurrent parts: the worker's main goroutine (proc), *)
(* the election loop (loop), and, during a term of leadership, the         *)
(* scheduler goroutine (sched) and the goroutine that refreshes the lock   *)
(* (ticker).  They share one key of Redis (lock, lease).  Time is a Tick   *)
(* that counts every running timer down by one unit.                       *)
(***************************************************************************)
EXTENDS Integers, FiniteSets

CONSTANTS
    Pods,           \* the worker pods
    BadPods,        \* pods whose configuration RegisterTasks refuses
    TTL,            \* lockTTL
    RefreshEvery,   \* refreshEvery
    RetryEvery,     \* retryEvery
    DrainTimeout,   \* the 2 s the loop waits for its scheduler to stop
    Delay,          \* how late a timely reply or goroutine may be
    StopTime,       \* how long a timely scheduler takes to stop once told to
    Faults,         \* which faults may happen: "crash" "signal" "redis" "deadline"
    MaxFaults,      \* how many of them may happen in one behaviour
    NoPod,          \* the lock is free
    Orphan          \* the lock holds a token no goroutine will release

ASSUME TimingAssumption ==
    /\ TTL \in Nat /\ RefreshEvery \in Nat /\ RetryEvery \in Nat
    /\ DrainTimeout \in Nat /\ Delay \in Nat /\ StopTime \in Nat
    /\ MaxFaults \in Nat
    /\ RefreshEvery >= 1 /\ StopTime >= 1

ASSUME PodsAssumption ==
    /\ BadPods \subseteq Pods
    /\ NoPod \notin Pods /\ Orphan \notin Pods /\ NoPod # Orphan

(* What the configured durations must satisfy for the lock to outlive a    *)
(* leader that is on time: the defaults 15 s, 5 s and the 2 s of the code  *)
(* leave room for replies and a stop of up to two seconds.                 *)
ASSUME LeaseAssumption ==
    /\ TTL > RefreshEvery + 3 * Delay + StopTime
    /\ StopTime < DrainTimeout

VARIABLES
    proc,           \* the worker process of each pod
    ctxDone,        \* whether the context of runWorker is cancelled
    loop,           \* where the election loop is
    sched,          \* the scheduler goroutine of the current term
    ticker,         \* the lock-refreshing goroutine of the current term
    zombie,         \* a scheduler given up by the drain wait still runs
    due,            \* the timer the loop waits on
    refreshIn,      \* time to the ticker's next tick, negative when it is late
    stopIn,         \* time a timely scheduler has left to stop
    lock,           \* whose token the key of the lock holds
    lease,          \* time to the expiry of the key
    budget          \* faults that may still happen

podVars == <<proc, ctxDone, loop, sched, ticker, zombie>>
timers == <<due, refreshIn, stopIn>>
lockVars == <<lock, lease>>
vars == <<podVars, timers, lockVars, budget>>

ProcStates == {"serving", "stopping", "exited", "crashed"}
LoopStates == {"obtain", "obtained", "lead", "drain", "release", "backoff",
               "returned", "deaf", "failed", "gone"}
SchedStates == {"off", "starting", "running", "stopped", "failed"}

TypeOK ==
    /\ proc \in [Pods -> ProcStates]
    /\ ctxDone \in [Pods -> BOOLEAN]
    /\ loop \in [Pods -> LoopStates]
    /\ sched \in [Pods -> SchedStates]
    /\ ticker \in [Pods -> {"off", "on", "failed"}]
    /\ zombie \in [Pods -> BOOLEAN]
    /\ due \in [Pods -> Nat]
    /\ refreshIn \in [Pods -> -Delay .. RefreshEvery]
    /\ stopIn \in [Pods -> 0 .. StopTime]
    /\ lock \in Pods \cup {NoPod, Orphan}
    /\ lease \in 0 .. TTL
    /\ (lock = NoPod) <=> (lease = 0)
    /\ \A p \in Pods : (loop[p] = "gone") <=> (proc[p] \in {"exited", "crashed"})
    /\ budget \in 0 .. MaxFaults

Init ==
    /\ proc = [p \in Pods |-> "serving"]
    /\ ctxDone = [p \in Pods |-> FALSE]
    /\ loop = [p \in Pods |-> "obtain"]
    /\ sched = [p \in Pods |-> "off"]
    /\ ticker = [p \in Pods |-> "off"]
    /\ zombie = [p \in Pods |-> FALSE]
    /\ due = [p \in Pods |-> 0]
    /\ refreshIn = [p \in Pods |-> 0]
    /\ stopIn = [p \in Pods |-> 0]
    /\ lock = NoPod
    /\ lease = 0
    /\ budget = MaxFaults

-----------------------------------------------------------------------------
(* What the other parts of the system see of a pod.                        *)

Alive(p) == proc[p] \in {"serving", "stopping"}
InLoop(p) == loop[p] \notin {"returned", "deaf", "failed", "gone"}

\* The scheduler goroutine of the current term has not stopped yet.
Live(p) == sched[p] \in {"starting", "running"}

\* Some scheduler of the pod, of this term or of an earlier one, may still enqueue.
MayEnqueue(p) == Live(p) \/ zombie[p]

\* leaderCtx is cancelled: with its parent, or by cancelLeader after the select.
Cancelled(p) == ctxDone[p] \/ loop[p] # "lead"

Fault(f) == f \in Faults /\ budget > 0 /\ budget' = budget - 1

Goto(p, where) == loop' = [loop EXCEPT ![p] = where]
Wait(p, n) == due' = [due EXCEPT ![p] = n]
Backoff(p) == Goto(p, "backoff") /\ Wait(p, RetryEvery)

-----------------------------------------------------------------------------
(* The election loop: locker.Obtain and the ways it ends.                  *)

\* The SET NX finds the key free.  The loop, which may be late, sees it at BecomeLeader.
Obtained(p) ==
    /\ loop[p] = "obtain" /\ lock = NoPod
    /\ lock' = p /\ lease' = TTL
    /\ Goto(p, "obtained") /\ Wait(p, Delay)
    /\ UNCHANGED <<proc, ctxDone, sched, ticker, zombie, refreshIn, stopIn, budget>>

\* ErrNotObtained: another token is in the key.
Standby(p) ==
    /\ loop[p] = "obtain" /\ lock # NoPod
    /\ Backoff(p)
    /\ UNCHANGED <<proc, ctxDone, sched, ticker, zombie, refreshIn, stopIn, lockVars, budget>>

\* Any other error of Redis.  The SET may have been executed all the same.
ObtainFails(p) ==
    /\ loop[p] = "obtain" /\ Fault("redis")
    /\ \/ UNCHANGED lockVars
       \/ lock = NoPod /\ lock' = Orphan /\ lease' = TTL
    /\ Backoff(p)
    /\ UNCHANGED <<proc, ctxDone, sched, ticker, zombie, refreshIn, stopIn>>

\* ctx is cancelled before Obtain is answered: the loop returns nil.
ObtainCancelled(p) ==
    /\ loop[p] = "obtain" /\ ctxDone[p]
    /\ Goto(p, "returned")
    /\ UNCHANGED <<proc, ctxDone, sched, ticker, zombie, timers, lockVars, budget>>

\* Obtain gives up at its own deadline (redislock's, or that of a dial): the loop
\* takes the DeadlineExceeded for a shutdown and returns nil ("deaf": nobody in the pod
\* waits for that nil, so that it goes on serving without an election loop).
ObtainTimesOut(p) ==
    /\ loop[p] = "obtain" /\ Fault("deadline")
    /\ \/ UNCHANGED lockVars
       \/ lock = NoPod /\ lock' = Orphan /\ lease' = TTL
    /\ Goto(p, "deaf")
    /\ UNCHANGED <<proc, ctxDone, sched, ticker, zombie, timers>>

\* leaderCtx is made and the two goroutines of the term are started.
BecomeLeader(p) ==
    /\ loop[p] = "obtained"
    /\ Goto(p, "lead") /\ Wait(p, 0)
    /\ sched' = [sched EXCEPT ![p] = "starting"]
    /\ ticker' = [ticker EXCEPT ![p] = "on"]
    /\ refreshIn' = [refreshIn EXCEPT ![p] = RefreshEvery]
    /\ stopIn' = [stopIn EXCEPT ![p] = IF ctxDone[p] THEN StopTime ELSE 0]
    /\ UNCHANGED <<proc, ctxDone, zombie, lockVars, budget>>

-----------------------------------------------------------------------------
(* The scheduler goroutine: runSchedulerAsLeader.                          *)

\* RegisterTasks and Start succeed, or one fails and the error is sent to the loop.
SchedStart(p) ==
    /\ sched[p] = "starting"
    /\ sched' = [sched EXCEPT ![p] = IF p \in BadPods THEN "failed" ELSE "running"]
    /\ stopIn' = [stopIn EXCEPT ![p] = IF p \in BadPods THEN 0 ELSE @]
    /\ UNCHANGED <<proc, ctxDone, loop, ticker, zombie, due, refreshIn, lockVars, budget>>

\* leaderCtx is done: sched.Shutdown returns and nil is sent to the loop.
SchedStop(p) ==
    /\ sched[p] = "running" /\ Cancelled(p)
    /\ sched' = [sched EXCEPT ![p] = "stopped"]
    /\ stopIn' = [stopIn EXCEPT ![p] = 0]
    /\ UNCHANGED <<proc, ctxDone, loop, ticker, zombie, due, refreshIn, lockVars, budget>>

\* The last scheduler that a drain wait gave up on stops at last.
ZombieEnd(p) ==
    /\ zombie[p]
    /\ zombie' = [zombie EXCEPT ![p] = FALSE]
    /\ UNCHANGED <<proc, ctxDone, loop, sched, ticker, timers, lockVars, budget>>

-----------------------------------------------------------------------------
(* The refreshing goroutine.                                               *)

Refreshing(p) == loop[p] = "lead" /\ ticker[p] = "on" /\ refreshIn[p] <= 0

\* Mutant of RefreshOk: Refresh is called with the refresh interval as the new TTL.
RefreshOkShort(p) ==
    /\ Refreshing(p) /\ lock = p
    /\ lease' = RefreshEvery
    /\ refreshIn' = [refreshIn EXCEPT ![p] = @ + RefreshEvery]
    /\ UNCHANGED <<podVars, due, stopIn, lock, budget>>

\* Mutant of RefreshOk: the ticker is set one period too far.
RefreshOkSkipsTick(p) ==
    /\ Refreshing(p) /\ lock = p
    /\ lease' = TTL
    /\ refreshIn' = [refreshIn EXCEPT ![p] = @ + 2 * RefreshEvery]
    /\ UNCHANGED <<podVars, due, stopIn, lock, budget>>


RefreshOk(p) ==
    /\ Refreshing(p) /\ lock = p
    /\ lease' = TTL
    /\ refreshIn' = [refreshIn EXCEPT ![p] = @ + RefreshEvery]
    /\ UNCHANGED <<podVars, due, stopIn, lock, budget>>

\* Mutant of RefreshLost: ErrNotObtained is taken for a passing error, the ticker goes on.
RefreshLostIgnored(p) ==
    /\ Refreshing(p) /\ lock # p
    /\ refreshIn' = [refreshIn EXCEPT ![p] = @ + RefreshEvery]
    /\ UNCHANGED <<podVars, due, stopIn, lockVars, budget>>

\* ErrNotObtained: the key expired, and may be another pod's by now.
RefreshLost(p) ==
    /\ Refreshing(p) /\ lock # p
    /\ ticker' = [ticker EXCEPT ![p] = "failed"]
    /\ Wait(p, Delay)
    /\ UNCHANGED <<proc, ctxDone, loop, sched, zombie, refreshIn, stopIn, lockVars, budget>>

\* Mutant of RefreshError: the error is logged and the ticker goes on.
RefreshErrorIgnored(p) ==
    /\ Refreshing(p) /\ Fault("redis")
    /\ refreshIn' = [refreshIn EXCEPT ![p] = @ + RefreshEvery]
    /\ UNCHANGED <<podVars, due, stopIn, lockVars>>

\* Any other error of Redis, after the PEXPIRE was executed or instead of it.
RefreshError(p) ==
    /\ Refreshing(p) /\ Fault("redis")
    /\ lease' \in IF lock = p THEN {lease, TTL} ELSE {lease}
    /\ ticker' = [ticker EXCEPT ![p] = "failed"]
    /\ Wait(p, Delay)
    /\ UNCHANGED <<proc, ctxDone, loop, sched, zombie, refreshIn, stopIn, lock>>

-----------------------------------------------------------------------------
(* The end of a term: the select, the drain wait, Release and the backoff. *)

\* Mutant of LeaveLead: the lock is released without waiting for the scheduler.
LeaveLeadNoDrain(p) ==
    /\ loop[p] = "lead" /\ (ctxDone[p] \/ ticker[p] = "failed")
    /\ Goto(p, "release") /\ Wait(p, 0)
    /\ zombie' = [zombie EXCEPT ![p] = @ \/ Live(p)]
    /\ sched' = [sched EXCEPT ![p] = "off"]
    /\ ticker' = [ticker EXCEPT ![p] = "off"]
    /\ refreshIn' = [refreshIn EXCEPT ![p] = 0]
    /\ stopIn' = [stopIn EXCEPT ![p] = 0]
    /\ UNCHANGED <<proc, ctxDone, lockVars, budget>>

\* The select sees ctx.Done or the refresh error, and calls cancelLeader.
LeaveLead(p) ==
    /\ loop[p] = "lead" /\ (ctxDone[p] \/ ticker[p] = "failed")
    /\ Goto(p, "drain") /\ Wait(p, DrainTimeout)
    /\ ticker' = [ticker EXCEPT ![p] = "off"]
    /\ refreshIn' = [refreshIn EXCEPT ![p] = 0]
    /\ stopIn' = [stopIn EXCEPT ![p] = IF Live(p) /\ ~ctxDone[p] THEN StopTime ELSE @]
    /\ UNCHANGED <<proc, ctxDone, sched, zombie, lockVars, budget>>

\* The select receives what runSchedulerAsLeader returned: no drain, no backoff.
LeadSchedulerEnded(p) ==
    /\ loop[p] = "lead" /\ sched[p] \in {"stopped", "failed"}
    /\ Goto(p, "release") /\ Wait(p, 0)
    /\ ticker' = [ticker EXCEPT ![p] = "off"]
    /\ refreshIn' = [refreshIn EXCEPT ![p] = 0]
    /\ UNCHANGED <<proc, ctxDone, sched, zombie, stopIn, lockVars, budget>>

\* Mutant of DrainDone: the check of ctx comes before Release.
DrainDoneNoRelease(p) ==
    /\ loop[p] = "drain" /\ sched[p] \in {"stopped", "failed"}
    /\ sched' = [sched EXCEPT ![p] = "off"]
    /\ Goto(p, IF ctxDone[p] THEN "returned" ELSE "release") /\ Wait(p, 0)
    /\ UNCHANGED <<proc, ctxDone, ticker, zombie, refreshIn, stopIn, lockVars, budget>>

\* The drain wait receives the scheduler's result, whatever it is.
DrainDone(p) ==
    /\ loop[p] = "drain" /\ sched[p] \in {"stopped", "failed"}
    /\ sched' = [sched EXCEPT ![p] = "off"]
    /\ Goto(p, "release") /\ Wait(p, 0)
    /\ UNCHANGED <<proc, ctxDone, ticker, zombie, refreshIn, stopIn, lockVars, budget>>

\* Mutant of DrainGivesUp: the wait for the scheduler has no timeout.
DrainNeverGivesUp(p) ==
    /\ loop[p] = "drain" /\ due[p] = 0 /\ ~Live(p)
    /\ sched' = [sched EXCEPT ![p] = "off"]
    /\ stopIn' = [stopIn EXCEPT ![p] = 0]
    /\ Goto(p, "release")
    /\ UNCHANGED <<proc, ctxDone, ticker, zombie, due, refreshIn, lockVars, budget>>

\* The two seconds are over first: the term goes on without its scheduler.
DrainGivesUp(p) ==
    /\ loop[p] = "drain" /\ due[p] = 0
    /\ zombie' = [zombie EXCEPT ![p] = @ \/ Live(p)]
    /\ sched' = [sched EXCEPT ![p] = "off"]
    /\ stopIn' = [stopIn EXCEPT ![p] = 0]
    /\ Goto(p, "release")
    /\ UNCHANGED <<proc, ctxDone, ticker, due, refreshIn, lockVars, budget>>

\* Mutant of AfterRelease: a pod that lost the lock returns, as the Kubernetes path does.
AfterReleaseReturns(p) ==
    /\ sched' = [sched EXCEPT ![p] = "off"]
    /\ Goto(p, IF sched[p] = "failed" THEN "failed" ELSE "returned")
    /\ UNCHANGED due

\* Where the loop goes after Release: it returns what the scheduler returned in the
\* select, returns nil when ctx is done, and otherwise waits before the next term.
AfterRelease(p) ==
    /\ sched' = [sched EXCEPT ![p] = "off"]
    /\ IF sched[p] = "failed" THEN Goto(p, "failed") /\ UNCHANGED due
       ELSE IF sched[p] = "stopped" \/ ctxDone[p] THEN Goto(p, "returned") /\ UNCHANGED due
       ELSE Backoff(p)

\* The key is deleted if it still holds this term's token (else ErrLockNotHeld).
Release(p) ==
    /\ loop[p] = "release"
    /\ lock' = IF lock = p THEN NoPod ELSE lock
    /\ lease' = IF lock = p THEN 0 ELSE lease
    /\ AfterRelease(p)
    /\ UNCHANGED <<proc, ctxDone, ticker, zombie, refreshIn, stopIn, budget>>

\* An error of Redis is only logged; a token still in the key is left to expire.
ReleaseFails(p) ==
    /\ loop[p] = "release" /\ Fault("redis")
    /\ lock' = IF lock = p THEN Orphan ELSE lock
    /\ AfterRelease(p)
    /\ UNCHANGED <<proc, ctxDone, ticker, zombie, refreshIn, stopIn, lease>>

\* retryEvery is over, and the check at the top of the loop finds ctx alive.
Retry(p) ==
    /\ loop[p] = "backoff" /\ due[p] = 0 /\ ~ctxDone[p]
    /\ Goto(p, "obtain")
    /\ UNCHANGED <<proc, ctxDone, sched, ticker, zombie, timers, lockVars, budget>>

\* ctx is done, seen by the select or by the check at the top of the loop.
BackoffCancelled(p) ==
    /\ loop[p] = "backoff" /\ ctxDone[p]
    /\ Goto(p, "returned") /\ Wait(p, 0)
    /\ UNCHANGED <<proc, ctxDone, sched, ticker, zombie, refreshIn, stopIn, lockVars, budget>>

-----------------------------------------------------------------------------
(* The worker process: runWorker, its signals and its restarts.            *)

\* SIGTERM or SIGINT cancels ctx, and with it leaderCtx.
Signal(p) ==
    /\ proc[p] = "serving" /\ ~ctxDone[p] /\ Fault("signal")
    /\ ctxDone' = [ctxDone EXCEPT ![p] = TRUE]
    /\ stopIn' = [stopIn EXCEPT ![p] = IF Live(p) /\ loop[p] = "lead" THEN StopTime ELSE @]
    /\ UNCHANGED <<proc, loop, sched, ticker, zombie, due, refreshIn, lockVars>>

\* The select of runWorker: a signal, or an error of the election loop, then srv.Stop.
StopServing(p) ==
    /\ proc[p] = "serving" /\ (ctxDone[p] \/ loop[p] = "failed")
    /\ proc' = [proc EXCEPT ![p] = "stopping"]
    /\ ctxDone' = [ctxDone EXCEPT ![p] = TRUE]
    /\ UNCHANGED <<loop, sched, ticker, zombie, timers, lockVars, budget>>

\* The process ends, and its goroutines with it.
Gone(p, how) ==
    /\ proc' = [proc EXCEPT ![p] = how]
    /\ Goto(p, "gone") /\ Wait(p, 0)
    /\ sched' = [sched EXCEPT ![p] = "off"]
    /\ ticker' = [ticker EXCEPT ![p] = "off"]
    /\ zombie' = [zombie EXCEPT ![p] = FALSE]
    /\ refreshIn' = [refreshIn EXCEPT ![p] = 0]
    /\ stopIn' = [stopIn EXCEPT ![p] = 0]
    /\ lock' = IF lock = p THEN Orphan ELSE lock
    /\ UNCHANGED <<ctxDone, lease>>

\* srv.Shutdown returns and so does main: nothing waits for the election loop.
Exit(p) == proc[p] = "stopping" /\ Gone(p, "exited") /\ UNCHANGED budget

Crash(p) == Alive(p) /\ Fault("crash") /\ Gone(p, "crashed")

\* The container is started again ("restart: unless-stopped", or a new deployment).
Restart(p) ==
    /\ ~Alive(p)
    /\ proc' = [proc EXCEPT ![p] = "serving"]
    /\ ctxDone' = [ctxDone EXCEPT ![p] = FALSE]
    /\ Goto(p, "obtain")
    /\ UNCHANGED <<sched, ticker, zombie, timers, lockVars, budget>>

-----------------------------------------------------------------------------
Dec(n) == IF n > 0 THEN n - 1 ELSE 0

\* One unit of time.  A ticker keeps only one tick that nobody received.
Tick ==
    /\ due' = [p \in Pods |-> Dec(due[p])]
    /\ refreshIn' = [p \in Pods |->
                        IF ticker[p] = "on" /\ refreshIn[p] > -Delay
                        THEN refreshIn[p] - 1 ELSE refreshIn[p]]
    /\ stopIn' = [p \in Pods |-> Dec(stopIn[p])]
    /\ lease' = Dec(lease)
    /\ lock' = IF lease <= 1 THEN NoPod ELSE lock
    /\ UNCHANGED <<podVars, budget>>

\* No goroutine of p has used up the time a timely one takes.
OnTime(p) ==
    /\ loop[p] = "obtained" => due[p] > 0
    /\ loop[p] = "lead" /\ ~ctxDone[p] =>
          /\ ticker[p] = "on" => refreshIn[p] > -Delay
          /\ ticker[p] = "failed" => due[p] > 0
    /\ Live(p) /\ Cancelled(p) => stopIn[p] > 0

TermStep(p) ==
    \/ Obtained(p) \/ Standby(p) \/ ObtainCancelled(p) \/ BecomeLeader(p)
    \/ RefreshOk(p) \/ RefreshLost(p)
    \/ LeaveLead(p) \/ LeadSchedulerEnded(p) \/ DrainDone(p) \/ DrainGivesUp(p)
    \/ Release(p) \/ Retry(p) \/ BackoffCancelled(p)

SchedulerStep(p) == SchedStart(p) \/ SchedStop(p) \/ ZombieEnd(p)

ProcessStep(p) == StopServing(p) \/ Exit(p) \/ Restart(p)

FaultStep(p) ==
    \/ ObtainFails(p) \/ ObtainTimesOut(p) \/ RefreshError(p) \/ ReleaseFails(p)
    \/ Signal(p) \/ Crash(p)

PodStep(p) == TermStep(p) \/ SchedulerStep(p) \/ ProcessStep(p) \/ FaultStep(p)

Next == Tick \/ \E p \in Pods : PodStep(p)

\* Time passes only while every goroutine is on time.
TimelyNext == (Tick /\ \A p \in Pods : OnTime(p)) \/ \E p \in Pods : PodStep(p)

Spec == Init /\ [][Next]_vars

TimelySpec == Init /\ [][TimelyNext]_vars

-----------------------------------------------------------------------------
(* Fairness: every goroutine that can go on does; faults are never owed.   *)

\* Obtain answers, the select of a term sees what is ready, the waits end.
LoopFairness(p) ==
    /\ WF_vars(Obtained(p) \/ Standby(p) \/ ObtainCancelled(p))
    /\ WF_vars(BecomeLeader(p))
    /\ WF_vars(LeaveLead(p) \/ LeadSchedulerEnded(p))
    /\ WF_vars(DrainDone(p) \/ DrainGivesUp(p))
    /\ WF_vars(Release(p))
    /\ WF_vars(Retry(p) \/ BackoffCancelled(p))
    /\ WF_vars(RefreshOk(p) \/ RefreshLost(p))

\* sched.Start and sched.Shutdown return.
SchedulerFairness(p) ==
    /\ WF_vars(SchedStart(p))
    /\ WF_vars(SchedStop(p))
    /\ WF_vars(ZombieEnd(p))

\* runWorker goes on to its end; the container runtime restarts a crashed pod.
ProcessFairness(p) ==
    /\ WF_vars(StopServing(p))
    /\ WF_vars(Exit(p))
    /\ WF_vars(Restart(p) /\ proc[p] = "crashed")

\* A scheduler may take forever to stop; the loop and the clock do not.
LoopSpec == Spec /\ WF_vars(Tick) /\ \A p \in Pods : LoopFairness(p)

FairTimelySpec ==
    /\ TimelySpec
    /\ WF_vars(Tick /\ \A p \in Pods : OnTime(p))
    /\ \A p \in Pods : LoopFairness(p) /\ SchedulerFairness(p) /\ ProcessFairness(p)

-----------------------------------------------------------------------------
(* Properties of every behaviour, however late its goroutines are.         *)

\* While the lock holds a token of pod p, the election loop of p is in the term the
\* token belongs to and will refresh or release it: no path through the loop, its
\* errors and its early returns leaves a token behind that the pod still counts as its own.
OwnedLockIsManaged ==
    lock \in Pods => loop[lock] \in {"obtained", "lead", "drain", "release"}

\* A scheduler whose pod has lost the lock is told to stop: the refresh that finds another
\* token, or none, ends the term, however late it comes.
LossNoticed ==
    \A p \in Pods : (Live(p) /\ lock # p) ~> (~Live(p) \/ Cancelled(p) \/ lock = p)

\* After a signal the election loop ends even if its scheduler never stops: no wait of
\* the loop lacks a timeout.
LoopEndsAfterCancel == \A p \in Pods : ctxDone[p] ~> ~InLoop(p)

-----------------------------------------------------------------------------
(* Properties of the behaviours in which every goroutine is on time.       *)

\* A scheduler that may enqueue runs under its own pod's lock, to its very end: through
\* the refreshes, their errors, the drain wait, the signal and the release.
LiveSchedulerHoldsLock == \A p \in Pods : MayEnqueue(p) => lock = p

\* At most one pod's scheduler may enqueue at any time: the abstract specification,
\* with the pods whose scheduler may enqueue as the active ones.
Single == INSTANCE SingleScheduler WITH active <- {p \in Pods : MayEnqueue(p)}
SingleSchedulerSpec == Single!Spec

\* A pod that stays up, whose Obtain never met its own deadline, brings the periodic tasks
\* back: whatever crashed, was signalled, lost its connection, its lock or (in another pod)
\* its election loop before, some scheduler runs again and again.  Staying up alone is not
\* enough: see ServingPodKeepsItsLoop.
LeadershipRegained ==
    (\E p \in Pods : <>[](proc[p] = "serving" /\ ~ctxDone[p] /\ loop[p] # "deaf"))
        => []<>(\E p \in Pods : sched[p] = "running")

-----------------------------------------------------------------------------
(* Why the timely properties hold: in each phase of a term the lease       *)
(* outlives what the phase may still take.  Inductive for TimelySpec.      *)

\* The reply of Obtain is not older than Delay when the term begins.
FreshWhenObtained(p) ==
    loop[p] = "obtained" => lock = p /\ lease >= due[p] + TTL - Delay

\* Until the next refresh is overdue there is room for it to be late, for its failure to
\* be noticed late, and for the scheduler to stop.
RoomToRefresh(p) ==
    loop[p] = "lead" /\ ticker[p] = "on" /\ ~ctxDone[p] =>
        lock = p /\ lease > refreshIn[p] + 2 * Delay + StopTime

RoomToNotice(p) ==
    loop[p] = "lead" /\ ticker[p] = "failed" /\ ~ctxDone[p] =>
        lock = p /\ lease > due[p] + StopTime

\* A scheduler told to stop does so before the lease and the drain wait run out.
RoomToStop(p) ==
    Live(p) /\ Cancelled(p) =>
        /\ lock = p /\ lease > stopIn[p]
        /\ loop[p] = "drain" => stopIn[p] < due[p]

TermInv(p) ==
    /\ ~zombie[p]
    /\ Live(p) => loop[p] \in {"lead", "drain"}
    /\ (ticker[p] # "off") <=> (loop[p] = "lead")
    /\ FreshWhenObtained(p)
    /\ RoomToRefresh(p)
    /\ RoomToNotice(p)
    /\ RoomToStop(p)

\* The inductive invariant of TimelySpec.
TimelyInv == TypeOK /\ \A p \in Pods : TermInv(p)

-----------------------------------------------------------------------------
(* What the repository says and the code does not do; see the findings.    *)

\* README.md:21, "Each worker pod runs both the asynq server (consumer) and an embedded
\* scheduler": a pod that serves and was not told to stop still has its election loop.
ServingPodKeepsItsLoop ==
    \A p \in Pods : proc[p] = "serving" /\ ~ctxDone[p] => InLoop(p) \/ loop[p] = "failed"

\* cmd/worker.go:74, "Waiting for scheduler loop to exit": a process that shuts down
\* gracefully does not end while the lock is its own and its election loop has still to
\* release it.
ExitWaitsForLoop ==
    [][\A p \in Pods :
          proc[p] = "stopping" /\ proc'[p] = "exited"
              => ~(lock = p /\ loop[p] \in {"obtained", "lead", "drain", "release"})]_vars
=============================================================================
