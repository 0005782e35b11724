# Verification of the multi-pod asynq prototype

TLA+ models, TLC runs and TLAPS proofs about the program in `src/`: worker pods
that consume tasks from Redis through asynq and, in the same process, elect one
pod that runs the asynq scheduler for the periodic tasks.

Everything is translated from the Go source. asynq, redislock, Redis and the
container runtime are not part of the source; their behaviour is modelled as far
as the code relies on it, and the definitions that do so are marked `external` in
`PROJECT.json`.

## 1. Inventory

### The parts and how they interact

```
 docker-compose / kubernetes ──restart──▶ worker pod (cmd/worker.go)
                                            │ srv.Start/Stop/Shutdown
        ┌───────────────────────────────────┤ ctx, schedErr
        ▼                                   ▼
 election loop (scheduler.go)          asynq server + middleware + handlers
   │ lock key, TTL      │ leaderCtx       ▲            │ results, retries,
   ▼                    ▼                 │ pending    ▼ archive
 Redis key        asynq Scheduler ───▶ queues in Redis ◀─── web API, CLI
                  + cleanup of asynq:schedulers
```

| Component | Source | State | Operations | What is hard |
|---|---|---|---|---|
| Redis leader election | `internal/scheduler/scheduler.go:204-324` | the key with its token and TTL; per pod: place of the loop, scheduler goroutine, refresh goroutine, timers | Obtain, the term's select, refresh, drain wait, Release, backoff | three goroutines and a lease; replies that are late or lost; cancellation at every point; a scheduler that does not stop in time |
| Worker process | `cmd/worker.go`, `docker-compose.yml:43` | serving, stopping, gone; its context | start, signal, scheduler error, Stop, Shutdown, crash, restart | the process may end before the loop has released the lock |
| Embedded scheduler | `scheduler.go:326-364`, `390-453` | entries in `asynq:schedulers`, cron timers, the unique lock of each periodic task, options fixed at registration | cleanup, register, fire, deduplicate, shut down | crashes between the reads and the deletes of the cleanup; overlapping terms; unique locks of archived or slow instances; stale options |
| Kubernetes election | `scheduler.go:83-202` | a Lease object, the elector's goroutines | elect, renew, lose, release on cancel, fall back to Redis | the lease is released, or has expired, before the scheduler is told to stop; a lost lease ends the loop for good; two domains of election |
| Election settings | `scheduler.go:127-141`, `223-237` | durations | normalisation of the configured values | results that `NewLeaderElector` refuses; a refresh interval that leaves no room |
| Worker server and middleware | `internal/worker/server.go`, `internal/middleware/middleware.go` | task states in Redis, leases, retry counts, one token bucket per pod | dequeue, logging, recovery, rate limit, handler, retry/archive/complete, recovery of lost tasks | at-least-once delivery: lost leases, late results, shutdown, rate limits that must not count |
| Task handlers | `internal/tasks/{email,image,report,webhook}.go` | none of their own | ok, error, `SkipRetry`, context end, panic | which error ends a task |
| Notification groups | `internal/tasks/notification.go`, `server.go:47-52` | groups and aggregation sets in Redis, a batch task | aggregate, batch handler | crash between enqueue and delete; undecodable members; a batch index out of range |
| Payload codec | `internal/tasks/codec.go`, `types.go`, `pb/` | a process-wide format | marshal, unmarshal | mixed formats during a rollout; `int` cut to `int32`; an all-zero Protobuf payload has no bytes |
| Web API, CLI | `internal/web/api.go`, `cmd/enqueue.go` | none | build tasks and options, list, pause, resume, delete | options and unique keys of three producers on the same task; queues that nobody serves; raw payloads of the command line; deletion while the task moves |
| Dashboard, commands, configuration | `internal/web/{handlers,template,router}.go`, `cmd/{root,web}.go`, `internal/config`, `main.go` | none | pages, start-up, viper | nothing that a model checker would reach |

What makes each modelled component correct:

* election: at most one pod's scheduler may enqueue at a time; a leader that lost
  its lock learns of it; nothing waits for ever; nothing that happens to a pod
  takes the lock with it for good; the periodic tasks come back after faults; a
  scheduler outlives its Lease by a known time at most;
* scheduler: one instance per period over all leaders, deduplication neither lets
  a young twin of the same payload in nor silences a task, dead entries are cleaned up;
* worker: a task is acknowledged only after its handler succeeded, repeated only
  for a reason, archived only for a reason, attempted by one pod at a time unless
  a lease was lost, never revived after deletion, and it settles;
* producers, codec and groups: what a request says is what its handler is told, in
  whatever formats producer, aggregator and worker run; nothing is deleted before a
  batch was made of it; a batch belongs to one user; equal webhooks do not wait twice;
  every task in a served queue comes to an end.

`PROJECT.json` lists the hazards of this code line by line with the properties
that watch them, and for the others says why none does.

## 2. Modules

| Module | What it is |
|---|---|
| `SingleScheduler` | the abstract promise of both elections: terms do not overlap |
| `RedisElection` | the election loop, its goroutines and the worker process |
| `RedisElectionProofs` | theorems about it, with the refinement of `SingleScheduler` |
| `ElectionSettings` | how the durations of both elections are normalised, and what client-go accepts |
| `ElectionSettingsProofs` | lemmas and theorems about them, for every configuration |
| `K8sElection` (extends `ElectionSettings`) | `RunWithLeaderElection`: the election over a Kubernetes Lease and the fallback |
| `K8sElectionProofs` | theorems about it, with the refinement of `SingleScheduler` |
| `PeriodicTasks` | `runSchedulerAsLeader` and the life of one periodic task |
| `PeriodicTasksProofs` | theorems about it, under the terms of `SingleScheduler` or any others |
| `PeriodicUnderElection` (extends `PeriodicTasksProofs`, instantiates `RedisElectionProofs`) | the periodic tasks in the terms the Redis election grants, with theorems |
| `TaskQueue` | the abstract promise of the queues: how a task may end |
| `TaskLifecycle` | tasks on their way through queue, pods, middleware and handlers |
| `TaskLifecycleProofs` | theorems about it, with the refinement of `TaskQueue` |
| `PayloadCodec` | payload formats: what is written, what can be read, what is cut |
| `EnqueueApi` (extends `PayloadCodec`) | how web API, command line and scheduler make a task of a request |
| `EnqueueApiProofs` | lemmas about both |
| `GroupOutbox` | the abstract promise of the aggregation: batched before deleted |
| `TaskPipeline` (extends `EnqueueApi`) | tasks from the request over queues, locks, groups and batches to the handler |
| `TaskPipelineProofs` | theorems about it, with the refinements of `GroupOutbox` and `TaskQueue` |
| `MCElection`, `MCK8s`, `MCPeriodic`, `MCTasks`, `MCPipeline` | the instances TLC checks |

`PeriodicTasks` stands on the result of `RedisElection`: with `Exclusive` its
`BeginTerm` grants terms exactly as `SingleScheduler` allows (`Terms` is that module for
its `Active` pods); without, they overlap, as the election permits when its timing
assumptions fail. `PeriodicUnderElection` puts the election itself in the place of this
summary. `K8sElection` stands
on it in the same way: a pod that fell back to Redis has terms as `SingleScheduler`
allows. `MCElection` takes TTL, refresh and retry of its runs from `RedisNormalised`.

### RedisElection

| Variable | Code |
|---|---|
| `proc`, `ctxDone` | the select of `runWorker` and its `signal.NotifyContext` |
| `loop` | program point of `runWithRedisLeaderElection`: `obtain`, `obtained` (the SET is done, its reply not yet seen), `lead` (the select), `drain` (the 2 s wait), `release`, `backoff`, `returned` (nil, after a signal), `deaf` (nil, because Obtain met its own deadline), `failed` (returned with an error), `gone` |
| `sched`, `ticker` | the two goroutines of a term and what they have put in `schedulerErrCh`, `refreshErrCh` |
| `zombie` | at least one `runSchedulerAsLeader` that a drain wait gave up on is still running |
| `due`, `refreshIn`, `stopIn` | `time.After`, the refresh ticker (negative: its tick is late), and what a timely scheduler has left to stop |
| `lock`, `lease` | the Redis key: whose token, and its TTL. `Orphan` is a token that no live loop owns |
| `budget` | faults left |

One action per way out of each wait: `Obtained`, `Standby`, `ObtainFails`,
`ObtainCancelled`, `ObtainTimesOut` for `locker.Obtain`; `BecomeLeader`;
`SchedStart`, `SchedStop` for the scheduler goroutine; `RefreshOk`, `RefreshLost`,
`RefreshError`; `LeaveLead`, `LeadSchedulerEnded` for the select; `DrainDone`,
`DrainGivesUp`; `Release`, `ReleaseFails` with `AfterRelease`, the three places the
loop may go to; `Retry`, `BackoffCancelled`; and for the process `Signal`,
`StopServing`, `Exit`, `Crash`, `Restart`. A Redis error may come before or after
the command took effect. Where two channels are ready Go's select may take either,
and so may the model.

Three specifications share these actions. `Spec`: any goroutine may be arbitrarily
late. `TimelySpec`: time does not pass while a goroutine has used up the `Delay` (of
a reply or of a loop iteration) or `StopTime` (of `sched.Shutdown`) a timely one
takes. `LoopSpec` and `FairTimelySpec` add fairness.

Abstractions: the drain of several abandoned schedulers is one flag; a refresh in
flight when `leaderCtx` is cancelled counts as executed or not by the order of
`RefreshOk` and `LeaveLead`; restarts are immediate.

### ElectionSettings and K8sElection

`ElectionSettings` is pure: `Normalised` and `RedisNormalised` are the two blocks of the
code that replace zero, negative and contradictory durations, `Accepted` the checks of
`NewLeaderElector` in client-go v0.35.2, the version `go.mod` names.

| Variable | Code |
|---|---|
| `settings`, `env` | the normalised durations; what decides `errK8sLeaderElectionUnavailable` for each pod |
| `proc`, `ctxDone` | `runWorker` and its context |
| `loop` | `RunWithLeaderElection`: `start`, `acquire`, `lead` and `release` (inside `elector.Run`), `redis`, `redisTerm` (the fallback), `returned` (nil), `failed` (an error), `gone` |
| `sched` | the goroutine of `OnStartedLeading`: `runSchedulerAsLeader`, or its error in `leaderErrCh` |
| `due`, `stopIn` | what the renewing, or the release, may still take; what a timely scheduler that was told to stop has left |
| `holder`, `lease` | the Lease object as the API server has it |
| `lost`, `stray` | history: the process lost the Lease; time its scheduler has run without it |

The order of the calls is client-go's: after the last renewal an elector sleeps a retry
period and tries for a renew deadline (`Lose`), gives the Lease up if it still can
(`Release`, which may take another renew deadline and may fail), and only then does
`elector.Run` return and cancel the context of `OnStartedLeading`, for which it does not
wait. A signal cancels that context at once. `AfterRun` is the select after
`elector.Run`: the scheduler's error, or nil, even when nobody asked the loop to end.

Abstractions: pods have distinct IDs and one configuration; a term over Redis is one
state, whose timing is the subject of `RedisElection`; an attempt to acquire or renew is
one step; that the elector's clock judges expiry is folded into `lease`, which
`Delay` lets every goroutine see late.

### PeriodicTasks

`phase` is the program point of `runSchedulerAsLeader`, `told` its cancelled
context, `found` the keys `cleanupSchedulerState` has read and not deleted, `warned`
whether the cleanup failed, `fireIn` the cron timer, `window` what is left of the
`Deadline` that `buildPeriodicTask` fixed once for the term, `key` the unique key it
fixed with it, `registry` the members of `asynq:schedulers`. The queue is a set of slots:
`task` is each instance's time to its deadline, `unique` its key; `owner` and `ttl` are
the locks of `asynq.Unique`, one for each key. A key is that of the payload's bytes: for
the report they hold the dates of the day on which the leader registered, in the payload
format of its pod, so each term may have any of `Keys` and keeps it. One `@every` task is
followed; tasks do not interact with each other. An archived instance leaves the
queue and keeps the lock (`Dead`), as asynq does.

A firing (`Fire`) ends in one of three ways. `Enqueue`: Redis takes the instance
(`Accept`). `Duplicate`: another instance holds the lock of the payload. `EnqueueFails`:
any other error, before or after Redis took the instance. `PostEnqueueFunc` logs the last
two alike and the firing is over. `CleanupFails` is any error of the cleanup, before or
after Redis executed it, `RegisterFails` any error of `RegisterTasks` or `Start`, and
`EndTerm` what the end of `runSchedulerAsLeader` leaves of a term: nothing but the entries
in `asynq:schedulers`, which `Stop` clears and `Crash` does not.

Abstractions: a firing at the end of its period happens before time goes on; wall-clock
cron entries, whose firings fall on the same instants under every leader, are not
modelled.

### TaskLifecycle

`state`, `retried` and `holder` are the task in Redis and the lease on it; `exec` is
each pod's attempt (`begun` before the rate limiter, `handling` in the handler, then
the result); `tokens` the pod's bucket; `up` the server between `srv.Stop` and
`srv.Shutdown`; `lost`, `aborted` and `delivered` count what happened to the task.
`Allow`/`Limit` are `RateLimitMiddleware`, `Handle` with `Outcomes` the handlers under
`RecoveryMiddleware`, `IsFailure` and `Settle` the configuration of `NewServer` as
asynq applies it, `Finish` the end of an attempt under its lease. A pod that lost a
lease keeps executing: its result is dropped, its effects are not. `Delete`,
`PauseQueue` and `UnpauseQueue` are the handlers of the web API. Whether asynq retries a
rate-limited task whose counted retries are used up or archives it is not visible in the
source, so `Settle` allows both.

Abstractions: one queue; a pod makes one attempt at a task at a time; concurrency is
not limited; the age of a task (retention) is not modelled; the delay of a retry is
the freedom of `Forward` to come late.

### PayloadCodec, EnqueueApi and TaskPipeline

A payload is an encoding with a content. The encoding is `json`, `proto`, `empty` (no
bytes: a nil payload, and what Protobuf makes of an all-zero message) or `garbage`; the
content is the same record for all types: the `texts` the handler acts on, the ones that
come with a number (`numbered`, `num`) and a count. For a batch these are `messages`,
`user_ids` and `count`; a payload whose lists differ in length has texts without
a number or numbers without a text.
`Marshal` cuts numbers to `int32` when the format is Protobuf, `Readable` says which
bytes `unmarshalPayload` takes.

`Build` is what a producer makes of a request: the constructor of the type with its
options (`Options`), then the options of the call (`WithOptions`), as in
`buildTaskFromRequest`, `buildCLITask` and `buildPeriodicTask`, which differ in the types
they construct (`Constructs`), in what they refuse (`Refused`), in what they send
when they construct nothing (`PayloadOf`) and in whether they set a queue that is not
named (`Names`): `buildPeriodicTask` always does, and asynq refuses the empty name.

`TaskPipeline` follows each request as one task: `state`, `job` (what was enqueued) and
`left` (retries) are in Redis, as are the unique locks (`locked`) and the aggregation sets,
which a pod works on (`taken`, `step`) or has left behind (`stale`). `format` is each
process's `payloadFormat`. `from`, `lapsed`, `again` and `seen` are history. `Enqueue` is
`EnqueueHandler`, `runEnqueue` and a firing of the scheduler; `ReadGroup`, `SendBatch`,
`DeleteSet` are the steps of asynq's aggregator around `AggregateNotifications`, with
`Abandon` and `Restart` between any two of them and `Reclaim` for its recoverer; `Handle`
is an attempt under whatever format the pod has: `Answer` is what the handler makes of the
payload (a batch fails if it has fewer users than messages), and the handlers that watch
their context (`Watches`) may fail although they would not have to.

Abstractions: an attempt is one step (its leases, rate limits and shutdowns are
`TaskLifecycle`'s); queues are sets; a delay is the freedom of `Forward` to come late; the
deadline that makes a set stale does not overtake a pod that still deletes it; a group is
read when asynq may read it, whichever of the three limits of `server.go:49-51` was
reached; a handler that does not watch its context succeeds at work it only simulates.

## 3. Runs

Durations are small numbers of units; the timely runs use durations that satisfy
`LeaseAssumption` with the least room it leaves.

| Run | Instance | Question and answer |
|---|---|---|
| `election_timely` | `TimelySpec`, 2 pods (one whose cron spec is refused), TTL 7, refresh 2, delay 1, stop 1, 3 faults | does every leader stop before another starts? Yes: `LiveSchedulerHoldsLock`, refinement of `SingleScheduler`, and the invariant of the proof |
| `election_late` | `LoopSpec`, TTL 3, refresh 1, no bound on lateness, 2 faults of all kinds | what survives lateness? No token is forgotten, loss is noticed, a cancelled loop ends |
| `election_regain` | `FairTimelySpec`, 3 faults of all kinds, no pod refused | does a leader come back? Yes, if some pod stays up whose own Obtain did not meet its deadline; the others may be `deaf` |
| `election_deaf` | one deadline | *violated*: a serving pod can lose its loop (section 5) |
| `election_exit` | one signal | *violated*: the process ends while its loop has still to release the lock |
| `periodic_exclusive` | period 2, `unique_ttl` 3, deadline 5, 2 slots, 2 unique keys, 2 crashes, 2 errors of enqueue, failing cleanups | period, deduplication per payload, cleanup, an answered firing skipped only for a recent instance, no silence: hold |
| `periodic_overlap` | the same with 1 error, overlapping terms | *violated*: `asynq.Unique` alone does not keep a second instance out |
| `periodic_deadline` | the same with 1 error, exclusive | *violated*: reports are enqueued past their deadline |
| `tasks_faults` | 2 pods, a good and a flaky task, 1 retry, bucket of 1, 2 faults; pods are symmetric | archive, repetition, acknowledgement, single attempt, deletion, refinement of `TaskQueue`: hold |
| `tasks_settle` | 1 pod, a good, a failing and a refused task, 1 retry, bucket of 1, 1 fault | every task settles |
| `k8s` | 2 pods (one whose cron spec is refused), each in a cluster with or without a namespace, 4 configurations of the durations, delay 1, stop 1, 2 faults | `SingleScheduler` when there is room, `StrayBounded` in any case, who may go deaf, a leader again and again: hold |
| `pipeline` | 2 of 12 requests, 2 pods, formats `""` and `"proto"`, up to 3 batches of at most 2, an `int32` of 3 bits, 1 fault | refinements of `GroupOutbox` and `TaskQueue`, no member in two sets and none taken that no set holds, one batch per stay, one user per batch, numbers, everything carried under one format, twins, raw payloads, readability, an end for every served task: hold |

Why the bounds are enough. A hand-over of the lock involves the old and the new
holder, so two pods show every interleaving the code distinguishes; the third is
left to the theorems, which hold for any set of pods. Three faults allow a crash of
the leader, a failed release of the next one and a signal in one behaviour. TTL 7 is
the least that `TTL > RefreshEvery + 3 Delay + StopTime` allows, so each timer can be
as late as permitted; with TTL 6 and the assumption weakened TLC finds the lease
expiring under a live scheduler, so the bound is tight. Two slots hold a young and an
old instance, two keys are that of a term and that of another day or format, two errors lose
a firing or its reply under each of two leaders, period 2 and `unique_ttl` 3 make the lock outlive one firing as in
`config.yaml` (125 s over 2 m), and deadline 5 lets a term outlive it. One retry and a bucket of one make
retries exhausted and buckets empty within a few steps; two faults lose as many
leases as it takes to archive a good task.

`k8s`: the four configurations are one with room for late renewals, one without (lease 4,
3 + 1 for the renewals), one that `NewLeaderElector` refuses (6, 5) and none at all; the two
environments are a pod that elects over the Lease and one that falls back. Two faults let a
leader lose its Lease to a pod that then crashes or is told to stop. A third pod adds no
kind of step: each step involves one pod and the Lease.

`pipeline`: the twelve requests have each producer, two that are refused (a payload that does
not fit, a periodic entry without a queue), one raw and uneven, one
of an unknown type, a nil payload, one for a queue nobody serves, two equal webhooks with
different options, a failing one, and three notifications, two of a user and one whose user
is cut to the same number. A property of the list speaks of at most two of them at a time;
two members make a group that is full, short, or of mixed formats. With one fault a set is
left behind before or after its batch, and reclaimed; three batches are as many as two
members and one fault can need. The proofs have no such bounds.

### Fairness

* `LoopFairness`: each wait of the loop ends: Redis answers (with whatever answer),
  `time.After` fires, Go's select takes a ready case. Release is bounded by its two
  second context or fails, and Redis errors themselves are never owed.
* `SchedulerFairness`: `sched.Start` and `sched.Shutdown` return. It is not assumed in
  `election_late`, where the drain wait must do without.
* `ProcessFairness`: `runWorker` comes to its end; `restart: unless-stopped` restarts a
  crashed container. A pod that was told to stop need not come back.
* `election_regain` has no pod with a refused configuration: such a pod takes the lock,
  fails, restarts and takes it again, and may starve the others. `LeadershipRegained` asks
  for a pod that stays up and is not `deaf`: a serving pod whose Obtain met its own deadline
  never elects again, which is what `election_deaf` shows.
* `PeriodicTasks`: time passes, a due firing is made and answered in some way, workers take
  what is queued. Errors are never owed, and there are finitely many of them.
* `TaskLifecycle`: attempts go on, containers restart, delays end, and a paused queue is
  resumed in the end (an operator's doing); a pod takes a pending task that it could
  take again and again (strong fairness, since pauses and restarts come in between).
  Faults, deletions and pauses are never owed.
* `K8sElection`: time passes, every goroutine that can go on does, including the elector of
  a pod that finds the Lease free, and a container that ended is started again. Renewals,
  answers to a release, signals and crashes are never owed.
* `TaskPipeline`: asynq's forwarder, aggregator, recoverer and processors go on. Requests,
  restarts, abandoned sets and lapsed locks are never owed. `EveryTaskEnds` is stated as
  "again and again all have ended", which for finitely many tasks that never leave `Final`
  says it of each.

## 4. Theorems

All are proved for arbitrary sets of pods, tasks and slots, numbers of faults, and
durations, from the named assumptions of the modules.

* **Timing.** `TimingAssumption` and `PodsAssumption` say what kind of values the
  constants are. `LeaseAssumption` is `TTL > RefreshEvery + 3 * Delay + StopTime` and
  `StopTime < DrainTimeout`; with the defaults (15 s, 5 s, 2 s) it leaves replies and
  goroutines two seconds of lateness each and the scheduler just under two to stop.
* **`LiveHoldsLock`, `ImplementsSingleScheduler`** (`TimelySpec`). That a live scheduler's
  pod holds the lock is not inductive: nothing in it says that the lease will last. The
  invariant `TimelyInv` adds, for each phase of a term, how much lease is left beyond
  what the phase may still take: `FreshWhenObtained` (the reply of Obtain is at most
  `Delay` old), `RoomToRefresh` (until the next refresh, two more delays and the stop),
  `RoomToNotice` (after a failed refresh, until the loop sees it), `RoomToStop` (until a
  scheduler that was told to stop has stopped, before the drain wait gives up). A step
  of one pod changes its own terms (`OwnStep`) and leaves those of the others alone
  because a pod touches the key only if it is free or its own (`OtherStep`); a tick
  takes one unit from every side (`TimelyTick`). The refinement follows since the set of
  pods that may enqueue has at most one member, changes by one pod at a time, and
  grows only from empty.
* **`OwnedLockManaged`, `TypeCorrect`** (`Spec`): no timing is assumed.
* **`NoYoungTwinEver`** (`PeriodicTasks`, overlapping terms or not, any keys and any errors)
  from `YoungHoldsLock`: an instance younger than `unique_ttl` holds the lock of its own
  payload, and the lock's TTL and the age add up to at least `unique_ttl`. It says nothing of
  instances of different payloads, and could not (section 5).
* **`OneInstanceUnderElection`, `CleanedUnderElection`** (`PeriodicTasks`, in any behaviour
  whose terms are `SingleScheduler`'s) from `TermInv`: one active pod, `since + fireIn >=
  Period` for a running one, and a cleanup without error has read or removed every dead
  entry. `OneInstanceEveryPeriod` and `DeadEntriesCleaned` say it of the specification the
  runs check, where `Exclusive` assumes such terms.
* **`OneInstanceAcrossPods`, `CleanedAcrossPods`** (`PeriodicUnderElection`): the same two
  results with the timely Redis election in place of the assumption about terms, from the
  refinement of `SingleScheduler`. `System` joins the two specifications by `SameTerms`: a pod
  is active in the one exactly when it may enqueue in the other, so the steps that begin or
  end a term are joint steps of both (`BeginTerm` with the election's start of a term, the
  ways out of a term with their counterparts, a crash with a crash), and every other step is
  one module's own. The two clocks are not tied to each other, which allows more
  behaviours than the code has. There is no such theorem for the Kubernetes election: there a
  scheduler may run on for a while after its Lease is lost, so it is not the terms of
  `runSchedulerAsLeader` that are exclusive (`StrayIsBounded`).
* **`FiringsLeaveRecent`**, whatever the terms: after a firing that Redis answers, deduplicated or
  not, the last instance was enqueued less than `unique_ttl` ago, whatever errors met the
  firings before. The invariant behind it is `LockOfLast`: the TTL of any lock and the time
  since the last instance add up to `unique_ttl` at most.
* **`RepeatedByLoss`** (`TaskLifecycle`). The bound on deliveries becomes inductive when
  the attempts that may still deliver or bring the task back (`Trying`) and the task's
  right to another attempt (`Open`: it is waiting, or active without a lease) are added
  to the deliveries: `Paid`. A dequeue exchanges the right for an attempt, a delivery the
  attempt for itself, a retry gives the right back, and only a lost lease or a shutdown
  adds to the other side. The pods are finitely many.
* **`GoodNotArchived`** from `ChargedForLoss`: a good task's retry count never exceeds its
  lost leases, and is below it while a loss is not yet recovered.
  **`CompletedDelivered`** from `Acknowledged`, **`AttemptedAlone`** from `Leased`, and
  **`DeletedStays`** from the type invariant, which says that only an active task has a
  holder.
* **`ImplementsQueue`** (`TaskLifecycle` and `TaskPipeline`, both of `TaskQueue`). In the
  first a task has an attempt with leases, rate limits, lost pods and late results, in the
  second an attempt is one step with formats, queues and groups around it; the abstract
  promise is the same, which is what justifies the one step. In `TaskLifecycle` the proof needs
  that a lease has one attempt (`Leased`), that only a task that was handled is
  acknowledged (`Acknowledged`), and that a result `skip` comes of a task its handler refuses
  (`SkipsRefused`); `FailureCases` says what `Settle` makes of a failure. In
  `TaskPipeline` it needs that a request has one place only (`Owned`), a task that is `Build`
  of its request (`JobInv`), and that an archived one stays refused although the format of a
  pod may change: the abstract `refused` only grows.
* **`ElectionSettingsProofs`**, for every configuration, from lemmas about integer division:
  the three durations are ordered whatever is configured, so `NewLeaderElector` refuses them
  only for a retry period too close to the renew deadline (`RefusedOnlyForRetry`); one that
  the code chooses is accepted (`DefaultRetryAccepted`); the tickers of the Redis election
  never get a period that would panic (`RedisPeriodsPositive`).
* **`ImplementsSingleScheduler`** (`K8sElection`). The invariant `RoomInv` says that a pod in a
  term holds the Lease, and for longer than its renewals may still take (`due`): a renewal
  renews both, a tick takes one from both, and another pod may only take a Lease that has
  expired. It needs the premise `Roomy`; `DefaultsLeaveRoom` shows that durations the code
  chooses itself satisfy it for goroutines up to a ninth of the lease late.
* **`StrayIsBounded`** needs no room. `StrayInv` adds up, for each phase of a term, the time
  without the Lease and the time the phase may take: `stray + due + renew` in `lead`,
  `stray + due` in `release`, `stray + stopIn` once the scheduler is told, each below the
  bound plus what is left of the Lease.
* **`DeafOnlyByLoss`**: a context that is not cancelled and a loop that returned nil imply a
  lost Lease, because an error of the scheduler is in `leaderErrCh` before the election is
  cancelled.
* **`TaskPipelineProofs`**, for any requests, pods, formats and bounds. One inductive invariant
  carries all: `Known` and `Owned` (what waits in a group has one, and is in one set only),
  `OnceUnlessLeft`, `JobInv`, `DeletedInv` (what is gone is in a batch), `LockInv` (a webhook
  that waits holds its lock or has outlived it, and two holders have different keys). The heart is
  `JobInv`: each request's task is `Build` of it in a format that was in use (`Made`), each
  batch has members of one group (`Sources`) and says what the members its pod could decode
  say, number by number (`Written`). The theorems about numbers, users, raw payloads, readability
  and twins follow from it and from lemmas about `Marshal` and `Build`; for
  `ImplementsOutbox` each step of the pipeline is an `Accept`, a `Batch`, a `Delete` or a stutter.
* **`NoneStranded`**: the sets that hold members, of pods and left behind, are disjoint, and each
  taken member is in one of them. The first half is `Owned`, the second `Unstranded`.
* **`OneFormatIsCarried`**: if all processes have one format throughout, every batch carries
  every member it was made from, because each was written and read in the only format
  there is (`OneFormat`).
* **`RedisDefaultsLeaveRoom`, `RedisRefreshUncorrected`** (`ElectionSettingsProofs`): a
  refresh interval the code chooses leaves two thirds of the TTL to what `LeaseAssumption`
  wants room for; one that is configured is used as it is, even if it is no shorter than
  the TTL.

Only model-checked: the liveness properties (`LossNoticed`, `LoopEndsAfterCancel`,
`LeadershipRegained`, `LeaderAgain`, `NeverSilenced`, `EveryTaskSettles`, `EveryTaskEnds`), since the
proof system does not reason about fairness and ENABLED.

## 5. Disagreements found

* `ServingPodKeepsItsLoop`: `scheduler.go:248` takes `DeadlineExceeded` of Obtain's own
  deadline for a shutdown. The loop returns nil, the pod serves on without it, against
  `src/README.md:21`.
* `ExitWaitsForLoop`: `cmd/worker.go:74` logs that it waits for the scheduler loop, and
  does not: a pod told to stop between Obtain and Release exits with its token in the key,
  which stays until its TTL runs out, after a graceful shutdown.
* `OneInstancePerPeriod` under overlapping terms: `asynq.Unique` is released when an
  instance completes, so it is the election and not deduplication that keeps a second
  instance out, against `src/README.md:21`.
* `EnqueuedBeforeDeadline`: the deadline of periodic reports is fixed when the leader
  registers them; every report fired more than ten minutes into a term is late.

Seen while modelling, without a run of its own:

* `PostEnqueueFunc` (`scheduler.go:52-56`) logs every error of an enqueue as "expected for dedup":
  a firing that Redis did not answer is lost and looks like a duplicate. The same goes for an
  entry without a queue (`scheduler.go:446`), which asynq refuses at every firing.
* the dates in the report's payload (`scheduler.go:425-427`) make its unique key that of the day of
  registration, so a leader that registered on another day, or runs with another payload
  format, enqueues beside a young unfinished instance of its predecessor; what holds over
  such leaders is the period (`OneInstancePerPeriod`), not the deduplication.
* a pod that lost its Lease leaves `elector.Run`, and `scheduler.go:193` returns nil: the
  worker serves on and never campaigns again. `DeafOnlyAfterLoss` shows that this is the only
  way to such a pod under the Lease.
* a release that the API server does not answer delays the cancellation of the scheduler's
  context by a renew deadline: with 15 s, 10 s and 2 s the scheduler may still enqueue when the
  Lease has expired. `StrayBounded` is the bound on it, and `LeaseSpec` counts a pod as
  leading only until it knows that its term is over.
* pods that elect over the Lease and pods that fell back to Redis do not know of each other.
* `src/README.md:68` lists `report:generate` in queue `low`; `NewReportGenerateTask` names no
  queue, so only the periodic entry and requests that say so put it there.
* `notification.go:67` says that its handler is reached by single notifications; a group
  of one is aggregated into a batch of one, so it is not. A payload without a group, such as one a
  periodic entry sends, reaches it.
* a refresh interval of the Redis election that is not below its TTL is not corrected
  (`scheduler.go:227-233`), as the Lease's renewal is (`131-134`): the lock then expires under
  every leader before it is refreshed.
* `asynq.Unique` makes its key of the payload's bytes (`codec.go:41`, `webhook.go:27`), so one webhook
  requested in two formats during a rollout is two. `WebhookNoTwin` shows that one format has
  one, and so that a request repeated because the reply of `client.Enqueue` was lost
  (`api.go:43`) is refused while the first one waits and its lock lasts.
* a pod that aggregates notifications of the other format deletes them with the set; the
  batch counts them and does not carry them (`lost` in `GroupOutbox`).

## 6. Not modelled, and the plan

Not modelled for good: page rendering, start-up and viper (no state, no concurrency),
the generated `tasks.pb.go`, the wording of logs and JSON, and what the dates in payloads say
beyond their part in the unique key. The
list handlers of the web API read only.

Not modelled, for lack of anything the source fixes: which task asynq takes next among
queues with weights, how many it runs at a time, and whether a call of `client.Enqueue`
whose reply was lost was repeated (a repeated call is one more request here).

Left to do, in this order:

1. the two elections side by side in one model, `RedisElection` in place of its summary in
   `K8sElection`, during a rollout that changes `k8s_leader_election.enabled`;
2. wall-clock cron entries in `PeriodicTasks`: firings at the same instants under every
   leader, which the unique lock and not the period keeps apart;
3. `TaskPipeline` with the attempts of `TaskLifecycle` in place of its one-step `Handle`. That
   both implement `TaskQueue` answers most of it; what is left is a batch that is handled
   twice under a lost lease;
4. a shared `POD_ID`, which would make one Lease hold two elections.
