--------------------------- MODULE TaskPipeline ---------------------------
(***************************************************************************)
(* Tasks from the request that makes them to the handler that ends them,   *)
(* over processes that may run with different payload formats: the         *)
(* producers of EnqueueApi, asynq's queues, unique locks and groups, the   *)
(* aggregation of notifications (AggregateNotifications, server.go:47),    *)
(* and the decision of each handler.  Leases, rate limits and shutdowns    *)
(* are the subject of TaskLifecycle; here an attempt is one step.          *)
(***************************************************************************)
EXTENDS EnqueueApi, FiniteSets

CONSTANTS
    Requests,       \* identities of requests
    Req,            \* what each of them says
    MaxRequests,    \* bound: how many of them are made in one behaviour
    Batches,        \* bound: the batch tasks there may be
    Pods,           \* the worker pods; the scheduler is in one of them
    Settings,       \* the payload formats processes are configured with
    Served,         \* worker.queues
    MaxSize,        \* GroupMaxSize
    Success,        \* simulated status codes 2xx
    ClientError,    \* and 4xx
    MaxFaults,      \* bound: restarts, abandoned sets and lapsed locks
    NoJob

ASSUME PipelineAssumption ==
    /\ DOMAIN Req = Requests /\ \A r \in Requests : Req[r] \in RequestType
    /\ IsFiniteSet(Requests) /\ Requests \cap Batches = {}
    /\ Served \subseteq Queues
    /\ MaxSize \in Nat \ {0} /\ MaxSize < Half
    /\ MaxFaults \in Nat /\ NoJob \notin Jobs
    /\ SetPayloadFormat(Settings) # {}

Tasks == Requests \cup Batches

VARIABLES
    format,         \* payloadFormat of each pod
    state,          \* of each task
    job,            \* what was enqueued as the task
    left,           \* retries the task has left
    taken,          \* the aggregation set each pod works on
    step,           \* and how far it is
    stale,          \* aggregation sets nobody works on
    from,           \* the members each batch was made from
    locked,         \* tasks that hold the unique lock of their key
    lapsed,         \* tasks whose unique lock expired
    again,          \* members of sets abandoned after their batch was enqueued
    seen,           \* formats any producer or worker has run with
    budget

groupVars == <<taken, step, stale>>
ghosts == <<from, lapsed, again>>
vars == <<format, state, job, left, groupVars, ghosts, locked, seen, budget>>

Final == {"refused", "duplicate", "gone", "done", "archived"}
Waiting == {"scheduled", "retry", "pending", "grouped", "taken"}
States == {"new"} \cup Waiting \cup Final

TypeOK ==
    /\ format \in [Pods -> SetPayloadFormat(Settings)]
    /\ state \in [Tasks -> States]
    /\ DOMAIN job = Tasks /\ \A t \in Tasks : job[t] \in Jobs \cup {NoJob}
    /\ left \in [Tasks -> Nat]
    /\ taken \in [Pods -> SUBSET Requests]
    /\ step \in [Pods -> {"idle", "read", "sent"}]
    /\ \A p \in Pods : (step[p] = "idle") <=> (taken[p] = {})
    /\ stale \subseteq SUBSET Requests
    /\ from \in [Batches -> SUBSET Requests]
    /\ locked \subseteq Tasks /\ lapsed \subseteq Tasks /\ again \subseteq Requests
    /\ seen \subseteq Formats
    /\ budget \in 0 .. MaxFaults

Init ==
    /\ format \in [Pods -> SetPayloadFormat(Settings)]
    /\ state = [t \in Tasks |-> "new"]
    /\ job = [t \in Tasks |-> NoJob]
    /\ left = [t \in Tasks |-> 0]
    /\ taken = [p \in Pods |-> {}]
    /\ step = [p \in Pods |-> "idle"]
    /\ stale = {}
    /\ from = [b \in Batches |-> {}]
    /\ locked = {} /\ lapsed = {} /\ again = {}
    /\ seen = {format[p] : p \in Pods}
    /\ budget = MaxFaults

-----------------------------------------------------------------------------
Fault == budget > 0 /\ budget' = budget - 1

SetState(t, s) == state' = [state EXCEPT ![t] = s]

Enqueued(t) == job[t] # NoJob

\* Tasks are waiting for a worker, or for their group to be aggregated.
Ready(j) == IF j.group = NoGroup THEN "pending" ELSE "grouped"

Held(j) == \E t \in locked : UniqueKey(job[t]) = UniqueKey(j)

\* The formats in which a producer may write: the scheduler is in a pod, each call of the
\* command line has its own setting, and the web process may have started with another.
WrittenBy(r) ==
    IF r.by = "cron" THEN {format[p] : p \in Pods} ELSE SetPayloadFormat(Settings)

Reject(r, why) ==
    /\ SetState(r, why)
    /\ UNCHANGED <<format, job, left, groupVars, ghosts, locked, seen, budget>>

Accept(r, j, f) ==
    /\ SetState(r, IF j.delayed THEN "scheduled" ELSE Ready(j))
    /\ job' = [job EXCEPT ![r] = j]
    /\ left' = [left EXCEPT ![r] = j.retry]
    /\ locked' = IF j.unique THEN locked \cup {r} ELSE locked
    /\ seen' = seen \cup {f}
    /\ UNCHANGED <<format, groupVars, ghosts, budget>>

\* EnqueueHandler, runEnqueue, or a firing of the scheduler: client.Enqueue of the task,
\* unless none is built or another task holds its unique lock.
Enqueue(r) ==
    /\ state[r] = "new"
    /\ Cardinality({q \in Requests : state[q] # "new"}) < MaxRequests
    /\ \E f \in WrittenBy(Req[r]) :
          LET j == Build(Req[r], f)
          IN  IF Refused(Req[r]) THEN Reject(r, "refused")
              ELSE IF j.unique /\ Held(j) THEN Reject(r, "duplicate")
              ELSE Accept(r, j, f)

\* The delay of a scheduled or retried task is over.
Forward(t) ==
    /\ state[t] \in {"scheduled", "retry"}
    /\ SetState(t, Ready(job[t]))
    /\ UNCHANGED <<format, job, left, groupVars, ghosts, locked, seen, budget>>

\* The unique lock of a task that holds it too long expires.
LockExpires(t) ==
    /\ t \in locked /\ Fault
    /\ locked' = locked \ {t}
    /\ lapsed' = lapsed \cup {t}
    /\ UNCHANGED <<format, state, job, left, groupVars, from, again, seen>>

-----------------------------------------------------------------------------
(* Aggregation, one set at a time in each pod: asynq reads a group, calls  *)
(* AggregateNotifications, enqueues what it returns and deletes the set.   *)

\* The group that r waits in.
Group(r) ==
    {s \in Requests : state[s] = "grouped" /\ job[s].queue = job[r].queue
                                            /\ job[s].group = job[r].group}

\* The grace period, the maximal delay or the size is reached.
ReadGroup(p, r) ==
    /\ step[p] = "idle" /\ state[r] = "grouped" /\ job[r].queue \in Served
    /\ \E S \in SUBSET Group(r) :
          /\ r \in S /\ Cardinality(S) <= MaxSize
          /\ S = Group(r) \/ Cardinality(S) = MaxSize
          /\ state' = [t \in Tasks |-> IF t \in S THEN "taken" ELSE state[t]]
          /\ taken' = [taken EXCEPT ![p] = S]
    /\ step' = [step EXCEPT ![p] = "read"]
    /\ UNCHANGED <<format, job, left, stale, ghosts, locked, seen, budget>>

\* Mutant of Decoded: the aggregator takes every payload for JSON.
DecodedJson(S, f) == {r \in S : Readable("json", job[r].payload)}

Decoded(S, f) == {r \in S : Readable(f, job[r].payload)}

TextsOf(S) == UNION {job[r].payload.content.texts : r \in S}

\* The number that goes with a text in the payloads of S.
NumberIn(S, m) ==
    LET r == CHOOSE r \in S : m \in job[r].payload.content.texts
    IN  job[r].payload.content.num[m]

NumbersOf(S) == [m \in TextsOf(S) |-> NumberIn(S, m)]

\* Mutant of BatchContent: the first payload that cannot be decoded ends the loop.
BatchContentBreaks(S, f) ==
    LET D == IF Decoded(S, f) = S THEN S ELSE {}
    IN  Lines(NumbersOf(D), Cardinality(S))

\* Mutant of BatchContent: a message is appended before its payload is decoded.
BatchContentUneven(S, f) ==
    LET D == Decoded(S, f)
    IN  [Lines(NumbersOf(D), Cardinality(S)) EXCEPT !.texts = TextsOf(S)]

\* AggregateNotifications: what cannot be decoded is skipped, and counted.
BatchContent(S, f) ==
    LET D == Decoded(S, f)
    IN  Lines(NumbersOf(D), Cardinality(S))

\* Mutant of BatchJob: the batch is always written as JSON.
BatchJobJson(S, f) ==
    [type |-> "notification:batch", payload |-> Marshal("json", BatchContent(S, f)),
     queue |-> job[CHOOSE r \in S : TRUE].queue, delayed |-> FALSE, retry |-> Plain.retry,
     unique |-> FALSE, group |-> NoGroup]

\* The batch goes to the queue of its group, with no options of its own.
BatchJob(S, f) ==
    [type |-> "notification:batch", payload |-> Marshal(f, BatchContent(S, f)),
     queue |-> job[CHOOSE r \in S : TRUE].queue, delayed |-> FALSE, retry |-> Plain.retry,
     unique |-> FALSE, group |-> NoGroup]

\* Mutant of SendBatch: the set counts as read, and is aggregated again.
SendBatchAgain(p, b) ==
    /\ step[p] = "read"
    /\ state[b] = "new" /\ b = CHOOSE c \in Batches : state[c] = "new"
    /\ SetState(b, "pending")
    /\ job' = [job EXCEPT ![b] = BatchJob(taken[p], format[p])]
    /\ left' = [left EXCEPT ![b] = Plain.retry]
    /\ from' = [from EXCEPT ![b] = taken[p]]
    /\ UNCHANGED <<format, groupVars, lapsed, again, locked, seen, budget>>

SendBatch(p, b) ==
    /\ step[p] = "read"
    /\ state[b] = "new" /\ b = CHOOSE c \in Batches : state[c] = "new"
    /\ SetState(b, "pending")
    /\ job' = [job EXCEPT ![b] = BatchJob(taken[p], format[p])]
    /\ left' = [left EXCEPT ![b] = Plain.retry]
    /\ from' = [from EXCEPT ![b] = taken[p]]
    /\ step' = [step EXCEPT ![p] = "sent"]
    /\ UNCHANGED <<format, taken, stale, lapsed, again, locked, seen, budget>>

DeleteSet(p) ==
    /\ step[p] = "sent"
    /\ state' = [t \in Tasks |-> IF t \in taken[p] THEN "gone" ELSE state[t]]
    /\ taken' = [taken EXCEPT ![p] = {}]
    /\ step' = [step EXCEPT ![p] = "idle"]
    /\ UNCHANGED <<format, job, left, stale, ghosts, locked, seen, budget>>

\* Mutant of LeaveSet: a set whose batch was enqueued counts as dealt with.
LeaveSetForgets(p) ==
    /\ taken' = [taken EXCEPT ![p] = {}]
    /\ step' = [step EXCEPT ![p] = "idle"]
    /\ stale' = IF step[p] = "read" THEN stale \cup {taken[p]} ELSE stale
    /\ again' = IF step[p] = "sent" THEN again \cup taken[p] ELSE again

\* The pod leaves its set behind: its deadline passed, a call failed, the pod died.
LeaveSet(p) ==
    /\ taken' = [taken EXCEPT ![p] = {}]
    /\ step' = [step EXCEPT ![p] = "idle"]
    /\ stale' = IF taken[p] = {} THEN stale ELSE stale \cup {taken[p]}
    /\ again' = IF step[p] = "sent" THEN again \cup taken[p] ELSE again

Abandon(p) ==
    /\ step[p] # "idle" /\ Fault
    /\ LeaveSet(p)
    /\ UNCHANGED <<format, state, job, left, from, lapsed, locked, seen>>

\* The members of a set past its deadline are put back into their group.
Reclaim(S) ==
    /\ stale' = stale \ {S}
    /\ state' = [t \in Tasks |-> IF t \in S THEN "grouped" ELSE state[t]]
    /\ UNCHANGED <<format, job, left, taken, step, ghosts, locked, seen, budget>>

\* A pod ends and starts again, perhaps with another setting.
Restart(p) ==
    /\ Fault
    /\ \E f \in SetPayloadFormat(Settings) :
          /\ format' = [format EXCEPT ![p] = f]
          /\ seen' = seen \cup {f}
    /\ LeaveSet(p)
    /\ UNCHANGED <<state, job, left, from, lapsed, locked>>

-----------------------------------------------------------------------------
(* Handlers.                                                               *)

\* The code a webhook simulates, and the messages[i] a batch handler takes users[i] for.
CodeOf(c) == c.num[CHOOSE m \in c.texts : TRUE]
Complete(c) == c.texts \subseteq c.numbered

\* What the handler of the type says to a payload: "skip" wraps SkipRetry, "fail" is any
\* other error, the one RecoveryMiddleware makes of a panic and the mux's NotFound too.
Answer(type, p, f) ==
    IF type = "unknown" THEN "fail"
    ELSE IF ~Readable(f, p) THEN "skip"
    ELSE IF type = "webhook:send" THEN
        IF CodeOf(p.content) \in Success THEN "ok"
        ELSE IF CodeOf(p.content) \in ClientError THEN "skip" ELSE "fail"
    ELSE IF type = "notification:batch" /\ ~Complete(p.content) THEN "fail" ELSE "ok"

\* Mutant of Fail: no error counts as a failure.
FailUncounted(t) ==
    /\ SetState(t, IF left[t] > 0 THEN "retry" ELSE "archived")
    /\ UNCHANGED <<left, locked>>

\* Mutant of Fail: the last retry is not made.
FailEarly(t) ==
    /\ SetState(t, IF left[t] > 1 THEN "retry" ELSE "archived")
    /\ left' = [left EXCEPT ![t] = IF @ > 0 THEN @ - 1 ELSE 0]
    /\ UNCHANGED locked

\* Every error but a rate limit counts (IsFailure); asynq archives what has no retry left.
Fail(t) ==
    /\ SetState(t, IF left[t] > 0 THEN "retry" ELSE "archived")
    /\ left' = [left EXCEPT ![t] = IF @ > 0 THEN @ - 1 ELSE 0]
    /\ UNCHANGED locked

\* The handlers that watch ctx as they work, and fail when it is done first.
Watches(type) == type \in {"image:resize", "image:crop", "report:generate"}

\* A task that is done gives its unique lock back, an archived one keeps it.
Handle(p, t) ==
    /\ state[t] = "pending" /\ job[t].queue \in Served
    /\ LET answer == Answer(job[t].type, job[t].payload, format[p])
       IN  \/ answer = "ok" /\ SetState(t, "done") /\ locked' = locked \ {t} /\ UNCHANGED left
           \/ answer = "skip" /\ SetState(t, "archived") /\ UNCHANGED <<left, locked>>
           \/ answer = "fail" /\ Fail(t)
           \/ answer = "ok" /\ Watches(job[t].type) /\ Fail(t)
    /\ UNCHANGED <<format, job, groupVars, ghosts, seen, budget>>

-----------------------------------------------------------------------------
TaskStep(t) ==
    \/ t \in Requests /\ Enqueue(t)
    \/ Forward(t) \/ LockExpires(t)
    \/ \E p \in Pods : Handle(p, t)

GroupStep(p) ==
    \/ \E r \in Requests : ReadGroup(p, r)
    \/ \E b \in Batches : SendBatch(p, b)
    \/ DeleteSet(p) \/ Abandon(p)

Next ==
    \/ \E t \in Tasks : TaskStep(t)
    \/ \E p \in Pods : GroupStep(p)
    \/ \E S \in stale : Reclaim(S)
    \/ \E p \in Pods : Restart(p)

Spec == Init /\ [][Next]_vars

\* asynq's forwarder, aggregator, recoverer and processors go on; requests and faults are
\* never owed.
Fairness ==
    /\ WF_vars(\E t \in Tasks : Forward(t))
    /\ WF_vars(\E t \in Tasks, p \in Pods : Handle(p, t))
    /\ WF_vars(\E p \in Pods, r \in Requests : ReadGroup(p, r))
    /\ WF_vars(\E p \in Pods, b \in Batches : SendBatch(p, b))
    /\ WF_vars(\E p \in Pods : DeleteSet(p))
    /\ WF_vars(\E S \in stale : Reclaim(S))

FairSpec == Spec /\ Fairness

-----------------------------------------------------------------------------
(* Properties.                                                             *)

Uniform == Cardinality(seen) = 1

\* The members of a batch whose texts are in its payload.
CarriedBy(b) ==
    {r \in from[b] : job[r].payload.content.texts \subseteq job[b].payload.content.texts}

Grouped == {r \in Requests : Enqueued(r) /\ job[r].group # NoGroup}
Aggregated == UNION {from[b] : b \in Batches}
Carried == UNION {CarriedBy(b) : b \in Batches}

\* Whatever crashes or deadlines come between reading a group, enqueueing its batch and
\* deleting its members, no notification is deleted before a batch was made of it, and
\* the batch leaves out no more than AggregateNotifications must skip, the payloads of
\* the format that is not its pod's.
Outbox == INSTANCE GroupOutbox WITH
    waiting <- Grouped \ Aggregated,
    batched <- Carried,
    lost <- Aggregated \ Carried,
    deleted <- {r \in Requests : state[r] = "gone"},
    proto <- {r \in Grouped : Readable("proto", job[r].payload)}
OutboxSpec == Outbox!Spec

\* A notification is in two batches, or in one and back in its group, only after a pod left
\* its aggregation set behind between the enqueue of the batch and the deletion.
OnceUnlessLeft ==
    \A r \in Requests \ again : \A b \in Batches :
        r \in from[b] =>
            /\ state[r] = "gone" \/ \E p \in Pods : step[p] = "sent" /\ r \in taken[p]
            /\ \A c \in Batches : r \in from[c] => c = b

\* A notification that was taken from its group is in exactly one set, a pod's or one left
\* behind for the recoverer: no sequence of crashes, deadlines and reclaims strands it, or
\* has two pods aggregate it at once.
SetsHeld == {taken[p] : p \in Pods} \cup stale
TakenIsHeld ==
    /\ \A r \in Requests : state[r] = "taken" => \E S \in SetsHeld : r \in S
    /\ \A p, q \in Pods : p # q => taken[p] \cap taken[q] = {}
    /\ \A p \in Pods, S \in stale : taken[p] \cap S = {}
    /\ \A S, T \in stale : S # T => S \cap T = {}

\* README.md:70, "batches per user": the group key keeps users apart that the int32 of a
\* Protobuf payload would not.
BatchIsOneUser ==
    \A b \in Batches : \A r, s \in from[b] : Req[r].num = Req[s].num

\* A number that fits in an int32 reaches the handler as it was requested, through the
\* formats of producer, aggregator and worker.
NumbersIntact ==
    \A r \in Requests :
        Enqueued(r) /\ Constructs(Req[r]) /\ Fits(Req[r].num) =>
            \A t \in {r} \cup {b \in Batches : r \in CarriedBy(b)} :
                Req[r].text \in job[t].payload.content.numbered
                    => job[t].payload.content.num[Req[r].text] = Req[r].num

\* Two webhooks with one unique key wait at the same time, whoever requested them and with
\* whatever options, only if one of them has outlived its unique lock (webhook.go:27); and
\* so do two of the same content and queue, while all processes use one format.  (The key
\* is made of the payload's bytes, so in two formats they may.)
SameWebhook(t, u) ==
    /\ job[t].queue = job[u].queue
    /\ Req[t].text = Req[u].text /\ Req[t].num = Req[u].num
WebhookNoTwin ==
    \A t, u \in {v \in Requests : state[v] \in Waiting /\ job[v].type = "webhook:send"} :
        /\ t # u
        /\ UniqueKey(job[t]) = UniqueKey(job[u]) \/ (Uniform /\ SameWebhook(t, u))
        => t \in lapsed \/ u \in lapsed

\* The index of HandleNotificationBatch (notification.go:96) can only be out of range for
\* a payload that came from the command line as raw JSON: AggregateNotifications keeps the
\* two lists even whatever it skips.
ShortOnlyFromCLI ==
    \A t \in Tasks :
        Enqueued(t) /\ ~Complete(job[t].payload.content)
            => t \in Requests /\ Req[t].by = "cli"

\* While all processes use one format, no payload that a constructor or the aggregator wrote
\* is archived because it cannot be read.
UniformIsReadable ==
    Uniform =>
        \A t \in Tasks :
            state[t] = "archived" /\ (t \in Batches \/ Constructs(Req[t]))
                => \A f \in seen : Readable(f, job[t].payload)

\* While all processes use one format, AggregateNotifications skips nothing: every batch
\* carries each notification it was made from, whatever restarts came in between.
UniformIsCarried == Uniform => \A b \in Batches : CarriedBy(b) = from[b]

Status(s) == CASE s \in Waiting -> "waiting"
               [] s \in {"done", "archived"} -> s
               [] s = "gone" -> "deleted"
               [] OTHER -> "absent"

\* Requests, groups, batches and handlers keep the promise of TaskQueue, which TaskLifecycle
\* keeps in the middle of an attempt too: no reclaimed set brings a settled notification
\* back, and what is archived was out of retries or unwelcome to a handler in some format
\* that was in use.
Promised == INSTANCE TaskQueue WITH
    status <- [t \in Tasks |-> Status(state[t])],
    handled <- {t \in Tasks : state[t] = "done"},
    refused <- {t \in Tasks : state[t] = "archived" /\
                    \E f \in seen : Answer(job[t].type, job[t].payload, f) = "skip"}
QueueSpec == Promised!Spec

\* Every task that was accepted for a queue some worker serves comes to an end: its handler
\* succeeds, it is archived, or it is deleted with its group.  (There are finitely many
\* tasks and none leaves Final, so this says it of each.)
EveryTaskEnds ==
    []<>(\A t \in Tasks :
            Enqueued(t) /\ job[t].queue \in Served => state[t] \in Final)
=============================================================================
