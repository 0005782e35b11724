--------------------------- MODULE PeriodicTasks ---------------------------
(***************************************************************************)
(* What a pod does with its leadership: runSchedulerAsLeader, the cleanup  *)
(* of scheduler entries, the registration of a periodic task and, from     *)
(* then on, its cron firings (internal/scheduler/scheduler.go).  Followed  *)
(* is one "@every" task of config.yaml with unique_ttl and a Deadline, as  *)
(* report:generate has, from registration through asynq.Unique to the end  *)
(* of each instance in its queue.  The unique lock is one of the payload's *)
(* bytes, which buildPeriodicTask fixes for a term: the dates of that day, *)
(* in the payload format of the pod.                                       *)
(*                                                                         *)
(* Terms come from the election: with Exclusive they follow one another,   *)
(* as SingleScheduler promises; without, a late leader overlaps the next.  *)
(***************************************************************************)
EXTENDS Integers, FiniteSets

CONSTANTS
    Pods,
    Exclusive,      \* whether terms of different pods never overlap
    Period,         \* of the cron entry
    UniqueTTL,      \* unique_ttl of the task
    DeadlineIn,     \* the deadline's distance when the task is built
    Keys,           \* the unique keys its payload may have
    Slots,          \* bound: instances in the queue at one time
    MaxCrashes,     \* bound: processes killed in one behaviour
    MaxErrors,      \* bound: firings that meet an error of Redis in one behaviour
    Dead,           \* entries of schedulers whose process is gone
    Free            \* no instance, no owner, no key

ASSUME PeriodAssumption ==
    /\ Exclusive \in BOOLEAN
    /\ Period \in Nat \ {0} /\ UniqueTTL \in Nat \ {0} /\ DeadlineIn \in Nat \ {0}
    /\ MaxCrashes \in Nat /\ MaxErrors \in Nat

ASSUME NullAssumption ==
    /\ Dead \notin Pods /\ Dead # Free
    /\ Free \notin Nat /\ Free \notin Slots /\ Free \notin Keys /\ Dead \notin Slots

VARIABLES
    phase,          \* where each pod's runSchedulerAsLeader is
    told,           \* whether its leaderCtx is cancelled
    found,          \* the keys cleanupSchedulerState has read
    fireIn,         \* time to the next firing of the cron entry
    warned,         \* the pods whose cleanup failed in this term
    window,         \* what is left of the deadline in the registered options
    key,            \* the unique key of the registered payload
    registry,       \* the members of asynq:schedulers
    task,           \* each instance in the queue: time left to its deadline
    age,            \* how long it has been there, up to UniqueTTL
    unique,         \* and its unique key
    owner,          \* the instance in each unique lock, Dead if archived, or Free
    ttl,            \* time to the expiry of each unique lock
    since,          \* time since the last instance was enqueued
    crashes,
    errors

termVars == <<phase, told, found, warned, fireIn, window, key>>
queueVars == <<task, age, unique, owner, ttl, since>>
faultVars == <<crashes, errors>>
vars == <<termVars, registry, queueVars, faultVars>>

Longest == IF Period > UniqueTTL THEN Period ELSE UniqueTTL

TypeOK ==
    /\ phase \in [Pods -> {"off", "cleanup", "purge", "register", "running"}]
    /\ told \in [Pods -> BOOLEAN]
    /\ found \in [Pods -> SUBSET (Pods \cup {Dead})]
    /\ warned \subseteq Pods
    /\ fireIn \in [Pods -> 0 .. Period]
    /\ window \in [Pods -> 0 .. DeadlineIn]
    /\ key \in [Pods -> Keys \cup {Free}]
    /\ \A p \in Pods : (key[p] = Free) <=> (phase[p] # "running")
    /\ registry \subseteq Pods \cup {Dead}
    /\ task \in [Slots -> 0 .. DeadlineIn \cup {Free}]
    /\ age \in [Slots -> 0 .. UniqueTTL]
    /\ unique \in [Slots -> Keys \cup {Free}]
    /\ \A s \in Slots : (unique[s] = Free) <=> (task[s] = Free)
    /\ owner \in [Keys -> Slots \cup {Dead, Free}]
    /\ ttl \in [Keys -> 0 .. UniqueTTL]
    /\ \A k \in Keys : (owner[k] = Free) <=> (ttl[k] = 0)
    /\ \A k \in Keys : owner[k] \in Slots => unique[owner[k]] = k
    /\ since \in 0 .. Longest
    /\ crashes \in 0 .. MaxCrashes /\ errors \in 0 .. MaxErrors

Init ==
    /\ phase = [p \in Pods |-> "off"]
    /\ told = [p \in Pods |-> FALSE]
    /\ found = [p \in Pods |-> {}]
    /\ warned = {}
    /\ fireIn = [p \in Pods |-> 0]
    /\ window = [p \in Pods |-> 0]
    /\ key = [p \in Pods |-> Free]
    /\ registry = {}
    /\ task = [s \in Slots |-> Free]
    /\ age = [s \in Slots |-> 0]
    /\ unique = [s \in Slots |-> Free]
    /\ owner = [k \in Keys |-> Free]
    /\ ttl = [k \in Keys |-> 0]
    /\ since = Longest
    /\ crashes = 0 /\ errors = 0

-----------------------------------------------------------------------------
(* The terms the election grants.                                          *)

Active == {p \in Pods : phase[p] # "off"}
Running(p) == phase[p] = "running"
InQueue == {s \in Slots : task[s] # Free}

Goto(p, where) == phase' = [phase EXCEPT ![p] = where]

BeginTerm(p) ==
    /\ phase[p] = "off"
    /\ Exclusive => Active = {}
    /\ Goto(p, "cleanup")
    /\ UNCHANGED <<told, found, fireIn, window, key, warned, registry, queueVars, faultVars>>

\* runSchedulerAsLeader returns, or its process is gone: nothing of the term is left.
EndTerm(p) ==
    /\ Goto(p, "off")
    /\ told' = [told EXCEPT ![p] = FALSE]
    /\ found' = [found EXCEPT ![p] = {}]
    /\ warned' = warned \ {p}
    /\ fireIn' = [fireIn EXCEPT ![p] = 0]
    /\ window' = [window EXCEPT ![p] = 0]
    /\ key' = [key EXCEPT ![p] = Free]

\* leaderCtx is cancelled, at whatever point runSchedulerAsLeader is.
CancelTerm(p) ==
    /\ phase[p] # "off" /\ ~told[p]
    /\ told' = [told EXCEPT ![p] = TRUE]
    /\ UNCHANGED <<phase, found, fireIn, window, key, warned, registry, queueVars, faultVars>>

-----------------------------------------------------------------------------
(* cleanupSchedulerState: what it reads and what it deletes are two steps. *)

\* Mutant of CleanupRead: the entries are counted but their keys are not deleted.
CleanupReadOnly(p) ==
    /\ phase[p] = "cleanup" /\ ~told[p]
    /\ Goto(p, "register")
    /\ UNCHANGED <<told, found, fireIn, window, key, warned, registry, queueVars, faultVars>>

CleanupRead(p) ==
    /\ phase[p] = "cleanup" /\ ~told[p]
    /\ found' = [found EXCEPT ![p] = registry]
    /\ Goto(p, IF registry = {} THEN "register" ELSE "purge")
    /\ UNCHANGED <<told, fireIn, window, key, warned, registry, queueVars, faultVars>>

Purge(p) ==
    /\ phase[p] = "purge" /\ ~told[p]
    /\ registry' = registry \ found[p]
    /\ found' = [found EXCEPT ![p] = {}]
    /\ Goto(p, "register")
    /\ UNCHANGED <<told, fireIn, window, key, warned, queueVars, faultVars>>

\* ZRange or Exec fails, in a cancelled ctx always; the deletions may have been executed
\* all the same.  The error is only logged and the term goes on.
CleanupFails(p) ==
    /\ phase[p] \in {"cleanup", "purge"}
    /\ registry' \in {registry, registry \ found[p]}
    /\ found' = [found EXCEPT ![p] = {}]
    /\ warned' = warned \cup {p}
    /\ Goto(p, "register")
    /\ UNCHANGED <<told, fireIn, window, key, queueVars, faultVars>>

-----------------------------------------------------------------------------
(* The scheduler.                                                          *)

\* Mutant of Register: a new scheduler fires at once.
RegisterFiresAtOnce(p) ==
    /\ phase[p] = "register"
    /\ Goto(p, "running")
    /\ fireIn' = [fireIn EXCEPT ![p] = 0]
    /\ window' = [window EXCEPT ![p] = DeadlineIn]
    /\ \E k \in Keys : key' = [key EXCEPT ![p] = k]
    /\ UNCHANGED <<told, found, warned, registry, queueVars, faultVars>>

\* Mutant of Register: the first firing is one unit late.
RegisterLate(p) ==
    /\ phase[p] = "register"
    /\ Goto(p, "running")
    /\ fireIn' = [fireIn EXCEPT ![p] = Period + 1]
    /\ window' = [window EXCEPT ![p] = DeadlineIn]
    /\ \E k \in Keys : key' = [key EXCEPT ![p] = k]
    /\ UNCHANGED <<told, found, warned, registry, queueVars, faultVars>>

\* RegisterTasks builds the task, payload, deadline and all, once for the whole term; Start.
Register(p) ==
    /\ phase[p] = "register"
    /\ Goto(p, "running")
    /\ fireIn' = [fireIn EXCEPT ![p] = Period]
    /\ window' = [window EXCEPT ![p] = DeadlineIn]
    /\ \E k \in Keys : key' = [key EXCEPT ![p] = k]
    /\ UNCHANGED <<told, found, warned, registry, queueVars, faultVars>>

\* RegisterTasks or Start fails: the error goes to the loop, which ends the term.
RegisterFails(p) ==
    /\ phase[p] = "register"
    /\ EndTerm(p)
    /\ UNCHANGED <<registry, queueVars, faultVars>>

\* asynq's heartbeat lists the scheduler's entries, again if somebody deleted them.
Heartbeat(p) ==
    /\ Running(p) /\ p \notin registry
    /\ registry' = registry \cup {p}
    /\ UNCHANGED <<termVars, queueVars, faultVars>>

\* The cron entry of p is due.
Fire(p) ==
    /\ Running(p) /\ fireIn[p] = 0
    /\ fireIn' = [fireIn EXCEPT ![p] = Period]
    /\ UNCHANGED <<phase, told, found, window, key, warned, registry, crashes>>

\* Mutant of Accept: unique_ttl is not passed on as asynq.Unique.
AcceptNotUnique(p, s) ==
    /\ task[s] = Free
    /\ task' = [task EXCEPT ![s] = window[p]]
    /\ age' = [age EXCEPT ![s] = 0]
    /\ unique' = [unique EXCEPT ![s] = key[p]]
    /\ since' = 0
    /\ UNCHANGED <<owner, ttl>>

\* Redis, in one script: the lock of the payload is free, and an instance takes it.
Accept(p, s) ==
    /\ owner[key[p]] = Free /\ task[s] = Free
    /\ task' = [task EXCEPT ![s] = window[p]]
    /\ age' = [age EXCEPT ![s] = 0]
    /\ unique' = [unique EXCEPT ![s] = key[p]]
    /\ owner' = [owner EXCEPT ![key[p]] = s]
    /\ ttl' = [ttl EXCEPT ![key[p]] = UniqueTTL]
    /\ since' = 0

Enqueue(p, s) == Fire(p) /\ Accept(p, s) /\ UNCHANGED errors

\* Mutant of Duplicate: a duplicate renews the unique lock.
DuplicateRenews(p) ==
    /\ Fire(p) /\ owner[key[p]] # Free
    /\ ttl' = [ttl EXCEPT ![key[p]] = UniqueTTL]
    /\ UNCHANGED <<task, age, unique, owner, since, errors>>

\* ErrDuplicateTask: PostEnqueueFunc logs it, the firing is skipped.
Duplicate(p) ==
    /\ Fire(p) /\ owner[key[p]] # Free
    /\ UNCHANGED <<queueVars, errors>>

\* Any other error, which PostEnqueueFunc takes for a duplicate too.  The instance may have
\* been enqueued all the same; if not, nothing repeats the firing.
EnqueueFails(p) ==
    /\ Fire(p) /\ errors < MaxErrors
    /\ errors' = errors + 1
    /\ UNCHANGED queueVars \/ \E s \in Slots : Accept(p, s)

\* sched.Shutdown: the cron stops and the scheduler's entries are cleared.
Stop(p) ==
    /\ Running(p) /\ told[p]
    /\ EndTerm(p)
    /\ registry' = registry \ {p}
    /\ UNCHANGED <<queueVars, faultVars>>

\* The process is killed: its entries stay listed.
Crash(p) ==
    /\ phase[p] # "off" /\ crashes < MaxCrashes
    /\ crashes' = crashes + 1
    /\ EndTerm(p)
    /\ registry' = IF p \in registry THEN (registry \ {p}) \cup {Dead} ELSE registry
    /\ UNCHANGED <<queueVars, errors>>

-----------------------------------------------------------------------------
(* The workers and the clock.                                              *)

\* The instance of slot s leaves the queue, and its lock, if it holds it, to another owner.
Leave(s, to) ==
    /\ task' = [task EXCEPT ![s] = Free]
    /\ age' = [age EXCEPT ![s] = 0]
    /\ unique' = [unique EXCEPT ![s] = Free]
    /\ owner' = [k \in Keys |-> IF owner[k] = s THEN to ELSE owner[k]]
    /\ UNCHANGED <<termVars, registry, since, faultVars>>

\* An instance that meets its deadline succeeds: asynq releases the lock if it holds it.
Complete(s) ==
    /\ task[s] # Free /\ task[s] # 0
    /\ Leave(s, Free)
    /\ ttl' = [k \in Keys |-> IF owner[k] = s THEN 0 ELSE ttl[k]]

\* Past its deadline it fails, is retried, fails again and is archived, lock and all.
Archive(s) ==
    /\ task[s] = 0
    /\ Leave(s, Dead)
    /\ UNCHANGED ttl

Dec(n) == IF n > 0 THEN n - 1 ELSE 0

\* Time does not pass a firing that is due.
Tick ==
    /\ \A p \in Pods : Running(p) => fireIn[p] > 0
    /\ fireIn' = [p \in Pods |-> Dec(fireIn[p])]
    /\ window' = [p \in Pods |-> Dec(window[p])]
    /\ task' = [s \in Slots |-> IF task[s] = Free THEN Free ELSE Dec(task[s])]
    /\ age' = [s \in Slots |-> IF task[s] # Free /\ age[s] < UniqueTTL
                                THEN age[s] + 1 ELSE age[s]]
    /\ ttl' = [k \in Keys |-> Dec(ttl[k])]
    /\ owner' = [k \in Keys |-> IF ttl[k] <= 1 THEN Free ELSE owner[k]]
    /\ since' = IF since < Longest THEN since + 1 ELSE since
    /\ UNCHANGED <<phase, told, found, warned, key, registry, unique, faultVars>>

Leader(p) ==
    \/ BeginTerm(p) \/ CancelTerm(p)
    \/ CleanupRead(p) \/ Purge(p) \/ CleanupFails(p)
    \/ Register(p) \/ RegisterFails(p) \/ Heartbeat(p) \/ Stop(p) \/ Crash(p)
    \/ Duplicate(p) \/ EnqueueFails(p) \/ \E s \in Slots : Enqueue(p, s)

Worker(s) == Complete(s) \/ Archive(s)

Next ==
    \/ \E p \in Pods : Leader(p)
    \/ \E s \in Slots : Worker(s)
    \/ Tick

Spec == Init /\ [][Next]_vars

\* The goroutine of a term goes on, cron fires when due, workers take what is queued.
Fairness ==
    /\ WF_vars(Tick)
    /\ \A p \in Pods :
          /\ WF_vars(CleanupRead(p) \/ Purge(p) \/ CleanupFails(p) \/ Register(p))
          /\ WF_vars(Duplicate(p) \/ EnqueueFails(p) \/ \E s \in Slots : Enqueue(p, s))
    /\ \A s \in Slots : WF_vars(Worker(s))

FairSpec == Spec /\ Fairness

-----------------------------------------------------------------------------
(* Properties; OneInstancePerPeriod and NoDeadEntryWhileRunning need terms *)
(* that do not overlap.                                                    *)

\* The terms as the election sees them: what it promises is Terms!Spec.
Terms == INSTANCE SingleScheduler WITH active <- Active

\* The instance this step enqueues.
Added == {s \in Slots : task[s] = Free /\ task'[s] # Free}

\* Two instances are enqueued at least one period apart, by whichever leaders: a term
\* restarts the period and does not make up for, or repeat, a firing of the one before.
\* With overlapping terms this is the claim of README.md:21 ("only one instance of each
\* periodic task gets enqueued across all pods") that the code does not keep.
OneInstancePerPeriod == [][Added # {} => since >= Period]_vars

\* The firings this step makes.
Fired == {p \in Pods : Running(p) /\ fireIn[p] = 0 /\ fireIn'[p] = Period}

\* A firing that Redis answers is skipped only for the sake of a recent instance: after it,
\* under any leader, the last instance was enqueued less than unique_ttl ago.  So the locks
\* that archived instances keep, the firings that find them taken, and what errors of Redis
\* did to earlier firings never extend the silence beyond the next firing it answers.
FiringLeavesRecent == [][Fired # {} /\ errors' = errors => since' < UniqueTTL]_vars

\* No instance is enqueued beside one of the same payload that has been in the queue for
\* less than unique_ttl: completions out of order, archived instances, expired locks, lost
\* replies and new leaders open no gap.  (A leader that registered on another day, or with
\* another payload format, has another payload: its instances do not meet the lock.)
NoYoungTwin ==
    [][\A s \in Added, t \in InQueue : unique[t] = unique'[s] => age[t] >= UniqueTTL]_vars

\* While a scheduler runs whose cleanup was not seen to fail, no entry of a dead one is
\* listed: cleanupSchedulerState has removed what the crashed leaders left, those of
\* earlier failed cleanups included.
NoDeadEntryWhileRunning ==
    \A p \in Pods : Running(p) /\ p \notin warned => Dead \notin registry

\* Deduplication never silences a task for good: under a leader that stays, and once Redis
\* answers, instances keep being enqueued, though the locks of archived ones, and those of
\* instances whose reply was lost, are never released.
NeverSilenced ==
    (\E p \in Pods : <>[](Running(p) /\ ~told[p])) => []<>(since = 0)

-----------------------------------------------------------------------------
\* README.md:68, "report:generate ... Deadline ... periodic cron": a periodic instance
\* has time left to its deadline when it is enqueued.
EnqueuedBeforeDeadline ==
    [][\A s \in Added : task'[s] # 0]_vars
=============================================================================
