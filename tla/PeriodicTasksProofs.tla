------------------------ MODULE PeriodicTasksProofs ------------------------
(***************************************************************************)
(* Theorems about PeriodicTasks for every set of pods, every period,       *)
(* unique_ttl and deadline, and a queue of any size.                       *)
(***************************************************************************)
EXTENDS PeriodicTasks, TLAPS

USE PeriodAssumption, NullAssumption

-----------------------------------------------------------------------------
(* Type correctness.                                                       *)

LEMMA InitType == Init => TypeOK
  BY DEF Init, TypeOK, Longest

LEMMA EndTermType ==
  ASSUME TypeOK, NEW p \in Pods, EndTerm(p)
  PROVE  /\ phase' = [phase EXCEPT ![p] = "off"] /\ key' = [key EXCEPT ![p] = Free]
         /\ told' \in [Pods -> BOOLEAN]
         /\ found' \in [Pods -> SUBSET (Pods \cup {Dead})]
         /\ warned' \subseteq Pods
         /\ fireIn' \in [Pods -> 0 .. Period]
         /\ window' \in [Pods -> 0 .. DeadlineIn]
  BY DEF TypeOK, EndTerm, Goto

QueueType ==
    /\ task \in [Slots -> 0 .. DeadlineIn \cup {Free}]
    /\ age \in [Slots -> 0 .. UniqueTTL]
    /\ unique \in [Slots -> Keys \cup {Free}]
    /\ \A s \in Slots : (unique[s] = Free) <=> (task[s] = Free)
    /\ owner \in [Keys -> Slots \cup {Dead, Free}]
    /\ ttl \in [Keys -> 0 .. UniqueTTL]
    /\ \A k \in Keys : (owner[k] = Free) <=> (ttl[k] = 0)
    /\ \A k \in Keys : owner[k] \in Slots => unique[owner[k]] = k
    /\ since \in 0 .. Longest

TermType ==
    /\ phase \in [Pods -> {"off", "cleanup", "purge", "register", "running"}]
    /\ told \in [Pods -> BOOLEAN]
    /\ found \in [Pods -> SUBSET (Pods \cup {Dead})]
    /\ warned \subseteq Pods
    /\ fireIn \in [Pods -> 0 .. Period]
    /\ window \in [Pods -> 0 .. DeadlineIn]
    /\ key \in [Pods -> Keys \cup {Free}]
    /\ \A p \in Pods : (key[p] = Free) <=> (phase[p] # "running")
    /\ registry \subseteq Pods \cup {Dead}
    /\ crashes \in 0 .. MaxCrashes /\ errors \in 0 .. MaxErrors

LEMMA AcceptType ==
  ASSUME TypeOK, NEW p \in Pods, Running(p), NEW s \in Slots, Accept(p, s)
  PROVE  QueueType'
<1>1. key[p] \in Keys /\ window[p] \in 0 .. DeadlineIn BY DEF TypeOK, Running
<1>2. \A k \in Keys : owner[k] # s BY DEF TypeOK, Accept
<1>3. QED BY <1>1, <1>2 DEF TypeOK, QueueType, Accept, Longest

LEMMA FireType ==
  ASSUME TypeOK, NEW p \in Pods, Fire(p)
  PROVE  /\ Running(p)
         /\ fireIn' = [fireIn EXCEPT ![p] = Period] /\ fireIn' \in [Pods -> 0 .. Period]
         /\ UNCHANGED <<phase, told, found, window, key, warned, registry, crashes>>
  BY DEF TypeOK, Fire

LEMMA StepType == TypeOK /\ [Next]_vars => TypeOK'
<1> USE DEF TypeOK, Goto, termVars, queueVars, faultVars, Longest
<1>1. ASSUME TypeOK, NEW p \in Pods, Leader(p)
      PROVE  TypeOK'
  <2> USE <1>1
  <2>1. CASE BeginTerm(p) BY <2>1 DEF BeginTerm
  <2>2. CASE CancelTerm(p) BY <2>2 DEF CancelTerm
  <2>3. CASE CleanupRead(p) BY <2>3 DEF CleanupRead
  <2>4. CASE Purge(p) BY <2>4 DEF Purge
  <2>5. CASE CleanupFails(p) BY <2>5 DEF CleanupFails
  <2>6. CASE Register(p) BY <2>6 DEF Register
  <2>7. CASE Heartbeat(p) BY <2>7 DEF Heartbeat, Running
  <2>8. CASE RegisterFails(p) \/ Stop(p) \/ Crash(p)
    <3>1. EndTerm(p) /\ UNCHANGED queueVars
      BY <2>8 DEF RegisterFails, Stop, Crash
    <3>2. /\ registry' \subseteq Pods \cup {Dead}
          /\ crashes' \in 0 .. MaxCrashes /\ errors' \in 0 .. MaxErrors
      BY <2>8 DEF RegisterFails, Stop, Crash
    <3>3. QED BY <3>1, <3>2, EndTermType
  <2>9. CASE Duplicate(p) BY <2>9, FireType DEF Duplicate, Running
  <2>10. CASE EnqueueFails(p)
    <3>1. TermType' BY <2>10, FireType DEF EnqueueFails, TermType, Running
    <3>2. QueueType'
      BY <2>10, FireType, AcceptType DEF EnqueueFails, QueueType
    <3>3. QED BY <3>1, <3>2 DEF TermType, QueueType
  <2>11. ASSUME NEW s \in Slots, Enqueue(p, s)
         PROVE  TypeOK'
    <3>1. TermType' BY <2>11, FireType DEF Enqueue, TermType, Running
    <3>2. QueueType' BY <2>11, FireType, AcceptType DEF Enqueue
    <3>3. QED BY <3>1, <3>2 DEF TermType, QueueType
  <2>12. QED
    BY <2>1, <2>2, <2>3, <2>4, <2>5, <2>6, <2>7, <2>8, <2>9, <2>10, <2>11 DEF Leader
<1>2. ASSUME TypeOK, NEW s \in Slots, Worker(s)
      PROVE  TypeOK'
  BY <1>2 DEF Worker, Complete, Archive, Leave
<1>3. ASSUME TypeOK, Tick
      PROVE  TypeOK'
  BY <1>3 DEF Tick, Dec, Running
<1>4. CASE UNCHANGED vars BY <1>4 DEF vars
<1>5. QED BY <1>1, <1>2, <1>3, <1>4 DEF Next

\* Every behaviour is type correct.
THEOREM TypeCorrect == Spec => []TypeOK
  BY InitType, StepType, PTL DEF Spec

-----------------------------------------------------------------------------
(* What a step may do to the queue.                                        *)

\* Only a firing of p adds an instance, with a lost reply or without one.
Adds(p, s) == Running(p) /\ fireIn[p] = 0 /\ Accept(p, s)

LEMMA QueueCases ==
  ASSUME [Next]_vars
  PROVE  \/ UNCHANGED queueVars
         \/ \E p \in Pods, s \in Slots : Adds(p, s)
         \/ \E s \in Slots : Worker(s)
         \/ Tick
<1>1. ASSUME NEW p \in Pods, Leader(p)
      PROVE  UNCHANGED queueVars \/ \E s \in Slots : Adds(p, s)
  BY <1>1
     DEF Leader, BeginTerm, CancelTerm, CleanupRead, Purge, CleanupFails, Register,
         RegisterFails, Heartbeat, Stop, Crash, Duplicate, EnqueueFails, Enqueue, Fire, Adds
<1>2. QED BY <1>1 DEF Next, vars

\* Only a firing adds an instance to the queue.
LEMMA AddedByFiring ==
  ASSUME TypeOK, Next, Added # {}
  PROVE  \E p \in Pods, s \in Slots : Adds(p, s)
<1>1. CASE UNCHANGED queueVars BY <1>1 DEF queueVars, Added
<1>2. ASSUME NEW s \in Slots, Worker(s)
      PROVE  FALSE
  BY <1>2 DEF TypeOK, Added, Worker, Complete, Archive, Leave
<1>3. CASE Tick BY <1>3 DEF TypeOK, Added, Tick
<1>4. QED BY <1>1, <1>2, <1>3, QueueCases

-----------------------------------------------------------------------------
(* Deduplication, whether terms overlap or not.                            *)

\* An instance that is younger than unique_ttl still holds the lock of its payload.
YoungHoldsLock ==
    \A s \in InQueue :
        age[s] < UniqueTTL => owner[unique[s]] = s /\ ttl[unique[s]] + age[s] >= UniqueTTL

LEMMA YoungStep == TypeOK /\ YoungHoldsLock /\ [Next]_vars => YoungHoldsLock'
<1> SUFFICES ASSUME TypeOK, YoungHoldsLock, [Next]_vars
             PROVE  YoungHoldsLock'
  OBVIOUS
<1> USE DEF TypeOK, YoungHoldsLock, InQueue
<1>1. CASE UNCHANGED queueVars BY <1>1 DEF queueVars
<1>2. ASSUME NEW p \in Pods, NEW s \in Slots, Adds(p, s)
      PROVE  YoungHoldsLock'
  <2>1. key[p] \in Keys BY <1>2 DEF Adds, Running
  <2>2. \A t \in InQueue : unique[t] = key[p] => age[t] >= UniqueTTL
    BY <1>2, <2>1 DEF Adds, Accept
  <2>3. \A t \in Slots \ {s} : unique'[t] = unique[t] /\ task'[t] = task[t] /\ age'[t] = age[t]
    BY <1>2 DEF Adds, Accept
  <2>4. unique'[s] = key[p] /\ age'[s] = 0 BY <1>2 DEF Adds, Accept
  <2>5. \A k \in Keys \ {key[p]} : owner'[k] = owner[k] /\ ttl'[k] = ttl[k]
    BY <1>2 DEF Adds, Accept
  <2>6. owner'[key[p]] = s /\ ttl'[key[p]] = UniqueTTL BY <1>2, <2>1 DEF Adds, Accept
  <2>7. QED BY <2>1, <2>2, <2>3, <2>4, <2>5, <2>6
<1>3. ASSUME NEW s \in Slots, Worker(s)
      PROVE  YoungHoldsLock'
  BY <1>3 DEF Worker, Complete, Archive, Leave
<1>4. CASE Tick
  <2> SUFFICES ASSUME NEW s \in Slots, task'[s] # Free, age'[s] < UniqueTTL
               PROVE  owner'[unique'[s]] = s /\ ttl'[unique'[s]] + age'[s] >= UniqueTTL
    OBVIOUS
  <2>1. task[s] # Free /\ unique'[s] = unique[s] /\ unique[s] \in Keys BY <1>4 DEF Tick
  <2>2. age[s] < UniqueTTL /\ age'[s] = age[s] + 1 BY <1>4, <2>1 DEF Tick
  <2>3. owner[unique[s]] = s /\ ttl[unique[s]] + age[s] >= UniqueTTL BY <2>1, <2>2
  <2>4. ttl[unique[s]] >= 2 BY <2>1, <2>2, <2>3
  <2>5. QED BY <1>4, <2>1, <2>2, <2>3, <2>4 DEF Tick, Dec
<1>5. QED BY <1>1, <1>2, <1>3, <1>4, QueueCases

\* Every behaviour, for payloads that leaders register anew: no instance is enqueued beside
\* one of the same payload younger than unique_ttl, whichever leaders enqueue, whatever
\* replies are lost and in whatever order instances complete, expire or are archived.
THEOREM NoYoungTwinEver == Spec => NoYoungTwin
<1>1. Init => YoungHoldsLock
  BY DEF Init, YoungHoldsLock, InQueue
<1>2. TypeOK /\ YoungHoldsLock /\ [Next]_vars
        => [\A s \in Added, t \in InQueue : unique[t] = unique'[s] => age[t] >= UniqueTTL]_vars
  <2> SUFFICES ASSUME TypeOK, YoungHoldsLock, Next, NEW s \in Added, NEW t \in InQueue,
                      unique[t] = unique'[s]
               PROVE  age[t] >= UniqueTTL
    OBVIOUS
  <2>1. PICK p \in Pods, u \in Slots : Adds(p, u)
    BY AddedByFiring
  <2>2. s = u /\ unique'[s] = key[p] /\ key[p] \in Keys
    BY <2>1 DEF Adds, Accept, Added, TypeOK, Running
  <2>3. owner[key[p]] = Free BY <2>1 DEF Adds, Accept
  <2>4. QED BY <2>2, <2>3 DEF TypeOK, YoungHoldsLock, InQueue
<1>3. QED BY <1>1, <1>2, YoungStep, TypeCorrect, PTL DEF Spec, NoYoungTwin

-----------------------------------------------------------------------------
(* No unique lock is younger than the last instance, whether terms overlap *)
(* or not.                                                                 *)

LockOfLast == \A k \in Keys : ttl[k] > 0 => since + ttl[k] <= UniqueTTL

LEMMA LockStep == TypeOK /\ LockOfLast /\ [Next]_vars => LockOfLast'
<1> SUFFICES ASSUME TypeOK, LockOfLast, [Next]_vars
             PROVE  LockOfLast'
  OBVIOUS
<1> USE DEF TypeOK, LockOfLast
<1>1. CASE UNCHANGED queueVars BY <1>1 DEF queueVars
<1>2. ASSUME NEW p \in Pods, NEW s \in Slots, Adds(p, s)
      PROVE  LockOfLast'
  BY <1>2 DEF Adds, Accept
<1>3. ASSUME NEW s \in Slots, Worker(s)
      PROVE  LockOfLast'
  BY <1>3 DEF Worker, Complete, Archive, Leave
<1>4. CASE Tick BY <1>4 DEF Tick, Dec, Longest
<1>5. QED BY <1>1, <1>2, <1>3, <1>4, QueueCases

\* Every behaviour: after each firing that Redis answers the last instance is younger than
\* unique_ttl, so a firing that deduplication skips had one, whatever errors came before.
THEOREM FiringsLeaveRecent == Spec => FiringLeavesRecent
<1>1. Init => LockOfLast
  BY DEF Init, LockOfLast
<1>2. TypeOK /\ LockOfLast /\ [Next]_vars
        => [Fired # {} /\ errors' = errors => since' < UniqueTTL]_vars
  <2> SUFFICES ASSUME TypeOK, LockOfLast, Next, errors' = errors, NEW p \in Pods,
                      Running(p), fireIn[p] = 0, fireIn'[p] = Period
               PROVE  since' < UniqueTTL
    BY DEF Fired
  <2> USE DEF TypeOK
  <2>1. ASSUME NEW q \in Pods, Duplicate(q)
        PROVE  since' < UniqueTTL
    <3>1. key[q] \in Keys /\ ttl[key[q]] > 0 /\ UNCHANGED since
      BY <2>1 DEF Duplicate, Fire, Running, queueVars
    <3>2. QED BY <3>1 DEF LockOfLast
  <2>2. ASSUME NEW q \in Pods, NEW s \in Slots, Enqueue(q, s)
        PROVE  since' < UniqueTTL
    BY <2>2 DEF Enqueue, Accept
  <2>3. ASSUME NEW q \in Pods, EnqueueFails(q)
        PROVE  FALSE
    BY <2>3 DEF EnqueueFails
  <2>4. ASSUME NEW q \in Pods, Register(q) \/ RegisterFails(q) \/ Stop(q) \/ Crash(q)
        PROVE  FALSE
    <3>1. fireIn'[p] = fireIn[p] \/ fireIn'[p] = 0 \/ (p = q /\ Register(q))
      BY <2>4 DEF Register, RegisterFails, Stop, Crash, EndTerm
    <3>2. QED BY <3>1 DEF Register, Running
  <2>5. UNCHANGED fireIn => FALSE OBVIOUS
  <2>6. CASE Tick BY <2>6 DEF Tick, Dec
  <2>7. QED
    BY <2>1, <2>2, <2>3, <2>4, <2>5, <2>6
       DEF Next, Leader, BeginTerm, CancelTerm, CleanupRead, Purge, CleanupFails, Heartbeat,
           Worker, Complete, Archive, Leave, termVars
<1>3. QED BY <1>1, <1>2, LockStep, TypeCorrect, PTL DEF Spec, FiringLeavesRecent

-----------------------------------------------------------------------------
(* Terms that follow one another: because the election grants them so      *)
(* (Terms!Spec, which the elections implement), or with Exclusive.         *)

OneActive == \A p, q \in Pods : phase[p] # "off" /\ phase[q] # "off" => p = q

LEMMA ActiveStep ==
  ASSUME OneActive, [Terms!Next]_Active
  PROVE  OneActive'
<1>1. Active' = Active \/ Active' = {} \/ \E p \in Pods : Active' = {p}
  BY DEF Terms!Next, Terms!BeginTerm, Terms!EndTerm
<1>2. \A p, q \in Active : p = q
  BY DEF OneActive, Active
<1>3. \A p, q \in Active' : p = q
  BY <1>1, <1>2
<1>4. QED BY <1>3 DEF OneActive, Active

\* With Exclusive the terms are as the election promises.
LEMMA ExclusiveTerms ==
  ASSUME Exclusive
  PROVE  Spec => Terms!Spec
<1>1. Init => Terms!Init /\ OneActive
  BY DEF Init, Terms!Init, Active, OneActive
<1>2. TypeOK /\ OneActive /\ [Next]_vars => [Terms!Next]_Active
  <2> SUFFICES ASSUME TypeOK, OneActive, [Next]_vars, Active' # Active
               PROVE  Terms!Next
    OBVIOUS
  <2>1. PICK p \in Pods : Leader(p)
    BY DEF Next, Worker, Complete, Archive, Leave, Tick, Active, vars, termVars
  <2>2. CASE BeginTerm(p)
    <3>1. Active = {} /\ Active' = {p}
      BY <2>2 DEF BeginTerm, Goto, Active, TypeOK
    <3>2. QED BY <3>1 DEF Terms!Next, Terms!BeginTerm
  <2>3. CASE RegisterFails(p) \/ Stop(p) \/ Crash(p)
    <3>1. Active = {p} /\ Active' = {}
      BY <2>3 DEF RegisterFails, Stop, Crash, EndTerm, Goto, Running, Active, OneActive, TypeOK
    <3>2. QED BY <3>1 DEF Terms!Next, Terms!EndTerm
  <2>4. QED
    BY <2>1, <2>2, <2>3
       DEF Leader, CancelTerm, CleanupRead, Purge, CleanupFails, Register, Heartbeat,
           Duplicate, EnqueueFails, Enqueue, Fire, Goto, Running, Active, TypeOK, termVars
<1>3. OneActive /\ [Terms!Next]_Active => OneActive'
  BY ActiveStep
<1>4. QED BY <1>1, <1>2, <1>3, TypeCorrect, PTL DEF Spec, Terms!Spec

\* A running leader fires no sooner than a period after the last instance.
PeriodKept == \A p \in Pods : Running(p) => since + fireIn[p] >= Period

\* What a leader without a cleanup error has read, or has removed, of the dead entries.
Cleaned ==
    \A p \in Pods : p \notin warned =>
        /\ phase[p] = "purge" /\ Dead \in registry => Dead \in found[p]
        /\ phase[p] \in {"register", "running"} => Dead \notin registry

TermInv == TypeOK /\ OneActive /\ PeriodKept /\ Cleaned

LEMMA InitTerm == Init => TermInv
  BY InitType DEF Init, TermInv, OneActive, PeriodKept, Running, Cleaned

LEMMA LeaderStep ==
  ASSUME TermInv, OneActive', NEW p \in Pods, Leader(p)
  PROVE  (PeriodKept /\ Cleaned)'
<1> USE DEF TermInv, TypeOK, OneActive, PeriodKept, Cleaned, Running, Goto, EndTerm,
            termVars, queueVars
<1>1. CASE BeginTerm(p) BY <1>1 DEF BeginTerm
<1>2. CASE CancelTerm(p) BY <1>2 DEF CancelTerm
<1>3. CASE CleanupRead(p) BY <1>3 DEF CleanupRead
<1>4. CASE Purge(p) BY <1>4 DEF Purge
<1>5. CASE CleanupFails(p) BY <1>5 DEF CleanupFails
<1>6. CASE Register(p) BY <1>6 DEF Register
<1>7. CASE RegisterFails(p) BY <1>7 DEF RegisterFails
<1>8. CASE Heartbeat(p) BY <1>8 DEF Heartbeat
<1>9. CASE Stop(p) BY <1>9 DEF Stop
<1>10. CASE Crash(p) BY <1>10 DEF Crash
<1>11. CASE Duplicate(p) BY <1>11 DEF Duplicate, Fire
<1>12. ASSUME NEW s \in Slots, Enqueue(p, s)
       PROVE  (PeriodKept /\ Cleaned)'
  BY <1>12 DEF Enqueue, Fire, Accept
<1>13. CASE EnqueueFails(p)
  <2>1. Fire(p) /\ (since' = since \/ since' = 0) BY <1>13 DEF EnqueueFails, Accept
  <2>2. QED BY <2>1 DEF Fire
<1>14. QED
  BY <1>1, <1>2, <1>3, <1>4, <1>5, <1>6, <1>7, <1>8, <1>9, <1>10, <1>11, <1>12, <1>13
     DEF Leader

LEMMA TermStep == TermInv /\ [Next]_vars /\ [Terms!Next]_Active => TermInv'
<1> SUFFICES ASSUME TermInv, [Next]_vars, OneActive'
             PROVE  (PeriodKept /\ Cleaned)'
  BY StepType, ActiveStep DEF TermInv
<1>1. ASSUME NEW p \in Pods, Leader(p)
      PROVE  (PeriodKept /\ Cleaned)'
  BY <1>1, LeaderStep
<1>2. ASSUME NEW s \in Slots, Worker(s)
      PROVE  (PeriodKept /\ Cleaned)'
  BY <1>2 DEF TermInv, PeriodKept, Cleaned, Running, Worker, Complete, Archive, Leave,
     termVars
<1>3. CASE Tick
  <2>1. Cleaned' BY <1>3 DEF TermInv, Cleaned, Tick
  <2>2. PeriodKept'
    BY <1>3 DEF TermInv, TypeOK, PeriodKept, Running, Tick, Dec, Longest
  <2>3. QED BY <2>1, <2>2
<1>4. CASE UNCHANGED vars
  BY <1>4 DEF TermInv, PeriodKept, Cleaned, Running, vars, termVars, queueVars
<1>5. QED BY <1>1, <1>2, <1>3, <1>4 DEF Next

LEMMA TermInvHolds == Spec /\ Terms!Spec => []TermInv
  BY InitTerm, TermStep, PTL DEF Spec, Terms!Spec

\* Under any election that keeps the promise of SingleScheduler, successive instances are at
\* least one period apart, over any number of leaders.
THEOREM OneInstanceUnderElection == Spec /\ Terms!Spec => OneInstancePerPeriod
<1>1. TermInv /\ [Next]_vars => [Added # {} => since >= Period]_vars
  <2> SUFFICES ASSUME TermInv, Next, Added # {}
               PROVE  since >= Period
    OBVIOUS
  <2>1. PICK p \in Pods, s \in Slots : Adds(p, s)
    BY AddedByFiring DEF TermInv
  <2>2. QED BY <2>1 DEF Adds, TermInv, TypeOK, PeriodKept
<1>2. QED BY <1>1, TermInvHolds, PTL DEF Spec, OneInstancePerPeriod

\* Under such an election, what crashed leaders left in asynq:schedulers is gone before the
\* next scheduler runs.
THEOREM CleanedUnderElection == Spec /\ Terms!Spec => []NoDeadEntryWhileRunning
<1>1. TermInv => NoDeadEntryWhileRunning
  BY DEF TermInv, Cleaned, NoDeadEntryWhileRunning, Running
<1>2. QED BY <1>1, TermInvHolds, PTL

\* With Exclusive: successive instances are at least one period apart.
THEOREM OneInstanceEveryPeriod ==
  ASSUME Exclusive
  PROVE  Spec => OneInstancePerPeriod
  BY ExclusiveTerms, OneInstanceUnderElection, PTL

\* With Exclusive: no entry of a dead scheduler outlives a cleanup.
THEOREM DeadEntriesCleaned ==
  ASSUME Exclusive
  PROVE  Spec => []NoDeadEntryWhileRunning
  BY ExclusiveTerms, CleanedUnderElection, PTL
=============================================================================
