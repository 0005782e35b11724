------------------------ MODULE TaskLifecycleProofs ------------------------
(***************************************************************************)
(* Theorems about TaskLifecycle for any number of tasks, pods, retries,    *)
(* tokens and faults.                                                      *)
(***************************************************************************)
EXTENDS TaskLifecycle, FiniteSetTheorems, TLAPS

USE TasksAssumption DEF SetState, SetExec, taskVars, podVars, counts

-----------------------------------------------------------------------------
(* Type correctness.                                                       *)

LEMMA InitType == Init => TypeOK
<1> SUFFICES ASSUME Init PROVE TypeOK
  OBVIOUS
<1> USE DEF Init, TypeOK, TaskStates, Attempts
<1>1. 0 \in 0 .. MaxRetry /\ Burst \in 0 .. Burst /\ MaxFaults \in 0 .. MaxFaults
  OBVIOUS
<1>2. retried \in [Tasks -> 0 .. MaxRetry] /\ tokens \in [Pods -> 0 .. Burst]
  BY <1>1
<1>3. exec \in [Pods -> [Tasks -> Attempts]]
  OBVIOUS
<1>4. QED BY <1>1, <1>2, <1>3

LEMMA AttemptType ==
  ASSUME TypeOK, NEW p \in Pods, NEW t \in Tasks, Attempt(p, t)
  PROVE  TypeOK'
<1> USE DEF TypeOK, TaskStates, Attempts
<1>1. CASE Dequeue(p, t) BY <1>1 DEF Dequeue
<1>2. CASE Allow(p, t) BY <1>2 DEF Allow
<1>3. CASE Limit(p, t) BY <1>3 DEF Limit
<1>4. CASE Handle(p, t) BY <1>4 DEF Handle, Outcomes
<1>5. CASE Finish(p, t)
  <2>1. CASE holder[t] = p
    <3>0. /\ \E s \in {"completed", "archived", "retry"} : state' = [state EXCEPT ![t] = s]
          /\ \/ retried' = retried
             \/ retried[t] < MaxRetry /\ retried' = [retried EXCEPT ![t] = @ + 1]
      BY <1>5, <2>1 DEF Finish, Settle, Failure, IsFailure
    <3>1. state' \in [Tasks -> TaskStates] /\ retried' \in [Tasks -> 0 .. MaxRetry]
      BY <3>0
    <3>2. \A u \in Tasks \ {t} : state'[u] = state[u]
      BY <3>0
    <3>3. /\ holder' = [holder EXCEPT ![t] = NoPod]
          /\ exec' = [exec EXCEPT ![p][t] = "none"]
          /\ UNCHANGED <<podVars, paused, counts, budget>>
      BY <1>5, <2>1 DEF Finish
    <3>4. exec' \in [Pods -> [Tasks -> Attempts]] /\ holder' \in [Tasks -> Pods \cup {NoPod}]
      BY <3>3
    <3>5. ASSUME NEW u \in Tasks, holder'[u] # NoPod
          PROVE  state'[u] = "active" /\ up'[holder'[u]] # "down" /\ exec'[holder'[u]][u] # "none"
      <4>1. u # t /\ holder'[u] = holder[u] BY <3>3, <3>5
      <4>2. exec'[holder[u]][u] = exec[holder[u]][u] BY <3>3, <4>1
      <4>3. QED BY <3>2, <3>3, <3>5, <4>1, <4>2
    <3>6. QED BY <3>1, <3>3, <3>4, <3>5
  <2>2. CASE holder[t] # p BY <1>5, <2>2 DEF Finish
  <2>3. QED BY <2>1, <2>2
<1>6. QED BY <1>1, <1>2, <1>3, <1>4, <1>5 DEF Attempt

LEMMA QueueType ==
  ASSUME TypeOK, NEW t \in Tasks, Queue(t)
  PROVE  TypeOK'
<1> USE DEF TypeOK, TaskStates, Attempts
<1>1. CASE Forward(t) BY <1>1 DEF Forward
<1>2. CASE LoseLease(t) BY <1>2 DEF LoseLease, Fault
<1>3. CASE Delete(t) BY <1>3 DEF Delete
<1>4. ASSUME NEW p \in Pods, Recover(p, t)
      PROVE  TypeOK'
  BY <1>4 DEF Recover, Failure
<1>5. QED BY <1>1, <1>2, <1>3, <1>4 DEF Queue

LEMMA ProcessType ==
  ASSUME TypeOK, NEW p \in Pods, Process(p)
  PROVE  TypeOK'
<1> USE DEF TypeOK, TaskStates, Attempts
<1>1. CASE Refill(p) BY <1>1 DEF Refill
<1>2. CASE StopServer(p) BY <1>2 DEF StopServer, Fault
<1>3. CASE Shutdown(p) BY <1>3 DEF Shutdown, Forget, Attempting
<1>4. CASE Crash(p) BY <1>4 DEF Crash, Forget, Fault
<1>5. CASE Restart(p) BY <1>5 DEF Restart
<1>6. QED BY <1>1, <1>2, <1>3, <1>4, <1>5 DEF Process

LEMMA StepType == TypeOK /\ [Next]_vars => TypeOK'
<1>1. ASSUME TypeOK, PauseQueue \/ UnpauseQueue
      PROVE  TypeOK'
  BY <1>1 DEF TypeOK, PauseQueue, UnpauseQueue
<1>2. ASSUME TypeOK, UNCHANGED vars
      PROVE  TypeOK'
  BY <1>2 DEF TypeOK, vars
<1>3. QED BY AttemptType, QueueType, ProcessType, <1>1, <1>2 DEF Next

\* Every behaviour is type correct; in particular only an active task has a holder, which
\* is up and attempts it.
THEOREM TypeCorrect == Spec => []TypeOK
  BY InitType, StepType, PTL DEF Spec

-----------------------------------------------------------------------------
(* What a step does to the task it is about, and that it leaves the others *)
(* alone.                                                                  *)

LimitedEffect(t) ==
    /\ retried'[t] = retried[t]
    /\ state'[t] = "retry" \/ (state'[t] = "archived" /\ retried[t] = MaxRetry)

FailureEffect(t) ==
    \/ state'[t] = "retry" /\ retried[t] < MaxRetry /\ retried'[t] = retried[t] + 1
    \/ state'[t] = "archived" /\ retried'[t] = retried[t] /\ retried[t] = MaxRetry

LEMMA FailureCases ==
  ASSUME TypeOK, NEW t \in Tasks, Failure(t)
  PROVE  FailureEffect(t)
<1>1. state \in [Tasks -> TaskStates] /\ retried \in [Tasks -> 0 .. MaxRetry]
  BY DEF TypeOK
<1>2. CASE retried[t] < MaxRetry BY <1>1, <1>2 DEF Failure, FailureEffect
<1>3. CASE ~(retried[t] < MaxRetry)
  <2>1. retried[t] = MaxRetry BY <1>1, <1>3
  <2>2. QED BY <1>1, <1>3, <2>1 DEF Failure, FailureEffect
<1>4. QED BY <1>2, <1>3

LEMMA FinishEffect ==
  ASSUME TypeOK, NEW p \in Pods, NEW t \in Tasks, Finish(p, t)
  PROVE  /\ exec' = [exec EXCEPT ![p][t] = "none"]
         /\ UNCHANGED <<podVars, paused, counts, budget>>
         /\ holder[t] # p => UNCHANGED taskVars
         /\ holder[t] = p =>
              /\ holder' = [holder EXCEPT ![t] = NoPod]
              /\ \A u \in Tasks \ {t} : state'[u] = state[u] /\ retried'[u] = retried[u]
              /\ exec[p][t] = "ok" => state'[t] = "completed" /\ retried'[t] = retried[t]
              /\ exec[p][t] = "skip" => state'[t] = "archived" /\ retried'[t] = retried[t]
              /\ exec[p][t] = "limited" => LimitedEffect(t)
              /\ exec[p][t] = "fail" => FailureEffect(t)
<1> USE DEF TypeOK
<1>1. CASE holder[t] # p BY <1>1 DEF Finish
<1>2. CASE holder[t] = p
  <2>1. Settle(t, exec[p][t]) BY <1>2 DEF Finish
  <2>2. exec[p][t] \in {"ok", "fail", "skip", "limited"} BY DEF Finish
  <2>3. /\ \A u \in Tasks \ {t} : state'[u] = state[u] /\ retried'[u] = retried[u]
        /\ exec[p][t] = "ok" => state'[t] = "completed" /\ retried'[t] = retried[t]
        /\ exec[p][t] = "skip" => state'[t] = "archived" /\ retried'[t] = retried[t]
        /\ exec[p][t] = "limited" => LimitedEffect(t)
    BY <2>1, <2>2 DEF Settle, Failure, IsFailure, LimitedEffect
  <2>4. exec[p][t] = "fail" => FailureEffect(t)
    BY <2>1, FailureCases DEF Settle, IsFailure
  <2>5. QED BY <1>2, <2>3, <2>4 DEF Finish
<1>3. QED BY <1>1, <1>2

LEMMA RecoverEffect ==
  ASSUME TypeOK, NEW p \in Pods, NEW t \in Tasks, Recover(p, t)
  PROVE  /\ state[t] = "active" /\ holder[t] = NoPod
         /\ \A u \in Tasks \ {t} : state'[u] = state[u] /\ retried'[u] = retried[u]
         /\ FailureEffect(t)
         /\ UNCHANGED <<holder, exec, podVars, paused, counts, budget>>
<1>1. Failure(t) /\ UNCHANGED <<holder, exec, podVars, paused, counts, budget>>
  BY DEF Recover
<1>2. \A u \in Tasks \ {t} : state'[u] = state[u] /\ retried'[u] = retried[u]
  BY <1>1 DEF Failure, TypeOK
<1>3. QED BY <1>1, <1>2, FailureCases DEF Recover

-----------------------------------------------------------------------------
(* Deletion.                                                               *)

\* Every behaviour: no late result, recovery, retry or requeue revives a deleted task.
THEOREM DeletedStays == Spec => DeletedForGood
<1>1. ASSUME TypeOK, Next, NEW u \in Tasks, state[u] = "deleted"
      PROVE  state'[u] = "deleted"
  <2> USE <1>1 DEF TypeOK
  <2>1. ASSUME NEW p \in Pods, NEW t \in Tasks, Attempt(p, t)
        PROVE  state'[u] = "deleted"
    <3>1. CASE Finish(p, t)
      <4>1. CASE holder[t] # p BY <3>1, <4>1, FinishEffect
      <4>2. CASE holder[t] = p
        <5>1. u # t BY <4>2
        <5>2. QED BY <3>1, <4>2, <5>1, FinishEffect
      <4>3. QED BY <4>1, <4>2
    <3>2. CASE ~Finish(p, t)
      BY <2>1, <3>2 DEF Attempt, Dequeue, Allow, Limit, Handle
    <3>3. QED BY <3>1, <3>2
  <2>2. ASSUME NEW t \in Tasks, Queue(t)
        PROVE  state'[u] = "deleted"
    <3>1. ASSUME NEW p \in Pods, Recover(p, t)
          PROVE  state'[u] = "deleted"
      BY <3>1, RecoverEffect DEF FailureEffect
    <3>2. QED BY <2>2, <3>1 DEF Queue, Forward, LoseLease, Delete
  <2>3. ASSUME NEW p \in Pods, Process(p)
        PROVE  state'[u] = "deleted"
    <3>1. CASE Shutdown(p)
      <4>1. holder[u] # p OBVIOUS
      <4>2. QED BY <3>1, <4>1 DEF Shutdown
    <3>2. QED BY <2>3, <3>1 DEF Process, Refill, StopServer, Crash, Restart
  <2>4. QED BY <2>1, <2>2, <2>3 DEF Next, PauseQueue, UnpauseQueue
<1>2. TypeOK /\ [Next]_vars => [Revived = {}]_vars
  BY <1>1 DEF Revived
<1>3. QED BY <1>2, TypeCorrect, PTL DEF Spec, DeletedForGood
-----------------------------------------------------------------------------
(* Acknowledgement, concurrent attempts and the archive.                   *)

\* An attempt that is to be acknowledged has delivered, and so has a completed task.
Acknowledged(t) ==
    /\ \A p \in Pods : exec[p][t] = "ok" => delivered[t] > 0
    /\ state[t] = "completed" => delivered[t] > 0

\* As long as no lease on the task was lost, whoever attempts it holds the lease.
Leased(t) == lost[t] = 0 => \A p \in Pods : exec[p][t] # "none" => holder[t] = p

\* A task whose handler succeeds is charged with lost leases only, and each lost lease is
\* counted before the recoverer charges it.
Unleased(t) == state[t] = "active" /\ holder[t] = NoPod
ChargedForLoss(t) ==
    t \in GoodTasks =>
        /\ \A p \in Pods : exec[p][t] \notin {"fail", "skip"}
        /\ retried[t] <= lost[t]
        /\ Unleased(t) => retried[t] < lost[t]
        /\ state[t] = "archived" => lost[t] >= MaxRetry

\* Only a task that its handler refuses is answered with SkipRetry.
SkipsRefused(t) == \A p \in Pods : exec[p][t] = "skip" => t \in RefusedTasks

TaskInv(t) == Acknowledged(t) /\ Leased(t) /\ ChargedForLoss(t) /\ SkipsRefused(t)
Inv == TypeOK /\ \A t \in Tasks : TaskInv(t)

LEMMA InitInv == Init => Inv
  BY InitType DEF Init, Inv, TaskInv, Acknowledged, Leased, ChargedForLoss, SkipsRefused, Unleased

LEMMA AttemptInv ==
  ASSUME Inv, NEW p \in Pods, NEW t \in Tasks, Attempt(p, t), NEW u \in Tasks
  PROVE  TaskInv(u)'
<1> USE DEF Inv, TaskInv, Acknowledged, Leased, ChargedForLoss, SkipsRefused, Unleased, TypeOK
<1>1. CASE Dequeue(p, t) BY <1>1 DEF Dequeue
<1>2. CASE Allow(p, t) BY <1>2 DEF Allow
<1>3. CASE Limit(p, t) BY <1>3 DEF Limit
<1>4. CASE Handle(p, t) BY <1>4 DEF Handle, Outcomes
<1>5. CASE Finish(p, t)
  <2>1. /\ UNCHANGED <<lost, delivered>>
        /\ exec'[p][t] = "none"
        /\ \A q \in Pods : q # p \/ u # t => exec'[q][u] = exec[q][u]
    BY <1>5, FinishEffect
  <2>2. exec[p][t] \in {"ok", "fail", "skip", "limited"} BY <1>5 DEF Finish
  <2>3. CASE holder[t] # p
    <3>1. UNCHANGED <<state, holder, retried>> BY <1>5, <2>3, FinishEffect
    <3>2. QED BY <2>1, <2>3, <3>1
  <2>4. CASE holder[t] = p /\ u # t
    <3>1. state'[u] = state[u] /\ holder'[u] = holder[u] /\ retried'[u] = retried[u]
      BY <1>5, <2>4, FinishEffect
    <3>2. QED BY <2>1, <2>4, <3>1
  <2>5. CASE holder[t] = p /\ u = t
    <3>1. /\ holder'[t] = NoPod /\ state[t] = "active"
          /\ exec[p][t] = "ok" => state'[t] = "completed" /\ retried'[t] = retried[t]
          /\ exec[p][t] = "skip" => state'[t] = "archived"
          /\ exec[p][t] = "limited" => LimitedEffect(t)
          /\ exec[p][t] = "fail" => state'[t] \in {"retry", "archived"}
      BY <1>5, <2>5, FinishEffect DEF FailureEffect
    <3>2. Acknowledged(t)'
      <4>1. state'[t] = "completed" => exec[p][t] = "ok"
        BY <2>2, <3>1 DEF LimitedEffect
      <4>2. QED BY <2>1, <2>5, <4>1
    <3>3. Leased(t)' BY <2>1, <2>5, <3>1
    <3>4. ChargedForLoss(t)' BY <2>1, <2>2, <2>5, <3>1 DEF LimitedEffect
    <3>5. SkipsRefused(t)' BY <2>1, <2>5
    <3>6. QED BY <2>5, <3>2, <3>3, <3>4, <3>5
  <2>6. QED BY <2>3, <2>4, <2>5
<1>6. QED BY <1>1, <1>2, <1>3, <1>4, <1>5 DEF Attempt

LEMMA QueueInv ==
  ASSUME Inv, NEW t \in Tasks, Queue(t), NEW u \in Tasks
  PROVE  TaskInv(u)'
<1> USE DEF Inv, TaskInv, Acknowledged, Leased, ChargedForLoss, SkipsRefused, Unleased, TypeOK
<1>1. CASE Forward(t) BY <1>1 DEF Forward
<1>2. CASE LoseLease(t) BY <1>2 DEF LoseLease
<1>3. CASE Delete(t) BY <1>3 DEF Delete
<1>4. ASSUME NEW p \in Pods, Recover(p, t)
      PROVE  TaskInv(u)'
  BY <1>4, RecoverEffect DEF FailureEffect
<1>5. QED BY <1>1, <1>2, <1>3, <1>4 DEF Queue

LEMMA ProcessInv ==
  ASSUME Inv, NEW p \in Pods, Process(p), NEW u \in Tasks
  PROVE  TaskInv(u)'
<1> USE DEF Inv, TaskInv, Acknowledged, Leased, ChargedForLoss, SkipsRefused, Unleased, TypeOK
<1>1. CASE Refill(p) BY <1>1 DEF Refill
<1>2. CASE StopServer(p) BY <1>2 DEF StopServer
<1>3. CASE Shutdown(p) BY <1>3 DEF Shutdown, Forget, Attempting
<1>4. CASE Crash(p) BY <1>4 DEF Crash, Forget
<1>5. CASE Restart(p) BY <1>5 DEF Restart
<1>6. QED BY <1>1, <1>2, <1>3, <1>4, <1>5 DEF Process

LEMMA StepInv == Inv /\ [Next]_vars => Inv'
<1> SUFFICES ASSUME Inv, [Next]_vars, NEW u \in Tasks
             PROVE  TaskInv(u)'
  BY StepType DEF Inv
<1>1. CASE PauseQueue \/ UnpauseQueue \/ UNCHANGED vars
  BY <1>1 DEF Inv, TaskInv, Acknowledged, Leased, ChargedForLoss, SkipsRefused, Unleased,
     PauseQueue, UnpauseQueue, vars
<1>2. QED BY <1>1, AttemptInv, QueueInv, ProcessInv DEF Next

LEMMA InvHolds == Spec => []Inv
  BY InitInv, StepInv, PTL DEF Spec

\* Every behaviour: whatever is acknowledged was delivered.
THEOREM CompletedDelivered == Spec => []CompletedWasDelivered
<1>1. Inv => CompletedWasDelivered
  BY DEF Inv, TaskInv, Acknowledged, CompletedWasDelivered
<1>2. QED BY <1>1, InvHolds, PTL

\* Every behaviour: two pods attempt a task at once only after a lease on it was lost.
THEOREM AttemptedAlone == Spec => []SingleAttempt
<1>1. Inv => SingleAttempt
  BY DEF Inv, TaskInv, Leased, SingleAttempt, TypeOK
<1>2. QED BY <1>1, InvHolds, PTL

\* Every behaviour: rate limits, however many, never send a good task to the archive.
THEOREM GoodNotArchived == Spec => []GoodTaskNotArchived
<1>1. Inv => GoodTaskNotArchived
  BY DEF Inv, TaskInv, ChargedForLoss, GoodTaskNotArchived
<1>2. QED BY <1>1, InvHolds, PTL

-----------------------------------------------------------------------------
(* Repetition.  Every delivery uses up an attempt or the task's right to   *)
(* another one; only a lost lease and a cut-off shutdown give it anew.     *)

\* The attempts that may still deliver or bring the task back for another attempt.
Trying(t) == {p \in Pods : exec[p][t] \in {"begun", "handling", "fail", "limited"}}

\* Whether a new attempt may begin, now or after a retry or a recovery.
Open(t) == IF state[t] \in {"pending", "retry"} \/ Unleased(t) THEN 1 ELSE 0

Paid(t) == delivered[t] + Cardinality(Trying(t)) + Open(t) <= 1 + lost[t] + aborted[t]

LEMMA TryingFinite ==
  ASSUME NEW t \in Tasks
  PROVE  IsFiniteSet(Trying(t)) /\ Cardinality(Trying(t)) \in Nat
  BY FS_Subset, FS_CardinalityType DEF Trying

LEMMA TryingFinite2 ==
  ASSUME NEW t \in Tasks
  PROVE  IsFiniteSet(Trying(t)') /\ Cardinality(Trying(t)') \in Nat
<1>1. Trying(t)' \subseteq Pods BY DEF Trying
<1>2. QED BY <1>1, FS_Subset, FS_CardinalityType

\* How the number of attempts follows from the change of one of them.
LEMMA TryingMore ==
  ASSUME NEW t \in Tasks, NEW p, Trying(t)' \subseteq Trying(t) \cup {p}
  PROVE  Cardinality(Trying(t)') <= Cardinality(Trying(t)) + 1
<1>0. /\ IsFiniteSet(Trying(t) \cup {p})
      /\ Cardinality(Trying(t) \cup {p})
           = IF p \in Trying(t) THEN Cardinality(Trying(t)) ELSE Cardinality(Trying(t)) + 1
  BY TryingFinite, FS_AddElement
<1>1. /\ IsFiniteSet(Trying(t) \cup {p})
      /\ Cardinality(Trying(t) \cup {p}) <= Cardinality(Trying(t)) + 1
  BY <1>0, TryingFinite
<1>2. Cardinality(Trying(t)') <= Cardinality(Trying(t) \cup {p})
  BY <1>1, FS_Subset
<1>3. Cardinality(Trying(t) \cup {p}) \in Nat BY <1>1, FS_CardinalityType
<1>4. QED BY <1>1, <1>2, <1>3, TryingFinite, TryingFinite2

LEMMA TryingFewer ==
  ASSUME NEW t \in Tasks, NEW p \in Trying(t), Trying(t)' \subseteq Trying(t) \ {p}
  PROVE  Cardinality(Trying(t)') <= Cardinality(Trying(t)) - 1
<1>1. /\ IsFiniteSet(Trying(t) \ {p})
      /\ Cardinality(Trying(t) \ {p}) = Cardinality(Trying(t)) - 1
  BY TryingFinite, FS_RemoveElement
<1>2. QED BY <1>1, FS_Subset

LEMMA TryingSame ==
  ASSUME NEW t \in Tasks, Trying(t)' \subseteq Trying(t)
  PROVE  Cardinality(Trying(t)') <= Cardinality(Trying(t))
  BY TryingFinite, FS_Subset

LEMMA InitPaid == Init => \A t \in Tasks : Paid(t)
<1> SUFFICES ASSUME Init, NEW t \in Tasks PROVE Paid(t)
  OBVIOUS
<1>1. Trying(t) = {} BY DEF Init, Trying
<1>2. Open(t) = 1 BY DEF Init, Open
<1>3. delivered[t] = 0 /\ lost[t] = 0 /\ aborted[t] = 0 BY DEF Init
<1>4. QED BY <1>1, <1>2, <1>3, FS_EmptySet DEF Paid

LEMMA PaidTypes ==
  ASSUME TypeOK, TypeOK', NEW t \in Tasks
  PROVE  /\ Open(t) \in Int /\ Open(t)' \in Int
         /\ Cardinality(Trying(t)) \in Int /\ Cardinality(Trying(t)') \in Int
         /\ delivered[t] \in Int /\ delivered'[t] \in Int
         /\ lost[t] \in Int /\ lost'[t] \in Int
         /\ aborted[t] \in Int /\ aborted'[t] \in Int
<1>1. Open(t) \in Int /\ Open(t)' \in Int BY DEF Open
<1>2. QED BY <1>1, TryingFinite, TryingFinite2 DEF TypeOK

LEMMA AttemptPaid ==
  ASSUME TypeOK, NEW p \in Pods, NEW t \in Tasks, Attempt(p, t), NEW u \in Tasks, Paid(u)
  PROVE  Paid(u)'
<1>0. TypeOK' BY AttemptType
<1>1. CASE u # t
  <2>1. /\ \A q \in Pods : exec'[q][u] = exec[q][u]
        /\ state'[u] = state[u] /\ holder'[u] = holder[u]
        /\ delivered'[u] = delivered[u] /\ lost'[u] = lost[u] /\ aborted'[u] = aborted[u]
    <3>1. CASE Finish(p, t)
      <4>a. exec' = [exec EXCEPT ![p][t] = "none"] /\ UNCHANGED <<delivered, lost, aborted>>
        BY <3>1, FinishEffect
      <4>0. /\ \A q \in Pods : exec'[q][u] = exec[q][u]
            /\ UNCHANGED <<delivered, lost, aborted>>
        BY <1>1, <4>a DEF TypeOK
      <4>1. CASE holder[t] = p
        <5>1. state'[u] = state[u] /\ holder' = [holder EXCEPT ![t] = NoPod]
          BY <1>1, <3>1, <4>1, FinishEffect
        <5>2. QED BY <1>1, <4>0, <5>1 DEF TypeOK
      <4>2. CASE holder[t] # p
        <5>1. UNCHANGED <<state, holder>> BY <3>1, <4>2, FinishEffect
        <5>2. QED BY <4>0, <5>1
      <4>3. QED BY <4>1, <4>2
    <3>2. CASE Dequeue(p, t) BY <1>1, <3>2 DEF Dequeue, TypeOK
    <3>3. CASE Allow(p, t) \/ Limit(p, t) BY <1>1, <3>3 DEF Allow, Limit, TypeOK
    <3>4. CASE Handle(p, t) BY <1>1, <3>4 DEF Handle, TypeOK
    <3>5. QED BY <3>1, <3>2, <3>3, <3>4 DEF Attempt
  <2>2. Trying(u)' = Trying(u) /\ Open(u)' = Open(u) BY <2>1 DEF Trying, Open, Unleased
  <2>3. QED BY <2>1, <2>2 DEF Paid
<1>2. CASE u = t
  <2> USE DEF TypeOK
  <2>0. /\ Open(t) \in Int /\ Open(t)' \in Int
        /\ Cardinality(Trying(t)) \in Int /\ Cardinality(Trying(t)') \in Int
        /\ delivered[t] \in Int /\ delivered'[t] \in Int
        /\ lost[t] \in Int /\ aborted[t] \in Int
    BY <1>0, PaidTypes
  <2>1. CASE Dequeue(p, t)
    <3>1. Trying(t)' \subseteq Trying(t) \cup {p} BY <2>1 DEF Dequeue, Trying
    <3>2. Open(t) = 1 /\ Open(t)' = 0 BY <2>1 DEF Dequeue, Open, Unleased
    <3>3. UNCHANGED <<delivered, lost, aborted>> BY <2>1 DEF Dequeue
    <3>4. Cardinality(Trying(t)') <= Cardinality(Trying(t)) + 1
      BY <3>1, TryingMore
    <3>5. QED BY <2>0, <1>2, <3>1, <3>2, <3>3, <3>4 DEF Paid
  <2>2. CASE Allow(p, t) \/ Limit(p, t)
    <3>1. Trying(t)' \subseteq Trying(t) BY <2>2 DEF Allow, Limit, Trying
    <3>2. Open(t)' = Open(t) BY <2>2 DEF Allow, Limit, Open, Unleased
    <3>3. UNCHANGED <<delivered, lost, aborted>> BY <2>2 DEF Allow, Limit
    <3>4. Cardinality(Trying(t)') <= Cardinality(Trying(t))
      BY <3>1, TryingSame
    <3>5. QED BY <2>0, <1>2, <3>1, <3>2, <3>3, <3>4 DEF Paid
  <2>3. CASE Handle(p, t)
    <3>1. UNCHANGED <<state, holder, lost, aborted>> BY <2>3 DEF Handle
    <3>2. Open(t)' = Open(t) BY <3>1 DEF Open, Unleased
    <3>3. CASE exec'[p][t] = "ok"
      <4>1. p \in Trying(t) /\ Trying(t)' \subseteq Trying(t) \ {p}
        BY <2>3, <3>3 DEF Handle, Outcomes, Trying
      <4>2. delivered'[t] <= delivered[t] + 1 BY <2>3 DEF Handle
      <4>3. Cardinality(Trying(t)') <= Cardinality(Trying(t)) - 1
        BY <4>1, TryingFewer
      <4>4. QED BY <2>0, <1>2, <3>1, <3>2, <4>1, <4>2, <4>3 DEF Paid
    <3>4. CASE exec'[p][t] # "ok"
      <4>1. Trying(t)' \subseteq Trying(t)
        BY <2>3 DEF Handle, Outcomes, Trying
      <4>2. delivered'[t] = delivered[t] BY <2>3, <3>4 DEF Handle
      <4>3. Cardinality(Trying(t)') <= Cardinality(Trying(t))
        BY <4>1, TryingSame
      <4>4. QED BY <2>0, <1>2, <3>1, <3>2, <4>1, <4>2, <4>3 DEF Paid
    <3>5. QED BY <3>3, <3>4
  <2>4. CASE Finish(p, t)
    <3>1. UNCHANGED <<delivered, lost, aborted>> BY <2>4, FinishEffect
    <3>2. Trying(t)' \subseteq Trying(t) \ {p} BY <2>4, FinishEffect DEF Trying
    <3>3. exec[p][t] \in {"ok", "fail", "skip", "limited"} BY <2>4 DEF Finish
    <3>4. CASE holder[t] = p /\ exec[p][t] \in {"fail", "limited"}
      <4>1. p \in Trying(t) BY <3>4 DEF Trying
      <4>2. Open(t) = 0 /\ Open(t)' \in {0, 1}
        BY <3>4 DEF Open, Unleased
      <4>3. Cardinality(Trying(t)') <= Cardinality(Trying(t)) - 1
        BY <3>2, <4>1, TryingFewer
      <4>4. QED BY <2>0, <1>2, <3>1, <3>2, <4>1, <4>2, <4>3 DEF Paid
    <3>5. CASE holder[t] # p \/ exec[p][t] \in {"ok", "skip"}
      <4>1. Open(t)' <= Open(t)
        BY <2>4, <3>5, FinishEffect DEF Open, Unleased
      <4>2. Cardinality(Trying(t)') <= Cardinality(Trying(t))
        BY <3>2, TryingSame
      <4>3. QED BY <2>0, <1>2, <3>1, <3>2, <4>1, <4>2 DEF Paid
    <3>6. QED BY <3>3, <3>4, <3>5
  <2>5. QED BY <2>1, <2>2, <2>3, <2>4 DEF Attempt
<1>3. QED BY <1>1, <1>2

LEMMA QueuePaid ==
  ASSUME TypeOK, NEW t \in Tasks, Queue(t), NEW u \in Tasks, Paid(u)
  PROVE  Paid(u)'
<1>0. TypeOK' BY QueueType
<1>1. Trying(u)' = Trying(u) /\ UNCHANGED <<delivered, aborted>>
  BY DEF Queue, Forward, LoseLease, Delete, Recover, Trying
<1>2. lost'[u] \in Int /\ Open(u)' + lost[u] <= Open(u) + lost'[u]
  <2> USE DEF TypeOK, Open, Unleased
  <2>1. CASE Forward(t) BY <2>1 DEF Forward
  <2>2. CASE LoseLease(t) BY <2>2 DEF LoseLease
  <2>3. CASE Delete(t) BY <2>3 DEF Delete
  <2>4. ASSUME NEW p \in Pods, Recover(p, t)
        PROVE  lost'[u] \in Int /\ Open(u)' + lost[u] <= Open(u) + lost'[u]
    BY <2>4, RecoverEffect DEF FailureEffect
  <2>5. QED BY <2>1, <2>2, <2>3, <2>4 DEF Queue
<1>3. QED BY <1>0, <1>1, <1>2, PaidTypes DEF Paid

LEMMA ProcessPaid ==
  ASSUME TypeOK, NEW p \in Pods, Process(p), NEW u \in Tasks, Paid(u)
  PROVE  Paid(u)'
<1> USE DEF TypeOK
<1>0. TypeOK' BY ProcessType
<1>1. Trying(u)' \subseteq Trying(u)
  <2>1. CASE Shutdown(p) \/ Crash(p) BY <2>1 DEF Shutdown, Crash, Forget, Trying
  <2>2. CASE Refill(p) \/ StopServer(p) \/ Restart(p)
    BY <2>2 DEF Refill, StopServer, Restart, Trying
  <2>3. QED BY <2>1, <2>2 DEF Process
<1>2. /\ delivered'[u] = delivered[u] /\ lost'[u] \in Int /\ aborted'[u] \in Int
      /\ Open(u)' + lost[u] + aborted[u] <= Open(u) + lost'[u] + aborted'[u]
  <2> USE DEF Open, Unleased
  <2>1. CASE Shutdown(p)
    <3>1. CASE holder[u] = p BY <2>1, <3>1 DEF Shutdown, Attempting
    <3>2. CASE holder[u] # p BY <2>1, <3>2 DEF Shutdown, Attempting
    <3>3. QED BY <3>1, <3>2
  <2>2. CASE Crash(p) BY <2>2 DEF Crash
  <2>3. CASE Refill(p) \/ StopServer(p) \/ Restart(p)
    BY <2>3 DEF Refill, StopServer, Restart
  <2>4. QED BY <2>1, <2>2, <2>3 DEF Process
<1>3. Cardinality(Trying(u)') <= Cardinality(Trying(u)) BY <1>1, TryingSame
<1>4. QED BY <1>0, <1>2, <1>3, PaidTypes DEF Paid

AllPaid == TypeOK /\ \A t \in Tasks : Paid(t)

LEMMA PaidStep == AllPaid /\ [Next]_vars => AllPaid'
<1> SUFFICES ASSUME AllPaid, [Next]_vars, NEW u \in Tasks
             PROVE  Paid(u)'
  BY StepType DEF AllPaid
<1>1. CASE PauseQueue \/ UnpauseQueue \/ UNCHANGED vars
  <2>1. UNCHANGED <<state, holder, exec, delivered, lost, aborted>>
    BY <1>1 DEF PauseQueue, UnpauseQueue, vars
  <2>2. Trying(u)' = Trying(u) /\ Open(u)' = Open(u) BY <2>1 DEF Trying, Open, Unleased
  <2>3. QED BY <2>1, <2>2 DEF AllPaid, Paid
<1>2. QED BY <1>1, AttemptPaid, QueuePaid, ProcessPaid DEF Next, AllPaid

\* Every behaviour: each delivery beyond the first is paid for by a lost lease or by an
\* attempt that a shutdown cut off.
THEOREM RepeatedByLoss == Spec => []RepeatedOnlyByLoss
<1>1. Init => AllPaid BY InitType, InitPaid DEF AllPaid
<1>2. AllPaid => RepeatedOnlyByLoss
  <2> SUFFICES ASSUME AllPaid, NEW t \in Tasks
               PROVE  delivered[t] <= 1 + lost[t] + aborted[t]
    BY DEF RepeatedOnlyByLoss
  <2>1. Open(t) \in Nat BY DEF Open
  <2>2. delivered[t] \in Nat /\ lost[t] \in Nat /\ aborted[t] \in Nat
    BY DEF AllPaid, TypeOK
  <2>3. QED BY <2>1, <2>2, TryingFinite DEF AllPaid, Paid
<1>3. QED BY <1>1, <1>2, PaidStep, PTL DEF Spec

-----------------------------------------------------------------------------
(* The queue implements TaskQueue.                                         *)

\* A step that leaves alone what is promised.
LEMMA QueueStutter ==
  ASSUME \A u \in Tasks : Status(state'[u]) = Status(state[u]) /\ retried'[u] = retried[u],
         delivered' = delivered
  PROVE  UNCHANGED Promised!vars
  BY DEF Promised!vars

\* A step that settles one task, or charges it with a retry.
LEMMA QueueMove ==
  ASSUME TypeOK, NEW t \in Tasks,
         \A u \in Tasks \ {t} : state'[u] = state[u] /\ retried'[u] = retried[u],
         delivered' = delivered,
         Status(state[t]) = "waiting",
         \/ /\ state'[t] = "completed" /\ retried'[t] = retried[t] /\ delivered[t] > 0
         \/ /\ state'[t] = "archived" /\ retried'[t] = retried[t]
            /\ retried[t] = MaxRetry \/ t \in RefusedTasks
         \/ /\ state'[t] = "retry" /\ retried[t] < MaxRetry
            /\ retried'[t] = retried[t] + 1
  PROVE  Promised!Next
<1>0. retried[t] \in 0 .. MaxRetry BY DEF TypeOK
<1>1. CASE state'[t] = "completed"
  <2>1. Promised!Acknowledge(t)
    BY <1>1 DEF Promised!Acknowledge, Promised!Moves, Status
  <2>2. QED BY <2>1 DEF Promised!Next
<1>2. CASE state'[t] = "archived"
  <2>1. /\ Status(state'[t]) = "archived"
        /\ \A u \in Tasks \ {t} : Status(state'[u]) = Status(state[u])
    BY <1>2 DEF Status
  <2>2. Promised!Moves(t, "waiting", "archived")
    BY <2>1 DEF Promised!Moves
  <2>3. /\ \A u \in Tasks : retried'[u] = retried[u]
        /\ MaxRetry - retried[t] = 0 \/ t \in RefusedTasks
    BY <1>0, <1>2
  <2>4. Promised!Archive(t)
    BY <2>2, <2>3 DEF Promised!Archive
  <2>5. QED BY <2>4 DEF Promised!Next
<1>3. CASE state'[t] = "retry"
  <2>1. \A u \in Tasks : Status(state'[u]) = Status(state[u])
    BY <1>3 DEF Status
  <2>2. /\ MaxRetry - retried[t] > 0
        /\ MaxRetry - retried'[t] = (MaxRetry - retried[t]) - 1
        /\ \A u \in Tasks \ {t} : MaxRetry - retried'[u] = MaxRetry - retried[u]
    BY <1>0, <1>3
  <2>3. Promised!Retry(t)
    BY <2>1, <2>2 DEF Promised!Retry
  <2>4. QED BY <2>3 DEF Promised!Next
<1>4. QED BY <1>1, <1>2, <1>3

LEMMA QueueInit == Init => Promised!Init
<1> SUFFICES ASSUME Init PROVE Promised!Init
  OBVIOUS
<1>1. \A t \in Tasks : state[t] = "pending" /\ retried[t] = 0 /\ delivered[t] = 0
  BY DEF Init
<1>2. QED BY <1>1 DEF Promised!Init, Status

LEMMA AttemptQueued ==
  ASSUME Inv, NEW p \in Pods, NEW t \in Tasks, Attempt(p, t)
  PROVE  Promised!Next \/ UNCHANGED Promised!vars
<1> USE DEF Inv, TaskInv
<1>0. TypeOK OBVIOUS
<1>1. CASE Dequeue(p, t) \/ Allow(p, t) \/ Limit(p, t)
  <2>1. /\ \A u \in Tasks : Status(state'[u]) = Status(state[u]) /\ retried'[u] = retried[u]
        /\ delivered' = delivered
    BY <1>1 DEF Dequeue, Allow, Limit, Status, TypeOK
  <2>2. QED BY <2>1, QueueStutter
<1>2. CASE Handle(p, t)
  <2>1. UNCHANGED <<state, retried>> BY <1>2 DEF Handle
  <2>2. CASE delivered' = delivered BY <2>1, <2>2, QueueStutter
  <2>3. CASE delivered' = [delivered EXCEPT ![t] = @ + 1]
    <3>1. {u \in Tasks : delivered'[u] > 0} = {u \in Tasks : delivered[u] > 0} \cup {t}
      BY <2>3 DEF TypeOK
    <3>2. Status(state[t]) # "absent" BY DEF Status, TypeOK, TaskStates
    <3>3. Promised!Serve(t) BY <2>1, <3>1, <3>2 DEF Promised!Serve
    <3>4. QED BY <3>3 DEF Promised!Next
  <2>4. QED BY <1>2, <2>2, <2>3 DEF Handle
<1>3. CASE Finish(p, t) /\ holder[t] # p
  <2>1. UNCHANGED <<state, retried, delivered>> BY <1>0, <1>3, FinishEffect
  <2>2. QED BY <2>1, QueueStutter
<1>4. CASE Finish(p, t) /\ holder[t] = p
  <2>1. /\ delivered' = delivered
        /\ \A u \in Tasks \ {t} : state'[u] = state[u] /\ retried'[u] = retried[u]
        /\ exec[p][t] = "ok" => state'[t] = "completed" /\ retried'[t] = retried[t]
        /\ exec[p][t] = "skip" => state'[t] = "archived" /\ retried'[t] = retried[t]
        /\ exec[p][t] = "limited" => LimitedEffect(t)
        /\ exec[p][t] = "fail" => FailureEffect(t)
    BY <1>0, <1>4, FinishEffect
  <2>2. exec[p][t] \in {"ok", "fail", "skip", "limited"} BY <1>4 DEF Finish
  <2>3. state[t] = "active" BY <1>4 DEF TypeOK
  <2>4. Status(state[t]) = "waiting" BY <2>3 DEF Status
  <2>5. /\ exec[p][t] = "ok" => delivered[t] > 0
        /\ exec[p][t] = "skip" => t \in RefusedTasks
    BY DEF Acknowledged, SkipsRefused
  <2>6. CASE LimitedEffect(t) /\ state'[t] = "retry"
    <3>1. \A u \in Tasks : Status(state'[u]) = Status(state[u]) /\ retried'[u] = retried[u]
      BY <2>1, <2>4, <2>6 DEF LimitedEffect, Status
    <3>2. QED BY <2>1, <3>1, QueueStutter
  <2>7. CASE ~(LimitedEffect(t) /\ state'[t] = "retry")
    BY <1>0, <2>1, <2>2, <2>4, <2>5, <2>7, QueueMove DEF LimitedEffect, FailureEffect
  <2>8. QED BY <2>6, <2>7
<1>5. QED BY <1>1, <1>2, <1>3, <1>4 DEF Attempt

LEMMA TaskQueued ==
  ASSUME Inv, NEW t \in Tasks, Queue(t)
  PROVE  Promised!Next \/ UNCHANGED Promised!vars
<1>0. TypeOK BY DEF Inv
<1>1. CASE Forward(t) \/ LoseLease(t)
  <2>1. /\ \A u \in Tasks : Status(state'[u]) = Status(state[u]) /\ retried'[u] = retried[u]
        /\ delivered' = delivered
    BY <1>0, <1>1 DEF Forward, LoseLease, Status, TypeOK
  <2>2. QED BY <2>1, QueueStutter
<1>2. CASE Delete(t)
  <2>1. /\ \A u \in Tasks : \/ state'[u] = state[u]
                            \/ state[u] \in TaskStates /\ state'[u] = "deleted"
        /\ state' \in [Tasks -> TaskStates]
        /\ retried' = retried /\ delivered' = delivered
    BY <1>0, <1>2 DEF Delete, TypeOK, TaskStates
  <2>2. /\ \A s \in TaskStates : Status(s) \in Promised!Statuses /\ Status(s) # "absent"
        /\ Status("deleted") = "deleted"
    BY DEF Status, TaskStates, Promised!Statuses
  <2>3. Promised!Delete
    BY <2>1, <2>2 DEF Promised!Delete
  <2>4. QED BY <2>3 DEF Promised!Next
<1>3. ASSUME NEW p \in Pods, Recover(p, t)
      PROVE  Promised!Next \/ UNCHANGED Promised!vars
  <2>1. /\ state[t] = "active" /\ FailureEffect(t) /\ delivered' = delivered
        /\ \A u \in Tasks \ {t} : state'[u] = state[u] /\ retried'[u] = retried[u]
    BY <1>0, <1>3, RecoverEffect
  <2>2. Status(state[t]) = "waiting" BY <2>1 DEF Status
  <2>3. QED BY <1>0, <2>1, <2>2, QueueMove DEF FailureEffect
<1>4. QED BY <1>1, <1>2, <1>3 DEF Queue

LEMMA ProcessQueued ==
  ASSUME Inv, NEW p \in Pods, Process(p)
  PROVE  UNCHANGED Promised!vars
<1>1. \A u \in Tasks : holder[u] = p => state[u] = "active"
  BY TasksAssumption DEF Inv, TypeOK
<1>2. retried' = retried /\ delivered' = delivered
  BY DEF Process, Refill, StopServer, Shutdown, Crash, Restart
<1>3. \A u \in Tasks : \/ state'[u] = state[u]
                       \/ state[u] = "active" /\ state'[u] = "pending"
  BY <1>1 DEF Process, Refill, StopServer, Shutdown, Crash, Restart
<1>4. \A u \in Tasks : Status(state'[u]) = Status(state[u])
  BY <1>3 DEF Status
<1>5. QED BY <1>2, <1>4, QueueStutter

\* Every behaviour implements TaskQueue: whatever leases are lost, whichever of several
\* attempts at a task ends first, whatever is requeued, recovered, limited or deleted, what is
\* settled stays so, is acknowledged for a success only, and archived without one only when
\* it is refused or every retry has been used, each for one failure.
THEOREM ImplementsQueue == Spec => QueueSpec
<1>1. ASSUME Inv, [Next]_vars
      PROVE  [Promised!Next]_(Promised!vars)
  <2>1. CASE PauseQueue \/ UnpauseQueue \/ UNCHANGED vars
    <3>1. UNCHANGED <<state, retried, delivered>>
      BY <2>1 DEF PauseQueue, UnpauseQueue, vars
    <3>2. QED BY <3>1, QueueStutter
  <2>2. QED BY <1>1, <2>1, AttemptQueued, TaskQueued, ProcessQueued DEF Next
<1>2. QED BY <1>1, QueueInit, InvHolds, PTL DEF Spec, QueueSpec, Promised!Spec
=============================================================================
