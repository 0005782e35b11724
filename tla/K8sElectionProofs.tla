------------------------- MODULE K8sElectionProofs -------------------------
(***************************************************************************)
(* The safety properties of K8sElection, for any pods and durations.       *)
(***************************************************************************)
EXTENDS K8sElection, ElectionSettingsProofs

\* What the theorems need of the durations: RenewBeforeLease and RetryBeforeRenew.
Durations ==
    /\ settings.lease \in Nat \ {0}
    /\ settings.renew \in Nat
    /\ settings.retry \in Nat \ {0}

LEMMA DurationsType ==
  ASSUME settings \in {Normalised(c) : c \in Settings}
  PROVE  Durations
<1>1. PICK c \in Settings : settings = Normalised(c) OBVIOUS
<1>2. c \in Configured BY K8sAssumption
<1>3. LeaseDuration(c) \in Nat \ {0} BY <1>2, LeaseType
<1>4. RenewDeadline(c) \in Nat BY <1>2, RenewBeforeLease
<1>5. RetryPeriod(c) \in Nat \ {0} BY <1>2, RetryBeforeRenew
<1>6. QED BY <1>1, <1>3, <1>4, <1>5 DEF Durations, Normalised

LEMMA BoundType ==
  ASSUME Durations
  PROVE  StrayBound \in Nat /\ Max \in Nat /\ settings.renew + Delay <= Max
  BY K8sAssumption DEF Durations, StrayBound, Positive, Max

-----------------------------------------------------------------------------
(* Types.                                                                  *)

\* TypeOK without the constant part, for sets that do not change.
StateType(B, M, L) ==
    /\ proc \in [Pods -> {"serving", "stopping", "exited", "crashed"}]
    /\ ctxDone \in [Pods -> BOOLEAN]
    /\ loop \in [Pods -> {"start", "acquire", "lead", "release", "redis", "redisTerm",
                          "returned", "failed", "gone"}]
    /\ sched \in [Pods -> {"off", "starting", "running", "failed"}]
    /\ due \in [Pods -> 0 .. M]
    /\ stopIn \in [Pods -> 0 .. StopTime]
    /\ holder \in Pods \cup {NoPod}
    /\ lease \in 0 .. L
    /\ lost \in [Pods -> BOOLEAN]
    /\ stray \in [Pods -> 0 .. B + 1]
    /\ budget \in 0 .. MaxFaults
    /\ \A p \in Pods :
          /\ (loop[p] = "gone") <=> ~Alive(p)
          /\ loop[p] \in {"start", "acquire", "redis", "gone"} => sched[p] = "off"

LEMMA PodStepKeepsType ==
  ASSUME Durations, NEW B \in Nat, NEW M \in Nat, M = Max, StateType(B, M, settings.lease),
         NEW p \in Pods, PodStep(p)
  PROVE  StateType(B, M, settings.lease)'
<1>0. /\ settings.lease \in Nat \ {0} /\ settings.renew \in Nat /\ settings.retry \in Nat
      /\ Delay \in Nat /\ StopTime \in Nat /\ MaxFaults \in Nat
      /\ settings.renew + Delay <= M /\ M = settings.retry + settings.renew + Delay
  BY K8sAssumption DEF Durations, Max
<1>c. settings' = settings
  BY DEF PodStep, ElectorStep, SchedulerStep, RedisStep, ProcessStep, Elect, Acquire, Cancel,
         Renew, Lose, Leave, Release, SchedStart, SchedStop, BeginRedisTerm, EndRedisTerm,
         Signal, StopServing, Exit, Crash, Restart, config
<1> USE <1>0, <1>c DEF StateType, Goto, Fault, Settled, Alive, config, podVars, timers,
        leaseVars, ghosts
<1>1. CASE Elect(p) BY <1>1 DEF Elect
<1>2. CASE Acquire(p)
  <2>1. PICK d \in 0 .. Delay : due' = [due EXCEPT ![p] = settings.renew + d]
    BY <1>2 DEF Acquire
  <2>2. settings.renew + d \in 0 .. M OBVIOUS
  <2>3. QED BY <1>2, <2>1, <2>2 DEF Acquire
<1>3. CASE Cancel(p) BY <1>3 DEF Cancel
<1>4. CASE Renew(p)
  <2>1. PICK d \in 0 .. Delay : due' = [due EXCEPT ![p] = settings.retry + settings.renew + d]
    BY <1>4 DEF Renew
  <2>2. settings.retry + settings.renew + d \in 0 .. M OBVIOUS
  <2>3. QED BY <1>4, <2>1, <2>2 DEF Renew
<1>5. CASE Lose(p) BY <1>5 DEF Lose
<1>6. CASE Leave(p) BY <1>6 DEF Leave
<1>7. CASE Release(p) BY <1>7 DEF Release, AfterRun
<1>8. CASE SchedStart(p) BY <1>8 DEF SchedStart
<1>9. CASE SchedStop(p) BY <1>9 DEF SchedStop
<1>10. CASE BeginRedisTerm(p) BY <1>10 DEF BeginRedisTerm
<1>11. CASE EndRedisTerm(p) BY <1>11 DEF EndRedisTerm
<1>12. CASE Signal(p) BY <1>12 DEF Signal
<1>13. CASE StopServing(p) BY <1>13 DEF StopServing
<1>14. CASE Exit(p) BY <1>14 DEF Exit, Gone
<1>15. CASE Crash(p) BY <1>15 DEF Crash, Gone
<1>16. CASE Restart(p) BY <1>16 DEF Restart
<1>17. QED
  BY <1>1, <1>2, <1>3, <1>4, <1>5, <1>6, <1>7, <1>8, <1>9, <1>10, <1>11, <1>12, <1>13,
     <1>14, <1>15, <1>16 DEF PodStep, ElectorStep, SchedulerStep, RedisStep, ProcessStep

LEMMA TickKeepsType ==
  ASSUME Durations, NEW B \in Nat, B = StrayBound, NEW M \in Nat,
         StateType(B, M, settings.lease), Tick
  PROVE  StateType(B, M, settings.lease)'
<1>1. settings' = settings /\ StopTime \in Nat /\ settings.lease \in Nat
  BY K8sAssumption DEF Tick, config, Durations
<1>2. \A n \in Nat : \A m \in 0 .. n : Positive(m - 1) \in 0 .. n
  BY DEF Positive
<1>3. due' \in [Pods -> 0 .. M] /\ stopIn' \in [Pods -> 0 .. StopTime]
  BY <1>1, <1>2 DEF Tick, StateType
<1>4. lease' \in 0 .. settings.lease
  BY <1>1, <1>2 DEF Tick, StateType
<1>5. stray' \in [Pods -> 0 .. B + 1]
  <2>1. stray' = [p \in Pods |->
                     IF Astray(p) /\ stray[p] <= B THEN stray[p] + 1 ELSE stray[p]]
    BY DEF Tick
  <2>2. QED BY <2>1 DEF StateType
<1>6. QED BY <1>1, <1>3, <1>4, <1>5 DEF StateType, Tick, podVars, config, Alive

ConstantType ==
    settings \in {Normalised(c) : c \in Settings} /\ env \in [Pods -> Environments]

LEMMA ConfigConstant == [Next]_vars => UNCHANGED config
  BY DEF Next, vars, Tick, PodStep, ElectorStep, SchedulerStep, RedisStep, ProcessStep, Elect,
         Acquire, Cancel, Renew, Lose, Leave, Release, SchedStart, SchedStop, BeginRedisTerm,
         EndRedisTerm, Signal, StopServing, Exit, Crash, Restart, config

LEMMA TypeSplits ==
  TypeOK <=> ConstantType /\ StateType(StrayBound, Max, settings.lease)
  BY DEF TypeOK, ConstantType, StateType

LEMMA InitType == Init => TypeOK
<1> SUFFICES ASSUME Init PROVE TypeOK OBVIOUS
<1>1. Durations BY DurationsType DEF Init
<1>2. StrayBound \in Nat /\ Max \in Nat /\ settings.lease \in Nat
  BY <1>1, BoundType DEF Durations
<1>3. StateType(StrayBound, Max, settings.lease)
  <2>1. \A b, m, l \in Nat : StateType(b, m, l)
    BY K8sAssumption DEF Init, StateType, Alive
  <2>2. QED BY <1>2, <2>1
<1>4. QED BY <1>3, TypeSplits DEF Init, ConstantType

LEMMA TypeInductive == TypeOK /\ [Next]_vars => TypeOK'
<1> SUFFICES ASSUME TypeOK, [Next]_vars PROVE TypeOK' OBVIOUS
<1>1. UNCHANGED config BY ConfigConstant
<1>2. ConstantType /\ Durations
  BY TypeSplits, DurationsType DEF ConstantType
<1>3. ConstantType' BY <1>1, <1>2 DEF ConstantType, config
<1>4. StrayBound \in Nat /\ Max \in Nat BY <1>2, BoundType
<1>5. PICK B \in Nat : B = StrayBound BY <1>4
<1>6. PICK M \in Nat : M = Max BY <1>4
<1>7. StateType(B, M, settings.lease) BY <1>5, <1>6, TypeSplits
<1>8. StateType(B, M, settings.lease)'
  <2>1. CASE Tick BY <1>2, <1>5, <1>7, <2>1, TickKeepsType
  <2>2. CASE \E p \in Pods : PodStep(p)
    BY <1>2, <1>6, <1>7, <2>2, PodStepKeepsType
  <2>3. CASE UNCHANGED vars
    BY <1>7, <2>3 DEF StateType, vars, config, podVars, timers, leaseVars, ghosts, Alive
  <2>4. QED BY <2>1, <2>2, <2>3 DEF Next
<1>9. StrayBound' = B /\ Max' = M
  BY <1>1, <1>5, <1>6 DEF config, StrayBound, Max
<1>10. StateType(StrayBound, Max, settings.lease)'
  BY <1>8, <1>9 DEF StateType
<1>11. QED BY <1>3, <1>10, TypeSplits DEF TypeOK, ConstantType, StateType

\* Every behaviour is type correct.
THEOREM TypeCorrect == Spec => []TypeOK
  BY InitType, TypeInductive, PTL DEF Spec

-----------------------------------------------------------------------------
(* A step of one pod, seen from another.                                   *)

LEMMA Frame ==
  ASSUME TypeOK, NEW p \in Pods, NEW q \in Pods, p # q, PodStep(p)
  PROVE  /\ proc'[q] = proc[q] /\ ctxDone'[q] = ctxDone[q] /\ loop'[q] = loop[q]
         /\ sched'[q] = sched[q] /\ due'[q] = due[q] /\ stopIn'[q] = stopIn[q]
         /\ lost'[q] = lost[q] /\ stray'[q] = stray[q]
         /\ \/ holder' = holder /\ lease' = lease
            \/ (holder # q \/ lease = 0) /\ holder' # q
<1> USE K8sAssumption DEF TypeOK, Goto, Settled, config, podVars, timers, leaseVars, ghosts
<1>1. CASE Elect(p) BY <1>1 DEF Elect
<1>2. CASE Acquire(p) BY <1>2 DEF Acquire
<1>3. CASE Cancel(p) BY <1>3 DEF Cancel
<1>4. CASE Renew(p) BY <1>4 DEF Renew
<1>5. CASE Lose(p) BY <1>5 DEF Lose
<1>6. CASE Leave(p) BY <1>6 DEF Leave
<1>7. CASE Release(p) BY <1>7 DEF Release
<1>8. CASE SchedStart(p) BY <1>8 DEF SchedStart
<1>9. CASE SchedStop(p) BY <1>9 DEF SchedStop
<1>10. CASE BeginRedisTerm(p) BY <1>10 DEF BeginRedisTerm
<1>11. CASE EndRedisTerm(p) BY <1>11 DEF EndRedisTerm
<1>12. CASE Signal(p) BY <1>12 DEF Signal
<1>13. CASE StopServing(p) BY <1>13 DEF StopServing
<1>14. CASE Exit(p) BY <1>14 DEF Exit, Gone
<1>15. CASE Crash(p) BY <1>15 DEF Crash, Gone
<1>16. CASE Restart(p) BY <1>16 DEF Restart
<1>17. QED
  BY <1>1, <1>2, <1>3, <1>4, <1>5, <1>6, <1>7, <1>8, <1>9, <1>10, <1>11, <1>12, <1>13,
     <1>14, <1>15, <1>16 DEF PodStep, ElectorStep, SchedulerStep, RedisStep, ProcessStep

-----------------------------------------------------------------------------
(* Deafness.                                                               *)

\* A term that ends without a signal or a failure has lost the Lease.
DeafInv(p) ==
    /\ loop[p] = "release" /\ ~ctxDone[p] /\ sched[p] # "failed" => lost[p]
    /\ loop[p] = "returned" /\ ~ctxDone[p] => lost[p]

LEMMA DeafStep ==
  ASSUME TypeOK, NEW p \in Pods, DeafInv(p), PodStep(p)
  PROVE  DeafInv(p)'
<1> USE DEF TypeOK, DeafInv, Goto, Settled, config, podVars, timers, leaseVars, ghosts
<1>1. CASE Elect(p) BY <1>1 DEF Elect
<1>2. CASE Acquire(p) BY <1>2 DEF Acquire
<1>3. CASE Cancel(p) BY <1>3 DEF Cancel
<1>4. CASE Renew(p) BY <1>4 DEF Renew
<1>5. CASE Lose(p) BY <1>5 DEF Lose
<1>6. CASE Leave(p) BY <1>6 DEF Leave
<1>7. CASE Release(p) BY <1>7 DEF Release, AfterRun
<1>8. CASE SchedStart(p) BY <1>8 DEF SchedStart
<1>9. CASE SchedStop(p) BY <1>9 DEF SchedStop, Told
<1>10. CASE BeginRedisTerm(p) BY <1>10 DEF BeginRedisTerm
<1>11. CASE EndRedisTerm(p) BY <1>11 DEF EndRedisTerm
<1>12. CASE Signal(p) BY <1>12 DEF Signal
<1>13. CASE StopServing(p) BY <1>13 DEF StopServing
<1>14. CASE Exit(p) BY <1>14 DEF Exit, Gone
<1>15. CASE Crash(p) BY <1>15 DEF Crash, Gone
<1>16. CASE Restart(p) BY <1>16 DEF Restart
<1>17. QED
  BY <1>1, <1>2, <1>3, <1>4, <1>5, <1>6, <1>7, <1>8, <1>9, <1>10, <1>11, <1>12, <1>13,
     <1>14, <1>15, <1>16 DEF PodStep, ElectorStep, SchedulerStep, RedisStep, ProcessStep

\* No path but the loss of the Lease leaves a serving worker without an election.
THEOREM DeafOnlyByLoss == Spec => []DeafOnlyAfterLoss
<1> DEFINE Inv == TypeOK /\ \A p \in Pods : DeafInv(p)
<1>1. Init => Inv BY InitType DEF Init, DeafInv
<1>2. Inv /\ [Next]_vars => Inv'
  <2> SUFFICES ASSUME Inv, [Next]_vars PROVE Inv' OBVIOUS
  <2>1. TypeOK' BY TypeInductive
  <2>2. ASSUME NEW q \in Pods PROVE DeafInv(q)'
    <3>1. CASE Tick BY <3>1 DEF Tick, DeafInv, podVars
    <3>2. CASE \E p \in Pods : PodStep(p)
      <4>1. PICK p \in Pods : PodStep(p) BY <3>2
      <4>2. CASE p = q BY <4>1, <4>2, DeafStep
      <4>3. CASE p # q BY <4>1, <4>3, Frame DEF DeafInv
      <4>4. QED BY <4>2, <4>3
    <3>3. CASE UNCHANGED vars BY <3>3 DEF vars, podVars, ghosts, DeafInv
    <3>4. QED BY <3>1, <3>2, <3>3 DEF Next
  <2>3. QED BY <2>1, <2>2
<1>3. Inv => DeafOnlyAfterLoss BY DEF DeafInv, DeafOnlyAfterLoss
<1>4. QED BY <1>1, <1>2, <1>3, PTL DEF Spec

-----------------------------------------------------------------------------
(* One leader: the Lease outlives the renewals of a term.                  *)

\* Roomy for durations that do not change.
HoldsLease(p) == loop[p] = "lead" /\ ~ctxDone[p] => holder = p /\ lease > due[p]

\* A pod that Kubernetes offers its election to never has a term in Redis.
RedisOnly(p) == loop[p] \in {"redis", "redisTerm"} => ~Offered(env[p])

LEMMA RoomStep ==
  ASSUME TypeOK, Roomy, NEW p \in Pods, HoldsLease(p), RedisOnly(p), PodStep(p)
  PROVE  HoldsLease(p)' /\ RedisOnly(p)'
<1>0. /\ settings.lease \in Nat \ {0} /\ settings.renew \in Nat /\ settings.retry \in Nat
      /\ Delay \in Nat /\ settings.lease > settings.retry + settings.renew + Delay
  BY DurationsType, K8sAssumption DEF TypeOK, Durations, Roomy
<1> USE <1>0 DEF TypeOK, HoldsLease, RedisOnly, Goto, Settled, config, podVars, timers,
        leaseVars, ghosts
<1>1. CASE Elect(p) BY <1>1 DEF Elect
<1>2. CASE Acquire(p)
  <2>1. PICK d \in 0 .. Delay : due' = [due EXCEPT ![p] = settings.renew + d]
    BY <1>2 DEF Acquire
  <2>2. settings.lease > settings.renew + d OBVIOUS
  <2>3. QED BY <1>2, <2>1, <2>2 DEF Acquire
<1>3. CASE Cancel(p) BY <1>3 DEF Cancel
<1>4. CASE Renew(p)
  <2>1. PICK d \in 0 .. Delay : due' = [due EXCEPT ![p] = settings.retry + settings.renew + d]
    BY <1>4 DEF Renew
  <2>2. settings.lease > settings.retry + settings.renew + d OBVIOUS
  <2>3. QED BY <1>4, <2>1, <2>2 DEF Renew
<1>5. CASE Lose(p) BY <1>5 DEF Lose
<1>6. CASE Leave(p) BY <1>6 DEF Leave
<1>7. CASE Release(p) BY <1>7 DEF Release, AfterRun
<1>8. CASE SchedStart(p) BY <1>8 DEF SchedStart
<1>9. CASE SchedStop(p) BY <1>9 DEF SchedStop
<1>10. CASE BeginRedisTerm(p) BY <1>10 DEF BeginRedisTerm
<1>11. CASE EndRedisTerm(p) BY <1>11 DEF EndRedisTerm
<1>12. CASE Signal(p) BY <1>12 DEF Signal
<1>13. CASE StopServing(p) BY <1>13 DEF StopServing
<1>14. CASE Exit(p) BY <1>14 DEF Exit, Gone
<1>15. CASE Crash(p) BY <1>15 DEF Crash, Gone
<1>16. CASE Restart(p) BY <1>16 DEF Restart
<1>17. QED
  BY <1>1, <1>2, <1>3, <1>4, <1>5, <1>6, <1>7, <1>8, <1>9, <1>10, <1>11, <1>12, <1>13,
     <1>14, <1>15, <1>16 DEF PodStep, ElectorStep, SchedulerStep, RedisStep, ProcessStep

RoomInv == TypeOK /\ \A p \in Pods : RedisOnly(p) /\ (Roomy => HoldsLease(p))

LEMMA RedisOnlyStep ==
  ASSUME TypeOK, NEW p \in Pods, RedisOnly(p), PodStep(p)
  PROVE  RedisOnly(p)'
  BY DEF TypeOK, RedisOnly, Goto, Settled, config, podVars, timers, leaseVars, ghosts, PodStep,
         ElectorStep, SchedulerStep, RedisStep, ProcessStep, Elect, Acquire, Cancel, Renew,
         Lose, Leave, Release, AfterRun, SchedStart, SchedStop, BeginRedisTerm, EndRedisTerm,
         Signal, StopServing, Exit, Crash, Gone, Restart

LEMMA RoomTick ==
  ASSUME TypeOK, NEW p \in Pods, HoldsLease(p), Tick
  PROVE  HoldsLease(p)'
<1>1. due[p] \in Nat /\ lease \in Nat /\ due'[p] = Positive(due[p] - 1)
  BY BoundType, DurationsType DEF TypeOK, Tick, Durations
<1>2. ASSUME loop[p] = "lead", ~ctxDone[p] PROVE holder' = p /\ lease' > due'[p]
  <2>1. due[p] > 0 /\ lease > due[p] /\ holder = p
    BY <1>2 DEF Tick, OnTime, HoldsLease
  <2>2. lease' = lease - 1 /\ due'[p] = due[p] - 1
    BY <1>1, <2>1 DEF Tick, Positive
  <2>3. QED BY <1>1, <2>1, <2>2 DEF Tick
<1>3. QED BY <1>2 DEF HoldsLease, Tick, podVars

LEMMA RoomInductive == RoomInv /\ [Next]_vars => RoomInv'
<1> SUFFICES ASSUME RoomInv, [Next]_vars PROVE RoomInv' OBVIOUS
<1>1. TypeOK /\ TypeOK' BY TypeInductive DEF RoomInv
<1>2. UNCHANGED config /\ Roomy' = Roomy BY ConfigConstant DEF config, Roomy
<1>3. ASSUME NEW q \in Pods PROVE RedisOnly(q)' /\ (Roomy => HoldsLease(q)')
  <2>0. RedisOnly(q) /\ (Roomy => HoldsLease(q)) BY DEF RoomInv
  <2>1. CASE Tick
    BY <1>1, <2>0, <2>1, RoomTick DEF Tick, RedisOnly, podVars, config
  <2>2. CASE \E p \in Pods : PodStep(p)
    <3>1. PICK p \in Pods : PodStep(p) BY <2>2
    <3>2. CASE p = q BY <1>1, <2>0, <3>1, <3>2, RoomStep, RedisOnlyStep
    <3>3. CASE p # q
      <4>1. /\ loop'[q] = loop[q] /\ ctxDone'[q] = ctxDone[q] /\ due'[q] = due[q]
            /\ \/ holder' = holder /\ lease' = lease
               \/ (holder # q \/ lease = 0) /\ holder' # q
        BY <1>1, <3>1, <3>3, Frame
      <4>2. due[q] \in Nat BY <1>1, BoundType, DurationsType DEF TypeOK
      <4>3. QED BY <1>2, <2>0, <4>1, <4>2 DEF HoldsLease, RedisOnly, config
    <3>4. QED BY <3>2, <3>3
  <2>3. CASE UNCHANGED vars
    BY <2>0, <2>3 DEF vars, config, podVars, timers, leaseVars, RedisOnly, HoldsLease
  <2>4. QED BY <2>1, <2>2, <2>3 DEF Next
<1>4. QED BY <1>1, <1>2, <1>3 DEF RoomInv

\* The pods that lead by what Kubernetes offers them.
Leaders == {p \in Pods : Leads(p) /\ Offered(env[p])}

LEMMA LeaderIsHolder ==
  ASSUME RoomInv, Roomy, NEW p \in Leaders
  PROVE  holder = p
  BY DEF RoomInv, Leaders, Leads, RedisOnly, HoldsLease

\* A step makes at most one pod lead, or stop leading.
LEMMA LeadersStep ==
  ASSUME RoomInv, Roomy, RoomInv', Roomy', [Next]_vars, Leaders' # Leaders
  PROVE  \E p \in Pods : \/ Leaders = {} /\ Leaders' = {p}
                         \/ Leaders = {p} /\ Leaders' = {}
<1>0. UNCHANGED env BY ConfigConstant DEF config
<1>1. CASE Tick
  BY <1>0, <1>1 DEF Tick, podVars, Leaders, Leads, Live
<1>2. CASE UNCHANGED vars
  BY <1>0, <1>2 DEF vars, podVars, Leaders, Leads, Live
<1>3. ASSUME NEW p \in Pods, PodStep(p)
      PROVE  \/ Leaders = {} /\ Leaders' = {p}
             \/ Leaders = {p} /\ Leaders' = {}
  <2>1. \A q \in Pods : q # p => (q \in Leaders <=> q \in Leaders')
    BY <1>0, <1>3, Frame DEF RoomInv, Leaders, Leads, Live
  <2>2. \A q, r \in Leaders : q = r BY LeaderIsHolder
  <2>3. \A q, r \in Leaders' : q = r
    <3>1. \A q \in Leaders' : holder' = q
      BY DEF RoomInv, Leaders, Leads, RedisOnly, HoldsLease
    <3>2. QED BY <3>1
  <2>4. Leaders \subseteq Pods /\ Leaders' \subseteq Pods BY DEF Leaders
  <2>5. CASE p \in Leaders BY <2>1, <2>2, <2>3, <2>4, <2>5
  <2>6. CASE p \notin Leaders BY <2>1, <2>2, <2>3, <2>4, <2>6
  <2>7. QED BY <2>5, <2>6
<1>4. QED BY <1>1, <1>2, <1>3 DEF Next

\* Over Kubernetes' Lease the election implements the abstract one, if the durations leave
\* room: the promise that SingleScheduler makes to the rest of the system.
THEOREM ImplementsSingleScheduler == Spec => LeaseSpec
<1> DEFINE active == IF Roomy THEN {p \in Pods : Leads(p) /\ Offered(env[p])} ELSE {}
<1>1. Init => RoomInv
  BY InitType DEF Init, RoomInv, RedisOnly, HoldsLease
<1>2. Init => Single!Init
  BY DEF Init, Single!Init, Leads
<1>3. RoomInv /\ RoomInv' /\ [Next]_vars => [Single!Next]_active
  <2> SUFFICES ASSUME RoomInv, RoomInv', [Next]_vars, active' # active
               PROVE  Single!Next
    OBVIOUS
  <2>1. Roomy' = Roomy BY ConfigConstant DEF config, Roomy
  <2>2. Roomy BY <2>1
  <2>3. active = Leaders /\ active' = Leaders' BY <2>1, <2>2 DEF Leaders
  <2>4. PICK p \in Pods : \/ Leaders = {} /\ Leaders' = {p}
                          \/ Leaders = {p} /\ Leaders' = {}
    BY <2>1, <2>2, <2>3, LeadersStep
  <2>5. Single!BeginTerm(p) \/ Single!EndTerm(p)
    BY <2>3, <2>4 DEF Single!BeginTerm, Single!EndTerm
  <2>6. QED BY <2>5 DEF Single!Next
<1>4. QED BY <1>1, <1>2, <1>3, RoomInductive, PTL DEF Spec, LeaseSpec, Single!Spec

\* The durations that the code chooses itself leave a ninth of the lease as room
\* (scheduler.go:132-139).
THEOREM DefaultsLeaveRoom ==
  ASSUME NEW c \in Configured, c.renew <= 0, c.retry <= 0, LeaseDuration(c) >= 5,
         settings = Normalised(c), 9 * Delay < settings.lease
  PROVE  Accepted(settings) /\ Roomy
<1> DEFINE L == LeaseDuration(c)
           R == (2 * L) \div 3
           t == R \div 3
<1>1. L \in Nat /\ L >= 5 BY LeaseType
<1>2. R \in Nat /\ 3 * R <= 2 * L /\ 2 * L < 3 * R + 3
  <2> HIDE DEF L
  <2> QED BY <1>1, Thirds
<1>3. RenewDeadline(c) = R
  <2>1. c.renew \in Int BY DEF Configured
  <2> HIDE DEF L, R
  <2>2. RenewDeadline(c) = IF c.renew >= L THEN R ELSE IF c.renew <= 0 THEN R ELSE c.renew
    BY DEF RenewDeadline, OrElse, L, R
  <2>3. QED BY <1>1, <2>1, <2>2
<1> HIDE DEF L, R
<1>4. R >= 3 BY <1>1, <1>2
<1>5. t \in Nat /\ 3 * t <= R /\ R < 3 * t + 3 BY <1>2, Thirds
<1>6. RetryPeriod(c) = t
  <2>1. RetryPeriod(c) = IF (IF c.retry >= R THEN t ELSE IF c.retry <= 0 THEN t ELSE c.retry) <= 0
                         THEN DefaultRetry
                         ELSE IF c.retry >= R THEN t ELSE IF c.retry <= 0 THEN t ELSE c.retry
    BY <1>3 DEF RetryPeriod, OrElse
  <2>2. c.retry \in Int BY DEF Configured
  <2> HIDE DEF t
  <2>3. t >= 1 BY <1>2, <1>4, <1>5
  <2>4. QED BY <1>2, <1>5, <2>1, <2>2, <2>3
<1> HIDE DEF t
<1>7. settings.lease = L /\ settings.renew = R /\ settings.retry = t
  BY <1>3, <1>6 DEF Normalised, L
<1>8. Roomy
  <2>1. Delay \in Nat /\ 9 * Delay < L BY <1>7, K8sAssumption
  <2>2. L > t + R + Delay BY <1>1, <1>2, <1>5, <2>1
  <2>3. QED BY <1>7, <2>2 DEF Roomy
<1>9. Accepted(settings)
  BY <1>3, <1>4, DefaultRetryAccepted
<1>10. QED BY <1>8, <1>9

-----------------------------------------------------------------------------
(* Schedulers astray.                                                      *)

\* What a scheduler may be astray before it is told.
Overrun == Positive(settings.retry + 2 * settings.renew + Delay - settings.lease)

\* What is left of the Lease for p.
LeaseLeft(p) == IF holder = p THEN lease ELSE 0

\* In each phase of a term, the time astray and the time the phase may still take.
StrayInv(p) ==
    /\ RedisOnly(p)
    /\ (Live(p) /\ Offered(env[p])) \/ stray[p] = 0
    /\ Mine(p) => stray[p] = 0
    /\ Live(p) /\ ~ctxDone[p] =>
          /\ loop[p] = "lead" => stray[p] + due[p] + settings.renew <= Overrun + LeaseLeft(p)
          /\ loop[p] = "release" => stray[p] + due[p] <= Overrun + LeaseLeft(p)
    /\ Live(p) /\ Told(p) => stray[p] + stopIn[p] <= Overrun + StopTime
    /\ loop[p] = "failed" => ~Live(p)

LEMMA StrayPodStep ==
  ASSUME TypeOK, NEW p \in Pods, StrayInv(p), PodStep(p), TypeOK'
  PROVE  StrayInv(p)'
<1>0. /\ settings.lease \in Nat \ {0} /\ settings.renew \in Nat /\ settings.retry \in Nat
      /\ Delay \in Nat /\ StopTime \in Nat
      /\ Overrun \in Nat
      /\ settings.retry + 2 * settings.renew + Delay <= Overrun + settings.lease
  BY DurationsType, K8sAssumption DEF TypeOK, Durations, Overrun, Positive
<1>c. settings' = settings /\ env' = env /\ Overrun' = Overrun
  BY ConfigConstant DEF Next, config, Overrun
<1>t. /\ due[p] \in Nat /\ stray[p] \in Nat /\ stopIn[p] \in 0 .. StopTime /\ lease \in Nat
      /\ holder \in Pods \cup {NoPod} /\ NoPod \notin Pods
  BY BoundType, DurationsType, K8sAssumption DEF TypeOK, Durations
<1> USE <1>0, <1>c, <1>t DEF TypeOK, StrayInv, RedisOnly, Live, Told, Mine, LeaseLeft, Goto,
        Settled, config, podVars, timers, leaseVars, ghosts
<1> HIDE DEF Overrun
<1>1. CASE Elect(p) BY <1>1 DEF Elect
<1>2. CASE Acquire(p)
  <2>1. PICK d \in 0 .. Delay : due' = [due EXCEPT ![p] = settings.renew + d]
    BY <1>2 DEF Acquire
  <2>2. settings.renew + d + settings.renew <= Overrun + settings.lease OBVIOUS
  <2>3. sched[p] = "off" /\ stray[p] = 0 BY <1>2 DEF Acquire
  <2>4. QED BY <1>2, <2>1, <2>2, <2>3 DEF Acquire
<1>3. CASE Cancel(p) BY <1>3 DEF Cancel
<1>4. CASE Renew(p)
  <2>1. PICK d \in 0 .. Delay : due' = [due EXCEPT ![p] = settings.retry + settings.renew + d]
    BY <1>4 DEF Renew
  <2>2. settings.retry + settings.renew + d + settings.renew <= Overrun + settings.lease
    OBVIOUS
  <2>3. QED BY <1>4, <2>1, <2>2 DEF Renew
<1>5. CASE Lose(p) BY <1>5 DEF Lose
<1>6. CASE Leave(p) BY <1>6 DEF Leave
<1>7. CASE Release(p) BY <1>7 DEF Release, AfterRun
<1>8. CASE SchedStart(p) BY <1>8 DEF SchedStart
<1>9. CASE SchedStop(p) BY <1>9 DEF SchedStop
<1>10. CASE BeginRedisTerm(p) BY <1>10 DEF BeginRedisTerm
<1>11. CASE EndRedisTerm(p) BY <1>11 DEF EndRedisTerm
<1>12. CASE Signal(p) BY <1>12 DEF Signal
<1>13. CASE StopServing(p) BY <1>13 DEF StopServing
<1>14. CASE Exit(p) BY <1>14 DEF Exit, Gone
<1>15. CASE Crash(p) BY <1>15 DEF Crash, Gone
<1>16. CASE Restart(p) BY <1>16 DEF Restart, Alive
<1>17. QED
  BY <1>1, <1>2, <1>3, <1>4, <1>5, <1>6, <1>7, <1>8, <1>9, <1>10, <1>11, <1>12, <1>13,
     <1>14, <1>15, <1>16 DEF PodStep, ElectorStep, SchedulerStep, RedisStep, ProcessStep

\* While the timer of a phase runs, either the Lease does too or the scheduler is astray.
LEMMA StrayTick ==
  ASSUME TypeOK, NEW p \in Pods, StrayInv(p), Tick
  PROVE  StrayInv(p)'
<1>0. Overrun \in Nat /\ settings.renew \in Nat /\ StopTime \in Nat
  BY DurationsType, K8sAssumption DEF TypeOK, Durations, Overrun, Positive
<1>c. settings' = settings /\ env' = env /\ Overrun' = Overrun /\ UNCHANGED podVars
      /\ holder' = holder
  BY DEF Tick, config, Overrun
<1>t. due[p] \in Nat /\ stray[p] \in Nat /\ stopIn[p] \in Nat /\ lease \in Nat
  BY BoundType, DurationsType, K8sAssumption DEF TypeOK, Durations
<1>1. /\ due'[p] = Positive(due[p] - 1) /\ stopIn'[p] = Positive(stopIn[p] - 1)
      /\ lease' = Positive(lease - 1)
      /\ stray'[p] = IF Astray(p) /\ stray[p] <= StrayBound THEN stray[p] + 1 ELSE stray[p]
      /\ OnTime(p)
  BY DEF Tick
<1>2. stray'[p] \in {stray[p], stray[p] + 1} /\ (~Astray(p) => stray'[p] = stray[p])
  BY <1>1
<1> HIDE DEF Overrun
<1>3. RedisOnly(p)' BY <1>c DEF StrayInv, RedisOnly, podVars
<1>4. ((Live(p) /\ Offered(env[p])) \/ stray[p] = 0)'
  BY <1>c, <1>2 DEF StrayInv, podVars, Live, Astray
<1>5. (Mine(p) => stray[p] = 0)'
  <2>1. Mine(p)' => Mine(p) BY <1>c, <1>t, <1>1 DEF Mine, Positive
  <2>2. QED BY <1>2, <2>1 DEF StrayInv, Astray
<1>6. stray'[p] <= stray[p] + LeaseLeft(p)' - LeaseLeft(p) + 1
  <2>1. CASE Mine(p)
    <3>1. stray'[p] = stray[p] BY <1>2, <2>1 DEF Astray
    <3>2. LeaseLeft(p) = lease /\ LeaseLeft(p)' = lease - 1
      BY <1>c, <1>t, <1>1, <2>1 DEF LeaseLeft, Mine, Positive
    <3>3. QED BY <1>t, <3>1, <3>2
  <2>2. CASE ~Mine(p)
    <3>1. LeaseLeft(p) = 0 /\ LeaseLeft(p)' = 0
      BY <1>c, <1>t, <1>1, <2>2 DEF LeaseLeft, Mine, Positive
    <3>2. QED BY <1>t, <1>2, <3>1
  <2>3. QED BY <2>1, <2>2
<1>7. LeaseLeft(p) \in Nat /\ LeaseLeft(p)' \in Nat /\ stray'[p] \in Nat
  BY <1>t, <1>1, <1>2 DEF LeaseLeft, Positive
<1>8. ASSUME Live(p), ~ctxDone[p], loop[p] = "lead"
      PROVE  stray'[p] + due'[p] + settings.renew <= Overrun + LeaseLeft(p)'
  <2>1. due[p] > 0 BY <1>1, <1>8 DEF OnTime
  <2>2. due'[p] = due[p] - 1 BY <1>t, <1>1, <2>1 DEF Positive
  <2>3. stray[p] + due[p] + settings.renew <= Overrun + LeaseLeft(p) BY <1>8 DEF StrayInv
  <2>4. QED BY <1>0, <1>t, <1>6, <1>7, <2>2, <2>3
<1>9. ASSUME Live(p), ~ctxDone[p], loop[p] = "release"
      PROVE  stray'[p] + due'[p] <= Overrun + LeaseLeft(p)'
  <2>1. due[p] > 0 BY <1>1, <1>9 DEF OnTime
  <2>2. due'[p] = due[p] - 1 BY <1>t, <1>1, <2>1 DEF Positive
  <2>3. stray[p] + due[p] <= Overrun + LeaseLeft(p) BY <1>9 DEF StrayInv
  <2>4. QED BY <1>0, <1>t, <1>6, <1>7, <2>2, <2>3
<1>10. ASSUME Live(p), Told(p) PROVE stray'[p] + stopIn'[p] <= Overrun + StopTime
  <2>1. stopIn[p] > 0 BY <1>1, <1>10 DEF OnTime
  <2>2. stopIn'[p] = stopIn[p] - 1 BY <1>t, <1>1, <2>1 DEF Positive
  <2>3. stray[p] + stopIn[p] <= Overrun + StopTime BY <1>10 DEF StrayInv
  <2>4. QED BY <1>0, <1>t, <1>2, <2>2, <2>3
<1>11. /\ Live(p)' = Live(p) /\ Told(p)' = Told(p) /\ ctxDone' = ctxDone /\ loop' = loop
  BY <1>c DEF podVars, Live, Told
<1>12. (loop[p] = "failed" => ~Live(p))' BY <1>11 DEF StrayInv
<1>13. QED BY <1>c, <1>3, <1>4, <1>5, <1>8, <1>9, <1>10, <1>11, <1>12 DEF StrayInv

LEMMA StrayInductive ==
  TypeOK /\ (\A p \in Pods : StrayInv(p)) /\ [Next]_vars => \A p \in Pods : StrayInv(p)'
<1> SUFFICES ASSUME TypeOK, \A p \in Pods : StrayInv(p), [Next]_vars, NEW q \in Pods
             PROVE  StrayInv(q)'
  OBVIOUS
<1>1. TypeOK' BY TypeInductive
<1>2. CASE Tick BY <1>2, StrayTick
<1>3. CASE \E p \in Pods : PodStep(p)
  <2>1. PICK p \in Pods : PodStep(p) BY <1>3
  <2>2. CASE p = q BY <1>1, <2>1, <2>2, StrayPodStep
  <2>3. CASE p # q
    <3>1. /\ ctxDone'[q] = ctxDone[q] /\ loop'[q] = loop[q] /\ sched'[q] = sched[q]
          /\ due'[q] = due[q] /\ stopIn'[q] = stopIn[q] /\ stray'[q] = stray[q]
          /\ \/ holder' = holder /\ lease' = lease
             \/ (holder # q \/ lease = 0) /\ holder' # q
      BY <2>1, <2>3, Frame
    <3>2. settings' = settings /\ env' = env /\ Overrun' = Overrun
      BY ConfigConstant DEF config, Overrun
    <3>3. LeaseLeft(q)' = LeaseLeft(q) BY <3>1 DEF LeaseLeft
    <3>4. Mine(q)' => Mine(q) BY <3>1 DEF Mine
    <3>5. Live(q)' = Live(q) /\ Told(q)' = Told(q) BY <3>1 DEF Live, Told
    <3>6. StrayInv(q) OBVIOUS
    <3> HIDE DEF Overrun
    <3>7. QED BY <3>1, <3>2, <3>3, <3>4, <3>5, <3>6 DEF StrayInv, RedisOnly
  <2>4. QED BY <2>2, <2>3
<1>4. CASE UNCHANGED vars
  BY <1>4 DEF vars, config, podVars, timers, leaseVars, ghosts, StrayInv, RedisOnly, Live, Told,
              Mine, LeaseLeft, Overrun
<1>5. QED BY <1>2, <1>3, <1>4 DEF Next

LEMMA StrayInit == Init => \A p \in Pods : StrayInv(p)
  BY DEF Init, StrayInv, RedisOnly, Live, Told, Mine

LEMMA StrayInvBounds ==
  ASSUME TypeOK, \A p \in Pods : StrayInv(p)
  PROVE  StrayBounded
<1> SUFFICES ASSUME NEW p \in Pods PROVE stray[p] <= StrayBound BY DEF StrayBounded
<1>1. Overrun \in Nat /\ settings.renew \in Nat /\ StopTime \in Nat
  BY DurationsType, K8sAssumption DEF TypeOK, Durations, Overrun, Positive
<1>2. due[p] \in Nat /\ stray[p] \in Nat /\ stopIn[p] \in Nat /\ lease \in Nat
  BY BoundType, DurationsType, K8sAssumption DEF TypeOK, Durations
<1>3. StrayBound = Overrun + StopTime BY DEF StrayBound, Overrun
<1>4. StrayInv(p) OBVIOUS
<1> HIDE DEF Overrun
<1>5. CASE stray[p] = 0 BY <1>1, <1>3, <1>5
<1>6. CASE stray[p] # 0
  <2>1. Live(p) /\ Offered(env[p]) /\ ~Mine(p) BY <1>4, <1>6 DEF StrayInv
  <2>2. LeaseLeft(p) = 0 BY <1>2, <2>1 DEF LeaseLeft, Mine
  <2>3. CASE Told(p) BY <1>1, <1>2, <1>3, <1>4, <2>1, <2>3 DEF StrayInv
  <2>4. CASE ~Told(p)
    <3>1. ~ctxDone[p] /\ loop[p] \in {"lead", "release"}
      BY <1>4, <2>1, <2>4 DEF Told, StrayInv, RedisOnly
    <3>2. stray[p] <= Overrun BY <1>1, <1>2, <1>4, <2>1, <2>2, <3>1 DEF StrayInv
    <3>3. QED BY <1>1, <1>2, <1>3, <3>2
  <2>5. QED BY <2>3, <2>4
<1>7. QED BY <1>5, <1>6

\* However the durations are configured, a scheduler without its Lease is gone after the
\* time StrayBound computes from them.
THEOREM StrayIsBounded == Spec => []StrayBounded
<1> DEFINE Inv == TypeOK /\ \A p \in Pods : StrayInv(p)
<1>1. Init => Inv BY InitType, StrayInit
<1>2. Inv /\ [Next]_vars => Inv'
  <2> SUFFICES ASSUME Inv, [Next]_vars PROVE Inv' OBVIOUS
  <2>1. TypeOK' BY TypeInductive
  <2>2. \A p \in Pods : StrayInv(p)' BY StrayInductive
  <2>3. QED BY <2>1, <2>2
<1>3. Inv => StrayBounded BY StrayInvBounds
<1> HIDE DEF Inv
<1>4. QED BY <1>1, <1>2, <1>3, PTL DEF Spec
=============================================================================
