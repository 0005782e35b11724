------------------------ MODULE RedisElectionProofs ------------------------
(***************************************************************************)
(* Theorems about RedisElection for every set of pods and every durations  *)
(* that satisfy its assumptions.                                           *)
(***************************************************************************)
EXTENDS RedisElection, TLAPS

USE TimingAssumption, PodsAssumption, LeaseAssumption

-----------------------------------------------------------------------------
(* Type correctness, of all behaviours.                                    *)

LEMMA InitType == Init => TypeOK
  BY DEF Init, TypeOK, ProcStates, LoopStates, SchedStates

\* Every step of a pod keeps the type invariant.
LEMMA PodStepType ==
  ASSUME TypeOK, NEW p \in Pods, PodStep(p)
  PROVE  TypeOK'
<1> USE DEF TypeOK, ProcStates, LoopStates, SchedStates, Goto, Wait, Backoff, Fault,
            podVars, timers, lockVars
<1>1. CASE Obtained(p) BY <1>1 DEF Obtained
<1>2. CASE Standby(p) BY <1>2 DEF Standby
<1>3. CASE ObtainFails(p) BY <1>3 DEF ObtainFails
<1>4. CASE ObtainCancelled(p) BY <1>4 DEF ObtainCancelled
<1>5. CASE ObtainTimesOut(p) BY <1>5 DEF ObtainTimesOut
<1>6. CASE BecomeLeader(p) BY <1>6 DEF BecomeLeader
<1>7. CASE SchedStart(p) BY <1>7 DEF SchedStart
<1>8. CASE SchedStop(p) BY <1>8 DEF SchedStop
<1>9. CASE ZombieEnd(p) BY <1>9 DEF ZombieEnd
<1>10. CASE RefreshOk(p) BY <1>10 DEF RefreshOk, Refreshing
<1>11. CASE RefreshLost(p) BY <1>11 DEF RefreshLost, Refreshing
<1>12. CASE RefreshError(p) BY <1>12 DEF RefreshError, Refreshing
<1>13. CASE LeaveLead(p) BY <1>13 DEF LeaveLead
<1>14. CASE LeadSchedulerEnded(p) BY <1>14 DEF LeadSchedulerEnded
<1>15. CASE DrainDone(p) BY <1>15 DEF DrainDone
<1>16. CASE DrainGivesUp(p) BY <1>16 DEF DrainGivesUp, Live
<1>17. CASE Release(p) BY <1>17 DEF Release, AfterRelease
<1>18. CASE ReleaseFails(p) BY <1>18 DEF ReleaseFails, AfterRelease
<1>19. CASE Retry(p) BY <1>19 DEF Retry
<1>20. CASE BackoffCancelled(p) BY <1>20 DEF BackoffCancelled
<1>21. CASE Signal(p) BY <1>21 DEF Signal
<1>22. CASE StopServing(p) BY <1>22 DEF StopServing, Alive
<1>23. CASE Exit(p) BY <1>23 DEF Exit, Gone, Alive
<1>24. CASE Crash(p) BY <1>24 DEF Crash, Gone, Alive
<1>25. CASE Restart(p) BY <1>25 DEF Restart, Alive
<1>26. QED
  BY <1>1, <1>2, <1>3, <1>4, <1>5, <1>6, <1>7, <1>8, <1>9, <1>10, <1>11, <1>12, <1>13,
     <1>14, <1>15, <1>16, <1>17, <1>18, <1>19, <1>20, <1>21, <1>22, <1>23, <1>24, <1>25
     DEF PodStep, TermStep, SchedulerStep, ProcessStep, FaultStep

LEMMA TickType == TypeOK /\ Tick => TypeOK'
  BY DEF TypeOK, Tick, Dec, podVars

\* Every behaviour, however late its goroutines, is type correct.
THEOREM TypeCorrect == Spec => []TypeOK
<1>1. TypeOK /\ [Next]_vars => TypeOK'
  <2>1. TypeOK /\ UNCHANGED vars => TypeOK'
    BY DEF TypeOK, vars, podVars, timers, lockVars
  <2>2. QED BY <2>1, PodStepType, TickType DEF Next
<1>2. QED BY <1>1, InitType, PTL DEF Spec

-----------------------------------------------------------------------------
(* A token in the lock is always in the care of the loop it belongs to.    *)

\* Every behaviour: no path through the election loop leaves its token behind.
THEOREM OwnedLockManaged == Spec => []OwnedLockIsManaged
<1> DEFINE Managed == TypeOK /\ OwnedLockIsManaged
<1>1. Init => Managed
  BY InitType DEF Init, OwnedLockIsManaged
<1>2. ASSUME Managed, NEW p \in Pods, PodStep(p)
      PROVE  OwnedLockIsManaged'
  <2> USE <1>2 DEF TypeOK, OwnedLockIsManaged, Goto, Backoff, podVars, timers, lockVars
  <2>1. CASE Obtained(p) BY <2>1 DEF Obtained
  <2>2. CASE Standby(p) BY <2>2 DEF Standby
  <2>3. CASE ObtainFails(p) BY <2>3 DEF ObtainFails
  <2>4. CASE ObtainCancelled(p) BY <2>4 DEF ObtainCancelled
  <2>5. CASE ObtainTimesOut(p) BY <2>5 DEF ObtainTimesOut
  <2>6. CASE BecomeLeader(p) BY <2>6 DEF BecomeLeader
  <2>7. CASE SchedStart(p) BY <2>7 DEF SchedStart
  <2>8. CASE SchedStop(p) BY <2>8 DEF SchedStop
  <2>9. CASE ZombieEnd(p) BY <2>9 DEF ZombieEnd
  <2>10. CASE RefreshOk(p) BY <2>10 DEF RefreshOk, Refreshing
  <2>11. CASE RefreshLost(p) BY <2>11 DEF RefreshLost, Refreshing
  <2>12. CASE RefreshError(p) BY <2>12 DEF RefreshError, Refreshing
  <2>13. CASE LeaveLead(p) BY <2>13 DEF LeaveLead
  <2>14. CASE LeadSchedulerEnded(p) BY <2>14 DEF LeadSchedulerEnded
  <2>15. CASE DrainDone(p) BY <2>15 DEF DrainDone
  <2>16. CASE DrainGivesUp(p) BY <2>16 DEF DrainGivesUp
  <2>17. CASE Release(p) BY <2>17 DEF Release, AfterRelease
  <2>18. CASE ReleaseFails(p) BY <2>18 DEF ReleaseFails, AfterRelease
  <2>19. CASE Retry(p) BY <2>19 DEF Retry
  <2>20. CASE BackoffCancelled(p) BY <2>20 DEF BackoffCancelled
  <2>21. CASE Signal(p) BY <2>21 DEF Signal
  <2>22. CASE StopServing(p) BY <2>22 DEF StopServing, Alive
  <2>23. CASE Exit(p) BY <2>23 DEF Exit, Gone, Alive
  <2>24. CASE Crash(p) BY <2>24 DEF Crash, Gone, Alive
  <2>25. CASE Restart(p) BY <2>25 DEF Restart, Alive, ProcStates
  <2>26. QED
    BY <2>1, <2>2, <2>3, <2>4, <2>5, <2>6, <2>7, <2>8, <2>9, <2>10, <2>11, <2>12, <2>13,
       <2>14, <2>15, <2>16, <2>17, <2>18, <2>19, <2>20, <2>21, <2>22, <2>23, <2>24, <2>25
       DEF PodStep, TermStep, SchedulerStep, ProcessStep, FaultStep
<1>3. Managed /\ Tick => OwnedLockIsManaged'
  BY DEF TypeOK, OwnedLockIsManaged, Tick, podVars
<1>4. Managed /\ [Next]_vars => Managed'
  <2>1. Managed /\ UNCHANGED vars => Managed'
    BY DEF TypeOK, OwnedLockIsManaged, vars, podVars, timers, lockVars
  <2>2. QED BY <1>2, <1>3, <2>1, PodStepType, TickType DEF Next
<1>5. QED BY <1>1, <1>4, PTL DEF Spec

-----------------------------------------------------------------------------
(* The timely behaviours: TimelyInv is inductive.                          *)

\* A step of p changes nothing of q, nor a lock that q holds.
LEMMA OthersUntouched ==
  ASSUME TypeOK, NEW p \in Pods, PodStep(p), NEW q \in Pods, q # p
  PROVE  /\ ctxDone'[q] = ctxDone[q] /\ loop'[q] = loop[q] /\ sched'[q] = sched[q]
         /\ ticker'[q] = ticker[q] /\ zombie'[q] = zombie[q] /\ due'[q] = due[q]
         /\ refreshIn'[q] = refreshIn[q] /\ stopIn'[q] = stopIn[q]
         /\ lock = q => lock' = q /\ lease' = lease
<1> USE DEF TypeOK, Goto, Wait, Backoff, podVars, timers, lockVars
<1>1. CASE Obtained(p) BY <1>1 DEF Obtained
<1>2. CASE Standby(p) BY <1>2 DEF Standby
<1>3. CASE ObtainFails(p) BY <1>3 DEF ObtainFails
<1>4. CASE ObtainCancelled(p) BY <1>4 DEF ObtainCancelled
<1>5. CASE ObtainTimesOut(p) BY <1>5 DEF ObtainTimesOut
<1>6. CASE BecomeLeader(p) BY <1>6 DEF BecomeLeader
<1>7. CASE SchedStart(p) BY <1>7 DEF SchedStart
<1>8. CASE SchedStop(p) BY <1>8 DEF SchedStop
<1>9. CASE ZombieEnd(p) BY <1>9 DEF ZombieEnd
<1>10. CASE RefreshOk(p) BY <1>10 DEF RefreshOk, Refreshing
<1>11. CASE RefreshLost(p) BY <1>11 DEF RefreshLost, Refreshing
<1>12. CASE RefreshError(p) BY <1>12 DEF RefreshError, Refreshing
<1>13. CASE LeaveLead(p) BY <1>13 DEF LeaveLead
<1>14. CASE LeadSchedulerEnded(p) BY <1>14 DEF LeadSchedulerEnded
<1>15. CASE DrainDone(p) BY <1>15 DEF DrainDone
<1>16. CASE DrainGivesUp(p) BY <1>16 DEF DrainGivesUp
<1>17. CASE Release(p) BY <1>17 DEF Release, AfterRelease
<1>18. CASE ReleaseFails(p) BY <1>18 DEF ReleaseFails, AfterRelease
<1>19. CASE Retry(p) BY <1>19 DEF Retry
<1>20. CASE BackoffCancelled(p) BY <1>20 DEF BackoffCancelled
<1>21. CASE Signal(p) BY <1>21 DEF Signal
<1>22. CASE StopServing(p) BY <1>22 DEF StopServing, Alive
<1>23. CASE Exit(p) BY <1>23 DEF Exit, Gone, Alive
<1>24. CASE Crash(p) BY <1>24 DEF Crash, Gone, Alive
<1>25. CASE Restart(p) BY <1>25 DEF Restart, Alive
<1>26. QED
  BY <1>1, <1>2, <1>3, <1>4, <1>5, <1>6, <1>7, <1>8, <1>9, <1>10, <1>11, <1>12, <1>13,
     <1>14, <1>15, <1>16, <1>17, <1>18, <1>19, <1>20, <1>21, <1>22, <1>23, <1>24, <1>25
     DEF PodStep, TermStep, SchedulerStep, ProcessStep, FaultStep

\* A step of p keeps its own part of the invariant.
LEMMA OwnStep ==
  ASSUME TypeOK, TypeOK', NEW p \in Pods, TermInv(p), PodStep(p)
  PROVE  TermInv(p)'
<1> USE DEF TypeOK, TermInv, FreshWhenObtained, RoomToRefresh, RoomToNotice, RoomToStop,
            Live, Cancelled, Goto, Wait, Backoff, podVars, timers, lockVars
<1>1. CASE Obtained(p) BY <1>1 DEF Obtained
<1>2. CASE Standby(p) BY <1>2 DEF Standby
<1>3. CASE ObtainFails(p) BY <1>3 DEF ObtainFails
<1>4. CASE ObtainCancelled(p) BY <1>4 DEF ObtainCancelled
<1>5. CASE ObtainTimesOut(p) BY <1>5 DEF ObtainTimesOut
<1>6. CASE BecomeLeader(p) BY <1>6 DEF BecomeLeader
<1>7. CASE SchedStart(p) BY <1>7 DEF SchedStart
<1>8. CASE SchedStop(p) BY <1>8 DEF SchedStop
<1>9. CASE ZombieEnd(p) BY <1>9 DEF ZombieEnd
<1>10. CASE RefreshOk(p) BY <1>10 DEF RefreshOk, Refreshing
<1>11. CASE RefreshLost(p) BY <1>11 DEF RefreshLost, Refreshing
<1>12. CASE RefreshError(p) BY <1>12 DEF RefreshError, Refreshing
<1>13. CASE LeaveLead(p) BY <1>13 DEF LeaveLead
<1>14. CASE LeadSchedulerEnded(p) BY <1>14 DEF LeadSchedulerEnded
<1>15. CASE DrainDone(p) BY <1>15 DEF DrainDone
<1>16. CASE DrainGivesUp(p) BY <1>16 DEF DrainGivesUp
<1>17. CASE Release(p) BY <1>17 DEF Release, AfterRelease
<1>18. CASE ReleaseFails(p) BY <1>18 DEF ReleaseFails, AfterRelease
<1>19. CASE Retry(p) BY <1>19 DEF Retry
<1>20. CASE BackoffCancelled(p) BY <1>20 DEF BackoffCancelled
<1>21. CASE Signal(p) BY <1>21 DEF Signal
<1>22. CASE StopServing(p) BY <1>22 DEF StopServing, Alive
<1>23. CASE Exit(p) BY <1>23 DEF Exit, Gone, Alive
<1>24. CASE Crash(p) BY <1>24 DEF Crash, Gone, Alive
<1>25. CASE Restart(p) BY <1>25 DEF Restart, Alive, ProcStates
<1>26. QED
  BY <1>1, <1>2, <1>3, <1>4, <1>5, <1>6, <1>7, <1>8, <1>9, <1>10, <1>11, <1>12, <1>13,
     <1>14, <1>15, <1>16, <1>17, <1>18, <1>19, <1>20, <1>21, <1>22, <1>23, <1>24, <1>25
     DEF PodStep, TermStep, SchedulerStep, ProcessStep, FaultStep

\* A step of another pod keeps it too: it says nothing of what that step can change.
LEMMA OtherStep ==
  ASSUME TypeOK, NEW p \in Pods, PodStep(p), NEW q \in Pods, q # p, TermInv(q)
  PROVE  TermInv(q)'
  BY OthersUntouched DEF TermInv, FreshWhenObtained, RoomToRefresh, RoomToNotice,
     RoomToStop, Live, Cancelled

\* Time that passes while every goroutine is on time keeps the room there is.
LEMMA TimelyTick ==
  ASSUME TypeOK, Tick, NEW p \in Pods, TermInv(p), OnTime(p)
  PROVE  TermInv(p)'
<1> USE DEF TypeOK, Tick, OnTime, podVars, Live, Cancelled
<1>1. ASSUME lock = p, lease >= 2
      PROVE  lock' = p /\ lease' = lease - 1
  BY <1>1 DEF Dec
<1>2. FreshWhenObtained(p)'
  <2>1. CASE loop[p] = "obtained"
    BY <2>1, <1>1 DEF TermInv, FreshWhenObtained, Dec
  <2>2. CASE loop[p] # "obtained"
    BY <2>2 DEF FreshWhenObtained
  <2>3. QED BY <2>1, <2>2
<1>3. RoomToRefresh(p)'
  <2>1. CASE loop[p] = "lead" /\ ticker[p] = "on" /\ ~ctxDone[p]
    BY <2>1, <1>1 DEF TermInv, RoomToRefresh
  <2>2. CASE ~(loop[p] = "lead" /\ ticker[p] = "on" /\ ~ctxDone[p])
    BY <2>2 DEF RoomToRefresh
  <2>3. QED BY <2>1, <2>2
<1>4. RoomToNotice(p)'
  <2>1. CASE loop[p] = "lead" /\ ticker[p] = "failed" /\ ~ctxDone[p]
    BY <2>1, <1>1 DEF TermInv, RoomToNotice, Dec
  <2>2. CASE ~(loop[p] = "lead" /\ ticker[p] = "failed" /\ ~ctxDone[p])
    BY <2>2 DEF RoomToNotice
  <2>3. QED BY <2>1, <2>2
<1>5. RoomToStop(p)'
  <2>1. CASE Live(p) /\ Cancelled(p)
    BY <2>1, <1>1 DEF TermInv, RoomToStop, Dec
  <2>2. CASE ~(Live(p) /\ Cancelled(p))
    BY <2>2 DEF RoomToStop
  <2>3. QED BY <2>1, <2>2
<1>6. QED BY <1>2, <1>3, <1>4, <1>5 DEF TermInv

LEMMA InitTimely == Init => TimelyInv
  BY InitType DEF Init, TimelyInv, TermInv, FreshWhenObtained, RoomToRefresh,
     RoomToNotice, RoomToStop, Live

LEMMA TimelyStep == TimelyInv /\ [TimelyNext]_vars => TimelyInv'
<1>1. ASSUME TimelyInv, NEW p \in Pods, PodStep(p)
      PROVE  TimelyInv'
  BY <1>1, PodStepType, OwnStep, OtherStep DEF TimelyInv
<1>2. ASSUME TimelyInv, Tick, \A p \in Pods : OnTime(p)
      PROVE  TimelyInv'
  BY <1>2, TickType, TimelyTick DEF TimelyInv
<1>3. ASSUME TimelyInv, UNCHANGED vars
      PROVE  TimelyInv'
  BY <1>3 DEF TimelyInv, TypeOK, TermInv, FreshWhenObtained, RoomToRefresh, RoomToNotice,
     RoomToStop, Live, Cancelled, vars, podVars, timers, lockVars
<1>4. QED BY <1>1, <1>2, <1>3 DEF TimelyNext

\* Timely behaviours: in every phase of a term the lease outlives what the phase may take.
THEOREM TimelyInvariant == TimelySpec => []TimelyInv
  BY InitTimely, TimelyStep, PTL DEF TimelySpec

-----------------------------------------------------------------------------
(* What follows for the schedulers.                                        *)

LEMMA HoldsLock == TimelyInv => LiveSchedulerHoldsLock
<1> SUFFICES ASSUME TimelyInv, NEW p \in Pods, MayEnqueue(p)
             PROVE  lock = p
  BY DEF LiveSchedulerHoldsLock
<1> USE DEF TimelyInv, TermInv
<1>1. Live(p) BY DEF MayEnqueue
<1>2. CASE Cancelled(p) BY <1>1, <1>2 DEF RoomToStop
<1>3. CASE ~Cancelled(p)
  <2>1. loop[p] = "lead" /\ ~ctxDone[p] BY <1>3 DEF Cancelled, TypeOK
  <2>2. ticker[p] \in {"on", "failed"} BY <2>1 DEF TypeOK
  <2>3. QED BY <2>1, <2>2 DEF RoomToRefresh, RoomToNotice
<1>4. QED BY <1>2, <1>3

\* Timely behaviours: a scheduler that may enqueue runs under its own pod's lock.
THEOREM LiveHoldsLock == TimelySpec => []LiveSchedulerHoldsLock
  BY TimelyInvariant, HoldsLock, PTL

\* The election implements its abstract specification: in timely behaviours the schedulers
\* that may enqueue, of all pods and all terms, follow one another and never overlap.
THEOREM ImplementsSingleScheduler == TimelySpec => SingleSchedulerSpec
<1> DEFINE active == {p \in Pods : MayEnqueue(p)}
<1>1. Init => Single!Init
  BY DEF Init, Single!Init, MayEnqueue, Live
<1>2. TypeOK /\ LiveSchedulerHoldsLock /\ LiveSchedulerHoldsLock' /\ [TimelyNext]_vars
        => [Single!Next]_active
  <2> SUFFICES ASSUME TypeOK, LiveSchedulerHoldsLock, LiveSchedulerHoldsLock',
                      [TimelyNext]_vars, active' # active
               PROVE  Single!Next
    OBVIOUS
  <2>1. /\ \A p \in active : lock = p
        /\ \A p \in active' : lock' = p
    BY DEF LiveSchedulerHoldsLock, MayEnqueue, Live
  <2>2. PICK p \in Pods : PodStep(p)
    <3>1. CASE Tick BY <3>1 DEF Tick, podVars, MayEnqueue, Live
    <3>2. CASE UNCHANGED vars BY <3>2 DEF vars, podVars, MayEnqueue, Live
    <3>3. QED BY <3>1, <3>2 DEF TimelyNext
  <2>3. \A q \in Pods : q # p => (q \in active' <=> q \in active)
    BY <2>2, OthersUntouched DEF MayEnqueue, Live
  <2>4. CASE p \in active /\ p \notin active'
    <3>1. active = {p} /\ active' = {} BY <2>1, <2>3, <2>4
    <3>2. QED BY <3>1 DEF Single!Next, Single!EndTerm
  <2>5. CASE p \notin active /\ p \in active'
    <3>1. \A q \in active : q # p /\ q \in active' BY <2>3, <2>5
    <3>2. active = {} /\ active' = {p} BY <2>1, <2>3, <2>5, <3>1
    <3>3. QED BY <3>2 DEF Single!Next, Single!BeginTerm
  <2>6. QED BY <2>3, <2>4, <2>5
<1>3. TimelyInv => TypeOK
  BY DEF TimelyInv
<1>4. QED
  BY <1>1, <1>2, <1>3, TimelyInvariant, LiveHoldsLock, PTL
     DEF TimelySpec, SingleSchedulerSpec, Single!Spec
=============================================================================
