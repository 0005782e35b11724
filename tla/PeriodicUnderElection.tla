------------------------ MODULE PeriodicUnderElection ------------------------
(***************************************************************************)
(* The periodic tasks under the Redis election, without a summary of       *)
(* either: runWithRedisLeaderElection starts and cancels, as RedisElection *)
(* says, the runSchedulerAsLeader of PeriodicTasks.  Each goes on by steps *)
(* of its own; a term of one is a term of the other.                       *)
(***************************************************************************)
EXTENDS PeriodicTasksProofs

CONSTANTS BadPods, TTL, RefreshEvery, RetryEvery, DrainTimeout, Delay, StopTime, Faults,
          MaxFaults, NoPod, Orphan

VARIABLES proc, ctxDone, loop, sched, ticker, zombie, due, refreshIn, stopIn, lock, lease,
          budget

Election == INSTANCE RedisElectionProofs

\* The pods in runSchedulerAsLeader: scheduler.go:269 starts it, and a drain wait that
\* gives up on it leaves it running.
SameTerms == Active = {p \in Pods : Election!MayEnqueue(p)}

\* Timely behaviours of the election, with whatever the tasks do in the terms it grants.
System == Spec /\ Election!TimelySpec /\ []SameTerms

LEMMA SystemTerms ==
  ASSUME Election!TimingAssumption, Election!PodsAssumption, Election!LeaseAssumption
  PROVE  System => Terms!Spec
<1> DEFINE active == {p \in Pods : Election!MayEnqueue(p)}
<1>1. Election!TimelySpec => Election!SingleSchedulerSpec
  BY Election!ImplementsSingleScheduler
<1>2. SameTerms => (Election!Single!Init => Terms!Init)
  BY DEF SameTerms, Terms!Init, Election!Single!Init
<1>3. SameTerms /\ SameTerms' /\ [Election!Single!Next]_active => [Terms!Next]_Active
  BY DEF SameTerms, Terms!Next, Terms!BeginTerm, Terms!EndTerm, Election!Single!Next,
         Election!Single!BeginTerm, Election!Single!EndTerm
<1>4. QED
  BY <1>1, <1>2, <1>3, PTL
     DEF System, Terms!Spec, Election!SingleSchedulerSpec, Election!Single!Spec

\* src/README.md:21, "only one instance of each periodic task gets enqueued across all
\* pods": while replies, goroutines and schedulers are as late as the lock's TTL allows,
\* any pods, crashes, signals and Redis errors leave a period between two instances.
THEOREM OneInstanceAcrossPods ==
  ASSUME Election!TimingAssumption, Election!PodsAssumption, Election!LeaseAssumption
  PROVE  System => OneInstancePerPeriod
  BY SystemTerms, OneInstanceUnderElection, PTL DEF System

\* The same system: a scheduler that runs after a cleanup without error lists no entry of a
\* scheduler that died under an earlier lock.
THEOREM CleanedAcrossPods ==
  ASSUME Election!TimingAssumption, Election!PodsAssumption, Election!LeaseAssumption
  PROVE  System => []NoDeadEntryWhileRunning
  BY SystemTerms, CleanedUnderElection, PTL DEF System
=============================================================================
