----------------------------- MODULE MCElection -----------------------------
(***************************************************************************)
(* RedisElection on a small instance: two pods and durations of a few      *)
(* units, as the code normalises a configuration that has only a TTL and a *)
(* retry interval.                                                         *)
(***************************************************************************)
EXTENDS RedisElection

CONSTANTS p1, p2, LeaderLockTTL

ElectionDefaults == INSTANCE ElectionSettings WITH
    DefaultLease <- 15, DefaultRetry <- 2, DefaultRefresh <- 5

Redis == ElectionDefaults!RedisNormalised([lease |-> LeaderLockTTL, renew |-> 0, retry |-> 1])

MCTTL == Redis.lease
MCRefreshEvery == Redis.renew
MCRetryEvery == Redis.retry
=============================================================================
