-------------------------- MODULE ElectionSettings --------------------------
(***************************************************************************)
(* The durations of the leader elections as the scheduler normalises them  *)
(* (internal/scheduler/scheduler.go), in some unit, and what client-go's   *)
(* NewLeaderElector makes of them.  A duration that is not configured is 0.*)
(***************************************************************************)
EXTENDS Integers

CONSTANTS
    DefaultLease,   \* 15 s, for the Lease of Kubernetes and the lock of Redis
    DefaultRetry,   \* 2 s
    DefaultRefresh  \* 5 s

ASSUME SettingsAssumption ==
    /\ DefaultLease \in Nat \ {0} /\ DefaultRetry \in Nat \ {0}
    /\ DefaultRefresh \in Nat \ {0}

\* What a configuration says: durations of either sign.
Configured == [lease : Int, renew : Int, retry : Int]

OrElse(n, default) == IF n <= 0 THEN default ELSE n

LeaseDuration(c) == OrElse(c.lease, DefaultLease)

RenewDeadline(c) ==
    IF c.renew >= LeaseDuration(c) THEN (2 * LeaseDuration(c)) \div 3
    ELSE OrElse(c.renew, (2 * LeaseDuration(c)) \div 3)

RetryPeriod(c) ==
    LET third == RenewDeadline(c) \div 3
    IN  OrElse(IF c.retry >= RenewDeadline(c) THEN third ELSE OrElse(c.retry, third),
               DefaultRetry)

Normalised(c) ==
    [lease |-> LeaseDuration(c), renew |-> RenewDeadline(c), retry |-> RetryPeriod(c)]

\* NewLeaderElector: every duration is positive, the deadline is before the end of the
\* lease and after a retry that is 1.2 times as long for its jitter.
Accepted(s) ==
    /\ s.lease >= 1 /\ s.renew >= 1 /\ s.retry >= 1
    /\ s.lease > s.renew
    /\ 5 * s.renew > 6 * s.retry

\* The Redis election refreshes its lock by a ticker, whose period must be positive.
RedisNormalised(c) ==
    LET ttl == OrElse(c.lease, DefaultLease)
    IN  [lease |-> ttl,
         renew |-> OrElse(OrElse(c.renew, ttl \div 3), DefaultRefresh),
         retry |-> OrElse(c.retry, DefaultRetry)]
=============================================================================
