----------------------- MODULE ElectionSettingsProofs -----------------------
(***************************************************************************)
(* What the normalisation of the election durations guarantees, whatever   *)
(* is configured.                                                          *)
(***************************************************************************)
EXTENDS ElectionSettings, TLAPS

\* A third, and two thirds, of a duration.
LEMMA Thirds ==
  ASSUME NEW n \in Nat
  PROVE  /\ n \div 3 \in Nat /\ 3 * (n \div 3) <= n /\ n < 3 * (n \div 3) + 3
         /\ (2 * n) \div 3 \in Nat /\ 3 * ((2 * n) \div 3) <= 2 * n
         /\ 2 * n < 3 * ((2 * n) \div 3) + 3
  OBVIOUS

LEMMA LeaseType ==
  ASSUME NEW c \in Configured
  PROVE  LeaseDuration(c) \in Nat \ {0}
  BY SettingsAssumption DEF LeaseDuration, OrElse, Configured

\* A renew deadline that is not before the end of the lease is replaced by one that is.
LEMMA RenewBeforeLease ==
  ASSUME NEW c \in Configured
  PROVE  RenewDeadline(c) \in Nat /\ RenewDeadline(c) < LeaseDuration(c)
<1>1. LeaseDuration(c) \in Nat \ {0} /\ c.renew \in Int
  BY LeaseType DEF Configured
<1> DEFINE L == LeaseDuration(c)
           d == (2 * L) \div 3
<1>2. d \in Nat /\ d < L
  <2> HIDE DEF L
  <2>1. L \in Nat \ {0} BY <1>1 DEF L
  <2>2. 3 * d <= 2 * L /\ d \in Nat BY <2>1, Thirds
  <2>3. QED BY <2>1, <2>2
<1> HIDE DEF d
<1>3. RenewDeadline(c) = IF c.renew >= L THEN d ELSE IF c.renew <= 0 THEN d ELSE c.renew
  BY DEF RenewDeadline, OrElse, d
<1>4. QED BY <1>1, <1>2, <1>3

\* The retry period is positive, and before the renew deadline if that is at least three units.
LEMMA RetryBeforeRenew ==
  ASSUME NEW c \in Configured
  PROVE  /\ RetryPeriod(c) \in Nat \ {0}
         /\ RenewDeadline(c) >= 3 => RetryPeriod(c) < RenewDeadline(c)
<1>1. RenewDeadline(c) \in Nat /\ c.retry \in Int
  BY RenewBeforeLease DEF Configured
<1> DEFINE R == RenewDeadline(c)
           t == R \div 3
           k == IF c.retry >= R THEN t ELSE IF c.retry <= 0 THEN t ELSE c.retry
<1>2. t \in Nat /\ 3 * t <= R /\ R < 3 * t + 3
  <2> HIDE DEF R
  <2> R \in Nat BY <1>1 DEF R
  <2> QED BY Thirds
<1>3. RetryPeriod(c) = IF k <= 0 THEN DefaultRetry ELSE k
  BY DEF RetryPeriod, OrElse
<1> HIDE DEF t, R
<1>4. R \in Nat BY <1>1 DEF R
<1>5. k \in Nat /\ (R >= 3 => k \in 1 .. R - 1)
  BY <1>1, <1>2, <1>4
<1> HIDE DEF k
<1>6. QED BY <1>3, <1>4, <1>5, SettingsAssumption DEF R

\* The durations of every configuration are ordered; what client-go may still refuse is a
\* retry period too close to the renew deadline (scheduler.go:127).
THEOREM RefusedOnlyForRetry ==
  ASSUME NEW c \in Configured, RenewDeadline(c) >= 1
  PROVE  Accepted(Normalised(c)) <=> 5 * RenewDeadline(c) > 6 * RetryPeriod(c)
<1>1. LeaseDuration(c) \in Nat \ {0} BY LeaseType
<1>2. RenewDeadline(c) \in Nat /\ RenewDeadline(c) < LeaseDuration(c) BY RenewBeforeLease
<1>3. RetryPeriod(c) \in Nat \ {0} BY RetryBeforeRenew
<1>4. QED BY <1>1, <1>2, <1>3 DEF Accepted, Normalised

\* A configuration that leaves the retry period to the code is accepted, unless its
\* deadline is shorter than three units (scheduler.go:136-142): nanoseconds, in the code.
THEOREM DefaultRetryAccepted ==
  ASSUME NEW c \in Configured, c.retry <= 0, RenewDeadline(c) >= 3
  PROVE  Accepted(Normalised(c))
<1> DEFINE R == RenewDeadline(c)
           t == R \div 3
<1>1. R \in Nat /\ R >= 3 BY RenewBeforeLease
<1>2. c.retry \in Int BY DEF Configured
<1>3. t \in Nat /\ 3 * t <= R /\ R < 3 * t + 3
  <2> HIDE DEF R
  <2> QED BY <1>1, Thirds
<1>4. RetryPeriod(c) = IF (IF c.retry >= R THEN t ELSE t) <= 0 THEN DefaultRetry
                       ELSE IF c.retry >= R THEN t ELSE t
  BY DEF RetryPeriod, OrElse
<1> HIDE DEF t
<1>5. RetryPeriod(c) = t BY <1>1, <1>2, <1>3, <1>4
<1>6. 5 * R > 6 * RetryPeriod(c)
  <2> HIDE DEF R
  <2> QED BY <1>1, <1>3, <1>5
<1>7. QED BY <1>1, <1>6, RefusedOnlyForRetry

\* The Redis election never runs with a period of zero or less: NewTicker would panic.
THEOREM RedisPeriodsPositive ==
  ASSUME NEW c \in Configured
  PROVE  LET s == RedisNormalised(c)
         IN  s.lease \in Nat \ {0} /\ s.renew \in Nat \ {0} /\ s.retry \in Nat \ {0}
<1> DEFINE L == IF c.lease <= 0 THEN DefaultLease ELSE c.lease
           t == L \div 3
<1>1. L \in Nat \ {0} /\ c.renew \in Int /\ c.retry \in Int
  BY SettingsAssumption DEF Configured
<1>2. t \in Nat
  <2> HIDE DEF L
  <2> QED BY <1>1, Thirds
<1> DEFINE k == IF c.renew <= 0 THEN t ELSE c.renew
<1>3. RedisNormalised(c) = [lease |-> L, renew |-> IF k <= 0 THEN DefaultRefresh ELSE k,
                            retry |-> IF c.retry <= 0 THEN DefaultRetry ELSE c.retry]
  BY DEF RedisNormalised, OrElse
<1> HIDE DEF t, L
<1>4. k \in Nat BY <1>1, <1>2
<1>5. QED BY <1>1, <1>3, <1>4, SettingsAssumption

\* A Redis election that leaves the refresh interval to the code has two thirds of the lock's
\* time for what may be late (scheduler.go:227-233): the LeaseAssumption of RedisElection
\* holds for every margin below that, three delays and the stop of the scheduler.
THEOREM RedisDefaultsLeaveRoom ==
  ASSUME NEW c \in Configured, c.renew <= 0, RedisNormalised(c).lease >= 3,
         NEW margin \in Nat, 3 * margin < 2 * RedisNormalised(c).lease
  PROVE  RedisNormalised(c).lease > RedisNormalised(c).renew + margin
<1> DEFINE L == OrElse(c.lease, DefaultLease)
           t == L \div 3
<1>1. RedisNormalised(c).lease = L BY DEF RedisNormalised
<1>2. L \in Nat /\ L >= 3
  <2>1. L \in Int BY SettingsAssumption DEF OrElse, Configured
  <2> HIDE DEF L
  <2>2. QED BY <1>1, <2>1
<1>3. t \in Nat /\ 3 * t <= L /\ L < 3 * t + 3
  <2> HIDE DEF L
  <2> QED BY <1>2, Thirds
<1>4. RedisNormalised(c).renew = OrElse(OrElse(c.renew, t), DefaultRefresh)
  BY DEF RedisNormalised
<1> HIDE DEF L, t
<1>5. t >= 1 BY <1>2, <1>3
<1>6. RedisNormalised(c).renew = t BY <1>3, <1>4, <1>5 DEF OrElse
<1>7. QED BY <1>1, <1>2, <1>3, <1>6

\* A configured refresh interval is taken as it is, also one that the lock does not outlive:
\* runWithRedisLeaderElection has no counterpart to the correction of scheduler.go:131-134 that
\* RenewBeforeLease is about.
THEOREM RedisRefreshUncorrected ==
  ASSUME NEW c \in Configured, c.lease >= 1, c.renew >= c.lease
  PROVE  RedisNormalised(c).renew >= RedisNormalised(c).lease
<1>1. c.lease \in Int /\ c.renew \in Int BY DEF Configured
<1>2. RedisNormalised(c).lease = c.lease /\ RedisNormalised(c).renew = c.renew
  BY <1>1 DEF RedisNormalised, OrElse
<1>3. QED BY <1>1, <1>2
=============================================================================
