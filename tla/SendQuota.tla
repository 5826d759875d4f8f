----------------------------- MODULE SendQuota -----------------------------
(***************************************************************************)
(* What the daily send cap promises, with no requests, no queries and no   *)
(* domain table: an account's counter of a day goes up by one at a time,   *)
(* and only while the curve, counted from the first domain the account     *)
(* EVER verified, permitted one more message at some instant of that day.  *)
(***************************************************************************)
EXTENDS WarmupCurve

CONSTANTS
  Accounts,
  TicksPerDay,  \* clock ticks in a day: days start at multiples of it
  MaxTime,      \* bound: the last clock tick
  Null

VARIABLES
  used,   \* used[a][d]: messages account a was allowed on day d
  first,  \* first[a]: when a first verified a domain, or Null
  clock

qvars == <<used, first, clock>>

Time == 0..MaxTime
DayOf(t) == t \div TicksPerDay
Days == 0..DayOf(MaxTime)

\* Whole days from `since` to `t`; an account that verified nothing is on day 0.
DaysSince(since, t) == IF since = Null THEN 0 ELSE (t - since) \div TicksPerDay

CurveAt(since, t) == dailyCapFor(DaysSince(since, t))

QInit ==
  /\ used = [a \in Accounts |-> [d \in Days |-> 0]]
  /\ first = [a \in Accounts |-> Null]
  /\ clock = 0

QTick == clock < MaxTime /\ clock' = clock + 1 /\ UNCHANGED <<used, first>>

QStartCurve(a) ==
  /\ first[a] = Null
  /\ first' = [first EXCEPT ![a] = clock]
  /\ UNCHANGED <<used, clock>>

QGrant(a, d) ==
  /\ \E t \in 0..clock : DayOf(t) = d /\ Permits(CurveAt(first[a], t), used[a][d])
  /\ used' = [used EXCEPT ![a][d] = @ + 1]
  /\ UNCHANGED <<first, clock>>

QNext ==
  \/ QTick
  \/ \E a \in Accounts : QStartCurve(a)
  \/ \E a \in Accounts, d \in Days : QGrant(a, d)

QSpec == QInit /\ [][QNext]_qvars
=============================================================================
