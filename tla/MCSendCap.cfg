SPECIFICATION Spec
CONSTANTS
  WeeklyTargets <- MCWeeklyTargets
  DaysPerWeek = 1
  Unlimited = Unlimited
  Accounts = {a1}
  Domains = {d1, d2}
  Requests = {r1, r2}
  TicksPerDay = 2
  MaxTime = 4
  MaxSent = 2
  MaxVerifying = 2
  Null = Null
INVARIANTS TypeOK SentWithinCurve
PROPERTIES OnlyTimeRaisesCap ImplementsQuota
