SPECIFICATION FairSpec
CONSTANTS
  Requests = {r1, r2}
  Files = {f1,f2}
  Messages = {1,2}
  Recipients = {p1}
  Works = {w1}
  Statuses = {pending, delivered}
  Pending = pending
  sizeBytes <- MCSizes
  MaxBytes = 1
  DailyCap = 1
  Unbound = Unbound
  Null = Null
INVARIANTS TypeOK RowHasBytes SentWithinLimit AcceptedWithinCap LatestReportStands WorkNeverLost
PROPERTY SendGetsRecorded
CHECK_DEADLOCK FALSE
