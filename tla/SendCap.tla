------------------------------ MODULE SendCap ------------------------------
(***************************************************************************)
(* The daily send cap (src/warmup/warmup.service.ts) and the domain        *)
(* operations its value depends on (src/domains/domain.service.ts).        *)
(*                                                                         *)
(* consumeAllowance is three steps of one request, and other requests and  *)
(* the clock move between them: the SELECT of the oldest verified domain,  *)
(* the continuation that turns it into a cap and evaluates today(), and    *)
(* the conditional upsert.  A verification is two: it finds the domain     *)
(* unverified before its DNS lookup and marks it after.                    *)
(***************************************************************************)
EXTENDS WarmupCurve

CONSTANTS
  Accounts,
  Domains,       \* domain names; a name is registered at most once at a time
  Requests,      \* concurrent callers of consumeAllowance
  TicksPerDay,   \* clock ticks per UTC day: verification is not at midnight
  MaxTime,       \* bound: the last clock tick
  MaxSent,       \* bound: no request starts for a counter that has reached it
  MaxVerifying,  \* bound: concurrent verifications of one domain
  Null

ASSUME SendCapAssumption ==
  /\ TicksPerDay \in Nat \ {0}
  /\ MaxTime \in Nat
  /\ MaxSent \in Nat
  /\ MaxVerifying \in Nat
  /\ Null \notin Int
  /\ Null \notin Accounts

VARIABLES
  now,            \* the wall clock
  owner,          \* domain.account_id, Null when the name is not registered
  verifiedAt,     \* domain.verified_at
  verifying,      \* verifications that saw the domain unverified and wait for DNS
  sent,           \* send_counter.sent by account and day, 0 when there is no row
  pc,             \* where each request is inside consumeAllowance
  account,        \* the request's accountId
  oldest,         \* what its SELECT returned
  cap,            \* what dailyCapFor made of it
  day,            \* what today() returned
  firstVerified   \* history: the account's first verification ever

domainVars == <<owner, verifiedAt, verifying>>
requestVars == <<pc, account, oldest, cap, day>>
vars == <<now, domainVars, sent, requestVars, firstVerified>>

Quota == INSTANCE SendQuota WITH used <- sent, first <- firstVerified, clock <- now

Time == 0..MaxTime
DayOf(t) == t \div TicksPerDay
Days == 0..DayOf(MaxTime)
today == DayOf(now)

DaysSince(since, t) == IF since = Null THEN 0 ELSE (t - since) \div TicksPerDay

VerifiedTimes(a) ==
  {verifiedAt[d] : d \in {e \in Domains : owner[e] = a /\ verifiedAt[e] # Null}}

\* Mutant: ORDER BY verified_at DESC.
NewestVerified(a) ==
  IF VerifiedTimes(a) = {} THEN {Null}
  ELSE {t \in VerifiedTimes(a) : \A u \in VerifiedTimes(a) : t >= u}

\* The row `ORDER BY verified_at LIMIT 1` returns: a singleton.
OldestVerified(a) ==
  IF VerifiedTimes(a) = {} THEN {Null}
  ELSE {t \in VerifiedTimes(a) : \A u \in VerifiedTimes(a) : t <= u}

Init ==
  /\ now = 0
  /\ owner = [d \in Domains |-> Null]
  /\ verifiedAt = [d \in Domains |-> Null]
  /\ verifying = [d \in Domains |-> 0]
  /\ sent = [a \in Accounts |-> [d \in Days |-> 0]]
  /\ pc = [r \in Requests |-> "idle"]
  /\ account = [r \in Requests |-> Null]
  /\ oldest = [r \in Requests |-> Null]
  /\ cap = [r \in Requests |-> Unlimited]
  /\ day = [r \in Requests |-> 0]
  /\ firstVerified = [a \in Accounts |-> Null]

Tick ==
  /\ now < MaxTime
  /\ now' = now + 1
  /\ UNCHANGED <<domainVars, sent, requestVars, firstVerified>>

-----------------------------------------------------------------------------
(* Domains *)

CreateDomain(a, d) ==
  /\ owner[d] = Null
  /\ owner' = [owner EXCEPT ![d] = a]
  /\ UNCHANGED <<now, verifiedAt, verifying, sent, requestVars, firstVerified>>

\* verify, up to the DNS lookup: a domain already verified is answered as it is.
BeginVerify(d) ==
  /\ owner[d] # Null
  /\ verifiedAt[d] = Null
  /\ verifying[d] < MaxVerifying
  /\ verifying' = [verifying EXCEPT ![d] = @ + 1]
  /\ UNCHANGED <<now, owner, verifiedAt, sent, requestVars, firstVerified>>

\* The record is missing: 409, nothing is written.
RefuseVerify(d) ==
  /\ verifying[d] > 0
  /\ verifying' = [verifying EXCEPT ![d] = @ - 1]
  /\ UNCHANGED <<now, owner, verifiedAt, sent, requestVars, firstVerified>>

\* markVerified does not look at verified_at again: a second verification that
\* was waiting for DNS overwrites the first one's timestamp.
MarkVerified(d) ==
  /\ verifying[d] > 0
  /\ verifying' = [verifying EXCEPT ![d] = @ - 1]
  /\ verifiedAt' = [verifiedAt EXCEPT ![d] = now]
  /\ firstVerified' = [firstVerified EXCEPT ![owner[d]] = IF @ = Null THEN now ELSE @]
  /\ UNCHANGED <<now, owner, sent, requestVars>>

\* The row goes; a verification still waiting will find no row with its id.
DeleteDomain(d) ==
  /\ owner[d] # Null
  /\ owner' = [owner EXCEPT ![d] = Null]
  /\ verifiedAt' = [verifiedAt EXCEPT ![d] = Null]
  /\ verifying' = [verifying EXCEPT ![d] = 0]
  /\ UNCHANGED <<now, sent, requestVars, firstVerified>>

-----------------------------------------------------------------------------
(* consumeAllowance *)

ReadOldest(r, a) ==
  /\ pc[r] = "idle"
  /\ sent[a][today] < MaxSent
  /\ pc' = [pc EXCEPT ![r] = "read"]
  /\ account' = [account EXCEPT ![r] = a]
  /\ \E t \in OldestVerified(a) : oldest' = [oldest EXCEPT ![r] = t]
  /\ UNCHANGED <<now, domainVars, sent, cap, day, firstVerified>>

\* Mutant: the whole timestamp goes into the row, not its day.
ComputeCapUnsliced(r) ==
  /\ pc[r] = "read"
  /\ pc' = [pc EXCEPT ![r] = "upsert"]
  /\ cap' = [cap EXCEPT ![r] = dailyCapFor(DaysSince(oldest[r], now))]
  /\ day' = [day EXCEPT ![r] = now]
  /\ oldest' = [oldest EXCEPT ![r] = Null]
  /\ UNCHANGED <<now, domainVars, sent, account, firstVerified>>

\* The continuation runs without a break: one clock value for the cap and the day.
ComputeCap(r) ==
  /\ pc[r] = "read"
  /\ pc' = [pc EXCEPT ![r] = "upsert"]
  /\ cap' = [cap EXCEPT ![r] = dailyCapFor(DaysSince(oldest[r], now))]
  /\ day' = [day EXCEPT ![r] = today]
  /\ oldest' = [oldest EXCEPT ![r] = Null]
  /\ UNCHANGED <<now, domainVars, sent, account, firstVerified>>

\* Mutant: the upsert without its WHERE, the cap checked on the row it returns.
UpsertThenCheck(r) ==
  /\ pc[r] = "upsert"
  /\ pc' = [pc EXCEPT ![r] = "idle"]
  /\ sent' = [sent EXCEPT ![account[r]][day[r]] = @ + 1]
  /\ account' = [account EXCEPT ![r] = Null]
  /\ cap' = [cap EXCEPT ![r] = Unlimited]
  /\ day' = [day EXCEPT ![r] = 0]
  /\ UNCHANGED <<now, domainVars, oldest, firstVerified>>

\* INSERT ... ON CONFLICT DO UPDATE ... WHERE sent < cap: one statement, and no
\* row comes back when the condition fails, which is the 429.
Upsert(r) ==
  /\ pc[r] = "upsert"
  /\ pc' = [pc EXCEPT ![r] = "idle"]
  /\ sent' = IF Permits(cap[r], sent[account[r]][day[r]])
             THEN [sent EXCEPT ![account[r]][day[r]] = @ + 1]
             ELSE sent
  /\ account' = [account EXCEPT ![r] = Null]
  /\ cap' = [cap EXCEPT ![r] = Unlimited]
  /\ day' = [day EXCEPT ![r] = 0]
  /\ UNCHANGED <<now, domainVars, oldest, firstVerified>>

Next ==
  \/ Tick
  \/ \E a \in Accounts, d \in Domains : CreateDomain(a, d)
  \/ \E d \in Domains :
       BeginVerify(d) \/ RefuseVerify(d) \/ MarkVerified(d) \/ DeleteDomain(d)
  \/ \E r \in Requests, a \in Accounts : ReadOldest(r, a)
  \/ \E r \in Requests : ComputeCap(r) \/ Upsert(r)

Spec == Init /\ [][Next]_vars

-----------------------------------------------------------------------------
(* Properties *)

\* Every variable holds a value of its column or local's type.
TypeOK ==
  /\ now \in Time
  /\ owner \in [Domains -> Accounts \cup {Null}]
  /\ verifiedAt \in [Domains -> Time \cup {Null}]
  /\ verifying \in [Domains -> 0..MaxVerifying]
  /\ sent \in [Accounts -> [Days -> Nat]]
  /\ pc \in [Requests -> {"idle", "read", "upsert"}]
  /\ account \in [Requests -> Accounts \cup {Null}]
  /\ oldest \in [Requests -> Time \cup {Null}]
  /\ cap \in [Requests -> Cap]
  /\ day \in [Requests -> Days]
  /\ firstVerified \in [Accounts -> Time \cup {Null}]

CurveAt(a, t) == dailyCapFor(DaysSince(firstVerified[a], t))

\* Whatever the domains an account registers, verifies twice or deletes, and
\* however its requests interleave with them, with each other and with midnight,
\* its counter of a day stays within what the curve, counted from its first
\* verification ever, gave at some instant of that day (consumeAllowance's cap
\* is read in one statement and enforced in a later one).
SentWithinCurve ==
  \A a \in Accounts, d \in Days : sent[a][d] > 0 =>
    \E t \in 0..now : DayOf(t) = d /\ AtMost(sent[a][d], CurveAt(a, t))

CapsInForce(a) == {dailyCapFor(DaysSince(t, now)) : t \in OldestVerified(a)}

\* Only time raises a cap: no creation, verification, repeated verification or
\* deletion of a domain earns its owner a single message more that day.
OnlyTimeRaisesCap ==
  [][now' = now => \A a \in Accounts :
       \A c \in CapsInForce(a), n \in CapsInForce(a)' : AtMost(n, c)]_vars

\* The three steps of consumeAllowance implement the atomic quota of SendQuota.
ImplementsQuota == Quota!QSpec

\* README.md:92 "counted from the account's first domain verification": the cap
\* in force is the curve's value for the first verification the account ever had.
CapCountsFromFirstVerification ==
  \A a \in Accounts : CapsInForce(a) = {CurveAt(a, now)}
=============================================================================
