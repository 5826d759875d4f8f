--------------------------- MODULE SendCapProofs ---------------------------
(***************************************************************************)
(* The daily cap holds for every number of accounts, domains and requests, *)
(* every table and every length of a day; and consumeAllowance implements  *)
(* the atomic quota of SendQuota.                                          *)
(***************************************************************************)
EXTENDS SendCap, TLAPS

-----------------------------------------------------------------------------
(* The curve, for every table and week length *)

\* Whole weeks (or days) never go backwards as time goes on.
LEMMA DivMonotone ==
  ASSUME NEW m \in Int, NEW n \in Int, NEW k \in Nat \ {0}, m <= n
  PROVE  m \div k <= n \div k
<1> DEFINE x == m \div k
           y == n \div k
<1>1. x \in Int /\ k * x <= m
  OBVIOUS
<1>2. y \in Int /\ n < k * y + k
  OBVIOUS
<1> HIDE DEF x, y
<1>3. k * x < k * (y + 1)
  BY <1>1, <1>2
<1>4. x < y + 1
  BY <1>1, <1>2, <1>3
<1> QED
  BY <1>1, <1>2, <1>4 DEF x, y

LEMMA DivBounds ==
  ASSUME NEW m \in Nat, NEW k \in Nat \ {0}
  PROVE  m \div k \in Nat /\ m \div k <= m /\ 0 \div k = 0
OBVIOUS

LEMMA AtMostTransitive ==
  ASSUME NEW c1 \in Int \cup {Unlimited}, NEW c2 \in Int \cup {Unlimited},
         NEW c3 \in Int \cup {Unlimited}, AtMost(c1, c2), AtMost(c2, c3)
  PROVE  AtMost(c1, c3)
BY CurveAssumption DEF AtMost

LEMMA TableEntries ==
  ASSUME NEW i \in Nat, i < Len(WeeklyTargets)
  PROVE  /\ WeeklyTargets[i + 1] \in Nat \ {0}
         /\ WeeklyTargets[1] \in Nat \ {0}
         /\ WeeklyTargets[1] <= WeeklyTargets[i + 1]
<1>1. Len(WeeklyTargets) \in Nat /\ 1 \in 1..Len(WeeklyTargets) /\ i + 1 \in 1..Len(WeeklyTargets)
  BY CurveAssumption
<1> QED
  BY <1>1, CurveAssumption

\* dailyCapFor always answers with a cap (curve.ts:12 never reads past the table).
LEMMA CurveType ==
  ASSUME NEW n \in Int
  PROVE  dailyCapFor(n) \in Cap
<1>1. CASE n < 0
  BY <1>1, TableEntries, CurveAssumption DEF dailyCapFor, Cap
<1>2. CASE ~(n < 0)
  <2>1. n \div DaysPerWeek \in Nat
    BY <1>2, DivBounds, CurveAssumption
  <2> QED
    BY <1>2, <2>1, TableEntries DEF dailyCapFor, Cap
<1> QED
  BY <1>1, <1>2

\* An older account is never capped lower (curve.ts:5-13): the table rises and
\* "no cap" comes after its last week.
THEOREM CurveMonotone ==
  ASSUME NEW m \in Int, NEW n \in Int, m <= n
  PROVE  AtMost(dailyCapFor(m), dailyCapFor(n))
<1> DEFINE L == Len(WeeklyTargets)
           wm == m \div DaysPerWeek
           wn == n \div DaysPerWeek
<1>1. L \in Nat \ {0} /\ Unlimited \notin Int
  BY CurveAssumption
<1>2. CASE n < 0
  BY <1>1, <1>2, TableEntries, CurveAssumption DEF dailyCapFor, AtMost
<1>3. CASE ~(n < 0)
  <2>1. wn \in Nat
    BY <1>3, DivBounds, CurveAssumption
  <2>2. CASE m < 0
    BY <1>1, <1>3, <2>1, <2>2, TableEntries, CurveAssumption DEF dailyCapFor, AtMost
  <2>3. CASE ~(m < 0)
    <3>1. wm \in Nat /\ wm <= wn
      <4>1. m \in Nat /\ n \in Nat /\ DaysPerWeek \in Nat \ {0}
        BY <1>3, <2>3, CurveAssumption
      <4> QED BY <4>1, DivBounds, DivMonotone
    <3> HIDE DEF wm, wn
    <3>2. CASE wn < L
      <4>1. wm + 1 \in 1..L /\ wn + 1 \in 1..L /\ wm + 1 <= wn + 1
        BY <1>1, <2>1, <3>1, <3>2
      <4>2. WeeklyTargets[wm + 1] <= WeeklyTargets[wn + 1]
        BY <4>1, CurveAssumption
      <4>3. dailyCapFor(m) = WeeklyTargets[wm + 1] /\ dailyCapFor(n) = WeeklyTargets[wn + 1]
        BY <1>3, <2>3, <3>1, <3>2, <2>1, <1>1 DEF dailyCapFor, wm, wn
      <4>4. WeeklyTargets[wm + 1] \in Nat
        BY <4>1, <1>1, CurveAssumption
      <4> QED
        BY <4>2, <4>3, <4>4, <1>1 DEF AtMost
    <3>3. CASE ~(wn < L)
      BY <1>3, <3>3 DEF dailyCapFor, AtMost, wn
    <3> QED
      BY <3>2, <3>3
  <2> QED
    BY <2>2, <2>3
<1> QED
  BY <1>2, <1>3

\* The cap of an account that verified nothing (day 0) is the lowest there is.
LEMMA CurveBottom ==
  ASSUME NEW n \in Int
  PROVE  AtMost(dailyCapFor(0), dailyCapFor(n))
<1>1. CASE n >= 0
  BY <1>1, CurveMonotone
<1>2. CASE n < 0
  <2>1. 0 \div DaysPerWeek = 0
    BY DivBounds, CurveAssumption
  <2>2. dailyCapFor(0) = WeeklyTargets[1] /\ dailyCapFor(n) = WeeklyTargets[1]
    BY <1>2, <2>1, CurveAssumption DEF dailyCapFor
  <2>3. WeeklyTargets[1] \in Nat
    BY TableEntries, CurveAssumption
  <2> QED
    BY <2>2, <2>3, CurveAssumption DEF AtMost
<1> QED
  BY <1>1, <1>2

-----------------------------------------------------------------------------
(***************************************************************************)
(* The inductive invariant: what the history variable knows about the      *)
(* domain rows, and what a request inside consumeAllowance has read.       *)
(***************************************************************************)
DomainsInv ==
  /\ \A d \in Domains : verifying[d] > 0 \/ verifiedAt[d] # Null => owner[d] # Null
  /\ \A d \in Domains : verifiedAt[d] # Null =>
       /\ verifiedAt[d] <= now
       /\ firstVerified[owner[d]] # Null
       /\ firstVerified[owner[d]] <= verifiedAt[d]
  /\ \A a \in Accounts : firstVerified[a] # Null => firstVerified[a] <= now

\* The cap was on the curve at some instant of the day it will be charged to.
CapEarned(a, d, c) == \E t \in 0..now : DayOf(t) = d /\ AtMost(c, CurveAt(a, t))

RequestsInv ==
  /\ \A r \in Requests : pc[r] # "idle" => account[r] \in Accounts
  /\ \A r \in Requests : pc[r] = "read" /\ oldest[r] # Null =>
       /\ oldest[r] <= now
       /\ firstVerified[account[r]] # Null
       /\ firstVerified[account[r]] <= oldest[r]
  /\ \A r \in Requests : pc[r] = "upsert" => CapEarned(account[r], day[r], cap[r])

IInv == TypeOK /\ DomainsInv /\ RequestsInv /\ SentWithinCurve

-----------------------------------------------------------------------------
LEMMA DayInDays ==
  ASSUME NEW t \in Time
  PROVE  DayOf(t) \in Days /\ t \in Nat
<1>1. t \in Nat /\ t <= MaxTime /\ MaxTime \in Nat
  BY SendCapAssumption DEF Time
<1>2. DayOf(t) \in Nat /\ DayOf(MaxTime) \in Nat
  BY <1>1, DivBounds, SendCapAssumption DEF DayOf
<1>3. DayOf(t) <= DayOf(MaxTime)
  BY <1>1, DivMonotone, SendCapAssumption DEF DayOf
<1> QED
  BY <1>1, <1>2, <1>3 DEF Days

LEMMA DaysSinceInt ==
  ASSUME NEW s \in Nat \cup {Null}, NEW t \in Nat
  PROVE  /\ DaysSince(s, t) \in Int
         /\ dailyCapFor(DaysSince(s, t)) \in Cap
<1>1. DaysSince(s, t) \in Int
  BY SendCapAssumption DEF DaysSince
<1> QED
  BY <1>1, CurveType

\* Counting from an earlier verification never lowers the cap.
LEMMA EarlierStart ==
  ASSUME NEW s1 \in Nat, NEW s2 \in Nat, NEW t \in Nat, s1 <= s2
  PROVE  AtMost(dailyCapFor(DaysSince(s2, t)), dailyCapFor(DaysSince(s1, t)))
<1>1. s1 # Null /\ s2 # Null
  BY SendCapAssumption
<1>2. (t - s2) \div TicksPerDay <= (t - s1) \div TicksPerDay
  BY DivMonotone, SendCapAssumption
<1>3. DaysSince(s2, t) <= DaysSince(s1, t) /\ DaysSince(s1, t) \in Int /\ DaysSince(s2, t) \in Int
  BY <1>1, <1>2, DaysSinceInt DEF DaysSince
<1> QED
  BY <1>3, CurveMonotone

\* An account without a verified domain gets the lowest cap.
LEMMA UnverifiedLowest ==
  ASSUME NEW s \in Nat \cup {Null}, NEW t \in Nat
  PROVE  AtMost(dailyCapFor(DaysSince(Null, t)), dailyCapFor(DaysSince(s, t)))
<1>1. DaysSince(Null, t) = 0
  BY DEF DaysSince
<1> QED
  BY <1>1, DaysSinceInt, CurveBottom

LEMMA OldestVerifiedFacts ==
  ASSUME TypeOK, NEW a \in Accounts, NEW t \in OldestVerified(a)
  PROVE  /\ t \in Time \cup {Null}
         /\ t # Null => /\ \E d \in Domains : owner[d] = a /\ verifiedAt[d] = t
                        /\ \A u \in VerifiedTimes(a) : t <= u
         /\ t = Null => VerifiedTimes(a) = {}
<1>1. VerifiedTimes(a) \subseteq Time
  BY DEF VerifiedTimes, TypeOK
<1>2. CASE VerifiedTimes(a) = {}
  BY <1>2 DEF OldestVerified
<1>3. CASE VerifiedTimes(a) # {}
  <2>1. t \in VerifiedTimes(a) /\ \A u \in VerifiedTimes(a) : t <= u
    BY <1>3 DEF OldestVerified
  <2>2. t \in Time /\ t # Null
    BY <1>1, <2>1, SendCapAssumption DEF Time
  <2> QED
    BY <2>1, <2>2 DEF VerifiedTimes
<1> QED
  BY <1>2, <1>3

-----------------------------------------------------------------------------
(* The initial states, and type correctness *)

LEMMA InitIInv == Init => IInv
<1> SUFFICES ASSUME Init
             PROVE  IInv
  OBVIOUS
<1>1. 0 \in Days /\ 0 \in Time
  <2>1. 0 \in Time
    BY SendCapAssumption DEF Time
  <2>2. DayOf(0) = 0
    BY DivBounds, SendCapAssumption DEF DayOf
  <2> QED
    BY <2>1, <2>2, DayInDays
<1>2. TypeOK
  BY <1>1, SendCapAssumption DEF Init, TypeOK, Cap
<1>3. DomainsInv
  BY DEF Init, DomainsInv
<1>4. RequestsInv
  BY DEF Init, RequestsInv
<1>5. SentWithinCurve
  BY DEF Init, SentWithinCurve
<1> QED
  BY <1>2, <1>3, <1>4, <1>5 DEF IInv

LEMMA TypeStep == TypeOK /\ DomainsInv /\ RequestsInv /\ [Next]_vars => TypeOK'
<1> SUFFICES ASSUME TypeOK, DomainsInv, RequestsInv, [Next]_vars
             PROVE  TypeOK'
  OBVIOUS
<1> USE DEF TypeOK
<1>1. CASE Tick
  BY <1>1, SendCapAssumption DEF Tick, domainVars, requestVars, Time
<1>2. ASSUME NEW a \in Accounts, NEW d \in Domains, CreateDomain(a, d)
      PROVE  TypeOK'
  BY <1>2 DEF CreateDomain, requestVars
<1>3. ASSUME NEW d \in Domains, BeginVerify(d)
      PROVE  TypeOK'
  BY <1>3, SendCapAssumption DEF BeginVerify, requestVars
<1>4. ASSUME NEW d \in Domains, RefuseVerify(d)
      PROVE  TypeOK'
  BY <1>4, SendCapAssumption DEF RefuseVerify, requestVars
<1>5. ASSUME NEW d \in Domains, MarkVerified(d)
      PROVE  TypeOK'
  <2>1. owner[d] \in Accounts
    BY <1>5, SendCapAssumption DEF MarkVerified, DomainsInv
  <2>2. firstVerified' \in [Accounts -> Time \cup {Null}]
    BY <1>5, <2>1 DEF MarkVerified
  <2>3. verifying' \in [Domains -> 0..MaxVerifying]
    BY <1>5, SendCapAssumption DEF MarkVerified
  <2> QED
    BY <1>5, <2>2, <2>3 DEF MarkVerified, requestVars
<1>6. ASSUME NEW d \in Domains, DeleteDomain(d)
      PROVE  TypeOK'
  BY <1>6, SendCapAssumption DEF DeleteDomain, requestVars
<1>7. ASSUME NEW r \in Requests, NEW a \in Accounts, ReadOldest(r, a)
      PROVE  TypeOK'
  <2>1. \E t \in Time \cup {Null} : oldest' = [oldest EXCEPT ![r] = t]
    BY <1>7, OldestVerifiedFacts DEF ReadOldest
  <2> QED
    BY <1>7, <2>1 DEF ReadOldest, domainVars
<1>8. ASSUME NEW r \in Requests, ComputeCap(r)
      PROVE  TypeOK'
  <2>1. today \in Days /\ now \in Nat
    BY DayInDays DEF today
  <2>2. oldest[r] \in Nat \cup {Null}
    BY DEF Time
  <2>3. dailyCapFor(DaysSince(oldest[r], now)) \in Cap
    BY <2>1, <2>2, DaysSinceInt
  <2> QED
    BY <1>8, <2>1, <2>3 DEF ComputeCap, domainVars
<1>9. ASSUME NEW r \in Requests, Upsert(r)
      PROVE  TypeOK'
  <2>1. account[r] \in Accounts /\ day[r] \in Days /\ sent[account[r]][day[r]] \in Nat
    BY <1>9 DEF Upsert, RequestsInv
  <2>2. sent' \in [Accounts -> [Days -> Nat]]
    BY <1>9, <2>1 DEF Upsert
  <2>3. 0 \in Days
    BY SendCapAssumption, DivBounds DEF Days, DayOf
  <2> QED
    BY <1>9, <2>2, <2>3 DEF Upsert, domainVars, Cap
<1>10. CASE UNCHANGED vars
  BY <1>10 DEF vars, domainVars, requestVars
<1> QED
  BY <1>1, <1>2, <1>3, <1>4, <1>5, <1>6, <1>7, <1>8, <1>9, <1>10 DEF Next

-----------------------------------------------------------------------------
LEMMA ClockStep == TypeOK /\ [Next]_vars => now' \in Nat /\ now <= now'
<1> SUFFICES ASSUME TypeOK, [Next]_vars
             PROVE  now' \in Nat /\ now <= now'
  OBVIOUS
<1>1. now \in Nat
  BY SendCapAssumption DEF TypeOK, Time
<1>2. now' = now \/ now' = now + 1
  BY DEF Next, vars, Tick, CreateDomain, BeginVerify, RefuseVerify, MarkVerified, DeleteDomain,
       ReadOldest, ComputeCap, Upsert
<1> QED
  BY <1>1, <1>2

(* The inductive step, one lemma per conjunct of the invariant *)

LEMMA DomainsStep == TypeOK /\ DomainsInv /\ [Next]_vars => DomainsInv'
<1> SUFFICES ASSUME TypeOK, DomainsInv, [Next]_vars
             PROVE  DomainsInv'
  OBVIOUS
<1> USE SendCapAssumption DEF TypeOK, DomainsInv, Time
<1>1. CASE Tick
  BY <1>1 DEF Tick, domainVars
<1>2. ASSUME NEW a \in Accounts, NEW d \in Domains, CreateDomain(a, d)
      PROVE  DomainsInv'
  BY <1>2 DEF CreateDomain
<1>3. ASSUME NEW d \in Domains, BeginVerify(d) \/ RefuseVerify(d)
      PROVE  DomainsInv'
  BY <1>3 DEF BeginVerify, RefuseVerify
<1>4. ASSUME NEW d \in Domains, MarkVerified(d)
      PROVE  DomainsInv'
  <2>1. owner[d] \in Accounts /\ owner' = owner /\ now' = now /\ now \in Nat
    BY <1>4 DEF MarkVerified
  <2>2. /\ firstVerified'[owner[d]] \in Nat
        /\ firstVerified'[owner[d]] <= now
        /\ firstVerified[owner[d]] # Null => firstVerified'[owner[d]] = firstVerified[owner[d]]
        /\ \A a \in Accounts \ {owner[d]} : firstVerified'[a] = firstVerified[a]
    BY <1>4, <2>1 DEF MarkVerified
  <2>3. /\ verifiedAt'[d] = now
        /\ \A e \in Domains \ {d} : verifiedAt'[e] = verifiedAt[e]
        /\ \A e \in Domains : verifying'[e] > 0 => owner[e] # Null
    BY <1>4 DEF MarkVerified
  <2>4. \A a \in Accounts : firstVerified'[a] # Null => firstVerified'[a] <= now
    BY <2>1, <2>2
  <2>5. ASSUME NEW e \in Domains, verifiedAt'[e] # Null
        PROVE  /\ owner[e] # Null
               /\ verifiedAt'[e] <= now
               /\ firstVerified'[owner[e]] # Null
               /\ firstVerified'[owner[e]] <= verifiedAt'[e]
    <3>1. CASE e = d
      BY <2>1, <2>2, <2>3, <3>1
    <3>2. CASE e # d
      <4>1. owner[e] \in Accounts /\ firstVerified[owner[e]] # Null
        BY <2>3, <2>5, <3>2
      <4>2. firstVerified'[owner[e]] = firstVerified[owner[e]]
        BY <2>1, <2>2, <4>1
      <4> QED
        BY <2>3, <2>5, <3>2, <4>1, <4>2
    <3> QED
      BY <3>1, <3>2
  <2> QED
    BY <2>1, <2>3, <2>4, <2>5
<1>5. ASSUME NEW d \in Domains, DeleteDomain(d)
      PROVE  DomainsInv'
  BY <1>5 DEF DeleteDomain
<1>6. CASE UNCHANGED <<now, domainVars, firstVerified>>
  BY <1>6 DEF domainVars
<1>7. ASSUME NEW r \in Requests,
             (\E a \in Accounts : ReadOldest(r, a)) \/ ComputeCap(r) \/ Upsert(r)
      PROVE  DomainsInv'
  BY <1>7, <1>6 DEF ReadOldest, ComputeCap, Upsert
<1> QED
  BY <1>1, <1>2, <1>3, <1>4, <1>5, <1>6, <1>7 DEF Next, vars

\* The history variable is set once.
LEMMA FirstVerifiedKept ==
  ASSUME TypeOK, DomainsInv, [Next]_vars, NEW a \in Accounts
  PROVE  /\ firstVerified'[a] \in Nat \cup {Null}
         /\ firstVerified[a] # Null => firstVerified'[a] = firstVerified[a]
<1>1. CASE firstVerified' = firstVerified
  BY <1>1 DEF TypeOK, Time
<1>2. ASSUME NEW e \in Domains, MarkVerified(e)
      PROVE  /\ firstVerified'[a] \in Nat \cup {Null}
             /\ firstVerified[a] # Null => firstVerified'[a] = firstVerified[a]
  <2>1. owner[e] \in Accounts
    BY <1>2, SendCapAssumption DEF MarkVerified, DomainsInv, TypeOK
  <2> QED
    BY <1>2, <2>1, SendCapAssumption DEF MarkVerified, TypeOK, Time
<1> QED
  BY <1>1, <1>2 DEF Next, vars, Tick, CreateDomain, BeginVerify, RefuseVerify, DeleteDomain,
       ReadOldest, ComputeCap, Upsert

\* A cap earned stays earned: the clock only moves on, and the history variable
\* is only ever set.
LEMMA EarnedStable ==
  ASSUME TypeOK, DomainsInv, [Next]_vars,
         NEW a \in Accounts, NEW d \in Days, NEW c \in Nat \cup {Unlimited},
         CapEarned(a, d, c)
  PROVE  CapEarned(a, d, c)'
<1>1. PICK t \in 0..now : DayOf(t) = d /\ AtMost(c, CurveAt(a, t))
  BY DEF CapEarned
<1>2. now \in Nat /\ t \in Nat /\ t \in 0..now'
  BY ClockStep, SendCapAssumption DEF TypeOK, Time
<1>3. /\ firstVerified[a] \in Nat \cup {Null}
      /\ firstVerified'[a] \in Nat \cup {Null}
      /\ firstVerified[a] # Null => firstVerified'[a] = firstVerified[a]
  BY FirstVerifiedKept DEF TypeOK, Time
<1>4. AtMost(CurveAt(a, t), dailyCapFor(DaysSince(firstVerified'[a], t)))
  <2>1. CASE firstVerified[a] = Null
    BY <1>2, <1>3, <2>1, UnverifiedLowest DEF CurveAt
  <2>2. CASE firstVerified[a] # Null
    BY <1>2, <1>3, <2>2, EarlierStart DEF CurveAt
  <2> QED
    BY <2>1, <2>2
<1>5. AtMost(c, dailyCapFor(DaysSince(firstVerified'[a], t)))
  <2> DEFINE before == CurveAt(a, t)
             after == dailyCapFor(DaysSince(firstVerified'[a], t))
  <2>1. before \in Cap
    BY <1>2, <1>3, DaysSinceInt DEF CurveAt
  <2>2. after \in Cap
    BY <1>2, <1>3, DaysSinceInt
  <2> HIDE DEF before, after
  <2>3. AtMost(c, before) /\ AtMost(before, after)
    BY <1>1, <1>4 DEF before, after
  <2>4. AtMost(c, after)
    BY <2>1, <2>2, <2>3, AtMostTransitive DEF Cap
  <2> QED
    BY <2>4 DEF after
<1> QED
  BY <1>1, <1>2, <1>5 DEF CapEarned, CurveAt

LEMMA RequestsStep == TypeOK /\ DomainsInv /\ RequestsInv /\ [Next]_vars => RequestsInv'
<1> SUFFICES ASSUME TypeOK, DomainsInv, RequestsInv, [Next]_vars
             PROVE  RequestsInv'
  OBVIOUS
<1>1. TypeOK' /\ now \in Nat /\ now' \in Nat /\ now <= now'
  BY TypeStep, ClockStep, SendCapAssumption DEF TypeOK, Time
\* What a request that does not move has read stays true of it.
<1> DEFINE Untouched(r) == /\ pc'[r] = pc[r]         /\ account'[r] = account[r]
                           /\ oldest'[r] = oldest[r] /\ cap'[r] = cap[r]
                           /\ day'[r] = day[r]
           Good(r) ==
             /\ pc[r] # "idle" => account[r] \in Accounts
             /\ pc[r] = "read" /\ oldest[r] # Null =>
                  /\ oldest[r] <= now
                  /\ firstVerified[account[r]] # Null
                  /\ firstVerified[account[r]] <= oldest[r]
             /\ pc[r] = "upsert" => CapEarned(account[r], day[r], cap[r])
<1>2. SUFFICES ASSUME NEW r \in Requests
               PROVE  Good(r)'
  BY <1>2 DEF RequestsInv
<1>3. Good(r)
  BY DEF RequestsInv
<1>4. CASE Untouched(r)
  <2>1. pc'[r] # "idle" => account'[r] \in Accounts
    BY <1>3, <1>4
  <2>2. ASSUME pc'[r] = "read", oldest'[r] # Null
        PROVE  /\ oldest'[r] <= now'
               /\ firstVerified'[account'[r]] # Null
               /\ firstVerified'[account'[r]] <= oldest'[r]
    <3>1. /\ account[r] \in Accounts /\ oldest[r] <= now /\ oldest[r] \in Nat
          /\ firstVerified[account[r]] # Null /\ firstVerified[account[r]] <= oldest[r]
      BY <1>3, <1>4, <2>2 DEF TypeOK, Time
    <3>2. firstVerified'[account[r]] = firstVerified[account[r]]
      BY <3>1, FirstVerifiedKept
    <3> QED
      BY <1>1, <1>4, <3>1, <3>2
  <2>3. ASSUME pc'[r] = "upsert"
        PROVE  CapEarned(account[r], day[r], cap[r])'
    <3>1. /\ account[r] \in Accounts /\ day[r] \in Days /\ cap[r] \in Nat \cup {Unlimited}
          /\ CapEarned(account[r], day[r], cap[r])
      BY <1>3, <1>4, <2>3 DEF TypeOK, Cap
    <3> DEFINE a == account[r]
               d == day[r]
               c == cap[r]
    <3>2. \E t \in 0..now' : DayOf(t) = d /\ AtMost(c, dailyCapFor(DaysSince(firstVerified'[a], t)))
      BY <3>1, EarnedStable DEF CapEarned, CurveAt
    <3> QED
      BY <1>4, <3>2 DEF CapEarned, CurveAt
  <2> QED
    BY <2>1, <2>2, <2>3
<1>5. ASSUME NEW a \in Accounts, ReadOldest(r, a)
      PROVE  Good(r)'
  <2>1. PICK t \in OldestVerified(a) : oldest' = [oldest EXCEPT ![r] = t]
    BY <1>5 DEF ReadOldest
  <2>2. pc'[r] = "read" /\ account'[r] = a /\ oldest'[r] = t
    BY <1>5, <2>1 DEF ReadOldest, TypeOK
  <2>3. t # Null => /\ t <= now
                    /\ firstVerified[a] # Null
                    /\ firstVerified[a] <= t
    BY OldestVerifiedFacts DEF DomainsInv
  <2>4. now' = now /\ firstVerified' = firstVerified
    BY <1>5 DEF ReadOldest
  <2> QED
    BY <2>2, <2>3, <2>4
<1>6. CASE ComputeCap(r)
  <2> DEFINE a == account[r]
             c == dailyCapFor(DaysSince(oldest[r], now))
  <2>1. /\ pc'[r] = "upsert" /\ account'[r] = a /\ day'[r] = today /\ cap'[r] = c
        /\ firstVerified' = firstVerified /\ now' = now
    BY <1>6 DEF ComputeCap, TypeOK
  <2>2. a \in Accounts /\ pc[r] = "read"
    BY <1>3, <1>6 DEF ComputeCap
  <2>3. AtMost(c, CurveAt(a, now))
    <3>1. CASE oldest[r] = Null
      <4>1. firstVerified[a] \in Nat \cup {Null}
        BY <2>2 DEF TypeOK, Time
      <4> QED
        BY <1>1, <3>1, <4>1, UnverifiedLowest DEF CurveAt
    <3>2. CASE oldest[r] # Null
      <4>1. oldest[r] \in Nat /\ firstVerified[a] \in Nat /\ firstVerified[a] <= oldest[r]
        BY <1>3, <2>2, <3>2 DEF TypeOK, Time
      <4> QED
        BY <1>1, <4>1, EarlierStart DEF CurveAt
    <3> QED
      BY <3>1, <3>2
  <2>4. CapEarned(a, today, c)
    BY <1>1, <2>3 DEF CapEarned, today
  <2> QED
    BY <2>1, <2>2, <2>4 DEF CapEarned, CurveAt
<1>7. CASE Upsert(r)
  BY <1>7 DEF Upsert, TypeOK
<1>8. ASSUME NEW s \in Requests, s # r,
             (\E a \in Accounts : ReadOldest(s, a)) \/ ComputeCap(s) \/ Upsert(s)
      PROVE  Untouched(r)
  BY <1>8 DEF ReadOldest, ComputeCap, Upsert, TypeOK
<1>9. \/ Untouched(r)
      \/ (\E a \in Accounts : ReadOldest(r, a)) \/ ComputeCap(r) \/ Upsert(r)
  BY <1>8 DEF Next, vars, requestVars, Tick, CreateDomain, BeginVerify, RefuseVerify, MarkVerified,
       DeleteDomain
<1> QED
  BY <1>4, <1>5, <1>6, <1>7, <1>9

LEMMA SentStep == IInv /\ [Next]_vars => SentWithinCurve'
<1> SUFFICES ASSUME IInv, [Next]_vars,
                    NEW a \in Accounts, NEW d \in Days, sent'[a][d] > 0
             PROVE  (\E t \in 0..now : DayOf(t) = d /\ AtMost(sent[a][d], CurveAt(a, t)))'
  BY DEF SentWithinCurve
<1> USE DEF IInv
<1>1. CASE sent'[a][d] = sent[a][d]
  <2>1. sent[a][d] \in Nat /\ CapEarned(a, d, sent[a][d])
    BY <1>1 DEF SentWithinCurve, CapEarned, TypeOK
  <2> DEFINE c == sent[a][d]
  <2>2. \E t \in 0..now' : DayOf(t) = d /\ AtMost(c, dailyCapFor(DaysSince(firstVerified'[a], t)))
    BY <2>1, EarnedStable DEF CapEarned, CurveAt
  <2> QED
    BY <1>1, <2>2 DEF CurveAt
<1>2. ASSUME NEW r \in Requests, Upsert(r), sent'[a][d] # sent[a][d]
      PROVE  (\E t \in 0..now : DayOf(t) = d /\ AtMost(sent[a][d], CurveAt(a, t)))'
  <2>1. /\ account[r] = a /\ day[r] = d /\ sent[a][d] \in Nat
        /\ Permits(cap[r], sent[a][d]) /\ sent'[a][d] = sent[a][d] + 1
    BY <1>2 DEF Upsert, TypeOK, RequestsInv
  <2>2. CapEarned(a, d, cap[r])
    BY <1>2, <2>1 DEF Upsert, RequestsInv
  <2>3. PICK t \in 0..now : DayOf(t) = d /\ AtMost(cap[r], CurveAt(a, t))
    BY <2>2 DEF CapEarned
  <2>4. t \in Nat /\ firstVerified[a] \in Nat \cup {Null} /\ cap[r] \in Cap
    BY SendCapAssumption DEF TypeOK, Time
  <2>5. CurveAt(a, t) \in Cap
    BY <2>4, DaysSinceInt DEF CurveAt
  <2>6. AtMost(sent[a][d] + 1, cap[r])
    BY <2>1, <2>4, CurveAssumption DEF Permits, AtMost, Cap
  <2>7. AtMost(sent[a][d] + 1, CurveAt(a, t))
    <3> DEFINE n == sent[a][d] + 1
               c == cap[r]
               v == CurveAt(a, t)
    <3>1. n \in Int /\ c \in Cap /\ v \in Cap /\ AtMost(n, c) /\ AtMost(c, v)
      BY <2>1, <2>3, <2>4, <2>5, <2>6
    <3> HIDE DEF n, c, v
    <3>2. AtMost(n, v)
      BY <3>1, AtMostTransitive DEF Cap
    <3> QED
      BY <3>2 DEF n, v
  <2>8. now' = now /\ firstVerified' = firstVerified
    BY <1>2 DEF Upsert
  <2> QED
    BY <2>1, <2>3, <2>7, <2>8 DEF CurveAt
<1>3. sent' = sent \/ \E r \in Requests : Upsert(r)
  BY DEF Next, vars, Tick, CreateDomain, BeginVerify, RefuseVerify, MarkVerified, DeleteDomain,
       ReadOldest, ComputeCap
<1> QED
  BY <1>1, <1>2, <1>3

-----------------------------------------------------------------------------
LEMMA Inductive == Spec => []IInv
<1>1. IInv /\ [Next]_vars => IInv'
  BY TypeStep, DomainsStep, RequestsStep, SentStep DEF IInv
<1> QED
  BY InitIInv, <1>1, PTL DEF Spec

\* Every variable keeps its type (schema.ts:45-68 and 257-268, and the locals of
\* consumeAllowance, warmup.service.ts:43-80).
THEOREM TypeCorrect == Spec => []TypeOK
BY Inductive, PTL DEF IInv

\* The cap is enforced (README.md:95 "concurrent sends cannot both pass a
\* check-then-increment, and a refused attempt does not inflate the counter"):
\* no interleaving takes a day's counter past the curve of that day.
THEOREM CapEnforced == Spec => []SentWithinCurve
BY Inductive, PTL DEF IInv

-----------------------------------------------------------------------------
(* Refinement of the atomic quota *)

LEMMA QuotaInit == Init => Quota!QInit
BY DEF Init, Quota!QInit, Quota!Days, Quota!DayOf, Days, DayOf

LEMMA QuotaStep == IInv /\ [Next]_vars => [Quota!QNext]_<<sent, firstVerified, now>>
<1> SUFFICES ASSUME IInv, [Next]_vars
             PROVE  [Quota!QNext]_<<sent, firstVerified, now>>
  OBVIOUS
<1> USE DEF IInv
<1>1. CASE Tick
  BY <1>1 DEF Tick, Quota!QNext, Quota!QTick
<1>2. ASSUME NEW d \in Domains, MarkVerified(d)
      PROVE  [Quota!QNext]_<<sent, firstVerified, now>>
  <2>1. owner[d] \in Accounts
    BY <1>2, SendCapAssumption DEF MarkVerified, DomainsInv, TypeOK
  <2>2. CASE firstVerified[owner[d]] = Null
    <3>1. Quota!QStartCurve(owner[d])
      BY <1>2, <2>2 DEF MarkVerified, Quota!QStartCurve
    <3> QED
      BY <2>1, <3>1 DEF Quota!QNext
  <2>3. CASE firstVerified[owner[d]] # Null
    BY <1>2, <2>1, <2>3 DEF MarkVerified, TypeOK
  <2> QED
    BY <2>2, <2>3
<1>3. ASSUME NEW r \in Requests, Upsert(r)
      PROVE  [Quota!QNext]_<<sent, firstVerified, now>>
  <2> DEFINE a == account[r]
             d == day[r]
  <2>1. a \in Accounts /\ d \in Days /\ CapEarned(a, d, cap[r]) /\ sent[a][d] \in Nat
    BY <1>3 DEF Upsert, RequestsInv, TypeOK
  <2>2. CASE Permits(cap[r], sent[a][d])
    <3>1. PICK t \in 0..now : DayOf(t) = d /\ AtMost(cap[r], CurveAt(a, t))
      BY <2>1 DEF CapEarned
    <3>2. t \in Nat /\ firstVerified[a] \in Nat \cup {Null} /\ cap[r] \in Cap
      BY <2>1, SendCapAssumption DEF TypeOK, Time
    <3>3. CurveAt(a, t) \in Cap
      BY <3>2, DaysSinceInt DEF CurveAt
    <3>4. Permits(CurveAt(a, t), sent[a][d])
      BY <2>1, <2>2, <3>1, <3>2, <3>3, CurveAssumption DEF Permits, AtMost, Cap
    <3>5. /\ CurveAt(a, t) = Quota!CurveAt(firstVerified[a], t)
          /\ DayOf(t) = Quota!DayOf(t)
          /\ Days = Quota!Days
      BY DEF CurveAt, Quota!CurveAt, DaysSince, Quota!DaysSince, DayOf, Quota!DayOf, Days,
           Quota!Days, dailyCapFor, Quota!dailyCapFor
    <3>6. /\ sent' = [sent EXCEPT ![a][d] = @ + 1]
          /\ UNCHANGED <<firstVerified, now>>
      BY <1>3, <2>2 DEF Upsert
    <3>7. Quota!QGrant(a, d)
      <4>1. Quota!Permits(Quota!CurveAt(firstVerified[a], t), sent[a][d])
        BY <3>4, <3>5 DEF Permits, Quota!Permits
      <4> QED
        BY <3>1, <3>5, <3>6, <4>1 DEF Quota!QGrant
    <3> QED
      BY <2>1, <3>5, <3>7 DEF Quota!QNext
  <2>3. CASE ~Permits(cap[r], sent[a][d])
    BY <1>3, <2>3 DEF Upsert
  <2> QED
    BY <2>2, <2>3
<1>4. CASE UNCHANGED <<sent, firstVerified, now>>
  BY <1>4
<1> QED
  BY <1>1, <1>2, <1>3, <1>4 DEF Next, vars, CreateDomain, BeginVerify, RefuseVerify, DeleteDomain,
       ReadOldest, ComputeCap

\* consumeAllowance's SELECT, continuation and upsert, interleaved with every
\* other request and with the domain table, implement the one atomic step of
\* SendQuota (warmup.service.ts:43-80).
THEOREM QuotaImplemented == Spec => ImplementsQuota
<1>1. IInv /\ [Next]_vars => [Quota!QNext]_Quota!qvars
  BY QuotaStep DEF Quota!qvars
<1> QED
  BY QuotaInit, <1>1, Inductive, PTL DEF Spec, ImplementsQuota, Quota!QSpec

-----------------------------------------------------------------------------
(* Only time raises a cap *)

\* A step that leaves the clock alone adds at most a verification dated now to
\* an account's verified domains.
LEMMA VerifiedTimesStep ==
  ASSUME IInv, [Next]_vars, now' = now, NEW a \in Accounts, NEW t \in VerifiedTimes(a)'
  PROVE  t = now \/ t \in VerifiedTimes(a)
<1>1. PICK d \in Domains : owner'[d] = a /\ verifiedAt'[d] # Null /\ t = verifiedAt'[d]
  BY DEF VerifiedTimes
<1> USE DEF IInv, TypeOK, DomainsInv
<1>2. a # Null
  BY SendCapAssumption
<1>3. CASE owner'[d] = owner[d] /\ verifiedAt'[d] = verifiedAt[d]
  BY <1>1, <1>3 DEF VerifiedTimes
<1>4. ASSUME NEW e \in Domains, MarkVerified(e)
      PROVE  t = now \/ t \in VerifiedTimes(a)
  BY <1>1, <1>3, <1>4 DEF MarkVerified
<1>5. ASSUME NEW e \in Domains, DeleteDomain(e)
      PROVE  t = now \/ t \in VerifiedTimes(a)
  BY <1>1, <1>3, <1>5 DEF DeleteDomain
<1>6. ASSUME NEW b \in Accounts, NEW e \in Domains, CreateDomain(b, e)
      PROVE  t = now \/ t \in VerifiedTimes(a)
  BY <1>1, <1>3, <1>6 DEF CreateDomain
<1> QED
  BY <1>3, <1>4, <1>5, <1>6 DEF Next, vars, domainVars, Tick, BeginVerify, RefuseVerify,
       ReadOldest, ComputeCap, Upsert

LEMMA CapStep ==
  ASSUME IInv, [Next]_vars, now' = now, NEW a \in Accounts,
         NEW c \in CapsInForce(a), NEW n \in CapsInForce(a)'
  PROVE  AtMost(n, c)
<1>1. PICK s \in OldestVerified(a) : c = dailyCapFor(DaysSince(s, now))
  BY DEF CapsInForce
<1>2. PICK t \in OldestVerified(a)' : n = dailyCapFor(DaysSince(t, now'))
  BY DEF CapsInForce
<1>3. /\ now \in Nat
      /\ s \in Nat \cup {Null}
      /\ s = Null => VerifiedTimes(a) = {}
      /\ s # Null => s <= now /\ \A u \in VerifiedTimes(a) : s <= u
  BY OldestVerifiedFacts, SendCapAssumption DEF IInv, TypeOK, DomainsInv, Time
<1>4. TypeOK'
  BY TypeStep DEF IInv
<1>5. t # Null => t \in VerifiedTimes(a)' /\ t \in Nat
  BY <1>4, SendCapAssumption DEF OldestVerified, VerifiedTimes, TypeOK, Time
<1>6. CASE t = Null
  BY <1>1, <1>2, <1>3, <1>6, UnverifiedLowest
<1>7. CASE t # Null
  <2>1. t \in Nat /\ (t = now \/ t \in VerifiedTimes(a))
    BY <1>5, <1>7, VerifiedTimesStep
  <2>2. CASE s = Null
    <3>1. t = now
      BY <1>3, <2>1, <2>2
    <3>2. DaysSince(t, now) = 0 /\ DaysSince(Null, now) = 0
      BY <1>3, <1>7, <3>1, DivBounds, SendCapAssumption DEF DaysSince
    <3>3. n = c /\ c \in Cap
      BY <1>1, <1>2, <1>3, <2>2, <3>2, DaysSinceInt
    <3> QED
      BY <3>3, CurveAssumption DEF AtMost, Cap
  <2>3. CASE s # Null
    <3>1. s \in Nat /\ s <= t
      BY <1>3, <2>1, <2>3
    <3> QED
      BY <1>1, <1>2, <1>3, <2>1, <3>1, EarlierStart
  <2> QED
    BY <2>2, <2>3
<1> QED
  BY <1>6, <1>7

\* No domain operation earns its owner a higher cap the same instant, whatever
\* concurrent verifications overwrite (domain.service.ts:63-95).
THEOREM CapRisesWithTimeOnly == Spec => OnlyTimeRaisesCap
<1>1. IInv /\ [Next]_vars => [now' = now => \A a \in Accounts :
        \A c \in CapsInForce(a), n \in CapsInForce(a)' : AtMost(n, c)]_vars
  BY CapStep
<1> QED
  BY <1>1, Inductive, PTL DEF Spec, OnlyTimeRaisesCap
=============================================================================
