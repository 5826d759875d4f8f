------------------------- MODULE MailboxAuthProofs -------------------------
(***************************************************************************)
(* For any number of requests and tokens, any limit and lock length: the   *)
(* lockout's budget of wrong passwords, what rotation is worth, and which  *)
(* sessions may outlive a password change.                                 *)
(***************************************************************************)
EXTENDS MailboxAuth, FiniteSetTheorems, TLAPS

N == Cardinality(Requests)
Verifying == {r \in Requests : pc[r] = "verifying"}

(***************************************************************************)
(* The lockout.  The counter and the lock are reset together, so a counter *)
(* at the limit means a lock was set; and a login only starts unlocked, so *)
(* a lockout lets in no more than the logins it found verifying.           *)
(***************************************************************************)
LockInv ==
  /\ lockouts = 0 => failedLogins <= MAX_ATTEMPTS - 1 /\ lockedUntil = Null
  /\ lockouts > 0 =>
       /\ failedLogins >= MAX_ATTEMPTS
       /\ failedLogins <= MAX_ATTEMPTS + N * (lockouts - 1) + late
       /\ lockedUntil # Null
       /\ lockedUntil >= firstLock + lockouts * LOCK_MS
       /\ (lockouts - 1) * LOCK_MS <= now - firstLock
  /\ late <= N - 1
  /\ locked => late + Cardinality(Verifying) <= N - 1

(***************************************************************************)
(* The sessions.  A request opening a session on an older password than a  *)
(* purge revoked was under way when the purge ran.                         *)
(***************************************************************************)
SessionInv ==
  /\ revoked <= version
  /\ \A r \in Requests : pc[r] = "purge" => seen[r] <= version
  /\ \A r \in Requests : pc[r] \in Opening /\ seen[r] < revoked => r \in overtaken
  /\ StaleOnlyIfOvertaken

(***************************************************************************)
(* Rotation.  While a token has its row none was rotated from it and no    *)
(* request is past its deletion; once the row is gone no request finds it, *)
(* so its holders only turn into the tokens they are answered with.        *)
(***************************************************************************)
Children(t) == {u \in issued : parent[u] = t}
Holders(t) == {r \in Requests : token[r] = t}

RotationInv ==
  /\ \A r \in Requests :
       /\ token[r] # Null => token[r] \in issued /\ pc[r] \in {"found", "standing", "issue"}
       /\ pc[r] = "issue" => token[r] \notin sessions
  /\ \A u \in issued : parent[u] \in issued \cup {Null} /\ parent[u] \notin sessions
  /\ \A t \in issued : /\ IsFiniteSet(Children(t))
                       /\ Cardinality(Children(t)) + Cardinality(Holders(t)) <= N

-----------------------------------------------------------------------------
LEMMA InitInv == Init => TypeOK /\ LockInv /\ SessionInv /\ RotationInv
<1> SUFFICES ASSUME Init
             PROVE  TypeOK /\ LockInv /\ SessionInv /\ RotationInv
  OBVIOUS
<1>1. TypeOK
  BY AuthAssumption DEF Init, TypeOK
<1>2. N \in Nat /\ N >= 1
  BY AuthAssumption, FS_CardinalityType, FS_EmptySet DEF N
<1>3. LockInv
  BY <1>2, AuthAssumption DEF Init, LockInv, locked
<1>4. SessionInv
  BY DEF Init, SessionInv, StaleOnlyIfOvertaken, Opening
<1>5. RotationInv
  BY DEF Init, RotationInv
<1> QED
  BY <1>1, <1>3, <1>4, <1>5

LEMMA TypeStep == TypeOK /\ [Next]_vars => TypeOK'
<1> SUFFICES ASSUME TypeOK, [Next]_vars
             PROVE  TypeOK'
  OBVIOUS
<1> USE AuthAssumption DEF TypeOK, Opening, mailbox, store, request, lockHistory
<1>1. CASE Tick
  BY <1>1 DEF Tick
<1>2. CASE ToggleStanding
  BY <1>2 DEF ToggleStanding
<1>3. CASE DeleteMailbox
  BY <1>3 DEF DeleteMailbox
<1>4. ASSUME NEW r \in Requests, BeginLogin(r)
      PROVE  TypeOK'
  BY <1>4 DEF BeginLogin
<1>5. ASSUME NEW r \in Requests, RegisterFailedLogin(r)
      PROVE  TypeOK'
  BY <1>5 DEF RegisterFailedLogin, Goto
<1>6. ASSUME NEW r \in Requests, ClearFailedLogins(r)
      PROVE  TypeOK'
  BY <1>6 DEF ClearFailedLogins, Goto, ResetLock
<1>7. ASSUME NEW r \in Requests, Issue(r)
      PROVE  TypeOK'
  <2>1. CASE ~exists
    BY <1>7, <2>1 DEF Issue
  <2>2. CASE exists
    <3>1. PICK t \in Tokens \ issued :
            /\ sessions' = sessions \cup {t}
            /\ issued' = issued \cup {t}
            /\ expiresAt' = [expiresAt EXCEPT ![t] = now + REFRESH_TTL]
            /\ cred' = [cred EXCEPT ![t] = seen[r]]
            /\ parent' = [parent EXCEPT ![t] = token[r]]
            /\ overtaken' = IF r \in overtaken THEN (overtaken \cup {t}) \ {r} ELSE overtaken
      BY <1>7, <2>2 DEF Issue
    <3>2. expiresAt' \in [Tokens -> 0..(MaxTime + REFRESH_TTL)]
      BY <3>1
    <3>3. cred' \in [Tokens -> Nat] /\ parent' \in [Tokens -> Tokens \cup {Null}]
      BY <3>1
    <3>4. sessions' \subseteq issued' /\ issued' \subseteq Tokens
      BY <3>1
    <3>5. overtaken' \subseteq Requests \cup Tokens
      BY <3>1
    <3> QED
      BY <1>7, <3>2, <3>3, <3>4, <3>5 DEF Issue
  <2> QED
    BY <2>1, <2>2
<1>8. ASSUME NEW r \in Requests, NEW t \in Tokens, BeginRefresh(r, t)
      PROVE  TypeOK'
  BY <1>8 DEF BeginRefresh
<1>9. ASSUME NEW r \in Requests, CheckStanding(r) \/ DeleteByHash(r)
      PROVE  TypeOK'
  BY <1>9 DEF CheckStanding, DeleteByHash, Goto
<1>10. ASSUME NEW t \in Tokens, Logout(t)
       PROVE  TypeOK'
  BY <1>10 DEF Logout
<1>11. ASSUME NEW r \in Requests, NEW how \in {"change", "set"}, BeginReplace(r, how)
       PROVE  TypeOK'
  BY <1>11 DEF BeginReplace
<1>12. ASSUME NEW r \in Requests, SetPasswordHash(r)
       PROVE  TypeOK'
  BY <1>12 DEF SetPasswordHash, ResetLock
<1>13. ASSUME NEW r \in Requests, DeleteForMailbox(r)
       PROVE  TypeOK'
  BY <1>13 DEF DeleteForMailbox
<1>14. CASE UNCHANGED vars
  BY <1>14 DEF vars
<1> QED
  BY <1>1, <1>2, <1>3, <1>4, <1>5, <1>6, <1>7, <1>8, <1>9, <1>10, <1>11, <1>12, <1>13, <1>14
     DEF Next

-----------------------------------------------------------------------------
(* The lockout *)

LEMMA VerifyingFinite ==
  /\ N \in Nat /\ N >= 1
  /\ IsFiniteSet(Verifying) /\ Cardinality(Verifying) \in Nat
  /\ \A r \in Verifying : Cardinality(Verifying \ {r}) = Cardinality(Verifying) - 1
  /\ \A r \in Requests : Cardinality(Verifying \ {r}) <= N - 1
<1>1. N \in Nat /\ N >= 1
  BY AuthAssumption, FS_CardinalityType, FS_EmptySet DEF N
<1>2. IsFiniteSet(Verifying) /\ Cardinality(Verifying) \in Nat
  BY AuthAssumption, FS_Subset, FS_CardinalityType DEF Verifying
<1>3. ASSUME NEW r \in Verifying
      PROVE  Cardinality(Verifying \ {r}) = Cardinality(Verifying) - 1
  BY <1>2, FS_RemoveElement
<1>4. ASSUME NEW r \in Requests
      PROVE  Cardinality(Verifying \ {r}) <= N - 1
  <2>1. IsFiniteSet(Requests \ {r}) /\ Cardinality(Requests \ {r}) = N - 1
    BY AuthAssumption, FS_RemoveElement DEF N
  <2>2. Verifying \ {r} \in SUBSET (Requests \ {r})
    BY DEF Verifying
  <2> QED
    BY <2>1, <2>2, FS_Subset
<1> QED
  BY <1>1, <1>2, <1>3, <1>4

\* A step that neither touches the lock nor starts a verification.
LEMMA LockUntouched ==
  ASSUME TypeOK, TypeOK', LockInv,
         UNCHANGED <<failedLogins, lockedUntil, lockHistory>>,
         now <= now',
         locked' => Verifying' \subseteq Verifying
  PROVE  LockInv'
<1>0. now <= now'
  OBVIOUS
<1>1. /\ now \in Nat /\ now' \in Nat /\ firstLock \in Nat /\ late \in Nat /\ lockouts \in Nat
      /\ lockedUntil \in Nat \cup {Null}
  BY AuthAssumption DEF TypeOK
<1>2. locked' => locked
  BY <1>1, AuthAssumption DEF locked
<1>3. locked' => late' + Cardinality(Verifying') <= N - 1
  <2> SUFFICES ASSUME locked'
               PROVE  late' + Cardinality(Verifying') <= N - 1
    OBVIOUS
  <2> DEFINE W == Verifying'
  <2>1. W \subseteq Verifying /\ late + Cardinality(Verifying) <= N - 1 /\ late' = late
    BY <1>2 DEF LockInv, lockHistory
  <2> HIDE DEF W
  <2>2. Cardinality(W) <= Cardinality(Verifying) /\ Cardinality(W) \in Nat
    BY <2>1, VerifyingFinite, FS_Subset, FS_CardinalityType
  <2>3. late + Cardinality(W) <= N - 1
    BY <1>1, <2>1, <2>2, VerifyingFinite
  <2> QED
    BY <2>1, <2>3 DEF W
<1>4. lockouts > 0 => ((lockouts - 1) * LOCK_MS) <= (now' - firstLock)
  <2> SUFFICES ASSUME lockouts > 0
               PROVE  ((lockouts - 1) * LOCK_MS) <= (now' - firstLock)
    OBVIOUS
  <2> DEFINE m == (lockouts - 1) * LOCK_MS
             next == now'
  <2>1. m \in Int /\ m <= now - firstLock
    BY <1>1, AuthAssumption DEF LockInv
  <2>2. next \in Nat /\ now <= next
    BY <1>0, <1>1
  <2> HIDE DEF m, next
  <2>3. m <= next - firstLock
    BY <1>1, <2>1, <2>2
  <2> QED
    BY <2>3 DEF m, next
<1> QED
  BY <1>3, <1>4 DEF LockInv, lockHistory, N

\* A correct password or a new one resets the counter, the lock and the history.
LEMMA LockReset ==
  ASSUME TypeOK, ResetLock
  PROVE  LockInv'
<1>1. N \in Nat /\ N >= 1
  BY VerifyingFinite
<1>2. N' = N
  BY DEF N
<1> QED
  BY <1>1, <1>2, AuthAssumption DEF ResetLock, LockInv, locked

LEMMA LockFailure ==
  ASSUME TypeOK, TypeOK', LockInv, NEW r \in Requests, RegisterFailedLogin(r)
  PROVE  LockInv'
<1> DEFINE V == Cardinality(Verifying)
           W == Cardinality(Verifying')
           lo == lockouts
<1>1. /\ now \in Nat /\ now' = now /\ firstLock \in Nat /\ late \in Nat /\ lo \in Nat
      /\ failedLogins \in Nat /\ lockedUntil \in Nat \cup {Null}
      /\ firstLock <= MaxTime /\ MAX_ATTEMPTS \in Nat /\ LOCK_MS \in Nat /\ LOCK_MS > 0
      /\ Null \notin Int
  BY AuthAssumption DEF TypeOK, RegisterFailedLogin
<1>2. r \in Verifying /\ Verifying' = Verifying \ {r}
  BY DEF RegisterFailedLogin, Goto, Verifying, TypeOK
<1>3. W = V - 1 /\ W <= N - 1 /\ V \in Nat /\ W \in Nat /\ N \in Nat /\ N >= 1 /\ N' = N
  <2>1. W = V - 1 /\ W <= N - 1
    BY <1>2, VerifyingFinite
  <2>2. V \in Nat /\ N \in Nat /\ N >= 1
    BY VerifyingFinite
  <2>3. W \in Nat
    BY <1>2, VerifyingFinite, FS_RemoveElement, FS_CardinalityType
  <2> QED
    BY <2>1, <2>2, <2>3 DEF N
<1>4. /\ failedLogins' = failedLogins + 1
      /\ lockedUntil' = IF failedLogins + 1 >= MAX_ATTEMPTS THEN now + LOCK_MS ELSE lockedUntil
  BY DEF RegisterFailedLogin
<1>5. CASE locked
  <2>1. /\ late' = late + 1 /\ lockouts' = lo /\ firstLock' = firstLock
        /\ late + V <= N - 1 /\ lo > 0 /\ lockedUntil' = now + LOCK_MS
    BY <1>1, <1>4, <1>5 DEF RegisterFailedLogin, LockInv, locked
  <2> DEFINE k == N * (lo - 1)
             m == (lo - 1) * LOCK_MS
  <2>2. k \in Int /\ m \in Int /\ lo * LOCK_MS = m + LOCK_MS
    BY <1>1, <1>3
  <2>3. failedLogins >= MAX_ATTEMPTS /\ failedLogins <= MAX_ATTEMPTS + k + late /\ m <= now - firstLock
    BY <2>1 DEF LockInv
  <2> DEFINE p == lo * LOCK_MS
  <2> HIDE DEF V, W, k, m, p
  <2>4. /\ failedLogins' >= MAX_ATTEMPTS
        /\ failedLogins' <= MAX_ATTEMPTS + k + late'
        /\ lockedUntil' # Null
        /\ lockedUntil' >= firstLock + p
        /\ m <= now - firstLock
        /\ late' <= N - 1
        /\ late' + W <= N - 1
    BY <1>1, <1>3, <1>4, <2>1, <2>2, <2>3 DEF p
  <2> QED
    BY <1>1, <1>3, <2>1, <2>4 DEF LockInv, W, k, m, p
<1>6. CASE ~locked /\ failedLogins + 1 < MAX_ATTEMPTS
  <2>1. /\ late' = 0 /\ lo = 0 /\ lockouts' = 0 /\ lockedUntil = Null /\ lockedUntil' = Null
    BY <1>1, <1>4, <1>6 DEF RegisterFailedLogin, LockInv, locked
  <2> QED
    BY <1>1, <1>3, <1>4, <1>6, <2>1 DEF LockInv, locked
<1>7. CASE ~locked /\ failedLogins + 1 >= MAX_ATTEMPTS
  <2>1. late' = 0 /\ lockouts' = lo + 1 /\ lockedUntil' = now + LOCK_MS
        /\ firstLock' = IF lo = 0 THEN now ELSE firstLock
    BY <1>1, <1>4, <1>7 DEF RegisterFailedLogin, LockInv, locked
  <2>2. CASE lo = 0
    <3>1. failedLogins <= MAX_ATTEMPTS - 1 /\ lockouts' = 1 /\ firstLock' = now
      BY <2>1, <2>2 DEF LockInv
    <3>2. N * (1 - 1) = 0 /\ 1 * LOCK_MS = LOCK_MS /\ (1 - 1) * LOCK_MS = 0
      BY <1>1, <1>3
    <3> HIDE DEF W
    <3> QED
      BY <1>1, <1>3, <1>4, <1>7, <2>1, <3>1, <3>2 DEF LockInv, W
  <2>3. CASE lo > 0
    <3> DEFINE k == N * (lo - 1)
               p == lo * LOCK_MS
    <3>1. /\ failedLogins >= MAX_ATTEMPTS /\ failedLogins <= MAX_ATTEMPTS + k + late
          /\ lockedUntil \in Nat /\ lockedUntil >= firstLock + p /\ late <= N - 1
      BY <1>1, <2>3 DEF LockInv
    <3>2. lockedUntil <= now
      BY <1>1, <1>7, <3>1 DEF locked
    <3>3. /\ N * (lo + 1 - 1) = k + N /\ k \in Int /\ p \in Int
          /\ (lo + 1) * LOCK_MS = p + LOCK_MS /\ (lo + 1 - 1) * LOCK_MS = p
      BY <1>1, <1>3
    <3> HIDE DEF V, W, k, p
    <3>4. /\ failedLogins' >= MAX_ATTEMPTS
          /\ failedLogins' <= MAX_ATTEMPTS + (k + N) + late'
          /\ lockedUntil' # Null
          /\ lockedUntil' >= firstLock' + (p + LOCK_MS)
          /\ p <= now' - firstLock'
          /\ late' <= N - 1
          /\ late' + W <= N - 1
      BY <1>1, <1>3, <1>4, <2>1, <2>3, <3>1, <3>2, <3>3
    <3> QED
      BY <1>1, <1>3, <2>1, <2>3, <3>3, <3>4 DEF LockInv, W
  <2> QED
    BY <1>1, <2>2, <2>3
<1> QED
  BY <1>1, <1>5, <1>6, <1>7

LEMMA LockStep ==
  ASSUME TypeOK, TypeOK', LockInv, [Next]_vars
  PROVE  LockInv'
<1> USE DEF mailbox, store, request, lockHistory
<1>0. now \in Nat /\ now' \in Nat /\ (now' = now => now <= now')
  BY AuthAssumption DEF TypeOK
<1>1. CASE Tick
  <2>1. /\ UNCHANGED <<failedLogins, lockedUntil, lockHistory>>
        /\ now <= now' /\ Verifying' \subseteq Verifying
    BY <1>0, <1>1 DEF Tick, Verifying
  <2> QED
    BY <2>1, LockUntouched
<1>2. CASE \/ ToggleStanding \/ DeleteMailbox \/ UNCHANGED vars
           \/ \E t \in Tokens : Logout(t)
  <2>1. /\ UNCHANGED <<failedLogins, lockedUntil, lockHistory>>
        /\ now' = now /\ Verifying' \subseteq Verifying
    BY <1>2 DEF ToggleStanding, DeleteMailbox, Logout, vars, Verifying
  <2> QED
    BY <1>0, <2>1, LockUntouched
<1>3. ASSUME NEW r \in Requests, BeginLogin(r)
      PROVE  LockInv'
  <2>1. UNCHANGED <<failedLogins, lockedUntil, lockHistory>> /\ now' = now /\ ~locked'
    BY <1>3 DEF BeginLogin, locked
  <2> QED
    BY <1>0, <2>1, LockUntouched
<1>4. ASSUME NEW r \in Requests, RegisterFailedLogin(r)
      PROVE  LockInv'
  BY <1>4, LockFailure
<1>5. ASSUME NEW r \in Requests, ClearFailedLogins(r) \/ SetPasswordHash(r)
      PROVE  LockInv'
  BY <1>5, LockReset DEF ClearFailedLogins, SetPasswordHash
<1>6. ASSUME NEW r \in Requests,
             \/ Issue(r) \/ CheckStanding(r) \/ DeleteByHash(r) \/ DeleteForMailbox(r)
             \/ \E t \in Tokens : BeginRefresh(r, t)
             \/ \E how \in {"change", "set"} : BeginReplace(r, how)
      PROVE  LockInv'
  <2>1. UNCHANGED <<failedLogins, lockedUntil, lockHistory>> /\ now' = now
    BY <1>6 DEF Issue, CheckStanding, DeleteByHash, DeleteForMailbox, BeginRefresh, BeginReplace
  <2>2. \E step \in {"idle", "issue", "standing", "found", "change", "set"} :
          pc' = [pc EXCEPT ![r] = step]
    BY <1>6
       DEF Issue, CheckStanding, DeleteByHash, DeleteForMailbox, BeginRefresh, BeginReplace, Goto
  <2>3. Verifying' \subseteq Verifying
    BY <2>2 DEF Verifying, TypeOK
  <2> QED
    BY <1>0, <2>1, <2>3, LockUntouched
<1> QED
  BY <1>1, <1>2, <1>3, <1>4, <1>5, <1>6 DEF Next

\* The budget follows: a lockout's late failures are at most N - 1.
LEMMA LockImpliesBudget == TypeOK /\ LockInv => GuessBudget
<1> SUFFICES ASSUME TypeOK, LockInv
             PROVE  GuessBudget
  OBVIOUS
<1>1. N \in Nat /\ N >= 1
  BY VerifyingFinite
<1>2. lockouts \in Nat /\ failedLogins \in Nat /\ late \in Nat /\ MAX_ATTEMPTS \in Nat
  BY AuthAssumption DEF TypeOK
<1>3. CASE lockouts = 0
  <2>1. N * 0 = 0
    BY <1>1
  <2> QED
    BY <1>2, <1>3, <2>1 DEF LockInv, GuessBudget, N
<1>4. CASE lockouts > 0
  <2> DEFINE k == N * (lockouts - 1)
  <2>1. k \in Int /\ N * lockouts = k + N
    BY <1>1, <1>2
  <2>2. failedLogins <= MAX_ATTEMPTS + k + late /\ late <= N - 1
    BY <1>4 DEF LockInv
  <2> HIDE DEF k
  <2>3. failedLogins <= MAX_ATTEMPTS - 1 + (k + N)
    BY <1>1, <1>2, <2>1, <2>2
  <2> QED
    BY <1>4, <2>1, <2>3 DEF LockInv, GuessBudget, N
<1> QED
  BY <1>2, <1>3, <1>4

-----------------------------------------------------------------------------
(* The sessions *)

LEMMA SessionStep ==
  ASSUME TypeOK, SessionInv, [Next]_vars
  PROVE  SessionInv'
<1> USE AuthAssumption DEF TypeOK, Opening, SessionInv, StaleOnlyIfOvertaken,
        mailbox, store, request, lockHistory
<1>1. CASE Tick \/ ToggleStanding \/ DeleteMailbox \/ UNCHANGED vars
  BY <1>1 DEF Tick, ToggleStanding, DeleteMailbox, vars
<1>2. ASSUME NEW r \in Requests, BeginLogin(r)
      PROVE  SessionInv'
  BY <1>2 DEF BeginLogin
<1>3. ASSUME NEW r \in Requests, RegisterFailedLogin(r) \/ ClearFailedLogins(r)
      PROVE  SessionInv'
  BY <1>3 DEF RegisterFailedLogin, ClearFailedLogins, Goto, ResetLock
<1>4. ASSUME NEW r \in Requests, Issue(r)
      PROVE  SessionInv'
  <2>1. CASE ~exists
    BY <1>4, <2>1 DEF Issue
  <2>2. CASE exists
    <3>1. PICK t \in Tokens \ issued :
            /\ sessions' = sessions \cup {t}
            /\ cred' = [cred EXCEPT ![t] = seen[r]]
            /\ overtaken' = IF r \in overtaken THEN (overtaken \cup {t}) \ {r} ELSE overtaken
      BY <1>4, <2>2 DEF Issue
    <3>2. /\ pc[r] = "issue" /\ UNCHANGED <<version, revoked>>
          /\ pc' = [pc EXCEPT ![r] = "idle"] /\ seen' = [seen EXCEPT ![r] = 0]
      BY <1>4 DEF Issue
    <3>3. t # r /\ \A u \in sessions : u # r
      OBVIOUS
    <3>4. StaleOnlyIfOvertaken'
      BY <3>1, <3>2, <3>3
    <3>5. \A q \in Requests : pc'[q] \in Opening /\ seen'[q] < revoked' => q \in overtaken'
      BY <3>1, <3>2
    <3>6. \A q \in Requests : pc'[q] = "purge" => seen'[q] <= version'
      BY <3>2
    <3> QED
      BY <3>2, <3>4, <3>5, <3>6
  <2> QED
    BY <2>1, <2>2
<1>5. ASSUME NEW r \in Requests, NEW t \in Tokens, BeginRefresh(r, t)
      PROVE  SessionInv'
  BY <1>5 DEF BeginRefresh
<1>6. ASSUME NEW r \in Requests, CheckStanding(r) \/ DeleteByHash(r)
      PROVE  SessionInv'
  BY <1>6 DEF CheckStanding, DeleteByHash, Goto
<1>7. ASSUME NEW t \in Tokens, Logout(t)
      PROVE  SessionInv'
  BY <1>7 DEF Logout
<1>8. ASSUME NEW r \in Requests, NEW how \in {"change", "set"}, BeginReplace(r, how)
      PROVE  SessionInv'
  BY <1>8 DEF BeginReplace
<1>9. ASSUME NEW r \in Requests, SetPasswordHash(r)
      PROVE  SessionInv'
  BY <1>9 DEF SetPasswordHash, ResetLock
<1>10. ASSUME NEW r \in Requests, DeleteForMailbox(r)
       PROVE  SessionInv'
  BY <1>10 DEF DeleteForMailbox
<1> QED
  BY <1>1, <1>2, <1>3, <1>4, <1>5, <1>6, <1>7, <1>8, <1>9, <1>10 DEF Next

-----------------------------------------------------------------------------
(* Rotation *)

LEMMA HoldersFinite ==
  ASSUME NEW t
  PROVE  /\ IsFiniteSet(Holders(t)) /\ Cardinality(Holders(t)) \in Nat
         /\ Cardinality(Holders(t)) <= N /\ N \in Nat
BY AuthAssumption, FS_Subset, FS_CardinalityType DEF Holders, N

\* A step that issues no token, in which no request takes one up.
LEMMA RotationUntouched ==
  ASSUME TypeOK, RotationInv,
         UNCHANGED <<issued, parent>>, sessions' \subseteq sessions,
         \A r \in Requests :
           /\ token'[r] \in {token[r], Null}
           /\ token'[r] # Null => pc'[r] \in {"found", "standing", "issue"}
           /\ pc'[r] = "issue" => pc[r] = "issue" \/ token'[r] \notin sessions'
  PROVE  RotationInv'
<1>1. \A r \in Requests :
        /\ token'[r] # Null => token'[r] \in issued' /\ pc'[r] \in {"found", "standing", "issue"}
        /\ pc'[r] = "issue" => token'[r] \notin sessions'
  BY AuthAssumption DEF TypeOK, RotationInv
<1>2. \A u \in issued' : parent'[u] \in issued' \cup {Null} /\ parent'[u] \notin sessions'
  BY DEF RotationInv
<1>3. ASSUME NEW t \in issued'
      PROVE  /\ IsFiniteSet(Children(t)')
             /\ Cardinality(Children(t)') + Cardinality(Holders(t)') <= N
  <2>1. Children(t)' = Children(t) /\ t \in issued
    BY DEF Children
  <2>2. Holders(t)' \subseteq Holders(t)
    BY <2>1, AuthAssumption DEF Holders, TypeOK
  <2> DEFINE H == Holders(t)'
             C == Cardinality(Children(t))
  <2>3. /\ IsFiniteSet(Children(t)) /\ C \in Nat
        /\ C + Cardinality(Holders(t)) <= N
    BY <2>1, FS_CardinalityType DEF RotationInv
  <2>4. H \subseteq Holders(t)
    BY <2>2
  <2> HIDE DEF H, C
  <2>5. Cardinality(H) <= Cardinality(Holders(t)) /\ Cardinality(H) \in Nat
    BY <2>4, HoldersFinite, FS_Subset, FS_CardinalityType
  <2>6. C + Cardinality(H) <= N
    BY <2>3, <2>5, HoldersFinite
  <2> QED
    BY <2>1, <2>3, <2>6 DEF H, C
<1>4. N' = N
  BY DEF N
<1> QED
  BY <1>1, <1>2, <1>3, <1>4 DEF RotationInv

LEMMA RotationBegin ==
  ASSUME TypeOK, RotationInv, NEW r \in Requests, NEW t \in Tokens, BeginRefresh(r, t)
  PROVE  RotationInv'
<1> USE DEF store
<1>1. /\ UNCHANGED <<issued, parent, sessions>> /\ t \in sessions /\ t \in issued
      /\ pc' = [pc EXCEPT ![r] = "found"] /\ token' = [token EXCEPT ![r] = t] /\ N' = N
  BY DEF BeginRefresh, TypeOK, N
<1>2. \A q \in Requests :
        /\ token'[q] # Null => token'[q] \in issued' /\ pc'[q] \in {"found", "standing", "issue"}
        /\ pc'[q] = "issue" => token'[q] \notin sessions'
  BY <1>1 DEF TypeOK, RotationInv
<1>3. \A u \in issued' : parent'[u] \in issued' \cup {Null} /\ parent'[u] \notin sessions'
  BY <1>1 DEF RotationInv
<1>4. ASSUME NEW w \in issued
      PROVE  /\ IsFiniteSet(Children(w)')
             /\ Cardinality(Children(w)') + Cardinality(Holders(w)') <= N
  <2>1. Children(w)' = Children(w)
    BY <1>1 DEF Children
  <2> DEFINE H == Holders(w)'
             C == Cardinality(Children(w))
  <2>2. /\ IsFiniteSet(Children(w)) /\ C \in Nat
        /\ C + Cardinality(Holders(w)) <= N
    BY FS_CardinalityType DEF RotationInv
  <2>3. CASE w = t
    <3>1. Children(w) = {}
      BY <1>1, <2>3 DEF Children, RotationInv
    <3>2. C = 0
      BY <3>1, FS_EmptySet
    <3>3. H \subseteq Requests
      BY DEF Holders
    <3> HIDE DEF H, C
    <3>4. Cardinality(H) <= N /\ Cardinality(H) \in Nat
      BY <3>3, AuthAssumption, FS_Subset, FS_CardinalityType DEF N
    <3>5. C + Cardinality(H) <= N
      BY <3>2, <3>4
    <3> QED
      BY <2>1, <2>2, <3>5 DEF H, C
  <2>4. CASE w # t
    <3>1. H \subseteq Holders(w)
      BY <1>1, <2>4 DEF Holders, TypeOK
    <3> HIDE DEF H, C
    <3>2. Cardinality(H) <= Cardinality(Holders(w)) /\ Cardinality(H) \in Nat
      BY <3>1, HoldersFinite, FS_Subset, FS_CardinalityType
    <3>3. C + Cardinality(H) <= N
      BY <2>2, <3>2, HoldersFinite
    <3> QED
      BY <2>1, <2>2, <3>3 DEF H, C
  <2> QED
    BY <2>3, <2>4
<1> QED
  BY <1>1, <1>2, <1>3, <1>4 DEF RotationInv

LEMMA RotationIssue ==
  ASSUME TypeOK, RotationInv, NEW r \in Requests, Issue(r), exists
  PROVE  RotationInv'
<1>1. PICK n \in Tokens \ issued :
        /\ sessions' = sessions \cup {n}
        /\ issued' = issued \cup {n}
        /\ parent' = [parent EXCEPT ![n] = token[r]]
  BY DEF Issue
<1>2. /\ pc[r] = "issue" /\ pc' = [pc EXCEPT ![r] = "idle"]
      /\ token' = [token EXCEPT ![r] = Null] /\ N' = N
  BY DEF Issue, N
<1>3. \A q \in Requests : token[q] # n
  BY <1>1, AuthAssumption DEF RotationInv
<1>4. token[r] \in issued \cup {Null} /\ token[r] \notin sessions'
  BY <1>1, <1>2, <1>3, AuthAssumption DEF RotationInv
<1>5. \A q \in Requests :
        /\ token'[q] # Null => token'[q] \in issued' /\ pc'[q] \in {"found", "standing", "issue"}
        /\ pc'[q] = "issue" => token'[q] \notin sessions'
  BY <1>1, <1>2, <1>3 DEF TypeOK, RotationInv
<1>6. parent'[n] = token[r] /\ \A u \in issued : parent'[u] = parent[u]
  BY <1>1 DEF TypeOK
<1>7. \A u \in issued : parent[u] # n
  BY <1>1, AuthAssumption DEF RotationInv
<1>8. \A u \in issued' : parent'[u] \in issued' \cup {Null} /\ parent'[u] \notin sessions'
  BY <1>1, <1>4, <1>6, <1>7 DEF RotationInv
<1>9. ASSUME NEW w \in issued'
      PROVE  /\ IsFiniteSet(Children(w)')
             /\ Cardinality(Children(w)') + Cardinality(Holders(w)') <= N
  <2> DEFINE H == Holders(w)'
             D == Children(w)'
  <2>1. CASE w = n
    <3>1. D = {}
      BY <1>1, <1>3, <1>6, <1>7, <2>1 DEF Children
    <3>2. H = {}
      BY <1>1, <1>2, <1>3, <2>1, AuthAssumption DEF Holders, TypeOK
    <3> QED
      BY <3>1, <3>2, FS_EmptySet, HoldersFinite
  <2>2. CASE w # n /\ token[r] = w
    <3>1. D = Children(w) \cup {n} /\ n \notin Children(w)
      BY <1>1, <1>6, <2>2 DEF Children
    <3>2. H = Holders(w) \ {r} /\ r \in Holders(w)
      <4>1. w # Null
        BY <1>1, <2>2, AuthAssumption DEF TypeOK
      <4>2. \A q \in Requests : token'[q] = IF q = r THEN Null ELSE token[q]
        BY <1>2 DEF TypeOK
      <4> QED
        BY <2>2, <4>1, <4>2 DEF Holders
    <3>3. w \in issued
      BY <1>1, <2>2
    <3>4. /\ IsFiniteSet(Children(w)) /\ Cardinality(Children(w)) \in Nat
          /\ Cardinality(Children(w)) + Cardinality(Holders(w)) <= N
      BY <3>3, FS_CardinalityType DEF RotationInv
    <3> HIDE DEF H, D
    <3>5. IsFiniteSet(D) /\ Cardinality(D) = Cardinality(Children(w)) + 1
      BY <3>1, <3>4, FS_AddElement
    <3>6. Cardinality(H) = Cardinality(Holders(w)) - 1
      BY <3>2, HoldersFinite, FS_RemoveElement
    <3>7. Cardinality(D) + Cardinality(H) <= N
      BY <3>4, <3>5, <3>6, HoldersFinite
    <3> QED
      BY <3>5, <3>7 DEF H, D
  <2>3. CASE w # n /\ token[r] # w
    <3>1. D = Children(w) /\ w \in issued
      BY <1>1, <1>6, <2>3 DEF Children
    <3>2. H = Holders(w)
      BY <1>1, <1>2, <2>3, <3>1, AuthAssumption DEF Holders, TypeOK
    <3>3. /\ IsFiniteSet(Children(w))
          /\ Cardinality(Children(w)) + Cardinality(Holders(w)) <= N
      BY <3>1 DEF RotationInv
    <3> QED
      BY <3>1, <3>2, <3>3
  <2> QED
    BY <2>1, <2>2, <2>3
<1> QED
  BY <1>2, <1>5, <1>8, <1>9 DEF RotationInv

LEMMA RotationStep ==
  ASSUME TypeOK, RotationInv, [Next]_vars
  PROVE  RotationInv'
<1> USE AuthAssumption DEF TypeOK, mailbox, store, request
<1> DEFINE Quiet(q) == /\ token'[q] \in {token[q], Null}
                       /\ token'[q] # Null => pc'[q] \in {"found", "standing", "issue"}
                       /\ pc'[q] = "issue" => pc[q] = "issue" \/ token'[q] \notin sessions'
<1>1. CASE \/ Tick \/ ToggleStanding \/ DeleteMailbox \/ UNCHANGED vars
           \/ \E t \in Tokens : Logout(t)
  <2>1. UNCHANGED <<issued, parent, token, pc>> /\ sessions' \subseteq sessions
    BY <1>1 DEF Tick, ToggleStanding, DeleteMailbox, Logout, vars
  <2>2. \A q \in Requests : Quiet(q)
    BY <2>1 DEF RotationInv
  <2> QED
    BY <2>1, <2>2, RotationUntouched
<1>2. ASSUME NEW r \in Requests,
             \/ BeginLogin(r) \/ RegisterFailedLogin(r) \/ ClearFailedLogins(r)
             \/ CheckStanding(r) \/ DeleteByHash(r) \/ SetPasswordHash(r) \/ DeleteForMailbox(r)
             \/ \E how \in {"change", "set"} : BeginReplace(r, how)
      PROVE  RotationInv'
  <2>1. UNCHANGED <<issued, parent>> /\ sessions' \subseteq sessions
    BY <1>2 DEF BeginLogin, RegisterFailedLogin, ClearFailedLogins, CheckStanding, DeleteByHash,
                SetPasswordHash, DeleteForMailbox, BeginReplace, Goto
  <2>2. \A q \in Requests \ {r} : pc'[q] = pc[q] /\ token'[q] = token[q]
    BY <1>2 DEF BeginLogin, RegisterFailedLogin, ClearFailedLogins, CheckStanding, DeleteByHash,
                SetPasswordHash, DeleteForMailbox, BeginReplace, Goto
  <2>3. pc[r] # "issue" /\ (pc[r] \notin {"found", "standing"} => token[r] = Null)
    BY <1>2 DEF BeginLogin, RegisterFailedLogin, ClearFailedLogins, CheckStanding, DeleteByHash,
                SetPasswordHash, DeleteForMailbox, BeginReplace, RotationInv
  <2>4. CASE \/ BeginLogin(r) \/ SetPasswordHash(r) \/ DeleteForMailbox(r)
             \/ RegisterFailedLogin(r) \/ ClearFailedLogins(r)
             \/ \E how \in {"change", "set"} : BeginReplace(r, how)
    <3>1. pc[r] \notin {"found", "standing"}
      BY <2>4 DEF BeginLogin, RegisterFailedLogin, ClearFailedLogins, SetPasswordHash,
                  DeleteForMailbox, BeginReplace
    <3>2. token'[r] \in {token[r], Null}
      BY <2>4 DEF BeginLogin, RegisterFailedLogin, ClearFailedLogins, SetPasswordHash,
                  DeleteForMailbox, BeginReplace, Goto
    <3>3. token'[r] = Null /\ Null \notin sessions'
      BY <2>1, <2>3, <3>1, <3>2
    <3>4. Quiet(r)
      BY <3>3
    <3>5. \A q \in Requests : Quiet(q)
      BY <2>2, <3>4 DEF RotationInv
    <3> QED
      BY <2>1, <3>5, RotationUntouched
  <2>5. CASE CheckStanding(r)
    <3>1. Quiet(r)
      BY <2>5 DEF CheckStanding, Goto
    <3>2. \A q \in Requests : Quiet(q)
      BY <2>2, <3>1 DEF RotationInv
    <3> QED
      BY <2>1, <3>2, RotationUntouched
  <2>6. CASE DeleteByHash(r)
    <3>1. Quiet(r)
      BY <2>6 DEF DeleteByHash, Goto
    <3>2. \A q \in Requests : Quiet(q)
      BY <2>2, <3>1 DEF RotationInv
    <3> QED
      BY <2>1, <3>2, RotationUntouched
  <2> QED
    BY <1>2, <2>4, <2>5, <2>6
<1>3. ASSUME NEW r \in Requests, NEW t \in Tokens, BeginRefresh(r, t)
      PROVE  RotationInv'
  BY <1>3, RotationBegin
<1>4. ASSUME NEW r \in Requests, Issue(r), ~exists
      PROVE  RotationInv'
  <2>1. UNCHANGED <<issued, parent, sessions>>
    BY <1>4 DEF Issue
  <2>2. \A q \in Requests : Quiet(q)
    BY <1>4 DEF Issue, RotationInv
  <2> QED
    BY <2>1, <2>2, RotationUntouched
<1>5. ASSUME NEW r \in Requests, Issue(r), exists
      PROVE  RotationInv'
  BY <1>5, RotationIssue
<1> QED
  BY <1>1, <1>2, <1>3, <1>4, <1>5 DEF Next

LEMMA RotationImpliesBudget == TypeOK /\ RotationInv => RotationBudget
BY AuthAssumption DEF TypeOK, RotationInv, RotationBudget, Children, Holders, N

-----------------------------------------------------------------------------
LEMMA Inductive == Spec => [](TypeOK /\ LockInv /\ SessionInv /\ RotationInv)
<1> DEFINE IInv == TypeOK /\ LockInv /\ SessionInv /\ RotationInv
<1>1. Init => IInv
  BY InitInv
<1>2. IInv /\ [Next]_vars => IInv'
  BY TypeStep, LockStep, SessionStep, RotationStep
<1> QED
  BY <1>1, <1>2, PTL DEF Spec

\* The columns and the requests' locals keep their types, and a row of
\* mailbox_session is always that of a token that was issued.
THEOREM TypeCorrect == Spec => []TypeOK
BY Inductive, PTL

\* The lockout's worth under concurrency (registerFailedLogin,
\* mailbox.repository.ts:85-96): MAX_ATTEMPTS - 1 wrong passwords before the
\* first lock, at most one per concurrent request at each lock after it, and
\* the locks begin LOCK_MS apart or more.
THEOREM LockoutBudget == Spec => []GuessBudget
BY Inductive, LockImpliesBudget, PTL

\* What a captured refresh token is worth: it is traded for at most as many sessions
\* as there are concurrent requests, and for none while its row stands
\* (refresh, mailbox-auth.service.ts:76-95).
THEOREM RotationWorth == Spec => []RotationBudget
BY Inductive, RotationImpliesBudget, PTL

\* After changePassword or resetMailboxPassword purged the sessions, a surviving
\* session of an older password descends from a login or a refresh the purge
\* overtook between its reads and its INSERT (mailbox-auth.service.ts:35-151).
THEOREM StaleSessions == Spec => []StaleOnlyIfOvertaken
<1>1. SessionInv => StaleOnlyIfOvertaken
  BY DEF SessionInv
<1> QED
  BY <1>1, Inductive, PTL
=============================================================================
