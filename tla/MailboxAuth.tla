---------------------------- MODULE MailboxAuth ----------------------------
(***************************************************************************)
(* Mailbox sessions: login with its lockout, refresh-token rotation,       *)
(* logout and the three ways a password is replaced                        *)
(* (src/auth/mailbox-auth.service.ts, mailbox-session.repository.ts,       *)
(* src/mailboxes/mailbox.repository.ts, src/admin/admin.service.ts).       *)
(*                                                                         *)
(* The module follows one mailbox: no operation touches two.  Every await  *)
(* on the database is a step, and the requests interleave between them.    *)
(* A password is its version number: a login either presents the password  *)
(* whose hash it read or a wrong one.                                      *)
(***************************************************************************)
EXTENDS Integers, FiniteSets

CONSTANTS
  Requests,       \* concurrent HTTP requests
  Tokens,         \* refresh tokens newRefreshToken can draw; never drawn twice
  MAX_ATTEMPTS,   \* 10 in the code
  LOCK_MS,        \* length of a lockout, in clock ticks
  REFRESH_TTL,    \* lifetime of a session, in clock ticks
  MaxTime,        \* bound: the last clock tick
  MaxVersion,     \* bound: password replacements started
  MaxFailures,    \* bound: failed logins registered between two resets
  Null

ASSUME AuthAssumption ==
  /\ IsFiniteSet(Requests)
  /\ Requests # {}
  /\ MAX_ATTEMPTS \in Nat \ {0}
  /\ LOCK_MS \in Nat \ {0}
  /\ REFRESH_TTL \in Nat
  /\ MaxTime \in Nat
  /\ MaxVersion \in Nat
  /\ MaxFailures \in Nat
  /\ Null \notin Int
  /\ Null \notin Tokens
  /\ Requests \cap Tokens = {}

VARIABLES
  now,
  exists,         \* the mailbox row is there; without it its columns mean nothing
  usable,         \* mailbox, domain and account are active (requireUsable)
  version,        \* which password password_hash is the hash of
  failedLogins,   \* failed_login_count
  lockedUntil,    \* locked_until
  sessions,       \* the tokens with a row in mailbox_session
  expiresAt,      \* their expires_at
  issued,         \* tokens drawn so far
  pc,             \* where each request is
  seen,           \* the password version a request's work is based on
  token,          \* the refresh token a request presented
  \* history variables
  cred,           \* cred[t]: the password version t's session was opened with
  parent,         \* parent[t]: the token t was rotated from
  revoked,        \* the newest password version whose purge of sessions has run
  overtaken,      \* requests a purge found in flight, and the sessions they opened
  lockouts,       \* lockouts begun since the counter was last reset
  firstLock,      \* when the first of them began
  late            \* wrong passwords registered during the newest of them

mailbox == <<exists, usable, version, failedLogins, lockedUntil>>
store == <<sessions, expiresAt, issued, cred, parent>>
request == <<pc, seen, token>>
lockHistory == <<lockouts, firstLock, late>>
vars == <<now, mailbox, store, request, revoked, overtaken, lockHistory>>

locked == lockedUntil # Null /\ lockedUntil > now

Opening == {"verifying", "found", "standing", "issue"}  \* login and refresh under way

InFlight == {r \in Requests : pc[r] # "idle"}
RoomForTokens == Cardinality(Tokens \ issued) > Cardinality(InFlight)

Init ==
  /\ now = 0
  /\ exists = TRUE
  /\ usable = TRUE
  /\ version = 0
  /\ failedLogins = 0
  /\ lockedUntil = Null
  /\ sessions = {}
  /\ expiresAt = [t \in Tokens |-> 0]
  /\ issued = {}
  /\ pc = [r \in Requests |-> "idle"]
  /\ seen = [r \in Requests |-> 0]
  /\ token = [r \in Requests |-> Null]
  /\ cred = [t \in Tokens |-> 0]
  /\ parent = [t \in Tokens |-> Null]
  /\ revoked = 0
  /\ overtaken = {}
  /\ lockouts = 0
  /\ firstLock = 0
  /\ late = 0

Tick ==
  /\ now < MaxTime
  /\ now' = now + 1
  /\ UNCHANGED <<mailbox, store, request, revoked, overtaken, lockHistory>>

\* The account is suspended or approved again, its domain goes or is verified.
ToggleStanding ==
  /\ usable' = ~usable
  /\ UNCHANGED <<now, exists, version, failedLogins, lockedUntil, store, request,
                 revoked, overtaken, lockHistory>>

\* Deleting the mailbox deletes its sessions: ON DELETE CASCADE.
DeleteMailbox ==
  /\ exists
  /\ exists' = FALSE
  /\ sessions' = {}
  /\ UNCHANGED <<now, usable, version, failedLogins, lockedUntil, expiresAt, issued, cred,
                 parent, request, revoked, overtaken, lockHistory>>

\* Moves request r to `step`; a request that ends forgets what it had read.
Goto(r, step) ==
  /\ pc' = [pc EXCEPT ![r] = step]
  /\ IF step = "idle"
     THEN /\ seen' = [seen EXCEPT ![r] = 0]
          /\ token' = [token EXCEPT ![r] = Null]
          /\ overtaken' = overtaken \ {r}
     ELSE UNCHANGED <<seen, token, overtaken>>

\* What clearFailedLogins and setPasswordHash write.
ResetLock ==
  /\ failedLogins' = 0
  /\ lockedUntil' = Null
  /\ lockouts' = 0 /\ firstLock' = 0 /\ late' = 0

-----------------------------------------------------------------------------
(* login *)

\* findByAddress and, on the row it returned, the lockout and requireUsable.
BeginLogin(r) ==
  /\ pc[r] = "idle"
  /\ exists /\ usable /\ ~locked
  /\ RoomForTokens /\ failedLogins + Cardinality(InFlight) < MaxFailures
  /\ pc' = [pc EXCEPT ![r] = "verifying"]
  /\ seen' = [seen EXCEPT ![r] = version]
  /\ UNCHANGED <<now, mailbox, store, token, revoked, overtaken, lockHistory>>

\* Mutant: the lock is set by the failure that reaches the limit and no other.
RegisterFailedLoginOnce(r) ==
  /\ pc[r] = "verifying"
  /\ failedLogins' = failedLogins + 1
  /\ lockedUntil' = IF failedLogins + 1 = MAX_ATTEMPTS THEN now + LOCK_MS ELSE lockedUntil
  /\ UNCHANGED lockHistory
  /\ Goto(r, "idle")
  /\ UNCHANGED <<now, exists, usable, version, store, revoked>>

\* verifyMailboxPassword says no: one UPDATE counts the failure and, at the
\* limit, sets the lock.  It looks at no lock that others set meanwhile.
RegisterFailedLogin(r) ==
  /\ pc[r] = "verifying"
  /\ failedLogins' = failedLogins + 1
  /\ lockedUntil' = IF failedLogins + 1 >= MAX_ATTEMPTS THEN now + LOCK_MS ELSE lockedUntil
  /\ IF locked
     THEN late' = late + 1 /\ UNCHANGED <<lockouts, firstLock>>
     ELSE /\ late' = 0
          /\ lockouts' = IF failedLogins + 1 >= MAX_ATTEMPTS THEN lockouts + 1 ELSE lockouts
          /\ firstLock' = IF lockouts = 0 /\ lockouts' = 1 THEN now ELSE firstLock
  /\ Goto(r, "idle")
  /\ UNCHANGED <<now, exists, usable, version, store, revoked>>

\* It says yes, for the hash that was read: the counter and the lock are reset.
ClearFailedLogins(r) ==
  /\ pc[r] = "verifying"
  /\ ResetLock
  /\ Goto(r, "issue")
  /\ UNCHANGED <<now, exists, usable, version, store, revoked>>

\* Mutant: the lifetime in milliseconds where seconds are meant.
IssueForTooLong(r) ==
  /\ pc[r] = "issue" /\ exists
  /\ \E t \in Tokens \ issued :
       /\ sessions' = sessions \cup {t}
       /\ issued' = issued \cup {t}
       /\ expiresAt' = [expiresAt EXCEPT ![t] = now + REFRESH_TTL * 1000]
       /\ UNCHANGED <<cred, parent>>
  /\ Goto(r, "idle")
  /\ UNCHANGED <<now, mailbox, revoked, lockHistory>>

\* issue: the INSERT of the session.  With the mailbox gone its foreign key fails.
Issue(r) ==
  /\ pc[r] = "issue"
  /\ IF exists
     THEN \E t \in Tokens \ issued :
            /\ sessions' = sessions \cup {t}
            /\ issued' = issued \cup {t}
            /\ expiresAt' = [expiresAt EXCEPT ![t] = now + REFRESH_TTL]
            /\ cred' = [cred EXCEPT ![t] = seen[r]]
            /\ parent' = [parent EXCEPT ![t] = token[r]]
            /\ overtaken' = IF r \in overtaken THEN (overtaken \cup {t}) \ {r} ELSE overtaken
     ELSE UNCHANGED store /\ overtaken' = overtaken \ {r}
  /\ pc' = [pc EXCEPT ![r] = "idle"]
  /\ seen' = [seen EXCEPT ![r] = 0]
  /\ token' = [token EXCEPT ![r] = Null]
  /\ UNCHANGED <<now, mailbox, revoked, lockHistory>>

-----------------------------------------------------------------------------
(* refresh and logout *)

\* findByHash; a session past its expiry is refused but not removed.
BeginRefresh(r, t) ==
  /\ pc[r] = "idle"
  /\ t \in sessions /\ expiresAt[t] > now
  /\ RoomForTokens
  /\ pc' = [pc EXCEPT ![r] = "found"]
  /\ token' = [token EXCEPT ![r] = t]
  /\ seen' = [seen EXCEPT ![r] = cred[t]]
  /\ overtaken' = IF t \in overtaken THEN overtaken \cup {r} ELSE overtaken
  /\ UNCHANGED <<now, mailbox, store, revoked, lockHistory>>

\* findStanding and requireUsable.
CheckStanding(r) ==
  /\ pc[r] = "found"
  /\ Goto(r, IF exists /\ usable THEN "standing" ELSE "idle")
  /\ UNCHANGED <<now, mailbox, store, revoked, lockHistory>>

\* Mutant: the token presented stays good.
DeleteByHashNever(r) ==
  /\ pc[r] = "standing"
  /\ Goto(r, "issue")
  /\ UNCHANGED <<now, mailbox, store, revoked, lockHistory>>

\* deleteByHash: that the row may already be gone is not looked at.
DeleteByHash(r) ==
  /\ pc[r] = "standing"
  /\ sessions' = sessions \ {token[r]}
  /\ Goto(r, "issue")
  /\ UNCHANGED <<now, mailbox, expiresAt, issued, cred, parent, revoked, lockHistory>>

Logout(t) ==
  /\ t \in sessions
  /\ sessions' = sessions \ {t}
  /\ UNCHANGED <<now, mailbox, expiresAt, issued, cred, parent, request, revoked, overtaken, lockHistory>>

-----------------------------------------------------------------------------
(* Replacing the password *)

\* changePassword once the current password verified, the administrator's
\* reset, and the owner's setPassword: each has read the row and is hashing.
BeginReplace(r, how) ==
  /\ pc[r] = "idle"
  /\ exists
  /\ version + Cardinality({q \in Requests : pc[q] \in {"change", "set"}}) < MaxVersion
  /\ pc' = [pc EXCEPT ![r] = how]
  /\ UNCHANGED <<now, mailbox, store, seen, token, revoked, overtaken, lockHistory>>

\* setPasswordHash also lifts the lock.  Only changePassword and the
\* administrator's reset ("change") go on to drop the sessions.
SetPasswordHash(r) ==
  /\ pc[r] \in {"change", "set"}
  /\ version' = version + 1
  /\ ResetLock
  /\ pc' = [pc EXCEPT ![r] = IF pc[r] = "change" THEN "purge" ELSE "idle"]
  /\ seen' = [seen EXCEPT ![r] = IF pc[r] = "change" THEN version + 1 ELSE 0]
  /\ UNCHANGED <<now, exists, usable, store, token, revoked, overtaken>>

\* Mutant: only the sessions that had expired are dropped.
DeleteExpiredForMailbox(r) ==
  /\ pc[r] = "purge"
  /\ sessions' = {t \in sessions : expiresAt[t] > now}
  /\ revoked' = IF seen[r] > revoked THEN seen[r] ELSE revoked
  /\ overtaken' = overtaken \cup {q \in Requests : pc[q] \in Opening}
  /\ pc' = [pc EXCEPT ![r] = "idle"]
  /\ seen' = [seen EXCEPT ![r] = 0]
  /\ UNCHANGED <<now, mailbox, expiresAt, issued, cred, parent, token, lockHistory>>

DeleteForMailbox(r) ==
  /\ pc[r] = "purge"
  /\ sessions' = {}
  /\ revoked' = IF seen[r] > revoked THEN seen[r] ELSE revoked
  /\ overtaken' = overtaken \cup {q \in Requests : pc[q] \in Opening}
  /\ pc' = [pc EXCEPT ![r] = "idle"]
  /\ seen' = [seen EXCEPT ![r] = 0]
  /\ UNCHANGED <<now, mailbox, expiresAt, issued, cred, parent, token, lockHistory>>

Next ==
  \/ Tick \/ ToggleStanding \/ DeleteMailbox
  \/ \E r \in Requests :
       \/ BeginLogin(r) \/ RegisterFailedLogin(r) \/ ClearFailedLogins(r) \/ Issue(r)
       \/ CheckStanding(r) \/ DeleteByHash(r)
       \/ SetPasswordHash(r) \/ DeleteForMailbox(r)
  \/ \E r \in Requests, t \in Tokens : BeginRefresh(r, t)
  \/ \E r \in Requests, how \in {"change", "set"} : BeginReplace(r, how)
  \/ \E t \in Tokens : Logout(t)

Spec == Init /\ [][Next]_vars

-----------------------------------------------------------------------------
(* Properties *)

\* Columns, locals and history variables hold values of their types, and a live
\* session is one of an issued token.
TypeOK ==
  /\ now \in 0..MaxTime
  /\ exists \in BOOLEAN
  /\ usable \in BOOLEAN
  /\ version \in Nat
  /\ failedLogins \in Nat
  /\ lockedUntil \in Nat \cup {Null}
  /\ sessions \subseteq issued
  /\ issued \subseteq Tokens
  /\ expiresAt \in [Tokens -> 0..(MaxTime + REFRESH_TTL)]
  /\ pc \in [Requests -> {"idle", "change", "set", "purge"} \cup Opening]
  /\ seen \in [Requests -> Nat]
  /\ token \in [Requests -> Tokens \cup {Null}]
  /\ cred \in [Tokens -> Nat]
  /\ parent \in [Tokens -> Tokens \cup {Null}]
  /\ revoked \in Nat
  /\ overtaken \subseteq Requests \cup Tokens
  /\ lockouts \in Nat
  /\ firstLock \in 0..MaxTime
  /\ late \in Nat

\* What the lockout is worth when logins run concurrently: before the first lock
\* fewer than MAX_ATTEMPTS wrong passwords are tried, each lockout lets in at most
\* one per concurrent request, and lockouts begin at least LOCK_MS apart
\* (registerFailedLogin, mailbox.repository.ts:85-96, never looks at the lock).
GuessBudget ==
  /\ failedLogins <= MAX_ATTEMPTS - 1 + Cardinality(Requests) * lockouts
  /\ lockouts > 0 => (lockouts - 1) * LOCK_MS <= now - firstLock

\* After a password change or reset dropped the sessions, a session opened with
\* an older password is alive only if its login or refresh was under way when
\* they were dropped, or it was rotated from such a one.
StaleOnlyIfOvertaken ==
  \A t \in sessions : cred[t] < revoked => t \in overtaken

\* What rotation is worth when refreshes run concurrently: a token is traded for no
\* more sessions than there are requests, since only those that found it before one
\* of them deleted it go on to issue; in sequence it is good once.
RotationBudget ==
  \A t \in issued :
    /\ Cardinality({u \in issued : parent[u] = t}) + Cardinality({r \in Requests : token[r] = t})
         <= Cardinality(Requests)
    /\ t \in sessions => \A u \in issued : parent[u] # t

\* mailbox-auth.test.ts:128 "changes the mail password and drops every other
\* session": once dropped, no session of an older password is alive.
PasswordChangeDropsSessions ==
  \A t \in sessions : cred[t] >= revoked

\* mailbox-auth.test.ts:105 "rotates the refresh token so a captured one is good
\* once": no refresh token is traded for two sessions.
RefreshTokenGoodOnce ==
  \A t, u \in issued : parent[t] # Null /\ parent[t] = parent[u] => t = u
=============================================================================
