------------------------------ MODULE Tenancy ------------------------------
(***************************************************************************)
(* Accounts, domains and mailboxes, and what Postfix and Dovecot see of    *)
(* them: provisioning (src/accounts), domains and the platform's own       *)
(* domains (src/domains), creating and claiming an address                 *)
(* (src/mailboxes, src/me), administration (src/admin), the guards in      *)
(* front of them (src/auth) and the views of drizzle/0002.                 *)
(*                                                                         *)
(* Every await on the database is a step.  A row's id is a UUID that is    *)
(* never drawn twice, so a row is named by its unique key (the Keycloak    *)
(* subject, the domain's name, the address) and an id a request still      *)
(* holds when the row goes becomes Gone: it names nothing any more.        *)
(* The columns domain.active and mailbox.active are TRUE: no code under    *)
(* src/src writes them.                                                    *)
(***************************************************************************)
EXTENDS Integers, FiniteSets

CONSTANTS
  Subs,           \* Keycloak identities that have an email address
  Admins,         \* those whose token carries the administrator role
  Names,          \* domain names
  PlatformNames,  \* STAMPYX_PLATFORM_DOMAINS
  LocalParts,     \* those not reserved; isReservedLocalPart refuses the others
  suggestAddress, \* the address suggestAddress derives from an identity's email
  AutoApprove,    \* STAMPYX_ACCOUNT_AUTO_APPROVE
  Requests,       \* concurrent HTTP requests
  MaxMailboxes,   \* bound: mailboxes at any time
  Null,
  Gone            \* an id that was a row's

ASSUME TenancyAssumption ==
  /\ Admins \subseteq Subs
  /\ PlatformNames \subseteq Names
  /\ suggestAddress \in [Subs -> PlatformNames \X LocalParts]
  /\ AutoApprove \in BOOLEAN
  /\ IsFiniteSet(Requests)
  /\ MaxMailboxes \in Nat
  /\ Null # Gone
  /\ {Null, Gone} \cap (Subs \cup Names \cup {"pending", "active", "suspended"}) = {}
  /\ Null \notin [owner : Subs \cup {Null}, verified : BOOLEAN]

VARIABLES
  account,        \* account[s]: the status of the account of subject s, or Null
  domain,         \* domain[n]: the owner (Null: the platform) and verified_at, or Null
  mailbox,        \* mailbox[a]: whose account_id the mailbox at address a has, or Null
  req             \* where each request is, and the ids it holds

vars == <<account, domain, mailbox, req>>

Addresses == Names \X LocalParts
Statuses == {"pending", "active", "suspended"}
Registered == {n \in Names : domain[n] # Null}
PlatformDomains == {n \in Registered : domain[n].owner = Null}
OwnedBy(s) == {n \in Registered \ PlatformDomains : domain[n].owner = s}
Existing == {a \in Addresses : mailbox[a] # Null}

Steps == {"idle", "provision", "findAgain", "authorized", "insertDomain", "markVerified",
          "claim", "existsAt", "insertMailbox", "deleteMailbox"}
\* at: the next step; sub: the token's subject; by: the account id; on: the domain's
\* id, or its name while it is to be inserted; auto: the claim is describe's own.
Idle == [at |-> "idle", sub |-> Null, by |-> Null, on |-> Null, part |-> Null, auto |-> FALSE]

Init ==
  /\ account = [s \in Subs |-> Null]
  /\ domain = [n \in Names |-> Null]
  /\ mailbox = [a \in Addresses |-> Null]
  /\ req = [r \in Requests |-> Idle]

Finish(r) == req' = [req EXCEPT ![r] = Idle]
Goto(r, step) == req' = [req EXCEPT ![r].at = step]

\* A check refuses the request, or any of its awaits throws.
Fail(r) ==
  /\ req[r].at # "idle"
  /\ Finish(r)
  /\ UNCHANGED <<account, domain, mailbox>>

-----------------------------------------------------------------------------
(* What the mail servers see *)

v_postfix_domains ==
  {n \in Registered : /\ domain[n].verified
                      /\ n \in PlatformDomains \/ account[domain[n].owner] = "active"}

\* v_dovecot_users, and v_postfix_senders, which reads the same rows.
v_dovecot_users ==
  {a \in Existing : domain[a[1]].verified /\ account[mailbox[a]] = "active"}

\* findStanding: a mailbox's row with what its domain's and its account's say
standing(a) == [domainVerified |-> domain[a[1]].verified, accountStatus |-> account[mailbox[a]]]

\* PrincipalResolver.resolve for a mailbox session opened for the present row at a.
SessionAdmitted(a) ==
  a \in Existing /\ standing(a) = [domainVerified |-> TRUE, accountStatus |-> "active"]

-----------------------------------------------------------------------------
(* Accounts *)

\* Mutant: ON CONFLICT DO UPDATE SET status.
provisionAgain(s, status) == [account EXCEPT ![s] = status]

\* INSERT ... ON CONFLICT (keycloak_sub) DO NOTHING
provision(s, status) == [account EXCEPT ![s] = IF @ = Null THEN status ELSE @]

\* The registration event, delivered at least once and at any time.
userRegistered(s) ==
  /\ account' = provision(s, "pending")
  /\ UNCHANGED <<domain, mailbox, req>>

\* PrincipalGuard with a Keycloak token: requireActive finds the account, ...  A
\* mailbox's session acts as its account too, and only while that is active, so it
\* adds no step.
Resolve(r, s) ==
  /\ req[r].at = "idle"
  /\ \/ /\ account[s] = Null
        /\ req' = [req EXCEPT ![r] = [Idle EXCEPT !.at = "provision", !.sub = s]]
     \/ /\ account[s] = "active"
        /\ req' = [req EXCEPT ![r] = [Idle EXCEPT !.at = "authorized", !.sub = s, !.by = s]]
  /\ UNCHANGED <<account, domain, mailbox>>

\* ... or provisions it ...
SelfProvision(r) ==
  /\ req[r].at = "provision"
  /\ account' = provision(req[r].sub, IF AutoApprove THEN "active" ELSE "pending")
  /\ Goto(r, "findAgain")
  /\ UNCHANGED <<domain, mailbox>>

\* ... and reads what is there then.
FindAgain(r) ==
  /\ req[r].at = "findAgain"
  /\ account[req[r].sub] = "active"
  /\ req' = [req EXCEPT ![r].at = "authorized", ![r].by = req[r].sub]
  /\ UNCHANGED <<account, domain, mailbox>>

-----------------------------------------------------------------------------
(* Deletions *)

\* The ids in q once these rows are gone; to insert a domain it holds the name.
Dangling(q, accounts, domains, addresses) ==
  [q EXCEPT !.by = IF @ \in accounts THEN Gone ELSE @,
            !.on = IF \/ @ \in domains /\ q.at # "insertDomain"
                      \/ q.at = "deleteMailbox" /\ <<@, q.part>> \in addresses
                   THEN Gone ELSE @]

\* DELETE with ON DELETE CASCADE, which ends request r.
Cascade(r, accounts, domains, addresses) ==
  LET gone == {a \in Existing : a \in addresses \/ a[1] \in domains \/ mailbox[a] \in accounts}
  IN  /\ account' = [s \in Subs |-> IF s \in accounts THEN Null ELSE account[s]]
      /\ domain' = [n \in Names |-> IF n \in domains THEN Null ELSE domain[n]]
      /\ mailbox' = [a \in Addresses |-> IF a \in gone THEN Null ELSE mailbox[a]]
      /\ req' = [q \in Requests |-> IF q = r THEN Idle ELSE Dangling(req[q], accounts, domains, gone)]

-----------------------------------------------------------------------------
(* Administration *)

Administrator(r) == req[r].at = "authorized" /\ req[r].sub \in Admins

setStatus(r, s, status) ==
  /\ Administrator(r)
  /\ account[s] # Null
  /\ account' = [account EXCEPT ![s] = status]
  /\ Finish(r)
  /\ UNCHANGED <<domain, mailbox>>

\* The administrator's own account is refused by its id.
deleteAccount(r, s) ==
  /\ Administrator(r)
  /\ req[r].by # s
  /\ account[s] # Null
  /\ Cascade(r, {s}, OwnedBy(s), {})

adminDeleteMailbox(r, a) ==
  /\ Administrator(r)
  /\ a \in Existing
  /\ Cascade(r, {}, {}, {a})

-----------------------------------------------------------------------------
(* Domains *)

\* DomainService.create, once the name is found free
createDomain(r, n) ==
  /\ req[r].at = "authorized"
  /\ domain[n] = Null
  /\ req' = [req EXCEPT ![r].at = "insertDomain", ![r].on = n]
  /\ UNCHANGED <<account, domain, mailbox>>

\* PlatformDomainService.seed in a process that starts: no account acts.  A
\* name that a customer registered keeps the process from starting.
seed(r, n) ==
  /\ req[r].at = "idle"
  /\ n \in PlatformNames
  /\ domain[n] = Null
  /\ req' = [req EXCEPT ![r] = [Idle EXCEPT !.at = "insertDomain", !.on = n]]
  /\ UNCHANGED <<account, domain, mailbox>>

\* Mutant: domain.account_id is no reference.
insertDomainUnchecked(r) ==
  /\ req[r].at = "insertDomain"
  /\ domain[req[r].on] = Null
  /\ domain' = [domain EXCEPT ![req[r].on] =
                  [owner |-> req[r].by, verified |-> req[r].by = Null]]
  /\ Finish(r)
  /\ UNCHANGED <<account, mailbox>>

\* The INSERT of both: uq_domain_name and the reference to the account hold.
insertDomain(r) ==
  /\ req[r].at = "insertDomain"
  /\ domain[req[r].on] = Null
  /\ req[r].by # Gone
  /\ domain' = [domain EXCEPT ![req[r].on] =
                  [owner |-> req[r].by, verified |-> req[r].by = Null]]
  /\ Finish(r)
  /\ UNCHANGED <<account, mailbox>>

\* verify: the caller's domain is not verified yet, and the challenge is published.
verify(r, n) ==
  /\ req[r].at = "authorized"
  /\ n \in OwnedBy(req[r].by)
  /\ ~domain[n].verified
  /\ req' = [req EXCEPT ![r].at = "markVerified", ![r].on = n]
  /\ UNCHANGED <<account, domain, mailbox>>

markVerified(r) ==
  /\ req[r].at = "markVerified"
  /\ req[r].on \in OwnedBy(req[r].by)
  /\ domain' = [domain EXCEPT ![req[r].on].verified = TRUE]
  /\ Finish(r)
  /\ UNCHANGED <<account, mailbox>>

deleteDomain(r, n) ==
  /\ req[r].at = "authorized"
  /\ n \in OwnedBy(req[r].by)
  /\ Cascade(r, {}, {n}, {})

-----------------------------------------------------------------------------
(* Mailboxes *)

\* Mutant: the domain is found, but not by its owner.
createMailboxAnywhere(r, n, part) ==
  /\ req[r].at = "authorized"
  /\ n \in Registered
  /\ req' = [req EXCEPT ![r].at = "existsAt", ![r].on = n, ![r].part = part]
  /\ UNCHANGED <<account, domain, mailbox>>

\* MailboxService.create: findOwned, ...
createMailbox(r, n, part) ==
  /\ req[r].at = "authorized"
  /\ n \in OwnedBy(req[r].by)
  /\ req' = [req EXCEPT ![r].at = "existsAt", ![r].on = n, ![r].part = part]
  /\ UNCHANGED <<account, domain, mailbox>>

\* createOnPlatform: findPlatform, ...
createOnPlatform(r, n, part) ==
  /\ req[r].at = "authorized"
  /\ n \in PlatformDomains
  /\ req' = [req EXCEPT ![r].at = "claim", ![r].on = n, ![r].part = part]
  /\ UNCHANGED <<account, domain, mailbox>>

PlatformAddresses(s) == {a \in Existing : mailbox[a] = s /\ a[1] \in PlatformDomains}

\* MeService.describe of an account that has no platform address and is offered
\* a domain: it claims the suggested address.
describe(r) ==
  LET at == suggestAddress[req[r].sub] IN
  /\ req[r].at = "authorized"
  /\ req[r].by # Gone
  /\ PlatformAddresses(req[r].by) = {}
  /\ at[1] \in PlatformDomains
  /\ req' = [req EXCEPT ![r] = [@ EXCEPT !.at = "claim", !.on = at[1], !.part = at[2], !.auto = TRUE]]
  /\ UNCHANGED <<account, domain, mailbox>>

\* Mutant: an account may claim any number of addresses.
platformAddressForAny(r) ==
  /\ req[r].at = "claim"
  /\ Goto(r, "existsAt")
  /\ UNCHANGED <<account, domain, mailbox>>

\* ... the account has no address on a platform domain, ...
platformAddressFor(r) ==
  /\ req[r].at = "claim"
  /\ PlatformAddresses(req[r].by) = {}
  /\ Goto(r, "existsAt")
  /\ UNCHANGED <<account, domain, mailbox>>

\* ... both: existsAt finds the address free, ...
existsAt(r) ==
  /\ req[r].at = "existsAt"
  /\ <<req[r].on, req[r].part>> \notin Existing
  /\ Goto(r, "insertMailbox")
  /\ UNCHANGED <<account, domain, mailbox>>

\* ... and the INSERT, under uq_mailbox_domain_local_part and two references.
insertMailbox(r) ==
  /\ req[r].at = "insertMailbox"
  /\ <<req[r].on, req[r].part>> \in Addresses \ Existing
  /\ req[r].by # Gone
  /\ Cardinality(Existing) < MaxMailboxes
  /\ mailbox' = [mailbox EXCEPT ![<<req[r].on, req[r].part>>] = req[r].by]
  /\ Finish(r)
  /\ UNCHANGED <<account, domain>>

\* autoClaim catches what its claim throws, and describe answers needsAddress.
NeedsAddress(r) ==
  /\ req[r].auto
  /\ \/ /\ req[r].at = "claim"
        /\ PlatformAddresses(req[r].by) \notin {{}, {<<req[r].on, req[r].part>>}}
     \/ req[r].at \in {"existsAt", "insertMailbox"} /\ <<req[r].on, req[r].part>> \in Existing
  /\ Finish(r)
  /\ UNCHANGED <<account, domain, mailbox>>

\* MailboxService.delete: requireOwned, then DELETE by id
requireOwned(r, a) ==
  /\ req[r].at = "authorized"
  /\ a \in Existing /\ mailbox[a] = req[r].by
  /\ req' = [req EXCEPT ![r].at = "deleteMailbox", ![r].on = a[1], ![r].part = a[2]]
  /\ UNCHANGED <<account, domain, mailbox>>

deleteMailbox(r) ==
  /\ req[r].at = "deleteMailbox"
  /\ <<req[r].on, req[r].part>> \in Existing
  /\ Cascade(r, {}, {}, {<<req[r].on, req[r].part>>})

-----------------------------------------------------------------------------
Next ==
  \/ \E s \in Subs : userRegistered(s)
  \/ \E r \in Requests :
       \/ \E s \in Subs : Resolve(r, s) \/ deleteAccount(r, s)
       \/ \E s \in Subs, status \in Statuses : setStatus(r, s, status)
       \/ SelfProvision(r) \/ FindAgain(r)
       \/ \E a \in Addresses : adminDeleteMailbox(r, a) \/ requireOwned(r, a)
       \/ \E n \in Names : createDomain(r, n) \/ seed(r, n) \/ verify(r, n) \/ deleteDomain(r, n)
       \/ insertDomain(r) \/ markVerified(r)
       \/ \E n \in Names, part \in LocalParts :
            createMailbox(r, n, part) \/ createOnPlatform(r, n, part)
       \/ describe(r) \/ platformAddressFor(r) \/ existsAt(r)
       \/ insertMailbox(r) \/ NeedsAddress(r) \/ deleteMailbox(r)
       \/ Fail(r)

Spec == Init /\ [][Next]_vars

-----------------------------------------------------------------------------
(* Properties *)

TypeOK ==
  /\ account \in [Subs -> Statuses \cup {Null}]
  /\ domain \in [Names -> [owner : Subs \cup {Null}, verified : BOOLEAN] \cup {Null}]
  /\ mailbox \in [Addresses -> Subs \cup {Null}]
  /\ req \in [Requests -> [at : Steps, sub : Subs \cup {Null}, by : Subs \cup {Null, Gone},
                           on : Names \cup {Null, Gone}, part : LocalParts \cup {Null},
                           auto : BOOLEAN]]

\* Whatever is registered, claimed, verified, suspended and deleted in which
\* order: the rows the mail servers join belong together.  A mailbox belongs to
\* the account of its domain, or is on a platform domain; so whoever Dovecot lets
\* in, and Postfix lets send, is on a domain Postfix accepts mail for, and the
\* API and Dovecot admit the same mailboxes.
PlanesAgree ==
  /\ \A a \in Existing : /\ a[1] \in PlatformDomains \cup OwnedBy(mailbox[a])
                         /\ account[mailbox[a]] # Null
  /\ \A a \in v_dovecot_users : a[1] \in v_postfix_domains
  /\ \A a \in Addresses : SessionAdmitted(a) <=> a \in v_dovecot_users

\* platformAddressFor is read two awaits before the INSERT: the addresses an
\* account holds on platform domains and its claims past that check are never
\* more than there are requests at work at once.
ClaimsPastCheck(s) ==
  {r \in Requests : /\ req[r].at \in {"existsAt", "insertMailbox"}
                    /\ req[r].by = s /\ req[r].on \in PlatformDomains}
AddressBudget ==
  \A s \in Subs :
    Cardinality(PlatformAddresses(s)) + Cardinality(ClaimsPastCheck(s)) <= Cardinality(Requests)

\* What me.test.ts says of one request after the other.
OnePlatformAddress == \A s \in Subs : Cardinality(PlatformAddresses(s)) <= 1

\* describe asks an account to choose an address only if it holds none.
AskedOnlyWithout ==
  [][\A r \in Requests : NeedsAddress(r) => PlatformAddresses(req[r].by) = {}]_vars

\* An account's standing is an administrator's word: neither a registration event
\* that comes again, or after the account provisioned itself, nor a request that
\* provisions itself while an administrator decides, changes it.
StandingIsAdmins ==
  [][\A s \in Subs :
       (account[s] # Null /\ account'[s] \notin {account[s], Null})
         => \E r \in Requests : Administrator(r) /\ req'[r] = Idle]_vars
=============================================================================
