--------------------------- MODULE TenancyProofs ---------------------------
(***************************************************************************)
(* Theorems about Tenancy, its types, PlanesAgree, StandingIsAdmins and    *)
(* AddressBudget; about Gateway, NewsReachOwner; and about DnsReport, its  *)
(* types; for any sets of identities, names, requests, sockets, addresses  *)
(* and any number of keys.                                                 *)
(***************************************************************************)
EXTENDS Gateway, DnsReport, FiniteSetTheorems, TLAPS

Typed(x) ==
  x \in [at : Steps, sub : Subs \cup {Null}, by : Subs \cup {Null, Gone},
         on : Names \cup {Null, Gone}, part : LocalParts \cup {Null}, auto : BOOLEAN]

\* A request whose token was accepted has a subject, ...
Known(x) == x.at \in {"provision", "findAgain", "authorized"} => x.sub \in Subs
\* ... the account it acts for is there, unless its id is gone, ...
Live(x) == x.by \in Subs => account[x.by] # Null
\* ... and so is the domain it found, which is the platform's or that account's.
Placed(x) ==
  /\ x.at = "claim" =>
       \/ x.on = Gone
       \/ x.on \in Names /\ domain[x.on] # Null /\ domain[x.on].owner = Null
  /\ x.at \in {"existsAt", "insertMailbox"} =>
       \/ x.on = Gone \/ x.by = Gone
       \/ x.on \in Names /\ domain[x.on] # Null /\ domain[x.on].owner \in {Null, x.by}
Sound(x) == Known(x) /\ Live(x) /\ Placed(x)
Requested == \A r \in Requests : Sound(req[r])

\* A mailbox's domain and account are there, and the domain is the platform's or
\* that account's.
Housed ==
  \A a \in Addresses : mailbox[a] # Null =>
    /\ domain[a[1]] # Null /\ domain[a[1]].owner \in {Null, mailbox[a]}
    /\ account[mailbox[a]] # Null

IInv == TypeOK /\ Requested /\ Housed

LEMMA IdleTyped == Typed(Idle) /\ Sound(Idle)
  BY TenancyAssumption DEF Typed, Idle, Steps, Sound, Known, Live, Placed

LEMMA InitIInv == Init => IInv
<1> SUFFICES ASSUME Init PROVE IInv
  OBVIOUS
<1>1. TypeOK
  BY IdleTyped DEF Init, TypeOK, Typed
<1>2. Requested
  BY IdleTyped DEF Init, Requested
<1>3. Housed
  BY DEF Init, Housed
<1> QED
  BY <1>1, <1>2, <1>3 DEF IInv

\* A step that changes nothing but a request, to one that is sound.
LEMMA RequestStep ==
  ASSUME IInv, NEW r \in Requests, NEW x, Typed(x), Sound(x),
         req' = [req EXCEPT ![r] = x], UNCHANGED <<account, domain, mailbox>>
  PROVE  IInv'
<1>1. \A q \in Requests : req'[q] = IF q = r THEN x ELSE req[q]
  BY DEF IInv, TypeOK
<1>2. TypeOK'
  BY DEF IInv, TypeOK, Typed
<1>3. Requested'
  BY <1>1 DEF IInv, Requested, Sound, Known, Live, Placed
<1>4. Housed'
  BY DEF IInv, Housed
<1> QED
  BY <1>2, <1>3, <1>4 DEF IInv

\* A step that changes the accounts' standing and deletes none; a request x, if any,
\* goes on with it.
LEMMA AccountStep ==
  ASSUME IInv, account' \in [Subs -> Statuses \cup {Null}],
         \A s \in Subs : account[s] # Null => account'[s] # Null,
         req' \in [Requests -> [at : Steps, sub : Subs \cup {Null}, by : Subs \cup {Null, Gone},
                                on : Names \cup {Null, Gone}, part : LocalParts \cup {Null},
                                auto : BOOLEAN]],
         \A q \in Requests : Sound(req'[q]),
         UNCHANGED <<domain, mailbox>>
  PROVE  IInv'
<1>1. TypeOK'
  BY DEF IInv, TypeOK
<1>2. Requested'
  BY DEF Requested, Sound, Known, Live, Placed
<1>3. Housed'
  BY DEF IInv, Housed, TypeOK
<1> QED
  BY <1>1, <1>2, <1>3 DEF IInv

LEMMA Provisioned ==
  ASSUME TypeOK, NEW s \in Subs, NEW status \in Statuses
  PROVE  /\ provision(s, status) \in [Subs -> Statuses \cup {Null}]
         /\ \A t \in Subs : account[t] # Null => provision(s, status)[t] = account[t]
  BY DEF TypeOK, provision

LEMMA AccountSteps ==
  ASSUME IInv,
         \/ \E s \in Subs : userRegistered(s)
         \/ \E r \in Requests : \/ SelfProvision(r)
                                \/ \E s \in Subs, status \in Statuses : setStatus(r, s, status)
  PROVE  IInv'
<1>1. CASE \E s \in Subs : userRegistered(s)
  <2>1. PICK s \in Subs : userRegistered(s)
    BY <1>1
  <2>2. "pending" \in Statuses
    BY DEF Statuses
  <2> QED
    BY <2>1, <2>2, Provisioned, AccountStep, TenancyAssumption
    DEF userRegistered, IInv, TypeOK, Requested
<1>2. ASSUME NEW r \in Requests, SelfProvision(r) PROVE IInv'
  <2>1. req[r].sub \in Subs
    BY <1>2 DEF SelfProvision, IInv, Requested, Sound, Known
  <2>2. (IF AutoApprove THEN "active" ELSE "pending") \in Statuses
    BY DEF Statuses
  <2>3. /\ account' \in [Subs -> Statuses \cup {Null}]
        /\ \A t \in Subs : account[t] # Null => account'[t] = account[t]
    BY <1>2, <2>1, <2>2, Provisioned DEF SelfProvision, IInv
  <2>4. /\ req' = [req EXCEPT ![r].at = "findAgain"]
        /\ UNCHANGED <<domain, mailbox>>
    BY <1>2 DEF SelfProvision, Goto
  <2>5. \A q \in Requests : req'[q] = IF q = r THEN [req[r] EXCEPT !.at = "findAgain"] ELSE req[q]
    BY <2>4 DEF IInv, TypeOK
  <2>6. Sound([req[r] EXCEPT !.at = "findAgain"])
    BY <2>1 DEF IInv, TypeOK, Requested, Sound, Known, Live, Placed
  <2>7. \A q \in Requests : Sound(req'[q])
    BY <2>5, <2>6 DEF IInv, Requested
  <2>8. req' \in [Requests -> [at : Steps, sub : Subs \cup {Null}, by : Subs \cup {Null, Gone},
                               on : Names \cup {Null, Gone}, part : LocalParts \cup {Null},
                               auto : BOOLEAN]]
    BY <2>4 DEF IInv, TypeOK, Steps
  <2> QED
    BY <2>3, <2>4, <2>7, <2>8, AccountStep
<1>3. ASSUME NEW r \in Requests, NEW s \in Subs, NEW status \in Statuses, setStatus(r, s, status)
      PROVE  IInv'
  <2>1. /\ account' = [account EXCEPT ![s] = status]
        /\ req' = [req EXCEPT ![r] = Idle]
        /\ UNCHANGED <<domain, mailbox>>
    BY <1>3 DEF setStatus, Finish
  <2>2. status # Null
    BY TenancyAssumption DEF Statuses
  <2>3. /\ account' \in [Subs -> Statuses \cup {Null}]
        /\ \A t \in Subs : account[t] # Null => account'[t] # Null
    BY <2>1, <2>2 DEF IInv, TypeOK
  <2>4. \A q \in Requests : Sound(req'[q])
    BY <2>1, IdleTyped DEF IInv, TypeOK, Requested
  <2>5. req' \in [Requests -> [at : Steps, sub : Subs \cup {Null}, by : Subs \cup {Null, Gone},
                               on : Names \cup {Null, Gone}, part : LocalParts \cup {Null},
                               auto : BOOLEAN]]
    BY <2>1, IdleTyped DEF IInv, TypeOK, Typed
  <2> QED
    BY <2>1, <2>3, <2>4, <2>5, AccountStep
<1> QED
  BY <1>1, <1>2, <1>3

-----------------------------------------------------------------------------
(* Deletions *)

LEMMA CascadeStep ==
  ASSUME IInv, NEW r \in Requests, NEW A, NEW D, NEW M, Cascade(r, A, D, M)
  PROVE  IInv'
<1> DEFINE gone == {a \in Existing : a \in M \/ a[1] \in D \/ mailbox[a] \in A}
<1>1. /\ account' = [s \in Subs |-> IF s \in A THEN Null ELSE account[s]]
      /\ domain' = [n \in Names |-> IF n \in D THEN Null ELSE domain[n]]
      /\ mailbox' = [a \in Addresses |-> IF a \in gone THEN Null ELSE mailbox[a]]
      /\ req' = [q \in Requests |-> IF q = r THEN Idle ELSE Dangling(req[q], A, D, gone)]
  BY DEF Cascade
<1>2. \A a \in Addresses :
        a \in gone <=> mailbox[a] # Null /\ (a \in M \/ a[1] \in D \/ mailbox[a] \in A)
  BY DEF Existing
<1> HIDE DEF gone
<1>3. \A q \in Requests :
        /\ Typed(Dangling(req[q], A, D, gone))
        /\ Dangling(req[q], A, D, gone).at = req[q].at
        /\ Dangling(req[q], A, D, gone).sub = req[q].sub
        /\ Dangling(req[q], A, D, gone).by = (IF req[q].by \in A THEN Gone ELSE req[q].by)
        /\ req[q].at \in {"claim", "existsAt", "insertMailbox"} =>
             Dangling(req[q], A, D, gone).on = (IF req[q].on \in D THEN Gone ELSE req[q].on)
  <2> TAKE q \in Requests
  <2> DEFINE by == IF req[q].by \in A THEN Gone ELSE req[q].by
             on == IF \/ req[q].on \in D /\ req[q].at # "insertDomain"
                      \/ req[q].at = "deleteMailbox" /\ <<req[q].on, req[q].part>> \in gone
                   THEN Gone ELSE req[q].on
  <2>1. Typed(req[q])
    BY DEF IInv, TypeOK, Typed
  <2>2. Dangling(req[q], A, D, gone) = [req[q] EXCEPT !.by = by, !.on = on]
    BY <2>1 DEF Typed, Dangling
  <2>3. /\ by \in Subs \cup {Null, Gone} /\ on \in Names \cup {Null, Gone}
        /\ req[q].at \in {"claim", "existsAt", "insertMailbox"}
             => on = (IF req[q].on \in D THEN Gone ELSE req[q].on)
    BY <2>1 DEF Typed
  <2>4. by = (IF req[q].by \in A THEN Gone ELSE req[q].by)
    OBVIOUS
  <2> HIDE DEF by, on
  <2> QED
    BY <2>1, <2>2, <2>3, <2>4 DEF Typed
<1>4. TypeOK'
  <2>1. req' \in [Requests -> [at : Steps, sub : Subs \cup {Null}, by : Subs \cup {Null, Gone},
                              on : Names \cup {Null, Gone}, part : LocalParts \cup {Null},
                              auto : BOOLEAN]]
    BY <1>1, <1>3, IdleTyped DEF Typed
  <2> QED
    BY <1>1, <2>1 DEF IInv, TypeOK
<1>5. ASSUME NEW q \in Requests PROVE Sound(req[q])'
  <2>1. CASE q = r
    BY <2>1, <1>1, TenancyAssumption DEF Sound, Known, Live, Placed, Idle
  <2>2. CASE q # r
    <3> DEFINE x == Dangling(req[q], A, D, gone)
    <3>1. req'[q] = x
      BY <1>1, <2>2
    <3>2. /\ Typed(x)
          /\ x.at = req[q].at /\ x.sub = req[q].sub
          /\ x.by = (IF req[q].by \in A THEN Gone ELSE req[q].by)
          /\ req[q].at \in {"claim", "existsAt", "insertMailbox"} =>
               x.on = (IF req[q].on \in D THEN Gone ELSE req[q].on)
      BY <1>3
    <3> HIDE DEF x
    <3>3. Known(req[q]) /\ Live(req[q]) /\ Placed(req[q])
      BY DEF IInv, Requested, Sound
    <3>4. Known(req[q])'
      BY <3>1, <3>2, <3>3 DEF Known
    <3>5. Live(req[q])'
      BY <3>1, <3>2, <3>3, <1>1, TenancyAssumption DEF Live
    <3>6. Placed(req[q])'
      BY <3>1, <3>2, <3>3, <1>1, TenancyAssumption DEF Placed
    <3> QED
      BY <3>4, <3>5, <3>6 DEF Sound
  <2> QED
    BY <2>1, <2>2
<1>6. Housed'
  <2> SUFFICES ASSUME NEW a \in Addresses, mailbox'[a] # Null
      PROVE  /\ domain'[a[1]] # Null /\ domain'[a[1]].owner \in {Null, mailbox'[a]}
             /\ account'[mailbox'[a]] # Null
    BY DEF Housed
  <2>1. /\ a \notin gone /\ mailbox'[a] = mailbox[a] /\ mailbox[a] # Null
    BY <1>1
  <2>2. a[1] \notin D /\ mailbox[a] \notin A
    BY <2>1, <1>2
  <2>3. a[1] \in Names /\ mailbox[a] \in Subs
    BY <2>1 DEF IInv, TypeOK, Addresses
  <2>4. domain'[a[1]] = domain[a[1]] /\ account'[mailbox[a]] = account[mailbox[a]]
    BY <2>2, <2>3, <1>1
  <2> QED
    BY <2>1, <2>4 DEF IInv, Housed
<1> QED
  BY <1>4, <1>5, <1>6 DEF IInv, Requested

LEMMA CascadeSteps ==
  ASSUME IInv, NEW r \in Requests,
         \/ \E s \in Subs : deleteAccount(r, s)
         \/ \E a \in Addresses : adminDeleteMailbox(r, a)
         \/ \E n \in Names : deleteDomain(r, n)
         \/ deleteMailbox(r)
  PROVE  IInv'
<1>1. ASSUME NEW s \in Subs, deleteAccount(r, s) PROVE IInv'
  BY <1>1, CascadeStep DEF deleteAccount
<1>2. ASSUME NEW a \in Addresses, adminDeleteMailbox(r, a) PROVE IInv'
  BY <1>2, CascadeStep DEF adminDeleteMailbox
<1>3. ASSUME NEW n \in Names, deleteDomain(r, n) PROVE IInv'
  BY <1>3, CascadeStep DEF deleteDomain
<1>4. CASE deleteMailbox(r)
  BY <1>4, CascadeStep DEF deleteMailbox
<1> QED
  BY <1>1, <1>2, <1>3, <1>4

-----------------------------------------------------------------------------
(* Insertions *)

\* A step in which request r ends, no account changes, and no domain or mailbox
\* that is there goes or gets another owner.
LEMMA InsertStep ==
  ASSUME IInv, NEW r \in Requests,
         req' = [req EXCEPT ![r] = Idle], account' = account,
         domain' \in [Names -> [owner : Subs \cup {Null}, verified : BOOLEAN] \cup {Null}],
         \A n \in Names : domain[n] # Null => domain'[n] # Null /\ domain'[n].owner = domain[n].owner,
         mailbox' \in [Addresses -> Subs \cup {Null}],
         \A a \in Addresses : mailbox'[a] # mailbox[a] =>
           /\ domain'[a[1]] # Null /\ domain'[a[1]].owner \in {Null, mailbox'[a]}
           /\ mailbox'[a] # Null => account[mailbox'[a]] # Null
  PROVE  IInv'
<1>1. TypeOK'
  BY IdleTyped DEF IInv, TypeOK, Typed
<1>2. ASSUME NEW q \in Requests PROVE Sound(req[q])'
  <2>1. CASE q = r
    <3>1. req'[q] = Idle
      BY <2>1 DEF IInv, TypeOK
    <3> QED
      BY <3>1, TenancyAssumption DEF Sound, Known, Live, Placed, Idle
  <2>2. CASE q # r
    <3>1. req'[q] = req[q]
      BY <2>2 DEF IInv, TypeOK
    <3>2. Known(req[q]) /\ Live(req[q]) /\ Placed(req[q])
      BY DEF IInv, Requested, Sound
    <3> QED
      BY <3>1, <3>2 DEF Sound, Known, Live, Placed
  <2> QED
    BY <2>1, <2>2
<1>3. Housed'
  <2> SUFFICES ASSUME NEW a \in Addresses, mailbox'[a] # Null
      PROVE  /\ domain'[a[1]] # Null /\ domain'[a[1]].owner \in {Null, mailbox'[a]}
             /\ account'[mailbox'[a]] # Null
    BY DEF Housed
  <2>1. CASE mailbox'[a] # mailbox[a]
    BY <2>1
  <2>2. CASE mailbox'[a] = mailbox[a]
    <3>1. a[1] \in Names
      BY DEF Addresses
    <3>2. /\ domain[a[1]] # Null /\ domain[a[1]].owner \in {Null, mailbox[a]}
          /\ account[mailbox[a]] # Null
      BY <2>2 DEF IInv, Housed
    <3> QED
      BY <3>1, <3>2, <2>2
  <2> QED
    BY <2>1, <2>2
<1> QED
  BY <1>1, <1>2, <1>3 DEF IInv, Requested

LEMMA InsertSteps ==
  ASSUME IInv, NEW r \in Requests, insertDomain(r) \/ markVerified(r) \/ insertMailbox(r)
  PROVE  IInv'
<1>0. Typed(req[r]) /\ Live(req[r]) /\ Placed(req[r])
  BY DEF IInv, TypeOK, Typed, Requested, Sound
<1>1. CASE insertDomain(r)
  <2>1. /\ domain[req[r].on] = Null /\ req[r].by # Gone
        /\ domain' = [domain EXCEPT ![req[r].on] = [owner |-> req[r].by, verified |-> req[r].by = Null]]
        /\ req' = [req EXCEPT ![r] = Idle] /\ account' = account /\ mailbox' = mailbox
    BY <1>1 DEF insertDomain, Finish
  <2>2. req[r].by \in Subs \cup {Null}
    BY <1>0, <2>1 DEF Typed
  <2>3. domain' \in [Names -> [owner : Subs \cup {Null}, verified : BOOLEAN] \cup {Null}]
    BY <2>1, <2>2 DEF IInv, TypeOK
  <2>4. \A n \in Names : domain[n] # Null => domain'[n] = domain[n]
    BY <2>1 DEF IInv, TypeOK
  <2>5. mailbox' \in [Addresses -> Subs \cup {Null}]
    BY <2>1 DEF IInv, TypeOK
  <2> QED
    BY <2>1, <2>3, <2>4, <2>5, InsertStep
<1>2. CASE markVerified(r)
  <2>1. /\ req[r].on \in Names /\ domain[req[r].on] # Null
        /\ domain' = [domain EXCEPT ![req[r].on].verified = TRUE]
        /\ req' = [req EXCEPT ![r] = Idle] /\ account' = account /\ mailbox' = mailbox
    BY <1>2 DEF markVerified, Finish, OwnedBy, Registered
  <2>2. domain[req[r].on] \in [owner : Subs \cup {Null}, verified : BOOLEAN]
    BY <2>1 DEF IInv, TypeOK
  <2>3. domain' = [domain EXCEPT ![req[r].on] = [domain[req[r].on] EXCEPT !.verified = TRUE]]
    BY <2>1
  <2>4. /\ domain' \in [Names -> [owner : Subs \cup {Null}, verified : BOOLEAN] \cup {Null}]
        /\ \A n \in Names : domain[n] # Null => domain'[n].owner = domain[n].owner
    BY <2>2, <2>3 DEF IInv, TypeOK
  <2>5. [domain[req[r].on] EXCEPT !.verified = TRUE] # Null
    BY <2>2, TenancyAssumption
  <2>6. \A n \in Names : domain[n] # Null => domain'[n] # Null
    BY <2>3, <2>5 DEF IInv, TypeOK
  <2>7. mailbox' \in [Addresses -> Subs \cup {Null}]
    BY <2>1 DEF IInv, TypeOK
  <2> QED
    BY <2>1, <2>4, <2>6, <2>7, InsertStep
<1>3. CASE insertMailbox(r)
  <2> DEFINE b == <<req[r].on, req[r].part>>
  <2>1. /\ b \in Addresses /\ req[r].at = "insertMailbox" /\ req[r].by # Gone
        /\ mailbox' = [mailbox EXCEPT ![b] = req[r].by]
        /\ req' = [req EXCEPT ![r] = Idle] /\ account' = account /\ domain' = domain
    BY <1>3 DEF insertMailbox, Finish
  <2>2. req[r].by \in Subs \cup {Null} /\ req[r].on \in Names
    BY <1>0, <2>1 DEF Typed, Addresses
  <2>3. req[r].on # Gone
    BY <2>2, TenancyAssumption
  <2>4. domain[req[r].on] # Null /\ domain[req[r].on].owner \in {Null, req[r].by}
    BY <1>0, <2>1, <2>3 DEF Placed
  <2>5. req[r].by # Null => account[req[r].by] # Null
    BY <1>0, <2>2 DEF Live
  <2>6. \A a \in Addresses : mailbox'[a] # mailbox[a] => a = b /\ mailbox'[a] = req[r].by
    BY <2>1 DEF IInv, TypeOK
  <2>7. mailbox' \in [Addresses -> Subs \cup {Null}]
    BY <2>1, <2>2 DEF IInv, TypeOK
  <2>8. domain' \in [Names -> [owner : Subs \cup {Null}, verified : BOOLEAN] \cup {Null}]
    BY <2>1 DEF IInv, TypeOK
  <2>9. b[1] = req[r].on
    OBVIOUS
  <2> HIDE DEF b
  <2>10. \A a \in Addresses : mailbox'[a] # mailbox[a] =>
           /\ domain'[a[1]] # Null /\ domain'[a[1]].owner \in {Null, mailbox'[a]}
           /\ mailbox'[a] # Null => account[mailbox'[a]] # Null
    BY <2>1, <2>4, <2>5, <2>6, <2>9
  <2> QED
    BY <2>1, <2>7, <2>8, <2>10, InsertStep
<1> QED
  BY <1>1, <1>2, <1>3

-----------------------------------------------------------------------------
(* Requests *)

\* The steps that change nothing but a request.
RequestOnly(r) ==
  \/ \E s \in Subs : Resolve(r, s)
  \/ FindAgain(r)
  \/ \E a \in Addresses : requireOwned(r, a)
  \/ \E n \in Names : createDomain(r, n) \/ seed(r, n) \/ verify(r, n)
  \/ \E n \in Names, part \in LocalParts : createMailbox(r, n, part) \/ createOnPlatform(r, n, part)
  \/ describe(r) \/ platformAddressFor(r) \/ existsAt(r) \/ NeedsAddress(r) \/ Fail(r)

LEMMA Checked ==
  ASSUME IInv, NEW r \in Requests,
         \/ \E s \in Subs : Resolve(r, s)
         \/ FindAgain(r) \/ describe(r)
         \/ \E n \in Names, part \in LocalParts : createMailbox(r, n, part) \/ createOnPlatform(r, n, part)
  PROVE  IInv'
<1>0. Typed(req[r]) /\ Known(req[r]) /\ Live(req[r]) /\ Placed(req[r])
  BY DEF IInv, TypeOK, Typed, Requested, Sound
<1>1. ASSUME NEW s \in Subs, Resolve(r, s) PROVE IInv'
  <2> DEFINE x == [Idle EXCEPT !.at = "provision", !.sub = s]
             y == [Idle EXCEPT !.at = "authorized", !.sub = s, !.by = s]
  <2>1. Typed(x) /\ Typed(y)
    BY DEF Typed, Idle, Steps
  <2>2. Sound(x)
    BY TenancyAssumption DEF Sound, Known, Live, Placed, Idle
  <2>3. account[s] = "active" => Sound(y)
    BY TenancyAssumption DEF Sound, Known, Live, Placed, Idle
  <2>4. UNCHANGED <<account, domain, mailbox>>
    BY <1>1 DEF Resolve
  <2>5. \/ req' = [req EXCEPT ![r] = x]
        \/ account[s] = "active" /\ req' = [req EXCEPT ![r] = y]
    BY <1>1 DEF Resolve
  <2> HIDE DEF x, y
  <2> QED
    BY <2>1, <2>2, <2>3, <2>4, <2>5, RequestStep
<1>2. CASE FindAgain(r)
  <2> DEFINE x == [req[r] EXCEPT !.at = "authorized", !.by = req[r].sub]
  <2>1. /\ req[r].at = "findAgain" /\ account[req[r].sub] = "active"
        /\ req' = [req EXCEPT ![r] = x] /\ UNCHANGED <<account, domain, mailbox>>
    BY <1>2 DEF FindAgain, IInv, TypeOK
  <2>2. req[r].sub \in Subs
    BY <1>0, <2>1 DEF Known
  <2>3. Typed(x)
    BY <1>0, <2>2 DEF Typed, Steps
  <2>4. Sound(x)
    BY <1>0, <2>1, <2>2, TenancyAssumption DEF Typed, Sound, Known, Live, Placed
  <2> QED
    BY <2>1, <2>3, <2>4, RequestStep
<1>3. CASE describe(r)
  <2> DEFINE at == suggestAddress[req[r].sub]
             x == [req[r] EXCEPT !.at = "claim", !.on = at[1], !.part = at[2], !.auto = TRUE]
  <2>1. /\ req[r].at = "authorized" /\ at[1] \in PlatformDomains
        /\ req' = [req EXCEPT ![r] = x] /\ UNCHANGED <<account, domain, mailbox>>
    BY <1>3 DEF describe, IInv, TypeOK
  <2>2. req[r].sub \in Subs
    BY <1>0, <2>1 DEF Known
  <2>3. at[1] \in Names /\ at[2] \in LocalParts
    BY <2>2, TenancyAssumption
  <2>4. domain[at[1]] # Null /\ domain[at[1]].owner = Null
    BY <2>1 DEF PlatformDomains, Registered
  <2> HIDE DEF at
  <2>5. Typed(x)
    BY <1>0, <2>3 DEF Typed, Steps
  <2>6. Sound(x)
    BY <1>0, <2>3, <2>4 DEF Typed, Sound, Known, Live, Placed
  <2> QED
    BY <2>1, <2>5, <2>6, RequestStep
<1>4. ASSUME NEW n \in Names, NEW part \in LocalParts,
             createMailbox(r, n, part) \/ createOnPlatform(r, n, part)
      PROVE  IInv'
  <2> DEFINE x == [req[r] EXCEPT !.at = "existsAt", !.on = n, !.part = part]
             y == [req[r] EXCEPT !.at = "claim", !.on = n, !.part = part]
  <2>1. Typed(x) /\ Typed(y)
    BY <1>0 DEF Typed, Steps
  <2>2. n \in OwnedBy(req[r].by) => Sound(x)
    BY <1>0 DEF Typed, Sound, Known, Live, Placed, OwnedBy, Registered
  <2>3. n \in PlatformDomains => Sound(y)
    BY <1>0 DEF Typed, Sound, Known, Live, Placed, PlatformDomains, Registered
  <2>4. UNCHANGED <<account, domain, mailbox>>
    BY <1>4 DEF createMailbox, createOnPlatform
  <2>5. \/ n \in OwnedBy(req[r].by) /\ req' = [req EXCEPT ![r] = x]
        \/ n \in PlatformDomains /\ req' = [req EXCEPT ![r] = y]
    BY <1>4 DEF createMailbox, createOnPlatform, IInv, TypeOK
  <2> HIDE DEF x, y
  <2> QED
    BY <2>1, <2>2, <2>3, <2>4, <2>5, RequestStep
<1> QED
  BY <1>1, <1>2, <1>3, <1>4

LEMMA RequestSteps ==
  ASSUME IInv, NEW r \in Requests, RequestOnly(r)
  PROVE  IInv'
<1>0. Typed(req[r]) /\ Known(req[r]) /\ Live(req[r]) /\ Placed(req[r])
  BY DEF IInv, TypeOK, Typed, Requested, Sound
<1>1. CASE NeedsAddress(r) \/ Fail(r)
  <2>1. req' = [req EXCEPT ![r] = Idle] /\ UNCHANGED <<account, domain, mailbox>>
    BY <1>1 DEF NeedsAddress, Fail, Finish
  <2> QED
    BY <2>1, IdleTyped, RequestStep
<1>2. ASSUME NEW a \in Addresses, requireOwned(r, a) PROVE IInv'
  <2> DEFINE x == [req[r] EXCEPT !.at = "deleteMailbox", !.on = a[1], !.part = a[2]]
  <2>1. req' = [req EXCEPT ![r] = x] /\ UNCHANGED <<account, domain, mailbox>>
    BY <1>2 DEF requireOwned, IInv, TypeOK
  <2>2. a[1] \in Names /\ a[2] \in LocalParts
    BY DEF Addresses
  <2>3. Typed(x)
    BY <1>0, <2>2 DEF Typed, Steps
  <2>4. Sound(x)
    BY <1>0 DEF Typed, Sound, Known, Live, Placed
  <2> QED
    BY <2>1, <2>3, <2>4, RequestStep
<1>3. ASSUME NEW n \in Names, createDomain(r, n) \/ verify(r, n) PROVE IInv'
  <2> DEFINE x == [req[r] EXCEPT !.at = "insertDomain", !.on = n]
             y == [req[r] EXCEPT !.at = "markVerified", !.on = n]
  <2>1. Typed(x) /\ Sound(x) /\ Typed(y) /\ Sound(y)
    BY <1>0 DEF Typed, Steps, Sound, Known, Live, Placed
  <2>2. req' \in {[req EXCEPT ![r] = x], [req EXCEPT ![r] = y]} /\ UNCHANGED <<account, domain, mailbox>>
    BY <1>3 DEF createDomain, verify, IInv, TypeOK
  <2> HIDE DEF x, y
  <2> QED
    BY <2>1, <2>2, RequestStep
<1>4. ASSUME NEW n \in Names, seed(r, n) PROVE IInv'
  <2> DEFINE x == [Idle EXCEPT !.at = "insertDomain", !.on = n]
  <2>1. Typed(x) /\ Sound(x)
    BY TenancyAssumption DEF Typed, Idle, Steps, Sound, Known, Live, Placed
  <2>2. req' = [req EXCEPT ![r] = x] /\ UNCHANGED <<account, domain, mailbox>>
    BY <1>4 DEF seed
  <2> HIDE DEF x
  <2> QED
    BY <2>1, <2>2, RequestStep
<1>5. CASE platformAddressFor(r) \/ existsAt(r)
  <2> DEFINE x == [req[r] EXCEPT !.at = "existsAt"]
             y == [req[r] EXCEPT !.at = "insertMailbox"]
  <2>1. Typed(x) /\ Typed(y)
    BY <1>0 DEF Typed, Steps
  <2>2. req[r].at = "claim" => Sound(x)
    BY <1>0 DEF Typed, Sound, Known, Live, Placed
  <2>3. req[r].at = "existsAt" => Sound(y)
    BY <1>0 DEF Typed, Sound, Known, Live, Placed
  <2>4. UNCHANGED <<account, domain, mailbox>>
    BY <1>5 DEF platformAddressFor, existsAt
  <2>5. \/ req[r].at = "claim" /\ req' = [req EXCEPT ![r] = x]
        \/ req[r].at = "existsAt" /\ req' = [req EXCEPT ![r] = y]
    BY <1>5 DEF platformAddressFor, existsAt, Goto, IInv, TypeOK
  <2> HIDE DEF x, y
  <2> QED
    BY <2>1, <2>2, <2>3, <2>4, <2>5, RequestStep
<1> QED
  BY <1>1, <1>2, <1>3, <1>4, <1>5, Checked DEF RequestOnly

-----------------------------------------------------------------------------
(* The steps together *)

AccountsChange(r) ==
  SelfProvision(r) \/ \E s \in Subs, status \in Statuses : setStatus(r, s, status)
Deletion(r) ==
  \/ \E s \in Subs : deleteAccount(r, s)
  \/ \E a \in Addresses : adminDeleteMailbox(r, a)
  \/ \E n \in Names : deleteDomain(r, n)
  \/ deleteMailbox(r)
Insertion(r) == insertDomain(r) \/ markVerified(r) \/ insertMailbox(r)

LEMMA NextCases ==
  ASSUME Next
  PROVE  \/ \E s \in Subs : userRegistered(s)
         \/ \E r \in Requests : AccountsChange(r) \/ Deletion(r) \/ Insertion(r) \/ RequestOnly(r)
  BY DEF Next, AccountsChange, Deletion, Insertion, RequestOnly

LEMMA NextIInv == IInv /\ [Next]_vars => IInv'
<1> SUFFICES ASSUME IInv, [Next]_vars PROVE IInv'
  OBVIOUS
<1>1. CASE \E s \in Subs : userRegistered(s)
  BY <1>1, AccountSteps
<1>2. ASSUME NEW r \in Requests, AccountsChange(r) PROVE IInv'
  BY <1>2, AccountSteps DEF AccountsChange
<1>3. ASSUME NEW r \in Requests, Deletion(r) PROVE IInv'
  BY <1>3, CascadeSteps DEF Deletion
<1>4. ASSUME NEW r \in Requests, Insertion(r) PROVE IInv'
  BY <1>4, InsertSteps DEF Insertion
<1>5. ASSUME NEW r \in Requests, RequestOnly(r) PROVE IInv'
  BY <1>5, RequestSteps
<1>6. CASE UNCHANGED vars
  BY <1>6 DEF vars, IInv, TypeOK, Requested, Sound, Known, Live, Placed, Housed
<1> QED
  BY <1>1, <1>2, <1>3, <1>4, <1>5, <1>6, NextCases

LEMMA Inductive == Spec => []IInv
  BY InitIInv, NextIInv, PTL DEF Spec

\* The tables keep their types, whatever requests overlap, fail and delete
\* (src/accounts, src/domains, src/mailboxes, src/admin).
THEOREM TypeCorrect == Spec => []TypeOK
<1>1. IInv => TypeOK
  BY DEF IInv
<1> QED
  BY <1>1, Inductive, PTL

LEMMA HousedAgrees == IInv => PlanesAgree
<1> SUFFICES ASSUME IInv PROVE PlanesAgree
  OBVIOUS
<1>1. ASSUME NEW a \in Existing
      PROVE  /\ a \in Addresses /\ a[1] \in Names /\ domain[a[1]] # Null
             /\ domain[a[1]].owner \in {Null, mailbox[a]}
             /\ mailbox[a] \in Subs /\ account[mailbox[a]] # Null
             /\ domain[a[1]].verified \in BOOLEAN
  <2>1. a \in Addresses /\ mailbox[a] # Null
    BY DEF Existing
  <2>2. a[1] \in Names /\ mailbox[a] \in Subs
    BY <2>1 DEF Addresses, IInv, TypeOK
  <2>3. /\ domain[a[1]] # Null /\ domain[a[1]].owner \in {Null, mailbox[a]}
        /\ account[mailbox[a]] # Null
    BY <2>1 DEF IInv, Housed
  <2>4. domain[a[1]].verified \in BOOLEAN
    BY <2>2, <2>3 DEF IInv, TypeOK
  <2> QED
    BY <2>1, <2>2, <2>3, <2>4
<1>2. ASSUME NEW a \in Existing PROVE a[1] \in PlatformDomains \cup OwnedBy(mailbox[a])
  BY <1>1 DEF PlatformDomains, OwnedBy, Registered
<1>3. ASSUME NEW a \in v_dovecot_users PROVE a[1] \in v_postfix_domains
  <2>1. a \in Existing /\ domain[a[1]].verified /\ account[mailbox[a]] = "active"
    BY DEF v_dovecot_users
  <2> QED
    BY <1>1, <2>1 DEF v_postfix_domains, PlatformDomains, Registered
<1>4. ASSUME NEW a \in Addresses PROVE SessionAdmitted(a) <=> a \in v_dovecot_users
  BY <1>1 DEF SessionAdmitted, standing, v_dovecot_users
<1> QED
  BY <1>1, <1>2, <1>3, <1>4 DEF PlanesAgree

\* What Postfix, Dovecot and the API read belongs together, in whatever order domains
\* are registered, verified and deleted, addresses claimed and accounts suspended and
\* deleted (drizzle/0002, principal.resolver.ts:14-40).
THEOREM PlanesAlwaysAgree == Spec => []PlanesAgree
  BY Inductive, HousedAgrees, PTL

LEMMA StandingStep ==
  ASSUME IInv, [Next]_vars, NEW s \in Subs, account[s] # Null, account'[s] \notin {account[s], Null}
  PROVE  \E r \in Requests : Administrator(r) /\ req'[r] = Idle
<1>1. CASE \E t \in Subs : userRegistered(t)
  <2>1. PICK t \in Subs : account' = provision(t, "pending")
    BY <1>1 DEF userRegistered
  <2>2. "pending" \in Statuses
    BY DEF Statuses
  <2>3. account'[s] = account[s]
    BY <2>1, <2>2, Provisioned DEF IInv
  <2> QED
    BY <2>3
<1>2. ASSUME NEW r \in Requests, SelfProvision(r) PROVE FALSE
  <2>1. req[r].sub \in Subs
    BY <1>2 DEF SelfProvision, IInv, Requested, Sound, Known
  <2>2. (IF AutoApprove THEN "active" ELSE "pending") \in Statuses
    BY DEF Statuses
  <2>3. account'[s] = account[s]
    BY <1>2, <2>1, <2>2, Provisioned DEF SelfProvision, IInv
  <2> QED
    BY <2>3
<1>3. ASSUME NEW r \in Requests, NEW t \in Subs, NEW status \in Statuses, setStatus(r, t, status)
      PROVE  Administrator(r) /\ req'[r] = Idle
  BY <1>3 DEF setStatus, Finish, IInv, TypeOK
<1>4. ASSUME NEW r \in Requests, Deletion(r) PROVE FALSE
  <2>1. PICK A, D, M : Cascade(r, A, D, M)
    BY <1>4 DEF Deletion, deleteAccount, adminDeleteMailbox, deleteDomain, deleteMailbox
  <2>2. account' = [t \in Subs |-> IF t \in A THEN Null ELSE account[t]]
    BY <2>1 DEF Cascade
  <2> QED
    BY <2>2
<1>5. ASSUME NEW r \in Requests, Insertion(r) \/ RequestOnly(r) PROVE FALSE
  <2>1. account' = account
    BY <1>5 DEF Insertion, insertDomain, markVerified, insertMailbox, RequestOnly, Resolve,
                FindAgain, requireOwned, createDomain, seed, verify, createMailbox, createOnPlatform,
                describe, platformAddressFor, existsAt, NeedsAddress, Fail
  <2> QED
    BY <2>1
<1>6. CASE UNCHANGED vars
  BY <1>6 DEF vars
<1> QED
  BY <1>1, <1>2, <1>3, <1>4, <1>5, <1>6, NextCases DEF AccountsChange

\* An account that is there changes its standing only where an administrator says so:
\* neither a registration event nor self-provisioning does (account.repository.ts:23-44).
THEOREM StandingOnlyByAdmins == Spec => StandingIsAdmins
<1>1. IInv /\ [Next]_vars =>
        [\A s \in Subs :
           (account[s] # Null /\ account'[s] \notin {account[s], Null})
             => \E r \in Requests : Administrator(r) /\ req'[r] = Idle]_vars
  BY StandingStep
<1> QED
  BY <1>1, Inductive, PTL DEF Spec, StandingIsAdmins

-----------------------------------------------------------------------------
(* AddressBudget *)

Within(P, K) ==
  IsFiniteSet(P) /\ Cardinality(P) + Cardinality(K) <= Cardinality(Requests)

Budgeted == \A s \in Subs : Within(PlatformAddresses(s), ClaimsPastCheck(s))

LEMMA Shrink ==
  ASSUME NEW P, NEW K, K \subseteq Requests, Within(P, K),
         NEW P2, P2 \subseteq P, NEW K2, K2 \subseteq K
  PROVE  Within(P2, K2)
<1>1. IsFiniteSet(P) /\ IsFiniteSet(K)
  BY TenancyAssumption, FS_Subset DEF Within
<1>2. /\ IsFiniteSet(P2) /\ Cardinality(P2) <= Cardinality(P)
      /\ Cardinality(K2) <= Cardinality(K)
  BY <1>1, FS_Subset
<1>3. /\ Cardinality(P) \in Nat /\ Cardinality(P2) \in Nat
      /\ Cardinality(K) \in Nat /\ Cardinality(K2) \in Nat
      /\ Cardinality(Requests) \in Nat
  BY <1>1, <1>2, FS_Subset, FS_CardinalityType, TenancyAssumption
<1> QED
  BY <1>2, <1>3 DEF Within

\* A claim that finds no address.
LEMMA Pass ==
  ASSUME NEW K, K \subseteq Requests
  PROVE  Within({}, K)
<1>1. /\ Cardinality(K) <= Cardinality(Requests)
      /\ Cardinality(K) \in Nat /\ Cardinality(Requests) \in Nat
  BY TenancyAssumption, FS_Subset, FS_CardinalityType
<1>2. IsFiniteSet({}) /\ Cardinality({}) = 0
  BY FS_EmptySet
<1> QED
  BY <1>1, <1>2 DEF Within

\* A claim past the check becomes an address.
LEMMA Settle ==
  ASSUME NEW P, NEW K, K \subseteq Requests, Within(P, K), NEW b, NEW r \in K
  PROVE  Within(P \cup {b}, K \ {r})
<1>1. IsFiniteSet(P) /\ IsFiniteSet(K)
  BY TenancyAssumption, FS_Subset DEF Within
<1>2. /\ IsFiniteSet(P \cup {b})
      /\ Cardinality(P \cup {b}) = IF b \in P THEN Cardinality(P) ELSE Cardinality(P) + 1
      /\ Cardinality(K \ {r}) = Cardinality(K) - 1
  BY <1>1, FS_AddElement, FS_RemoveElement
<1>3. Cardinality(P) \in Nat /\ Cardinality(K) \in Nat /\ Cardinality(Requests) \in Nat
  BY <1>1, FS_CardinalityType, TenancyAssumption
<1> QED
  BY <1>2, <1>3 DEF Within

LEMMA ClaimsAreRequests == \A s : ClaimsPastCheck(s) \subseteq Requests
  BY DEF ClaimsPastCheck

LEMMA InitBudgeted == Init => Budgeted
<1> SUFFICES ASSUME Init, NEW s \in Subs PROVE Within(PlatformAddresses(s), ClaimsPastCheck(s))
  BY DEF Budgeted
<1>1. PlatformAddresses(s) = {}
  BY DEF Init, PlatformAddresses, Existing
<1> QED
  BY <1>1, Pass, ClaimsAreRequests

\* A step that gives no account an address and lets no claim past the check.
LEMMA BudgetKept ==
  ASSUME Budgeted, NEW s \in Subs,
         PlatformAddresses(s)' \subseteq PlatformAddresses(s),
         ClaimsPastCheck(s)' \subseteq ClaimsPastCheck(s)
  PROVE  Within(PlatformAddresses(s), ClaimsPastCheck(s))'
<1> DEFINE P == PlatformAddresses(s)  K == ClaimsPastCheck(s)
<1>1. Within(P, K) /\ K \subseteq Requests
  BY ClaimsAreRequests DEF Budgeted
<1>2. P' \subseteq P /\ K' \subseteq K
  OBVIOUS
<1> HIDE DEF P, K
<1>3. Within(P', K')
  BY <1>1, <1>2, Shrink
<1> QED
  BY <1>3 DEF P, K, Within

\* A claim past the check, spelled out.
Claims(x, s) ==
  /\ x.at \in {"existsAt", "insertMailbox"} /\ x.by = s
  /\ x.on \in Names /\ domain[x.on] # Null /\ domain[x.on].owner = Null

LEMMA ClaimsMeans ==
  \A s, r : r \in ClaimsPastCheck(s) <=> r \in Requests /\ Claims(req[r], s)
  BY DEF ClaimsPastCheck, Claims, PlatformDomains, Registered

\* A step that leaves domains and mailboxes, after which no request claims more.
LEMMA ClaimsKept ==
  ASSUME Budgeted, NEW s \in Subs, UNCHANGED <<domain, mailbox>>,
         \A q \in Requests : Claims(req'[q], s) => Claims(req[q], s)
  PROVE  Within(PlatformAddresses(s), ClaimsPastCheck(s))'
<1>1. PlatformAddresses(s)' = PlatformAddresses(s)
  BY DEF PlatformAddresses, Existing, PlatformDomains, Registered
<1>2. ClaimsPastCheck(s)' \subseteq ClaimsPastCheck(s)
  <2> SUFFICES ASSUME NEW q \in Requests, req'[q].at \in {"existsAt", "insertMailbox"},
                      req'[q].by = s, req'[q].on \in PlatformDomains'
               PROVE  q \in ClaimsPastCheck(s)
    BY DEF ClaimsPastCheck
  <2>1. Claims(req'[q], s)
    BY DEF Claims, PlatformDomains, Registered
  <2> QED
    BY <2>1, ClaimsMeans
<1> QED
  BY <1>1, <1>2, BudgetKept

LEMMA BudgetAccounts ==
  ASSUME IInv, Budgeted, NEW s \in Subs,
         (\E t \in Subs : userRegistered(t)) \/ \E r \in Requests : AccountsChange(r)
  PROVE  Within(PlatformAddresses(s), ClaimsPastCheck(s))'
<1>1. UNCHANGED <<domain, mailbox>>
  BY DEF userRegistered, AccountsChange, SelfProvision, setStatus
<1>2. \A q \in Requests : req'[q] = req[q] \/ req'[q].at \in {"idle", "findAgain"}
  BY DEF userRegistered, AccountsChange, SelfProvision, setStatus, Finish, Goto, Idle, IInv, TypeOK
<1>3. \A q \in Requests : Claims(req'[q], s) => Claims(req[q], s)
  BY <1>2 DEF Claims
<1> QED
  BY <1>1, <1>3, ClaimsKept

LEMMA BudgetRequests ==
  ASSUME IInv, Budgeted, NEW s \in Subs, NEW r \in Requests, RequestOnly(r), ~platformAddressFor(r)
  PROVE  Within(PlatformAddresses(s), ClaimsPastCheck(s))'
<1>1. UNCHANGED <<domain, mailbox>>
  BY DEF RequestOnly, Resolve, FindAgain, requireOwned, createDomain, seed, verify, createMailbox,
         createOnPlatform, describe, existsAt, NeedsAddress, Fail
<1>2. \A q \in Requests : q # r => req'[q] = req[q]
  BY DEF RequestOnly, Resolve, FindAgain, requireOwned, createDomain, seed, verify, createMailbox,
         createOnPlatform, describe, existsAt, NeedsAddress, Fail, Finish, Goto, IInv, TypeOK
<1>3. \/ req'[r].at \notin {"existsAt", "insertMailbox"}
      \/ \E n \in Names : n \in OwnedBy(req[r].by) /\ req'[r].on = n
      \/ /\ req[r].at = "existsAt"
         /\ req'[r].by = req[r].by /\ req'[r].on = req[r].on
  <2>0. req \in [Requests -> [at : Steps, sub : Subs \cup {Null}, by : Subs \cup {Null, Gone},
                              on : Names \cup {Null, Gone}, part : LocalParts \cup {Null},
                              auto : BOOLEAN]]
    BY DEF IInv, TypeOK
  <2>1. CASE NeedsAddress(r) \/ Fail(r)
    BY <2>0, <2>1 DEF NeedsAddress, Fail, Finish, Idle
  <2>2. ASSUME NEW t \in Subs, Resolve(r, t) PROVE req'[r].at \notin {"existsAt", "insertMailbox"}
    BY <2>0, <2>2 DEF Resolve, Idle
  <2>3. CASE FindAgain(r)
    BY <2>0, <2>3 DEF FindAgain
  <2>4. CASE describe(r)
    BY <2>0, <2>4 DEF describe
  <2>5. ASSUME NEW a \in Addresses, requireOwned(r, a) PROVE req'[r].at \notin {"existsAt", "insertMailbox"}
    BY <2>0, <2>5 DEF requireOwned
  <2>6. ASSUME NEW n \in Names, createDomain(r, n) \/ seed(r, n) \/ verify(r, n)
        PROVE  req'[r].at \notin {"existsAt", "insertMailbox"}
    BY <2>0, <2>6 DEF createDomain, seed, verify, Idle
  <2>7. ASSUME NEW n \in Names, NEW part \in LocalParts, createOnPlatform(r, n, part)
        PROVE  req'[r].at \notin {"existsAt", "insertMailbox"}
    BY <2>0, <2>7 DEF createOnPlatform
  <2>8. ASSUME NEW n \in Names, NEW part \in LocalParts, createMailbox(r, n, part)
        PROVE  n \in OwnedBy(req[r].by) /\ req'[r].on = n
    BY <2>0, <2>8 DEF createMailbox
  <2>9. CASE existsAt(r)
    BY <2>0, <2>9 DEF existsAt, Goto
  <2> QED
    BY <2>1, <2>2, <2>3, <2>4, <2>5, <2>6, <2>7, <2>8, <2>9 DEF RequestOnly
<1>4. Claims(req'[r], s) => Claims(req[r], s)
  BY <1>3 DEF Claims, OwnedBy, PlatformDomains, Registered
<1> QED
  BY <1>1, <1>2, <1>4, ClaimsKept

LEMMA BudgetCheck ==
  ASSUME IInv, Budgeted, NEW s \in Subs, NEW r \in Requests, platformAddressFor(r)
  PROVE  Within(PlatformAddresses(s), ClaimsPastCheck(s))'
<1>1. /\ PlatformAddresses(req[r].by) = {} /\ UNCHANGED <<domain, mailbox>>
      /\ req' = [req EXCEPT ![r].at = "existsAt"]
  BY DEF platformAddressFor, Goto
<1>2. \A q \in Requests : (q # r => req'[q] = req[q]) /\ req'[q].by = req[q].by
  BY <1>1 DEF IInv, TypeOK
<1>3. CASE req[r].by = s
  <2> DEFINE K == ClaimsPastCheck(s)
  <2>1. PlatformAddresses(s)' = {}
    BY <1>1, <1>3 DEF PlatformAddresses, Existing, PlatformDomains, Registered
  <2>2. K' \subseteq Requests
    BY DEF ClaimsPastCheck
  <2> HIDE DEF K
  <2>3. Within({}, K')
    BY <2>2, Pass
  <2> QED
    BY <2>1, <2>3 DEF K, Within
<1>4. CASE req[r].by # s
  <2>1. \A q \in Requests : Claims(req'[q], s) => Claims(req[q], s)
    BY <1>2, <1>4 DEF Claims
  <2> QED
    BY <1>1, <2>1, ClaimsKept
<1> QED
  BY <1>3, <1>4

LEMMA BudgetDeletion ==
  ASSUME IInv, Budgeted, NEW s \in Subs, NEW r \in Requests, Deletion(r)
  PROVE  Within(PlatformAddresses(s), ClaimsPastCheck(s))'
<1>1. PICK A, D, M : Cascade(r, A, D, M)
  BY DEF Deletion, deleteAccount, adminDeleteMailbox, deleteDomain, deleteMailbox
<1> DEFINE gone == {a \in Existing : a \in M \/ a[1] \in D \/ mailbox[a] \in A}
<1>2. /\ domain' = [n \in Names |-> IF n \in D THEN Null ELSE domain[n]]
      /\ mailbox' = [a \in Addresses |-> IF a \in gone THEN Null ELSE mailbox[a]]
      /\ req' = [q \in Requests |-> IF q = r THEN Idle ELSE Dangling(req[q], A, D, gone)]
  BY <1>1 DEF Cascade
<1> HIDE DEF gone
<1>3. \A n \in PlatformDomains' : n \in Names /\ n \in PlatformDomains
  BY <1>2 DEF PlatformDomains, Registered
<1>4. \A a \in Addresses : mailbox'[a] \in {Null, mailbox[a]}
  BY <1>2
<1>5. PlatformAddresses(s)' \subseteq PlatformAddresses(s)
  BY <1>3, <1>4 DEF PlatformAddresses, Existing
<1>6. ASSUME NEW q \in Requests, req'[q].at \in {"existsAt", "insertMailbox"},
             req'[q].by = s, req'[q].on \in PlatformDomains'
      PROVE  q \in ClaimsPastCheck(s)
  <2>1. q # r
    BY <1>6, <1>2 DEF Idle
  <2>2. req'[q] = Dangling(req[q], A, D, gone)
    BY <1>2, <2>1
  <2>3. /\ req'[q].at = req[q].at
        /\ req'[q].by = (IF req[q].by \in A THEN Gone ELSE req[q].by)
        /\ req'[q].on \in {req[q].on, Gone}
    BY <2>2 DEF Dangling, IInv, TypeOK
  <2>4. Gone \notin Subs /\ Gone \notin Names
    BY TenancyAssumption
  <2>5. req'[q].on \in Names /\ req'[q].on \in PlatformDomains
    BY <1>3, <1>6
  <2> QED
    BY <1>6, <2>3, <2>4, <2>5 DEF ClaimsPastCheck
<1>7. ClaimsPastCheck(s)' \subseteq ClaimsPastCheck(s)
  BY <1>6 DEF ClaimsPastCheck
<1> QED
  BY <1>5, <1>7, BudgetKept

\* A domain that is new, the platform's or not, has no mailbox and no claim.
LEMMA BudgetDomain ==
  ASSUME IInv, Budgeted, NEW s \in Subs, NEW r \in Requests, insertDomain(r) \/ markVerified(r)
  PROVE  Within(PlatformAddresses(s), ClaimsPastCheck(s))'
<1>1. /\ mailbox' = mailbox /\ req' = [req EXCEPT ![r] = Idle]
      /\ domain \in [Names -> [owner : Subs \cup {Null}, verified : BOOLEAN] \cup {Null}]
  BY DEF insertDomain, markVerified, Finish, IInv, TypeOK
<1>2. \A n \in Names : domain[n] # Null => domain'[n].owner = domain[n].owner
  <2>1. CASE insertDomain(r)
    BY <1>1, <2>1 DEF insertDomain
  <2>2. CASE markVerified(r)
    BY <1>1, <2>2 DEF markVerified
  <2> QED
    BY <2>1, <2>2
<1>3. \A n \in PlatformDomains' : n \in Names /\ (domain[n] # Null => n \in PlatformDomains)
  BY <1>2 DEF PlatformDomains, Registered
<1>4. ASSUME NEW a \in PlatformAddresses(s)' PROVE a \in PlatformAddresses(s)
  <2>1. a \in Addresses /\ mailbox[a] # Null /\ mailbox[a] = s /\ a[1] \in PlatformDomains'
    BY <1>1 DEF PlatformAddresses, Existing
  <2>2. domain[a[1]] # Null
    BY <2>1 DEF IInv, Housed
  <2> QED
    BY <1>3, <2>1, <2>2 DEF PlatformAddresses, Existing
<1>5. ASSUME NEW q \in Requests, req'[q].at \in {"existsAt", "insertMailbox"},
             req'[q].by = s, req'[q].on \in PlatformDomains'
      PROVE  q \in ClaimsPastCheck(s)
  <2>1. req'[q] = req[q]
    BY <1>5, <1>1 DEF Idle, IInv, TypeOK
  <2>2. req[q].on \in Names /\ req[q].by \in Subs
    BY <1>3, <1>5, <2>1
  <2>3. req[q].on # Gone /\ req[q].by # Gone
    BY <2>2, TenancyAssumption
  <2>4. domain[req[q].on] # Null
    BY <1>5, <2>1, <2>3 DEF IInv, Requested, Sound, Placed
  <2> QED
    BY <1>3, <1>5, <2>1, <2>4 DEF ClaimsPastCheck
<1>6. ClaimsPastCheck(s)' \subseteq ClaimsPastCheck(s)
  BY <1>5 DEF ClaimsPastCheck
<1> QED
  BY <1>4, <1>6, BudgetKept

LEMMA BudgetMailbox ==
  ASSUME IInv, Budgeted, NEW s \in Subs, NEW r \in Requests, insertMailbox(r)
  PROVE  Within(PlatformAddresses(s), ClaimsPastCheck(s))'
<1> DEFINE b == <<req[r].on, req[r].part>>
<1>1. /\ b \in Addresses /\ b[1] = req[r].on
      /\ req[r].at = "insertMailbox"
      /\ mailbox' = [mailbox EXCEPT ![b] = req[r].by]
      /\ req' = [req EXCEPT ![r] = Idle] /\ domain' = domain
  BY DEF insertMailbox, Finish
<1> HIDE DEF b
<1>2. PlatformDomains' = PlatformDomains
  BY <1>1 DEF PlatformDomains, Registered
<1>3. \A q \in Requests : IF q = r THEN req'[q].at = "idle" ELSE req'[q] = req[q]
  BY <1>1 DEF Idle, IInv, TypeOK
<1>4. ClaimsPastCheck(s)' \subseteq ClaimsPastCheck(s) \ {r}
  BY <1>2, <1>3 DEF ClaimsPastCheck
<1>5. \A a \in Addresses : mailbox'[a] = IF a = b THEN req[r].by ELSE mailbox[a]
  BY <1>1 DEF IInv, TypeOK
<1>6. CASE req[r].by = s /\ req[r].on \in PlatformDomains
  <2> DEFINE P == PlatformAddresses(s)  K == ClaimsPastCheck(s)
  <2>1. r \in K
    BY <1>1, <1>6 DEF ClaimsPastCheck
  <2>2. P' \subseteq P \cup {b}
    BY <1>2, <1>5 DEF PlatformAddresses, Existing
  <2>3. Within(P, K) /\ K \subseteq Requests
    BY ClaimsAreRequests DEF Budgeted
  <2>4. K' \subseteq K \ {r}
    BY <1>4
  <2> HIDE DEF P, K
  <2>5. Within(P \cup {b}, K \ {r})
    BY <2>1, <2>3, Settle
  <2>6. Within(P', K')
    BY <2>2, <2>3, <2>4, <2>5, Shrink
  <2> QED
    BY <2>6 DEF P, K, Within
<1>7. CASE ~(req[r].by = s /\ req[r].on \in PlatformDomains)
  <2>1. PlatformAddresses(s)' \subseteq PlatformAddresses(s)
    BY <1>1, <1>2, <1>5, <1>7 DEF PlatformAddresses, Existing
  <2> QED
    BY <1>4, <2>1, BudgetKept
<1> QED
  BY <1>6, <1>7

LEMMA NextBudgeted == IInv /\ Budgeted /\ [Next]_vars => Budgeted'
<1> SUFFICES ASSUME IInv, Budgeted, [Next]_vars, NEW s \in Subs
    PROVE  Within(PlatformAddresses(s), ClaimsPastCheck(s))'
  BY DEF Budgeted
<1>1. CASE \E t \in Subs : userRegistered(t)
  BY <1>1, BudgetAccounts
<1>2. ASSUME NEW r \in Requests, AccountsChange(r)
      PROVE  Within(PlatformAddresses(s), ClaimsPastCheck(s))'
  BY <1>2, BudgetAccounts
<1>3. ASSUME NEW r \in Requests, Deletion(r)
      PROVE  Within(PlatformAddresses(s), ClaimsPastCheck(s))'
  BY <1>3, BudgetDeletion
<1>4. ASSUME NEW r \in Requests, Insertion(r)
      PROVE  Within(PlatformAddresses(s), ClaimsPastCheck(s))'
  BY <1>4, BudgetDomain, BudgetMailbox DEF Insertion
<1>5. ASSUME NEW r \in Requests, RequestOnly(r)
      PROVE  Within(PlatformAddresses(s), ClaimsPastCheck(s))'
  BY <1>5, BudgetRequests, BudgetCheck
<1>6. CASE UNCHANGED vars
  <2>1. /\ PlatformAddresses(s)' = PlatformAddresses(s)
        /\ ClaimsPastCheck(s)' = ClaimsPastCheck(s)
    BY <1>6 DEF vars, PlatformAddresses, ClaimsPastCheck, Existing, PlatformDomains, Registered
  <2> QED
    BY <2>1, BudgetKept
<1> QED
  BY <1>1, <1>2, <1>3, <1>4, <1>5, <1>6, NextCases

\* However many requests of one account claim at once, they end with no more platform
\* addresses than there are requests: the check and the INSERT are apart
\* (mailbox.service.ts:94-117), but each claim past the check is paid for by a request
\* at work.
THEOREM AddressesBounded == Spec => []AddressBudget
<1>1. Budgeted => AddressBudget
  BY DEF Budgeted, AddressBudget, Within
<1> QED
  BY <1>1, Inductive, InitBudgeted, NextBudgeted, PTL DEF Spec

-----------------------------------------------------------------------------
(* Live sockets *)

SocketType ==
  [principal : Subs \cup Addresses \cup {Null, Gone}, rooms : SUBSET Addresses,
   joining : Addresses \cup {Null, Gone}]

\* A socket is in, or about to join, rooms of mailboxes that are there and its own, and
\* a mailbox it acts for is there.
Entitled(x) ==
  /\ \A a \in Addresses : (a \in x.rooms \/ a = x.joining) =>
       mailbox[a] # Null /\ x.principal \in {a, mailbox[a]}
  /\ x.principal \in Addresses => mailbox[x.principal] # Null

GInv ==
  /\ IInv
  /\ socket \in [Sockets -> SocketType]
  /\ \A k \in Sockets : Entitled(socket[k])

LEMMA InitGInv == GatewayInit => GInv
<1> SUFFICES ASSUME GatewayInit PROVE GInv
  OBVIOUS
<1>1. IInv
  BY InitIInv DEF GatewayInit
<1>2. Disconnected \in SocketType /\ Entitled(Disconnected)
  BY GatewayAssumption DEF Disconnected, SocketType, Entitled
<1> QED
  BY <1>1, <1>2 DEF GInv, GatewayInit

\* The mailbox at an address changes hands only by being deleted.
LEMMA OwnersStay ==
  ASSUME IInv, Next, NEW a \in Addresses, mailbox[a] # Null
  PROVE  mailbox'[a] \in {Null, mailbox[a]}
<1>1. ASSUME NEW r \in Requests, Deletion(r) PROVE mailbox'[a] \in {Null, mailbox[a]}
  <2>1. PICK A, D, M : Cascade(r, A, D, M)
    BY <1>1 DEF Deletion, deleteAccount, adminDeleteMailbox, deleteDomain, deleteMailbox
  <2> DEFINE gone == {b \in Existing : b \in M \/ b[1] \in D \/ mailbox[b] \in A}
  <2>2. mailbox' = [b \in Addresses |-> IF b \in gone THEN Null ELSE mailbox[b]]
    BY <2>1 DEF Cascade
  <2> HIDE DEF gone
  <2> QED
    BY <2>2
<1>2. ASSUME NEW r \in Requests, insertMailbox(r) PROVE mailbox'[a] \in {Null, mailbox[a]}
  <2> DEFINE b == <<req[r].on, req[r].part>>
  <2>1. b \notin Existing /\ mailbox' = [mailbox EXCEPT ![b] = req[r].by]
    BY <1>2 DEF insertMailbox
  <2> HIDE DEF b
  <2> QED
    BY <2>1 DEF Existing, IInv, TypeOK
<1>3. ASSUME NEW r \in Requests,
             AccountsChange(r) \/ insertDomain(r) \/ markVerified(r) \/ RequestOnly(r)
      PROVE  mailbox' = mailbox
  BY <1>3 DEF AccountsChange, SelfProvision, setStatus, insertDomain, markVerified, RequestOnly,
              Resolve, FindAgain, requireOwned, createDomain, seed, verify, createMailbox,
              createOnPlatform, describe, platformAddressFor, existsAt, NeedsAddress, Fail
<1>4. ASSUME NEW s \in Subs, userRegistered(s) PROVE mailbox' = mailbox
  BY <1>4 DEF userRegistered
<1> QED
  BY <1>1, <1>2, <1>3, <1>4, NextCases DEF Insertion

\* Rows change under a socket.
LEMMA APIStep == ASSUME GInv, API PROVE GInv'
<1>0. Next /\ socket' = [k \in Sockets |-> Left(socket[k])] /\ IInv
  BY DEF API, GInv
<1>1. IInv'
  BY <1>0, NextIInv
<1>2. ASSUME NEW x \in SocketType PROVE Left(x) \in SocketType
  BY <1>2 DEF Left, SocketType
<1>3. ASSUME NEW x \in SocketType, Entitled(x)
      PROVE  /\ \A a \in Addresses : (a \in Left(x).rooms \/ a = Left(x).joining) =>
                  mailbox'[a] # Null /\ Left(x).principal \in {a, mailbox'[a]}
             /\ Left(x).principal \in Addresses => mailbox'[Left(x).principal] # Null
  <2> DEFINE y == Left(x)
             gone(id) == \/ id \in Subs /\ account'[id] = Null
                         \/ id \in Addresses /\ mailbox'[id] = Null
  <2>1. /\ y.principal = IF gone(x.principal) THEN Gone ELSE x.principal
        /\ y.rooms = {a \in x.rooms : ~gone(a)}
        /\ y.joining = IF gone(x.joining) THEN Gone ELSE x.joining
    BY DEF Left
  <2> HIDE DEF y
  <2>2. ASSUME NEW a \in Addresses, a \in y.rooms \/ a = y.joining
        PROVE  mailbox'[a] # Null /\ y.principal \in {a, mailbox'[a]}
    <3>1. mailbox'[a] # Null /\ (a \in x.rooms \/ a = x.joining)
      BY <2>1, <2>2, GatewayAssumption
    <3>2. mailbox[a] # Null /\ x.principal \in {a, mailbox[a]}
      BY <1>3, <3>1 DEF Entitled
    <3>3. mailbox'[a] = mailbox[a]
      BY <1>0, <3>1, <3>2, OwnersStay
    <3>4. account'[mailbox'[a]] # Null
      BY <1>1, <3>1 DEF IInv, Housed
    <3>5. mailbox[a] \in Subs
      BY <1>0, <3>2 DEF IInv, TypeOK
    <3>6. ~gone(a) /\ ~gone(mailbox[a])
      BY <3>1, <3>3, <3>4, <3>5, GatewayAssumption
    <3> QED
      BY <2>1, <3>1, <3>2, <3>3, <3>6
  <2>3. y.principal \in Addresses => mailbox'[y.principal] # Null
    BY <2>1, GatewayAssumption
  <2> QED
    BY <2>2, <2>3 DEF y
<1>4. \A k \in Sockets : socket[k] \in SocketType /\ Entitled(socket[k])
  BY DEF GInv
<1>5. \A k \in Sockets : socket'[k] = Left(socket[k])
  BY <1>0
<1>6. socket' \in [Sockets -> SocketType]
  <2>1. socket' = [k \in Sockets |-> socket'[k]]
    BY <1>0
  <2>2. \A k \in Sockets : socket'[k] \in SocketType
    BY <1>2, <1>4, <1>5
  <2> QED
    BY <2>1, <2>2
<1>7. ASSUME NEW k \in Sockets PROVE Entitled(socket[k])'
  <2>1. /\ \A a \in Addresses : (a \in socket'[k].rooms \/ a = socket'[k].joining) =>
             mailbox'[a] # Null /\ socket'[k].principal \in {a, mailbox'[a]}
        /\ socket'[k].principal \in Addresses => mailbox'[socket'[k].principal] # Null
    BY <1>3, <1>4, <1>5
  <2> QED
    BY <2>1 DEF Entitled
<1> QED
  BY <1>1, <1>6, <1>7 DEF GInv

\* A socket's own steps: it becomes x.
LEMMA OwnStep ==
  ASSUME GInv, NEW k \in Sockets, NEW x \in SocketType, Entitled(x),
         socket' = [socket EXCEPT ![k] = x], UNCHANGED vars
  PROVE  GInv'
<1>1. IInv'
  BY NextIInv DEF GInv
<1>2. \A j \in Sockets : socket'[j] = IF j = k THEN x ELSE socket[j]
  BY DEF GInv
<1>3. socket' \in [Sockets -> SocketType]
  BY DEF GInv
<1>4. \A j \in Sockets : Entitled(socket[j])'
  BY <1>2 DEF GInv, Entitled, vars
<1> QED
  BY <1>1, <1>3, <1>4 DEF GInv

LEMMA OwnSteps ==
  ASSUME GInv, NEW k \in Sockets,
         \/ \E id \in Subs \cup Addresses : handleConnection(k, id)
         \/ \E a \in Addresses : join(k, a) \/ leave(k, a)
         \/ joined(k) \/ disconnect(k)
  PROVE  GInv'
<1> DEFINE s == socket[k]
<1>0. s \in SocketType /\ Entitled(s) /\ socket \in [Sockets -> SocketType]
  BY DEF GInv
<1>1. ASSUME NEW id \in Subs \cup Addresses, handleConnection(k, id) PROVE GInv'
  <2> DEFINE x == [s EXCEPT !.principal = id]
  <2>1. s.principal = Null /\ socket' = [socket EXCEPT ![k] = x] /\ UNCHANGED vars
    BY <1>1 DEF handleConnection
  <2>2. x \in SocketType
    BY <1>0 DEF SocketType
  <2>3. x.rooms = s.rooms /\ x.joining = s.joining /\ x.principal = id
    BY <1>0 DEF SocketType
  <2>4. \A a \in Addresses : a \notin x.rooms /\ a # x.joining
    <3> SUFFICES ASSUME NEW a \in Addresses, a \in s.rooms \/ a = s.joining PROVE FALSE
      BY <2>3
    <3>1. mailbox[a] # Null /\ s.principal \in {a, mailbox[a]}
      BY <1>0 DEF Entitled
    <3> QED
      BY <2>1, <3>1, GatewayAssumption
  <2>5. id \in Addresses => mailbox[id] # Null
    BY <1>1, GatewayAssumption DEF handleConnection, SessionAdmitted, Existing
  <2> HIDE DEF x
  <2> QED
    BY <2>1, <2>2, <2>3, <2>4, <2>5, OwnStep DEF Entitled
<1>2. ASSUME NEW a \in Addresses, join(k, a) PROVE GInv'
  <2> DEFINE x == [s EXCEPT !.joining = a]
  <2>1. /\ s.principal # Null /\ mayRead(s.principal, a)
        /\ socket' = [socket EXCEPT ![k] = x] /\ UNCHANGED vars
    BY <1>2 DEF join
  <2>2. x \in SocketType
    BY <1>0 DEF SocketType
  <2>3. x.rooms = s.rooms /\ x.joining = a /\ x.principal = s.principal
    BY <1>0 DEF SocketType
  <2>4. mailbox[a] # Null /\ s.principal \in {a, mailbox[a]}
    BY <1>0, <2>1 DEF mayRead, Entitled, Existing
  <2> HIDE DEF x
  <2> QED
    BY <1>0, <2>1, <2>2, <2>3, <2>4, OwnStep DEF Entitled
<1>3. CASE joined(k)
  <2> DEFINE x == [s EXCEPT !.rooms = @ \cup ({s.joining} \cap Addresses), !.joining = Null]
  <2>1. socket' = [socket EXCEPT ![k] = x] /\ UNCHANGED vars
    BY <1>3 DEF joined
  <2>2. x \in SocketType
    BY <1>0 DEF SocketType
  <2>3. /\ x.rooms = s.rooms \cup ({s.joining} \cap Addresses)
        /\ x.joining = Null /\ x.principal = s.principal
    BY <1>0 DEF SocketType
  <2> HIDE DEF x
  <2> QED
    BY <1>0, <2>1, <2>2, <2>3, GatewayAssumption, OwnStep DEF Entitled
<1>4. ASSUME NEW a \in Addresses, leave(k, a) PROVE GInv'
  <2> DEFINE x == [s EXCEPT !.rooms = @ \ {a}]
  <2>1. socket' = [socket EXCEPT ![k] = x] /\ UNCHANGED vars
    BY <1>4 DEF leave
  <2>2. x \in SocketType
    BY <1>0 DEF SocketType
  <2>3. x.rooms = s.rooms \ {a} /\ x.joining = s.joining /\ x.principal = s.principal
    BY <1>0 DEF SocketType
  <2> HIDE DEF x
  <2> QED
    BY <1>0, <2>1, <2>2, <2>3, OwnStep DEF Entitled
<1>5. CASE disconnect(k)
  <2>1. socket' = [socket EXCEPT ![k] = Disconnected] /\ UNCHANGED vars
    BY <1>5 DEF disconnect
  <2>2. Disconnected \in SocketType /\ Entitled(Disconnected)
    BY GatewayAssumption DEF Disconnected, SocketType, Entitled
  <2> QED
    BY <2>1, <2>2, OwnStep
<1> QED
  BY <1>1, <1>2, <1>3, <1>4, <1>5

LEMMA NextGInv == GInv /\ [GatewayNext]_<<vars, socket>> => GInv'
<1> SUFFICES ASSUME GInv, [GatewayNext]_<<vars, socket>> PROVE GInv'
  OBVIOUS
<1>1. CASE API
  BY <1>1, APIStep
<1>2. ASSUME NEW k \in Sockets,
             \/ \E id \in Subs \cup Addresses : handleConnection(k, id)
             \/ \E a \in Addresses : join(k, a) \/ leave(k, a)
             \/ joined(k) \/ disconnect(k)
      PROVE  GInv'
  BY <1>2, OwnSteps
<1>3. CASE UNCHANGED <<vars, socket>>
  <2>1. IInv'
    BY <1>3, NextIInv DEF GInv
  <2> QED
    BY <1>3, <2>1 DEF GInv, vars, Entitled
<1> QED
  BY <1>1, <1>2, <1>3 DEF GatewayNext

\* The live inbox tells a mailbox's news to its own session and to its account alone,
\* whatever is deleted and claimed again while sockets stay in their rooms
\* (mail.gateway.ts:41-86).
THEOREM NewsReachOnlyOwners == GatewaySpec => []NewsReachOwner
<1>1. GInv => NewsReachOwner
  BY DEF GInv, Entitled, NewsReachOwner, Reached, Existing
<1> QED
  BY <1>1, InitGInv, NextGInv, PTL DEF GatewaySpec

-----------------------------------------------------------------------------
(* DnsReport: any zone, addresses and number of keys *)

\* A line shows records of the answer it judges.
LEMMA LinesShow ==
  ASSUME NEW answer \in SUBSET Publishable(check), NEW l \in Lines(answer)
  PROVE  l \in [status : {"ok", "missing", "mismatch"}, found : SUBSET Publishable(check)]
<1>1. CASE answer = {}
  BY <1>1 DEF Lines, Line
<1>2. CASE answer # {} /\ check \in {"MX", "PTR"}
  BY <1>2 DEF Lines, checkSome, Line
<1>3. CASE answer # {} /\ check \notin {"MX", "PTR"}
  BY <1>3 DEF Lines, checkFirst, Line
<1> QED BY <1>1, <1>2, <1>3

LEMMA ExpectedPublishable ==
  ASSUME check \in Checks, key \in 0..MaxKey
  PROVE  expected \in Publishable(check)
BY DEF Checks, expected, Publishable

LEMMA DnsTyped == DnsTypeOK /\ [DnsNext]_dnsVars => DnsTypeOK'
<1> SUFFICES ASSUME DnsTypeOK, [DnsNext]_dnsVars PROVE DnsTypeOK'
  OBVIOUS
<1>1. check' = check /\ Publishable(check)' = Publishable(check)
  BY DEF DnsNext, runDnsCheck, LookupFails, Recreate, Follow, dnsVars, Publishable
<1>2. CASE runDnsCheck
  BY <1>1, <1>2, LinesShow DEF runDnsCheck, DnsTypeOK
<1>3. CASE LookupFails
  BY <1>1, <1>3, LinesShow, DnsAssumption DEF LookupFails, DnsTypeOK
<1>4. CASE Recreate
  BY <1>1, <1>4, DnsAssumption DEF Recreate, DnsTypeOK, NoLine
<1>5. CASE Follow
  BY <1>1, <1>5, ExpectedPublishable DEF Follow, DnsTypeOK, NoLine
<1>6. CASE UNCHANGED dnsVars
  BY <1>1, <1>6 DEF dnsVars, DnsTypeOK
<1> QED BY <1>2, <1>3, <1>4, <1>5, <1>6 DEF DnsNext

\* A report names only records that can be published, and the bounds hold.
THEOREM DnsTypeCorrect == DnsSpec => []DnsTypeOK
<1>1. DnsInit => DnsTypeOK
  BY DnsAssumption DEF DnsInit, DnsTypeOK, NoLine
<1> QED BY <1>1, DnsTyped, PTL DEF DnsSpec
=============================================================================
