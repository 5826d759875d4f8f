------------------------------ MODULE Gateway ------------------------------
(***************************************************************************)
(* The live inbox (src/internal/mail.gateway.ts) over the rows of Tenancy: *)
(* sockets are identified once, when they connect, and stay in the rooms   *)
(* they joined while mailboxes and accounts come and go.                   *)
(*                                                                         *)
(* A room is named after a mailbox id.  As in Tenancy an id is written as  *)
(* its row's key, and as Gone once the row is deleted; nothing is ever     *)
(* emitted to the room of an id that is Gone.                              *)
(***************************************************************************)
EXTENDS Tenancy

CONSTANT Sockets

ASSUME GatewayAssumption == Addresses \cap (Subs \cup {Null, Gone}) = {}

VARIABLE socket   \* per socket its principal, the rooms it is in, and the mailbox a join has checked

Disconnected == [principal |-> Null, rooms |-> {}, joining |-> Null]

GatewayInit == Init /\ socket = [k \in Sockets |-> Disconnected]

\* Mutant: the room is named after the address.
LeftByAddress(s) == s

\* What is left of a socket's ids once rows are deleted.
Left(s) ==
  LET gone(id) == \/ id \in Subs /\ account'[id] = Null
                  \/ id \in Addresses /\ mailbox'[id] = Null
  IN  [principal |-> IF gone(s.principal) THEN Gone ELSE s.principal,
       rooms     |-> {a \in s.rooms : ~gone(a)},
       joining   |-> IF gone(s.joining) THEN Gone ELSE s.joining]

API == Next /\ socket' = [k \in Sockets |-> Left(socket[k])]

\* PrincipalResolver.resolve, awaited while the socket may already send; until
\* then join ignores it.  A subject without an account provisions itself as in
\* Tenancy.
handleConnection(k, id) ==
  /\ socket[k].principal = Null
  /\ \/ id \in Subs /\ account[id] = "active"
     \/ id \in Addresses /\ SessionAdmitted(id)
  /\ socket' = [socket EXCEPT ![k].principal = id]
  /\ UNCHANGED vars

disconnect(k) ==
  /\ socket[k] # Disconnected
  /\ socket' = [socket EXCEPT ![k] = Disconnected]
  /\ UNCHANGED vars

mayRead(principal, a) ==
  IF principal \in Addresses THEN principal = a ELSE a \in Existing /\ mailbox[a] = principal

join(k, a) ==
  /\ socket[k].principal # Null
  /\ socket[k].joining = Null
  /\ mayRead(socket[k].principal, a)
  /\ socket' = [socket EXCEPT ![k].joining = a]
  /\ UNCHANGED vars

joined(k) ==
  /\ socket[k].joining # Null
  /\ socket' = [socket EXCEPT ![k].rooms = @ \cup ({socket[k].joining} \cap Addresses),
                              ![k].joining = Null]
  /\ UNCHANGED vars

leave(k, a) ==
  /\ a \in socket[k].rooms
  /\ socket' = [socket EXCEPT ![k].rooms = @ \ {a}]
  /\ UNCHANGED vars

GatewayNext ==
  \/ API
  \/ \E k \in Sockets :
       \/ \E id \in Subs \cup Addresses : handleConnection(k, id)
       \/ \E a \in Addresses : join(k, a) \/ leave(k, a)
       \/ joined(k) \/ disconnect(k)

GatewaySpec == GatewayInit /\ [][GatewayNext]_<<vars, socket>>

\* The sockets emitReceived reaches with mail for the mailbox at a.
Reached(a) == {k \in Sockets : a \in socket[k].rooms}

\* News of a mailbox's mail reach its own session and its account only, whatever
\* was deleted, claimed again by someone else or provisioned again since the
\* socket connected, and between the check of a join and the join.
NewsReachOwner ==
  \A a \in Existing : \A k \in Reached(a) : socket[k].principal \in {a, mailbox[a]}
=============================================================================
