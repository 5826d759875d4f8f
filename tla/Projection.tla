----------------------------- MODULE Projection -----------------------------
(***************************************************************************)
(* The folders of one mailbox, which live on the IMAP server, and their    *)
(* projection in received_message (src/messages/message.service.ts,        *)
(* src/messages/message.repository.ts).  Sieve announces a message through *)
(* src/internal/mail.controller.ts before the message is stored; listing a *)
(* folder synchronises its rows; opening, moving and removing act on IMAP  *)
(* first and on the row second, by the folder and UID the row gave them.   *)
(*                                                                         *)
(* Every await is a step.  No folder is created, renamed or deleted here.  *)
(***************************************************************************)
EXTENDS Integers, FiniteSets, Functions

CONSTANTS
  Requests,     \* concurrent HTTP requests on the mailbox
  Messages,     \* Message-IDs
  Folders,
  Trashes,      \* where the special use \Trash may be: folders, or Null when none has it
  FiledIn,      \* FiledIn[m]: the folder Sieve files m in
  Asked,        \* bound: the operations asked for, of Ops
  Ids,          \* row ids; an id is drawn again only when nothing recalls it
  MaxUid,       \* bound: UIDs handed out in a folder
  MaxAnnounced, \* bound: notifications of one message
  Null

Ops == {"list", "read", "mark", "thread", "move", "remove", "discard"}

ASSUME ProjectionAssumption ==
  /\ Trashes \subseteq Folders \cup {Null}
  /\ FiledIn \in [Messages -> Folders]
  /\ Asked \subseteq Ops
  /\ MaxUid \in Nat
  /\ MaxAnnounced \in Nat

VARIABLES
  mail,      \* the server's mail: where each copy is, and its \Seen flag
  uidNext,   \* uidNext[f]: the UID folder f gives out next
  trash,     \* the folder whose special use is \Trash, or Null
  rows,      \* rows[i]: the projection's row with id i, or Null
  announced, \* announced[m]: notifications of m received
  pc,        \* where each request is
  op,        \* what it was asked
  row,       \* the row it read
  opened,    \* the row a conversation was opened by, while markRead reads it again
  want,      \* the flag, or the folder, it was asked for
  listing,   \* what the folder it lists held
  \* history variables
  pushed,    \* pushed[m]: events pushed to the clients about m
  alone      \* nothing else has happened since the request listed its folder

server == <<mail, uidNext, trash>>
projection == <<rows, announced, pushed>>
vars == <<server, projection, pc, op, row, opened, want, listing, alone>>

Uid == Nat \ {0}
Copy == [folder : Folders, uid : Uid, msg : Messages, seen : BOOLEAN]
Row == [folder : Folders, uid : Uid \cup {Null}, msg : Messages, read : BOOLEAN]
Located == [id : Ids, folder : Folders, uid : Uid \cup {Null}, msg : Messages, read : BOOLEAN]

ASSUME NullAssumption == Null \notin Uid \cup Row \cup Located \cup Requests \cup Folders

Init ==
  /\ mail = {}
  /\ uidNext = [f \in Folders |-> 1]
  /\ trash \in Trashes
  /\ rows = [i \in Ids |-> Null]
  /\ announced = [m \in Messages |-> 0]
  /\ pc = [r \in Requests |-> "idle"]
  /\ op = [r \in Requests |-> "list"]
  /\ row = [r \in Requests |-> Null]
  /\ opened = [r \in Requests |-> Null]
  /\ want = [r \in Requests |-> Null]
  /\ listing = [r \in Requests |-> {}]
  /\ pushed = [m \in Messages |-> 0]
  /\ alone = [r \in Requests |-> FALSE]

Existing == {i \in Ids : rows[i] # Null}
RowsOf(f) == {i \in Existing : rows[i].folder = f}
Unused == {i \in Ids \ Existing : \A r \in Requests : row[r] = Null \/ row[r].id # i}
At(f, u) == {e \in mail : e.folder = f /\ e.uid = u}
CopiesOf(f, m) == {e \in mail : e.folder = f /\ e.msg = m}

\* dedupe: of several copies of a Message-ID the one with the highest UID.
Dedupe(S) == {e \in S : \A d \in S : d.msg = e.msg => d.uid <= e.uid}

\* Whatever somebody else does ends a listing's being alone.
By(who) == alone' = [r \in Requests |-> alone[r] /\ r = who /\ pc[r] = "upsert"]

\* A request that ends forgets what it read.
Finish(r) ==
  /\ pc' = [pc EXCEPT ![r] = "idle"]
  /\ op' = [op EXCEPT ![r] = "list"]
  /\ row' = [row EXCEPT ![r] = Null]
  /\ opened' = [opened EXCEPT ![r] = Null]
  /\ want' = [want EXCEPT ![r] = Null]
  /\ listing' = [listing EXCEPT ![r] = {}]
Goto(r, step) ==
  /\ pc' = [pc EXCEPT ![r] = step]
  /\ UNCHANGED <<op, want, listing>>

-----------------------------------------------------------------------------
(* The mail server and its other clients *)

\* LMTP stores a message; after a lost reply it is delivered again.
Store(m) ==
  LET f == FiledIn[m] IN
  /\ uidNext[f] <= MaxUid
  /\ mail' = mail \cup {[folder |-> f, uid |-> uidNext[f], msg |-> m, seen |-> FALSE]}
  /\ uidNext' = [uidNext EXCEPT ![f] = @ + 1]
  /\ By(Null)
  /\ UNCHANGED <<trash, projection, pc, op, row, opened, want, listing>>

\* A move gives the copy, if it is still there, the target's next UID.
MoveTo(f, u, target) ==
  /\ uidNext[target] <= MaxUid
  /\ mail' = (mail \ At(f, u))
               \cup {[e EXCEPT !.folder = target, !.uid = uidNext[target]] : e \in At(f, u)}
  /\ uidNext' = IF At(f, u) = {} THEN uidNext ELSE [uidNext EXCEPT ![target] = @ + 1]
  /\ UNCHANGED trash

\* The mailbox is open in other IMAP clients too.
OtherClientMoves(e, target) ==
  /\ e \in mail
  /\ MoveTo(e.folder, e.uid, target)
  /\ By(Null)
  /\ UNCHANGED <<projection, pc, op, row, opened, want, listing>>

-----------------------------------------------------------------------------
(* mailReceived *)

\* Sieve does not know the UID; a row that is there is left alone.
MailReceived(m) ==
  /\ announced[m] < MaxAnnounced
  /\ announced' = [announced EXCEPT ![m] = @ + 1]
  /\ IF \E i \in RowsOf(FiledIn[m]) : rows[i].msg = m
     THEN UNCHANGED <<rows, pushed>>
     ELSE /\ \E i \in Unused :
               rows' = [rows EXCEPT ![i] = [folder |-> FiledIn[m], uid |-> Null,
                                            msg |-> m, read |-> FALSE]]
          /\ pushed' = [pushed EXCEPT ![m] = @ + 1]
  /\ By(Null)
  /\ UNCHANGED <<server, pc, op, row, opened, want, listing>>

-----------------------------------------------------------------------------
(* Listing a folder *)

ListMessages(r, f) ==
  /\ pc[r] = "idle"
  /\ want' = [want EXCEPT ![r] = f]
  /\ listing' = [listing EXCEPT ![r] = Dedupe({e \in mail : e.folder = f})]
  /\ pc' = [pc EXCEPT ![r] = "upsert"]
  /\ alone' = [q \in Requests |-> (q = r) \/ alone[q]]
  /\ UNCHANGED <<server, projection, op, row, opened>>

\* The rows there are take the UID and the flag listed; the others are inserted.
Upsert(r) ==
  LET f == want[r]
      missing == {e \in listing[r] : \A i \in RowsOf(f) : rows[i].msg # e.msg}
  IN
  /\ pc[r] = "upsert"
  /\ \E id \in Injection(missing, Unused) :
       LET For(i) == {e \in listing[r] : IF e \in missing THEN id[e] = i
                                        ELSE i \in RowsOf(f) /\ rows[i].msg = e.msg}
       IN  rows' = [i \in Ids |->
                      IF For(i) = {} THEN rows[i]
                      ELSE LET e == CHOOSE e \in For(i) : TRUE
                           IN  [folder |-> f, uid |-> e.uid, msg |-> e.msg, read |-> e.seen]]
  /\ Goto(r, "prune")
  /\ By(r)
  /\ UNCHANGED <<server, announced, pushed, row, opened>>

\* Mutant: the rows an announcement inserted are kept.
PruneListedOnly(r) ==
  /\ pc[r] = "prune"
  /\ rows' = [i \in Ids |->
                IF i \in RowsOf(want[r]) /\ rows[i].uid # Null
                   /\ \A e \in listing[r] : e.msg # rows[i].msg
                THEN Null ELSE rows[i]]
  /\ Finish(r)
  /\ By(r)
  /\ UNCHANGED <<server, announced, pushed>>

\* The rows of the folder that were not listed are deleted.
Prune(r) ==
  /\ pc[r] = "prune"
  /\ rows' = [i \in Ids |->
                IF i \in RowsOf(want[r]) /\ \A e \in listing[r] : e.msg # rows[i].msg
                THEN Null ELSE rows[i]]
  /\ Finish(r)
  /\ By(r)
  /\ UNCHANGED <<server, announced, pushed>>

-----------------------------------------------------------------------------
(* Operations on a row *)

Read(i) == [id |-> i, folder |-> rows[i].folder, uid |-> rows[i].uid,
            msg |-> rows[i].msg, read |-> rows[i].read]

\* What follows once the UID is known, or known not to be there.
After(r) ==
  CASE op[r] = "read"    -> IF row[r].read THEN "done" ELSE "require"
    [] op[r] = "thread"  -> "done"
    [] op[r] = "discard" -> "remove"
    [] OTHER             -> op[r]

\* The body is fetched, a thread's bodies are; a draft with no UID is left.
Proceed(r) ==
  IF After(r) = "done" \/ (op[r] = "discard" /\ row[r].uid = Null)
  THEN Finish(r)
  ELSE Goto(r, After(r)) /\ UNCHANGED <<row, opened>>

\* requireMessage; an id that is gone is answered 404.
Begin(r, what, i, value) ==
  /\ pc[r] = "idle"
  /\ what \in Asked \ {"list"}
  /\ value \in (CASE what = "mark" -> BOOLEAN [] what = "move" -> Folders [] OTHER -> {TRUE})
  /\ i \in Existing
  /\ op' = [op EXCEPT ![r] = what]
  /\ row' = [row EXCEPT ![r] = Read(i)]
  /\ want' = [want EXCEPT ![r] = value]
  /\ pc' = [pc EXCEPT ![r] =
               CASE what = "mark" -> "flag"
                 [] what = "thread" /\ ~rows[i].read -> "require"
                 [] OTHER -> "resolve"]
  /\ By(r)
  /\ UNCHANGED <<server, projection, opened, listing>>

\* Mutant: a message that is not found has UID 0.
ResolveZero(r) ==
  LET found == Dedupe(CopiesOf(row[r].folder, row[r].msg)) IN
  /\ pc[r] = "resolve"
  /\ IF row[r].uid # Null
     THEN Proceed(r)
     ELSE /\ \E u \in {e.uid : e \in found} \cup (IF found = {} THEN {0} ELSE {}) :
               row' = [row EXCEPT ![r].uid = u]
          /\ Goto(r, "cache")
          /\ UNCHANGED opened
  /\ By(r)
  /\ UNCHANGED <<server, projection>>

\* resolveUid: a row without a UID is looked up in its folder, the last copy wins.
Resolve(r) ==
  LET found == Dedupe(CopiesOf(row[r].folder, row[r].msg)) IN
  /\ pc[r] = "resolve"
  /\ IF row[r].uid # Null \/ found = {}
     THEN Proceed(r)
     ELSE /\ \E e \in found : row' = [row EXCEPT ![r].uid = e.uid]
          /\ Goto(r, "cache")
          /\ UNCHANGED opened
  /\ By(r)
  /\ UNCHANGED <<server, projection>>

SetImapUid(r) ==
  /\ pc[r] = "cache"
  /\ rows' = [i \in Ids |-> IF i = row[r].id /\ i \in Existing
                           THEN [rows[i] EXCEPT !.uid = row[r].uid] ELSE rows[i]]
  /\ Proceed(r)
  /\ By(r)
  /\ UNCHANGED <<server, announced, pushed>>

\* markRead reads the row again, ...
Require(r) ==
  /\ pc[r] = "require"
  /\ IF row[r].id \in Existing
     THEN /\ row' = [row EXCEPT ![r] = Read(@.id)]
          /\ opened' = [opened EXCEPT ![r] = row[r]]
          /\ Goto(r, "flag")
     ELSE Finish(r)
  /\ By(r)
  /\ UNCHANGED <<server, projection>>

\* ... sets the flag over IMAP if the row has a UID, ...
SetSeen(r) ==
  /\ pc[r] = "flag"
  /\ mail' = {IF e \in At(row[r].folder, row[r].uid) THEN [e EXCEPT !.seen = want[r]] ELSE e :
               e \in mail}
  /\ Goto(r, "record")
  /\ UNCHANGED <<row, opened>>
  /\ By(r)
  /\ UNCHANGED <<uidNext, trash, projection>>

\* ... and then in the row.  A conversation goes on to its bodies,
\* with the row it was opened by.
RecordRead(r) ==
  /\ pc[r] = "record"
  /\ rows' = [i \in Ids |-> IF i = row[r].id /\ i \in Existing
                           THEN [rows[i] EXCEPT !.read = want[r]] ELSE rows[i]]
  /\ IF op[r] = "thread"
     THEN /\ row' = [row EXCEPT ![r] = opened[r]]
          /\ opened' = [opened EXCEPT ![r] = Null]
          /\ Goto(r, "resolve")
     ELSE Finish(r)
  /\ By(r)
  /\ UNCHANGED <<server, announced, pushed>>

\* move: over IMAP when the message has a UID, and then ...
Move(r) ==
  /\ pc[r] = "move"
  /\ IF row[r].uid = Null THEN UNCHANGED server ELSE MoveTo(row[r].folder, row[r].uid, want[r])
  /\ Goto(r, "forget")
  /\ UNCHANGED <<row, opened>>
  /\ By(r)
  /\ UNCHANGED projection

\* What is destroyed is gone for good.
Destroy(f, u) ==
  /\ mail' = mail \ At(f, u)
  /\ UNCHANGED <<uidNext, trash>>

\* Mutant: a message whose Message-ID is in Trash already is destroyed.
RemoveOnceInTrash(r) ==
  /\ pc[r] = "remove"
  /\ IF row[r].uid = Null THEN UNCHANGED server
     ELSE IF op[r] = "remove" /\ trash # Null /\ CopiesOf(trash, row[r].msg) = {}
          THEN MoveTo(row[r].folder, row[r].uid, trash)
          ELSE Destroy(row[r].folder, row[r].uid)
  /\ Goto(r, "forget")
  /\ UNCHANGED <<row, opened>>
  /\ By(r)
  /\ UNCHANGED projection

\* remove: into Trash; for good from Trash, or from anywhere when there is no Trash.
\* A discarded draft goes for good.
Remove(r) ==
  /\ pc[r] = "remove"
  /\ IF row[r].uid = Null THEN UNCHANGED server
     ELSE IF op[r] = "remove" /\ trash # Null /\ row[r].folder # trash
          THEN MoveTo(row[r].folder, row[r].uid, trash)
          ELSE Destroy(row[r].folder, row[r].uid)
  /\ Goto(r, "forget")
  /\ UNCHANGED <<row, opened>>
  /\ By(r)
  /\ UNCHANGED projection

\* Mutant: the row goes along with its message and keeps its UID.
ForgetNothing(r) ==
  /\ pc[r] = "forget"
  /\ rows' = IF op[r] = "move" /\ row[r].id \in Existing
             THEN [rows EXCEPT ![row[r].id].folder = want[r]]
             ELSE [rows EXCEPT ![row[r].id] = Null]
  /\ Finish(r)
  /\ By(r)
  /\ UNCHANGED <<server, announced, pushed>>

\* ... the row is deleted; the next listing of the target brings it back.
Forget(r) ==
  /\ pc[r] = "forget"
  /\ rows' = [rows EXCEPT ![row[r].id] = Null]
  /\ Finish(r)
  /\ By(r)
  /\ UNCHANGED <<server, announced, pushed>>

\* IMAP or Postgres fails a step: 503 or 500, and what was done stays done.
Fail(r) ==
  /\ pc[r] # "idle"
  /\ Finish(r)
  /\ By(r)
  /\ UNCHANGED <<server, projection>>

Next ==
  \/ \E m \in Messages : Store(m) \/ MailReceived(m)
  \/ \E e \in mail, f \in Folders : OtherClientMoves(e, f)
  \/ \E r \in Requests :
       \/ \E f \in Folders : ListMessages(r, f)
       \/ \E what \in Asked, i \in Ids, value \in BOOLEAN \cup Folders : Begin(r, what, i, value)
       \/ Upsert(r) \/ Prune(r) \/ Resolve(r) \/ SetImapUid(r) \/ Require(r)
       \/ SetSeen(r) \/ RecordRead(r) \/ Move(r) \/ Remove(r) \/ Forget(r) \/ Fail(r)

Spec == Init /\ [][Next]_vars

-----------------------------------------------------------------------------
(* Properties *)

\* The server's mail, the rows and the requests' locals have their types.
TypeOK ==
  /\ mail \subseteq Copy
  /\ uidNext \in [Folders -> Uid]
  /\ trash \in Trashes
  /\ rows \in [Ids -> Row \cup {Null}]
  /\ announced \in [Messages -> 0..MaxAnnounced]
  /\ pc \in [Requests -> {"idle", "upsert", "prune", "resolve", "cache", "require",
                          "flag", "record", "move", "remove", "forget"}]
  /\ op \in [Requests -> Ops]
  /\ row \in [Requests -> Located \cup {Null}]
  /\ opened \in [Requests -> Located \cup {Null}]
  /\ want \in [Requests -> Folders \cup BOOLEAN \cup {Null}]
  /\ listing \in [Requests -> SUBSET Copy]
  /\ pushed \in [Messages -> Nat]
  /\ alone \in [Requests -> BOOLEAN]

\* A folder and UID that the projection or a request holds for a message name
\* that message or one that is gone, never another: an operation on a row cannot
\* reach somebody else's message, whatever was moved or listed meanwhile.
Names(f, u, m) == \A e \in At(f, u) : e.msg = m
UidNamesItsMessage ==
  /\ \A i \in Existing : Names(rows[i].folder, rows[i].uid, rows[i].msg)
  /\ \A r \in Requests : row[r] # Null => Names(row[r].folder, row[r].uid, row[r].msg)

\* Whatever mess failures and races left, a listing during which nothing else
\* happens leaves the folder's rows exactly as the server has the folder.
AsListed(f) ==
  {[uid |-> rows'[i].uid, msg |-> rows'[i].msg, read |-> rows'[i].read] :
     i \in {j \in Ids : rows'[j] # Null /\ rows'[j].folder = f}}
    = {[uid |-> e.uid, msg |-> e.msg, read |-> e.seen] :
         e \in Dedupe({d \in mail : d.folder = f})}
ListingRepairs ==
  [][\A r \in Requests : Prune(r) /\ alone[r] => AsListed(want[r])]_vars

\* However removals overlap, a copy is destroyed only by a request whose row was in
\* Trash, or whose row was the draft it discards, and is a copy of that row's message:
\* removing twice at once does not destroy what the first removal put in Trash.  Where
\* no folder is Trash there is no first removal: each destroys, whatever folder its
\* row was in.
MayDestroy(r) ==
  pc[r] = "remove" /\ (op[r] = "discard" \/ trash \in {Null, row[r].folder})
DestroyedOnlyFromTrash ==
  [][Cardinality(mail') < Cardinality(mail) =>
       \E r \in Requests : MayDestroy(r) /\ \A e \in mail \ mail' : e.msg = row[r].msg]_vars

\* mail.test.ts:91 "is idempotent, because Sieve runs before delivery is
\* confirmed": a message notified again is not pushed again.
PushedOnce == \A m \in Messages : pushed[m] <= 1

\* message.test.ts:180 "marks a message read on both sides when it is opened":
\* with no request under way, a message whose row is read is \Seen in its folder.
ReadOnBothSides ==
  (\A r \in Requests : pc[r] = "idle") =>
    \A i \in Existing : rows[i].read =>
      \A e \in Dedupe({d \in mail : d.folder = rows[i].folder}) : e.msg = rows[i].msg => e.seen
=============================================================================
