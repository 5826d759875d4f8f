----------------------------- MODULE Threading -----------------------------
(***************************************************************************)
(* The conversations of one mailbox: received_message.thread_id, computed  *)
(* by mailReceived (src/internal) for one announced message and by         *)
(* syncFolder (src/messages) for a listed folder, each from the rows it    *)
(* read before, while mail arrives in any order and copies are removed;    *)
(* and what opening a conversation shows.                                  *)
(*                                                                         *)
(* A row is named by its folder and message.  How a row finds its UID and  *)
(* its read flag is Projection's.                                          *)
(***************************************************************************)
EXTENDS Integers, FiniteSets, Functions

CONSTANTS
  Messages,     \* Message-IDs; some may never arrive
  inReplyTo,    \* inReplyTo[m]: the Message-ID that m replies to, or Null
  conversation, \* what each message is about; a reply is about what it replies to
  Folders,
  Copies,       \* the copies that arrive: <<folder, message>>
  Announced,    \* those Sieve announces; the owner's own, as in Sent, it does not see
  Requests,     \* concurrent requests and announcements
  MaxRemovals,  \* bound: copies that other clients remove
  MaxFailures,  \* bound: steps that fail
  Null

ASSUME ThreadingAssumption ==
  /\ Null \notin Messages
  /\ inReplyTo \in [Messages -> Messages \cup {Null}]
  /\ DOMAIN conversation = Messages
  /\ \A m \in Messages : inReplyTo[m] # Null => conversation[m] = conversation[inReplyTo[m]]
  /\ Copies \subseteq Folders \X Messages
  /\ Announced \subseteq Copies
  /\ MaxRemovals \in Nat /\ MaxFailures \in Nat

VARIABLES
  mail,         \* the copies on the mail server
  awaited,      \* the copies still to arrive
  notices,      \* copies announced whose announcement is not handled yet
  thread_id,    \* thread_id[c]: of the row of copy c, or Null if it has none
  req,          \* where each request is, and what it read
  removals, failures

server == <<mail, awaited, removals>>
vars == <<server, notices, thread_id, req, failures>>

\* on: the copy, or the folder, the request is about; read: the thread id it read,
\* the copies it listed, their thread ids, or the copies it is to show.
Idle == [at |-> "idle", on |-> Null, read |-> Null]

Rows == {c \in Copies : thread_id[c] # Null}
In(f) == {c \in Copies : c[1] = f}

Init ==
  /\ mail = {}
  /\ awaited = Copies
  /\ notices = {}
  /\ thread_id = [c \in Copies |-> Null]
  /\ req = [r \in Requests |-> Idle]
  /\ removals = 0
  /\ failures = 0

Goto(r, step) == req' = [req EXCEPT ![r].at = step]
Finish(r) == req' = [req EXCEPT ![r] = Idle]

Arrive(c) ==
  /\ c \in awaited
  /\ mail' = mail \cup {c}
  /\ awaited' = awaited \ {c}
  /\ notices' = notices \cup ({c} \cap Announced)
  /\ UNCHANGED <<removals, thread_id, req, failures>>

OtherClientRemoves(c) ==
  /\ c \in mail
  /\ removals < MaxRemovals
  /\ mail' = mail \ {c}
  /\ removals' = removals + 1
  /\ UNCHANGED <<awaited, notices, thread_id, req, failures>>

\* The thread ids the rows of message m have: none, or one for each copy at most.
ThreadsOf(m) == {thread_id[c] : c \in {d \in Rows : d[2] = m}}

\* The thread of a message whose parent has these thread ids: it starts one, it joins
\* any of them, or it takes the name of the parent that is not there.
Joined(m, parents) ==
  IF inReplyTo[m] = Null THEN {m} ELSE IF parents = {} THEN {inReplyTo[m]} ELSE parents

-----------------------------------------------------------------------------
(* mailReceived *)

\* threadOf reads one row of the parent, if any, ...
threadOf(r, c) ==
  /\ req[r].at = "idle"
  /\ c \in notices
  /\ notices' = notices \ {c}
  /\ \E t \in Joined(c[2], ThreadsOf(inReplyTo[c[2]])) :
       req' = [req EXCEPT ![r] = [at |-> "insert", on |-> c, read |-> t]]
  /\ UNCHANGED <<server, thread_id, failures>>

\* ... and a row that is there is left alone.
insert(r) ==
  /\ req[r].at = "insert"
  /\ thread_id' = [thread_id EXCEPT ![req[r].on] = IF @ = Null THEN req[r].read ELSE @]
  /\ Finish(r)
  /\ UNCHANGED <<server, notices, failures>>

-----------------------------------------------------------------------------
(* syncFolder *)

\* Mutant: whatever the folder, all mail is listed.
listAllMessages(r, f) ==
  /\ req[r].at = "idle"
  /\ req' = [req EXCEPT ![r] = [at |-> "threadsOf", on |-> f, read |-> mail]]
  /\ UNCHANGED <<server, notices, thread_id, failures>>

listMessages(r, f) ==
  /\ req[r].at = "idle"
  /\ req' = [req EXCEPT ![r] = [at |-> "threadsOf", on |-> f, read |-> mail \cap In(f)]]
  /\ UNCHANGED <<server, notices, thread_id, failures>>

\* What the parents' rows say; replies to one parent join the same thread.
threadsOf(r) ==
  /\ req[r].at = "threadsOf"
  /\ \E threads \in [req[r].read -> Messages] :
       /\ \A c \in req[r].read : threads[c] \in Joined(c[2], ThreadsOf(inReplyTo[c[2]]))
       /\ \A c, d \in req[r].read :
            inReplyTo[c[2]] = inReplyTo[d[2]] /\ inReplyTo[c[2]] # Null => threads[c] = threads[d]
       /\ req' = [req EXCEPT ![r] = [at |-> "upsert", on |-> @.on, read |-> threads]]
  /\ UNCHANGED <<server, notices, thread_id, failures>>

\* Mutant: a row that is there keeps its thread.
upsertNew(r) ==
  /\ req[r].at = "upsert"
  /\ thread_id' = [c \in Copies |-> IF c \in DOMAIN req[r].read \ Rows THEN req[r].read[c]
                                   ELSE thread_id[c]]
  /\ Goto(r, "prune")
  /\ UNCHANGED <<server, notices, failures>>

\* Every row listed takes the thread computed for it, also one that is there.
upsert(r) ==
  /\ req[r].at = "upsert"
  /\ thread_id' = [c \in Copies |-> IF c \in DOMAIN req[r].read THEN req[r].read[c]
                                   ELSE thread_id[c]]
  /\ Goto(r, "prune")
  /\ UNCHANGED <<server, notices, failures>>

prune(r) ==
  /\ req[r].at = "prune"
  /\ thread_id' = [c \in Copies |-> IF c \in In(req[r].on) \ DOMAIN req[r].read THEN Null
                                   ELSE thread_id[c]]
  /\ Finish(r)
  /\ UNCHANGED <<server, notices, failures>>

-----------------------------------------------------------------------------
(* Opening a conversation *)

requireMessage(r, c) ==
  /\ req[r].at = "idle"
  /\ c \in Rows
  /\ req' = [req EXCEPT ![r] = [at |-> "listThread", on |-> c, read |-> thread_id[c]]]
  /\ UNCHANGED <<server, notices, thread_id, failures>>

rank(c, opened) == IF c = opened THEN 2 ELSE IF c[1] = opened[1] THEN 1 ELSE 0

\* One copy of each message: the one opened, or else one in its folder.
dedupeThread(S, opened) ==
  {kept \in SUBSET S :
     /\ \A c \in S : \E d \in kept : d[2] = c[2] /\ rank(d, opened) >= rank(c, opened)
     /\ \A c, d \in kept : c[2] = d[2] => c = d}

Siblings(t) == {c \in Rows : thread_id[c] = t}

\* Mutant: what has the thread id is the conversation.
listThreadOnly(r) ==
  /\ req[r].at = "listThread"
  /\ \E kept \in dedupeThread(Siblings(req[r].read), req[r].on) :
       req' = [req EXCEPT ![r] = [at |-> "bodies", on |-> @.on, read |-> kept]]
  /\ UNCHANGED <<server, notices, thread_id, failures>>

\* The rows that have the thread id read before; the opened row alone when it is
\* not among them any more.
listThread(r) ==
  LET siblings == Siblings(req[r].read)
      rows == IF req[r].on \in siblings THEN siblings ELSE {req[r].on}
  IN
  /\ req[r].at = "listThread"
  /\ \E kept \in dedupeThread(rows, req[r].on) :
       req' = [req EXCEPT ![r] = [at |-> "bodies", on |-> @.on, read |-> kept]]
  /\ UNCHANGED <<server, notices, thread_id, failures>>

\* The bodies that can be fetched are, and the conversation is shown.
fetchThreadBodies(r) ==
  /\ req[r].at = "bodies"
  /\ Finish(r)
  /\ UNCHANGED <<server, notices, thread_id, failures>>

-----------------------------------------------------------------------------
\* IMAP or Postgres fails a step; what was done stays done, and an announcement
\* that failed is not made again.
Fail(r) ==
  /\ req[r].at # "idle"
  /\ failures < MaxFailures
  /\ failures' = failures + 1
  /\ Finish(r)
  /\ UNCHANGED <<server, notices, thread_id>>

Step(r) ==
  \/ insert(r) \/ threadsOf(r) \/ upsert(r) \/ prune(r)
  \/ listThread(r) \/ fetchThreadBodies(r)

Next ==
  \/ \E c \in Copies : Arrive(c) \/ OtherClientRemoves(c)
  \/ \E r \in Requests :
       \/ \E c \in Copies : threadOf(r, c) \/ requireMessage(r, c)
       \/ \E f \in Folders : listMessages(r, f)
       \/ Step(r) \/ Fail(r)

Spec == Init /\ [][Next]_vars

\* Requests come to an end, and every folder is opened again and again.
FairSpec ==
  /\ Spec
  /\ \A r \in Requests : WF_vars(Step(r))
  /\ \A f \in Folders : SF_vars(\E r \in Requests : listMessages(r, f))

-----------------------------------------------------------------------------
(* Properties *)

TypeOK ==
  /\ mail \subseteq Copies /\ awaited \subseteq Copies \ mail
  /\ notices \subseteq Copies
  /\ thread_id \in [Copies -> Messages \cup {Null}]
  /\ \A r \in Requests :
       CASE req[r].at = "idle"                  -> req[r] = Idle
         [] req[r].at \in {"insert", "listThread"} -> req[r].on \in Copies /\ req[r].read \in Messages
         [] req[r].at = "threadsOf"             -> req[r].read \subseteq In(req[r].on)
         [] req[r].at \in {"upsert", "prune"}   -> /\ DOMAIN req[r].read \subseteq In(req[r].on)
                                                   /\ Range(req[r].read) \subseteq Messages
         [] req[r].at = "bodies"                -> req[r].on \in Copies /\ req[r].read \subseteq Copies

\* What is shown when a message is opened has that message, no message twice, and
\* only messages of its conversation, whatever was listed, announced or removed
\* since its row was read.
OpenedConversation ==
  \A r \in Requests : req[r].at = "bodies" =>
    /\ req[r].on \in req[r].read
    /\ \A c, d \in req[r].read : c[2] = d[2] => c = d
    /\ \A c \in req[r].read : conversation[c[2]] = conversation[req[r].on[2]]

\* The first message of m's conversation as far as its mail is there, or the one
\* that is missing before it
Root[m \in Messages] ==
  IF inReplyTo[m] = Null THEN m
  ELSE IF \E c \in mail : c[2] = inReplyTo[m] THEN Root[inReplyTo[m]]
  ELSE inReplyTo[m]

\* In whatever order a conversation arrives, was announced, failed or was removed:
\* once it is left alone, opening the folders gives all of it one thread id, its
\* root's, in every folder.
ThreadsConverge == <>[](\A c \in Copies : thread_id[c] = IF c \in mail THEN Root[c[2]] ELSE Null)
=============================================================================
