-------------------------- MODULE ThreadingProofs --------------------------
(***************************************************************************)
(* Threading: its types, and that what is shown when a message is opened   *)
(* is one conversation, for any conversations, folders, copies and         *)
(* requests.                                                               *)
(***************************************************************************)
EXTENDS Threading, TLAPS

Steps == {"idle", "insert", "threadsOf", "upsert", "prune", "listThread", "bodies"}

\* Thread id t is one of the conversation of message m.
About(t, m) == t \in Messages /\ conversation[t] = conversation[m]

\* What is shown when copy c is opened.
Shown(S, c) ==
  /\ S \subseteq Copies /\ c \in S
  /\ \A d, e \in S : d[2] = e[2] => d = e
  /\ \A d \in S : conversation[d[2]] = conversation[c[2]]

\* Where a request is says what it holds.
Fits(x) ==
  /\ x = [at |-> x.at, on |-> x.on, read |-> x.read]
  /\ x.at \in Steps
  /\ x.at = "idle" => x = Idle
  /\ x.at \in {"insert", "listThread"} => x.on \in Copies /\ About(x.read, x.on[2])
  /\ x.at = "threadsOf" => x.read \subseteq In(x.on)
  /\ x.at \in {"upsert", "prune"} =>
       DOMAIN x.read \subseteq In(x.on) /\ \A c \in DOMAIN x.read : About(x.read[c], c[2])
  /\ x.at = "bodies" => x.on \in Copies /\ Shown(x.read, x.on)

\* A row's thread id is one of its message's conversation.
Labelled == \A c \in Copies : thread_id[c] # Null => About(thread_id[c], c[2])

IInv ==
  /\ mail \subseteq Copies /\ awaited \subseteq Copies \ mail
  /\ notices \subseteq Copies
  /\ thread_id \in [Copies -> Messages \cup {Null}]
  /\ Labelled
  /\ req = [q \in Requests |-> req[q]]
  /\ \A q \in Requests : Fits(req[q])

LEMMA IdleFits == Fits(Idle)
  BY DEF Fits, Idle, Steps

LEMMA CopiesTyped == \A c \in Copies : c[2] \in Messages
  BY ThreadingAssumption

LEMMA InitIInv == Init => IInv
<1> SUFFICES ASSUME Init PROVE IInv
  OBVIOUS
<1>1. \A q \in Requests : req[q] = Idle
  BY DEF Init
<1>2. req = [q \in Requests |-> req[q]] /\ \A q \in Requests : Fits(req[q])
  BY <1>1, IdleFits DEF Init
<1>3. /\ thread_id \in [Copies -> Messages \cup {Null}] /\ Labelled
      /\ mail \subseteq Copies /\ awaited \subseteq Copies \ mail /\ notices \subseteq Copies
  BY ThreadingAssumption DEF Init, Labelled
<1> QED
  BY <1>2, <1>3 DEF IInv

\* Request r becomes x; the rows keep the conversations they had, or get thread ids
\* of them.
LEMMA OneRequest ==
  ASSUME IInv, NEW r \in Requests, NEW x, Fits(x), req' = [req EXCEPT ![r] = x],
         UNCHANGED <<mail, awaited>>, notices' \subseteq notices,
         thread_id' \in [Copies -> Messages \cup {Null}],
         \A c \in Copies : thread_id'[c] \in {Null, thread_id[c]} \/ About(thread_id'[c], c[2])
  PROVE  IInv'
<1>1. Labelled'
  BY DEF IInv, Labelled
<1>2. req' = [q \in Requests |-> IF q = r THEN x ELSE req[q]]
  BY DEF IInv
<1>3. req' = [q \in Requests |-> req'[q]] /\ \A q \in Requests : Fits(req'[q])
  BY <1>2 DEF IInv
<1>4. /\ mail' \subseteq Copies /\ awaited' \subseteq Copies \ mail'
      /\ notices' \subseteq Copies
  BY DEF IInv
<1> QED
  BY <1>1, <1>3, <1>4 DEF IInv

LEMMA JoinedIsAbout ==
  ASSUME IInv, NEW c \in Copies, NEW t \in Joined(c[2], ThreadsOf(inReplyTo[c[2]]))
  PROVE  About(t, c[2])
<1> DEFINE m == c[2]  p == inReplyTo[c[2]]
<1>1. m \in Messages
  BY CopiesTyped
<1>2. CASE p = Null
  BY <1>1, <1>2 DEF Joined, About
<1>3. CASE p # Null
  <2>1. p \in Messages /\ conversation[m] = conversation[p]
    BY <1>1, <1>3, ThreadingAssumption
  <2>2. CASE t = p
    BY <2>1, <2>2 DEF About
  <2>3. CASE t \in ThreadsOf(p)
    <3>1. PICK d \in Copies : thread_id[d] # Null /\ d[2] = p /\ t = thread_id[d]
      BY <2>3 DEF ThreadsOf, Rows
    <3> QED
      BY <2>1, <3>1 DEF IInv, Labelled, About
  <2> QED
    BY <1>3, <2>2, <2>3 DEF Joined
<1> QED
  BY <1>2, <1>3

-----------------------------------------------------------------------------
(* The steps that write rows *)

LEMMA RowSteps ==
  ASSUME IInv, NEW r \in Requests, insert(r) \/ upsert(r) \/ prune(r)
  PROVE  IInv'
<1>0. Fits(req[r])
  BY DEF IInv
<1>1. CASE insert(r)
  <2>1. /\ req' = [req EXCEPT ![r] = Idle] /\ UNCHANGED <<mail, awaited, notices>>
        /\ req[r].on \in Copies /\ About(req[r].read, req[r].on[2])
        /\ thread_id' = [thread_id EXCEPT ![req[r].on] = IF @ = Null THEN req[r].read ELSE @]
    BY <1>0, <1>1 DEF insert, Finish, server, Fits
  <2>2. \A c \in Copies : thread_id'[c] = IF c = req[r].on /\ thread_id[c] = Null THEN req[r].read
                                          ELSE thread_id[c]
    BY <2>1 DEF IInv
  <2>3. /\ thread_id' \in [Copies -> Messages \cup {Null}]
        /\ \A c \in Copies : thread_id'[c] \in {Null, thread_id[c]} \/ About(thread_id'[c], c[2])
    BY <2>1, <2>2 DEF IInv, About
  <2> QED
    BY <2>1, <2>3, IdleFits, OneRequest
<1>2. CASE upsert(r)
  <2> DEFINE x == [req[r] EXCEPT !.at = "prune"]
  <2>1. /\ req[r].at = "upsert" /\ req' = [req EXCEPT ![r] = x]
        /\ UNCHANGED <<mail, awaited, notices>>
        /\ thread_id' = [c \in Copies |-> IF c \in DOMAIN req[r].read THEN req[r].read[c]
                                          ELSE thread_id[c]]
    BY <1>2 DEF upsert, Goto, server, IInv
  <2>2. \A c \in DOMAIN req[r].read : About(req[r].read[c], c[2])
    BY <1>0, <2>1 DEF Fits
  <2>3. /\ thread_id' \in [Copies -> Messages \cup {Null}]
        /\ \A c \in Copies : thread_id'[c] \in {Null, thread_id[c]} \/ About(thread_id'[c], c[2])
    BY <2>1, <2>2 DEF IInv, About
  <2>4. x.at = "prune" /\ x.on = req[r].on /\ x.read = req[r].read
        /\ x = [at |-> x.at, on |-> x.on, read |-> x.read]
    BY <1>0 DEF Fits
  <2> HIDE DEF x
  <2>5. Fits(x)
    BY <1>0, <2>1, <2>4 DEF Fits, Steps
  <2> QED
    BY <2>1, <2>3, <2>5, OneRequest
<1>3. CASE prune(r)
  <2>1. /\ req' = [req EXCEPT ![r] = Idle] /\ UNCHANGED <<mail, awaited, notices>>
        /\ \A c \in Copies : thread_id'[c] \in {Null, thread_id[c]}
        /\ thread_id' \in [Copies -> Messages \cup {Null}]
    BY <1>3 DEF prune, Finish, server, IInv
  <2> QED
    BY <2>1, IdleFits, OneRequest
<1> QED
  BY <1>1, <1>2, <1>3

-----------------------------------------------------------------------------
(* The steps that read *)

LEMMA BeginSteps ==
  ASSUME IInv, NEW r \in Requests,
         \/ \E c \in Copies : threadOf(r, c) \/ requireMessage(r, c)
         \/ \E f \in Folders : listMessages(r, f)
         \/ fetchThreadBodies(r) \/ Fail(r)
  PROVE  IInv'
<1>0. thread_id \in [Copies -> Messages \cup {Null}] /\ Labelled
  BY DEF IInv
<1>1. ASSUME NEW c \in Copies, threadOf(r, c) PROVE IInv'
  <2>1. PICK t \in Joined(c[2], ThreadsOf(inReplyTo[c[2]])) :
          req' = [req EXCEPT ![r] = [at |-> "insert", on |-> c, read |-> t]]
    BY <1>1 DEF threadOf
  <2> DEFINE x == [at |-> "insert", on |-> c, read |-> t]
  <2>2. About(t, c[2])
    BY <2>1, JoinedIsAbout
  <2>3. Fits(x)
    BY <2>2 DEF Fits, Idle, Steps
  <2>4. /\ UNCHANGED <<mail, awaited, thread_id>> /\ notices' \subseteq notices
        /\ req' = [req EXCEPT ![r] = x]
    BY <1>1, <2>1 DEF threadOf, server
  <2> HIDE DEF x
  <2> QED
    BY <1>0, <2>3, <2>4, OneRequest
<1>2. ASSUME NEW c \in Copies, requireMessage(r, c) PROVE IInv'
  <2> DEFINE x == [at |-> "listThread", on |-> c, read |-> thread_id[c]]
  <2>1. About(thread_id[c], c[2])
    BY <1>0, <1>2 DEF requireMessage, Rows, Labelled
  <2>2. Fits(x)
    BY <2>1 DEF Fits, Steps
  <2>3. UNCHANGED <<mail, awaited, notices, thread_id>> /\ req' = [req EXCEPT ![r] = x]
    BY <1>2 DEF requireMessage, server
  <2> HIDE DEF x
  <2> QED
    BY <1>0, <2>2, <2>3, OneRequest
<1>3. ASSUME NEW f \in Folders, listMessages(r, f) PROVE IInv'
  <2> DEFINE x == [at |-> "threadsOf", on |-> f, read |-> mail \cap In(f)]
  <2>1. Fits(x)
    BY DEF Fits, Idle, Steps
  <2>2. UNCHANGED <<mail, awaited, notices, thread_id>> /\ req' = [req EXCEPT ![r] = x]
    BY <1>3 DEF listMessages, server
  <2> HIDE DEF x
  <2> QED
    BY <1>0, <2>1, <2>2, OneRequest
<1>4. CASE fetchThreadBodies(r) \/ Fail(r)
  <2>1. UNCHANGED <<mail, awaited, notices, thread_id>> /\ req' = [req EXCEPT ![r] = Idle]
    BY <1>4 DEF fetchThreadBodies, Fail, Finish, server
  <2> QED
    BY <1>0, <2>1, IdleFits, OneRequest
<1> QED
  BY <1>1, <1>2, <1>3, <1>4

LEMMA ThreadsStep ==
  ASSUME IInv, NEW r \in Requests, threadsOf(r)
  PROVE  IInv'
<1>0. thread_id \in [Copies -> Messages \cup {Null}] /\ Fits(req[r])
  BY DEF IInv
<1>1. PICK threads \in [req[r].read -> Messages] :
        /\ \A c \in req[r].read : threads[c] \in Joined(c[2], ThreadsOf(inReplyTo[c[2]]))
        /\ req' = [req EXCEPT ![r] = [at |-> "upsert", on |-> @.on, read |-> threads]]
  BY DEF threadsOf
<1> DEFINE x == [at |-> "upsert", on |-> req[r].on, read |-> threads]
<1>2. /\ req[r].at = "threadsOf" /\ req[r].read \subseteq In(req[r].on)
      /\ req[r] = [at |-> req[r].at, on |-> req[r].on, read |-> req[r].read]
  BY <1>0 DEF threadsOf, Fits
<1>3. req' = [req EXCEPT ![r] = x]
  BY <1>1
<1>4. \A c \in req[r].read : c \in Copies /\ About(threads[c], c[2])
  BY <1>1, <1>2, JoinedIsAbout DEF In
<1>5. DOMAIN threads = req[r].read
  OBVIOUS
<1>6. Fits(x)
  BY <1>2, <1>4, <1>5 DEF Fits, Steps
<1>7. UNCHANGED <<mail, awaited, notices, thread_id>>
  BY DEF threadsOf, server
<1> HIDE DEF x
<1> QED
  BY <1>0, <1>3, <1>6, <1>7, OneRequest

\* dedupeThread keeps the opened copy and no message twice.
LEMMA Deduped ==
  ASSUME NEW S, S \subseteq Copies, NEW c \in S, NEW kept \in dedupeThread(S, c),
         \A d \in S : conversation[d[2]] = conversation[c[2]]
  PROVE  Shown(kept, c)
<1>1. kept \subseteq S /\ \A d, e \in kept : d[2] = e[2] => d = e
  BY DEF dedupeThread
<1>2. PICK d \in kept : rank(d, c) >= rank(c, c)
  BY DEF dedupeThread
<1>3. d = c
  BY <1>2 DEF rank
<1> QED
  BY <1>1, <1>2, <1>3 DEF Shown

LEMMA ListStep ==
  ASSUME IInv, NEW r \in Requests, listThread(r)
  PROVE  IInv'
<1> DEFINE siblings == Siblings(req[r].read)
           rows == IF req[r].on \in siblings THEN siblings ELSE {req[r].on}
<1>0. thread_id \in [Copies -> Messages \cup {Null}] /\ Fits(req[r]) /\ Labelled
  BY DEF IInv
<1>1. /\ req[r].at = "listThread" /\ req[r].on \in Copies /\ About(req[r].read, req[r].on[2])
      /\ req[r] = [at |-> req[r].at, on |-> req[r].on, read |-> req[r].read]
  BY <1>0 DEF listThread, Fits
<1>2. \A d \in siblings : d \in Copies /\ conversation[d[2]] = conversation[req[r].on[2]]
  BY <1>0, <1>1 DEF Siblings, Rows, Labelled, About
<1>3. PICK kept \in dedupeThread(rows, req[r].on) :
        req' = [req EXCEPT ![r] = [at |-> "bodies", on |-> @.on, read |-> kept]]
  BY DEF listThread
<1> HIDE DEF siblings
<1>4. /\ rows \subseteq Copies /\ req[r].on \in rows
      /\ \A d \in rows : conversation[d[2]] = conversation[req[r].on[2]]
  BY <1>1, <1>2
<1> HIDE DEF rows
<1>5. Shown(kept, req[r].on)
  BY <1>3, <1>4, Deduped
<1> DEFINE x == [at |-> "bodies", on |-> req[r].on, read |-> kept]
<1>6. req' = [req EXCEPT ![r] = x]
  BY <1>3
<1>7. Fits(x)
  BY <1>1, <1>5 DEF Fits, Steps
<1>8. UNCHANGED <<mail, awaited, notices, thread_id>>
  BY DEF listThread, server
<1> HIDE DEF x
<1> QED
  BY <1>0, <1>6, <1>7, <1>8, OneRequest

-----------------------------------------------------------------------------
(* The steps together *)

LEMMA NextIInv == IInv /\ [Next]_vars => IInv'
<1> SUFFICES ASSUME IInv, [Next]_vars PROVE IInv'
  OBVIOUS
<1>1. ASSUME NEW c \in Copies, Arrive(c) PROVE IInv'
  BY <1>1, ThreadingAssumption DEF Arrive, IInv, Labelled
<1>2. ASSUME NEW c \in Copies, OtherClientRemoves(c) PROVE IInv'
  BY <1>2 DEF OtherClientRemoves, IInv, Labelled
<1>3. ASSUME NEW r \in Requests, Step(r) PROVE IInv'
  BY <1>3, RowSteps, ThreadsStep, ListStep, BeginSteps DEF Step
<1>4. ASSUME NEW r \in Requests,
             \/ \E c \in Copies : threadOf(r, c) \/ requireMessage(r, c)
             \/ \E f \in Folders : listMessages(r, f)
             \/ Fail(r)
      PROVE  IInv'
  BY <1>4, BeginSteps
<1>5. CASE UNCHANGED vars
  BY <1>5 DEF vars, server, IInv, Labelled
<1> QED
  BY <1>1, <1>2, <1>3, <1>4, <1>5 DEF Next

LEMMA Inductive == Spec => []IInv
  BY InitIInv, NextIInv, PTL DEF Spec

\* Rows and requests keep their types (received_message.thread_id,
\* src/messages/message.service.ts:451-505).
THEOREM TypeCorrect == Spec => []TypeOK
<1>1. IInv => TypeOK
  <2> SUFFICES ASSUME IInv PROVE TypeOK
    OBVIOUS
  <2>1. ASSUME NEW r \in Requests
        PROVE  CASE req[r].at = "idle"                  -> req[r] = Idle
                 [] req[r].at \in {"insert", "listThread"} -> req[r].on \in Copies /\ req[r].read \in Messages
                 [] req[r].at = "threadsOf"             -> req[r].read \subseteq In(req[r].on)
                 [] req[r].at \in {"upsert", "prune"}   -> /\ DOMAIN req[r].read \subseteq In(req[r].on)
                                                           /\ Range(req[r].read) \subseteq Messages
                 [] req[r].at = "bodies"                -> req[r].on \in Copies /\ req[r].read \subseteq Copies
    <3>1. Fits(req[r])
      BY DEF IInv
    <3>2. req[r].at \in {"upsert", "prune"} => Range(req[r].read) \subseteq Messages
      BY <3>1 DEF Fits, Range, About
    <3> QED
      BY <3>1, <3>2 DEF Fits, Steps, About, Shown
  <2> QED
    BY <2>1 DEF IInv, TypeOK
<1> QED
  BY <1>1, Inductive, PTL

\* Whatever is listed, announced or removed between reading a message's thread id and
\* reading its thread, what is shown is the message and others of its conversation, each
\* once (message.service.ts:371-389, 583-606).
THEOREM OpensOneConversation == Spec => []OpenedConversation
<1>1. IInv => OpenedConversation
  BY DEF IInv, Fits, Shown, OpenedConversation
<1> QED
  BY <1>1, Inductive, PTL
=============================================================================
