-------------------------- MODULE ProjectionProofs --------------------------
(***************************************************************************)
(* Projection: for any number of requests, messages, folders and UIDs, the *)
(* types, and that no row and no request holds the UID of another message. *)
(***************************************************************************)
EXTENDS Projection, FiniteSetTheorems, TLAPS

USE DEF Uid

\* Where a request is says what it holds.
Shape ==
  \A r \in Requests :
    /\ pc[r] \in {"upsert", "prune"} =>
         /\ want[r] \in Folders
         /\ \A e \in listing[r] : e.folder = want[r]
    /\ pc[r] \notin {"idle", "upsert", "prune"} =>
         /\ row[r] \in Located
         /\ op[r] # "list"
         /\ IF op[r] = "move" THEN want[r] \in Folders ELSE want[r] \in BOOLEAN
    /\ pc[r] \in {"resolve", "cache"} => op[r] # "mark"
    /\ pc[r] \in {"require", "flag", "record"} => op[r] # "move"
    /\ pc[r] \in {"flag", "record"} /\ op[r] = "thread" => opened[r] \in Located
    /\ pc[r] = "move" => op[r] = "move"
    /\ pc[r] = "remove" => op[r] \in {"remove", "discard"}
    /\ pc[r] \notin {"flag", "record"} => opened[r] = Null

\* The server gives a UID out once: the copies of a folder have their own, below
\* the next one.
UidsOnce ==
  /\ \A e \in mail : e.uid < uidNext[e.folder]
  /\ \A e, d \in mail : e.folder = d.folder /\ e.uid = d.uid => e = d

\* A UID held for a message, by a row or by a request, was given out, and to that
\* message.
Issued(f, u, m) == u # Null => u < uidNext[f] /\ Names(f, u, m)
RowsIssued ==
  \A i \in Ids : rows[i] # Null => Issued(rows[i].folder, rows[i].uid, rows[i].msg)
LocalsIssued ==
  \A r \in Requests :
    /\ row[r] # Null => Issued(row[r].folder, row[r].uid, row[r].msg)
    /\ opened[r] # Null => Issued(opened[r].folder, opened[r].uid, opened[r].msg)
    /\ \A e \in listing[r] : Issued(e.folder, e.uid, e.msg)

\* A row keeps its folder and its message for life, so the row a request recalls is,
\* if it is still there, the one it read.
Same(h) == rows[h.id] # Null => rows[h.id].folder = h.folder /\ rows[h.id].msg = h.msg
SameRow ==
  \A r \in Requests :
    /\ row[r] # Null => Same(row[r])
    /\ opened[r] # Null =>
         /\ row[r] # Null
         /\ opened[r].id = row[r].id
         /\ opened[r].folder = row[r].folder
         /\ opened[r].msg = row[r].msg

IInv == TypeOK /\ Shape /\ UidsOnce /\ RowsIssued /\ LocalsIssued /\ SameRow

-----------------------------------------------------------------------------
(* The server *)

\* What a move does to the server: UIDs stay unique and what was issued stays so.
Grows ==
  /\ \A f \in Folders : uidNext[f] <= uidNext'[f]
  /\ \A e \in mail' : \/ \E d \in mail : d.folder = e.folder /\ d.uid = e.uid /\ d.msg = e.msg
                      \/ e.uid >= uidNext[e.folder]

\* A step of the server that only gives out new UIDs keeps everything issued.
LEMMA IssuedStays ==
  ASSUME TypeOK, TypeOK', Grows, NEW f \in Folders, NEW u \in Uid \cup {Null}, NEW m,
         Issued(f, u, m)
  PROVE  u # Null => u < uidNext'[f] /\ Names(f, u, m)'
<1>1. SUFFICES ASSUME u # Null PROVE u < uidNext'[f] /\ Names(f, u, m)'
  OBVIOUS
<1>2. u \in Nat /\ u < uidNext[f] /\ Names(f, u, m)
  BY <1>1 DEF Issued
<1>3. uidNext[f] \in Nat /\ uidNext'[f] \in Nat /\ uidNext[f] <= uidNext'[f]
  BY DEF TypeOK, Grows
<1>4. u < uidNext'[f]
  BY <1>2, <1>3
<1>5. ASSUME NEW e \in mail', e.folder = f, e.uid = u PROVE e.msg = m
  <2>1. CASE \E d \in mail : d.folder = e.folder /\ d.uid = e.uid /\ d.msg = e.msg
    BY <1>2, <1>5, <2>1 DEF Names, At
  <2>2. CASE e.uid >= uidNext[e.folder]
    BY <1>2, <1>3, <1>5, <2>2
  <2> QED BY <2>1, <2>2 DEF Grows
<1> QED BY <1>4, <1>5 DEF Names, At

\* The same for everything held, when rows and requests keep what they hold.
LEMMA HeldStays ==
  ASSUME TypeOK, TypeOK', RowsIssued, LocalsIssued, Grows,
         UNCHANGED <<rows, row, opened, listing>>
  PROVE  RowsIssued' /\ LocalsIssued'
<1>1. ASSUME NEW i \in Ids, rows[i] # Null
      PROVE  Issued(rows[i].folder, rows[i].uid, rows[i].msg)'
  <2>1. rows[i] \in Row
    BY <1>1 DEF TypeOK
  <2>2. rows[i].folder \in Folders /\ rows[i].uid \in Uid \cup {Null}
    BY <2>1 DEF Row
  <2>3. Issued(rows[i].folder, rows[i].uid, rows[i].msg)
    BY <1>1 DEF RowsIssued
  <2> QED BY <2>2, <2>3, IssuedStays DEF Issued
<1>2. ASSUME NEW h \in Located, Issued(h.folder, h.uid, h.msg)
      PROVE  h.uid # Null => h.uid < uidNext'[h.folder] /\ Names(h.folder, h.uid, h.msg)'
  BY <1>2, IssuedStays DEF Located
<1>3. ASSUME NEW e \in Copy, Issued(e.folder, e.uid, e.msg)
      PROVE  e.uid # Null => e.uid < uidNext'[e.folder] /\ Names(e.folder, e.uid, e.msg)'
  BY <1>3, IssuedStays DEF Copy
<1>4. ASSUME NEW r \in Requests, row[r] # Null
      PROVE  Issued(row[r].folder, row[r].uid, row[r].msg)'
  <2>1. row[r] \in Located /\ Issued(row[r].folder, row[r].uid, row[r].msg)
    BY <1>4 DEF TypeOK, LocalsIssued
  <2> QED BY <1>2, <2>1 DEF Issued
<1>5. ASSUME NEW r \in Requests, opened[r] # Null
      PROVE  Issued(opened[r].folder, opened[r].uid, opened[r].msg)'
  <2>1. opened[r] \in Located /\ Issued(opened[r].folder, opened[r].uid, opened[r].msg)
    BY <1>5 DEF TypeOK, LocalsIssued
  <2> QED BY <1>2, <2>1 DEF Issued
<1>6. ASSUME NEW r \in Requests, NEW e \in listing[r]
      PROVE  Issued(e.folder, e.uid, e.msg)'
  <2>1. e \in Copy /\ Issued(e.folder, e.uid, e.msg)
    BY <1>6 DEF TypeOK, LocalsIssued
  <2> QED BY <1>3, <2>1 DEF Issued
<1>7. RowsIssued'
  BY <1>1 DEF RowsIssued
<1>8. LocalsIssued'
  BY <1>4, <1>5, <1>6 DEF LocalsIssued
<1> QED BY <1>7, <1>8

\* A copy on the server is issued to its message.
LEMMA CopyIssued ==
  ASSUME TypeOK, UidsOnce, NEW e \in mail
  PROVE  Issued(e.folder, e.uid, e.msg)
BY DEF UidsOnce, Issued, Names, At

\* A move keeps the server's types and UIDs, and only gives out new ones.
LEMMA MoveGrows ==
  ASSUME TypeOK, UidsOnce, NEW f \in Folders, NEW u \in Uid, NEW target \in Folders,
         MoveTo(f, u, target)
  PROVE  /\ mail' \subseteq Copy
         /\ uidNext' \in [Folders -> Uid]
         /\ UidsOnce'
         /\ Grows
<1> DEFINE moved == {[e EXCEPT !.folder = target, !.uid = uidNext[target]] : e \in At(f, u)}
<1>1. mail \subseteq Copy /\ uidNext \in [Folders -> Uid] /\ uidNext[target] \in Nat
  BY DEF TypeOK
<1>2. mail' = (mail \ At(f, u)) \cup moved
  BY DEF MoveTo
<1>3. \A e \in moved : /\ e \in Copy /\ e.folder = target /\ e.uid = uidNext[target]
                       /\ At(f, u) # {}
  BY <1>1 DEF At, Copy
<1>4. \A e, d \in moved : e = d
  BY DEF At, UidsOnce
<1> HIDE DEF moved
<1>45. uidNext' = IF At(f, u) = {} THEN uidNext ELSE [uidNext EXCEPT ![target] = @ + 1]
  BY DEF MoveTo
<1>5. \A g \in Folders : uidNext'[g] = IF g = target /\ At(f, u) # {} THEN uidNext[g] + 1
                                       ELSE uidNext[g]
  BY <1>1, <1>45
<1>6. uidNext' \in [Folders -> Uid]
  BY <1>1, <1>45
<1>7. \A e \in mail : e.folder \in Folders /\ e.uid \in Nat /\ e.uid < uidNext[e.folder]
  BY <1>1 DEF UidsOnce, Copy
<1>8. mail' \subseteq Copy
  BY <1>1, <1>2, <1>3
<1>9. ASSUME NEW e \in mail' PROVE e.uid < uidNext'[e.folder]
  <2>1. CASE e \in mail
    BY <1>1, <1>5, <1>7, <2>1
  <2>2. CASE e \in moved
    BY <1>1, <1>3, <1>5, <2>2
  <2> QED BY <1>2, <2>1, <2>2
<1>10. ASSUME NEW e \in mail', NEW d \in mail', e.folder = d.folder, e.uid = d.uid
       PROVE  e = d
  <2>1. CASE e \in mail /\ d \in mail
    BY <1>10, <2>1 DEF UidsOnce
  <2>2. CASE e \in moved /\ d \in moved
    BY <1>4, <2>2
  <2>3. CASE e \in mail /\ d \in moved
    BY <1>1, <1>3, <1>7, <1>10, <2>3
  <2>4. CASE e \in moved /\ d \in mail
    BY <1>1, <1>3, <1>7, <1>10, <2>4
  <2> QED BY <1>2, <2>1, <2>2, <2>3, <2>4
<1>11. Grows
  <2>1. \A g \in Folders : uidNext[g] <= uidNext'[g]
    BY <1>1, <1>5
  <2>2. ASSUME NEW e \in mail'
        PROVE  \/ \E d \in mail : d.folder = e.folder /\ d.uid = e.uid /\ d.msg = e.msg
               \/ e.uid >= uidNext[e.folder]
    <3>1. CASE e \in mail
      BY <3>1
    <3>2. CASE e \in moved
      BY <1>1, <1>3, <3>2
    <3> QED BY <1>2, <3>1, <3>2
  <2> QED BY <2>1, <2>2 DEF Grows
<1> QED BY <1>6, <1>8, <1>9, <1>10, <1>11 DEF UidsOnce

-----------------------------------------------------------------------------
(* The requests' locals *)

LocalTypes ==
  /\ pc \in [Requests -> {"idle", "upsert", "prune", "resolve", "cache", "require",
                          "flag", "record", "move", "remove", "forget"}]
  /\ op \in [Requests -> Ops]
  /\ row \in [Requests -> Located \cup {Null}]
  /\ opened \in [Requests -> Located \cup {Null}]
  /\ want \in [Requests -> Folders \cup BOOLEAN \cup {Null}]
  /\ listing \in [Requests -> SUBSET Copy]

\* A request recalls what it recalled, or nothing.
Recalls ==
  \A q \in Requests : \/ row'[q] = row[q] /\ opened'[q] = opened[q]
                      \/ row'[q] = Null /\ opened'[q] = Null

LEMMA AloneType == ASSUME NEW who, By(who) PROVE alone' \in [Requests -> BOOLEAN]
BY DEF By

\* A request that ends holds nothing any more.
LEMMA FinishKeeps ==
  ASSUME TypeOK, Shape, LocalsIssued, NEW r \in Requests, Finish(r), UNCHANGED server
  PROVE  LocalTypes' /\ Shape' /\ LocalsIssued' /\ Recalls
<1>1. LocalTypes'
  BY DEF TypeOK, LocalTypes, Finish, Ops
<1>2. pc'[r] = "idle" /\ row'[r] = Null /\ opened'[r] = Null /\ listing'[r] = {}
  BY DEF TypeOK, Finish
<1>3. \A q \in Requests \ {r} :
        /\ pc'[q] = pc[q] /\ op'[q] = op[q] /\ row'[q] = row[q]
        /\ opened'[q] = opened[q] /\ want'[q] = want[q] /\ listing'[q] = listing[q]
  BY DEF TypeOK, Finish
<1>4. Shape'
  BY <1>2, <1>3 DEF Shape
<1>5. LocalsIssued'
  BY <1>2, <1>3 DEF LocalsIssued, Issued, Names, At, server
<1>6. Recalls
  BY <1>2, <1>3 DEF Recalls
<1> QED BY <1>1, <1>4, <1>5, <1>6

\* A request that goes on after its UID is looked up.
LEMMA ProceedKeeps ==
  ASSUME TypeOK, Shape, LocalsIssued, NEW r \in Requests, Proceed(r),
         pc[r] \in {"resolve", "cache"}, UNCHANGED server
  PROVE  LocalTypes' /\ Shape' /\ LocalsIssued' /\ Recalls
<1>1. CASE Finish(r)
  BY <1>1, FinishKeeps
<1>2. CASE After(r) # "done" /\ Goto(r, After(r)) /\ UNCHANGED <<row, opened>>
  <2>1. op[r] \in {"read", "thread", "move", "remove", "discard"}
    BY DEF TypeOK, Shape, Ops
  <2>2. /\ After(r) \in {"require", "move", "remove"}
        /\ After(r) = "move" => op[r] = "move"
        /\ After(r) = "require" => op[r] = "read"
        /\ After(r) = "remove" => op[r] \in {"remove", "discard"}
    BY <1>2, <2>1 DEF After
  <2>3. pc' = [pc EXCEPT ![r] = After(r)] /\ UNCHANGED <<op, row, opened, want, listing>>
    BY <1>2 DEF Goto
  <2>4. LocalTypes'
    BY <2>2, <2>3 DEF TypeOK, LocalTypes
  <2>5. pc'[r] = After(r) /\ \A q \in Requests \ {r} : pc'[q] = pc[q]
    BY <2>3 DEF TypeOK
  <2>6. Shape'
    BY <2>2, <2>3, <2>5 DEF Shape
  <2>7. LocalsIssued'
    BY <2>3 DEF LocalsIssued, Issued, Names, At, server
  <2> QED BY <2>3, <2>4, <2>6, <2>7 DEF Recalls
<1> QED BY <1>1, <1>2 DEF Proceed

\* A request that holds what it held and goes on to another step.
LEMMA GotoKeeps ==
  ASSUME TypeOK, Shape, NEW r \in Requests, NEW step, Goto(r, step),
         UNCHANGED <<row, opened>>,
         \/ step = "forget" /\ pc[r] \in {"move", "remove"}
         \/ step = "record" /\ pc[r] = "flag"
  PROVE  LocalTypes' /\ Shape'
<1>1. pc' = [pc EXCEPT ![r] = step] /\ UNCHANGED <<op, row, opened, want, listing>>
  BY DEF Goto
<1>2. pc'[r] = step /\ \A q \in Requests \ {r} : pc'[q] = pc[q]
  BY <1>1 DEF TypeOK
<1>3. LocalTypes'
  BY <1>1 DEF TypeOK, LocalTypes
<1>4. Shape'
  BY <1>1, <1>2 DEF Shape
<1> QED BY <1>3, <1>4

-----------------------------------------------------------------------------
(* The steps that change the server *)

LEMMA ServerStep ==
  ASSUME IInv, mail' \subseteq Copy, uidNext' \in [Folders -> Uid], UidsOnce', Grows,
         UNCHANGED <<trash, projection, row, opened, listing>>,
         LocalTypes', Shape', NEW who, By(who)
  PROVE  IInv'
<1>1. TypeOK'
  BY AloneType DEF IInv, TypeOK, LocalTypes, projection
<1>2. RowsIssued' /\ LocalsIssued'
  BY <1>1, HeldStays DEF IInv, projection
<1>3. SameRow'
  BY DEF IInv, SameRow, Same, projection
<1> QED BY <1>1, <1>2, <1>3 DEF IInv

LEMMA StoreKeeps ==
  ASSUME IInv, NEW m \in Messages, Store(m)
  PROVE  IInv'
<1> DEFINE f == FiledIn[m]
           new == [folder |-> f, uid |-> uidNext[f], msg |-> m, seen |-> FALSE]
<1>1. f \in Folders /\ uidNext \in [Folders -> Uid] /\ mail \subseteq Copy
  BY ProjectionAssumption DEF IInv, TypeOK
<1>2. mail' = mail \cup {new} /\ uidNext' = [uidNext EXCEPT ![f] = @ + 1]
  BY DEF Store
<1>3. new \in Copy /\ new.folder = f /\ new.uid = uidNext[f]
  BY <1>1 DEF Copy
<1> HIDE DEF f, new
<1>4. \A e \in mail : e.folder \in Folders /\ e.uid \in Nat /\ e.uid < uidNext[e.folder]
  BY <1>1 DEF IInv, UidsOnce, Copy
<1>5. \A g \in Folders : uidNext'[g] = IF g = f THEN uidNext[g] + 1 ELSE uidNext[g]
  BY <1>1, <1>2
<1>6. UidsOnce'
  <2>1. \A e \in mail' : e.uid < uidNext'[e.folder]
    BY <1>1, <1>2, <1>3, <1>4, <1>5
  <2>2. \A e, d \in mail' : e.folder = d.folder /\ e.uid = d.uid => e = d
    BY <1>1, <1>2, <1>3, <1>4 DEF IInv, UidsOnce
  <2> QED BY <2>1, <2>2 DEF UidsOnce
<1>7. Grows
  <2>1. \A g \in Folders : uidNext[g] <= uidNext'[g]
    BY <1>1, <1>5
  <2>2. uidNext[f] >= uidNext[f]
    BY <1>1
  <2> QED BY <1>2, <1>3, <2>1, <2>2 DEF Grows
<1>8. mail' \subseteq Copy /\ uidNext' \in [Folders -> Uid]
  BY <1>1, <1>2, <1>3
<1>9. UNCHANGED <<trash, projection, pc, op, row, opened, want, listing>> /\ By(Null)
  BY DEF Store
<1>10. LocalTypes' /\ Shape'
  BY <1>9 DEF IInv, TypeOK, LocalTypes, Shape
<1> QED BY <1>6, <1>7, <1>8, <1>9, <1>10, ServerStep

LEMMA OtherClientMovesKeeps ==
  ASSUME IInv, NEW e \in mail, NEW target \in Folders, OtherClientMoves(e, target)
  PROVE  IInv'
<1>1. e.folder \in Folders /\ e.uid \in Uid
  BY DEF IInv, TypeOK, Copy
<1>2. mail' \subseteq Copy /\ uidNext' \in [Folders -> Uid] /\ UidsOnce' /\ Grows
  BY <1>1, MoveGrows DEF IInv, OtherClientMoves
<1>3. UNCHANGED <<trash, projection, pc, op, row, opened, want, listing>> /\ By(Null)
  BY DEF OtherClientMoves, MoveTo
<1>4. LocalTypes' /\ Shape'
  BY <1>3 DEF IInv, TypeOK, LocalTypes, Shape
<1> QED BY <1>2, <1>3, <1>4, ServerStep

\* Destroying copies, or leaving the server alone, gives nothing out.
LEMMA FewerGrows ==
  ASSUME TypeOK, UidsOnce, mail' \subseteq mail, UNCHANGED uidNext
  PROVE  mail' \subseteq Copy /\ uidNext' \in [Folders -> Uid] /\ UidsOnce' /\ Grows
<1>1. \A f \in Folders : uidNext[f] <= uidNext[f]
  BY DEF TypeOK
<1>2. Grows
  BY <1>1 DEF Grows
<1> QED BY <1>2 DEF TypeOK, UidsOnce

LEMMA MoveKeeps ==
  ASSUME IInv, NEW r \in Requests, Move(r)
  PROVE  IInv'
<1>1. row[r] \in Located /\ want[r] \in Folders
  BY DEF IInv, TypeOK, Shape, Move
<1>2. mail' \subseteq Copy /\ uidNext' \in [Folders -> Uid] /\ UidsOnce' /\ Grows
  <2>1. CASE row[r].uid = Null
    BY <2>1, FewerGrows DEF IInv, Move, server
  <2>2. CASE row[r].uid # Null
    <3>1. row[r].folder \in Folders /\ row[r].uid \in Uid
      BY <1>1, <2>2 DEF Located
    <3> QED BY <1>1, <2>2, <3>1, MoveGrows DEF IInv, Move
  <2> QED BY <2>1, <2>2
<1>3. LocalTypes' /\ Shape'
  BY GotoKeeps DEF IInv, Move
<1> QED BY <1>2, <1>3, ServerStep DEF Move, MoveTo, Goto, server

LEMMA RemoveKeeps ==
  ASSUME IInv, NEW r \in Requests, Remove(r)
  PROVE  IInv'
<1>1. row[r] \in Located /\ trash \in Folders \cup {Null}
  BY ProjectionAssumption DEF IInv, TypeOK, Shape, Remove
<1>2. mail' \subseteq Copy /\ uidNext' \in [Folders -> Uid] /\ UidsOnce' /\ Grows
  <2>1. CASE row[r].uid = Null
    BY <2>1, FewerGrows DEF IInv, Remove, server
  <2>2. CASE row[r].uid # Null /\ trash # Null /\ MoveTo(row[r].folder, row[r].uid, trash)
    <3>1. row[r].folder \in Folders /\ row[r].uid \in Uid /\ trash \in Folders
      BY <1>1, <2>2 DEF Located
    <3> QED BY <2>2, <3>1, MoveGrows DEF IInv
  <2>3. CASE Destroy(row[r].folder, row[r].uid)
    BY <2>3, FewerGrows DEF IInv, Destroy
  <2> QED BY <2>1, <2>2, <2>3 DEF Remove
<1>3. LocalTypes' /\ Shape'
  BY GotoKeeps DEF IInv, Remove
<1>4. UNCHANGED <<trash, projection, row, opened, listing>> /\ By(r)
  BY DEF Remove, MoveTo, Destroy, Goto, server
<1> QED BY <1>2, <1>3, <1>4, ServerStep

LEMMA SetSeenKeeps ==
  ASSUME IInv, NEW r \in Requests, SetSeen(r)
  PROVE  IInv'
<1> DEFINE flagged(e) == IF e \in At(row[r].folder, row[r].uid)
                         THEN [e EXCEPT !.seen = want[r]] ELSE e
<1>1. want[r] \in BOOLEAN /\ mail \subseteq Copy
  BY DEF IInv, TypeOK, Shape, SetSeen
<1>2. \A e \in mail : /\ flagged(e) \in Copy /\ flagged(e).folder = e.folder
                      /\ flagged(e).uid = e.uid /\ flagged(e).msg = e.msg
  BY <1>1 DEF Copy
<1>3. mail' = {flagged(e) : e \in mail} /\ UNCHANGED uidNext
  BY DEF SetSeen
<1> HIDE DEF flagged
<1>4. mail' \subseteq Copy /\ uidNext' \in [Folders -> Uid]
  BY <1>2, <1>3 DEF IInv, TypeOK
<1>5. UidsOnce'
  BY <1>2, <1>3 DEF IInv, UidsOnce
<1>6. Grows
  <2>1. \A f \in Folders : uidNext[f] <= uidNext'[f]
    BY <1>3 DEF IInv, TypeOK
  <2>2. \A e \in mail' : \E d \in mail : d.folder = e.folder /\ d.uid = e.uid /\ d.msg = e.msg
    BY <1>2, <1>3
  <2> QED BY <2>1, <2>2 DEF Grows
<1>7. LocalTypes' /\ Shape'
  BY GotoKeeps DEF IInv, SetSeen
<1> QED BY <1>4, <1>5, <1>6, <1>7, ServerStep DEF SetSeen, Goto

-----------------------------------------------------------------------------
(* The steps that leave the server alone *)

LEMMA RowStep ==
  ASSUME IInv, UNCHANGED server,
         rows' \in [Ids -> Row \cup {Null}],
         announced' \in [Messages -> 0..MaxAnnounced], pushed' \in [Messages -> Nat],
         RowsIssued', LocalTypes', Shape', LocalsIssued', SameRow', NEW who, By(who)
  PROVE  IInv'
<1>1. TypeOK'
  BY AloneType DEF IInv, TypeOK, LocalTypes, server
<1>2. UidsOnce'
  BY DEF IInv, UidsOnce, server
<1> QED BY <1>1, <1>2 DEF IInv

\* Rows may be deleted.
LEMMA FewerRows ==
  ASSUME IInv, UNCHANGED <<server, announced, pushed>>,
         rows' \in [Ids -> Row \cup {Null}],
         \A i \in Ids : rows'[i] # Null =>
           /\ rows[i] # Null
           /\ rows'[i].folder = rows[i].folder
           /\ rows'[i].uid = rows[i].uid
           /\ rows'[i].msg = rows[i].msg,
         LocalTypes', Shape', LocalsIssued', SameRow', NEW who, By(who)
  PROVE  IInv'
<1>1. RowsIssued'
  BY DEF IInv, RowsIssued, Issued, Names, At, server
<1> QED BY <1>1, RowStep DEF IInv, TypeOK

LEMMA SameStays ==
  ASSUME SameRow, Recalls,
         \A i \in Ids : rows'[i] # Null =>
           /\ rows[i] # Null
           /\ rows'[i].folder = rows[i].folder
           /\ rows'[i].msg = rows[i].msg,
         TypeOK, LocalTypes'
  PROVE  SameRow'
<1>1. \A r \in Requests : row'[r] # Null => row'[r] = row[r] /\ row[r].id \in Ids
  BY DEF TypeOK, Located, Recalls
<1>3. \A r \in Requests : opened'[r] # Null =>
        /\ row'[r] # Null
        /\ opened'[r].id = row'[r].id
        /\ opened'[r].folder = row'[r].folder
        /\ opened'[r].msg = row'[r].msg
  BY DEF SameRow, Recalls
<1>2. ASSUME NEW r \in Requests, row'[r] # Null, rows'[row'[r].id] # Null
      PROVE  rows'[row'[r].id].folder = row'[r].folder /\ rows'[row'[r].id].msg = row'[r].msg
  BY <1>1, <1>2 DEF SameRow, Same
<1> QED BY <1>2, <1>3 DEF SameRow, Same

\* A row read from the table.
LEMMA ReadHolds ==
  ASSUME TypeOK, RowsIssued, NEW i \in Existing
  PROVE  /\ Read(i) \in Located
         /\ Issued(Read(i).folder, Read(i).uid, Read(i).msg)
<1>1. i \in Ids /\ rows[i] # Null /\ rows[i] \in Row
  BY DEF TypeOK, Existing
<1>2. Issued(rows[i].folder, rows[i].uid, rows[i].msg)
  BY <1>1 DEF RowsIssued
<1>3. /\ Read(i).folder = rows[i].folder /\ Read(i).uid = rows[i].uid
      /\ Read(i).msg = rows[i].msg
  BY DEF Read
<1> QED BY <1>1, <1>2, <1>3 DEF Read, Row, Located

LEMMA MailReceivedKeeps ==
  ASSUME IInv, NEW m \in Messages, MailReceived(m)
  PROVE  IInv'
<1> DEFINE new == [folder |-> FiledIn[m], uid |-> Null, msg |-> m, read |-> FALSE]
<1>1. new \in Row /\ new.uid = Null
  BY ProjectionAssumption DEF Row
<1>2. announced' \in [Messages -> 0..MaxAnnounced]
  BY ProjectionAssumption DEF MailReceived, IInv, TypeOK
<1>3. pushed' \in [Messages -> Nat]
  BY DEF MailReceived, IInv, TypeOK
<1>4. rows' = rows \/ \E i \in Ids : rows' = [rows EXCEPT ![i] = new]
  BY DEF MailReceived, Unused
<1> HIDE DEF new
<1>5. rows' \in [Ids -> Row \cup {Null}]
  BY <1>1, <1>4 DEF IInv, TypeOK
<1>6. UNCHANGED <<server, pc, op, row, opened, want, listing>> /\ By(Null)
  BY DEF MailReceived
<1>7. RowsIssued'
  BY <1>1, <1>4, <1>6 DEF IInv, TypeOK, RowsIssued, Issued, Names, At, server
<1>8. LocalTypes' /\ Shape' /\ LocalsIssued'
  BY <1>6 DEF IInv, TypeOK, LocalTypes, Shape, LocalsIssued, Issued, Names, At, server
<1>9. SameRow'
  <2>1. \A r \in Requests : row[r] # Null =>
          /\ row[r].id \in Ids
          /\ rows'[row[r].id] # Null => rows'[row[r].id] = rows[row[r].id]
    BY DEF MailReceived, Unused, Existing, IInv, TypeOK, Located
  <2> QED BY <1>6, <2>1 DEF IInv, SameRow, Same
<1> QED BY <1>2, <1>3, <1>5, <1>6, <1>7, <1>8, <1>9, RowStep

LEMMA ListMessagesKeeps ==
  ASSUME IInv, NEW r \in Requests, NEW f \in Folders, ListMessages(r, f)
  PROVE  IInv'
<1> DEFINE found == Dedupe({e \in mail : e.folder = f})
<1>1. pc[r] = "idle"
  BY DEF ListMessages
<1>2. found \subseteq mail /\ found \subseteq Copy /\ \A e \in found : e.folder = f
  BY DEF Dedupe, IInv, TypeOK
<1>3. /\ pc' = [pc EXCEPT ![r] = "upsert"] /\ want' = [want EXCEPT ![r] = f]
      /\ listing' = [listing EXCEPT ![r] = found]
      /\ UNCHANGED <<server, projection, op, row, opened>>
  BY DEF ListMessages
<1>4. alone' \in [Requests -> BOOLEAN]
  BY DEF ListMessages
<1> HIDE DEF found
<1>5. TypeOK'
  BY <1>2, <1>3, <1>4 DEF IInv, TypeOK, server, projection
<1>6. /\ pc'[r] = "upsert" /\ want'[r] = f /\ listing'[r] = found
      /\ \A q \in Requests \ {r} : /\ pc'[q] = pc[q] /\ want'[q] = want[q]
                                  /\ listing'[q] = listing[q]
  BY <1>3 DEF IInv, TypeOK
<1>7. Shape'
  BY <1>1, <1>2, <1>3, <1>6 DEF IInv, Shape
<1>8. UidsOnce' /\ RowsIssued'
  BY <1>3 DEF IInv, UidsOnce, RowsIssued, Issued, Names, At, server, projection
<1>9. \A e \in found : Issued(e.folder, e.uid, e.msg)
  BY <1>2, CopyIssued DEF IInv
<1>10. LocalsIssued'
  BY <1>3, <1>6, <1>9 DEF IInv, LocalsIssued, Issued, Names, At, server
<1>11. SameRow'
  BY <1>3 DEF IInv, SameRow, Same, projection
<1> QED BY <1>5, <1>7, <1>8, <1>10, <1>11 DEF IInv

LEMMA UpsertKeeps ==
  ASSUME IInv, NEW r \in Requests, Upsert(r)
  PROVE  IInv'
<1> DEFINE f == want[r]
           missing == {e \in listing[r] : \A i \in RowsOf(f) : rows[i].msg # e.msg}
           For(id, i) == {e \in listing[r] : IF e \in missing THEN id[e] = i
                                             ELSE i \in RowsOf(f) /\ rows[i].msg = e.msg}
           listed(e) == [folder |-> f, uid |-> e.uid, msg |-> e.msg, read |-> e.seen]
<1>1. f \in Folders /\ listing[r] \subseteq Copy /\ \A e \in listing[r] : e.folder = f
  BY DEF Upsert, IInv, TypeOK, Shape
<1>2. \A e \in listing[r] : listed(e) \in Row /\ Issued(f, listed(e).uid, listed(e).msg)
  BY <1>1 DEF Copy, Row, IInv, LocalsIssued
<1>3. PICK id \in Injection(missing, Unused) :
        rows' = [i \in Ids |-> IF For(id, i) = {} THEN rows[i]
                               ELSE LET e == CHOOSE e \in For(id, i) : TRUE
                                    IN  [folder |-> f, uid |-> e.uid, msg |-> e.msg,
                                         read |-> e.seen]]
  BY DEF Upsert
<1>4. \A i \in Ids : rows'[i] = rows[i] \/ \E e \in listing[r] : rows'[i] = listed(e)
  BY <1>3
<1>5. rows' = [i \in Ids |-> rows'[i]]
  BY <1>3
<1>6. UNCHANGED <<server, announced, pushed, op, row, opened, want, listing>> /\ By(r)
  BY DEF Upsert, Goto
<1>7. \A e : listed(e).folder = f
  OBVIOUS
<1> HIDE DEF listed
<1>8. rows' \in [Ids -> Row \cup {Null}]
  BY <1>2, <1>4, <1>5 DEF IInv, TypeOK
<1>9. RowsIssued'
  BY <1>2, <1>4, <1>6, <1>7 DEF IInv, RowsIssued, Issued, Names, At, server
<1>10. pc' = [pc EXCEPT ![r] = "prune"]
  BY DEF Upsert, Goto
<1>11. LocalTypes' /\ LocalsIssued'
  BY <1>6, <1>10 DEF IInv, TypeOK, LocalTypes, LocalsIssued, Issued, Names, At, server
<1>12. Shape'
  <2>1. pc'[r] = "prune" /\ \A q \in Requests \ {r} : pc'[q] = pc[q]
    BY <1>10 DEF IInv, TypeOK
  <2> QED BY <1>1, <1>6, <2>1 DEF IInv, Shape, Upsert
<1>13. SameRow'
  <2>1. ASSUME NEW q \in Requests, row[q] # Null, rows'[row[q].id] # Null
        PROVE  rows'[row[q].id].folder = row[q].folder /\ rows'[row[q].id].msg = row[q].msg
    <3>1. row[q].id \in Ids /\ row[q].id \notin Unused
      BY <2>1 DEF IInv, TypeOK, Located, Unused
    <3>2. CASE rows'[row[q].id] = rows[row[q].id]
      BY <2>1, <3>2 DEF IInv, SameRow, Same
    <3>3. CASE For(id, row[q].id) # {}
      <4>1. PICK e \in For(id, row[q].id) : rows'[row[q].id] = listed(e)
        BY <1>3, <3>1, <3>3 DEF listed
      <4>2. row[q].id \in RowsOf(f) /\ rows[row[q].id].msg = e.msg
        BY <1>3, <3>1 DEF Injection
      <4>3. rows'[row[q].id].folder = f /\ rows'[row[q].id].msg = e.msg
        BY <4>1 DEF listed
      <4>4. Same(row[q]) /\ rows[row[q].id] # Null /\ rows[row[q].id].folder = f
        BY <2>1, <4>2 DEF RowsOf, Existing, IInv, SameRow
      <4> QED BY <4>2, <4>3, <4>4 DEF Same
    <3> QED BY <1>3, <3>1, <3>2, <3>3
  <2> QED BY <1>6, <2>1 DEF IInv, SameRow, Same
<1> QED BY <1>6, <1>8, <1>9, <1>11, <1>12, <1>13, RowStep DEF IInv, TypeOK

LEMMA PruneKeeps ==
  ASSUME IInv, NEW r \in Requests, Prune(r)
  PROVE  IInv'
<1>1. \A i \in Ids : rows'[i] \in {rows[i], Null}
  BY DEF Prune
<1>2. rows' \in [Ids -> Row \cup {Null}]
  BY DEF Prune, IInv, TypeOK
<1>3. Finish(r) /\ By(r) /\ UNCHANGED <<server, announced, pushed>>
  BY DEF Prune
<1>4. LocalTypes' /\ Shape' /\ LocalsIssued' /\ Recalls
  BY <1>3, FinishKeeps DEF IInv
<1>5. SameRow'
  BY <1>1, <1>4, SameStays DEF IInv
<1> QED BY <1>1, <1>2, <1>3, <1>4, <1>5, FewerRows

LEMMA BeginKeeps ==
  ASSUME IInv, NEW r \in Requests, NEW what \in Asked, NEW i \in Ids,
         NEW value \in BOOLEAN \cup Folders, Begin(r, what, i, value)
  PROVE  IInv'
<1> DEFINE first == CASE what = "mark" -> "flag"
                      [] what = "thread" /\ ~rows[i].read -> "require"
                      [] OTHER -> "resolve"
           got == Read(i)
<1>1. /\ op' = [op EXCEPT ![r] = what] /\ row' = [row EXCEPT ![r] = got]
      /\ want' = [want EXCEPT ![r] = value] /\ pc' = [pc EXCEPT ![r] = first]
      /\ UNCHANGED <<server, projection, opened, listing>> /\ By(r)
  BY DEF Begin
<1>2. /\ what \in Ops \ {"list"} /\ pc[r] = "idle"
      /\ IF what = "move" THEN value \in Folders ELSE value \in BOOLEAN
  BY ProjectionAssumption DEF Begin, Ops
<1>3. got \in Located /\ Issued(got.folder, got.uid, got.msg)
  BY ReadHolds DEF Begin, IInv
<1>4. /\ what = "mark" => first = "flag"
      /\ what # "mark" => first \in {"require", "resolve"}
      /\ first = "require" => what = "thread"
  OBVIOUS
<1>5. got # Null /\ got.id = i /\ got.folder = rows[i].folder /\ got.msg = rows[i].msg
  BY <1>3, NullAssumption DEF Read
<1> HIDE DEF first, got
<1>6. LocalTypes'
  BY <1>1, <1>2, <1>3, <1>4 DEF IInv, TypeOK, LocalTypes
<1>7. /\ pc'[r] = first /\ op'[r] = what /\ row'[r] = got /\ want'[r] = value
      /\ \A q \in Requests \ {r} : /\ pc'[q] = pc[q] /\ op'[q] = op[q]
                                  /\ row'[q] = row[q] /\ want'[q] = want[q]
  BY <1>1 DEF IInv, TypeOK
<1>8. Shape'
  BY <1>1, <1>2, <1>3, <1>4, <1>7 DEF IInv, Shape
<1>9. LocalsIssued'
  BY <1>1, <1>3, <1>7 DEF IInv, LocalsIssued, Issued, Names, At, server
<1>10. RowsIssued'
  BY <1>1 DEF IInv, RowsIssued, Issued, Names, At, server, projection
<1>11. SameRow'
  <2>1. opened[r] = Null
    BY <1>2 DEF IInv, Shape
  <2> QED BY <1>1, <1>7, <1>5, <2>1 DEF IInv, SameRow, Same, projection
<1> QED BY <1>1, <1>6, <1>8, <1>9, <1>10, <1>11, RowStep DEF IInv, TypeOK, projection

LEMMA ResolveKeeps ==
  ASSUME IInv, NEW r \in Requests, Resolve(r)
  PROVE  IInv'
<1>1. UNCHANGED <<server, projection>> /\ By(r) /\ pc[r] = "resolve"
  BY DEF Resolve
<1>2. RowsIssued'
  BY <1>1 DEF IInv, RowsIssued, Issued, Names, At, server, projection
<1>3. CASE Proceed(r)
  <2>1. LocalTypes' /\ Shape' /\ LocalsIssued' /\ Recalls
    BY <1>1, <1>3, ProceedKeeps DEF IInv
  <2>2. SameRow'
    BY <1>1, <2>1, SameStays DEF IInv, projection
  <2> QED BY <1>1, <1>2, <2>1, <2>2, RowStep DEF IInv, TypeOK, projection
<1>4. ASSUME NEW e \in Dedupe(CopiesOf(row[r].folder, row[r].msg)),
             row' = [row EXCEPT ![r].uid = e.uid], Goto(r, "cache"), UNCHANGED opened
      PROVE  IInv'
  <2> DEFINE got == [row[r] EXCEPT !.uid = e.uid]
  <2>1. e \in mail /\ e.folder = row[r].folder /\ e.msg = row[r].msg
    BY DEF Dedupe, CopiesOf
  <2>2. row[r] \in Located /\ e \in Copy
    BY <1>1, <2>1 DEF IInv, TypeOK, Shape
  <2>3. /\ got \in Located /\ got.folder = e.folder /\ got.uid = e.uid /\ got.msg = e.msg
    BY <2>1, <2>2 DEF Located, Copy
  <2>4. row' = [row EXCEPT ![r] = got]
    BY <1>4
  <2> HIDE DEF got
  <2>5. Issued(got.folder, got.uid, got.msg)
    BY <2>1, <2>3, CopyIssued DEF IInv
  <2>6. pc' = [pc EXCEPT ![r] = "cache"] /\ UNCHANGED <<op, want, listing, opened>>
    BY <1>4 DEF Goto
  <2>7. LocalTypes'
    BY <2>3, <2>4, <2>6 DEF IInv, TypeOK, LocalTypes
  <2>8. /\ pc'[r] = "cache" /\ row'[r] = got
        /\ \A q \in Requests \ {r} : pc'[q] = pc[q] /\ row'[q] = row[q]
    BY <2>4, <2>6 DEF IInv, TypeOK
  <2>9. Shape'
    BY <1>1, <2>3, <2>6, <2>8 DEF IInv, Shape
  <2>10. LocalsIssued'
    BY <1>1, <2>5, <2>6, <2>8 DEF IInv, LocalsIssued, Issued, Names, At, server
  <2>11. SameRow'
    <3>1. row[r] # Null /\ opened[r] = Null /\ opened' = opened
      BY <1>1, <2>2, <2>6, NullAssumption DEF IInv, Shape
    <3>2. got.id = row[r].id /\ got.folder = row[r].folder /\ got.msg = row[r].msg
      BY <2>2 DEF Located, got
    <3> QED BY <1>1, <2>8, <3>1, <3>2 DEF IInv, SameRow, Same, projection
  <2> QED BY <1>1, <1>2, <2>7, <2>9, <2>10, <2>11, RowStep DEF IInv, TypeOK, projection
<1> QED BY <1>3, <1>4 DEF Resolve

LEMMA RequireKeeps ==
  ASSUME IInv, NEW r \in Requests, Require(r)
  PROVE  IInv'
<1>1. UNCHANGED <<server, projection>> /\ By(r) /\ pc[r] = "require"
  BY DEF Require
<1>2. RowsIssued'
  BY <1>1 DEF IInv, RowsIssued, Issued, Names, At, server, projection
<1>3. CASE Finish(r)
  <2>1. LocalTypes' /\ Shape' /\ LocalsIssued' /\ Recalls
    BY <1>1, <1>3, FinishKeeps DEF IInv
  <2>2. SameRow'
    BY <1>1, <2>1, SameStays DEF IInv, projection
  <2> QED BY <1>1, <1>2, <2>1, <2>2, RowStep DEF IInv, TypeOK, projection
<1>4. CASE row[r].id \in Existing /\ ~Finish(r)
  <2> DEFINE got == Read(row[r].id)
  <2>1. /\ row' = [row EXCEPT ![r] = got] /\ opened' = [opened EXCEPT ![r] = row[r]]
        /\ pc' = [pc EXCEPT ![r] = "flag"] /\ UNCHANGED <<op, want, listing>>
    BY <1>4 DEF Require, Goto
  <2>2. got \in Located /\ Issued(got.folder, got.uid, got.msg)
    BY <1>4, ReadHolds DEF IInv
  <2> HIDE DEF got
  <2>3. row[r] \in Located
    BY <1>1 DEF IInv, TypeOK, Shape
  <2>4. LocalTypes'
    BY <2>1, <2>2, <2>3 DEF IInv, TypeOK, LocalTypes
  <2>5. /\ pc'[r] = "flag" /\ row'[r] = got /\ opened'[r] = row[r]
        /\ \A q \in Requests \ {r} : /\ pc'[q] = pc[q] /\ row'[q] = row[q]
                                    /\ opened'[q] = opened[q]
    BY <2>1 DEF IInv, TypeOK
  <2>6. Shape'
    BY <1>1, <2>1, <2>2, <2>3, <2>5 DEF IInv, Shape
  <2>7. LocalsIssued'
    BY <1>1, <2>1, <2>2, <2>5 DEF IInv, LocalsIssued, Issued, Names, At, server
  <2>8. SameRow'
    <3>1. /\ got.id = row[r].id /\ got.folder = rows[row[r].id].folder
          /\ got.msg = rows[row[r].id].msg
      BY DEF Read, got
    <3>2. got # Null /\ row[r] # Null
      BY <2>2, <2>3, NullAssumption
    <3>3. got.folder = row[r].folder /\ got.msg = row[r].msg
      BY <1>4, <3>1, <3>2 DEF Existing, IInv, SameRow, Same
    <3> QED BY <1>1, <2>5, <3>1, <3>2, <3>3 DEF IInv, SameRow, Same, projection
  <2> QED BY <1>1, <1>2, <2>4, <2>6, <2>7, <2>8, RowStep DEF IInv, TypeOK, projection
<1> QED BY <1>3, <1>4 DEF Require

LEMMA RecordReadKeeps ==
  ASSUME IInv, NEW r \in Requests, RecordRead(r)
  PROVE  IInv'
<1>1. /\ UNCHANGED <<server, announced, pushed>> /\ By(r) /\ pc[r] = "record"
      /\ rows' = [i \in Ids |-> IF i = row[r].id /\ i \in Existing
                                THEN [rows[i] EXCEPT !.read = want[r]] ELSE rows[i]]
  BY DEF RecordRead
<1>2. want[r] \in BOOLEAN
  BY <1>1 DEF IInv, Shape
<1>3. rows' \in [Ids -> Row \cup {Null}]
  BY <1>1, <1>2 DEF IInv, TypeOK, Row, Existing
<1>4. \A i \in Ids : rows'[i] # Null =>
        /\ rows[i] # Null
        /\ rows'[i].folder = rows[i].folder
        /\ rows'[i].uid = rows[i].uid
        /\ rows'[i].msg = rows[i].msg
  BY <1>1 DEF IInv, TypeOK, Row, Existing
<1>5. LocalTypes' /\ Shape' /\ LocalsIssued' /\ SameRow'
  <2>1. CASE Finish(r)
    <3>1. LocalTypes' /\ Shape' /\ LocalsIssued' /\ Recalls
      BY <1>1, <2>1, FinishKeeps DEF IInv
    <3> QED BY <1>4, <3>1, SameStays DEF IInv
  <2>2. CASE op[r] = "thread"
    <3>1. /\ row' = [row EXCEPT ![r] = opened[r]] /\ opened' = [opened EXCEPT ![r] = Null]
          /\ pc' = [pc EXCEPT ![r] = "resolve"] /\ UNCHANGED <<op, want, listing>>
      BY <2>2 DEF RecordRead, Goto
    <3>2. opened[r] \in Located
      BY <1>1, <2>2 DEF IInv, TypeOK, Shape
    <3>3. LocalTypes'
      BY <3>1, <3>2 DEF IInv, TypeOK, LocalTypes
    <3>4. /\ pc'[r] = "resolve" /\ row'[r] = opened[r] /\ opened'[r] = Null
          /\ \A q \in Requests \ {r} : /\ pc'[q] = pc[q] /\ row'[q] = row[q]
                                      /\ opened'[q] = opened[q]
      BY <3>1 DEF IInv, TypeOK
    <3>5. Shape'
      BY <1>1, <1>2, <2>2, <3>1, <3>2, <3>4 DEF IInv, Shape
    <3>6. LocalsIssued'
      BY <1>1, <3>1, <3>2, <3>4 DEF IInv, LocalsIssued, Issued, Names, At, server
    <3>7. SameRow'
      <4>1. /\ opened[r] # Null /\ row[r] # Null /\ opened[r].id = row[r].id
            /\ opened[r].folder = row[r].folder /\ opened[r].msg = row[r].msg
        BY <3>2, NullAssumption DEF IInv, SameRow
      <4>2. \A q \in Requests : row[q] # Null => row[q].id \in Ids
        BY DEF IInv, TypeOK, Located
      <4>3. ASSUME NEW q \in Requests, row[q] # Null, rows'[row[q].id] # Null
            PROVE  /\ rows'[row[q].id].folder = row[q].folder
                   /\ rows'[row[q].id].msg = row[q].msg
        BY <1>4, <4>2, <4>3 DEF IInv, SameRow, Same
      <4> QED BY <3>4, <4>1, <4>3 DEF IInv, SameRow, Same
    <3> QED BY <3>3, <3>5, <3>6, <3>7
  <2> QED BY <2>1, <2>2 DEF RecordRead
<1> QED BY <1>1, <1>3, <1>4, <1>5, FewerRows

LEMMA ForgetKeeps ==
  ASSUME IInv, NEW r \in Requests, Forget(r)
  PROVE  IInv'
<1>1. \A i \in Ids : rows'[i] \in {rows[i], Null}
  BY DEF Forget, IInv, TypeOK
<1>2. rows' \in [Ids -> Row \cup {Null}]
  BY DEF Forget, IInv, TypeOK
<1>3. Finish(r) /\ By(r) /\ UNCHANGED <<server, announced, pushed>>
  BY DEF Forget
<1>4. LocalTypes' /\ Shape' /\ LocalsIssued' /\ Recalls
  BY <1>3, FinishKeeps DEF IInv
<1>5. SameRow'
  BY <1>1, <1>4, SameStays DEF IInv
<1> QED BY <1>1, <1>2, <1>3, <1>4, <1>5, FewerRows

LEMMA FailKeeps ==
  ASSUME IInv, NEW r \in Requests, Fail(r)
  PROVE  IInv'
<1>1. Finish(r) /\ By(r) /\ UNCHANGED <<server, projection>>
  BY DEF Fail
<1>2. LocalTypes' /\ Shape' /\ LocalsIssued' /\ Recalls
  BY <1>1, FinishKeeps DEF IInv
<1>3. UNCHANGED <<rows, announced, pushed>>
  BY <1>1 DEF projection
<1>4. SameRow'
  BY <1>2, <1>3, SameStays DEF IInv
<1> QED BY <1>1, <1>2, <1>3, <1>4, FewerRows DEF IInv, TypeOK

LEMMA SetImapUidKeeps ==
  ASSUME IInv, NEW r \in Requests, SetImapUid(r)
  PROVE  IInv'
<1>1. /\ UNCHANGED <<server, announced, pushed>> /\ By(r) /\ Proceed(r) /\ pc[r] = "cache"
      /\ rows' = [i \in Ids |-> IF i = row[r].id /\ i \in Existing
                                THEN [rows[i] EXCEPT !.uid = row[r].uid] ELSE rows[i]]
  BY DEF SetImapUid
<1>2. /\ row[r] \in Located /\ row[r] # Null
      /\ Issued(row[r].folder, row[r].uid, row[r].msg) /\ Same(row[r])
  BY <1>1, NullAssumption DEF IInv, TypeOK, Shape, LocalsIssued, SameRow
<1>3. rows' \in [Ids -> Row \cup {Null}]
  BY <1>1, <1>2 DEF IInv, TypeOK, Row, Located, Existing
<1>4. \A i \in Ids : rows'[i] # Null =>
        /\ rows[i] # Null
        /\ rows'[i].folder = rows[i].folder
        /\ rows'[i].msg = rows[i].msg
        /\ rows'[i].uid = IF i = row[r].id THEN row[r].uid ELSE rows[i].uid
  BY <1>1 DEF IInv, TypeOK, Row, Existing
<1>5. ASSUME NEW i \in Ids, rows'[i] # Null
      PROVE  Issued(rows'[i].folder, rows'[i].uid, rows'[i].msg)
  <2>1. Issued(rows[i].folder, rows[i].uid, rows[i].msg)
    BY <1>4, <1>5 DEF IInv, RowsIssued
  <2>2. i = row[r].id => rows[i].folder = row[r].folder /\ rows[i].msg = row[r].msg
    BY <1>2, <1>4, <1>5 DEF Same
  <2> QED BY <1>2, <1>4, <1>5, <2>1, <2>2
<1>6. RowsIssued'
  BY <1>1, <1>5 DEF RowsIssued, Issued, Names, At, server
<1>7. LocalTypes' /\ Shape' /\ LocalsIssued' /\ Recalls
  BY <1>1, ProceedKeeps DEF IInv
<1>8. SameRow'
  BY <1>4, <1>7, SameStays DEF IInv
<1> QED BY <1>1, <1>3, <1>6, <1>7, <1>8, RowStep DEF IInv, TypeOK

-----------------------------------------------------------------------------
LEMMA InitInv == Init => IInv
<1> SUFFICES ASSUME Init PROVE IInv
  OBVIOUS
<1>1. TypeOK
  BY ProjectionAssumption DEF Init, TypeOK, Ops
<1>2. Shape /\ UidsOnce
  BY DEF Init, Shape, UidsOnce
<1>3. RowsIssued /\ LocalsIssued /\ SameRow
  BY DEF Init, RowsIssued, LocalsIssued, SameRow
<1> QED BY <1>1, <1>2, <1>3 DEF IInv

LEMMA StepInv == IInv /\ [Next]_vars => IInv'
<1> SUFFICES ASSUME IInv, [Next]_vars PROVE IInv'
  OBVIOUS
<1>1. CASE UNCHANGED vars
  <2>1. UNCHANGED <<mail, uidNext, trash, rows, announced, pushed, pc, op, row, opened, want,
                    listing, alone>>
    BY <1>1 DEF vars, server, projection
  <2>2. TypeOK' /\ Shape' /\ UidsOnce'
    BY <2>1 DEF IInv, TypeOK, Shape, UidsOnce
  <2>3. RowsIssued' /\ LocalsIssued' /\ SameRow'
    BY <2>1 DEF IInv, RowsIssued, LocalsIssued, SameRow, Same, Issued, Names, At
  <2> QED BY <2>2, <2>3 DEF IInv
<1>2. ASSUME NEW m \in Messages, Store(m) \/ MailReceived(m) PROVE IInv'
  BY <1>2, StoreKeeps, MailReceivedKeeps
<1>3. ASSUME NEW e \in mail, NEW f \in Folders, OtherClientMoves(e, f) PROVE IInv'
  BY <1>3, OtherClientMovesKeeps
<1>4. ASSUME NEW r \in Requests, NEW f \in Folders, ListMessages(r, f) PROVE IInv'
  BY <1>4, ListMessagesKeeps
<1>5. ASSUME NEW r \in Requests, NEW what \in Asked, NEW i \in Ids,
             NEW value \in BOOLEAN \cup Folders, Begin(r, what, i, value)
      PROVE  IInv'
  BY <1>5, BeginKeeps
<1>6. ASSUME NEW r \in Requests, Upsert(r) \/ Prune(r) PROVE IInv'
  BY <1>6, UpsertKeeps, PruneKeeps
<1>7. ASSUME NEW r \in Requests, Resolve(r) \/ SetImapUid(r) PROVE IInv'
  BY <1>7, ResolveKeeps, SetImapUidKeeps
<1>8. ASSUME NEW r \in Requests, Require(r) \/ SetSeen(r) \/ RecordRead(r) PROVE IInv'
  BY <1>8, RequireKeeps, SetSeenKeeps, RecordReadKeeps
<1>9. ASSUME NEW r \in Requests, Move(r) \/ Remove(r) \/ Forget(r) \/ Fail(r) PROVE IInv'
  BY <1>9, MoveKeeps, RemoveKeeps, ForgetKeeps, FailKeeps
<1> QED BY <1>1, <1>2, <1>3, <1>4, <1>5, <1>6, <1>7, <1>8, <1>9 DEF Next

LEMMA Invariance == Spec => []IInv
BY InitInv, StepInv, PTL DEF Spec

\* The server's mail, the rows and every request's locals keep their types, whatever
\* the requests, the notifications and the other clients do.
THEOREM TypeCorrect == Spec => []TypeOK
<1>1. IInv => TypeOK
  BY DEF IInv
<1> QED BY <1>1, Invariance, PTL

\* The folder and UID by which message.service.ts moves, flags and destroys never name
\* another message than the row they were read from, nor one it was resolved for.
THEOREM UidsNameTheirMessages == Spec => []UidNamesItsMessage
<1>1. IInv => UidNamesItsMessage
  <2> SUFFICES ASSUME IInv PROVE UidNamesItsMessage
    OBVIOUS
  <2>1. \A f, m : Names(f, Null, m)
    BY NullAssumption DEF IInv, TypeOK, Copy, Names, At
  <2>2. \A f, u, m : Issued(f, u, m) => Names(f, u, m)
    BY <2>1 DEF Issued
  <2>3. \A i \in Existing : Names(rows[i].folder, rows[i].uid, rows[i].msg)
    BY <2>2 DEF IInv, RowsIssued, Existing
  <2>4. \A r \in Requests : row[r] # Null => Names(row[r].folder, row[r].uid, row[r].msg)
    BY <2>2 DEF IInv, LocalsIssued
  <2> QED BY <2>3, <2>4 DEF UidNamesItsMessage
<1> QED BY <1>1, Invariance, PTL

-----------------------------------------------------------------------------
(* How many copies there are *)

\* A copy that is replaced by one that was not there leaves as many.
LEMMA ReplacedOnce ==
  ASSUME NEW S, IsFiniteSet(S), NEW e \in S, NEW d, d \notin S \ {e}
  PROVE  /\ IsFiniteSet((S \ {e}) \cup {d})
         /\ Cardinality((S \ {e}) \cup {d}) = Cardinality(S)
<1>1. IsFiniteSet(S \ {e}) /\ Cardinality(S \ {e}) = Cardinality(S) - 1
  BY FS_RemoveElement
<1>2. /\ IsFiniteSet((S \ {e}) \cup {d})
      /\ Cardinality((S \ {e}) \cup {d}) = Cardinality(S \ {e}) + 1
  BY <1>1, FS_AddElement
<1>3. Cardinality(S) \in Nat
  BY FS_CardinalityType
<1> QED BY <1>1, <1>2, <1>3

\* A folder and UID hold one copy at most, and that is what a move takes along.
LEMMA MoveCounts ==
  ASSUME IInv, IsFiniteSet(mail), NEW f \in Folders, NEW u \in Uid, NEW target \in Folders,
         MoveTo(f, u, target)
  PROVE  IsFiniteSet(mail') /\ Cardinality(mail') = Cardinality(mail)
<1>1. CASE At(f, u) = {}
  <2>1. mail' = mail
    BY <1>1 DEF MoveTo
  <2> QED BY <2>1
<1>2. CASE At(f, u) # {}
  <2>1. PICK e \in At(f, u) : TRUE
    BY <1>2
  <2> DEFINE new == [e EXCEPT !.folder = target, !.uid = uidNext[target]]
  <2>2. e \in mail /\ At(f, u) = {e}
    BY <2>1 DEF IInv, UidsOnce, At
  <2>3. mail' = (mail \ {e}) \cup {new}
    BY <2>2 DEF MoveTo
  <2>4. new.folder = target /\ new.uid = uidNext[target]
    BY <2>2 DEF IInv, TypeOK, Copy
  <2> HIDE DEF new
  <2>5. new \notin mail
    BY <2>4 DEF IInv, TypeOK, UidsOnce, Copy
  <2> QED BY <2>2, <2>3, <2>5, ReplacedOnce
<1> QED BY <1>1, <1>2

LEMMA StoreCounts ==
  ASSUME IInv, IsFiniteSet(mail), NEW m \in Messages, Store(m)
  PROVE  IsFiniteSet(mail') /\ ~(Cardinality(mail') < Cardinality(mail))
<1>1. PICK new : mail' = mail \cup {new}
  BY DEF Store
<1>2. /\ IsFiniteSet(mail \cup {new})
      /\ Cardinality(mail \cup {new}) \in {Cardinality(mail), Cardinality(mail) + 1}
  BY FS_AddElement
<1>3. Cardinality(mail) \in Nat
  BY FS_CardinalityType
<1> QED BY <1>1, <1>2, <1>3

LEMMA SetSeenCounts ==
  ASSUME IInv, IsFiniteSet(mail), NEW r \in Requests, SetSeen(r)
  PROVE  IsFiniteSet(mail') /\ Cardinality(mail') = Cardinality(mail)
<1> DEFINE here == At(row[r].folder, row[r].uid)
           flagged(e) == IF e \in here THEN [e EXCEPT !.seen = want[r]] ELSE e
<1>1. mail' = {flagged(e) : e \in mail}
  BY DEF SetSeen
<1>2. CASE here = {}
  <2>1. mail' = mail
    BY <1>1, <1>2
  <2> QED BY <2>1
<1>3. CASE here # {}
  <2>1. PICK e \in here : TRUE
    BY <1>3
  <2>2. e \in mail /\ here = {e}
    BY <2>1 DEF IInv, UidsOnce, At
  <2>3. mail' = (mail \ {e}) \cup {flagged(e)}
    BY <1>1, <2>2
  <2>4. flagged(e).folder = e.folder /\ flagged(e).uid = e.uid
    BY <2>2 DEF IInv, TypeOK, Copy
  <2> HIDE DEF flagged
  <2>5. flagged(e) \notin mail \ {e}
    BY <2>2, <2>4 DEF IInv, UidsOnce
  <2> QED BY <2>2, <2>3, <2>5, ReplacedOnce
<1> QED BY <1>2, <1>3

\* What destroys a copy, and which.
Destroys(r) == MayDestroy(r) /\ \A e \in mail \ mail' : e.msg = row[r].msg

LEMMA RemoveCounts ==
  ASSUME IInv, IsFiniteSet(mail), NEW r \in Requests, Remove(r)
  PROVE  /\ IsFiniteSet(mail')
         /\ Cardinality(mail') < Cardinality(mail) => Destroys(r)
<1>1. CASE row[r].uid = Null
  <2>1. mail' = mail
    BY <1>1 DEF Remove, server
  <2> QED BY <2>1, FS_CardinalityType
<1>2. CASE row[r].uid # Null /\ op[r] = "remove" /\ trash # Null /\ row[r].folder # trash
  <2>1. row[r].folder \in Folders /\ row[r].uid \in Uid /\ trash \in Folders
    BY <1>2, ProjectionAssumption DEF IInv, TypeOK, Shape, Located, Remove
  <2>2. MoveTo(row[r].folder, row[r].uid, trash)
    BY <1>2 DEF Remove
  <2>3. IsFiniteSet(mail') /\ Cardinality(mail') = Cardinality(mail)
    BY <2>1, <2>2, MoveCounts
  <2> QED BY <2>3, FS_CardinalityType
<1>3. CASE row[r].uid # Null /\ ~(op[r] = "remove" /\ trash # Null /\ row[r].folder # trash)
  <2>1. mail' = mail \ At(row[r].folder, row[r].uid)
    BY <1>3 DEF Remove, Destroy
  <2>2. MayDestroy(r)
    BY <1>3 DEF IInv, Shape, Remove, MayDestroy
  <2>3. \A e \in At(row[r].folder, row[r].uid) : e.msg = row[r].msg
    <3>1. row[r] \in Located
      BY DEF IInv, Shape, Remove
    <3>2. row[r] # Null
      BY <3>1, NullAssumption
    <3>3. Issued(row[r].folder, row[r].uid, row[r].msg)
      BY <3>2 DEF IInv, LocalsIssued
    <3> QED BY <1>3, <3>3 DEF Issued, Names
  <2>4. IsFiniteSet(mail')
    BY <2>1, FS_Subset
  <2>5. \A e \in mail \ mail' : e.msg = row[r].msg
    BY <2>1, <2>3
  <2> QED BY <2>2, <2>4, <2>5 DEF Destroys
<1> QED BY <1>1, <1>2, <1>3

LEMMA StepCounts ==
  ASSUME IInv, IsFiniteSet(mail), [Next]_vars
  PROVE  /\ IsFiniteSet(mail')
         /\ Cardinality(mail') < Cardinality(mail) => \E r \in Requests : Destroys(r)
<1>1. ASSUME mail' = mail
      PROVE  IsFiniteSet(mail') /\ ~(Cardinality(mail') < Cardinality(mail))
  BY <1>1, FS_CardinalityType
<1>2. CASE UNCHANGED vars
  BY <1>1, <1>2 DEF vars, server
<1>3. ASSUME NEW m \in Messages, Store(m) \/ MailReceived(m)
      PROVE  IsFiniteSet(mail') /\ ~(Cardinality(mail') < Cardinality(mail))
  BY <1>1, <1>3, StoreCounts DEF MailReceived, server
<1>4. ASSUME NEW e \in mail, NEW f \in Folders, OtherClientMoves(e, f)
      PROVE  IsFiniteSet(mail') /\ ~(Cardinality(mail') < Cardinality(mail))
  <2>1. e.folder \in Folders /\ e.uid \in Uid /\ MoveTo(e.folder, e.uid, f)
    BY <1>4 DEF IInv, TypeOK, Copy, OtherClientMoves
  <2> QED BY <2>1, MoveCounts, FS_CardinalityType
<1>5. ASSUME NEW r \in Requests, Move(r)
      PROVE  IsFiniteSet(mail') /\ ~(Cardinality(mail') < Cardinality(mail))
  <2>1. CASE row[r].uid = Null
    BY <1>1, <1>5, <2>1 DEF Move, server
  <2>2. CASE row[r].uid # Null
    <3>1. /\ row[r].folder \in Folders /\ row[r].uid \in Uid /\ want[r] \in Folders
          /\ MoveTo(row[r].folder, row[r].uid, want[r])
      BY <1>5, <2>2 DEF IInv, Shape, Located, Move
    <3> QED BY <3>1, MoveCounts, FS_CardinalityType
  <2> QED BY <2>1, <2>2
<1>6. ASSUME NEW r \in Requests, SetSeen(r)
      PROVE  IsFiniteSet(mail') /\ ~(Cardinality(mail') < Cardinality(mail))
  BY <1>6, SetSeenCounts, FS_CardinalityType
<1>7. ASSUME NEW r \in Requests, NEW f \in Folders, ListMessages(r, f)
      PROVE  mail' = mail
  BY <1>7 DEF ListMessages, server
<1>8. ASSUME NEW r \in Requests, NEW what \in Asked, NEW i \in Ids,
             NEW value \in BOOLEAN \cup Folders, Begin(r, what, i, value)
      PROVE  mail' = mail
  BY <1>8 DEF Begin, server
<1>9. ASSUME NEW r \in Requests,
             \/ Upsert(r) \/ Prune(r) \/ Resolve(r) \/ SetImapUid(r) \/ Require(r)
             \/ RecordRead(r) \/ Forget(r) \/ Fail(r)
      PROVE  mail' = mail
  BY <1>9 DEF Upsert, Prune, Resolve, SetImapUid, Require, RecordRead, Forget, Fail, server
<1> QED BY <1>1, <1>2, <1>3, <1>4, <1>5, <1>6, <1>7, <1>8, <1>9, RemoveCounts DEF Next

\* message.service.ts destroys a copy for good only as the draft it discards, or by a row
\* that is in Trash, and then a copy of that row's message, wherever the mailbox has no
\* Trash too: no overlap of removals, moves and listings destroys what another put there.
THEOREM OnlyTrashIsDestroyed == Spec => DestroyedOnlyFromTrash
<1> DEFINE Counted == IInv /\ IsFiniteSet(mail)
<1>1. Init => Counted
  BY InitInv, FS_EmptySet DEF Init
<1>2. Counted /\ [Next]_vars => Counted'
  BY StepInv, StepCounts
<1>3. Counted /\ [Next]_vars =>
        [Cardinality(mail') < Cardinality(mail) =>
           \E r \in Requests : MayDestroy(r) /\ \A e \in mail \ mail' : e.msg = row[r].msg]_vars
  BY StepCounts DEF Destroys
<1> QED BY <1>1, <1>2, <1>3, PTL DEF Spec, DestroyedOnlyFromTrash

-----------------------------------------------------------------------------
(* Listing undisturbed *)

\* The rows of the folder a request listed, where they are listed at all, are as listed.
Synced(r) ==
  /\ \A e \in listing[r] : \E i \in RowsOf(want[r]) : rows[i].msg = e.msg
  /\ \A i \in RowsOf(want[r]) : \A e \in listing[r] :
       e.msg = rows[i].msg => rows[i].uid = e.uid /\ rows[i].read = e.seen

\* While nothing else happens, a listing is what the folder holds.
Quiet ==
  \A r \in Requests : alone[r] /\ pc[r] \in {"upsert", "prune"} =>
    /\ listing[r] = Dedupe({d \in mail : d.folder = want[r]})
    /\ pc[r] = "prune" => Synced(r)

\* A listing names a Message-ID once.
LEMMA ListedOnce ==
  ASSUME IInv, NEW f, NEW L, L = Dedupe({c \in mail : c.folder = f}),
         NEW e \in L, NEW d \in L, e.msg = d.msg
  PROVE  e = d
<1>1. e \in mail /\ d \in mail /\ e.folder = f /\ d.folder = f /\ e.uid <= d.uid /\ d.uid <= e.uid
  BY DEF Dedupe
<1>2. e.uid \in Nat /\ d.uid \in Nat
  BY <1>1 DEF IInv, TypeOK, Copy
<1>3. e.uid = d.uid
  BY <1>1, <1>2
<1> QED BY <1>1, <1>3 DEF IInv, UidsOnce

\* What Upsert leaves behind.
LEMMA UpsertSyncs ==
  ASSUME IInv, NEW r \in Requests, Upsert(r),
         \A e, d \in listing[r] : e.msg = d.msg => e = d
  PROVE  Synced(r)'
<1> DEFINE f == want[r]
           missing == {e \in listing[r] : \A i \in RowsOf(f) : rows[i].msg # e.msg}
           For(id, i) == {e \in listing[r] : IF e \in missing THEN id[e] = i
                                             ELSE i \in RowsOf(f) /\ rows[i].msg = e.msg}
           listed(e) == [folder |-> f, uid |-> e.uid, msg |-> e.msg, read |-> e.seen]
<1>1. PICK id \in Injection(missing, Unused) :
        rows' = [i \in Ids |-> IF For(id, i) = {} THEN rows[i]
                               ELSE LET e == CHOOSE e \in For(id, i) : TRUE
                                    IN  [folder |-> f, uid |-> e.uid, msg |-> e.msg,
                                         read |-> e.seen]]
  BY DEF Upsert
<1>2. want' = want /\ listing' = listing
  BY DEF Upsert, Goto
<1>3. /\ \A e \in missing : id[e] \in Unused
      /\ \A e, d \in missing : id[e] = id[d] => e = d
  BY <1>1 DEF Injection, IsInjective
<1>4. ASSUME NEW i \in Ids, NEW e \in For(id, i)
      PROVE  rows'[i] = listed(e)
  <2>1. ASSUME NEW d \in For(id, i) PROVE d = e
    <3>1. CASE e \in missing /\ d \in missing
      BY <1>3, <2>1, <3>1
    <3>2. CASE e \notin missing /\ d \notin missing
      BY <2>1, <3>2
    <3>3. CASE (e \in missing) # (d \in missing)
      <4>1. i \in Unused /\ i \in RowsOf(f)
        BY <1>3, <2>1, <3>3
      <4> QED BY <4>1 DEF Unused, RowsOf
    <3> QED BY <3>1, <3>2, <3>3
  <2>2. (CHOOSE d \in For(id, i) : TRUE) = e
    BY <2>1
  <2> QED BY <1>1, <2>2
<1>5. \A i \in Ids : For(id, i) = {} => rows'[i] = rows[i]
  BY <1>1
<1>6. \A e : /\ listed(e).folder = f /\ listed(e).uid = e.uid
             /\ listed(e).msg = e.msg /\ listed(e).read = e.seen
  OBVIOUS
<1>7. \A e \in listing[r] : listed(e) # Null
  <2>1. ASSUME NEW e \in listing[r] PROVE listed(e) \in Row
    BY <2>1 DEF IInv, TypeOK, Shape, Upsert, Copy, Row
  <2> QED BY <2>1, NullAssumption DEF Row
<1> HIDE DEF listed
<1>8. ASSUME NEW e \in listing[r]
      PROVE  \E i \in Ids : e \in For(id, i)
  <2>1. CASE e \in missing
    BY <1>3, <2>1 DEF Unused
  <2>2. CASE e \notin missing
    BY <2>2 DEF RowsOf, Existing
  <2> QED BY <2>1, <2>2
<1>9. ASSUME NEW e \in listing[r]
      PROVE  \E i \in Ids : /\ rows'[i] # Null /\ rows'[i].folder = f
                            /\ rows'[i].msg = e.msg
  BY <1>4, <1>6, <1>7, <1>8
<1>10. ASSUME NEW i \in Ids, rows'[i] # Null, rows'[i].folder = f,
              NEW e \in listing[r], e.msg = rows'[i].msg
       PROVE  rows'[i].uid = e.uid /\ rows'[i].read = e.seen
  <2>1. CASE For(id, i) = {}
    <3>1. rows'[i] = rows[i]
      BY <1>5, <2>1
    <3>2. i \in RowsOf(f) /\ rows[i].msg = e.msg
      BY <1>10, <3>1 DEF RowsOf, Existing
    <3> QED BY <2>1, <3>2
  <2>2. CASE For(id, i) # {}
    <3>1. PICK d \in For(id, i) : TRUE
      BY <2>2
    <3>2. rows'[i] = listed(d) /\ d \in listing[r]
      BY <1>4, <3>1
    <3>3. d = e
      BY <1>6, <1>10, <3>2
    <3> QED BY <1>6, <3>2, <3>3
  <2> QED BY <2>1, <2>2
<1> QED BY <1>2, <1>9, <1>10 DEF Synced, RowsOf, Existing

\* Every other step of somebody ends the quiet of all listings.
LEMMA Disturbed ==
  ASSUME NEW who, By(who), who \in Requests => pc[who] # "upsert"
  PROVE  \A q \in Requests : ~alone'[q]
BY DEF By

LEMMA QuietStays ==
  ASSUME IInv, Quiet, [Next]_vars
  PROVE  Quiet'
<1>1. ASSUME \A q \in Requests : ~alone'[q] PROVE Quiet'
  BY <1>1 DEF Quiet
<1>2. CASE UNCHANGED vars
  BY <1>2 DEF Quiet, Synced, RowsOf, Existing, Dedupe, vars, server, projection
<1>3. ASSUME NEW m \in Messages, Store(m) \/ MailReceived(m) PROVE Quiet'
  BY <1>1, <1>3, NullAssumption, Disturbed DEF Store, MailReceived
<1>4. ASSUME NEW e \in mail, NEW f \in Folders, OtherClientMoves(e, f) PROVE Quiet'
  BY <1>1, <1>4, NullAssumption, Disturbed DEF OtherClientMoves
<1>5. ASSUME NEW r \in Requests, NEW what \in Asked, NEW i \in Ids,
             NEW value \in BOOLEAN \cup Folders, Begin(r, what, i, value)
      PROVE  Quiet'
  <2>1. By(r) /\ pc[r] # "upsert"
    BY <1>5 DEF Begin
  <2> QED BY <1>1, <2>1, Disturbed
<1>6. ASSUME NEW r \in Requests, Prune(r) \/ Resolve(r) \/ SetImapUid(r) \/ Require(r) PROVE Quiet'
  <2>1. By(r) /\ pc[r] # "upsert"
    BY <1>6 DEF Prune, Resolve, SetImapUid, Require
  <2> QED BY <1>1, <2>1, Disturbed
<1>7. ASSUME NEW r \in Requests, SetSeen(r) \/ RecordRead(r) \/ Move(r) \/ Remove(r) \/ Forget(r)
      PROVE  Quiet'
  <2>1. By(r) /\ pc[r] # "upsert"
    BY <1>7 DEF SetSeen, RecordRead, Move, Remove, Forget
  <2> QED BY <1>1, <2>1, Disturbed
<1>8. ASSUME NEW r \in Requests, Fail(r) PROVE Quiet'
  <2>1. pc'[r] = "idle" /\ \A q \in Requests \ {r} : ~alone'[q]
    BY <1>8 DEF Fail, Finish, By, IInv, TypeOK
  <2> QED BY <2>1 DEF Quiet
<1>9. ASSUME NEW r \in Requests, NEW f \in Folders, ListMessages(r, f) PROVE Quiet'
  <2>1. /\ pc'[r] = "upsert" /\ want'[r] = f
        /\ listing'[r] = Dedupe({e \in mail : e.folder = f})
        /\ \A q \in Requests \ {r} : /\ pc'[q] = pc[q] /\ want'[q] = want[q]
                                     /\ listing'[q] = listing[q] /\ alone'[q] = alone[q]
    BY <1>9 DEF ListMessages, IInv, TypeOK
  <2>2. mail' = mail /\ rows' = rows
    BY <1>9 DEF ListMessages, server, projection
  <2>3. Dedupe({e \in mail : e.folder = f})' = Dedupe({e \in mail : e.folder = f})
    BY <2>2 DEF Dedupe
  <2> QED BY <2>1, <2>2, <2>3 DEF Quiet, Synced, RowsOf, Existing, Dedupe
<1>10. ASSUME NEW r \in Requests, Upsert(r) PROVE Quiet'
  <2>1. /\ pc[r] = "upsert" /\ pc'[r] = "prune" /\ By(r)
        /\ UNCHANGED <<mail, want, listing>>
    BY <1>10 DEF Upsert, Goto, server, IInv, TypeOK
  <2>2. \A q \in Requests \ {r} : ~alone'[q]
    BY <2>1 DEF By
  <2>3. alone'[r] => alone[r]
    BY <2>1 DEF By
  <2>4. ASSUME alone[r]
        PROVE  listing[r] = Dedupe({d \in mail : d.folder = want[r]}) /\ Synced(r)'
    <3>1. listing[r] = Dedupe({d \in mail : d.folder = want[r]})
      BY <2>1, <2>4 DEF Quiet
    <3>2. ASSUME NEW e \in listing[r], NEW d \in listing[r], e.msg = d.msg PROVE e = d
      BY <3>1, <3>2, ListedOnce
    <3> QED BY <1>10, <3>1, <3>2, UpsertSyncs
  <2>5. alone'[r] => listing'[r] = Dedupe({d \in mail : d.folder = want[r]})' /\ Synced(r)'
    BY <2>1, <2>3, <2>4 DEF Dedupe
  <2> QED BY <2>1, <2>2, <2>5 DEF Quiet
<1> QED BY <1>2, <1>3, <1>4, <1>5, <1>6, <1>7, <1>8, <1>9, <1>10 DEF Next

\* syncFolder makes a folder's rows the folder again, whatever state they were in, when
\* nothing else happens between its listing and its last statement.
THEOREM QuietListingRepairs == Spec => ListingRepairs
<1> DEFINE Held == IInv /\ Quiet
<1>1. Init => Held
  <2>1. Init => Quiet
    BY DEF Init, Quiet
  <2> QED BY <2>1, InitInv
<1>2. Held /\ [Next]_vars => Held'
  BY StepInv, QuietStays
<1>3. Held /\ [Next]_vars =>
        [\A r \in Requests : Prune(r) /\ alone[r] => AsListed(want[r])]_vars
  <2> SUFFICES ASSUME Held, NEW r \in Requests, Prune(r), alone[r]
               PROVE  AsListed(want[r])
    OBVIOUS
  <2> DEFINE S == {[uid |-> rows'[i].uid, msg |-> rows'[i].msg, read |-> rows'[i].read] :
                     i \in {j \in Ids : rows'[j] # Null /\ rows'[j].folder = want[r]}}
             L == {[uid |-> e.uid, msg |-> e.msg, read |-> e.seen] : e \in listing[r]}
  <2>1. listing[r] = Dedupe({d \in mail : d.folder = want[r]}) /\ Synced(r)
    BY DEF Quiet, Prune
  <2>2. \A i \in Ids : rows'[i] = IF i \in RowsOf(want[r]) /\ \A e \in listing[r] : e.msg # rows[i].msg
                                  THEN Null ELSE rows[i]
    BY DEF Prune
  <2>3. ASSUME NEW i \in Ids, rows'[i] # Null, rows'[i].folder = want[r]
        PROVE  [uid |-> rows'[i].uid, msg |-> rows'[i].msg, read |-> rows'[i].read] \in L
    <3>1. i \in RowsOf(want[r]) /\ rows'[i] = rows[i]
      BY <2>2, <2>3 DEF RowsOf, Existing
    <3>2. PICK e \in listing[r] : e.msg = rows[i].msg
      BY <2>2, <2>3, <3>1
    <3>3. rows'[i].uid = e.uid /\ rows'[i].msg = e.msg /\ rows'[i].read = e.seen
      BY <2>1, <3>1, <3>2 DEF Synced
    <3> QED BY <3>3
  <2>4. ASSUME NEW e \in listing[r]
        PROVE  [uid |-> e.uid, msg |-> e.msg, read |-> e.seen] \in S
    <3>1. PICK i \in RowsOf(want[r]) : rows[i].msg = e.msg
      BY <2>1 DEF Synced
    <3>2. rows[i].uid = e.uid /\ rows[i].read = e.seen
      BY <2>1, <3>1 DEF Synced
    <3>3. i \in Ids /\ rows[i] # Null /\ rows[i].folder = want[r]
      BY <3>1 DEF RowsOf, Existing
    <3>4. rows'[i] = rows[i]
      BY <2>2, <3>1, <3>3
    <3> QED BY <3>1, <3>2, <3>3, <3>4
  <2>5. S = L
    BY <2>3, <2>4
  <2> QED BY <2>1, <2>5 DEF AsListed
<1> QED BY <1>1, <1>2, <1>3, PTL DEF Spec, ListingRepairs
=============================================================================
