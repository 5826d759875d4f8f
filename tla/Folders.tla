------------------------------ MODULE Folders ------------------------------
(***************************************************************************)
(* The folders of one mailbox: src/folders changes them over IMAP and then *)
(* follows with the rows of received_message, while mail is delivered and  *)
(* notified, a folder is listed and rules are pointed at folders.          *)
(*                                                                         *)
(* A folder is its path, a sequence of names; the delimiter is the         *)
(* server's.  What the server does on CREATE, RENAME, DELETE and LIST is   *)
(* external: a rename takes the folders below along, a deletion leaves     *)
(* them, and LIST also names parents that are no folders themselves.       *)
(***************************************************************************)
EXTENDS Integers, FiniteSets, SequencesExt

CONSTANTS
  Names,      \* names of folders; none has a separator or an IMAP wildcard
  Paths,      \* bound: the paths there may be
  Targets,    \* bound: the paths a rule is pointed at
  Inbox,      \* the folder the mail server owns
  Twin,       \* pairs of names that differ in case only
  Like,       \* pairs of names: LIKE takes the first, as a pattern, to match the second
  Messages,
  Requests,   \* concurrent HTTP requests
  Null

ASSUME FoldersAssumption ==
  /\ Paths \subseteq Seq(Names) \ {<<>>}
  /\ Targets \subseteq Paths
  /\ Inbox \in Paths /\ Len(Inbox) = 1
  /\ \A n \in Names : <<n, n>> \in Like \cap Twin
  /\ \A pair \in Twin : <<pair[2], pair[1]>> \in Twin
  /\ Null \notin Paths

VARIABLES
  folders,    \* the paths that are folders on the mail server
  mail,       \* mail[m]: the folder message m is in, or Null
  rows,       \* received_message: <<folder, message>>
  target,     \* target_folder of the mailbox's move_to rule, or Null
  notices,    \* announcements of delivered mail that are under way
  req,        \* where each request is, and what it works on
  \* history variable
  suspect     \* paths whose rows a change that overlapped something may have left wrong

vars == <<folders, mail, rows, target, notices, req, suspect>>

Idle == [at |-> "idle", path |-> Null, to |-> Null, listing |-> {}]

Parent(p) == Front(p)
AtOrBelow(path) == {p \in Paths : IsPrefix(path, p)}
Moved(p, path, to) == to \o SubSeq(p, Len(path) + 1, Len(p))

\* LIST: a folder, or the parent of one.
Listed == {p \in Paths : \E f \in folders : IsPrefix(p, f)}

\* Mutant: only what the server flags; it does not flag INBOX.
isFlagged(p) == FALSE

\* INBOX, whatever its case; its children are the user's.
isSystem(p) == Len(p) = 1 /\ <<Inbox[1], p[1]>> \in Twin

\* require and requireNotSystem: what a rename or a deletion asks of its folder
require(p) == p \in Listed /\ ~isSystem(p)

Init ==
  /\ folders = {Inbox}
  /\ mail = [m \in Messages |-> Null]
  /\ rows = {}
  /\ target = Null
  /\ notices = {}
  /\ req = [r \in Requests |-> Idle]
  /\ suspect = {}

\* A change of folders is under way beside something else.
Overlap(requests, announcements) ==
  \E r \in Requests :
    /\ requests[r].at \in {"renameFolder", "renameSubtree", "deleteFolder", "deleteSubtree"}
    /\ announcements # {} \/ \E q \in Requests \ {r} : requests[q].at # "idle"

Quiet(requests, announcements) ==
  announcements = {} /\ \A q \in Requests : requests[q].at = "idle"

\* Then any path may be left wrong; otherwise those of S are, until nothing is
\* under way and they have no rows.
Watch(seen, S) ==
  suspect' = IF seen \/ Overlap(req', notices') THEN Paths
             ELSE IF Quiet(req', notices') THEN S \cap {row[1] : row \in rows'} ELSE S
Observe == Watch(FALSE, suspect)

Goto(r, step) == req' = [req EXCEPT ![r].at = step]
Finish(r) == req' = [req EXCEPT ![r] = Idle]

\* A check refuses the request or the server or Postgres fails it: what was done
\* stays done.
Fail(r) ==
  /\ req[r].at # "idle"
  /\ Finish(r)
  /\ UNCHANGED <<folders, mail, rows, target, notices>>
  /\ Watch(req[r].at \in {"renameSubtree", "deleteSubtree"}, suspect)

-----------------------------------------------------------------------------
(* Creating a folder *)

create(r, path) ==
  /\ req[r].at = "idle"
  /\ Len(path) > 1 => Parent(path) \in Listed
  /\ \A p \in Listed : ~(Len(p) = Len(path) /\ \A i \in DOMAIN p : <<p[i], path[i]>> \in Twin)
  /\ req' = [req EXCEPT ![r] = [Idle EXCEPT !.at = "createFolder", !.path = path]]
  /\ UNCHANGED <<folders, mail, rows, target, notices>>
  /\ Observe

createFolder(r) ==
  /\ req[r].at = "createFolder"
  /\ req[r].path \notin folders
  /\ folders' = folders \cup {req[r].path}
  /\ Finish(r)
  /\ UNCHANGED <<mail, rows, target, notices>>
  /\ Observe

-----------------------------------------------------------------------------
(* Renaming *)

\* folder = path, or folder LIKE path || delimiter || '%'; the path is not escaped.
subtree(path) ==
  {p \in Paths : \/ p = path
                 \/ /\ Len(p) > Len(path)
                    /\ \A i \in DOMAIN path : <<path[i], p[i]>> \in Like}

rename(r, path, name) ==
  LET to == Parent(path) \o <<name>> IN
  /\ req[r].at = "idle"
  /\ require(path)
  /\ to # path
  /\ \A p \in AtOrBelow(path) \cup subtree(path) : Moved(p, path, to) \in Paths
  /\ req' = [req EXCEPT ![r] = [Idle EXCEPT !.at = "renameFolder", !.path = path, !.to = to]]
  /\ UNCHANGED <<folders, mail, rows, target, notices>>
  /\ Observe

renameFolder(r) ==
  LET path == req[r].path
      moves(p) == IF p \in AtOrBelow(path) THEN Moved(p, path, req[r].to) ELSE p
  IN
  /\ req[r].at = "renameFolder"
  /\ path \in folders
  /\ \A p \in folders \cap AtOrBelow(path) : moves(p) \notin folders
  /\ folders' = {moves(p) : p \in folders}
  /\ mail' = [m \in Messages |-> IF mail[m] = Null THEN Null ELSE moves(mail[m])]
  /\ Goto(r, "renameSubtree")
  /\ UNCHANGED <<rows, target, notices>>
  /\ Observe

\* Mutant: the rows of the folder itself only.
renameRows(r) ==
  /\ req[r].at = "renameSubtree"
  /\ rows' = {<<IF row[1] = req[r].path THEN req[r].to ELSE row[1], row[2]>> : row \in rows}
  /\ Finish(r)
  /\ UNCHANGED <<folders, mail, target, notices>>
  /\ Observe

\* The rules that file into the folder are left as they are; a row that has the
\* new path and message already fails the UPDATE.
renameSubtree(r) ==
  LET moves(p) == IF p \in subtree(req[r].path) THEN Moved(p, req[r].path, req[r].to) ELSE p IN
  /\ req[r].at = "renameSubtree"
  /\ \A row, other \in rows : <<moves(row[1]), row[2]>> = <<moves(other[1]), other[2]>> => row = other
  /\ rows' = {<<moves(row[1]), row[2]>> : row \in rows}
  /\ Finish(r)
  /\ UNCHANGED <<folders, mail, target, notices>>
  /\ Watch(FALSE, suspect \cup {moves(p) : p \in suspect})

-----------------------------------------------------------------------------
(* Deleting *)

delete(r, path) ==
  /\ req[r].at = "idle"
  /\ require(path)
  /\ req' = [req EXCEPT ![r] = [Idle EXCEPT !.at = "ruleTargets", !.path = path]]
  /\ UNCHANGED <<folders, mail, rows, target, notices>>
  /\ Observe

\* Mutant: the rules are not asked.
ruleTargetsUnread(r) ==
  /\ req[r].at = "ruleTargets"
  /\ Goto(r, "deleteFolder")
  /\ UNCHANGED <<folders, mail, rows, target, notices>>
  /\ Observe

ruleTargets(r) ==
  /\ req[r].at = "ruleTargets"
  /\ target # req[r].path
  /\ Goto(r, "deleteFolder")
  /\ UNCHANGED <<folders, mail, rows, target, notices>>
  /\ Observe

deleteFolder(r) ==
  /\ req[r].at = "deleteFolder"
  /\ req[r].path \in folders
  /\ folders' = folders \ {req[r].path}
  /\ mail' = [m \in Messages |-> IF mail[m] = req[r].path THEN Null ELSE mail[m]]
  /\ Goto(r, "deleteSubtree")
  /\ UNCHANGED <<rows, target, notices>>
  /\ Observe

\* The rows of folders below go too; a listing of such a folder brings them back.
deleteSubtree(r) ==
  /\ req[r].at = "deleteSubtree"
  /\ rows' = {row \in rows : row[1] \notin subtree(req[r].path)}
  /\ Finish(r)
  /\ UNCHANGED <<folders, mail, target, notices>>
  /\ Observe

-----------------------------------------------------------------------------
(* What else touches folders and rows *)

\* A rule may name any folder, there or not.
PointRule(path) ==
  /\ target' = path
  /\ UNCHANGED <<folders, mail, rows, notices, req>>
  /\ Watch(\E r \in Requests : req[r].at = "deleteFolder", suspect)

\* Sieve files the message and announces it; when the rule's folder is gone the
\* server keeps the message in INBOX, and announces nothing.
Deliver(m, matches) ==
  /\ mail[m] = Null /\ \A notice \in notices : notice[2] # m
  /\ LET chosen == IF matches /\ target # Null THEN target ELSE Inbox
         filed  == IF chosen \in folders THEN chosen ELSE Inbox
     IN  /\ mail' = [mail EXCEPT ![m] = filed]
         /\ notices' = IF filed = chosen THEN notices \cup {<<filed, m>>} ELSE notices
  /\ UNCHANGED <<folders, rows, target, req>>
  /\ Observe

\* mailReceived inserts the row for the folder announced, whatever has become of it.
mailReceived(notice) ==
  /\ notice \in notices
  /\ notices' = notices \ {notice}
  /\ rows' = rows \cup {notice}
  /\ UNCHANGED <<folders, mail, target, req>>
  /\ Observe

\* MessageService.list reads a folder, then makes its rows what it read (Projection).
listMessages(r, path) ==
  /\ req[r].at = "idle"
  /\ path \in folders
  /\ req' = [req EXCEPT ![r] = [Idle EXCEPT !.at = "sync", !.path = path,
                                            !.listing = {m \in Messages : mail[m] = path}]]
  /\ UNCHANGED <<folders, mail, rows, target, notices>>
  /\ Observe

sync(r) ==
  /\ req[r].at = "sync"
  /\ rows' = {row \in rows : row[1] # req[r].path} \cup ({req[r].path} \X req[r].listing)
  /\ Finish(r)
  /\ UNCHANGED <<folders, mail, target, notices>>
  /\ Watch(FALSE, IF Quiet(req', notices) /\ req[r].listing = {m \in Messages : mail[m] = req[r].path}
                  THEN suspect \ {req[r].path} ELSE suspect)

-----------------------------------------------------------------------------
Next ==
  \/ \E path \in Targets : PointRule(path)
  \/ \E m \in Messages, matches \in BOOLEAN : Deliver(m, matches)
  \/ \E notice \in notices : mailReceived(notice)
  \/ \E r \in Requests :
       \/ \E path \in Paths : create(r, path) \/ delete(r, path) \/ listMessages(r, path)
       \/ \E path \in Paths, name \in Names : rename(r, path, name)
       \/ createFolder(r) \/ renameFolder(r) \/ renameSubtree(r)
       \/ ruleTargets(r) \/ deleteFolder(r) \/ deleteSubtree(r)
       \/ sync(r) \/ Fail(r)

Spec == Init /\ [][Next]_vars

-----------------------------------------------------------------------------
(* Properties *)

TypeOK ==
  /\ Inbox \in folders /\ folders \subseteq Paths
  /\ mail \in [Messages -> Paths \cup {Null}]
  /\ rows \subseteq Paths \X Messages
  /\ target \in Paths \cup {Null}
  /\ notices \subseteq Paths \X Messages
  /\ \A r \in Requests :
       /\ req[r].path \in Paths \cup {Null} /\ req[r].to \in Paths \cup {Null}
       /\ req[r].listing \subseteq Messages
  /\ suspect \subseteq Paths

\* The rows follow the folders: a row is in the folder its message is in, also for
\* the folders below the one renamed or deleted and for a folder created where
\* another one was, unless a change of folders overlapped something or stopped
\* halfway; and what that left behind in a folder ends with its deletion, or a
\* listing of it, with nothing else going on.  The rows wait between the two steps
\* of a change.
RowsKeepUp ==
  (\A r \in Requests : req[r].at \notin {"renameSubtree", "deleteSubtree"})
    => \A row \in rows : row[1] \in suspect \/ mail[row[2]] = row[1]

\* folder.test.ts:171: a folder that a rule files into is not deleted.  Over whole
\* requests: a rule's folder goes only by a rename, or under a deletion that
\* overlapped something; deleting a folder above it leaves it.
TargetOutlivesDeletion ==
  [][(target \in folders /\ target \notin folders')
       => (suspect' = Paths \/ \E r \in Requests : req[r].at = "renameFolder")]_vars
=============================================================================
