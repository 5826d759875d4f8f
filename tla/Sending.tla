------------------------------ MODULE Sending ------------------------------
(***************************************************************************)
(* One mailbox sending mail and saving drafts, with their attachments:     *)
(* MessageService.send and saveDraft (src/messages/message.service.ts),    *)
(* AttachmentService (src/attachments/attachment.service.ts), and the      *)
(* milter's delivery reports (src/internal/mail.controller.ts).            *)
(*                                                                         *)
(* Every await is a step and any request may fail at any of them.  The     *)
(* allowance of SendCap is one atomic step here, as SendQuota promises.    *)
(* A message is its Message-ID; `work` says which piece of writing it is,  *)
(* so that a draft, its later versions and the message sent from it are    *)
(* told apart and yet belong together.                                     *)
(***************************************************************************)
EXTENDS Integers, FiniteSets, Functions

CONSTANTS
  Requests,     \* concurrent HTTP requests
  Files,        \* attachment ids; one is drawn again only when nothing recalls it
  Messages,     \* Message-IDs: random, and named here in the order in which they are drawn
  Recipients,   \* envelope recipients: every message goes to all of them
  Works,        \* pieces of writing
  Statuses,     \* what the milter reports, SENT_MESSAGE_STATUSES in the code
  Pending,      \* the column's default
  sizeBytes,    \* size_bytes of each file
  MaxBytes,     \* MAIL_MAX_ATTACHMENT_BYTES
  DailyCap,     \* messages the account may still be charged for
  Unbound,      \* an attachment row whose message_id is NULL
  Null

ASSUME SendingAssumption ==
  /\ IsFiniteSet(Requests)
  /\ IsFiniteSet(Messages)
  /\ Pending \in Statuses
  /\ sizeBytes \in [Files -> Nat]
  /\ MaxBytes \in Nat
  /\ DailyCap \in Nat
  /\ Unbound \notin Messages
  /\ Null \notin Messages \cup Files \cup Works \cup Statuses \cup {Unbound}

ASSUME MessagesAssumption == Messages \subseteq Nat

VARIABLES
  boundTo,     \* the attachment row's message_id; Null when there is no row
  disk,        \* files with bytes under MAIL_ATTACHMENTS_DIR
  charged,     \* messages consumeAllowance let through
  accepted,    \* messages the MTA took responsibility for
  drafts,      \* messages in the IMAP Drafts folder
  filed,       \* messages with a copy in the IMAP Sent folder
  status,      \* sent_message.status by message and recipient; Null without a row
  pc,          \* where each request is
  op,          \* "send" or "draft" while a message is being composed
  file,        \* the upload or removal's file
  attached,    \* the rows claim returned
  replaces,    \* replacesDraftId
  msg,         \* the Message-ID drawn
  \* history variables
  work,        \* the piece of writing a message carries
  content,     \* the files that went into its MIME body
  saved,       \* pieces of writing that were ever in Drafts
  lastReport,  \* the milter's latest status by message and recipient
  denied,      \* messages whose sender was answered "nothing was sent"
  disturbed    \* whether the process or Postgres ever failed a request

uploads == <<boundTo, disk>>
imap == <<drafts, filed, saved>>
mta == <<accepted, lastReport, denied>>
request == <<pc, op, file, attached, replaces, msg>>
history == <<work, content, disturbed>>
vars == <<uploads, charged, imap, mta, status, request, history>>

Total(F) == SumFunctionOnSet(sizeBytes, F)
UnboundFiles == {f \in Files : boundTo[f] = Unbound}

Composing == {"claimed", "composing", "transmitting", "appending", "attaching",
              "filing", "discarding", "recording", "binding"}

Init ==
  /\ boundTo = [f \in Files |-> Null]
  /\ disk = {}
  /\ charged = 0
  /\ accepted = {}
  /\ drafts = {}
  /\ filed = {}
  /\ status = [m \in Messages |-> [p \in Recipients |-> Null]]
  /\ pc = [r \in Requests |-> "idle"]
  /\ op = [r \in Requests |-> Null]
  /\ file = [r \in Requests |-> Null]
  /\ attached = [r \in Requests |-> {}]
  /\ replaces = [r \in Requests |-> Null]
  /\ msg = [r \in Requests |-> Null]
  /\ work = [m \in Messages |-> Null]
  /\ content = [m \in Messages |-> {}]
  /\ saved = {}
  /\ lastReport = [m \in Messages |-> [p \in Recipients |-> Null]]
  /\ denied = {}
  /\ disturbed = FALSE

Goto(r, step) ==
  /\ pc' = [pc EXCEPT ![r] = step]
  /\ UNCHANGED <<op, file, attached, replaces, msg>>

\* The request has been answered; its locals are gone.
Done(r) ==
  /\ pc' = [pc EXCEPT ![r] = "idle"]
  /\ op' = [op EXCEPT ![r] = Null]
  /\ file' = [file EXCEPT ![r] = Null]
  /\ attached' = [attached EXCEPT ![r] = {}]
  /\ replaces' = [replaces EXCEPT ![r] = Null]
  /\ msg' = [msg EXCEPT ![r] = Null]

\* An await of request r throws, or the process dies under it.
Fail(r) ==
  /\ pc[r] # "idle"
  /\ Done(r)
  /\ disturbed' = TRUE
  /\ UNCHANGED <<uploads, charged, imap, mta, status, work, content>>

-----------------------------------------------------------------------------
(* Uploading and removing an attachment *)

\* upload: the sum of the unbound rows is read now and the row inserted later.
BeginUpload(r, f) ==
  /\ pc[r] = "idle"
  /\ boundTo[f] = Null /\ f \notin disk
  /\ \A q \in Requests : file[q] # f /\ f \notin attached[q]
  /\ \A m \in Messages : f \notin content[m]
  /\ Total(UnboundFiles) + sizeBytes[f] <= MaxBytes
  /\ pc' = [pc EXCEPT ![r] = "writing"]
  /\ file' = [file EXCEPT ![r] = f]
  /\ UNCHANGED <<uploads, charged, imap, mta, status, op, attached, replaces, msg, history>>

WriteFile(r) ==
  /\ pc[r] = "writing"
  /\ disk' = disk \cup {file[r]}
  /\ Goto(r, "inserting")
  /\ UNCHANGED <<boundTo, charged, imap, mta, status, history>>

InsertRow(r) ==
  /\ pc[r] = "inserting"
  /\ boundTo' = [boundTo EXCEPT ![file[r]] = Unbound]
  /\ Done(r)
  /\ UNCHANGED <<disk, charged, imap, mta, status, history>>

\* remove: findDraft sees the row unbound; the DELETE that follows asks only
\* for its id, and the bytes go last.
BeginRemove(r, f) ==
  /\ pc[r] = "idle"
  /\ boundTo[f] = Unbound
  /\ pc' = [pc EXCEPT ![r] = "deleting"]
  /\ file' = [file EXCEPT ![r] = f]
  /\ UNCHANGED <<uploads, charged, imap, mta, status, op, attached, replaces, msg, history>>

\* Mutant: the bytes are unlinked before the row is deleted.
UnlinkBeforeDelete(r) ==
  /\ pc[r] = "deleting"
  /\ disk' = disk \ {file[r]}
  /\ Goto(r, "unlinking")
  /\ UNCHANGED <<boundTo, charged, imap, mta, status, history>>

DeleteRow(r) ==
  /\ pc[r] = "deleting"
  /\ boundTo' = [boundTo EXCEPT ![file[r]] = Null]
  /\ Goto(r, "unlinking")
  /\ UNCHANGED <<disk, charged, imap, mta, status, history>>

Unlink(r) ==
  /\ pc[r] = "unlinking"
  /\ disk' = disk \ {file[r]}
  /\ Done(r)
  /\ UNCHANGED <<boundTo, charged, imap, mta, status, history>>

-----------------------------------------------------------------------------
(* Sending and saving a draft *)

\* Mutant: claim trusts the sum that upload checked.
ClaimableAnySize(F) == F \subseteq UnboundFiles

\* claim: every id must be that of an unbound row, and their sum within the limit.
Claimable(F) == F \subseteq UnboundFiles /\ Total(F) <= MaxBytes

\* A request to send or to save version `m` of the writing w, perhaps in place
\* of the draft d of it.  The Message-ID is drawn a little later in the code.
Begin(r, kind, F, m, w, d) ==
  /\ pc[r] = "idle"
  /\ Claimable(F)
  /\ work[m] = Null /\ \A k \in Messages : work[k] = Null => m <= k
  /\ d # Null => d \in drafts /\ work[d] = w
  /\ pc' = [pc EXCEPT ![r] = IF kind = "send" THEN "claimed" ELSE "composing"]
  /\ op' = [op EXCEPT ![r] = kind]
  /\ attached' = [attached EXCEPT ![r] = F]
  /\ replaces' = [replaces EXCEPT ![r] = d]
  /\ msg' = [msg EXCEPT ![r] = m]
  /\ work' = [work EXCEPT ![m] = w]
  /\ UNCHANGED <<uploads, charged, imap, mta, status, file, content, disturbed>>

\* Mutant: the cap is off by one.
ConsumeOneMore(r) ==
  /\ pc[r] = "claimed"
  /\ IF charged <= DailyCap
     THEN charged' = charged + 1 /\ Goto(r, "composing")
     ELSE charged' = charged /\ Done(r)
  /\ UNCHANGED <<uploads, imap, mta, status, history>>

\* consumeAllowance: charged now, whatever becomes of the message; or a 429.
ConsumeAllowance(r) ==
  /\ pc[r] = "claimed"
  /\ IF charged < DailyCap
     THEN charged' = charged + 1 /\ Goto(r, "composing")
     ELSE charged' = charged /\ Done(r)
  /\ UNCHANGED <<uploads, imap, mta, status, history>>

\* compose reads every attached file; one that is gone fails the request.
Compose(r) ==
  /\ pc[r] = "composing"
  /\ IF attached[r] \subseteq disk
     THEN /\ content' = [content EXCEPT ![msg[r]] = attached[r]]
          /\ Goto(r, IF op[r] = "send" THEN "transmitting" ELSE "appending")
     ELSE Done(r) /\ UNCHANGED content
  /\ UNCHANGED <<uploads, charged, imap, mta, status, work, disturbed>>

\* sendMail: the MTA takes the message and the request goes on; ...
Transmit(r) ==
  /\ pc[r] = "transmitting"
  /\ accepted' = accepted \cup {msg[r]}
  /\ Goto(r, "attaching")
  /\ UNCHANGED <<uploads, charged, imap, lastReport, denied, status, history>>

\* Mutant: "nothing was sent", so the account gets its allowance back.
LoseConnectionAndRefund(r) ==
  /\ pc[r] = "transmitting"
  /\ accepted' \in {accepted, accepted \cup {msg[r]}}
  /\ charged' = charged - 1
  /\ denied' = denied \cup {msg[r]}
  /\ Done(r)
  /\ UNCHANGED <<uploads, imap, lastReport, status, history>>

\* ... or the connection fails, before the MTA took it or after: a 503.
LoseConnection(r) ==
  /\ pc[r] = "transmitting"
  /\ accepted' \in {accepted, accepted \cup {msg[r]}}
  /\ denied' = denied \cup {msg[r]}
  /\ Done(r)
  /\ UNCHANGED <<uploads, charged, imap, lastReport, status, history>>

\* The MTA refuses the message with a code isUnreachable does not know, or the IMAP
\* server refuses the draft: the error is the answer.
Refused(r) ==
  /\ pc[r] \in {"transmitting", "appending"}
  /\ Done(r)
  /\ UNCHANGED <<uploads, charged, imap, mta, status, history>>

\* Mutant: the append's failure is swallowed as fileInSent's is.
AppendDraftOrNot(r) ==
  /\ pc[r] = "appending"
  /\ drafts' \in {drafts, drafts \cup {msg[r]}}
  /\ saved' = saved \cup {work[msg[r]]}
  /\ Goto(r, "discarding")
  /\ UNCHANGED <<uploads, charged, filed, mta, status, history>>

\* The draft's append to the Drafts folder.
AppendDraft(r) ==
  /\ pc[r] = "appending"
  /\ drafts' = drafts \cup {msg[r]}
  /\ saved' = saved \cup {work[msg[r]]}
  /\ Goto(r, "discarding")
  /\ UNCHANGED <<uploads, charged, filed, mta, status, history>>

\* attachTo: an UPDATE of whatever rows still have the ids, bound or not.
AttachTo(r) ==
  /\ pc[r] \in {"attaching", "binding"}
  /\ boundTo' = [f \in Files |-> IF f \in attached[r] /\ boundTo[f] # Null
                                 THEN msg[r] ELSE boundTo[f]]
  /\ IF pc[r] = "attaching" THEN Goto(r, "filing") ELSE Done(r)
  /\ UNCHANGED <<disk, charged, imap, mta, status, history>>

\* Mutant: the copy's failure fails the request.
FileInSentOrFail(r) ==
  /\ pc[r] = "filing"
  /\ \/ filed' = filed \cup {msg[r]} /\ Goto(r, "discarding")
     \/ filed' = filed /\ Done(r)
  /\ UNCHANGED <<uploads, charged, drafts, saved, mta, status, history>>

\* fileInSent: the copy is filed, or the failure is swallowed.
FileInSent(r) ==
  /\ pc[r] = "filing"
  /\ filed' \in {filed, filed \cup {msg[r]}}
  /\ Goto(r, "discarding")
  /\ UNCHANGED <<uploads, charged, drafts, saved, mta, status, history>>

\* discardDraft: the replaced draft goes, or the failure is swallowed.
DiscardDraft(r) ==
  /\ pc[r] = "discarding"
  /\ drafts' \in {drafts, drafts \ {replaces[r]}}
  /\ Goto(r, IF op[r] = "send" THEN "recording" ELSE "binding")
  /\ UNCHANGED <<uploads, charged, filed, saved, mta, status, history>>

\* Mutant: ON CONFLICT DO UPDATE, as in mailSent.
RecordSentAnyway(r) ==
  /\ pc[r] = "recording"
  /\ status' = [status EXCEPT ![msg[r]] = [p \in Recipients |-> Pending]]
  /\ Done(r)
  /\ UNCHANGED <<uploads, charged, imap, mta, history>>

\* recordSent: one INSERT of a row per recipient, ON CONFLICT DO NOTHING.
RecordSent(r) ==
  /\ pc[r] = "recording"
  /\ status' = [status EXCEPT ![msg[r]] =
                  [p \in Recipients |-> IF @[p] = Null THEN Pending ELSE @[p]]]
  /\ Done(r)
  /\ UNCHANGED <<uploads, charged, imap, mta, history>>

\* mailSent: the milter reports on a recipient of a message the MTA took, as
\* often as it likes; INSERT ... ON CONFLICT DO UPDATE.
MailSent(m, p, s) ==
  /\ m \in accepted
  /\ status' = [status EXCEPT ![m][p] = s]
  /\ lastReport' = [lastReport EXCEPT ![m][p] = s]
  /\ UNCHANGED <<uploads, charged, imap, accepted, denied, request, history>>

-----------------------------------------------------------------------------
Step(r) ==
  \/ WriteFile(r) \/ InsertRow(r) \/ DeleteRow(r) \/ Unlink(r)
  \/ ConsumeAllowance(r) \/ Compose(r) \/ Transmit(r) \/ LoseConnection(r) \/ Refused(r)
  \/ AppendDraft(r) \/ AttachTo(r) \/ FileInSent(r) \/ DiscardDraft(r) \/ RecordSent(r)

Arrive ==
  \/ \E r \in Requests, f \in Files : BeginUpload(r, f) \/ BeginRemove(r, f)
  \/ \E r \in Requests, kind \in {"send", "draft"}, F \in SUBSET Files,
        m \in Messages, w \in Works, d \in Messages \cup {Null} : Begin(r, kind, F, m, w, d)
  \/ \E m \in Messages, p \in Recipients, s \in Statuses : MailSent(m, p, s)

Next == Arrive \/ \E r \in Requests : Step(r) \/ Fail(r)

Spec == Init /\ [][Next]_vars

\* Every await of a request is answered sooner or later, or fails.
FairSpec == Spec /\ \A r \in Requests : WF_vars(Step(r))

-----------------------------------------------------------------------------
(* Properties *)

\* Columns, locals and folders hold values of their types.
TypeOK ==
  /\ boundTo \in [Files -> Messages \cup {Unbound, Null}]
  /\ disk \subseteq Files
  /\ charged \in 0..DailyCap
  /\ accepted \subseteq Messages
  /\ drafts \subseteq Messages
  /\ filed \subseteq Messages
  /\ status \in [Messages -> [Recipients -> Statuses \cup {Null}]]
  /\ pc \in [Requests -> {"idle", "writing", "inserting", "deleting", "unlinking"} \cup Composing]
  /\ op \in [Requests -> {"send", "draft", Null}]
  /\ file \in [Requests -> Files \cup {Null}]
  /\ attached \in [Requests -> SUBSET Files]
  /\ replaces \in [Requests -> Messages \cup {Null}]
  /\ msg \in [Requests -> Messages \cup {Null}]
  /\ work \in [Messages -> Works \cup {Null}]
  /\ content \in [Messages -> SUBSET Files]
  /\ saved \subseteq Works
  /\ lastReport \in [Messages -> [Recipients -> Statuses \cup {Null}]]
  /\ denied \subseteq Messages
  /\ disturbed \in BOOLEAN

\* A row of attachment always has its bytes, whatever request dies where: an
\* upload writes the file first and a removal unlinks it last, so a crash leaves
\* an unreferenced file and never a row without one (attachment.service.ts:31-95).
RowHasBytes ==
  \A f \in Files : boundTo[f] # Null => f \in disk

\* A message the MTA took is within the attachment limit, although concurrent
\* uploads may exceed it between them: claim sums again (attachment.service.ts:97).
SentWithinLimit ==
  \A m \in accepted : Total(content[m]) <= MaxBytes

\* The MTA never takes more messages than the account was charged for, not even
\* when the reply is lost and the sender is told that nothing was sent.
AcceptedWithinCap ==
  Cardinality(accepted) <= charged

\* recordSent and the milter's reports may arrive in any order: once the milter
\* has reported on a recipient, the row shows its latest report.
LatestReportStands ==
  \A m \in Messages, p \in Recipients :
    lastReport[m][p] # Null => status[m][p] = lastReport[m][p]

\* Saved writing is never lost: as long as it is not deleted on purpose, some
\* version of it is in Drafts or was taken by the MTA, whichever requests replace
\* each other's drafts and wherever they fail (send, saveDraft, discardDraft).
WorkNeverLost ==
  \A w \in saved : \E m \in Messages : work[m] = w /\ m \in drafts \cup accepted

\* A request that saw the MTA take its message gets it into sent_message, even when
\* the Sent copy and the discarding of the draft fail, while the process and Postgres
\* are up.
Transmitted(m) == \E r \in Requests : msg[r] = m /\ pc[r] = "attaching"
SendGetsRecorded ==
  \A m \in Messages, p \in Recipients : Transmitted(m) ~> status[m][p] # Null \/ disturbed

\* attachment.test.ts:91 "refuses an upload that would push the draft over the
\* ceiling": the unbound rows stay within the limit.
DraftsWithinCeiling ==
  Total(UnboundFiles) <= MaxBytes

\* attachment.test.ts:101 "leaves an upload unbound until the message actually
\* goes out": a bound row is bound to a message the MTA took.
BoundMeansSent ==
  \A f \in Files : boundTo[f] \in Messages => boundTo[f] \in accepted

\* message.service.ts:235 "is not reachable, so nothing was sent": a message
\* whose sender is told so was not taken by the MTA.
DeniedMeansUnsent ==
  denied \cap accepted = {}
=============================================================================
