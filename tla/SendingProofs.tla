--------------------------- MODULE SendingProofs ---------------------------
(***************************************************************************)
(* Sending, for any number of requests, files, messages and recipients:    *)
(* the types, that a row keeps its bytes, that a message stays within the  *)
(* attachment limit and an account within what it was charged for, that    *)
(* the milter's latest report stands, and that saved work is not lost.     *)
(***************************************************************************)
EXTENDS Sending, FiniteSetTheorems, TLAPS

\* Where a request is says what it holds.
Shape ==
  \A r \in Requests :
    /\ pc[r] \in {"writing", "inserting", "deleting", "unlinking"} => file[r] \in Files
    /\ pc[r] \in Composing =>
         /\ op[r] \in {"send", "draft"}
         /\ msg[r] \in Messages
         /\ work[msg[r]] \in Works
         /\ Total(attached[r]) <= MaxBytes
    /\ pc[r] \in {"claimed", "transmitting"} => op[r] = "send"

\* An upload's file is its own until its row is there; a removal's file has no row
\* when its bytes are unlinked.
FileInv ==
  /\ \A r \in Requests : pc[r] \in {"writing", "inserting"} =>
       /\ boundTo[file[r]] = Null
       /\ \A q \in Requests \ {r} : file[q] # file[r]
  /\ \A r \in Requests : pc[r] = "inserting" => file[r] \in disk
  /\ \A r \in Requests : pc[r] = "unlinking" => boundTo[file[r]] = Null
  /\ RowHasBytes

\* What is about to be handed to the MTA is within the limit too.
LimitInv ==
  /\ SentWithinLimit
  /\ \A r \in Requests : pc[r] = "transmitting" => Total(content[msg[r]]) <= MaxBytes

\* The requests charged for a message that the MTA may yet take.
Paid == {r \in Requests : pc[r] \in {"composing", "transmitting"} /\ op[r] = "send"}
ChargeInv == Cardinality(accepted) + Cardinality(Paid) <= charged

-----------------------------------------------------------------------------
LEMMA InitInv == Init => TypeOK /\ Shape /\ FileInv /\ LimitInv /\ ChargeInv /\ LatestReportStands
<1> SUFFICES ASSUME Init
             PROVE  TypeOK /\ Shape /\ FileInv /\ LimitInv /\ ChargeInv /\ LatestReportStands
  OBVIOUS
<1>1. TypeOK
  <2>1. disturbed \in BOOLEAN
    BY DEF Init
  <2> QED BY <2>1, SendingAssumption DEF Init, TypeOK
<1>2. Shape /\ FileInv /\ LimitInv /\ LatestReportStands
  BY DEF Init, Shape, FileInv, RowHasBytes, LimitInv, SentWithinLimit, LatestReportStands, Composing
<1>3. Paid = {}
  BY DEF Init, Paid
<1>4. ChargeInv
  BY <1>3, FS_EmptySet DEF Init, ChargeInv
<1> QED BY <1>1, <1>2, <1>4

-----------------------------------------------------------------------------
(* The disjuncts of Next, for the invariants below. *)

Arriving(r) ==
  \/ \E f \in Files : BeginUpload(r, f) \/ BeginRemove(r, f)
  \/ \E kind \in {"send", "draft"}, F \in SUBSET Files, m \in Messages, w \in Works,
        d \in Messages \cup {Null} : Begin(r, kind, F, m, w, d)
Reporting == \E m \in Messages, p \in Recipients, s \in Statuses : MailSent(m, p, s)

LEMMA NextIs ==
  ASSUME [Next]_vars
  PROVE  \/ UNCHANGED vars
         \/ Reporting
         \/ \E r \in Requests : Arriving(r) \/ Step(r) \/ Fail(r)
BY DEF Next, Arrive, Arriving, Reporting

LEMMA TypeStep ==
  ASSUME TypeOK, Shape, [Next]_vars
  PROVE  TypeOK' /\ Shape'
<1> USE SendingAssumption DEF TypeOK, Shape, Composing, Goto, Done, uploads, imap, mta, request,
                              history
<1>1. CASE UNCHANGED vars
  BY <1>1 DEF vars
<1>2. CASE Reporting
  BY <1>2 DEF Reporting, MailSent
<1>3. ASSUME NEW r \in Requests, Arriving(r) PROVE TypeOK' /\ Shape'
  <2>1. ASSUME NEW f \in Files, BeginUpload(r, f) PROVE TypeOK' /\ Shape'
    BY <2>1 DEF BeginUpload
  <2>2. ASSUME NEW f \in Files, BeginRemove(r, f) PROVE TypeOK' /\ Shape'
    BY <2>2 DEF BeginRemove
  <2>3. ASSUME NEW kind \in {"send", "draft"}, NEW F \in SUBSET Files, NEW m \in Messages,
               NEW w \in Works, NEW d \in Messages \cup {Null}, Begin(r, kind, F, m, w, d)
        PROVE  TypeOK' /\ Shape'
    BY <2>3 DEF Begin, Claimable
  <2> QED BY <1>3, <2>1, <2>2, <2>3 DEF Arriving
<1>4. ASSUME NEW r \in Requests, Step(r) PROVE TypeOK' /\ Shape'
  <2>1. CASE WriteFile(r)
    BY <2>1 DEF WriteFile
  <2>2. CASE InsertRow(r)
    BY <2>2 DEF InsertRow
  <2>3. CASE DeleteRow(r)
    BY <2>3 DEF DeleteRow
  <2>4. CASE Unlink(r)
    BY <2>4 DEF Unlink
  <2>5. CASE ConsumeAllowance(r)
    <3>1. charged' \in 0..DailyCap
      BY <2>5 DEF ConsumeAllowance
    <3>2. CASE Goto(r, "composing")
      BY <2>5, <3>1, <3>2 DEF ConsumeAllowance
    <3>3. CASE Done(r)
      BY <2>5, <3>1, <3>3 DEF ConsumeAllowance
    <3> QED BY <2>5, <3>2, <3>3 DEF ConsumeAllowance
  <2>6. CASE Compose(r)
    <3>1. CASE attached[r] \subseteq disk
      <4>1. /\ content' = [content EXCEPT ![msg[r]] = attached[r]]
            /\ UNCHANGED <<uploads, charged, imap, mta, status, work, disturbed, op, file,
                           attached, replaces, msg>>
            /\ pc' = [pc EXCEPT ![r] = IF op[r] = "send" THEN "transmitting" ELSE "appending"]
        BY <2>6, <3>1 DEF Compose
      <4>2. TypeOK'
        BY <4>1
      <4>3. Shape'
        BY <2>6, <4>1 DEF Compose
      <4> QED BY <4>2, <4>3
    <3>2. CASE Done(r) /\ UNCHANGED content
      BY <2>6, <3>2 DEF Compose
    <3> QED BY <2>6, <3>1, <3>2 DEF Compose
  <2>7. CASE Transmit(r)
    BY <2>7 DEF Transmit
  <2>8. CASE LoseConnection(r)
    BY <2>8 DEF LoseConnection
  <2>9. CASE Refused(r)
    BY <2>9 DEF Refused
  <2>10. CASE AppendDraft(r)
    BY <2>10 DEF AppendDraft
  <2>11. CASE AttachTo(r)
    <3>1. boundTo' \in [Files -> Messages \cup {Unbound, Null}]
      BY <2>11 DEF AttachTo
    <3>2. CASE Goto(r, "filing")
      BY <2>11, <3>1, <3>2 DEF AttachTo
    <3>3. CASE Done(r)
      BY <2>11, <3>1, <3>3 DEF AttachTo
    <3> QED BY <2>11, <3>2, <3>3 DEF AttachTo
  <2>12. CASE FileInSent(r)
    BY <2>12 DEF FileInSent
  <2>13. CASE DiscardDraft(r)
    BY <2>13 DEF DiscardDraft
  <2>14. CASE RecordSent(r)
    BY <2>14 DEF RecordSent
  <2> HIDE DEF TypeOK, Shape
  <2> QED BY <1>4, <2>1, <2>2, <2>3, <2>4, <2>5, <2>6, <2>7, <2>8, <2>9, <2>10, <2>11, <2>12,
             <2>13, <2>14 DEF Step
<1>5. ASSUME NEW r \in Requests, Fail(r) PROVE TypeOK' /\ Shape'
  BY <1>5 DEF Fail
<1> HIDE DEF TypeOK, Shape
<1> QED BY <1>1, <1>2, <1>3, <1>4, <1>5, NextIs

-----------------------------------------------------------------------------
(* Rows and their bytes *)

LEMMA FileStep ==
  ASSUME TypeOK, Shape, FileInv, [Next]_vars
  PROVE  FileInv'
<1> USE SendingAssumption DEF TypeOK, Goto, Done, uploads, request
\* What the steps of a request have in common: the others stay where they are.
<1>1. ASSUME NEW r \in Requests, UNCHANGED disk,
             \A f \in Files : boundTo[f] = Null <=> boundTo'[f] = Null,
             pc'[r] \notin {"writing", "inserting", "unlinking"},
             file'[r] \in {file[r], Null} \/ boundTo[file'[r]] # Null,
             \A q \in Requests \ {r} : pc'[q] = pc[q] /\ file'[q] = file[q]
      PROVE  FileInv'
  <2>1. ASSUME NEW q \in Requests, pc'[q] \in {"writing", "inserting"}
        PROVE  boundTo'[file'[q]] = Null /\ \A s \in Requests \ {q} : file'[s] # file'[q]
    <3>1. q # r /\ pc'[q] = pc[q] /\ file'[q] = file[q] /\ file[q] \in Files
      BY <1>1, <2>1 DEF Shape
    <3>2. boundTo[file[q]] = Null /\ \A s \in Requests \ {q} : file[s] # file[q]
      BY <2>1, <3>1 DEF FileInv
    <3> QED BY <1>1, <3>1, <3>2
  <2>2. \A q \in Requests : pc'[q] = "inserting" => file'[q] \in disk'
    BY <1>1 DEF FileInv
  <2>3. \A q \in Requests : pc'[q] = "unlinking" => boundTo'[file'[q]] = Null
    BY <1>1 DEF FileInv, Shape
  <2> QED BY <1>1, <2>1, <2>2, <2>3 DEF FileInv, RowHasBytes
<1>2. CASE UNCHANGED vars \/ Reporting
  BY <1>2 DEF vars, Reporting, MailSent, FileInv, RowHasBytes
<1>3. ASSUME NEW r \in Requests, NEW f \in Files, BeginUpload(r, f) PROVE FileInv'
  <2>1. /\ UNCHANGED <<boundTo, disk>> /\ pc' = [pc EXCEPT ![r] = "writing"]
        /\ file' = [file EXCEPT ![r] = f] /\ boundTo[f] = Null
        /\ \A q \in Requests : file[q] # f
    BY <1>3 DEF BeginUpload
  <2>2. /\ pc'[r] = "writing" /\ file'[r] = f
        /\ \A q \in Requests \ {r} : pc'[q] = pc[q] /\ file'[q] = file[q]
    BY <2>1
  <2> QED BY <2>1, <2>2 DEF FileInv, RowHasBytes
<1>4. ASSUME NEW r \in Requests, NEW f \in Files, BeginRemove(r, f) PROVE FileInv'
  <2>1. /\ UNCHANGED <<boundTo, disk>> /\ pc[r] = "idle" /\ pc' = [pc EXCEPT ![r] = "deleting"]
        /\ file' = [file EXCEPT ![r] = f] /\ boundTo[f] # Null
    BY <1>4 DEF BeginRemove
  <2> QED BY <1>1, <2>1
<1>5. ASSUME NEW r \in Requests, WriteFile(r) PROVE FileInv'
  <2>1. /\ boundTo' = boundTo /\ disk' = disk \cup {file[r]} /\ file' = file
        /\ pc[r] = "writing" /\ pc' = [pc EXCEPT ![r] = "inserting"]
    BY <1>5 DEF WriteFile
  <2>2. pc'[r] = "inserting" /\ \A q \in Requests \ {r} : pc'[q] = pc[q]
    BY <2>1
  <2> QED BY <2>1, <2>2 DEF FileInv, RowHasBytes
<1>6. ASSUME NEW r \in Requests, InsertRow(r) PROVE FileInv'
  <2>1. /\ boundTo' = [boundTo EXCEPT ![file[r]] = Unbound] /\ disk' = disk
        /\ pc[r] = "inserting" /\ pc' = [pc EXCEPT ![r] = "idle"]
        /\ file' = [file EXCEPT ![r] = Null]
    BY <1>6 DEF InsertRow
  <2>2. /\ file[r] \in Files /\ file[r] \in disk
        /\ \A q \in Requests \ {r} : file[q] # file[r]
    BY <2>1 DEF Shape, FileInv
  <2>3. /\ pc'[r] = "idle" /\ file'[r] = Null
        /\ \A q \in Requests \ {r} : pc'[q] = pc[q] /\ file'[q] = file[q]
    BY <2>1
  <2>4. \A f \in Files : boundTo'[f] = IF f = file[r] THEN Unbound ELSE boundTo[f]
    BY <2>1
  <2>5. \A q \in Requests \ {r} : pc[q] \in {"writing", "inserting", "unlinking"} =>
          file[q] \in Files /\ boundTo'[file[q]] = boundTo[file[q]]
    BY <2>2, <2>4 DEF Shape
  <2>6. Null \notin Files
    OBVIOUS
  <2> QED BY <2>1, <2>2, <2>3, <2>4, <2>5, <2>6 DEF FileInv, RowHasBytes, Shape
<1>7. ASSUME NEW r \in Requests, DeleteRow(r) PROVE FileInv'
  <2>1. /\ boundTo' = [boundTo EXCEPT ![file[r]] = Null] /\ disk' = disk /\ file' = file
        /\ pc[r] = "deleting" /\ pc' = [pc EXCEPT ![r] = "unlinking"]
    BY <1>7 DEF DeleteRow
  <2>2. pc'[r] = "unlinking" /\ \A q \in Requests \ {r} : pc'[q] = pc[q]
    BY <2>1
  <2>3. file[r] \in Files /\ \A f \in Files : boundTo'[f] \in {boundTo[f], Null}
    BY <2>1 DEF Shape
  <2>4. boundTo'[file[r]] = Null
    BY <2>1, <2>3
  <2> QED BY <2>1, <2>2, <2>3, <2>4 DEF FileInv, RowHasBytes, Shape
<1>8. ASSUME NEW r \in Requests, Unlink(r) PROVE FileInv'
  <2>1. /\ boundTo' = boundTo /\ disk' = disk \ {file[r]} /\ file' = [file EXCEPT ![r] = Null]
        /\ pc[r] = "unlinking" /\ pc' = [pc EXCEPT ![r] = "idle"]
    BY <1>8 DEF Unlink
  <2>2. /\ pc'[r] = "idle" /\ file'[r] = Null
        /\ \A q \in Requests \ {r} : pc'[q] = pc[q] /\ file'[q] = file[q]
    BY <2>1
  <2>3. file[r] \in Files /\ boundTo[file[r]] = Null
    BY <2>1 DEF Shape, FileInv
  <2>4. Null \notin Files
    OBVIOUS
  <2> QED BY <2>1, <2>2, <2>3, <2>4 DEF FileInv, RowHasBytes, Shape
<1>9. ASSUME NEW r \in Requests, AttachTo(r) PROVE FileInv'
  <2>1. /\ disk' = disk /\ pc[r] \in {"attaching", "binding"}
        /\ \A f \in Files : boundTo[f] = Null <=> boundTo'[f] = Null
    BY <1>9 DEF AttachTo, Shape, Composing
  <2>2. /\ pc'[r] \in {"filing", "idle"} /\ file'[r] \in {file[r], Null}
        /\ \A q \in Requests \ {r} : pc'[q] = pc[q] /\ file'[q] = file[q]
    BY <1>9 DEF AttachTo
  <2> QED BY <1>1, <2>1, <2>2
<1>10. ASSUME NEW r \in Requests,
              \/ \E kind \in {"send", "draft"}, F \in SUBSET Files, m \in Messages, w \in Works,
                    d \in Messages \cup {Null} : Begin(r, kind, F, m, w, d)
              \/ ConsumeAllowance(r) \/ Compose(r) \/ Transmit(r) \/ LoseConnection(r)
              \/ Refused(r) \/ AppendDraft(r) \/ FileInSent(r) \/ DiscardDraft(r)
              \/ RecordSent(r) \/ Fail(r)
       PROVE  FileInv'
  <2>1. UNCHANGED <<boundTo, disk>>
    BY <1>10 DEF Begin, ConsumeAllowance, Compose, Transmit, LoseConnection, Refused, AppendDraft,
                 FileInSent, DiscardDraft, RecordSent, Fail
  <2>2. /\ pc'[r] \notin {"writing", "inserting", "unlinking"}
        /\ file'[r] \in {file[r], Null}
        /\ \A q \in Requests \ {r} : pc'[q] = pc[q] /\ file'[q] = file[q]
    BY <1>10 DEF Begin, ConsumeAllowance, Compose, Transmit, LoseConnection, Refused, AppendDraft,
                 FileInSent, DiscardDraft, RecordSent, Fail
  <2> QED BY <1>1, <2>1, <2>2
<1> QED BY <1>2, <1>3, <1>4, <1>5, <1>6, <1>7, <1>8, <1>9, <1>10, NextIs DEF Step, Arriving

-----------------------------------------------------------------------------
(* The attachment limit *)

LEMMA LimitStep ==
  ASSUME TypeOK, Shape, LimitInv, [Next]_vars
  PROVE  LimitInv'
<1> USE SendingAssumption DEF TypeOK, Goto, Done, mta, request, history
\* A message's content only ever becomes something within the limit.
<1>1. ASSUME NEW r \in Requests, UNCHANGED content,
             accepted' = accepted \/ (pc[r] = "transmitting" /\ accepted' = accepted \cup {msg[r]}),
             pc'[r] # "transmitting",
             \A q \in Requests \ {r} : pc'[q] = pc[q] /\ msg'[q] = msg[q]
      PROVE  LimitInv'
  BY <1>1 DEF LimitInv, SentWithinLimit
<1>2. CASE UNCHANGED vars \/ Reporting
  BY <1>2 DEF vars, Reporting, MailSent, LimitInv, SentWithinLimit
<1>3. ASSUME NEW r \in Requests, Compose(r) PROVE LimitInv'
  <2>1. CASE attached[r] \subseteq disk
    <3>1. /\ content' = [content EXCEPT ![msg[r]] = attached[r]] /\ UNCHANGED <<accepted, msg>>
          /\ pc[r] = "composing"
          /\ \A q \in Requests \ {r} : pc'[q] = pc[q]
      BY <1>3, <2>1 DEF Compose
    <3>2. msg[r] \in Messages /\ Total(attached[r]) <= MaxBytes
      BY <3>1 DEF Shape, Composing
    <3>3. \A m \in Messages : content'[m] = content[m] \/ content'[m] = attached[r]
      BY <3>1
    <3>4. content'[msg[r]] = attached[r]
      BY <3>1, <3>2
    <3>5. \A q \in Requests : pc[q] = "transmitting" => msg[q] \in Messages
      BY DEF Shape, Composing
    <3> QED BY <3>1, <3>2, <3>3, <3>4, <3>5 DEF LimitInv, SentWithinLimit
  <2>2. CASE Done(r) /\ UNCHANGED content
    <3>1. UNCHANGED accepted
      BY <1>3 DEF Compose
    <3> QED BY <1>1, <2>2, <3>1
  <2> QED BY <1>3, <2>1, <2>2 DEF Compose
<1>4. ASSUME NEW r \in Requests, Arriving(r) \/ (Step(r) /\ ~Compose(r)) \/ Fail(r)
      PROVE  LimitInv'
  <2>1. UNCHANGED content
    BY <1>4 DEF Step, Arriving, BeginUpload, BeginRemove, Begin, WriteFile, InsertRow, DeleteRow,
                Unlink, ConsumeAllowance, Transmit, LoseConnection, Refused, AppendDraft,
                AttachTo, FileInSent, DiscardDraft, RecordSent, Fail
  <2>2. accepted' = accepted \/ (pc[r] = "transmitting" /\ accepted' = accepted \cup {msg[r]})
    BY <1>4 DEF Step, Arriving, BeginUpload, BeginRemove, Begin, WriteFile, InsertRow, DeleteRow,
                Unlink, ConsumeAllowance, Transmit, LoseConnection, Refused, AppendDraft,
                AttachTo, FileInSent, DiscardDraft, RecordSent, Fail
  <2>3. /\ pc'[r] # "transmitting"
        /\ \A q \in Requests \ {r} : pc'[q] = pc[q] /\ msg'[q] = msg[q]
    BY <1>4 DEF Step, Arriving, BeginUpload, BeginRemove, Begin, WriteFile, InsertRow, DeleteRow,
                Unlink, ConsumeAllowance, Transmit, LoseConnection, Refused, AppendDraft,
                AttachTo, FileInSent, DiscardDraft, RecordSent, Fail
  <2> QED BY <1>1, <2>1, <2>2, <2>3
<1> QED BY <1>2, <1>3, <1>4, NextIs

-----------------------------------------------------------------------------
(* The allowance *)

LEMMA ChargeStep ==
  ASSUME TypeOK, Shape, ChargeInv, [Next]_vars
  PROVE  ChargeInv'
<1>1. /\ IsFiniteSet(accepted) /\ IsFiniteSet(Paid) /\ IsFiniteSet(Paid')
      /\ Cardinality(accepted) \in Nat /\ Cardinality(Paid) \in Nat
      /\ Cardinality(Paid') \in Nat /\ charged \in Nat
  <2>1. Paid \subseteq Requests /\ Paid' \subseteq Requests
    BY DEF Paid
  <2> QED BY <2>1, SendingAssumption, FS_Subset, FS_CardinalityType DEF TypeOK
<1>2. CASE Paid' \subseteq Paid /\ UNCHANGED <<accepted, charged>>
  BY <1>1, <1>2, FS_Subset DEF ChargeInv
<1>3. ASSUME NEW r \in Requests, r \notin Paid, Paid' \subseteq Paid \cup {r},
             charged' = charged + 1, UNCHANGED accepted
      PROVE  ChargeInv'
  <2>1. /\ Cardinality(Paid \cup {r}) = Cardinality(Paid) + 1
        /\ Cardinality(Paid') <= Cardinality(Paid \cup {r})
    BY <1>1, <1>3, FS_AddElement, FS_Subset
  <2> QED BY <1>1, <1>3, <2>1 DEF ChargeInv
<1>4. ASSUME NEW r \in Requests, r \in Paid, Paid' = Paid \ {r}, UNCHANGED charged,
             accepted' \in {accepted, accepted \cup {msg[r]}}
      PROVE  ChargeInv'
  <2>1. Cardinality(Paid') = Cardinality(Paid) - 1
    BY <1>1, <1>4, FS_RemoveElement
  <2>2. /\ Cardinality(accepted') \in Nat
        /\ Cardinality(accepted') <= Cardinality(accepted) + 1
    <3>1. CASE accepted' = accepted
      BY <1>1, <3>1
    <3>2. CASE accepted' = accepted \cup {msg[r]}
      <4>1. Cardinality(accepted') \in {Cardinality(accepted), Cardinality(accepted) + 1}
        BY <1>1, <3>2, FS_AddElement
      <4> QED BY <1>1, <4>1
    <3> QED BY <1>4, <3>1, <3>2
  <2> QED BY <1>1, <1>4, <2>1, <2>2 DEF ChargeInv
<1> USE DEF TypeOK, Goto, Done, mta, request, Paid
<1>5. CASE UNCHANGED vars \/ Reporting
  <2>1. Paid' \subseteq Paid /\ UNCHANGED <<accepted, charged>>
    BY <1>5 DEF vars, Reporting, MailSent
  <2> QED BY <1>2, <2>1
<1>6. ASSUME NEW r \in Requests,
             \/ Arriving(r) \/ WriteFile(r) \/ InsertRow(r) \/ DeleteRow(r) \/ Unlink(r)
             \/ Compose(r) \/ Refused(r) \/ AppendDraft(r) \/ AttachTo(r)
             \/ FileInSent(r) \/ DiscardDraft(r) \/ RecordSent(r) \/ Fail(r)
      PROVE  ChargeInv'
  <2>1. UNCHANGED <<accepted, charged>>
    BY <1>6 DEF Arriving, BeginUpload, BeginRemove, Begin, WriteFile, InsertRow, DeleteRow,
                Unlink, Compose, Refused, AppendDraft, AttachTo, FileInSent, DiscardDraft,
                RecordSent, Fail
  <2>2. Paid' \subseteq Paid
    BY <1>6 DEF Arriving, BeginUpload, BeginRemove, Begin, WriteFile, InsertRow, DeleteRow,
                Unlink, Compose, Refused, AppendDraft, AttachTo, FileInSent, DiscardDraft,
                RecordSent, Fail
  <2> QED BY <1>2, <2>1, <2>2
<1>7. ASSUME NEW r \in Requests, ConsumeAllowance(r) PROVE ChargeInv'
  <2>1. CASE charged < DailyCap
    <3>1. r \notin Paid /\ Paid' \subseteq Paid \cup {r}
      BY <1>7, <2>1 DEF ConsumeAllowance
    <3> QED BY <1>3, <1>7, <2>1, <3>1 DEF ConsumeAllowance
  <2>2. CASE ~(charged < DailyCap)
    <3>1. Paid' \subseteq Paid /\ UNCHANGED <<accepted, charged>>
      BY <1>7, <2>2 DEF ConsumeAllowance
    <3> QED BY <1>2, <3>1
  <2> QED BY <2>1, <2>2
<1>8. ASSUME NEW r \in Requests, Transmit(r) \/ LoseConnection(r) PROVE ChargeInv'
  <2>1. r \in Paid
    BY <1>8 DEF Transmit, LoseConnection, Shape
  <2>2. Paid' = Paid \ {r}
    BY <1>8 DEF Transmit, LoseConnection
  <2>3. UNCHANGED charged /\ accepted' \in {accepted, accepted \cup {msg[r]}}
    BY <1>8 DEF Transmit, LoseConnection
  <2> QED BY <1>4, <2>1, <2>2, <2>3
<1> QED BY <1>5, <1>6, <1>7, <1>8, NextIs DEF Step

-----------------------------------------------------------------------------
(* The milter's reports *)

LEMMA ReportStep ==
  ASSUME TypeOK, Shape, LatestReportStands, [Next]_vars
  PROVE  LatestReportStands'
<1> USE SendingAssumption DEF LatestReportStands, TypeOK
<1>1. CASE Reporting
  BY <1>1 DEF Reporting, MailSent
<1>2. ASSUME NEW r \in Requests, RecordSent(r) PROVE LatestReportStands'
  BY <1>2 DEF RecordSent, mta, Shape, Composing
<1>3. CASE UNCHANGED <<status, lastReport>>
  BY <1>3
<1>4. CASE UNCHANGED vars
  BY <1>3, <1>4 DEF vars, mta
<1>5. ASSUME NEW r \in Requests, Arriving(r) \/ Fail(r) \/ (Step(r) /\ ~RecordSent(r))
      PROVE  LatestReportStands'
  <2>1. UNCHANGED <<status, lastReport>>
    BY <1>5 DEF mta, Arriving, BeginUpload, BeginRemove, Begin, Fail, Step, WriteFile, InsertRow,
                DeleteRow, Unlink, ConsumeAllowance, Compose, Transmit, LoseConnection, Refused,
                AppendDraft, AttachTo, FileInSent, DiscardDraft
  <2> QED BY <1>3, <2>1
<1> QED BY <1>1, <1>2, <1>4, <1>5, NextIs

-----------------------------------------------------------------------------
(* Saved work *)

\* Message-IDs are named in the order in which they are drawn, ...
Numbered == \A m, k \in Messages : work[m] # Null /\ k < m => work[k] # Null
\* ... so a request replaces an older version of what it carries, ...
Replacing ==
  \A r \in Requests : pc[r] \in Composing /\ replaces[r] # Null =>
    /\ replaces[r] \in Messages /\ replaces[r] < msg[r]
    /\ work[replaces[r]] = work[msg[r]]
\* ... and when it discards that, its own version or a later one is there.
Landed ==
  /\ \A r \in Requests : pc[r] \in {"attaching", "filing"} => msg[r] \in accepted
  /\ \A r \in Requests : pc[r] = "discarding" =>
       \E m \in Messages : m \in drafts \cup accepted /\ work[m] = work[msg[r]] /\ msg[r] <= m
WorkInv == Numbered /\ Replacing /\ Landed /\ WorkNeverLost

LEMMA InitWork == Init => WorkInv
  BY DEF Init, WorkInv, Numbered, Replacing, Landed, WorkNeverLost, Composing

\* A step that draws no Message-ID and removes no draft.
LEMMA WorkKept ==
  ASSUME TypeOK, Shape, WorkInv, work' = work, drafts \subseteq drafts', accepted \subseteq accepted',
         \A q \in Requests :
           /\ pc'[q] \in Composing =>
                pc[q] \in Composing /\ msg'[q] = msg[q] /\ replaces'[q] = replaces[q]
           /\ pc'[q] \in {"attaching", "filing"} =>
                pc[q] \in {"attaching", "filing"} \/ msg[q] \in accepted'
           /\ pc'[q] = "discarding" => pc[q] = "discarding" \/ msg[q] \in drafts' \cup accepted',
         \A w \in saved' : \/ w \in saved
                           \/ \E m \in Messages : work[m] = w /\ m \in drafts' \cup accepted'
  PROVE  WorkInv'
<1> DEFINE Here(q) == \E m \in Messages :
                        m \in drafts' \cup accepted' /\ work[m] = work[msg[q]] /\ msg[q] <= m
<1>1. Numbered' /\ Replacing'
  BY DEF WorkInv, Numbered, Replacing
<1>2. \A q \in Requests : pc'[q] \in {"attaching", "filing"} => msg'[q] \in accepted'
  BY DEF WorkInv, Landed, Composing
<1>3. ASSUME NEW q \in Requests, pc'[q] = "discarding" PROVE Here(q) /\ msg'[q] = msg[q]
  <2>1. pc[q] \in Composing /\ msg'[q] = msg[q]
    BY <1>3 DEF Composing
  <2>2. msg[q] \in Messages
    BY <2>1 DEF Shape
  <2>3. CASE msg[q] \in drafts' \cup accepted'
    <3>1. msg[q] \in Nat
      BY <2>2, MessagesAssumption
    <3> QED BY <2>1, <2>2, <2>3, <3>1
  <2>4. CASE pc[q] = "discarding"
    BY <2>1, <2>4 DEF WorkInv, Landed
  <2> QED
    BY <1>3, <2>1, <2>3, <2>4
<1>4. Landed'
  BY <1>2, <1>3 DEF Landed
<1>5. WorkNeverLost'
  BY DEF WorkInv, WorkNeverLost
<1> QED
  BY <1>1, <1>4, <1>5 DEF WorkInv

LEMMA WorkBegun ==
  ASSUME TypeOK, Shape, WorkInv, NEW r \in Requests, NEW kind \in {"send", "draft"}, NEW F,
         NEW m \in Messages, NEW w \in Works, NEW d \in Messages \cup {Null},
         Begin(r, kind, F, m, w, d)
  PROVE  WorkInv'
<1>1. /\ pc[r] = "idle" /\ work[m] = Null
      /\ \A k \in Messages : work[k] = Null => m <= k
      /\ d # Null => d \in drafts /\ work[d] = w
      /\ work' = [work EXCEPT ![m] = w] /\ UNCHANGED <<drafts, accepted, saved>>
      /\ pc'[r] \in {"claimed", "composing"} /\ msg'[r] = m /\ replaces'[r] = d
      /\ \A q \in Requests \ {r} : pc'[q] = pc[q] /\ msg'[q] = msg[q] /\ replaces'[q] = replaces[q]
  BY DEF Begin, TypeOK, imap, mta
<1>2. /\ \A k \in Messages : work'[k] = IF k = m THEN w ELSE work[k]
      /\ w # Null /\ \A k \in Messages : k \in Nat
  BY <1>1, SendingAssumption, MessagesAssumption DEF TypeOK
<1>3. Numbered'
  <2> SUFFICES ASSUME NEW i \in Messages, NEW k \in Messages, work'[i] # Null, k < i
      PROVE  work'[k] # Null
    BY DEF Numbered
  <2>1. CASE work[i] # Null
    BY <1>2, <2>1 DEF WorkInv, Numbered
  <2>2. CASE work[i] = Null
    <3>1. i = m
      BY <1>2, <2>2
    <3>2. work[k] # Null
      BY <1>1, <1>2, <3>1
    <3> QED
      BY <1>2, <3>2
  <2> QED
    BY <2>1, <2>2
<1>4. \A q \in Requests : pc[q] \in Composing => msg[q] \in Messages /\ work[msg[q]] \in Works /\ msg[q] # m
  BY <1>1, SendingAssumption, MessagesAssumption DEF Shape
<1>5. Replacing'
  <2>1. d # Null => d \in Messages /\ d < m /\ work'[d] = work'[m]
    <3>1. d # Null => d # m
      BY <1>1, <1>2
    <3>2. d # Null => ~(m < d)
      BY <1>1, <1>2 DEF WorkInv, Numbered
    <3>3. d # Null => d <= m \/ m < d
      BY <1>2
    <3> QED
      <4>1. SUFFICES ASSUME d # Null PROVE d \in Messages /\ d < m /\ work'[d] = work'[m]
        OBVIOUS
      <4>2. d \in Messages /\ work[d] = w
        BY <1>1, <4>1
      <4>3. d < m
        BY <1>1, <1>2, <3>1, <4>2 DEF WorkInv, Numbered
      <4> QED
        BY <1>2, <3>1, <4>2, <4>3
  <2>2. ASSUME NEW q \in Requests \ {r}, pc[q] \in Composing, replaces[q] # Null
        PROVE  /\ replaces[q] \in Messages /\ replaces[q] < msg[q]
               /\ work'[replaces[q]] = work'[msg[q]]
    <3>1. /\ replaces[q] \in Messages /\ replaces[q] < msg[q]
          /\ work[replaces[q]] = work[msg[q]]
      BY <2>2 DEF WorkInv, Replacing
    <3>2. msg[q] \in Messages /\ msg[q] # m /\ work[msg[q]] # Null
      BY <1>4, <2>2, SendingAssumption, MessagesAssumption
    <3>3. replaces[q] # m
      BY <1>1, <3>1, <3>2
    <3> QED
      BY <1>2, <3>1, <3>2, <3>3
  <2> QED
    BY <1>1, <2>1, <2>2 DEF Replacing
<1>6. Landed'
  <2>1. ASSUME NEW q \in Requests, pc'[q] = "discarding"
        PROVE  \E k \in Messages : /\ k \in drafts' \cup accepted' /\ work'[k] = work'[msg'[q]]
                                   /\ msg'[q] <= k
    <3>1. q # r /\ pc[q] = "discarding" /\ msg'[q] = msg[q]
      BY <1>1, <2>1
    <3>2. msg[q] \in Messages /\ work[msg[q]] # Null /\ msg[q] # m
      BY <1>4, <3>1, SendingAssumption, MessagesAssumption DEF Composing
    <3>3. PICK k \in Messages : k \in drafts \cup accepted /\ work[k] = work[msg[q]] /\ msg[q] <= k
      BY <3>1 DEF WorkInv, Landed
    <3>4. k # m
      BY <1>1, <3>2, <3>3
    <3>5. work'[k] = work'[msg'[q]]
      BY <1>2, <3>1, <3>2, <3>3, <3>4
    <3> QED
      BY <1>1, <3>1, <3>3, <3>5
  <2>2. \A q \in Requests : pc'[q] \in {"attaching", "filing"} => msg'[q] \in accepted'
    BY <1>1 DEF WorkInv, Landed
  <2> QED
    BY <2>1, <2>2 DEF Landed
<1>7. WorkNeverLost'
  <2>1. ASSUME NEW v \in saved
        PROVE  \E k \in Messages : work'[k] = v /\ k \in drafts' \cup accepted'
    <3>1. PICK k \in Messages : work[k] = v /\ k \in drafts \cup accepted
      BY DEF WorkInv, WorkNeverLost
    <3>2. v # Null
      BY SendingAssumption, MessagesAssumption DEF TypeOK
    <3> QED
      BY <1>1, <1>2, <3>1, <3>2
  <2> QED
    BY <1>1, <2>1 DEF WorkNeverLost
<1> QED
  BY <1>3, <1>5, <1>6, <1>7 DEF WorkInv

LEMMA WorkDiscarded ==
  ASSUME TypeOK, Shape, WorkInv, NEW r \in Requests, DiscardDraft(r)
  PROVE  WorkInv'
<1>1. /\ pc[r] = "discarding" /\ work' = work /\ accepted' = accepted /\ saved' = saved
      /\ drafts' = drafts \/ drafts' = drafts \ {replaces[r]}
      /\ msg' = msg /\ replaces' = replaces /\ pc'[r] \in {"recording", "binding"}
      /\ \A q \in Requests \ {r} : pc'[q] = pc[q]
  BY DEF DiscardDraft, Goto, TypeOK, imap, mta, history
<1>2. PICK n \in Messages : n \in drafts \cup accepted /\ work[n] = work[msg[r]] /\ msg[r] <= n
  BY <1>1 DEF WorkInv, Landed
<1>3. \A q \in Requests : pc[q] \in Composing => msg[q] \in Messages
  BY DEF Shape
<1>4. msg[r] \in Messages /\ \A k \in Messages : k \in Nat
  BY <1>1, <1>3, SendingAssumption, MessagesAssumption DEF Composing
<1>5. replaces[r] # Null => /\ replaces[r] \in Messages /\ replaces[r] < msg[r]
                            /\ work[replaces[r]] = work[msg[r]]
  BY <1>1 DEF WorkInv, Replacing, Composing
<1>6. n \in drafts' \cup accepted'
  <2>1. replaces[r] \in Messages => replaces[r] < msg[r]
    BY <1>5, SendingAssumption
  <2>2. n # replaces[r]
    BY <1>2, <1>4, <2>1
  <2> QED
    BY <1>1, <1>2, <2>2
\* What goes leaves a later version of the same.
<1>7. ASSUME NEW k \in Messages, k \in drafts \cup accepted
      PROVE  k \in drafts' \cup accepted' \/ (work[k] = work[n] /\ k < n)
  <2>1. CASE k = replaces[r]
    <3>1. k # Null
      BY SendingAssumption, MessagesAssumption
    <3> QED
      BY <1>2, <1>4, <1>5, <2>1, <3>1
  <2>2. CASE k # replaces[r]
    BY <1>1, <1>7, <2>2
  <2> QED
    BY <2>1, <2>2
<1>8. Numbered' /\ Replacing'
  BY <1>1 DEF WorkInv, Numbered, Replacing, Composing
<1>9. Landed'
  <2>1. ASSUME NEW q \in Requests, pc[q] = "discarding"
        PROVE  \E k \in Messages : k \in drafts' \cup accepted' /\ work[k] = work[msg[q]] /\ msg[q] <= k
    <3>1. PICK k \in Messages : k \in drafts \cup accepted /\ work[k] = work[msg[q]] /\ msg[q] <= k
      BY <2>1 DEF WorkInv, Landed
    <3>2. msg[q] \in Messages
      BY <1>3, <2>1 DEF Composing
    <3>3. CASE k \in drafts' \cup accepted'
      BY <3>1, <3>3
    <3>4. CASE work[k] = work[n] /\ k < n
      <4>1. msg[q] <= n
        BY <1>4, <3>1, <3>2, <3>4
      <4> QED
        BY <1>6, <3>1, <3>4, <4>1
    <3> QED
      BY <1>7, <3>1, <3>3, <3>4
  <2>2. \A q \in Requests : pc'[q] \in {"attaching", "filing", "discarding"} => pc[q] = pc'[q]
    BY <1>1
  <2> QED
    BY <1>1, <2>1, <2>2 DEF WorkInv, Landed
<1>10. WorkNeverLost'
  <2>1. ASSUME NEW v \in saved
        PROVE  \E k \in Messages : work[k] = v /\ k \in drafts' \cup accepted'
    <3>1. PICK k \in Messages : work[k] = v /\ k \in drafts \cup accepted
      BY DEF WorkInv, WorkNeverLost
    <3> QED
      BY <1>6, <1>7, <3>1
  <2> QED
    BY <1>1, <2>1 DEF WorkNeverLost
<1> QED
  BY <1>8, <1>9, <1>10 DEF WorkInv

LEMMA WorkStep ==
  ASSUME TypeOK, Shape, WorkInv, [Next]_vars
  PROVE  WorkInv'
<1> USE DEF Goto, Done, uploads, imap, mta, request, history
<1>1. CASE UNCHANGED vars \/ Reporting
  <2>1. UNCHANGED <<work, drafts, accepted, saved, pc, msg, replaces>>
    BY <1>1 DEF vars, Reporting, MailSent
  <2> QED
    BY <2>1, WorkKept
<1>2. ASSUME NEW r \in Requests,
             \/ \E f \in Files : BeginUpload(r, f) \/ BeginRemove(r, f)
             \/ WriteFile(r) \/ InsertRow(r) \/ DeleteRow(r) \/ Unlink(r)
             \/ Fail(r) \/ Refused(r) \/ LoseConnection(r) \/ RecordSent(r)
      PROVE  WorkInv'
  <2>1. /\ UNCHANGED <<work, drafts, saved>> /\ accepted \subseteq accepted'
        /\ pc'[r] \notin Composing
        /\ \A q \in Requests \ {r} : pc'[q] = pc[q] /\ msg'[q] = msg[q] /\ replaces'[q] = replaces[q]
    BY <1>2 DEF BeginUpload, BeginRemove, WriteFile, InsertRow, DeleteRow, Unlink, Fail, Refused,
                LoseConnection, RecordSent, TypeOK, Composing
  <2> QED
    BY <2>1, WorkKept DEF Composing
<1>3. ASSUME NEW r \in Requests, ConsumeAllowance(r) \/ Compose(r) PROVE WorkInv'
  <2>1. /\ UNCHANGED <<work, drafts, saved, accepted>> /\ pc[r] \in Composing
        /\ \/ pc'[r] = "idle"
           \/ /\ pc'[r] \in {"composing", "transmitting", "appending"}
              /\ msg'[r] = msg[r] /\ replaces'[r] = replaces[r]
        /\ \A q \in Requests \ {r} : pc'[q] = pc[q] /\ msg'[q] = msg[q] /\ replaces'[q] = replaces[q]
    BY <1>3 DEF ConsumeAllowance, Compose, TypeOK, Composing
  <2> QED
    BY <2>1, WorkKept DEF Composing
<1>4. ASSUME NEW r \in Requests, Transmit(r) \/ AttachTo(r) \/ FileInSent(r) PROVE WorkInv'
  <2>1. /\ UNCHANGED <<work, drafts, saved>> /\ accepted \subseteq accepted'
        /\ \/ pc'[r] = "idle"
           \/ /\ msg'[r] = msg[r] /\ replaces'[r] = replaces[r]
              /\ \/ pc[r] = "transmitting" /\ pc'[r] = "attaching" /\ msg[r] \in accepted'
                 \/ pc[r] = "attaching" /\ pc'[r] = "filing"
                 \/ pc[r] = "filing" /\ pc'[r] = "discarding"
        /\ \A q \in Requests \ {r} : pc'[q] = pc[q] /\ msg'[q] = msg[q] /\ replaces'[q] = replaces[q]
    BY <1>4 DEF Transmit, AttachTo, FileInSent, TypeOK
  <2>2. pc[r] = "filing" => msg[r] \in accepted'
    BY <2>1 DEF WorkInv, Landed
  <2> QED
    BY <2>1, <2>2, WorkKept DEF Composing
<1>5. ASSUME NEW r \in Requests, AppendDraft(r) PROVE WorkInv'
  <2>1. /\ UNCHANGED <<work, accepted, msg, replaces>>
        /\ drafts' = drafts \cup {msg[r]} /\ saved' = saved \cup {work[msg[r]]}
        /\ pc[r] = "appending" /\ pc'[r] = "discarding"
        /\ \A q \in Requests \ {r} : pc'[q] = pc[q]
    BY <1>5 DEF AppendDraft, TypeOK
  <2>2. msg[r] \in Messages
    BY <2>1 DEF Shape, Composing
  <2> QED
    BY <2>1, <2>2, WorkKept DEF Composing
<1>6. ASSUME NEW r \in Requests, NEW kind \in {"send", "draft"}, NEW F \in SUBSET Files,
             NEW m \in Messages, NEW w \in Works, NEW d \in Messages \cup {Null},
             Begin(r, kind, F, m, w, d)
      PROVE  WorkInv'
  BY <1>6, WorkBegun
<1> QED
  BY <1>1, <1>2, <1>3, <1>4, <1>5, <1>6, WorkDiscarded, NextIs DEF Step, Arriving

-----------------------------------------------------------------------------
LEMMA Invariance ==
  Spec => [](TypeOK /\ Shape /\ FileInv /\ LimitInv /\ ChargeInv /\ LatestReportStands /\ WorkInv)
<1> DEFINE I == TypeOK /\ Shape /\ FileInv /\ LimitInv /\ ChargeInv /\ LatestReportStands /\ WorkInv
<1>1. I /\ [Next]_vars => I'
  BY TypeStep, FileStep, LimitStep, ChargeStep, ReportStep, WorkStep
<1> QED BY InitInv, InitWork, <1>1, PTL DEF Spec

\* Columns, folders and locals keep their types.
THEOREM TypeCorrect == Spec => []TypeOK
BY Invariance, PTL

\* Whatever requests overlap and die where, an attachment's row has its bytes on disk:
\* upload writes the file before the row and remove unlinks it after.
THEOREM RowsKeepBytes == Spec => []RowHasBytes
<1>1. FileInv => RowHasBytes
  BY DEF FileInv
<1> QED BY <1>1, Invariance, PTL

\* claim's sum bounds every message the MTA took, however many uploads overlapped.
THEOREM LimitEnforced == Spec => []SentWithinLimit
<1>1. LimitInv => SentWithinLimit
  BY DEF LimitInv
<1> QED BY <1>1, Invariance, PTL

\* The MTA never took more messages than consumeAllowance charged for.
THEOREM ChargedForAll == Spec => []AcceptedWithinCap
<1>1. TypeOK /\ ChargeInv => AcceptedWithinCap
  <2> SUFFICES ASSUME TypeOK, ChargeInv PROVE AcceptedWithinCap
    OBVIOUS
  <2>1. IsFiniteSet(accepted) /\ IsFiniteSet(Paid)
    <3>1. Paid \subseteq Requests
      BY DEF Paid
    <3> QED BY <3>1, SendingAssumption, FS_Subset DEF TypeOK
  <2>2. Cardinality(accepted) \in Nat /\ Cardinality(Paid) \in Nat /\ charged \in Nat
    BY <2>1, SendingAssumption, FS_CardinalityType DEF TypeOK
  <2> QED BY <2>2 DEF ChargeInv, AcceptedWithinCap
<1> QED BY <1>1, Invariance, PTL

\* recordSent never overwrites what mailSent recorded, in whichever order they come.
THEOREM ReportsStand == Spec => []LatestReportStands
BY Invariance, PTL

\* However many requests replace each other's drafts, in any order, and wherever they
\* fail: of writing that was ever saved some version stays in Drafts or was taken by the
\* MTA, because a version is discarded only once a later one is there.
THEOREM SavedWorkStays == Spec => []WorkNeverLost
<1>1. WorkInv => WorkNeverLost
  BY DEF WorkInv
<1> QED BY <1>1, Invariance, PTL
=============================================================================
