----------------------------- MODULE RuleScript -----------------------------
(***************************************************************************)
(* The rules of one mailbox and the Sieve script Dovecot runs for it:      *)
(* src/rules/rule.service.ts commits an edit to folder_rule and then       *)
(* regenerates the script through src/rules/sieve.writer.ts; at start-up   *)
(* src/rules/sieve.reconciler.ts repairs a script that is not current.     *)
(*                                                                         *)
(* A script is the sequence of what its active rules say.  All             *)
(* regenerations share one staging file, truncate it when they open it,    *)
(* and write from its start.  A file that is open is named as the          *)
(* directory names it by now: rename makes the staging file the live one,  *)
(* and the live one is gone.                                               *)
(***************************************************************************)
EXTENDS Integers, FiniteSets, SequencesExt

CONSTANTS
  Requests,   \* concurrent HTTP requests
  Boot,       \* SieveReconciler.onModuleInit, which runs before any of them
  Rules,      \* rule ids; an id is drawn again only when nothing recalls it
  Bodies,     \* what a rule says
  Active,     \* the bodies that are active; the others add nothing to a script
  MaxPos,     \* bound: positions handed out
  MaxCrashes, \* bound: restarts
  Partial,    \* the text of a file that was truncated and is not written yet
  Broken,     \* a text cut short, or mixed of two scripts
  Null

Numberings == UNION {[S -> 1..Cardinality(Rules)] : S \in SUBSET Rules}  \* what reorder is given

ASSUME RuleScriptAssumption ==
  /\ Boot \notin Requests
  /\ Active \subseteq Bodies
  /\ MaxPos \in Nat
  /\ MaxCrashes \in Nat
  /\ Null \notin [pos : 0..MaxPos, body : Bodies] \cup Numberings
               \cup Seq(Active) \cup {Partial, Broken, "staged", "live", "gone"}
  /\ Partial \notin Seq(Active) /\ Broken \notin Seq(Active) \cup {Partial}

ASSUME SizeAssumption ==
  /\ IsFiniteSet(Requests) /\ IsFiniteSet(Rules)
  /\ Cardinality(Rules) <= MaxPos

VARIABLES
  table,      \* table[r]: rule r's position and body, or Null
  staged,     \* what <local part>.sieve.staged holds, or Null
  live,       \* what <local part>.sieve holds
  up,         \* the process accepts requests
  pc,         \* where each request, and the start-up, is
  next,       \* the position a creation read
  order,      \* the new positions a reorder asked for
  snapshot,   \* the script of the rules a regeneration listed
  fd,         \* the file it has open, by the name that has now
  crashes,
  \* history variables
  failed,     \* a regeneration failed since start-up
  overlapped, \* an edit was committed while another was regenerating
  shared,     \* the files that were opened for staging while another was at it
  unanswered  \* that has happened, and none of those failed since

files == <<staged, live>>
locals == <<next, order, snapshot, fd>>
sharing == <<shared, unanswered>>
history == <<failed, overlapped, sharing>>
vars == <<table, files, up, pc, locals, crashes, history>>

Processes == Requests \cup {Boot}
Table == [Rules -> [pos : 0..MaxPos, body : Bodies] \cup {Null}]
EmptyTable == [r \in Rules |-> Null]
Existing == {r \in Rules : table[r] # Null}
PositionsOf(S) == {table[r].pos : r \in S}

\* generateSieve: the active rules by position, those of one position in any order.
Scripts(t) ==
  LET active == {r \in Rules : t[r] # Null /\ t[r].body \in Active}
      sorted == {s \in SetToSeqs(active) :
                   \A i, j \in DOMAIN s : i < j => t[s[i]].pos <= t[s[j]].pos}
  IN  {[i \in DOMAIN s |-> t[s[i]].body] : s \in sorted}

Regenerating == {"list", "open", "write", "rename"}
AtRest == \A p \in Processes : pc[p] \notin Regenerating
Staging == {p \in Processes : pc[p] \in {"write", "rename"}}

\* A mailbox that was just created: installSieve wrote the script of no rules.
Init ==
  /\ table = EmptyTable
  /\ staged = Null
  /\ live = <<>>
  /\ up = TRUE
  /\ pc = [p \in Processes |-> "idle"]
  /\ next = [p \in Processes |-> 0]
  /\ order = [p \in Processes |-> Null]
  /\ snapshot = [p \in Processes |-> Null]
  /\ fd = [p \in Processes |-> Null]
  /\ crashes = 0
  /\ failed = FALSE
  /\ overlapped = FALSE
  /\ shared = {}
  /\ unanswered = FALSE

Goto(p, step) == pc' = [pc EXCEPT ![p] = step]

\* Every edit is followed by regenerate.
Commit(r, edited) ==
  /\ table' = edited
  /\ Goto(r, "list")
  /\ overlapped' = (overlapped \/ \E q \in Requests \ {r} : pc[q] \in Regenerating)
  /\ UNCHANGED <<files, up, snapshot, fd, crashes, failed, sharing>>

-----------------------------------------------------------------------------
(* Edits *)

\* create: nextPosition, ...
ReadNextPosition(r) ==
  /\ up /\ pc[r] = "idle"
  /\ Cardinality({q \in Requests : pc[q] = "insert"}) < Cardinality(Rules \ Existing)
  /\ next' = [next EXCEPT ![r] = Max({0} \cup PositionsOf(Existing)) + 1]
  /\ next'[r] \in 0..MaxPos
  /\ Goto(r, "insert")
  /\ UNCHANGED <<table, files, up, order, snapshot, fd, crashes, history>>

\* ... and the INSERT; nothing makes positions unique.
InsertRule(r, rule, body) ==
  /\ pc[r] = "insert"
  /\ table[rule] = Null
  /\ next' = [next EXCEPT ![r] = 0]
  /\ Commit(r, [table EXCEPT ![rule] = [pos |-> next[r], body |-> body]])
  /\ UNCHANGED order

UpdateRule(r, rule, body) ==
  /\ up /\ pc[r] = "idle"
  /\ rule \in Existing
  /\ Commit(r, [table EXCEPT ![rule] = [pos |-> @.pos, body |-> body]])
  /\ UNCHANGED <<next, order>>

DeleteRule(r, rule) ==
  /\ up /\ pc[r] = "idle"
  /\ rule \in Existing
  /\ Commit(r, [table EXCEPT ![rule] = Null])
  /\ UNCHANGED <<next, order>>

\* reorder: the ids must be those of the rules there are, each once, ...
BeginReorder(r, positions) ==
  /\ up /\ pc[r] = "idle"
  /\ Existing # {}
  /\ positions \in Bijection(Existing, 1..Cardinality(Existing))
  /\ order' = [order EXCEPT ![r] = positions]
  /\ Goto(r, "reorder")
  /\ UNCHANGED <<table, files, up, next, snapshot, fd, crashes, history>>

\* Mutant: a reorder is not followed by a regeneration.
ReorderOnly(r) ==
  /\ pc[r] = "reorder"
  /\ order' = [order EXCEPT ![r] = Null]
  /\ table' = [rule \in Rules |->
                 IF rule \in Existing \cap DOMAIN order[r]
                 THEN [table[rule] EXCEPT !.pos = order[r][rule]] ELSE table[rule]]
  /\ Goto(r, "idle")
  /\ UNCHANGED <<files, up, next, snapshot, fd, crashes, history>>

\* ... and the transaction numbers those that are still there.
Reorder(r) ==
  /\ pc[r] = "reorder"
  /\ order' = [order EXCEPT ![r] = Null]
  /\ Commit(r, [rule \in Rules |->
                  IF rule \in Existing \cap DOMAIN order[r]
                  THEN [table[rule] EXCEPT !.pos = order[r][rule]] ELSE table[rule]])
  /\ UNCHANGED next

-----------------------------------------------------------------------------
(* Regenerating the script *)

ListRules(p) ==
  /\ pc[p] = "list"
  /\ \E script \in Scripts(table) : snapshot' = [snapshot EXCEPT ![p] = script]
  /\ Goto(p, IF p = Boot THEN "check" ELSE "open")
  /\ UNCHANGED <<table, files, up, next, order, fd, crashes, history>>

\* isCurrent: a script that says what the rules say is left alone.
IsCurrentCheck ==
  /\ pc[Boot] = "check"
  /\ IF live = snapshot[Boot]
     THEN /\ Goto(Boot, "idle")
          /\ up' = TRUE
          /\ snapshot' = [snapshot EXCEPT ![Boot] = Null]
          /\ shared' = shared \ {"live"}
     ELSE Goto(Boot, "open") /\ UNCHANGED <<up, snapshot, shared>>
  /\ UNCHANGED <<table, files, next, order, fd, crashes, failed, overlapped, unanswered>>

\* Who opens the staging file while others are between open and rename shares it.
Share(p) ==
  /\ shared' = IF Staging \ {p} = {} THEN shared \ {"staged"} ELSE shared \cup {"staged"}
  /\ unanswered' = (unanswered \/ Staging \ {p} # {})

\* Mutant: a staging file that is there is not truncated.
OpenUntruncated(p) ==
  /\ pc[p] = "open"
  /\ staged' = IF staged = Null THEN Partial ELSE staged
  /\ fd' = [fd EXCEPT ![p] = "staged"]
  /\ Goto(p, "write")
  /\ Share(p)
  /\ UNCHANGED <<table, live, up, next, order, snapshot, crashes, failed, overlapped>>

\* write opens the staging file, truncating one that is there, ...
OpenStaging(p) ==
  /\ pc[p] = "open"
  /\ staged' = Partial
  /\ fd' = [fd EXCEPT ![p] = "staged"]
  /\ Goto(p, "write")
  /\ Share(p)
  /\ UNCHANGED <<table, live, up, next, order, snapshot, crashes, failed, overlapped>>

\* Over another's text, a script that is shorter leaves that one's tail.
Overwritten(old, script) == IF old \in {Partial, script} THEN {script} ELSE {script, Broken}

\* ... writes the script into it, under whatever name it has by now, ...
WriteStaging(p) ==
  /\ pc[p] = "write"
  /\ staged' \in IF fd[p] = "staged" THEN Overwritten(staged, snapshot[p]) ELSE {staged}
  /\ live' \in IF fd[p] = "live" THEN Overwritten(live, snapshot[p]) ELSE {live}
  /\ snapshot' = [snapshot EXCEPT ![p] = Null]
  /\ fd' = [fd EXCEPT ![p] = Null]
  /\ Goto(p, "rename")
  /\ UNCHANGED <<table, up, next, order, crashes, history>>

\* What rename does to the two names.
Install ==
  /\ live' = staged
  /\ staged' = Null
  /\ fd' = [q \in Processes |-> CASE fd[q] = "staged" -> "live" [] fd[q] = "live" -> "gone"
                                  [] OTHER -> fd[q]]
  /\ shared' = IF "staged" \in shared THEN {"live"} ELSE {}

\* Mutant: a staging file that is gone is renamed all the same.
RenameBlindly(p) ==
  /\ pc[p] = "rename"
  /\ Install
  /\ Goto(p, "idle")
  /\ up' = TRUE
  /\ UNCHANGED <<table, next, order, snapshot, crashes, failed, overlapped, unanswered>>

\* Mutant: a staging file that is gone is taken for installed.
RenameIfThere(p) ==
  /\ pc[p] = "rename"
  /\ IF staged = Null THEN UNCHANGED <<files, fd, shared>> ELSE Install
  /\ Goto(p, "idle")
  /\ up' = TRUE
  /\ UNCHANGED <<table, next, order, snapshot, crashes, failed, overlapped, unanswered>>

\* ... has sievec compile what is there (no file is taken for no sievec) and
\* renames it over the live script; the staging file may be gone, which is an error.
Rename(p) ==
  /\ pc[p] = "rename"
  /\ staged # Null
  /\ Install
  /\ Goto(p, "idle")
  /\ up' = TRUE
  /\ UNCHANGED <<table, next, order, snapshot, crashes, failed, overlapped, unanswered>>

\* A write under way that ends before its time may have left half of its text.
CutShort(S) ==
  LET torn(name) == {Broken : p \in {q \in S : fd[q] = name}} IN
  /\ staged' \in {staged} \cup torn("staged")
  /\ live' \in {live} \cup torn("live")

\* Postgres fails the listing, the disk the open or the write, sievec refuses the
\* script or the rename finds no file: a request answers 500, the start-up goes on
\* to the next mailbox.
FailRegenerate(p) ==
  /\ pc[p] \in Regenerating
  /\ CutShort({p})
  /\ snapshot' = [snapshot EXCEPT ![p] = Null]
  /\ fd' = [fd EXCEPT ![p] = Null]
  /\ Goto(p, "idle")
  /\ up' = TRUE
  /\ failed' = TRUE
  /\ unanswered' = (unanswered /\ p \notin Staging)
  /\ UNCHANGED <<table, next, order, crashes, overlapped, shared>>

\* The process dies; what it starts with is the reconciler.
Crash ==
  /\ crashes < MaxCrashes
  /\ crashes' = crashes + 1
  /\ up' = FALSE
  /\ pc' = [p \in Processes |-> IF p = Boot THEN "list" ELSE "idle"]
  /\ CutShort(Processes)
  /\ next' = [p \in Processes |-> 0]
  /\ order' = [p \in Processes |-> Null]
  /\ snapshot' = [p \in Processes |-> Null]
  /\ fd' = [p \in Processes |-> Null]
  /\ failed' = FALSE
  /\ overlapped' = FALSE
  /\ unanswered' = FALSE
  /\ UNCHANGED <<table, shared>>

Next ==
  \/ \E r \in Requests :
       \/ ReadNextPosition(r) \/ Reorder(r)
       \/ \E rule \in Rules, body \in Bodies :
            InsertRule(r, rule, body) \/ UpdateRule(r, rule, body)
       \/ \E rule \in Rules : DeleteRule(r, rule)
       \/ \E positions \in Bijection(Existing, 1..Cardinality(Existing)) : BeginReorder(r, positions)
  \/ IsCurrentCheck
  \/ \E p \in Processes :
       \/ ListRules(p) \/ OpenStaging(p) \/ WriteStaging(p) \/ Rename(p)
       \/ FailRegenerate(p)
  \/ Crash

Spec == Init /\ [][Next]_vars

-----------------------------------------------------------------------------
(* Properties *)

\* The table, the files and the locals hold values of their types.
TypeOK ==
  /\ table \in Table
  /\ staged \in Seq(Active) \cup {Partial, Broken, Null}
  /\ live \in Seq(Active) \cup {Partial, Broken}
  /\ up \in BOOLEAN
  /\ pc \in [Processes -> {"idle", "insert", "reorder", "check"} \cup Regenerating]
  /\ next \in [Processes -> 0..MaxPos]
  /\ order \in [Processes -> Numberings \cup {Null}]
  /\ snapshot \in [Processes -> Seq(Active) \cup {Null}]
  /\ fd \in [Processes -> {"staged", "live", "gone", Null}]
  /\ crashes \in 0..MaxCrashes
  /\ failed \in BOOLEAN
  /\ overlapped \in BOOLEAN
  /\ shared \subseteq {"staged", "live"}
  /\ unanswered \in BOOLEAN

\* Once nothing is regenerating, Dovecot runs the rules there are: from the
\* start-up's reconciliation on, crashes included, unless a regeneration failed
\* or an edit was committed while another was regenerating.
RulesInForce ==
  up /\ AtRest /\ ~failed /\ ~overlapped => live \in Scripts(table)

\* The script Dovecot runs is a whole one at every moment, during a regeneration too,
\* whichever step fails and wherever the process dies, unless two regenerations
\* had its file for staging at once, and until one that has it to itself follows.
WholeUnlessShared ==
  "live" \notin shared => live \notin {Partial, Broken}

\* Such a meeting never goes unnoticed: by the time nothing is regenerating, one of
\* those that met, or that met one of them, was answered an error, because each
\* success takes a staging file away and they have too few.
SharingIsAnswered ==
  AtRest => ~unanswered

\* What a staging file is for: once nothing is regenerating, the script Dovecot runs
\* is a whole one.
WholeAtRest ==
  up /\ AtRest => live \notin {Partial, Broken}

\* rule.test.ts:60 "creates a rule and regenerates the Sieve script": when every
\* edit has been answered with success, Dovecot runs the rules there are.
ScriptFollowsRules ==
  up /\ AtRest /\ ~failed => live \in Scripts(table)

\* rule.test.ts:79 "appends each new rule after the last": no two rules share a
\* position.
PositionsDistinct ==
  \A r, s \in Existing : table[r].pos = table[s].pos => r = s
=============================================================================
