------------------------------ MODULE Filters ------------------------------
(***************************************************************************)
(* What the Sieve script of a mailbox does with a message                  *)
(* (src/rules/sieve.ts), against what its rules say, and what the preview  *)
(* of a rule finds (src/rules/rule.service.ts, rule.repository.ts).        *)
(*                                                                         *)
(* A text is a sequence of characters, up to case.  The Sieve interpreter  *)
(* and ILIKE are external; folders are taken to exist (Folders).           *)
(***************************************************************************)
EXTENDS Integers, SequencesExt

CONSTANTS
  Cases,     \* bound: rule tables, each with a message that arrives under it
  Alphabet,  \* the characters there are
  Inbox, Junk,
  NoFolder   \* the null of target_folder

Backslash == "\\"
Quote == "\""
Text == Seq(Alphabet)

\* ruleSchema's values
ASSUME FiltersAssumption ==
  /\ {Backslash, Quote, "*", "?", "%", "_"} \subseteq Alphabet
  /\ \A case \in Cases :
      /\ case[2] \in [spam : BOOLEAN, from : Text, address : Text, subject : Text, to : Text]
      /\ \A rule \in case[1] :
           /\ rule.position \in Nat
           /\ rule.conditionField \in {"sender", "subject", "recipient"}
           /\ rule.conditionOperator \in {"contains", "equals", "starts_with", "ends_with"}
           /\ rule.conditionValue \in Text
           /\ rule.action \in {"move_to", "mark_read", "forward", "discard"}

VARIABLES
  rules,     \* the rows of folder_rule
  message,   \* its header texts, and whether Rspamd flagged it
  at,        \* the part of the script that runs next
  left,      \* the rules whose blocks have not been reached
  result     \* what the script has done: stored copies, announcements, redirects; and
             \* whether the implicit keep stands, \Seen is set and it has stopped

filterVars == <<rules, message, at, left, result>>

-----------------------------------------------------------------------------
(* What is written: quoted strings without their quotes, and patterns *)

Escape(special) ==
  LET escape[value \in Text] ==
        IF value = <<>> THEN <<>>
        ELSE (IF value[1] \in special THEN <<Backslash, value[1]>> ELSE <<value[1]>>)
               \o escape[Tail(value)]
  IN  escape

quote(value) == Escape({Backslash, Quote})[value]
quoteMatch(value, prefix, suffix) ==
  prefix \o Escape({Backslash, Quote, "*", "?"})[value] \o suffix

\* Mutant: LIKE's wildcards are left in.
patternForRaw(operator, value) ==
  LET literal == value IN
  CASE operator = "equals"      -> literal
    [] operator = "starts_with" -> literal \o <<"%">>
    [] operator = "ends_with"   -> <<"%">> \o literal
    [] OTHER                    -> <<"%">> \o literal \o <<"%">>

patternFor(operator, value) ==
  LET literal == Escape({"%", "_", Backslash})[value] IN
  CASE operator = "equals"      -> literal
    [] operator = "starts_with" -> literal \o <<"%">>
    [] operator = "ends_with"   -> <<"%">> \o literal
    [] OTHER                    -> <<"%">> \o literal \o <<"%">>

-----------------------------------------------------------------------------
(* How it is read *)

\* RFC 5228, 2.4.2: a backslash goes, and the character after it stays.
Unquote[s \in Text] ==
  IF Len(s) < 2 THEN s
  ELSE IF s[1] = Backslash THEN <<s[2]>> \o Unquote[SubSeq(s, 3, Len(s))]
  ELSE <<s[1]>> \o Unquote[Tail(s)]

\* Of Sieve's :matches and of LIKE: many stands for any text, one for any character,
\* and a backslash for the character after it.
Glob(many, one) ==
  LET glob[p \in Text] ==
        [text \in Text |->
           IF p = <<>> THEN text = <<>>
           ELSE IF p[1] = many THEN \E i \in 1..Len(text) + 1 :
                                      glob[Tail(p)][SubSeq(text, i, Len(text))]
           ELSE IF p[1] = Backslash /\ Len(p) > 1
           THEN text # <<>> /\ text[1] = p[2] /\ glob[SubSeq(p, 3, Len(p))][Tail(text)]
           ELSE text # <<>> /\ p[1] \in {text[1], one} /\ glob[Tail(p)][Tail(text)]]
  IN  glob

Occurs(part, text) ==
  \E i \in 0..Len(text) - Len(part) : SubSeq(text, i + 1, i + Len(part)) = part

headerFor == [sender |-> "from", subject |-> "subject", recipient |-> "to"]

\* The test of a rule's block
condition(rule) ==
  LET text == message[headerFor[rule.conditionField]]
      value == rule.conditionValue
  IN CASE rule.conditionOperator = "contains"    -> Occurs(Unquote[quote(value)], text)
       [] rule.conditionOperator = "equals"      -> text = Unquote[quote(value)]
       [] rule.conditionOperator = "starts_with" ->
            Glob("*", "?")[Unquote[quoteMatch(value, <<>>, <<"*">>)]][text]
       [] rule.conditionOperator = "ends_with"   ->
            Glob("*", "?")[Unquote[quoteMatch(value, <<"*">>, <<>>)]][text]

\* The preview's ILIKE on received_message, whose sender is the address of From
ilike(rule) ==
  Glob("%", "_")[patternFor(rule.conditionOperator, rule.conditionValue)]
    [IF rule.conditionField = "sender" THEN message.address ELSE message.subject]

\* What preview answers where the message is all there is; rows have no recipient header.
preview(rule) ==
  IF rule.conditionField = "recipient" THEN [supported |-> FALSE, total |-> 0]
  ELSE [supported |-> TRUE, total |-> IF ilike(rule) THEN 1 ELSE 0]

-----------------------------------------------------------------------------
(* The script *)

\* Each command on what the script has done so far; actions but setflag and pipe
\* :copy cancel the implicit keep.
fileinto(folder, r) == [r EXCEPT !.stored = Append(@, <<folder, r.seen>>), !.keep = FALSE]
notifyCall(folder, r) == [r EXCEPT !.told = Append(@, folder)]
setflag(r) == [r EXCEPT !.seen = TRUE]
redirect(to, r) == [r EXCEPT !.sent = Append(@, to), !.keep = FALSE]
discard(r) == [r EXCEPT !.keep = FALSE]
stop(r) == [r EXCEPT !.stopped = TRUE]

\* Mutant: reading goes on after a move.
bodyWithoutStop(rule, r) ==
  CASE rule.action = "move_to"   -> notifyCall(rule.targetFolder, fileinto(rule.targetFolder, r))
    [] rule.action = "mark_read" -> setflag(r)
    [] rule.action = "forward"   -> stop(redirect(rule.conditionValue, r))
    [] rule.action = "discard"   -> stop(discard(r))

\* Mutant: a discarded message is announced.
bodyTellsDiscard(rule, r) ==
  CASE rule.action = "move_to"   -> stop(notifyCall(rule.targetFolder, fileinto(rule.targetFolder, r)))
    [] rule.action = "mark_read" -> setflag(r)
    [] rule.action = "forward"   -> stop(redirect(rule.conditionValue, r))
    [] rule.action = "discard"   -> stop(notifyCall(Inbox, discard(r)))

body(rule, r) ==
  CASE rule.action = "move_to"   -> stop(notifyCall(rule.targetFolder, fileinto(rule.targetFolder, r)))
    [] rule.action = "mark_read" -> setflag(r)
    [] rule.action = "forward"   -> stop(redirect(rule.conditionValue, r))
    [] rule.action = "discard"   -> stop(discard(r))

\* Mutant: a move to nowhere has a block.
blocksOfAll == {rule \in rules : rule.active}

\* generateSieve: the rules that have a block, after the one for spam
blocks ==
  {rule \in rules : rule.active /\ (rule.action = "move_to" => rule.targetFolder # NoFolder)}

Nothing == [stored |-> <<>>, told |-> <<>>, sent |-> <<>>,
            keep |-> TRUE, seen |-> FALSE, stopped |-> FALSE]

FiltersInit ==
  /\ \E case \in Cases : rules = case[1] /\ message = case[2]
  /\ at = "spam"
  /\ left = blocks
  /\ result = Nothing

SpamBlock ==
  /\ at = "spam"
  /\ at' = "rules"
  /\ result' = IF message.spam THEN stop(notifyCall(Junk, fileinto(Junk, result))) ELSE result
  /\ UNCHANGED <<rules, message, left>>

\* The blocks are in the order of their positions, those of one position in any.
RuleBlock(rule) ==
  /\ at = "rules" /\ ~result.stopped
  /\ rule \in left
  /\ \A other \in left : rule.position <= other.position
  /\ left' = left \ {rule}
  /\ result' = IF condition(rule) THEN body(rule, result) ELSE result
  /\ UNCHANGED <<rules, message, at>>

\* The last line announces INBOX; then, or after a stop, the implicit keep stores
\* the message if nothing cancelled it.
End ==
  /\ at = "rules" /\ (result.stopped \/ left = {})
  /\ at' = "end"
  /\ LET told == IF result.stopped THEN result ELSE notifyCall(Inbox, result)
     IN  result' = IF told.keep THEN fileinto(Inbox, told) ELSE told
  /\ UNCHANGED <<rules, message, left>>

FiltersNext == SpamBlock \/ (\E rule \in left : RuleBlock(rule)) \/ End

FiltersSpec == FiltersInit /\ [][FiltersNext]_filterVars

-----------------------------------------------------------------------------
(* What the rules say *)

Says(rule, text) ==
  CASE rule.conditionOperator = "contains"    -> Occurs(rule.conditionValue, text)
    [] rule.conditionOperator = "equals"      -> text = rule.conditionValue
    [] rule.conditionOperator = "starts_with" -> IsPrefix(rule.conditionValue, text)
    [] rule.conditionOperator = "ends_with"   -> IsSuffix(rule.conditionValue, text)

\* Nothing sees to it (RuleScript's PositionsDistinct).
PositionsDiffer == \A rule, other \in rules : other.position = rule.position => other = rule

Applying == {rule \in rules : /\ rule.active
                              /\ Says(rule, message[headerFor[rule.conditionField]])}
\* The first that decides where the message goes; and the copies there are then
Deciding == {rule \in Applying : /\ rule.action # "mark_read"
                                 /\ rule.action = "move_to" => rule.targetFolder # NoFolder}
First == CHOOSE rule \in Deciding : \A other \in Deciding : rule.position <= other.position
Read == \E rule \in Applying : /\ rule.action = "mark_read"
                               /\ Deciding # {} => rule.position < First.position
Meant ==
  IF message.spam THEN <<<<Junk, FALSE>>>>
  ELSE IF Deciding = {} THEN <<<<Inbox, Read>>>>
  ELSE IF First.action = "move_to" THEN <<<<First.targetFolder, Read>>>>
  ELSE <<>>

-----------------------------------------------------------------------------
(* Properties *)

FoldersOf(S) == {Inbox, Junk} \cup ({rule.targetFolder : rule \in S} \ {NoFolder})

FiltersTypeOK ==
  /\ at \in {"spam", "rules", "end"}
  /\ left \subseteq blocks
  /\ result \in [stored : Seq(FoldersOf(rules) \X BOOLEAN), told : Seq(FoldersOf(rules)),
                 sent : Seq({rule.conditionValue : rule \in rules}),
                 keep : BOOLEAN, seen : BOOLEAN, stopped : BOOLEAN]

\* The script files, forwards or discards a message as the rules say: spam first, then
\* the first rule that applies, by position, and is not about reading; marked read by
\* the rules before it.  Rules of one position say nothing of which is first.
FiledAsMeant ==
  at = "end" /\ PositionsDiffer =>
    /\ result.stored = Meant
    /\ result.sent = IF ~message.spam /\ Deciding # {} /\ First.action = "forward"
                     THEN <<First.conditionValue>> ELSE <<>>

\* Every copy is announced once, with the folder it is in, and nothing else is:
\* mailReceived records a row for each announcement.
AnnouncedWhereStored ==
  at = "end" => result.told = [i \in DOMAIN result.stored |-> result.stored[i][1]]

\* The preview of a rule finds what its script will, if the From header is nothing
\* but an address.
PreviewAgrees ==
  message.from = message.address =>
    \A rule \in rules : preview(rule).supported => (preview(rule).total = 1 <=> condition(rule))

\* sieve.test.ts:134 "escapes wildcards in :matches so a literal asterisk is not a
\* pattern": a block's test holds of a text that has the value where the rule says,
\* character by character.
WildcardsAreLiteral ==
  \A rule \in rules : condition(rule) <=> Says(rule, message[headerFor[rule.conditionField]])
=============================================================================
