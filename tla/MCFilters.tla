----------------------------- MODULE MCFilters -----------------------------
(***************************************************************************)
(* Instances of Filters for TLC: two rules of every kind, in both orders   *)
(* and of one position, that test one letter; and one rule that tests any  *)
(* short text.                                                             *)
(***************************************************************************)
EXTENDS Filters, TLC

CONSTANTS Characters, MaxText

Texts(n) == SeqOf(Characters, n)
Operators == {"contains", "equals", "starts_with", "ends_with"}
Work == "Work"

MCAlphabet == {"a", "b", "*", "?", "%", "_", Quote, Backslash}
LikeCharacters == {"a", "%", "_", Quote}
SieveCharacters == {"a", "b", "*", "?", Backslash}

Rule(position, field, operator, value, action, target, active) ==
  [position |-> position, conditionField |-> field, conditionOperator |-> operator,
   conditionValue |-> value, action |-> action, targetFolder |-> target, active |-> active]
Mail(spam, from, subject) ==
  [spam |-> spam, from |-> from, address |-> from, subject |-> subject, to |-> <<>>]

OneLetter(position) ==
  {Rule(position, "subject", "contains", value, action, target, active) :
     value \in {<<"a">>, <<"b">>}, action \in {"move_to", "mark_read", "forward", "discard"},
     target \in {Work, NoFolder}, active \in BOOLEAN}

TwoRules ==
  {<<{first, second}, Mail(spam, <<>>, subject)>> :
     first \in OneLetter(1), second \in OneLetter(1) \cup OneLetter(2), spam \in BOOLEAN,
     subject \in {<<"a">>, <<"b">>, <<"a", "b">>}}

OneRule ==
  {<<{Rule(1, field, operator, value, "move_to", Work, TRUE)}, Mail(FALSE, text, text)>> :
     field \in {"sender", "subject"}, operator \in Operators,
     value \in Texts(2) \ {<<>>}, text \in Texts(MaxText)}

MCCases == TwoRules \cup OneRule
=============================================================================
