--------------------------- MODULE MCMailboxAuth ---------------------------
(***************************************************************************)
(* Instances of MailboxAuth for TLC.  Requests are interchangeable, and so *)
(* are tokens: every property checked here is a safety property.           *)
(***************************************************************************)
EXTENDS MailboxAuth, TLC

Symmetry == Permutations(Requests) \cup Permutations(Tokens)
=============================================================================
