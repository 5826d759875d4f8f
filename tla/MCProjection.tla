---------------------------- MODULE MCProjection ----------------------------
(***************************************************************************)
(* Instances of Projection for TLC: requests, row ids and messages that    *)
(* Sieve files in one folder may be permuted.                              *)
(***************************************************************************)
EXTENDS Projection, TLC

CONSTANTS Inbox, Trash

FiledInInbox == [m \in Messages |-> Inbox]
Symmetry == Permutations(Requests) \cup Permutations(Ids) \cup Permutations(Messages)
=============================================================================
