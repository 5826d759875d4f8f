----------------------------- MODULE MCTenancy -----------------------------
(***************************************************************************)
(* Instances of Gateway, and of Tenancy in it, for TLC: two identities, a  *)
(* platform domain and a customer's; requests may be permuted.             *)
(***************************************************************************)
EXTENDS Gateway, TLC

CONSTANTS platform, first

MCSuggestion == [s \in Subs |-> <<platform, first>>]
Symmetry == Permutations(Requests)

\* Bound: while a socket is connected requests come one after the other.
OneByOneUnderSockets ==
  \/ \A k \in Sockets : socket[k] = Disconnected
  \/ Cardinality({r \in Requests : req[r] # Idle}) <= 1
=============================================================================
