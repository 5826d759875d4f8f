---------------------------- MODULE MCRuleScript ----------------------------
(***************************************************************************)
(* Instances of RuleScript for TLC; requests, rules and active bodies may  *)
(* be permuted.                                                            *)
(***************************************************************************)
EXTENDS RuleScript, TLC

Symmetry == Permutations(Requests) \cup Permutations(Rules) \cup Permutations(Active)
=============================================================================
