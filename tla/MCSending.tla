----------------------------- MODULE MCSending -----------------------------
(***************************************************************************)
(* An instance of Sending for TLC.  All files have one size.               *)
(***************************************************************************)
EXTENDS Sending

MCSizes == [f \in Files |-> 1]
=============================================================================
