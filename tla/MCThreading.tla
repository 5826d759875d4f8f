---------------------------- MODULE MCThreading ----------------------------
(***************************************************************************)
(* An instance of Threading for TLC: a message that replies to one that    *)
(* never arrives, and the owner's answer to it, with a copy to himself.    *)
(***************************************************************************)
EXTENDS Threading, TLC

CONSTANTS Inbox, Sent, m0, m1, m2

MCMessages == {m0, m1, m2}
MCInReplyTo == m0 :> Null @@ m1 :> m0 @@ m2 :> m1
MCConversation == [m \in MCMessages |-> m0]
MCCopies == {<<Inbox, m1>>, <<Sent, m2>>, <<Inbox, m2>>}
MCAnnounced == {c \in MCCopies : c[1] = Inbox}
=============================================================================
