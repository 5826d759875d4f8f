----------------------------- MODULE MCFolders -----------------------------
(***************************************************************************)
(* Instances of Folders for TLC: two folders at the top, one name below    *)
(* each of them.  Requests may be permuted.                                *)
(***************************************************************************)
EXTENDS Folders, TLC

CONSTANTS inbox, a, b, c

MCNames == {inbox, a, b, c}
MCInbox == <<inbox>>
MCPaths == {<<inbox>>, <<a>>, <<b>>, <<a, c>>, <<b, c>>}
MCTargets == {<<a>>, <<a, c>>}
Same == {<<n, n>> : n \in MCNames}
\* As they are where LIKE takes one name for another, with room for a rename
Wildcard == Same \cup {<<a, b>>}
WildPaths == MCPaths \cup {<<c>>, <<c, c>>}
Symmetry == Permutations(Requests)
=============================================================================
