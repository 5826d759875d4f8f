--------------------------- MODULE FoldersProofs ---------------------------
(***************************************************************************)
(* Folders, for any names, paths, messages and requests: the types; that a *)
(* rule's folder outlives the deletions; and, where LIKE takes a name for  *)
(* itself only, that the rows follow the folders.                          *)
(***************************************************************************)
EXTENDS Folders, SequenceTheorems, TLAPS

Changing == {"renameFolder", "renameSubtree", "deleteFolder", "deleteSubtree"}
Steps == {"idle", "createFolder", "ruleTargets", "sync"} \cup Changing

RequestType ==
  [at : Steps, path : Paths \cup {Null}, to : Paths \cup {Null}, listing : SUBSET Messages]

\* A request that is under way has a path, which is not INBOX where it is to be changed,
\* and there are paths for all that a rename takes along.
Shaped(x) ==
  /\ x.at # "idle" => x.path \in Paths
  /\ x.at \in Changing \cup {"ruleTargets"} => x.path # Inbox
  /\ x.at \in {"renameFolder", "renameSubtree"} =>
       \A p \in AtOrBelow(x.path) \cup subtree(x.path) : Moved(p, x.path, x.to) \in Paths

\* What overlaps a change, and a rule pointed at a folder after the rules were asked,
\* is on record.
Watched == Overlap(req, notices) => suspect = Paths
Awaited == \A r \in Requests : req[r].at = "deleteFolder" /\ target = req[r].path => suspect = Paths

IInv ==
  /\ TypeOK
  /\ req \in [Requests -> RequestType]
  /\ \A r \in Requests : Shaped(req[r])
  /\ Watched
  /\ Awaited

\* An announcement and a listing under way are still true of the mail.
Announced == \A notice \in notices : notice[1] \in suspect \/ mail[notice[2]] = notice[1]
ListingTrue ==
  \A r \in Requests : req[r].at = "sync" =>
    req[r].path \in suspect \/ \A m \in req[r].listing : mail[m] = req[r].path

\* A row is in the folder its message is in, or will be once the change that is between
\* its two steps has taken the second one.
NewPath(x, p) == IF p \in AtOrBelow(x.path) THEN Moved(p, x.path, x.to) ELSE p
Follows(row) ==
  /\ \A r \in Requests : req[r].at = "renameSubtree" => mail[row[2]] = NewPath(req[r], row[1])
  /\ (\A r \in Requests : req[r].at # "renameSubtree") =>
       \/ mail[row[2]] = row[1]
       \/ \E r \in Requests : req[r].at = "deleteSubtree" /\ req[r].path = row[1]
FollowInv ==
  /\ Announced
  /\ ListingTrue
  /\ \A row \in rows : row[1] \in suspect \/ Follows(row)

\* No folder's name has a wildcard of LIKE in it.
NoWildcards == \A pair \in Like : pair[1] = pair[2]

-----------------------------------------------------------------------------
(* Paths *)

\* INBOX is below no other folder.
LEMMA InboxBelowNone ==
  ASSUME NEW path \in Paths, Inbox \in AtOrBelow(path)
  PROVE  path = Inbox
<1>1. path \in Seq(Names) /\ path # <<>> /\ Inbox \in Seq(Names) /\ Len(Inbox) = 1
  BY FoldersAssumption
<1>2. Len(path) <= Len(Inbox) /\ SubSeq(path, 1, Len(path)) = SubSeq(Inbox, 1, Len(path))
  BY DEF AtOrBelow, IsPrefix
<1>3. Len(path) # 0 /\ Len(path) \in Nat
  BY <1>1, EmptySeq, LenProperties
<1>4. Len(path) = Len(Inbox)
  BY <1>1, <1>2, <1>3
<1>5. SubSeq(path, 1, Len(path)) = path /\ SubSeq(Inbox, 1, Len(Inbox)) = Inbox
  BY <1>1, SubSeqFull
<1> QED BY <1>2, <1>4, <1>5

LEMMA InboxIsSystem == isSystem(Inbox)
<1>1. Inbox \in Seq(Names) /\ Len(Inbox) = 1
  BY FoldersAssumption
<1>2. Inbox[1] \in Names
  BY <1>1, ElementOfSeq
<1> QED BY <1>1, <1>2, FoldersAssumption DEF isSystem

\* A folder that is renamed becomes the new path, ...
LEMMA MovedItself ==
  ASSUME NEW path \in Seq(Names), NEW to \in Seq(Names)
  PROVE  Moved(path, path, to) = to
<1>1. Len(path) \in Nat
  BY LenProperties
<1>2. SubSeq(path, Len(path) + 1, Len(path)) = <<>>
  BY <1>1, SubSeqEmpty
<1> QED BY <1>2, ConcatEmptySeq DEF Moved

\* ... which is one.
LEMMA RenamedPath ==
  ASSUME NEW path \in Paths, NEW name \in Names
  PROVE  Parent(path) \o <<name>> \in Seq(Names)
<1>1. path \in Seq(Names) /\ Len(path) \in Nat /\ path \in [1..Len(path) -> Names]
  BY FoldersAssumption, LenProperties
<1>2. \A i \in 1..(Len(path) - 1) : path[i] \in Names
  BY <1>1
<1>3. Parent(path) \in Seq(Names)
  BY <1>1, <1>2, SubSeqProperties DEF Parent, Front
<1>4. <<name>> \in Seq(Names)
  OBVIOUS
<1> QED BY <1>3, <1>4, ConcatProperties

\* Without wildcards the rows taken along are those of the folders taken along.
LEMMA SubtreeExact ==
  ASSUME NoWildcards, NEW path \in Paths
  PROVE  subtree(path) = AtOrBelow(path)
<1>1. path \in Seq(Names) /\ path # <<>> /\ Len(path) \in Nat /\ Len(path) # 0
      /\ path \in [1..Len(path) -> Names] /\ DOMAIN path = 1..Len(path)
  BY FoldersAssumption, LenProperties, EmptySeq
<1>2. ASSUME NEW p \in Paths PROVE p \in subtree(path) <=> p \in AtOrBelow(path)
  <2>1. p \in Seq(Names) /\ Len(p) \in Nat /\ p \in [1..Len(p) -> Names]
    BY FoldersAssumption, LenProperties
  <2>2. SubSeq(path, 1, Len(path)) = path
    BY <1>1, SubSeqFull
  <2>3. ASSUME Len(path) <= Len(p)
        PROVE  /\ SubSeq(p, 1, Len(path)) \in Seq(Names)
               /\ Len(SubSeq(p, 1, Len(path))) = Len(path)
               /\ \A i \in 1..Len(path) : SubSeq(p, 1, Len(path))[i] = p[i]
    <3>1. \A i \in 1..Len(path) : p[i] \in Names
      BY <1>1, <2>1, <2>3
    <3>2. /\ SubSeq(p, 1, Len(path)) \in Seq(Names)
          /\ Len(SubSeq(p, 1, Len(path))) = IF 1 <= Len(path) THEN Len(path) - 1 + 1 ELSE 0
          /\ \A i \in 1..(Len(path) - 1 + 1) : SubSeq(p, 1, Len(path))[i] = p[1 + i - 1]
      BY <1>1, <3>1, SubSeqProperties
    <3>3. \A i \in 1..Len(path) : SubSeq(p, 1, Len(path))[i] = p[i]
      BY <1>1, <3>2
    <3> QED BY <1>1, <3>2, <3>3
  <2>4. ASSUME Len(path) <= Len(p)
        PROVE  IsPrefix(path, p) <=> \A i \in 1..Len(path) : path[i] = p[i]
    <3>1. SubSeq(p, 1, Len(path)) = path <=> \A i \in 1..Len(path) : path[i] = SubSeq(p, 1, Len(path))[i]
      BY <1>1, <2>3, <2>4, SeqEqual
    <3> QED BY <2>2, <2>3, <2>4, <3>1 DEF IsPrefix
  <2>5. \A i \in DOMAIN path : <<path[i], p[i]>> \in Like => path[i] = p[i]
    BY DEF NoWildcards
  <2>6. \A i \in DOMAIN path : path[i] = p[i] => <<path[i], p[i]>> \in Like
    BY <1>1, FoldersAssumption
  <2>7. Len(p) = Len(path) /\ (\A i \in 1..Len(path) : path[i] = p[i]) => p = path
    BY <1>1, <2>1, SeqEqual
  <2>8. p \in AtOrBelow(path) <=> Len(path) <= Len(p) /\ \A i \in 1..Len(path) : path[i] = p[i]
    BY <2>4 DEF AtOrBelow, IsPrefix
  <2>9. ASSUME p \in subtree(path) PROVE p \in AtOrBelow(path)
    <3>1. CASE p = path
      BY <1>1, <2>8, <3>1
    <3>2. CASE Len(p) > Len(path) /\ \A i \in DOMAIN path : <<path[i], p[i]>> \in Like
      <4>1. \A i \in 1..Len(path) : path[i] = p[i]
        BY <1>1, <2>5, <3>2
      <4>2. Len(path) <= Len(p)
        BY <1>1, <2>1, <3>2
      <4> QED BY <2>8, <4>1, <4>2
    <3> QED BY <2>9, <3>1, <3>2 DEF subtree
  <2>10. ASSUME p \in AtOrBelow(path) PROVE p \in subtree(path)
    <3>1. CASE Len(p) = Len(path)
      BY <2>7, <2>8, <2>10, <3>1 DEF subtree
    <3>2. CASE Len(p) > Len(path)
      <4>1. \A i \in 1..Len(path) : path[i] = p[i]
        BY <2>8, <2>10
      <4>2. \A i \in DOMAIN path : <<path[i], p[i]>> \in Like
        BY <1>1, <2>6, <4>1
      <4> QED BY <3>2, <4>2 DEF subtree
    <3>3. Len(path) <= Len(p)
      BY <2>8, <2>10
    <3>4. Len(p) \in Nat /\ Len(path) \in Nat
      BY <1>1, <2>1
    <3>5. Len(p) = Len(path) \/ Len(p) > Len(path)
      BY ONLY <3>3, <3>4
    <3> QED BY <3>1, <3>2, <3>5
  <2> QED BY <2>9, <2>10
<1> QED BY <1>2 DEF subtree, AtOrBelow

-----------------------------------------------------------------------------
(* What is on record of overlaps *)

LEMMA Watching ==
  ASSUME NEW seen \in BOOLEAN, NEW S \in SUBSET Paths, Watch(seen, S)
  PROVE  /\ suspect' \subseteq Paths
         /\ Watched'
         /\ seen => suspect' = Paths
         /\ S \cap {row[1] : row \in rows'} \subseteq suspect'
         /\ ~Quiet(req', notices') => S \subseteq suspect'
  BY DEF Watch, Watched, Overlap, Quiet

\* A deletion in front of its second step is still a warning for the rule.
LEMMA AwaitedKept ==
  ASSUME IInv, NEW seen \in BOOLEAN, NEW S \in SUBSET Paths, Watch(seen, S),
         target' = target,
         ~Quiet(req', notices') => suspect \subseteq S,
         \A q \in Requests : req'[q].at = "deleteFolder" =>
           req'[q] = req[q] \/ target # req'[q].path
  PROVE  Awaited'
<1> SUFFICES ASSUME NEW q \in Requests, req'[q].at = "deleteFolder", target' = req'[q].path
             PROVE  suspect' = Paths
  BY DEF Awaited
<1>1. suspect = Paths
  BY DEF IInv, Awaited
<1>2. ~Quiet(req', notices')
  BY DEF Quiet
<1> QED BY <1>1, <1>2, Watching

-----------------------------------------------------------------------------
(* Types, and what is on record *)

LEMMA IdleTyped == Idle \in RequestType /\ Shaped(Idle) /\ Idle.at = "idle"
  BY DEF Idle, RequestType, Steps, Shaped, Changing

LEMMA InitIInv == Init => IInv
<1> SUFFICES ASSUME Init PROVE IInv
  OBVIOUS
<1>1. \A r \in Requests : req[r] = Idle
  BY DEF Init
<1>2. TypeOK
  BY FoldersAssumption, <1>1 DEF Init, TypeOK, Idle
<1>3. Watched /\ Awaited
  BY <1>1, IdleTyped DEF Watched, Awaited, Overlap, Changing
<1> QED BY <1>1, <1>2, <1>3, IdleTyped DEF IInv, Init

\* What a step asks of the types when it leaves the rule alone.
TypedNext ==
  /\ Inbox \in folders' /\ folders' \subseteq Paths
  /\ mail' \in [Messages -> Paths \cup {Null}]
  /\ rows' \subseteq Paths \X Messages
  /\ notices' \subseteq Paths \X Messages

LEMMA StepKeepsIInv ==
  ASSUME IInv, target' = target, TypedNext,
         req' \in [Requests -> RequestType],
         \A q \in Requests :
           \/ req'[q] = req[q]
           \/ Shaped(req'[q]) /\ (req'[q].at = "deleteFolder" => target # req'[q].path),
         NEW seen \in BOOLEAN, NEW S \in SUBSET Paths, Watch(seen, S),
         ~Quiet(req', notices') => suspect \subseteq S
  PROVE  IInv'
<1>1. \A q \in Requests : Shaped(req'[q])
  BY DEF IInv
<1>2. suspect' \subseteq Paths /\ Watched'
  BY Watching
<1>3. TypeOK'
  BY <1>2 DEF IInv, TypeOK, TypedNext, RequestType
<1>4. Awaited'
  BY AwaitedKept
<1>5. \A q \in Requests : Shaped(req[q])'
  BY <1>1 DEF Shaped, AtOrBelow, subtree, Moved
<1> QED BY <1>2, <1>3, <1>4, <1>5 DEF IInv

\* A request's own step.
LEMMA RequestStep ==
  ASSUME IInv, target' = target, TypedNext,
         NEW r \in Requests, NEW x \in RequestType, req' = [req EXCEPT ![r] = x],
         Shaped(x), x.at = "deleteFolder" => target # x.path,
         NEW seen \in BOOLEAN, NEW S \in SUBSET Paths, Watch(seen, S),
         ~Quiet(req', notices') => suspect \subseteq S
  PROVE  IInv'
<1>1. /\ req' \in [Requests -> RequestType]
      /\ \A q \in Requests : req'[q] = req[q] \/ req'[q] = x
  BY DEF IInv
<1> QED BY <1>1, StepKeepsIInv

\* What holds of a request in front of its step
LEMMA RequestKnown ==
  ASSUME IInv, NEW r \in Requests
  PROVE  /\ req[r] \in RequestType /\ Shaped(req[r])
         /\ suspect \in SUBSET Paths
         /\ \A step \in Steps :
              /\ [req[r] EXCEPT !.at = step] \in RequestType
              /\ [req EXCEPT ![r].at = step] = [req EXCEPT ![r] = [req[r] EXCEPT !.at = step]]
         /\ UNCHANGED <<folders, mail, rows, notices>> => TypedNext
  BY DEF IInv, TypeOK, TypedNext, RequestType

\* A step of a request that changes nothing but itself.
LEMMA LocalStep ==
  ASSUME IInv, UNCHANGED <<folders, mail, rows, target, notices>>,
         NEW r \in Requests, NEW x \in RequestType, req' = [req EXCEPT ![r] = x],
         Shaped(x), x.at = "deleteFolder" => target # x.path,
         NEW seen \in BOOLEAN, Watch(seen, suspect)
  PROVE  IInv'
<1>1. TypedNext /\ target' = target /\ suspect \in SUBSET Paths
  BY RequestKnown
<1> QED BY <1>1, RequestStep

LEMMA FailStep == ASSUME IInv, NEW r \in Requests, Fail(r) PROVE IInv'
<1>1. /\ req' = [req EXCEPT ![r] = Idle] /\ UNCHANGED <<folders, mail, rows, target, notices>>
      /\ Watch(req[r].at \in {"renameSubtree", "deleteSubtree"}, suspect)
  BY DEF Fail, Finish
<1>2. PICK seen \in BOOLEAN : Watch(seen, suspect)
  BY <1>1 DEF Watch
<1> QED BY <1>1, <1>2, IdleTyped, LocalStep

LEMMA CreateStep == ASSUME IInv, NEW r \in Requests, NEW path \in Paths, create(r, path) PROVE IInv'
<1> DEFINE x == [Idle EXCEPT !.at = "createFolder", !.path = path]
<1>1. /\ req' = [req EXCEPT ![r] = x] /\ UNCHANGED <<folders, mail, rows, target, notices>>
      /\ Watch(FALSE, suspect)
  BY DEF create, Observe
<1>2. x \in RequestType /\ Shaped(x) /\ x.at # "deleteFolder"
  BY DEF Idle, RequestType, Steps, Shaped, Changing
<1> HIDE DEF x
<1> QED BY <1>1, <1>2, LocalStep

LEMMA CreateFolderStep == ASSUME IInv, NEW r \in Requests, createFolder(r) PROVE IInv'
<1>1. /\ req' = [req EXCEPT ![r] = Idle] /\ target' = target
      /\ UNCHANGED <<mail, rows, notices>> /\ Watch(FALSE, suspect)
      /\ folders' = folders \cup {req[r].path} /\ req[r].at = "createFolder"
  BY DEF createFolder, Finish, Observe
<1>2. req[r].path \in Paths
  BY <1>1, RequestKnown DEF Shaped
<1>3. TypedNext
  BY <1>1, <1>2 DEF IInv, TypeOK, TypedNext
<1> QED BY <1>1, <1>3, IdleTyped, RequestKnown, RequestStep

LEMMA RenameStep ==
  ASSUME IInv, NEW r \in Requests, NEW path \in Paths, NEW name \in Names, rename(r, path, name)
  PROVE  IInv'
<1> DEFINE to == Parent(path) \o <<name>>
           x == [Idle EXCEPT !.at = "renameFolder", !.path = path, !.to = to]
<1>1. /\ req' = [req EXCEPT ![r] = x] /\ UNCHANGED <<folders, mail, rows, target, notices>>
      /\ Watch(FALSE, suspect)
      /\ \A p \in AtOrBelow(path) \cup subtree(path) : Moved(p, path, to) \in Paths
      /\ ~isSystem(path)
  BY DEF rename, require, Observe
<1>2. path # Inbox
  BY <1>1, InboxIsSystem
<1>3. to \in Seq(Names)
  BY RenamedPath
<1> HIDE DEF to
<1>4. to \in Paths
  <2>1. Moved(path, path, to) = to
    BY <1>3, MovedItself, FoldersAssumption
  <2>2. path \in subtree(path)
    BY DEF subtree
  <2> QED BY <1>1, <2>1, <2>2
<1>5. x \in RequestType /\ Shaped(x) /\ x.at # "deleteFolder"
  BY <1>1, <1>2, <1>4 DEF Idle, RequestType, Steps, Shaped, Changing
<1> HIDE DEF x
<1> QED BY <1>1, <1>5, LocalStep

LEMMA RenameFolderStep == ASSUME IInv, NEW r \in Requests, renameFolder(r) PROVE IInv'
<1> DEFINE path == req[r].path
           x == [req[r] EXCEPT !.at = "renameSubtree"]
           moves(p) == IF p \in AtOrBelow(path) THEN Moved(p, path, req[r].to) ELSE p
<1>1. /\ req[r].at = "renameFolder"
      /\ folders' = {moves(p) : p \in folders}
      /\ mail' = [m \in Messages |-> IF mail[m] = Null THEN Null ELSE moves(mail[m])]
      /\ req' = [req EXCEPT ![r].at = "renameSubtree"]
      /\ UNCHANGED <<rows, target, notices>> /\ Watch(FALSE, suspect)
  BY DEF renameFolder, Goto, Observe
<1>2. path \in Paths /\ path # Inbox /\ \A p \in AtOrBelow(path) : Moved(p, path, req[r].to) \in Paths
  BY <1>1, RequestKnown DEF Shaped, Changing
<1>3. \A p \in Paths : moves(p) \in Paths
  BY <1>2
<1>4. moves(Inbox) = Inbox
  BY <1>2, InboxBelowNone
<1> HIDE DEF path, moves
<1>5. TypedNext
  BY <1>1, <1>3, <1>4 DEF IInv, TypeOK, TypedNext
<1>6. req' = [req EXCEPT ![r] = x] /\ x \in RequestType
  BY <1>1, RequestKnown DEF Steps, Changing
<1>7. Shaped(x) /\ x.at # "deleteFolder"
  BY <1>1, RequestKnown DEF Shaped, RequestType, Changing
<1> HIDE DEF x
<1> QED BY <1>1, <1>5, <1>6, <1>7, RequestKnown, RequestStep

LEMMA RenameSubtreeStep == ASSUME IInv, NEW r \in Requests, renameSubtree(r) PROVE IInv'
<1> DEFINE path == req[r].path
           moves(p) == IF p \in subtree(path) THEN Moved(p, path, req[r].to) ELSE p
           S == suspect \cup {moves(p) : p \in suspect}
<1>1. /\ req[r].at = "renameSubtree"
      /\ rows' = {<<moves(row[1]), row[2]>> : row \in rows}
      /\ req' = [req EXCEPT ![r] = Idle]
      /\ UNCHANGED <<folders, mail, target, notices>> /\ Watch(FALSE, S)
  BY DEF renameSubtree, Finish
<1>2. \A p \in subtree(path) : Moved(p, path, req[r].to) \in Paths
  BY <1>1, RequestKnown DEF Shaped
<1>3. \A p \in Paths : moves(p) \in Paths
  BY <1>2
<1> HIDE DEF path, moves
<1>4. S \in SUBSET Paths /\ suspect \subseteq S
  BY <1>3, RequestKnown
<1>5. TypedNext
  <2>1. rows' \subseteq Paths \X Messages
    BY <1>1, <1>3 DEF IInv, TypeOK
  <2> QED BY <1>1, <2>1 DEF IInv, TypeOK, TypedNext
<1> HIDE DEF S
<1> QED BY <1>1, <1>4, <1>5, IdleTyped, RequestStep

LEMMA DeleteStep == ASSUME IInv, NEW r \in Requests, NEW path \in Paths, delete(r, path) PROVE IInv'
<1> DEFINE x == [Idle EXCEPT !.at = "ruleTargets", !.path = path]
<1>1. /\ req' = [req EXCEPT ![r] = x] /\ UNCHANGED <<folders, mail, rows, target, notices>>
      /\ Watch(FALSE, suspect) /\ ~isSystem(path)
  BY DEF delete, require, Observe
<1>2. x \in RequestType /\ Shaped(x) /\ x.at # "deleteFolder"
  BY <1>1, InboxIsSystem DEF Idle, RequestType, Steps, Shaped, Changing
<1> HIDE DEF x
<1> QED BY <1>1, <1>2, LocalStep

LEMMA RuleTargetsStep == ASSUME IInv, NEW r \in Requests, ruleTargets(r) PROVE IInv'
<1> DEFINE x == [req[r] EXCEPT !.at = "deleteFolder"]
<1>1. /\ req[r].at = "ruleTargets" /\ target # req[r].path
      /\ req' = [req EXCEPT ![r].at = "deleteFolder"]
      /\ UNCHANGED <<folders, mail, rows, target, notices>> /\ Watch(FALSE, suspect)
  BY DEF ruleTargets, Goto, Observe
<1>2. req' = [req EXCEPT ![r] = x] /\ x \in RequestType
  BY <1>1, RequestKnown DEF Steps, Changing
<1>3. Shaped(x) /\ target # x.path
  BY <1>1, RequestKnown DEF Shaped, RequestType, Changing
<1> HIDE DEF x
<1> QED BY <1>1, <1>2, <1>3, LocalStep

LEMMA DeleteFolderStep == ASSUME IInv, NEW r \in Requests, deleteFolder(r) PROVE IInv'
<1> DEFINE x == [req[r] EXCEPT !.at = "deleteSubtree"]
<1>1. /\ req[r].at = "deleteFolder"
      /\ folders' = folders \ {req[r].path}
      /\ mail' = [m \in Messages |-> IF mail[m] = req[r].path THEN Null ELSE mail[m]]
      /\ req' = [req EXCEPT ![r].at = "deleteSubtree"]
      /\ UNCHANGED <<rows, target, notices>> /\ Watch(FALSE, suspect)
  BY DEF deleteFolder, Goto, Observe
<1>2. req[r].path # Inbox
  BY <1>1, RequestKnown DEF Shaped, Changing
<1>3. TypedNext
  BY <1>1, <1>2 DEF IInv, TypeOK, TypedNext
<1>4. req' = [req EXCEPT ![r] = x] /\ x \in RequestType
  BY <1>1, RequestKnown DEF Steps, Changing
<1>5. Shaped(x) /\ x.at # "deleteFolder"
  BY <1>1, RequestKnown DEF Shaped, RequestType, Changing
<1> HIDE DEF x
<1> QED BY <1>1, <1>3, <1>4, <1>5, RequestKnown, RequestStep

LEMMA DeleteSubtreeStep == ASSUME IInv, NEW r \in Requests, deleteSubtree(r) PROVE IInv'
<1>1. /\ rows' = {row \in rows : row[1] \notin subtree(req[r].path)}
      /\ req' = [req EXCEPT ![r] = Idle]
      /\ UNCHANGED <<folders, mail, target, notices>> /\ Watch(FALSE, suspect)
  BY DEF deleteSubtree, Finish, Observe
<1>2. TypedNext
  BY <1>1 DEF IInv, TypeOK, TypedNext
<1> QED BY <1>1, <1>2, IdleTyped, RequestKnown, RequestStep

LEMMA PointRuleStep == ASSUME IInv, NEW path \in Targets, PointRule(path) PROVE IInv'
<1> DEFINE seen == \E r \in Requests : req[r].at = "deleteFolder"
<1>1. /\ target' = path /\ UNCHANGED <<folders, mail, rows, notices, req>> /\ Watch(seen, suspect)
  BY DEF PointRule
<1>2. /\ suspect' \subseteq Paths /\ Watched' /\ (seen => suspect' = Paths)
  BY <1>1, Watching, RequestKnown DEF IInv, TypeOK
<1>3. TypeOK'
  BY <1>1, <1>2, FoldersAssumption DEF IInv, TypeOK
<1>4. \A q \in Requests : Shaped(req[q])'
  BY <1>1 DEF IInv, Shaped, AtOrBelow, subtree, Moved
<1> QED BY <1>1, <1>2, <1>3, <1>4 DEF IInv, Awaited

LEMMA DeliverStep ==
  ASSUME IInv, NEW m \in Messages, NEW matches \in BOOLEAN, Deliver(m, matches)
  PROVE  IInv'
<1>1. PICK filed \in folders :
        /\ mail' = [mail EXCEPT ![m] = filed]
        /\ notices' \subseteq notices \cup {<<filed, m>>}
        /\ UNCHANGED <<folders, rows, target, req>> /\ Watch(FALSE, suspect)
  BY DEF IInv, TypeOK, Deliver, Observe
<1>2. TypedNext
  BY <1>1 DEF IInv, TypeOK, TypedNext
<1>3. suspect \in SUBSET Paths /\ req' \in [Requests -> RequestType] /\ target' = target
  BY <1>1 DEF IInv, TypeOK
<1> QED BY <1>1, <1>2, <1>3, StepKeepsIInv

LEMMA MailReceivedStep == ASSUME IInv, NEW notice \in notices, mailReceived(notice) PROVE IInv'
<1>1. /\ notices' = notices \ {notice} /\ rows' = rows \cup {notice}
      /\ UNCHANGED <<folders, mail, target, req>> /\ Watch(FALSE, suspect)
  BY DEF mailReceived, Observe
<1>2. TypedNext
  BY <1>1 DEF IInv, TypeOK, TypedNext
<1>3. suspect \in SUBSET Paths /\ req' \in [Requests -> RequestType] /\ target' = target
  BY <1>1 DEF IInv, TypeOK
<1> QED BY <1>1, <1>2, <1>3, StepKeepsIInv

LEMMA ListStep == ASSUME IInv, NEW r \in Requests, NEW path \in Paths, listMessages(r, path) PROVE IInv'
<1> DEFINE x == [Idle EXCEPT !.at = "sync", !.path = path, !.listing = {m \in Messages : mail[m] = path}]
<1>1. /\ req' = [req EXCEPT ![r] = x] /\ UNCHANGED <<folders, mail, rows, target, notices>>
      /\ Watch(FALSE, suspect)
  BY DEF listMessages, Observe
<1>2. x \in RequestType /\ Shaped(x) /\ x.at # "deleteFolder"
  BY DEF Idle, RequestType, Steps, Shaped, Changing
<1> HIDE DEF x
<1> QED BY <1>1, <1>2, LocalStep

LEMMA SyncStep == ASSUME IInv, NEW r \in Requests, sync(r) PROVE IInv'
<1> DEFINE S == IF Quiet(req', notices) /\ req[r].listing = {m \in Messages : mail[m] = req[r].path}
                THEN suspect \ {req[r].path} ELSE suspect
<1>1. /\ req[r].at = "sync"
      /\ rows' = {row \in rows : row[1] # req[r].path} \cup ({req[r].path} \X req[r].listing)
      /\ req' = [req EXCEPT ![r] = Idle]
      /\ UNCHANGED <<folders, mail, target, notices>> /\ Watch(FALSE, S)
  BY DEF sync, Finish
<1>2. req[r].path \in Paths /\ req[r].listing \subseteq Messages
  BY <1>1, RequestKnown DEF Shaped, RequestType
<1>3. TypedNext
  <2>1. rows' \subseteq Paths \X Messages
    BY <1>1, <1>2 DEF IInv, TypeOK
  <2> QED BY <1>1, <2>1 DEF IInv, TypeOK, TypedNext
<1>4. S \in SUBSET Paths /\ (~Quiet(req', notices') => suspect \subseteq S)
  BY <1>1, RequestKnown
<1> HIDE DEF S
<1> QED BY <1>1, <1>3, <1>4, IdleTyped, RequestStep

LEMMA StutterStep == ASSUME IInv, UNCHANGED vars PROVE IInv'
<1>1. \A q \in Requests : Shaped(req[q])'
  BY DEF IInv, vars, Shaped, AtOrBelow, subtree, Moved
<1>2. TypeOK' /\ Watched' /\ Awaited'
  BY DEF IInv, vars, TypeOK, Watched, Awaited, Overlap
<1> QED BY <1>1, <1>2 DEF IInv, vars

LEMMA NextIInv == ASSUME IInv, [Next]_vars PROVE IInv'
<1>1. ASSUME NEW path \in Targets, PointRule(path) PROVE IInv'
  BY <1>1, PointRuleStep
<1>2. ASSUME NEW m \in Messages, NEW matches \in BOOLEAN, Deliver(m, matches) PROVE IInv'
  BY <1>2, DeliverStep
<1>3. ASSUME NEW notice \in notices, mailReceived(notice) PROVE IInv'
  BY <1>3, MailReceivedStep
<1>4. ASSUME NEW r \in Requests, NEW path \in Paths,
             create(r, path) \/ delete(r, path) \/ listMessages(r, path)
      PROVE  IInv'
  BY <1>4, CreateStep, DeleteStep, ListStep
<1>5. ASSUME NEW r \in Requests, NEW path \in Paths, NEW name \in Names, rename(r, path, name)
      PROVE  IInv'
  BY <1>5, RenameStep
<1>6. ASSUME NEW r \in Requests,
             \/ createFolder(r) \/ renameFolder(r) \/ renameSubtree(r)
             \/ ruleTargets(r) \/ deleteFolder(r) \/ deleteSubtree(r)
             \/ sync(r) \/ Fail(r)
      PROVE  IInv'
  BY <1>6, CreateFolderStep, RenameFolderStep, RenameSubtreeStep, RuleTargetsStep,
     DeleteFolderStep, DeleteSubtreeStep, SyncStep, FailStep
<1>7. CASE UNCHANGED vars
  BY <1>7, StutterStep
<1> QED BY <1>1, <1>2, <1>3, <1>4, <1>5, <1>6, <1>7 DEF Next

\* Requests carry paths and listings of the mailbox, its folders are paths and INBOX is
\* one of them whatever is renamed or deleted, and so on for each variable.
THEOREM TypesHold == Spec => []TypeOK
<1>1. IInv => TypeOK
  BY DEF IInv
<1> QED BY <1>1, InitIInv, NextIInv, PTL DEF Spec

-----------------------------------------------------------------------------
(* The folder of a rule *)

LEMMA TargetStep ==
  ASSUME IInv, [Next]_vars
  PROVE  [(target \in folders /\ target \notin folders')
            => (suspect' = Paths \/ \E r \in Requests : req[r].at = "renameFolder")]_vars
<1> SUFFICES ASSUME Next, target \in folders, target \notin folders'
             PROVE  suspect' = Paths \/ \E r \in Requests : req[r].at = "renameFolder"
  OBVIOUS
<1>1. PICK r \in Requests : renameFolder(r) \/ deleteFolder(r)
  BY DEF Next, PointRule, Deliver, mailReceived, create, delete, listMessages, rename,
         createFolder, renameSubtree, ruleTargets, deleteSubtree, sync, Fail
<1>2. CASE renameFolder(r)
  BY <1>2 DEF renameFolder
<1>3. CASE deleteFolder(r)
  <2>1. /\ req[r].at = "deleteFolder" /\ target = req[r].path
        /\ req' = [req EXCEPT ![r].at = "deleteSubtree"] /\ Watch(FALSE, suspect)
    BY <1>3 DEF deleteFolder, Goto, Observe
  <2>2. suspect = Paths
    BY <2>1 DEF IInv, Awaited
  <2>3. req'[r].at = "deleteSubtree"
    BY <2>1 DEF IInv, RequestType
  <2>4. ~Quiet(req', notices')
    BY <2>3 DEF Quiet
  <2> QED BY <2>1, <2>2, <2>4, Watching
<1> QED BY <1>1, <1>2, <1>3

\* Deleting a folder that a rule files into is refused: where nothing overlaps it, what
\* ruleTargets found is still so when deleteFolder acts, and a folder goes alone.
THEOREM TargetSurvives == Spec => TargetOutlivesDeletion
<1> QED BY InitIInv, NextIInv, TargetStep, PTL DEF Spec, TargetOutlivesDeletion

-----------------------------------------------------------------------------
(* The rows *)

LEMMA InitFollowInv == Init => FollowInv
  BY IdleTyped DEF Init, FollowInv, Announced, ListingTrue

\* When any path may be left wrong there is nothing to show, ...
LEMMA AllSuspect ==
  ASSUME IInv', NEW seen \in BOOLEAN, Watch(seen, Paths)
  PROVE  FollowInv'
<1>1. Paths \in SUBSET Paths
  OBVIOUS
<1>2. \A row \in rows' : row[1] \in suspect'
  BY <1>1, Watching DEF IInv, TypeOK
<1>3. ~Quiet(req', notices') => suspect' = Paths
  BY <1>1, Watching
<1>4. Announced'
  BY <1>3 DEF Announced, Quiet, IInv, TypeOK
<1>5. ListingTrue'
  <2> SUFFICES ASSUME NEW q \in Requests, req'[q].at = "sync" PROVE req'[q].path \in suspect'
    BY DEF ListingTrue
  <2>1. req'[q].path \in Paths
    BY DEF IInv, Shaped
  <2> QED BY <1>3, <2>1 DEF Quiet
<1> QED BY <1>2, <1>4, <1>5 DEF FollowInv

\* ... and a change that nothing overlaps is alone.
LEMMA ChangingAlone ==
  ASSUME IInv, NEW r \in Requests, req[r].at \in Changing, suspect # Paths
  PROVE  notices = {} /\ \A q \in Requests \ {r} : req[q].at = "idle"
  BY DEF IInv, Watched, Overlap, Changing

\* A step that moves no mail and neither begins nor ends a change of rows.
LEMMA StandingStep ==
  ASSUME IInv, FollowInv, IInv',
         mail' = mail, notices' \subseteq notices,
         NEW seen \in BOOLEAN, NEW S \in SUBSET Paths, Watch(seen, S),
         ~Quiet(req', notices') => suspect \subseteq S,
         \A q \in Requests :
           \/ req'[q] = req[q]
           \/ /\ {req[q].at, req'[q].at} \cap {"renameSubtree", "deleteSubtree"} = {}
              /\ req'[q].at = "sync" => \A m \in req'[q].listing : mail[m] = req'[q].path,
         \A row \in rows' : row[1] \in S \/ Follows(row)
  PROVE  FollowInv'
<1>1. ~Quiet(req', notices') => suspect \subseteq suspect'
  BY Watching
<1>2. Announced'
  BY <1>1 DEF FollowInv, Announced, Quiet
<1>3. ListingTrue'
  <2> SUFFICES ASSUME NEW q \in Requests, req'[q].at = "sync"
               PROVE  req'[q].path \in suspect' \/ \A m \in req'[q].listing : mail[m] = req'[q].path
    BY DEF ListingTrue
  <2>1. suspect \subseteq suspect'
    BY <1>1 DEF Quiet
  <2>2. CASE req'[q] = req[q]
    BY <2>1, <2>2 DEF FollowInv, ListingTrue
  <2>3. CASE \A m \in req'[q].listing : mail[m] = req'[q].path
    BY <2>3
  <2> QED BY <2>2, <2>3
<1>4. ASSUME NEW row \in rows', Follows(row) PROVE Follows(row)'
  <2>1. \A q \in Requests :
          /\ req'[q].at = "renameSubtree" <=> req[q].at = "renameSubtree"
          /\ req'[q].at = "deleteSubtree" <=> req[q].at = "deleteSubtree"
          /\ req[q].at \in {"renameSubtree", "deleteSubtree"} => req'[q] = req[q]
    OBVIOUS
  <2>2. ASSUME NEW q \in Requests, req'[q].at = "renameSubtree"
        PROVE  mail'[row[2]] = NewPath(req'[q], row[1])
    BY <1>4, <2>1, <2>2 DEF Follows
  <2>3. ASSUME \A q \in Requests : req'[q].at # "renameSubtree"
        PROVE  \/ mail'[row[2]] = row[1]
               \/ \E q \in Requests : req'[q].at = "deleteSubtree" /\ req'[q].path = row[1]
    BY <1>4, <2>1, <2>3 DEF Follows
  <2> QED BY <2>2, <2>3 DEF Follows, NewPath, AtOrBelow, Moved
<1>5. \A row \in rows' : row[1] \in S => row[1] \in suspect'
  BY Watching
<1> QED BY <1>2, <1>3, <1>4, <1>5 DEF FollowInv

\* Such a step of a request that leaves the rows and the announcements alone
LEMMA LocalFollows ==
  ASSUME IInv, FollowInv, IInv', UNCHANGED <<mail, rows, notices>>,
         NEW r \in Requests, NEW x, req' = [req EXCEPT ![r] = x],
         {req[r].at, x.at} \cap {"renameSubtree", "deleteSubtree"} = {},
         x.at = "sync" => \A m \in x.listing : mail[m] = x.path,
         Watch(FALSE, suspect)
  PROVE  FollowInv'
<1>1. /\ \A q \in Requests \ {r} : req'[q] = req[q]
      /\ req'[r] = x
  BY DEF IInv
<1>2. suspect \in SUBSET Paths /\ notices' \subseteq notices /\ mail' = mail
  BY DEF IInv, TypeOK
<1>3. \A row \in rows' : row[1] \in suspect \/ Follows(row)
  BY DEF FollowInv
<1> QED BY <1>1, <1>2, <1>3, StandingStep

LEMMA FailFollows == ASSUME IInv, FollowInv, IInv', NEW r \in Requests, Fail(r) PROVE FollowInv'
<1>1. /\ req' = [req EXCEPT ![r] = Idle] /\ UNCHANGED <<mail, rows, notices>>
      /\ Watch(req[r].at \in {"renameSubtree", "deleteSubtree"}, suspect)
  BY DEF Fail, Finish
<1>2. CASE req[r].at \in {"renameSubtree", "deleteSubtree"}
  <2>1. Watch(TRUE, Paths)
    BY <1>1, <1>2 DEF Watch
  <2> QED BY <2>1, AllSuspect
<1>3. CASE req[r].at \notin {"renameSubtree", "deleteSubtree"}
  <2>1. Watch(FALSE, suspect)
    BY <1>1, <1>3 DEF Watch
  <2> QED BY <1>1, <1>3, <2>1, IdleTyped, LocalFollows
<1> QED BY <1>2, <1>3

LEMMA CreateFollows ==
  ASSUME IInv, FollowInv, IInv', NEW r \in Requests, NEW path \in Paths, create(r, path)
  PROVE  FollowInv'
<1> DEFINE x == [Idle EXCEPT !.at = "createFolder", !.path = path]
<1>1. /\ req[r].at = "idle" /\ req' = [req EXCEPT ![r] = x]
      /\ UNCHANGED <<mail, rows, notices>> /\ Watch(FALSE, suspect)
  BY DEF create, Observe
<1>2. x.at = "createFolder"
  BY DEF Idle
<1> HIDE DEF x
<1> QED BY <1>1, <1>2, LocalFollows

LEMMA CreateFolderFollows ==
  ASSUME IInv, FollowInv, IInv', NEW r \in Requests, createFolder(r)
  PROVE  FollowInv'
<1>1. /\ req[r].at = "createFolder" /\ req' = [req EXCEPT ![r] = Idle]
      /\ UNCHANGED <<mail, rows, notices>> /\ Watch(FALSE, suspect)
  BY DEF createFolder, Finish, Observe
<1> QED BY <1>1, IdleTyped, LocalFollows

LEMMA RenameFollows ==
  ASSUME IInv, FollowInv, IInv', NEW r \in Requests, NEW path \in Paths, NEW name \in Names,
         rename(r, path, name)
  PROVE  FollowInv'
<1> DEFINE x == [Idle EXCEPT !.at = "renameFolder", !.path = path, !.to = Parent(path) \o <<name>>]
<1>1. /\ req[r].at = "idle" /\ req' = [req EXCEPT ![r] = x]
      /\ UNCHANGED <<mail, rows, notices>> /\ Watch(FALSE, suspect)
  BY DEF rename, Observe
<1>2. x.at = "renameFolder"
  BY DEF Idle
<1> HIDE DEF x
<1> QED BY <1>1, <1>2, LocalFollows

LEMMA DeleteFollows ==
  ASSUME IInv, FollowInv, IInv', NEW r \in Requests, NEW path \in Paths, delete(r, path)
  PROVE  FollowInv'
<1> DEFINE x == [Idle EXCEPT !.at = "ruleTargets", !.path = path]
<1>1. /\ req[r].at = "idle" /\ req' = [req EXCEPT ![r] = x]
      /\ UNCHANGED <<mail, rows, notices>> /\ Watch(FALSE, suspect)
  BY DEF delete, Observe
<1>2. x.at = "ruleTargets"
  BY DEF Idle
<1> HIDE DEF x
<1> QED BY <1>1, <1>2, LocalFollows

LEMMA RuleTargetsFollows ==
  ASSUME IInv, FollowInv, IInv', NEW r \in Requests, ruleTargets(r)
  PROVE  FollowInv'
<1> DEFINE x == [req[r] EXCEPT !.at = "deleteFolder"]
<1>1. /\ req[r].at = "ruleTargets" /\ req' = [req EXCEPT ![r].at = "deleteFolder"]
      /\ UNCHANGED <<mail, rows, notices>> /\ Watch(FALSE, suspect)
  BY DEF ruleTargets, Goto, Observe
<1>2. req' = [req EXCEPT ![r] = x]
  BY <1>1, RequestKnown DEF Steps, Changing
<1>3. x.at = "deleteFolder"
  BY RequestKnown DEF RequestType
<1> HIDE DEF x
<1> QED BY <1>1, <1>2, <1>3, LocalFollows

LEMMA ListFollows ==
  ASSUME IInv, FollowInv, IInv', NEW r \in Requests, NEW path \in Paths, listMessages(r, path)
  PROVE  FollowInv'
<1> DEFINE x == [Idle EXCEPT !.at = "sync", !.path = path, !.listing = {m \in Messages : mail[m] = path}]
<1>1. /\ req[r].at = "idle" /\ req' = [req EXCEPT ![r] = x]
      /\ UNCHANGED <<mail, rows, notices>> /\ Watch(FALSE, suspect)
  BY DEF listMessages, Observe
<1>2. x.at = "sync" /\ \A m \in x.listing : mail[m] = x.path
  BY DEF Idle
<1> HIDE DEF x
<1> QED BY <1>1, <1>2, LocalFollows

LEMMA PointRuleFollows ==
  ASSUME IInv, FollowInv, IInv', NEW path \in Targets, PointRule(path)
  PROVE  FollowInv'
<1>1. UNCHANGED <<mail, rows, notices, req>>
      /\ Watch(\E r \in Requests : req[r].at = "deleteFolder", suspect)
  BY DEF PointRule
<1>2. PICK seen \in BOOLEAN : Watch(seen, suspect)
  BY <1>1 DEF Watch
<1>3. /\ suspect \in SUBSET Paths /\ notices' \subseteq notices /\ mail' = mail
      /\ \A q \in Requests : req'[q] = req[q]
  BY <1>1 DEF IInv, TypeOK
<1>4. \A row \in rows' : row[1] \in suspect \/ Follows(row)
  BY <1>1 DEF FollowInv
<1> QED BY <1>2, <1>3, <1>4, StandingStep

\* An announcement becomes the row it announces; a change of folders meanwhile is on record.
LEMMA MailReceivedFollows ==
  ASSUME IInv, FollowInv, IInv', NEW notice \in notices, mailReceived(notice)
  PROVE  FollowInv'
<1>1. /\ notices' = notices \ {notice} /\ rows' = rows \cup {notice}
      /\ UNCHANGED <<mail, req>> /\ Watch(FALSE, suspect)
  BY DEF mailReceived, Observe
<1>2. /\ suspect \in SUBSET Paths /\ notices' \subseteq notices /\ mail' = mail
      /\ \A q \in Requests : req'[q] = req[q]
  BY <1>1 DEF IInv, TypeOK
<1>3. notice[1] \in suspect \/ Follows(notice)
  <2>1. CASE \E q \in Requests : req[q].at = "renameSubtree"
    <3>1. suspect = Paths
      BY <2>1, ChangingAlone DEF Changing
    <3> QED BY <3>1 DEF IInv, TypeOK
  <2>2. CASE \A q \in Requests : req[q].at # "renameSubtree"
    BY <2>2 DEF FollowInv, Announced, Follows
  <2> QED BY <2>1, <2>2
<1>4. \A row \in rows' : row[1] \in suspect \/ Follows(row)
  BY <1>1, <1>3 DEF FollowInv
<1> QED BY <1>1, <1>2, <1>4, StandingStep

\* A listing takes the place of a folder's rows.
LEMMA SyncFollows ==
  ASSUME IInv, FollowInv, IInv', NEW r \in Requests, sync(r)
  PROVE  FollowInv'
<1> DEFINE path == req[r].path
           fresh == Quiet(req', notices) /\ req[r].listing = {m \in Messages : mail[m] = path}
           S == IF fresh THEN suspect \ {path} ELSE suspect
<1>1. /\ req[r].at = "sync"
      /\ rows' = {row \in rows : row[1] # path} \cup ({path} \X req[r].listing)
      /\ req' = [req EXCEPT ![r] = Idle]
      /\ UNCHANGED <<mail, notices>> /\ Watch(FALSE, S)
  BY DEF sync, Finish
<1>2. /\ \A q \in Requests \ {r} : req'[q] = req[q]
      /\ req'[r] = Idle
  BY <1>1 DEF IInv
<1>3. S \in SUBSET Paths /\ (~Quiet(req', notices') => suspect \subseteq S)
  BY <1>1, RequestKnown
<1>4. ASSUME NEW q \in Requests, req[q].at = "renameSubtree" PROVE suspect = Paths /\ ~fresh
  <2>1. req'[q].at # "idle"
    BY <1>1, <1>2, <1>4
  <2>2. ~fresh
    BY <2>1 DEF Quiet
  <2>3. q # r /\ req[r].at # "idle"
    BY <1>1, <1>4
  <2>4. suspect = Paths
    BY <1>4, <2>3, ChangingAlone DEF Changing
  <2> QED BY <2>2, <2>4
<1>5. \A m \in req[r].listing : path \in S \/ mail[m] = path
  BY <1>1 DEF FollowInv, ListingTrue
<1>6. path \in Paths
  BY <1>1, RequestKnown DEF Shaped
<1>7. ASSUME NEW row \in rows' PROVE row[1] \in S \/ Follows(row)
  <2>1. CASE row \in rows /\ row[1] # path
    BY <2>1 DEF FollowInv
  <2>2. CASE row[1] = path /\ row[2] \in req[r].listing
    <3>1. CASE \E q \in Requests : req[q].at = "renameSubtree"
      <4>1. suspect = Paths /\ ~fresh
        BY <1>4, <3>1
      <4> HIDE DEF fresh
      <4> QED BY <1>6, <2>2, <4>1
    <3>2. CASE \A q \in Requests : req[q].at # "renameSubtree"
      <4>1. path \in S \/ mail[row[2]] = path
        BY <1>5, <2>2
      <4> QED BY <2>2, <3>2, <4>1 DEF Follows
    <3> QED BY <3>1, <3>2
  <2> QED BY <1>1, <2>1, <2>2
<1> HIDE DEF S
<1>8. \A q \in Requests :
        \/ req'[q] = req[q]
        \/ /\ {req[q].at, req'[q].at} \cap {"renameSubtree", "deleteSubtree"} = {}
           /\ req'[q].at = "sync" => \A m \in req'[q].listing : mail[m] = req'[q].path
  BY <1>1, <1>2, IdleTyped
<1> QED BY <1>1, <1>3, <1>7, <1>8, StandingStep

\* Between the two steps of a rename the mail is already where the rows will be.
LEMMA RenameFolderFollows ==
  ASSUME IInv, FollowInv, IInv', NEW r \in Requests, renameFolder(r)
  PROVE  FollowInv'
<1> DEFINE x == [req[r] EXCEPT !.at = "renameSubtree"]
<1>1. /\ req[r].at = "renameFolder"
      /\ mail' = [m \in Messages |-> IF mail[m] = Null THEN Null ELSE NewPath(req[r], mail[m])]
      /\ req' = [req EXCEPT ![r].at = "renameSubtree"]
      /\ UNCHANGED <<rows, notices>> /\ Watch(FALSE, suspect)
  BY DEF renameFolder, Goto, Observe, NewPath
<1>2. CASE suspect = Paths
  BY <1>1, <1>2, AllSuspect
<1>3. CASE suspect # Paths
  <2>1. notices = {} /\ \A q \in Requests \ {r} : req[q].at = "idle"
    BY <1>1, <1>3, ChangingAlone DEF Changing
  <2>2. /\ req'[r] = x /\ x.at = "renameSubtree" /\ x.path = req[r].path /\ x.to = req[r].to
        /\ \A q \in Requests \ {r} : req'[q] = req[q]
    BY <1>1, RequestKnown DEF IInv, RequestType
  <2> HIDE DEF x
  <2>3. suspect \subseteq suspect'
    BY <1>1, <2>2, Watching, RequestKnown DEF Quiet
  <2>4. ASSUME NEW row \in rows, Follows(row) PROVE Follows(row)'
    <3>1. row[1] \in Paths /\ row[2] \in Messages /\ row[1] # Null
      BY FoldersAssumption DEF IInv, TypeOK
    <3>2. mail[row[2]] = row[1]
      BY <1>1, <2>1, <2>4 DEF Follows
    <3>3. mail'[row[2]] = NewPath(req[r], row[1])
      BY <1>1, <3>1, <3>2
    <3>4. NewPath(req'[r], row[1]) = NewPath(req[r], row[1])
      BY <2>2 DEF NewPath
    <3>5. \A q \in Requests : req'[q].at = "renameSubtree" => q = r
      BY <2>1, <2>2
    <3>6. \A q \in Requests : req'[q].at = "renameSubtree" => mail'[row[2]] = NewPath(req'[q], row[1])
      BY <3>3, <3>4, <3>5
    <3> QED BY <2>2, <3>6 DEF Follows, NewPath, AtOrBelow, Moved
  <2>5. Announced' /\ ListingTrue'
    BY <1>1, <2>1, <2>2 DEF Announced, ListingTrue
  <2> QED BY <1>1, <2>3, <2>4, <2>5 DEF FollowInv
<1> QED BY <1>2, <1>3

\* With its second step the rows are there too, if LIKE takes along what RENAME took.
LEMMA RenameSubtreeFollows ==
  ASSUME NoWildcards, IInv, FollowInv, IInv', NEW r \in Requests, renameSubtree(r)
  PROVE  FollowInv'
<1> DEFINE x == req[r]
           moves(p) == IF p \in subtree(x.path) THEN Moved(p, x.path, x.to) ELSE p
           S == suspect \cup {moves(p) : p \in suspect}
<1>1. /\ x.at = "renameSubtree"
      /\ rows' = {<<moves(row[1]), row[2]>> : row \in rows}
      /\ req' = [req EXCEPT ![r] = Idle]
      /\ UNCHANGED <<mail, notices>> /\ Watch(FALSE, S)
  BY DEF renameSubtree, Finish
<1>2. x.path \in Paths /\ \A p \in subtree(x.path) : Moved(p, x.path, x.to) \in Paths
  BY <1>1, RequestKnown DEF Shaped
<1>3. \A p \in Paths : moves(p) \in Paths
  BY <1>2
<1>4. \A p : moves(p) = NewPath(x, p)
  BY <1>2, SubtreeExact DEF NewPath
<1> HIDE DEF moves
<1>5. S \in SUBSET Paths /\ suspect \subseteq S
  BY <1>3, RequestKnown
<1>6. CASE suspect = Paths
  <2>1. S = Paths
    BY <1>5, <1>6
  <2>2. Watch(FALSE, Paths)
    BY <1>1, <2>1
  <2> QED BY <2>2, AllSuspect
<1>7. CASE suspect # Paths
  <2>1. notices = {} /\ \A q \in Requests \ {r} : req[q].at = "idle"
    BY <1>1, <1>7, ChangingAlone DEF Changing
  <2>2. \A q \in Requests : req'[q].at = "idle"
    BY <1>1, <2>1, IdleTyped DEF IInv
  <2>3. ASSUME NEW row \in rows
        PROVE  \/ moves(row[1]) \in S
               \/ mail[row[2]] = moves(row[1])
    <3>1. CASE row[1] \in suspect
      BY <3>1
    <3>2. CASE Follows(row)
      BY <1>1, <1>4, <3>2 DEF Follows
    <3> QED BY <3>1, <3>2 DEF FollowInv
  <2> HIDE DEF S
  <2>4. ASSUME NEW row \in rows' PROVE row[1] \in suspect' \/ mail'[row[2]] = row[1]
    <3>1. row[1] \in S \/ mail[row[2]] = row[1]
      BY <1>1, <2>3
    <3>2. row[1] \in S => row[1] \in suspect'
      BY <1>1, <1>5, Watching
    <3> QED BY <1>1, <3>1, <3>2
  <2>5. ASSUME NEW row \in rows', mail'[row[2]] = row[1] PROVE Follows(row)'
    BY <2>2, <2>5 DEF Follows
  <2>6. Announced' /\ ListingTrue'
    BY <1>1, <2>1, <2>2 DEF Announced, ListingTrue
  <2> QED BY <2>4, <2>5, <2>6 DEF FollowInv
<1> QED BY <1>6, <1>7

\* Between the two steps of a deletion the rows of the folder have lost their mail.
LEMMA DeleteFolderFollows ==
  ASSUME IInv, FollowInv, IInv', NEW r \in Requests, deleteFolder(r)
  PROVE  FollowInv'
<1>1. /\ req[r].at = "deleteFolder"
      /\ mail' = [m \in Messages |-> IF mail[m] = req[r].path THEN Null ELSE mail[m]]
      /\ req' = [req EXCEPT ![r].at = "deleteSubtree"]
      /\ UNCHANGED <<rows, notices>> /\ Watch(FALSE, suspect)
  BY DEF deleteFolder, Goto, Observe
<1>2. CASE suspect = Paths
  BY <1>1, <1>2, AllSuspect
<1>3. CASE suspect # Paths
  <2>1. notices = {} /\ \A q \in Requests \ {r} : req[q].at = "idle"
    BY <1>1, <1>3, ChangingAlone DEF Changing
  <2>2. /\ req'[r].at = "deleteSubtree" /\ req'[r].path = req[r].path
        /\ \A q \in Requests \ {r} : req'[q] = req[q]
    BY <1>1 DEF IInv, RequestType
  <2>3. suspect \subseteq suspect'
    BY <1>1, <2>2, Watching, RequestKnown DEF Quiet
  <2>4. ASSUME NEW row \in rows, Follows(row) PROVE Follows(row)'
    <3>1. row[2] \in Messages
      BY DEF IInv, TypeOK
    <3>2. mail[row[2]] = row[1]
      BY <1>1, <2>1, <2>4 DEF Follows
    <3>3. mail'[row[2]] = row[1] \/ req'[r].path = row[1]
      BY <1>1, <2>2, <3>1, <3>2
    <3>4. \A q \in Requests : req'[q].at # "renameSubtree"
      BY <2>1, <2>2
    <3> QED BY <2>2, <3>3, <3>4 DEF Follows
  <2>5. Announced' /\ ListingTrue'
    BY <1>1, <2>1, <2>2 DEF Announced, ListingTrue
  <2> QED BY <1>1, <2>3, <2>4, <2>5 DEF FollowInv
<1> QED BY <1>2, <1>3

LEMMA DeleteSubtreeFollows ==
  ASSUME IInv, FollowInv, IInv', NEW r \in Requests, deleteSubtree(r)
  PROVE  FollowInv'
<1>1. /\ req[r].at = "deleteSubtree"
      /\ rows' = {row \in rows : row[1] \notin subtree(req[r].path)}
      /\ req' = [req EXCEPT ![r] = Idle]
      /\ UNCHANGED <<mail, notices>> /\ Watch(FALSE, suspect)
  BY DEF deleteSubtree, Finish, Observe
<1>2. CASE suspect = Paths
  BY <1>1, <1>2, AllSuspect
<1>3. CASE suspect # Paths
  <2>1. notices = {} /\ \A q \in Requests \ {r} : req[q].at = "idle"
    BY <1>1, <1>3, ChangingAlone DEF Changing
  <2>2. \A q \in Requests : req'[q].at = "idle"
    BY <1>1, <2>1, IdleTyped DEF IInv
  <2>3. ASSUME NEW row \in rows' PROVE row[1] \in suspect' \/ Follows(row)'
    <3>1. row \in rows /\ row[1] \in Paths /\ row[1] # req[r].path
      BY <1>1 DEF IInv, TypeOK, subtree
    <3>2. row[1] \in suspect => row[1] \in suspect'
      BY <1>1, <3>1, Watching, RequestKnown
    <3>3. Follows(row) => mail[row[2]] = row[1]
      BY <1>1, <2>1, <3>1 DEF Follows
    <3>4. mail'[row[2]] = row[1] => Follows(row)'
      BY <2>2 DEF Follows
    <3> QED BY <1>1, <3>1, <3>2, <3>3, <3>4 DEF FollowInv
  <2>4. Announced' /\ ListingTrue'
    BY <1>1, <2>1, <2>2 DEF Announced, ListingTrue
  <2> QED BY <2>3, <2>4 DEF FollowInv
<1> QED BY <1>2, <1>3

\* A message that arrives was in no folder, so no row, announcement or listing was true of it.
LEMMA DeliverFollows ==
  ASSUME IInv, FollowInv, IInv', NEW m \in Messages, NEW matches \in BOOLEAN, Deliver(m, matches)
  PROVE  FollowInv'
<1>1. PICK filed \in folders :
        /\ mail[m] = Null /\ \A notice \in notices : notice[2] # m
        /\ mail' = [mail EXCEPT ![m] = filed]
        /\ notices' \subseteq notices \cup {<<filed, m>>}
        /\ UNCHANGED <<rows, req>> /\ Watch(FALSE, suspect)
  BY DEF IInv, TypeOK, Deliver, Observe
<1>2. mail'[m] = filed /\ \A n \in Messages \ {m} : mail'[n] = mail[n]
  BY <1>1 DEF IInv, TypeOK
<1>3. ~Quiet(req', notices') => suspect \subseteq suspect'
  BY <1>1, Watching DEF IInv, TypeOK
<1>4. ASSUME NEW row \in rows, Follows(row) PROVE Follows(row)'
  <2>1. row[1] \in Paths /\ row[2] \in Messages /\ row[1] # Null
    BY FoldersAssumption DEF IInv, TypeOK
  <2>2. ASSUME NEW q \in Requests, req[q].at = "renameSubtree"
        PROVE  mail'[row[2]] = NewPath(req[q], row[1])
    <3>1. NewPath(req[q], row[1]) \in Paths
      BY <2>1, <2>2, RequestKnown DEF Shaped, NewPath
    <3>2. row[2] # m
      BY <1>1, <1>4, <2>2, <3>1, FoldersAssumption DEF Follows
    <3> QED BY <1>2, <1>4, <2>1, <2>2, <3>2 DEF Follows
  <2>3. ASSUME \A q \in Requests : req[q].at # "renameSubtree"
        PROVE  \/ mail'[row[2]] = row[1]
               \/ \E q \in Requests : req[q].at = "deleteSubtree" /\ req[q].path = row[1]
    BY <1>1, <1>2, <1>4, <2>1, <2>3 DEF Follows
  <2> QED BY <1>1, <2>2, <2>3 DEF Follows, NewPath, AtOrBelow, Moved
<1>5. \A row \in rows : row[1] \in suspect => row[1] \in suspect'
  BY <1>1, Watching DEF IInv, TypeOK
<1>6. Announced'
  <2> SUFFICES ASSUME NEW notice \in notices'
               PROVE  notice[1] \in suspect' \/ mail'[notice[2]] = notice[1]
    BY DEF Announced
  <2>1. suspect \subseteq suspect'
    BY <1>3 DEF Quiet
  <2>2. CASE notice \in notices
    <3>1. notice[2] \in Messages \ {m}
      BY <1>1, <2>2 DEF IInv, TypeOK
    <3> QED BY <1>2, <2>1, <2>2, <3>1 DEF FollowInv, Announced
  <2>3. CASE notice = <<filed, m>>
    BY <1>2, <2>3
  <2> QED BY <1>1, <2>2, <2>3
<1>7. ListingTrue'
  <2> SUFFICES ASSUME NEW q \in Requests, req[q].at = "sync"
               PROVE  req[q].path \in suspect' \/ \A n \in req[q].listing : mail'[n] = req[q].path
    BY <1>1 DEF ListingTrue
  <2>1. suspect \subseteq suspect'
    BY <1>1, <1>3 DEF Quiet
  <2>2. req[q].path \in Paths /\ req[q].listing \subseteq Messages /\ req[q].path # Null
    BY RequestKnown, FoldersAssumption DEF Shaped, RequestType
  <2>3. CASE req[q].path \in suspect
    BY <2>1, <2>3
  <2>4. CASE \A n \in req[q].listing : mail[n] = req[q].path
    BY <1>1, <1>2, <2>2, <2>4
  <2> QED BY <2>3, <2>4 DEF FollowInv, ListingTrue
<1> QED BY <1>1, <1>4, <1>5, <1>6, <1>7 DEF FollowInv

LEMMA NextFollowInv ==
  ASSUME NoWildcards, IInv, FollowInv, IInv', [Next]_vars
  PROVE  FollowInv'
<1>1. ASSUME NEW path \in Targets, PointRule(path) PROVE FollowInv'
  BY <1>1, PointRuleFollows
<1>2. ASSUME NEW m \in Messages, NEW matches \in BOOLEAN, Deliver(m, matches) PROVE FollowInv'
  BY <1>2, DeliverFollows
<1>3. ASSUME NEW notice \in notices, mailReceived(notice) PROVE FollowInv'
  BY <1>3, MailReceivedFollows
<1>4. ASSUME NEW r \in Requests, NEW path \in Paths,
             create(r, path) \/ delete(r, path) \/ listMessages(r, path)
      PROVE  FollowInv'
  BY <1>4, CreateFollows, DeleteFollows, ListFollows
<1>5. ASSUME NEW r \in Requests, NEW path \in Paths, NEW name \in Names, rename(r, path, name)
      PROVE  FollowInv'
  BY <1>5, RenameFollows
<1>6. ASSUME NEW r \in Requests,
             \/ createFolder(r) \/ renameFolder(r) \/ renameSubtree(r)
             \/ ruleTargets(r) \/ deleteFolder(r) \/ deleteSubtree(r)
             \/ sync(r) \/ Fail(r)
      PROVE  FollowInv'
  BY <1>6, CreateFolderFollows, RenameFolderFollows, RenameSubtreeFollows, RuleTargetsFollows,
     DeleteFolderFollows, DeleteSubtreeFollows, SyncFollows, FailFollows
<1>7. CASE UNCHANGED vars
  BY <1>7 DEF vars, FollowInv, Announced, ListingTrue, Follows, NewPath, AtOrBelow, Moved
<1> QED BY <1>1, <1>2, <1>3, <1>4, <1>5, <1>6, <1>7 DEF Next

\* Where no folder's name has a wildcard of LIKE in it, the rows follow the folders
\* through renames, deletions, listings and deliveries by any number of requests.
THEOREM RowsFollow == NoWildcards => (Spec => []RowsKeepUp)
<1> SUFFICES ASSUME NoWildcards PROVE Spec => []RowsKeepUp
  OBVIOUS
<1>1. FollowInv => RowsKeepUp
  BY DEF FollowInv, Follows, RowsKeepUp
<1>2. Init => IInv /\ FollowInv
  BY InitIInv, InitFollowInv
<1>3. IInv /\ FollowInv /\ [Next]_vars => (IInv /\ FollowInv)'
  BY NextIInv, NextFollowInv
<1> QED BY <1>1, <1>2, <1>3, PTL DEF Spec
=============================================================================
