-------------------------- MODULE RuleScriptProofs --------------------------
(***************************************************************************)
(* Theorems about the rules of a mailbox.                                  *)
(*                                                                         *)
(* RuleScript, for any number of requests, rules, bodies and restarts: the *)
(* types; that the live script is a whole one unless regenerations had its *)
(* file for staging at once; that those are not all answered with success; *)
(* and that the script at rest is the rules' unless edits overlapped or a  *)
(* regeneration failed.                                                    *)
(*                                                                         *)
(* Filters, for any rule tables and messages and texts of any length: what *)
(* Escape, Unquote and Glob compute, the types, and that the script files, *)
(* announces and previews a message as the rules say.                      *)
(***************************************************************************)
EXTENDS RuleScript, Filters, FiniteSetTheorems, SequenceTheorems, WellFoundedInduction, TLAPS

\* Where a process is says what it holds; requests run only once the start-up is over.
Shape ==
  /\ up <=> pc[Boot] = "idle"
  /\ pc[Boot] \notin {"insert", "reorder"}
  /\ \A r \in Requests : pc[r] # "check" /\ (pc[r] # "idle" => up)
  /\ \A p \in Processes :
       /\ pc[p] = "reorder" => order[p] # Null
       /\ pc[p] \in {"check", "open", "write"} => snapshot[p] \in Seq(Active)
       /\ pc[p] = "write" <=> fd[p] # Null

\* A live file that was not shared is whole and nobody has it open; a staging file that
\* was not is in the hands of the only one who stages, truncated and then whole.
WholeInv ==
  /\ \A p \in Processes : fd[p] = "staged" => staged # Null
  /\ "live" \notin shared => live \in Seq(Active) /\ \A p \in Processes : fd[p] # "live"
  /\ staged # Null /\ "staged" \notin shared =>
       \A p \in Staging :
         /\ \A q \in Staging : q = p
         /\ pc[p] = "write" => fd[p] = "staged" /\ staged = Partial
         /\ pc[p] = "rename" => staged \in Seq(Active)

\* Once they met, those who stage are more than the staging files left for them.
TooMany == IF staged = Null THEN Staging # {} ELSE \E p, q \in Staging : p # q
AnswerInv == unanswered => TooMany

\* A regeneration that nothing overlapped carries the rules there are, step by step.
Carries(p) ==
  /\ pc[p] \in {"check", "open", "write"} => snapshot[p] \in Scripts(table)
  /\ pc[p] = "write" => fd[p] = "staged" /\ staged = Partial
  /\ pc[p] = "rename" => staged \in Scripts(table)
ForceInv ==
  ~failed /\ ~overlapped =>
    /\ \A p, q \in Processes : pc[p] \in Regenerating /\ pc[q] \in Regenerating => p = q
    /\ \A p \in Processes : Carries(p)
    /\ up /\ AtRest => live \in Scripts(table)

-----------------------------------------------------------------------------
(* What the steps rest on *)

LEMMA ScriptsType ==
  ASSUME TypeOK
  PROVE  Scripts(table) \subseteq Seq(Active)
<1> DEFINE active == {r \in Rules : table[r] # Null /\ table[r].body \in Active}
<1>1. IsFiniteSet(active) /\ Cardinality(active) \in Nat
  BY SizeAssumption, FS_Subset, FS_CardinalityType
<1>2. ASSUME NEW s \in SetToSeqs(active)
      PROVE  [i \in DOMAIN s |-> table[s[i]].body] \in Seq(Active)
  <2>1. s \in [1..Cardinality(active) -> active]
    BY DEF SetToSeqs
  <2>2. [i \in DOMAIN s |-> table[s[i]].body] \in [1..Cardinality(active) -> Active]
    BY <2>1
  <2>3. \A n \in Nat : [1..n -> Active] \subseteq Seq(Active)
    BY SeqDef
  <2> QED BY <1>1, <2>2, <2>3
<1>3. ASSUME NEW x \in Scripts(table)
      PROVE  \E s \in SetToSeqs(active) : x = [i \in DOMAIN s |-> table[s[i]].body]
  BY DEF Scripts
<1> QED BY <1>2, <1>3

LEMMA NextIs ==
  ASSUME [Next]_vars
  PROVE  \/ UNCHANGED vars
         \/ \E r \in Requests :
              \/ ReadNextPosition(r) \/ Reorder(r)
              \/ \E rule \in Rules, content \in Bodies :
                   InsertRule(r, rule, content) \/ UpdateRule(r, rule, content)
              \/ \E rule \in Rules : DeleteRule(r, rule)
              \/ \E positions \in Bijection(Existing, 1..Cardinality(Existing)) :
                   BeginReorder(r, positions)
         \/ IsCurrentCheck
         \/ \E p \in Processes :
              ListRules(p) \/ OpenStaging(p) \/ WriteStaging(p) \/ Rename(p) \/ FailRegenerate(p)
         \/ Crash
BY DEF Next

\* What the edits have in common.
Edit(r) ==
  \/ Reorder(r)
  \/ \E rule \in Rules, content \in Bodies : InsertRule(r, rule, content) \/ UpdateRule(r, rule, content)
  \/ \E rule \in Rules : DeleteRule(r, rule)
Preparation(r) ==
  \/ ReadNextPosition(r)
  \/ \E positions \in Bijection(Existing, 1..Cardinality(Existing)) : BeginReorder(r, positions)

LEMMA EditIs ==
  ASSUME TypeOK, Shape, NEW r \in Requests, Edit(r)
  PROVE  /\ up /\ pc[r] \in {"idle", "insert", "reorder"}
         /\ Commit(r, table')
BY DEF Edit, Reorder, InsertRule, UpdateRule, DeleteRule, Commit, Shape, Processes

-----------------------------------------------------------------------------
(* Types *)

LEMMA InitInv == Init => TypeOK /\ Shape /\ WholeInv /\ AnswerInv /\ ForceInv
<1> SUFFICES ASSUME Init PROVE TypeOK /\ Shape /\ WholeInv /\ AnswerInv /\ ForceInv
  OBVIOUS
<1>1. live = <<>> /\ <<>> \in Seq(Active)
  BY EmptySeq DEF Init
<1>2. TypeOK
  <2>1. up \in BOOLEAN /\ failed \in BOOLEAN /\ overlapped \in BOOLEAN /\ unanswered \in BOOLEAN
    BY DEF Init
  <2>2. shared \subseteq {"staged", "live"}
    BY DEF Init
  <2>3. table \in Table
    BY DEF Init, Table, EmptyTable
  <2>4. /\ pc \in [Processes -> {"idle", "insert", "reorder", "check"} \cup Regenerating]
        /\ next \in [Processes -> 0..MaxPos] /\ crashes \in 0..MaxCrashes
    BY RuleScriptAssumption DEF Init
  <2> QED BY <1>1, <2>1, <2>2, <2>3, <2>4 DEF Init, TypeOK
<1>3. Shape
  BY RuleScriptAssumption DEF Init, Shape, Processes
<1>4. WholeInv /\ AnswerInv
  BY <1>1, RuleScriptAssumption DEF Init, WholeInv, AnswerInv
<1>5. ForceInv
  <2>1. <<>> \in Scripts(table)
    <3> DEFINE active == {r \in Rules : table[r] # Null /\ table[r].body \in Active}
    <3>1. active = {}
      BY DEF Init, EmptyTable
    <3>2. <<>> \in SetToSeqs(active)
      <4>1. Cardinality(active) = 0
        BY <3>1, FS_EmptySet
      <4>2. 1..Cardinality(active) = {} /\ <<>> \in [1..Cardinality(active) -> active]
        <5>1. <<>> \in Seq(active) /\ Len(<<>>) = 0
          BY EmptySeq
        <5>2. <<>> \in [1..Len(<<>>) -> active]
          BY <5>1, LenProperties
        <5>3. 1..Cardinality(active) = 1..Len(<<>>)
          BY <4>1, <5>1
        <5>4. 1..Cardinality(active) = {}
          BY <4>1
        <5> QED BY <5>2, <5>3, <5>4
      <4> QED BY <4>2 DEF SetToSeqs
    <3>3. <<>> = [i \in DOMAIN <<>> |-> table[<<>>[i]].body]
      OBVIOUS
    <3>4. \A i, j \in DOMAIN <<>> : i < j => table[<<>>[i]].pos <= table[<<>>[j]].pos
      OBVIOUS
    <3> QED BY <3>2, <3>3, <3>4 DEF Scripts
  <2> QED BY <1>1, <2>1 DEF Init, ForceInv, Carries, Regenerating
<1> QED BY <1>2, <1>3, <1>4, <1>5

LEMMA CommitType ==
  ASSUME TypeOK, Shape, NEW r \in Requests, Edit(r),
         table' \in Table, next' \in [Processes -> 0..MaxPos],
         order' \in {order, [order EXCEPT ![r] = Null]}
  PROVE  TypeOK' /\ Shape'
<1>1. up /\ pc[r] \in {"idle", "insert", "reorder"} /\ Commit(r, table')
  BY EditIs
<1>2. overlapped' \in BOOLEAN /\ failed' \in BOOLEAN /\ up' \in BOOLEAN
  BY <1>1 DEF Commit, TypeOK
<1>3. TypeOK'
  <2>1. /\ pc' = [pc EXCEPT ![r] = "list"]
        /\ UNCHANGED <<staged, live, up, snapshot, fd, crashes, failed, shared, unanswered>>
    BY <1>1 DEF Commit, Goto, files, sharing
  <2>2. pc' \in [Processes -> {"idle", "insert", "reorder", "check"} \cup Regenerating]
    BY <2>1 DEF TypeOK, Regenerating
  <2>3. order' \in [Processes -> Numberings \cup {Null}]
    BY DEF TypeOK
  <2> QED BY <1>2, <2>1, <2>2, <2>3 DEF TypeOK
<1>4. /\ pc'[Boot] = pc[Boot] /\ pc'[r] = "list"
      /\ \A p \in Processes \ {r} : pc'[p] = pc[p]
      /\ UNCHANGED <<up, snapshot, fd>>
  BY <1>1, RuleScriptAssumption DEF Commit, TypeOK, Goto, Processes
<1>5. \A p \in Processes : pc'[p] = "reorder" => order'[p] # Null
  BY <1>4 DEF Shape, TypeOK
<1>6. Shape'
  BY <1>1, <1>4, <1>5 DEF Shape, Processes
<1> QED BY <1>3, <1>6

LEMMA EditType ==
  ASSUME TypeOK, Shape, NEW r \in Requests, Edit(r)
  PROVE  TypeOK' /\ Shape'
<1>1. CASE Reorder(r)
  <2>1. /\ order' = [order EXCEPT ![r] = Null] /\ UNCHANGED next
        /\ table' = [rule \in Rules |-> IF rule \in Existing \cap DOMAIN order[r]
                                       THEN [table[rule] EXCEPT !.pos = order[r][rule]]
                                       ELSE table[rule]]
    BY <1>1 DEF Reorder, Commit
  <2>2. order[r] \in Numberings
    BY <1>1 DEF Reorder, TypeOK, Shape, Processes
  <2>3. Cardinality(Rules) \in Nat /\ Cardinality(Rules) <= MaxPos
    BY SizeAssumption, FS_CardinalityType
  <2>4. ASSUME NEW rule \in DOMAIN order[r] PROVE order[r][rule] \in 0..MaxPos
    BY <2>2, <2>3, RuleScriptAssumption DEF Numberings
  <2>5. table' \in Table
    BY <2>1, <2>4 DEF TypeOK, Table, Existing
  <2> QED BY <2>1, <2>5, CommitType DEF TypeOK
<1>2. ASSUME NEW rule \in Rules, NEW content \in Bodies, InsertRule(r, rule, content)
      PROVE  TypeOK' /\ Shape'
  <2>1. /\ order' = order /\ next' = [next EXCEPT ![r] = 0]
        /\ table' = [table EXCEPT ![rule] = [pos |-> next[r], body |-> content]]
    BY <1>2 DEF InsertRule, Commit
  <2>2. table' \in Table /\ next' \in [Processes -> 0..MaxPos]
    BY <2>1, RuleScriptAssumption DEF TypeOK, Table, Processes
  <2> QED BY <2>1, <2>2, CommitType
<1>3. ASSUME NEW rule \in Rules, NEW content \in Bodies, UpdateRule(r, rule, content)
      PROVE  TypeOK' /\ Shape'
  <2>1. /\ UNCHANGED <<next, order>> /\ rule \in Existing
        /\ table' = [table EXCEPT ![rule] = [pos |-> table[rule].pos, body |-> content]]
    BY <1>3 DEF UpdateRule, Commit
  <2>2. table' \in Table
    BY <2>1 DEF TypeOK, Table, Existing
  <2> QED BY <2>1, <2>2, CommitType DEF TypeOK
<1>4. ASSUME NEW rule \in Rules, DeleteRule(r, rule) PROVE TypeOK' /\ Shape'
  <2>1. UNCHANGED <<next, order>> /\ table' = [table EXCEPT ![rule] = Null]
    BY <1>4 DEF DeleteRule, Commit
  <2>2. table' \in Table
    BY <2>1 DEF TypeOK, Table
  <2> QED BY <2>1, <2>2, CommitType DEF TypeOK
<1> QED BY <1>1, <1>2, <1>3, <1>4 DEF Edit

LEMMA PreparationType ==
  ASSUME TypeOK, Shape, NEW r \in Requests, Preparation(r)
  PROVE  /\ TypeOK' /\ Shape'
         /\ up /\ pc[r] = "idle"
         /\ \E step \in {"insert", "reorder"} : pc' = [pc EXCEPT ![r] = step]
         /\ UNCHANGED <<table, files, up, snapshot, fd, history>>
<1>1. CASE ReadNextPosition(r)
  <2>1. /\ up /\ pc[r] = "idle" /\ pc' = [pc EXCEPT ![r] = "insert"]
        /\ UNCHANGED <<table, files, up, order, snapshot, fd, crashes, history>>
        /\ next' \in [Processes -> 0..MaxPos]
    BY <1>1 DEF ReadNextPosition, Goto, TypeOK, Processes
  <2>2. TypeOK'
    BY <2>1 DEF TypeOK, files, history, sharing
  <2>3. Shape'
    BY <2>1, RuleScriptAssumption DEF Shape, TypeOK, Processes
  <2> QED BY <2>1, <2>2, <2>3
<1>2. ASSUME NEW positions \in Bijection(Existing, 1..Cardinality(Existing)),
             BeginReorder(r, positions)
      PROVE  /\ TypeOK' /\ Shape'
             /\ up /\ pc[r] = "idle"
             /\ pc' = [pc EXCEPT ![r] = "reorder"]
             /\ UNCHANGED <<table, files, up, snapshot, fd, history>>
  <2>1. positions \in Numberings
    <3>1. Existing \subseteq Rules
      BY DEF Existing
    <3>2. /\ Cardinality(Existing) \in Nat /\ Cardinality(Rules) \in Nat
          /\ Cardinality(Existing) <= Cardinality(Rules)
      BY <3>1, SizeAssumption, FS_Subset, FS_CardinalityType
    <3>3. positions \in [Existing -> 1..Cardinality(Existing)]
      BY DEF Bijection, Injection
    <3>4. positions \in [Existing -> 1..Cardinality(Rules)]
      BY <3>2, <3>3
    <3> QED BY <3>1, <3>4 DEF Numberings
  <2>2. /\ up /\ pc[r] = "idle" /\ pc' = [pc EXCEPT ![r] = "reorder"]
        /\ UNCHANGED <<table, files, up, next, snapshot, fd, crashes, history>>
        /\ order' = [order EXCEPT ![r] = positions]
    BY <1>2 DEF BeginReorder, Goto
  <2>3. order' \in [Processes -> Numberings \cup {Null}]
    BY <2>1, <2>2 DEF TypeOK
  <2>4. TypeOK'
    BY <2>2, <2>3 DEF TypeOK, files, history, sharing
  <2>5. positions # Null
    BY <2>1, RuleScriptAssumption
  <2>6. \A p \in Processes : order'[p] = IF p = r THEN positions ELSE order[p]
    BY <2>2 DEF TypeOK
  <2>7. Shape'
    BY <2>2, <2>5, <2>6, RuleScriptAssumption DEF Shape, TypeOK, Processes
  <2> QED BY <2>2, <2>4, <2>7
<1> QED BY <1>1, <1>2 DEF Preparation

LEMMA RegenerateType ==
  ASSUME TypeOK, Shape, NEW p \in Processes,
         ListRules(p) \/ OpenStaging(p) \/ WriteStaging(p) \/ Rename(p) \/ FailRegenerate(p)
  PROVE  TypeOK' /\ Shape'
<1>1. CASE ListRules(p)
  <2>1. PICK script \in Seq(Active) : snapshot' = [snapshot EXCEPT ![p] = script]
    BY <1>1, ScriptsType DEF ListRules
  <2>2. /\ pc[p] = "list" /\ pc' = [pc EXCEPT ![p] = IF p = Boot THEN "check" ELSE "open"]
        /\ UNCHANGED <<table, files, up, next, order, fd, crashes, history>>
    BY <1>1 DEF ListRules, Goto
  <2>3. TypeOK'
    BY <2>1, <2>2 DEF TypeOK, files, history, sharing, Regenerating
  <2>4. Shape'
    BY <2>1, <2>2, RuleScriptAssumption DEF Shape, TypeOK, Processes
  <2> QED BY <2>3, <2>4
<1>2. CASE OpenStaging(p)
  <2>1. /\ pc[p] = "open" /\ staged' = Partial /\ fd' = [fd EXCEPT ![p] = "staged"]
        /\ pc' = [pc EXCEPT ![p] = "write"] /\ Share(p)
        /\ UNCHANGED <<table, live, up, next, order, snapshot, crashes, failed, overlapped>>
    BY <1>2 DEF OpenStaging, Goto
  <2>2. shared' \subseteq {"staged", "live"} /\ unanswered' \in BOOLEAN
    BY <2>1 DEF Share, TypeOK
  <2>3. TypeOK'
    BY <2>1, <2>2 DEF TypeOK, Regenerating
  <2>4. Shape'
    BY <2>1, RuleScriptAssumption DEF Shape, TypeOK, Processes
  <2> QED BY <2>3, <2>4
<1>3. CASE WriteStaging(p)
  <2>1. /\ pc[p] = "write" /\ snapshot[p] \in Seq(Active) /\ fd' = [fd EXCEPT ![p] = Null]
        /\ staged' \in Overwritten(staged, snapshot[p]) \cup {staged}
        /\ live' \in Overwritten(live, snapshot[p]) \cup {live}
        /\ snapshot' = [snapshot EXCEPT ![p] = Null] /\ pc' = [pc EXCEPT ![p] = "rename"]
        /\ UNCHANGED <<table, up, next, order, crashes, history>>
    BY <1>3 DEF WriteStaging, Goto, Shape
  <2>2. /\ staged' \in Seq(Active) \cup {Partial, Broken, Null}
        /\ live' \in Seq(Active) \cup {Partial, Broken}
    BY <2>1 DEF Overwritten, TypeOK
  <2>3. TypeOK'
    BY <2>1, <2>2 DEF TypeOK, history, sharing, Regenerating
  <2>4. Shape'
    BY <2>1, RuleScriptAssumption DEF Shape, TypeOK, Processes
  <2> QED BY <2>3, <2>4
<1>4. CASE Rename(p)
  <2>1. /\ pc[p] = "rename" /\ pc' = [pc EXCEPT ![p] = "idle"] /\ up' = TRUE
        /\ staged # Null /\ Install
        /\ UNCHANGED <<table, next, order, snapshot, crashes, failed, overlapped, unanswered>>
    BY <1>4 DEF Rename, Goto
  <2>2. fd' \in [Processes -> {"staged", "live", "gone", Null}]
    BY <2>1 DEF Install, TypeOK
  <2>3. \A q \in Processes : fd'[q] # Null <=> fd[q] # Null
    BY <2>1, RuleScriptAssumption DEF Install, TypeOK
  <2>4. TypeOK'
    BY <2>1, <2>2 DEF Install, TypeOK, Regenerating
  <2>5. Shape'
    BY <2>1, <2>3, RuleScriptAssumption DEF Shape, TypeOK, Processes
  <2> QED BY <2>4, <2>5
<1>5. CASE FailRegenerate(p)
  <2>1. /\ pc[p] \in Regenerating /\ pc' = [pc EXCEPT ![p] = "idle"] /\ CutShort({p})
        /\ up' = TRUE /\ failed' = TRUE /\ unanswered' = (unanswered /\ p \notin Staging)
        /\ snapshot' = [snapshot EXCEPT ![p] = Null] /\ fd' = [fd EXCEPT ![p] = Null]
        /\ UNCHANGED <<table, next, order, crashes, overlapped, shared>>
    BY <1>5 DEF FailRegenerate, Goto
  <2>2. staged' \in {staged, Broken} /\ live' \in {live, Broken}
    BY <2>1 DEF CutShort
  <2>3. TypeOK'
    BY <2>1, <2>2 DEF TypeOK, Regenerating
  <2>4. pc'[Boot] = "idle"
    BY <2>1 DEF Shape, Processes, TypeOK, Regenerating
  <2>5. Shape'
    BY <2>1, <2>4, RuleScriptAssumption DEF Shape, TypeOK, Processes
  <2> QED BY <2>3, <2>5
<1> QED BY <1>1, <1>2, <1>3, <1>4, <1>5

LEMMA TypeStep ==
  ASSUME TypeOK, Shape, [Next]_vars
  PROVE  TypeOK' /\ Shape'
<1>1. CASE UNCHANGED vars
  BY <1>1 DEF vars, TypeOK, Shape, files, locals, history, sharing
<1>2. CASE IsCurrentCheck
  <2>1. /\ pc[Boot] = "check" /\ shared' \in {shared, shared \ {"live"}}
        /\ UNCHANGED <<table, files, next, order, fd, crashes, failed, overlapped, unanswered>>
        /\ \/ /\ pc' = [pc EXCEPT ![Boot] = "idle"] /\ up' = TRUE
              /\ snapshot' = [snapshot EXCEPT ![Boot] = Null]
           \/ pc' = [pc EXCEPT ![Boot] = "open"] /\ UNCHANGED <<up, snapshot>>
    BY <1>2 DEF IsCurrentCheck, Goto
  <2>2. TypeOK'
    BY <2>1 DEF TypeOK, files, Regenerating
  <2>3. Shape'
    BY <2>1, RuleScriptAssumption DEF Shape, TypeOK, Processes
  <2> QED BY <2>2, <2>3
<1>3. CASE Crash
  <2>1. /\ failed' \in BOOLEAN /\ overlapped' \in BOOLEAN /\ up' \in BOOLEAN
        /\ unanswered' \in BOOLEAN /\ staged' \in {staged, Broken} /\ live' \in {live, Broken}
    BY <1>3 DEF Crash, CutShort
  <2>2. TypeOK'
    BY <1>3, <2>1, RuleScriptAssumption DEF Crash, TypeOK, Regenerating
  <2>3. Shape'
    BY <1>3, RuleScriptAssumption DEF Crash, Shape, Processes
  <2> QED BY <2>2, <2>3
<1> QED BY <1>1, <1>2, <1>3, NextIs, EditType, PreparationType, RegenerateType DEF Edit, Preparation

-----------------------------------------------------------------------------
(* Whole scripts *)

\* A step that touches no file, and that no one begins or ends to stage by.
LEMMA WholeKept ==
  ASSUME WholeInv, AnswerInv, UNCHANGED <<files, fd, sharing>>,
         \A p \in Processes : pc'[p] # pc[p] => {pc[p], pc'[p]} \cap {"write", "rename"} = {}
  PROVE  WholeInv' /\ AnswerInv'
<1>1. Staging' = Staging
  BY DEF Staging
<1>2. \A p \in Staging : pc'[p] = pc[p]
  BY DEF Staging
<1> QED BY <1>1, <1>2 DEF WholeInv, AnswerInv, TooMany, files, sharing

LEMMA OpenWhole ==
  ASSUME TypeOK, Shape, WholeInv, AnswerInv, NEW p \in Processes, OpenStaging(p)
  PROVE  WholeInv' /\ AnswerInv'
<1>1. /\ pc[p] = "open" /\ staged' = Partial /\ live' = live /\ Share(p)
      /\ fd' = [fd EXCEPT ![p] = "staged"] /\ pc' = [pc EXCEPT ![p] = "write"]
  BY DEF OpenStaging, Goto
<1>2. Staging' = Staging \cup {p} /\ p \notin Staging
  BY <1>1 DEF Staging, TypeOK
<1>3. staged' # Null
  BY <1>1, RuleScriptAssumption
<1>4. \A q \in Processes : fd'[q] = IF q = p THEN "staged" ELSE fd[q]
  BY <1>1 DEF TypeOK
<1>5. "live" \in shared' <=> "live" \in shared
  BY <1>1 DEF Share
<1>6. CASE Staging = {}
  <2>1. Staging' = {p} /\ pc'[p] = "write"
    BY <1>1, <1>2, <1>6 DEF TypeOK
  <2>2. ~unanswered
    BY <1>6 DEF AnswerInv, TooMany
  <2>3. ~unanswered'
    BY <1>1, <1>6, <2>2 DEF Share
  <2> QED BY <1>1, <1>3, <1>4, <1>5, <2>1, <2>3 DEF WholeInv, AnswerInv
<1>7. CASE Staging # {}
  <2>1. "staged" \in shared'
    BY <1>1, <1>2, <1>7 DEF Share
  <2>2. PICK q \in Staging : TRUE
    BY <1>7
  <2>3. TooMany'
    BY <1>2, <1>3, <2>2 DEF TooMany
  <2> QED BY <1>1, <1>3, <1>4, <1>5, <2>1, <2>3 DEF WholeInv, AnswerInv
<1> QED BY <1>6, <1>7

LEMMA WriteWhole ==
  ASSUME TypeOK, Shape, WholeInv, AnswerInv, NEW p \in Processes, WriteStaging(p)
  PROVE  WholeInv' /\ AnswerInv'
<1>1. /\ pc[p] = "write" /\ pc' = [pc EXCEPT ![p] = "rename"] /\ fd' = [fd EXCEPT ![p] = Null]
      /\ staged' \in IF fd[p] = "staged" THEN Overwritten(staged, snapshot[p]) ELSE {staged}
      /\ live' \in IF fd[p] = "live" THEN Overwritten(live, snapshot[p]) ELSE {live}
      /\ snapshot[p] \in Seq(Active) /\ UNCHANGED <<shared, unanswered>>
  BY DEF WriteStaging, Goto, Shape, history, sharing
<1>2. Staging' = Staging /\ p \in Staging /\ \A q \in Staging \ {p} : pc'[q] = pc[q]
  BY <1>1 DEF Staging, TypeOK
<1>3. \A q \in Processes : fd'[q] = IF q = p THEN Null ELSE fd[q]
  BY <1>1 DEF TypeOK
<1>4. staged' = Null <=> staged = Null
  <2>1. fd[p] = "staged" => staged # Null
    BY DEF WholeInv
  <2>2. \A old : Null \notin Overwritten(old, snapshot[p])
    BY <1>1, RuleScriptAssumption DEF Overwritten
  <2> QED BY <1>1, <2>1, <2>2
<1>5. \A q \in Processes : fd'[q] = "staged" => staged' # Null
  BY <1>3, <1>4, RuleScriptAssumption DEF WholeInv
<1>6. "live" \notin shared' => live' \in Seq(Active) /\ \A q \in Processes : fd'[q] # "live"
  BY <1>1, <1>3, RuleScriptAssumption DEF WholeInv
<1>7. ASSUME staged' # Null, "staged" \notin shared', NEW q \in Staging'
      PROVE  (\A r \in Staging' : r = q) /\ pc'[q] = "rename" /\ staged' \in Seq(Active)
  <2>1. \A r \in Staging : r = p
    BY <1>1, <1>2, <1>4, <1>7 DEF WholeInv
  <2>2. fd[p] = "staged" /\ staged = Partial
    BY <1>1, <1>2, <1>4, <1>7 DEF WholeInv
  <2>3. staged' = snapshot[p]
    BY <1>1, <2>2 DEF Overwritten
  <2>4. q = p /\ pc'[p] = "rename"
    BY <1>1, <1>2, <1>7, <2>1 DEF TypeOK
  <2> QED BY <1>1, <1>2, <2>1, <2>3, <2>4
<1>8. WholeInv'
  BY <1>5, <1>6, <1>7 DEF WholeInv
<1>9. AnswerInv'
  BY <1>1, <1>2, <1>4 DEF AnswerInv, TooMany
<1> QED BY <1>8, <1>9

LEMMA RenameWhole ==
  ASSUME TypeOK, Shape, WholeInv, AnswerInv, NEW p \in Processes, Rename(p)
  PROVE  WholeInv' /\ AnswerInv'
<1>1. /\ pc[p] = "rename" /\ pc' = [pc EXCEPT ![p] = "idle"] /\ staged # Null
      /\ live' = staged /\ staged' = Null /\ unanswered' = unanswered
      /\ shared' = IF "staged" \in shared THEN {"live"} ELSE {}
  BY DEF Rename, Install, Goto
<1>2. \A q \in Processes : fd'[q] # "staged" /\ (fd'[q] = "live" => fd[q] = "staged")
  BY DEF Rename, Install
<1>3. Staging' = Staging \ {p} /\ p \in Staging
  BY <1>1 DEF Staging, TypeOK
<1>4. "live" \notin shared' => live' \in Seq(Active) /\ \A q \in Processes : fd'[q] # "live"
  <2> SUFFICES ASSUME "staged" \notin shared
               PROVE  staged \in Seq(Active) /\ \A q \in Processes : fd[q] # "staged"
    BY <1>1, <1>2
  <2>1. (\A q \in Staging : q = p) /\ staged \in Seq(Active)
    BY <1>1, <1>3 DEF WholeInv
  <2>2. \A q \in Processes : fd[q] = "staged" => q \in Staging
    BY RuleScriptAssumption DEF Shape, Staging
  <2>3. fd[p] = Null
    BY <1>1 DEF Shape
  <2> QED BY <2>1, <2>2, <2>3, RuleScriptAssumption
<1>5. WholeInv'
  BY <1>1, <1>2, <1>4 DEF WholeInv
<1>6. AnswerInv'
  BY <1>1, <1>3 DEF AnswerInv, TooMany
<1> QED BY <1>5, <1>6

LEMMA FailWhole ==
  ASSUME TypeOK, Shape, WholeInv, AnswerInv, NEW p \in Processes, FailRegenerate(p)
  PROVE  WholeInv' /\ AnswerInv'
<1>1. /\ pc' = [pc EXCEPT ![p] = "idle"] /\ fd' = [fd EXCEPT ![p] = Null]
      /\ CutShort({p}) /\ unanswered' = (unanswered /\ p \notin Staging) /\ shared' = shared
  BY DEF FailRegenerate, Goto
<1>2. Staging' = Staging \ {p} /\ \A q \in Staging \ {p} : pc'[q] = pc[q]
  BY <1>1 DEF Staging, TypeOK
<1>3. /\ \A q \in Processes : fd'[q] = IF q = p THEN Null ELSE fd[q]
      /\ p \notin Staging => fd[p] = Null
  BY <1>1 DEF TypeOK, Shape, Staging
<1>4. /\ staged' = staged \/ (fd[p] = "staged" /\ staged' = Broken)
      /\ live' = live \/ fd[p] = "live"
  BY <1>1 DEF CutShort
<1>5. staged' = Null <=> staged = Null
  BY <1>4, RuleScriptAssumption DEF WholeInv
<1>6. \A q \in Processes : fd'[q] = "staged" => staged' # Null
  BY <1>3, <1>5, RuleScriptAssumption DEF WholeInv
<1>7. "live" \notin shared' => live' \in Seq(Active) /\ \A q \in Processes : fd'[q] # "live"
  BY <1>1, <1>3, <1>4, RuleScriptAssumption DEF WholeInv
<1>8. CASE p \in Staging
  <2>1. staged' # Null /\ "staged" \notin shared' => Staging' = {}
    BY <1>1, <1>2, <1>5, <1>8 DEF WholeInv
  <2> QED BY <1>1, <1>6, <1>7, <1>8, <2>1 DEF WholeInv, AnswerInv
<1>9. CASE p \notin Staging
  <2>1. staged' = staged /\ Staging' = Staging /\ \A q \in Staging : pc'[q] = pc[q] /\ fd'[q] = fd[q]
    BY <1>2, <1>3, <1>4, <1>9, RuleScriptAssumption DEF Staging
  <2> QED BY <1>1, <1>6, <1>7, <2>1 DEF WholeInv, AnswerInv, TooMany
<1> QED BY <1>8, <1>9

LEMMA WholeStep ==
  ASSUME TypeOK, Shape, WholeInv, AnswerInv, [Next]_vars
  PROVE  WholeInv' /\ AnswerInv'
<1>1. CASE UNCHANGED vars
  BY <1>1, WholeKept DEF vars, locals, history
<1>2. ASSUME NEW r \in Requests, Edit(r) PROVE WholeInv' /\ AnswerInv'
  <2>1. /\ UNCHANGED <<files, fd, sharing>> /\ pc[r] \in {"idle", "insert", "reorder"}
        /\ pc' = [pc EXCEPT ![r] = "list"]
    BY <1>2, EditIs DEF Commit, Goto
  <2>2. \A p \in Processes : pc'[p] # pc[p] => {pc[p], pc'[p]} \cap {"write", "rename"} = {}
    BY <2>1 DEF TypeOK
  <2> QED BY <2>1, <2>2, WholeKept
<1>3. ASSUME NEW r \in Requests, Preparation(r) PROVE WholeInv' /\ AnswerInv'
  <2>1. /\ UNCHANGED <<files, fd, sharing>> /\ pc[r] = "idle"
        /\ \E step \in {"insert", "reorder"} : pc' = [pc EXCEPT ![r] = step]
    BY <1>3, PreparationType DEF history
  <2>2. \A p \in Processes : pc'[p] # pc[p] => {pc[p], pc'[p]} \cap {"write", "rename"} = {}
    BY <2>1 DEF TypeOK
  <2> QED BY <2>1, <2>2, WholeKept
<1>4. CASE IsCurrentCheck
  <2>1. /\ UNCHANGED <<files, fd, unanswered>> /\ snapshot[Boot] \in Seq(Active)
        /\ pc[Boot] = "check" /\ \E step \in {"idle", "open"} : pc' = [pc EXCEPT ![Boot] = step]
        /\ shared' = shared \/ (shared' = shared \ {"live"} /\ live = snapshot[Boot])
    BY <1>4 DEF IsCurrentCheck, Goto, Shape, Processes
  <2>2. \A p \in Processes : pc[p] \notin {"write", "rename"} /\ fd[p] = Null
    BY <2>1 DEF Shape, Processes
  <2>3. \A p \in Processes : pc'[p] \notin {"write", "rename"}
    BY <2>1, <2>2 DEF TypeOK
  <2>4. Staging = {} /\ Staging' = {}
    BY <2>2, <2>3 DEF Staging
  <2> QED BY <2>1, <2>2, <2>4, RuleScriptAssumption DEF WholeInv, AnswerInv, TooMany, files
<1>5. ASSUME NEW p \in Processes, ListRules(p) PROVE WholeInv' /\ AnswerInv'
  <2>1. /\ UNCHANGED <<files, fd, sharing>> /\ pc[p] = "list"
        /\ \E step \in {"check", "open"} : pc' = [pc EXCEPT ![p] = step]
    BY <1>5 DEF ListRules, Goto, history
  <2>2. \A q \in Processes : pc'[q] # pc[q] => {pc[q], pc'[q]} \cap {"write", "rename"} = {}
    BY <2>1 DEF TypeOK
  <2> QED BY <2>1, <2>2, WholeKept
<1>6. CASE Crash
  <2>1. /\ \A q \in Processes : pc'[q] \notin {"write", "rename"} /\ fd'[q] = Null
        /\ ~unanswered' /\ shared' = shared /\ CutShort(Processes)
    BY <1>6 DEF Crash
  <2>2. Staging' = {}
    BY <2>1 DEF Staging
  <2>3. "live" \notin shared => live' = live
    BY <2>1 DEF CutShort, WholeInv
  <2> QED BY <2>1, <2>2, <2>3, RuleScriptAssumption DEF WholeInv, AnswerInv
<1> QED
  BY <1>1, <1>2, <1>3, <1>4, <1>5, <1>6, OpenWhole, WriteWhole, RenameWhole, FailWhole, NextIs
  DEF Edit, Preparation

-----------------------------------------------------------------------------
(* The rules in force *)

\* A step of the one process that regenerates, if anything does: no edit, no other.
LEMMA ForceKept ==
  ASSUME TypeOK, Shape, Shape', ForceInv, NEW p \in Processes, pc[p] \in {"check"} \cup Regenerating,
         table' = table, failed' = failed, overlapped' = overlapped,
         \A q \in Processes \ {p} : pc'[q] = pc[q] /\ snapshot'[q] = snapshot[q],
         pc'[p] \in {"idle", "check"} \cup Regenerating,
         ~failed /\ ~overlapped => Carries(p)',
         up' /\ pc'[p] = "idle" /\ ~failed /\ ~overlapped => live' \in Scripts(table)
  PROVE  ForceInv'
<1> SUFFICES ASSUME ~failed, ~overlapped
             PROVE  /\ \A q, s \in Processes :
                         pc'[q] \in Regenerating /\ pc'[s] \in Regenerating => q = s
                    /\ \A q \in Processes : Carries(q)'
                    /\ up' /\ AtRest' => live' \in Scripts(table')
  BY DEF ForceInv
<1>1. \A q \in Processes \ {p} : pc[q] \notin {"check"} \cup Regenerating
  <2>1. CASE pc[p] = "check"
    BY <2>1 DEF Shape, Processes, Regenerating
  <2>2. CASE pc[p] \in Regenerating
    <3>1. \A q \in Processes \ {p} : pc[q] \notin Regenerating
      BY <2>2 DEF ForceInv
    <3>2. \A q \in Processes \ {p} : pc[q] # "check"
      BY <2>2 DEF Shape, Processes, Regenerating
    <3> QED BY <3>1, <3>2
  <2> QED BY <2>1, <2>2
<1>2. \A q \in Processes \ {p} : Carries(q)'
  BY <1>1 DEF Carries, Regenerating
<1>3. up' /\ AtRest' => live' \in Scripts(table')
  <2>1. pc'[p] = "check" => ~up'
    BY DEF Shape, Processes
  <2> QED BY <2>1 DEF AtRest
<1> QED BY <1>1, <1>2, <1>3

LEMMA ForceStep ==
  ASSUME TypeOK, Shape, ForceInv, [Next]_vars
  PROVE  ForceInv'
<1>1. TypeOK' /\ Shape'
  BY TypeStep
<1>2. CASE UNCHANGED vars
  <2>1. UNCHANGED <<table, staged, live, up, pc, snapshot, fd, failed, overlapped>>
    BY <1>2 DEF vars, files, locals, history
  <2>2. \A p \in Processes : Carries(p) => Carries(p)'
    BY <2>1 DEF Carries
  <2>3. AtRest' <=> AtRest
    BY <2>1 DEF AtRest
  <2> QED BY <2>1, <2>2, <2>3 DEF ForceInv
<1>3. ASSUME NEW r \in Requests, Edit(r) PROVE ForceInv'
  <2>1. up /\ Commit(r, table')
    BY <1>3, EditIs
  <2>2. /\ pc' = [pc EXCEPT ![r] = "list"]
        /\ failed' = failed /\ overlapped' = (overlapped \/ \E q \in Requests \ {r} : pc[q] \in Regenerating)
    BY <2>1 DEF Commit, Goto
  <2> SUFFICES ASSUME ~failed', ~overlapped'
               PROVE  /\ \A p, q \in Processes :
                           pc'[p] \in Regenerating /\ pc'[q] \in Regenerating => p = q
                      /\ \A p \in Processes : Carries(p)'
                      /\ ~AtRest'
    BY DEF ForceInv
  <2>3. \A q \in Requests \ {r} : pc[q] \notin Regenerating
    BY <2>2
  <2>4. \A q \in Processes \ {r} : pc'[q] \notin Regenerating /\ pc'[q] # "check"
    BY <2>1, <2>2, <2>3 DEF Shape, TypeOK, Processes, Regenerating
  <2>5. pc'[r] = "list"
    BY <2>2 DEF TypeOK, Processes
  <2>6. ~AtRest'
    BY <2>5 DEF AtRest, Regenerating, Processes
  <2> QED BY <2>4, <2>5, <2>6 DEF Carries, Regenerating
<1>4. ASSUME NEW r \in Requests, Preparation(r) PROVE ForceInv'
  <2>1. /\ pc[r] = "idle" /\ UNCHANGED <<table, files, up, snapshot, fd, history>>
        /\ \E step \in {"insert", "reorder"} : pc' = [pc EXCEPT ![r] = step]
    BY <1>4, PreparationType
  <2>2. \A p \in Processes :
          \/ pc'[p] = pc[p]
          \/ pc[p] = "idle" /\ pc'[p] \in {"insert", "reorder"}
    BY <2>1 DEF TypeOK
  <2>3. \A p \in Processes : Carries(p) => Carries(p)'
    BY <2>1, <2>2 DEF Carries, files
  <2>4. AtRest' => AtRest
    BY <2>2 DEF AtRest, Regenerating
  <2> QED BY <2>1, <2>2, <2>3, <2>4 DEF ForceInv, files, history, Regenerating
<1>5. CASE IsCurrentCheck
  <2>1. /\ pc[Boot] = "check" /\ UNCHANGED <<table, files, fd, failed, overlapped>>
        /\ \/ /\ pc' = [pc EXCEPT ![Boot] = "idle"] /\ live = snapshot[Boot]
              /\ snapshot' = [snapshot EXCEPT ![Boot] = Null]
           \/ pc' = [pc EXCEPT ![Boot] = "open"] /\ UNCHANGED snapshot
    BY <1>5 DEF IsCurrentCheck, Goto
  <2>2. ~failed /\ ~overlapped => snapshot[Boot] \in Scripts(table)
    BY <2>1 DEF ForceInv, Carries, Processes
  <2>3. Boot \in Processes /\ pc'[Boot] \in {"idle", "open"}
    BY <2>1 DEF TypeOK, Processes
  <2>4. \A q \in Processes \ {Boot} :
          pc'[q] = pc[q] /\ snapshot'[q] = snapshot[q] /\ fd'[q] = fd[q]
    BY <2>1 DEF TypeOK
  <2>5. \/ pc'[Boot] = "idle" /\ live = snapshot[Boot]
        \/ pc'[Boot] = "open" /\ snapshot' = snapshot
    BY <2>1, <2>3 DEF TypeOK
  <2>6. ~failed /\ ~overlapped => Carries(Boot)'
    <3>1. table' = table
      BY <2>1
    <3> QED BY <2>2, <2>5, <3>1 DEF Carries
  <2> QED BY <1>1, <2>1, <2>2, <2>3, <2>4, <2>5, <2>6, ForceKept DEF files, Regenerating
<1>6. ASSUME NEW p \in Processes, ListRules(p) PROVE ForceInv'
  <2>1. /\ pc[p] = "list" /\ pc' = [pc EXCEPT ![p] = IF p = Boot THEN "check" ELSE "open"]
        /\ \E script \in Scripts(table) : snapshot' = [snapshot EXCEPT ![p] = script]
        /\ UNCHANGED <<table, files, fd, failed, overlapped>>
    BY <1>6 DEF ListRules, Goto, history
  <2>2. pc'[p] \in {"check", "open"} /\ snapshot'[p] \in Scripts(table)
    BY <2>1 DEF TypeOK
  <2>3. \A q \in Processes \ {p} : pc'[q] = pc[q] /\ snapshot'[q] = snapshot[q]
    BY <2>1 DEF TypeOK
  <2>4. Carries(p)'
    BY <2>1, <2>2 DEF Carries
  <2> QED BY <1>1, <2>1, <2>2, <2>3, <2>4, ForceKept DEF Regenerating
<1>7. ASSUME NEW p \in Processes, OpenStaging(p) PROVE ForceInv'
  <2>1. /\ pc[p] = "open" /\ pc' = [pc EXCEPT ![p] = "write"]
        /\ fd' = [fd EXCEPT ![p] = "staged"] /\ staged' = Partial
        /\ UNCHANGED <<table, snapshot, failed, overlapped>>
    BY <1>7 DEF OpenStaging, Goto
  <2>2. pc'[p] = "write" /\ fd'[p] = "staged"
    BY <2>1 DEF TypeOK
  <2>3. \A q \in Processes \ {p} : pc'[q] = pc[q] /\ snapshot'[q] = snapshot[q]
    BY <2>1 DEF TypeOK
  <2>4. ~failed /\ ~overlapped => snapshot[p] \in Scripts(table)
    BY <2>1 DEF ForceInv, Carries
  <2>5. ~failed /\ ~overlapped => Carries(p)'
    BY <2>1, <2>2, <2>4 DEF Carries
  <2> QED BY <1>1, <2>1, <2>2, <2>3, <2>5, ForceKept DEF Regenerating
<1>8. ASSUME NEW p \in Processes, WriteStaging(p) PROVE ForceInv'
  <2>1. /\ pc[p] = "write" /\ pc' = [pc EXCEPT ![p] = "rename"]
        /\ staged' \in IF fd[p] = "staged" THEN Overwritten(staged, snapshot[p]) ELSE {staged}
        /\ fd' = [fd EXCEPT ![p] = Null] /\ snapshot' = [snapshot EXCEPT ![p] = Null]
        /\ UNCHANGED <<table, failed, overlapped>>
    BY <1>8 DEF WriteStaging, Goto, history
  <2>2. pc'[p] = "rename"
    BY <2>1 DEF TypeOK
  <2>3. \A q \in Processes \ {p} : pc'[q] = pc[q] /\ snapshot'[q] = snapshot[q]
    BY <2>1 DEF TypeOK
  <2>4. ~failed /\ ~overlapped =>
          snapshot[p] \in Scripts(table) /\ fd[p] = "staged" /\ staged = Partial
    BY <2>1 DEF ForceInv, Carries
  <2>5. ~failed /\ ~overlapped => staged' = snapshot[p]
    BY <2>1, <2>4 DEF Overwritten
  <2>6. ~failed /\ ~overlapped => Carries(p)'
    BY <2>1, <2>2, <2>4, <2>5 DEF Carries
  <2> QED BY <1>1, <2>1, <2>2, <2>3, <2>6, ForceKept DEF Regenerating
<1>9. ASSUME NEW p \in Processes, Rename(p) PROVE ForceInv'
  <2>1. /\ pc[p] = "rename" /\ pc' = [pc EXCEPT ![p] = "idle"] /\ live' = staged
        /\ fd' = [q \in Processes |-> CASE fd[q] = "staged" -> "live" [] fd[q] = "live" -> "gone"
                                       [] OTHER -> fd[q]]
        /\ UNCHANGED <<table, snapshot, failed, overlapped>>
    BY <1>9 DEF Rename, Install, Goto
  <2>2. pc'[p] = "idle"
    BY <2>1 DEF TypeOK
  <2>3. \A q \in Processes \ {p} : pc'[q] = pc[q] /\ snapshot'[q] = snapshot[q]
    BY <2>1 DEF TypeOK
  <2>4. ~failed /\ ~overlapped => live' \in Scripts(table)
    BY <2>1 DEF ForceInv, Carries
  <2>5. Carries(p)'
    BY <2>2 DEF Carries
  <2> QED BY <1>1, <2>1, <2>2, <2>3, <2>4, <2>5, ForceKept DEF Regenerating
<1>10. ASSUME NEW p \in Processes, FailRegenerate(p) PROVE ForceInv'
  BY <1>10 DEF FailRegenerate, ForceInv
<1>11. CASE Crash
  <2>1. /\ up' = FALSE
        /\ \A p \in Processes : pc'[p] = IF p = Boot THEN "list" ELSE "idle"
    BY <1>11 DEF Crash
  <2> QED BY <2>1 DEF ForceInv, Carries, Regenerating
<1> QED
  BY <1>2, <1>3, <1>4, <1>5, <1>6, <1>7, <1>8, <1>9, <1>10, <1>11, NextIs DEF Edit, Preparation

-----------------------------------------------------------------------------
LEMMA Invariance == Spec => [](TypeOK /\ Shape /\ WholeInv /\ AnswerInv /\ ForceInv)
<1> DEFINE I == TypeOK /\ Shape /\ WholeInv /\ AnswerInv /\ ForceInv
<1>1. I /\ [Next]_vars => I'
  BY TypeStep, WholeStep, ForceStep
<1> QED BY InitInv, <1>1, PTL DEF Spec

\* The table, the files and the locals keep their types.
THEOREM TypeCorrect == Spec => []TypeOK
BY Invariance, PTL

\* However many edits there are, whichever of their steps fail and wherever the process
\* dies: at every moment Dovecot finds a whole script, unless regenerations had its file
\* for staging at once.  Who stages alone truncates what others left, and no one else
\* has the file open when it goes live.
THEOREM ScriptsAreWhole == Spec => []WholeUnlessShared
<1>1. WholeInv => WholeUnlessShared
  BY RuleScriptAssumption DEF WholeInv, WholeUnlessShared
<1> QED BY <1>1, Invariance, PTL

\* However many regenerations meet over the staging file, and in whatever order they
\* open, write and rename: when all have ended, one of them or of those who met them
\* later has failed.  A rename takes the one file away, so they stay too many for it.
THEOREM MeetingsAreAnswered == Spec => []SharingIsAnswered
<1>1. AnswerInv => SharingIsAnswered
  <2>1. AtRest => Staging = {}
    BY DEF AtRest, Staging, Regenerating
  <2> QED BY <2>1 DEF AnswerInv, TooMany, SharingIsAnswered
<1> QED BY <1>1, Invariance, PTL

\* For any number of rules and requests: once nothing is regenerating, the script is that
\* of the rules there are, unless edits overlapped or a regeneration failed.
THEOREM RulesAreInForce == Spec => []RulesInForce
<1>1. ForceInv => RulesInForce
  BY DEF ForceInv, RulesInForce
<1> QED BY <1>1, Invariance, PTL

-----------------------------------------------------------------------------
(* Texts, of any length: induction, and functions defined by recursion *)

Shorter(s) == {t \in Text : Len(t) < Len(s)}

\* A set of numbers has a least one.
LEMMA Least ==
  ASSUME NEW T, T \subseteq Nat, T # {}
  PROVE  \E n \in T : \A m \in T : n <= m
<1> DEFINE R == {ss \in Nat \X Nat : ss[1] < ss[2]}
<1>1. IsWellFoundedOn(R, Nat)
  BY NatLessThanWellFounded DEF OpToRel
<1> HIDE DEF R
<1>2. PICK n \in T : \A m \in T : ~(<<m, n>> \in R)
  BY <1>1, WFMin
<1>3. ASSUME NEW m \in T PROVE n <= m
  <2>1. <<m, n>> \in Nat \X Nat /\ m \in Nat /\ n \in Nat
    OBVIOUS
  <2>2. ~(m < n)
    BY <1>2, <2>1 DEF R
  <2> QED BY <2>1, <2>2
<1> QED BY <1>3

\* Induction on texts: a set that has a text whenever it has the shorter ones has all.
LEMMA TextInduction ==
  ASSUME NEW P, \A s \in Text : Shorter(s) \subseteq P => s \in P
  PROVE  Text \subseteq P
<1> SUFFICES ASSUME NEW s \in Text, s \notin P PROVE FALSE
  OBVIOUS
<1> DEFINE T == {Len(t) : t \in {u \in Text : u \notin P}}
<1>0. \A u \in Text : Len(u) \in Nat
  BY DEF Text
<1>1. T \subseteq Nat /\ T # {}
  BY <1>0
<1>2. PICK n \in T : \A m \in T : n <= m
  BY <1>1, Least
<1>3. PICK t \in Text : t \notin P /\ n = Len(t)
  OBVIOUS
<1>4. ASSUME NEW u \in Shorter(t) PROVE u \in P
  <2>1. u \in Text /\ Len(u) < Len(t) /\ Len(u) \in Nat /\ Len(t) \in Nat
    BY <1>3 DEF Shorter, Text
  <2>2. SUFFICES ASSUME u \notin P PROVE FALSE
    OBVIOUS
  <2>3. Len(u) \in T
    BY <2>1, <2>2
  <2> QED BY <1>2, <1>3, <2>1, <2>3
<1> QED BY <1>3, <1>4

\* A function on texts defined from its values on shorter ones exists.
Solves(D, B, n, g) ==
  /\ g \in [{s \in Text : Len(s) < n} -> B]
  /\ \A s \in Text : Len(s) < n => g[s] = D[s][[t \in Shorter(s) |-> g[t]]]

\* Two partial solutions of a recursion agree where both are defined.
LEMMA SolutionsAgree ==
  ASSUME NEW D, NEW B, NEW m \in Nat, NEW n \in Nat, NEW g, NEW h,
         Solves(D, B, m, g), Solves(D, B, n, h)
  PROVE  \A s \in Text : Len(s) < m /\ Len(s) < n => g[s] = h[s]
<1> DEFINE P == {s \in Text : Len(s) < m /\ Len(s) < n => g[s] = h[s]}
<1>1. ASSUME NEW s \in Text, Shorter(s) \subseteq P PROVE s \in P
  <2> SUFFICES ASSUME Len(s) < m, Len(s) < n PROVE g[s] = h[s]
    OBVIOUS
  <2>1. \A t \in Shorter(s) : g[t] = h[t]
    <3> SUFFICES ASSUME NEW t \in Shorter(s) PROVE g[t] = h[t]
      OBVIOUS
    <3>1. t \in Text /\ Len(t) < Len(s) /\ Len(t) \in Nat /\ Len(s) \in Nat
      BY DEF Shorter, Text
    <3>2. Len(t) < m /\ Len(t) < n
      BY <3>1
    <3> QED BY <1>1, <3>1, <3>2
  <2>2. [t \in Shorter(s) |-> g[t]] = [t \in Shorter(s) |-> h[t]]
    BY <2>1
  <2> QED BY <2>2 DEF Solves
<1>2. Text \subseteq P
  <2> HIDE DEF P
  <2> QED BY <1>1, TextInduction
<1> QED BY <1>2

\* D is the recursion: a text, and the values on the shorter texts, to a value of B.
LEMMA TextRecursion ==
  ASSUME NEW D, NEW B, \A s \in Text : \A g \in [Shorter(s) -> B] : D[s][g] \in B
  PROVE  \E f \in [Text -> B] : \A s \in Text : f[s] = D[s][[t \in Shorter(s) |-> f[t]]]
<1>1. \A n \in Nat : \E g : Solves(D, B, n, g)
  <2> DEFINE T == {n \in Nat : ~\E g : Solves(D, B, n, g)}
  <2> SUFFICES ASSUME T # {} PROVE FALSE
    OBVIOUS
  <2>1. PICK n \in T : \A m \in T : n <= m
    BY Least
  <2>2. n # 0
    <3> DEFINE g == [s \in {s \in Text : Len(s) < 0} |-> {}]
    <3>1. {s \in Text : Len(s) < 0} = {}
      BY DEF Text
    <3>2. Solves(D, B, 0, g)
      BY <3>1 DEF Solves
    <3> QED BY <3>2
  <2>3. n - 1 \in Nat /\ n - 1 \notin T
    BY <2>1, <2>2
  <2>4. PICK g : Solves(D, B, n - 1, g)
    BY <2>3
  <2> DEFINE h == [s \in {s \in Text : Len(s) < n} |-> D[s][[t \in Shorter(s) |-> g[t]]]]
  <2>5. ASSUME NEW s \in Text, Len(s) < n, NEW t \in Shorter(s)
        PROVE  t \in Text /\ Len(t) < n - 1 /\ Len(t) < n /\ g[t] \in B /\ h[t] = g[t]
    <3>1. t \in Text /\ Len(t) < Len(s) /\ Len(t) \in Nat /\ Len(s) \in Nat
      BY DEF Shorter, Text
    <3>2. Len(t) < n - 1 /\ Len(t) < n
      BY <2>5, <3>1
    <3> QED BY <2>4, <3>1, <3>2 DEF Solves
  <2>6. ASSUME NEW s \in Text, Len(s) < n
        PROVE  h[s] = D[s][[t \in Shorter(s) |-> h[t]]] /\ h[s] \in B
    <3>1. [t \in Shorter(s) |-> g[t]] = [t \in Shorter(s) |-> h[t]]
      BY <2>5, <2>6
    <3>2. [t \in Shorter(s) |-> g[t]] \in [Shorter(s) -> B]
      BY <2>5, <2>6
    <3>3. h[s] = D[s][[t \in Shorter(s) |-> g[t]]]
      BY <2>6
    <3> HIDE DEF h
    <3> QED BY <3>1, <3>2, <3>3
  <2>7. h \in [{s \in Text : Len(s) < n} -> B]
    BY <2>6
  <2>8. Solves(D, B, n, h)
    <3> HIDE DEF h
    <3> QED BY <2>6, <2>7 DEF Solves
  <2> QED BY <2>8
<1> DEFINE G(n) == CHOOSE g : Solves(D, B, n, g)
           f == [s \in Text |-> G(Len(s) + 1)[s]]
<1>2. ASSUME NEW n \in Nat, NEW s \in Text, Len(s) < n
      PROVE  f[s] = G(n)[s] /\ f[s] \in B
  <2>1. Len(s) \in Nat /\ Len(s) + 1 \in Nat /\ Len(s) < Len(s) + 1
    BY DEF Text
  <2>2. Solves(D, B, n, G(n)) /\ Solves(D, B, Len(s) + 1, G(Len(s) + 1))
    BY <1>1, <2>1
  <2>3. f[s] = G(Len(s) + 1)[s]
    OBVIOUS
  <2> HIDE DEF f, G
  <2>4. G(n)[s] = G(Len(s) + 1)[s]
    BY <1>2, <2>1, <2>2, SolutionsAgree
  <2>5. G(n)[s] \in B
    BY <1>2, <2>2 DEF Solves
  <2> QED BY <2>3, <2>4, <2>5
<1>3. ASSUME NEW s \in Text PROVE f[s] = D[s][[t \in Shorter(s) |-> f[t]]] /\ f[s] \in B
  <2> DEFINE n == Len(s) + 1
  <2>1. n \in Nat /\ Len(s) < n
    BY DEF Text
  <2>2. Solves(D, B, n, G(n))
    BY <1>1, <2>1
  <2>3. f[s] = G(n)[s] /\ f[s] \in B
    BY <1>2, <2>1
  <2>4. ASSUME NEW t \in Shorter(s) PROVE f[t] = G(n)[t]
    <3>1. t \in Text /\ Len(t) < Len(s) /\ Len(t) \in Nat /\ Len(s) \in Nat
      BY DEF Shorter, Text
    <3>2. Len(t) < n
      BY <2>1, <3>1
    <3> HIDE DEF f, G, n
    <3> QED BY <1>2, <2>1, <3>1, <3>2
  <2> HIDE DEF f, G, n
  <2>5. [t \in Shorter(s) |-> f[t]] = [t \in Shorter(s) |-> G(n)[t]]
    BY <2>4
  <2>6. G(n)[s] = D[s][[t \in Shorter(s) |-> G(n)[t]]]
    BY <2>1, <2>2 DEF Solves
  <2> QED BY <2>3, <2>5, <2>6
<1>4. f \in [Text -> B]
  BY <1>3
<1> HIDE DEF f
<1> QED BY <1>3, <1>4

-----------------------------------------------------------------------------
(* What Escape, Unquote and Glob compute *)

\* A text without its first two characters
Third(s) == SubSeq(s, 3, Len(s))

\* Putting characters before a text, and taking them off again.
LEMMA PutOne ==
  ASSUME NEW c \in Alphabet, NEW t \in Text
  PROVE  /\ <<c>> \o t \in Text /\ <<c>> \o t # <<>> /\ Len(<<c>> \o t) = Len(t) + 1
         /\ (<<c>> \o t)[1] = c /\ Tail(<<c>> \o t) = t
<1>1. <<c>> = Append(<<>>, c)
  OBVIOUS
<1>2. <<c>> \in Text
  BY <1>1 DEF Text
<1>3. <<c>> \o t \in Text /\ Len(<<c>> \o t) = Len(t) + 1 /\ (<<c>> \o t)[1] = c
  BY <1>2 DEF Text
<1>4. Tail(<<c>> \o t) = t
  BY <1>2, <1>3 DEF Text
<1>5. <<c>> \o t # <<>>
  BY <1>3 DEF Text
<1> QED BY <1>3, <1>4, <1>5

LEMMA PutTwo ==
  ASSUME NEW b \in Alphabet, NEW c \in Alphabet, NEW t \in Text, NEW s, s = <<b, c>> \o t
  PROVE  /\ s \in Text /\ s = <<b>> \o (<<c>> \o t)
         /\ Len(s) = Len(t) + 2 /\ s[1] = b /\ s[2] = c /\ Third(s) \in {t}
<1>1. <<b, c>> = Append(Append(<<>>, b), c) /\ <<c>> = Append(<<>>, c) /\ <<b>> = Append(<<>>, b)
  OBVIOUS
<1>2. <<b, c>> \in Text /\ <<c>> \in Text /\ <<b>> \in Text
  BY <1>1 DEF Text
<1>4. /\ s \in Text /\ Len(s) = Len(t) + 2 /\ Len(t) \in Nat /\ s[1] = b /\ s[2] = c
      /\ \A i \in 1..Len(t) : s[i + 2] = t[i]
  BY <1>2 DEF Text
<1>3. s = <<b>> \o (<<c>> \o t)
  <2> DEFINE u == <<b>> \o (<<c>> \o t)
  <2>1. u \in Text /\ Len(u) = Len(t) + 2 /\ u[1] = b /\ u[2] = c
        /\ \A i \in 1..Len(t) : u[i + 2] = t[i]
    BY <1>2 DEF Text
  <2> HIDE DEF u
  <2>2. \A i \in 1..Len(t) + 2 : i = 1 \/ i = 2 \/ i - 2 \in 1..Len(t)
    BY <1>4
  <2>3. \A i \in 1..Len(t) + 2 : s[i] = u[i]
    <3> SUFFICES ASSUME NEW i \in 1..Len(t) + 2, i - 2 \in 1..Len(t) PROVE s[i] = u[i]
      BY <1>4, <2>1, <2>2
    <3>1. i = (i - 2) + 2
      BY <1>4
    <3> QED BY <1>4, <2>1, <3>1
  <2>4. s = u
    <3>1. Len(s) = Len(u) /\ \A i \in 1..Len(s) : s[i] = u[i]
      BY <1>4, <2>1, <2>3
    <3> QED BY <1>4, <2>1, <3>1, SeqEqual DEF Text
  <2> QED BY <2>4 DEF u
<1>5. SubSeq(s, 3, Len(s)) = t
  <2>1. /\ SubSeq(s, 3, Len(s)) \in Text /\ Len(SubSeq(s, 3, Len(s))) = Len(t)
        /\ \A i \in 1..Len(t) : SubSeq(s, 3, Len(s))[i] = s[i + 2]
    BY <1>4 DEF Text
  <2> QED BY <1>4, <2>1 DEF Text
<1> QED BY <1>3, <1>4, <1>5 DEF Third

\* Every other text is a character before a shorter one.
LEMMA Tails ==
  ASSUME NEW s \in Text, s # <<>>
  PROVE  s[1] \in Alphabet /\ Tail(s) \in Shorter(s) /\ s = <<s[1]>> \o Tail(s)
<1>1. Len(s) \in Nat /\ Len(s) > 0 /\ s[1] \in Alphabet /\ Tail(s) \in Text /\ Len(Tail(s)) = Len(s) - 1
  BY DEF Text
<1>2. s = <<s[1]>> \o Tail(s)
  BY <1>1 DEF Text
<1> QED BY <1>1, <1>2 DEF Shorter

\* One character, escaped
Code(c, special) == IF c \in special THEN <<Backslash, c>> ELSE <<c>>

LEMMA CodeType ==
  ASSUME NEW c \in Alphabet, NEW special
  PROVE  Code(c, special) \in Text
<1>1. Backslash \in Alphabet
  BY FiltersAssumption
<1>2. <<Backslash, c>> = Append(Append(<<>>, Backslash), c) /\ <<c>> = Append(<<>>, c)
  OBVIOUS
<1> QED BY <1>1, <1>2 DEF Code, Text

\* Escape, Unquote and Glob are what their definitions say: the functions exist.
LEMMA EscapeEquation ==
  ASSUME NEW special
  PROVE  \A v \in Text :
           Escape(special)[v] = IF v = <<>> THEN <<>>
                                ELSE Code(v[1], special) \o Escape(special)[Tail(v)]
<1> DEFINE D == [s \in Text |-> [g \in [Shorter(s) -> Text] |->
                  IF s = <<>> THEN <<>> ELSE Code(s[1], special) \o g[Tail(s)]]]
           Is(h) == h = [value \in Text |->
                          IF value = <<>> THEN <<>>
                          ELSE (IF value[1] \in special THEN <<Backslash, value[1]>> ELSE <<value[1]>>)
                                 \o h[Tail(value)]]
<1>1. ASSUME NEW s \in Text, NEW g \in [Shorter(s) -> Text] PROVE D[s][g] \in Text
  <2>1. CASE s = <<>>
    BY <2>1 DEF Text
  <2>2. CASE s # <<>>
    <3>1. D[s][g] = Code(s[1], special) \o g[Tail(s)]
      BY <2>2
    <3>2. Code(s[1], special) \in Text /\ g[Tail(s)] \in Text
      BY <2>2, Tails, CodeType
    <3> QED BY <3>1, <3>2 DEF Text
  <2> QED BY <2>1, <2>2
<1>2. PICK f \in [Text -> Text] : \A s \in Text : f[s] = D[s][[t \in Shorter(s) |-> f[t]]]
  <2> HIDE DEF D
  <2> QED BY <1>1, TextRecursion
<1>3. ASSUME NEW s \in Text
      PROVE  f[s] = IF s = <<>> THEN <<>> ELSE Code(s[1], special) \o f[Tail(s)]
  <2> DEFINE g == [t \in Shorter(s) |-> f[t]]
  <2>1. g \in [Shorter(s) -> Text] /\ f[s] = D[s][g]
    BY <1>2 DEF Shorter
  <2>2. s # <<>> => g[Tail(s)] = f[Tail(s)]
    BY Tails
  <2> HIDE DEF g
  <2> QED BY <2>1, <2>2
<1>4. Is(f)
  BY <1>2, <1>3 DEF Code
<1>5. Escape(special) = CHOOSE h : Is(h)
  BY DEF Escape
<1>6. Is(Escape(special))
  <2> HIDE DEF Is
  <2> QED BY <1>4, <1>5
<1> QED BY <1>6 DEF Code

LEMMA TwoLeft ==
  ASSUME NEW s \in Text, Len(s) > 1
  PROVE  s[2] \in Alphabet /\ Third(s) \in Shorter(s)
<1>1. Len(s) \in Nat /\ s[2] \in Alphabet /\ \A i \in 3..Len(s) : s[i] \in Alphabet
  BY DEF Text
<1>2. /\ SubSeq(s, 3, Len(s)) \in Seq(Alphabet)
      /\ Len(SubSeq(s, 3, Len(s))) = IF 3 <= Len(s) THEN Len(s) - 3 + 1 ELSE 0
  BY <1>1, SubSeqProperties
<1> QED BY <1>1, <1>2 DEF Shorter, Text, Third

LEMMA UnquoteEquation ==
  \A s \in Text :
    Unquote[s] = IF Len(s) < 2 THEN s
                 ELSE IF s[1] = Backslash THEN <<s[2]>> \o Unquote[Third(s)]
                 ELSE <<s[1]>> \o Unquote[Tail(s)]
<1> DEFINE D == [s \in Text |-> [g \in [Shorter(s) -> Text] |->
                  IF Len(s) < 2 THEN s
                  ELSE IF s[1] = Backslash THEN <<s[2]>> \o g[Third(s)]
                  ELSE <<s[1]>> \o g[Tail(s)]]]
           Is(h) == h = [s \in Text |->
                          IF Len(s) < 2 THEN s
                          ELSE IF s[1] = Backslash THEN <<s[2]>> \o h[Third(s)]
                          ELSE <<s[1]>> \o h[Tail(s)]]
<1>1. ASSUME NEW s \in Text, ~(Len(s) < 2)
      PROVE  /\ s[1] \in Alphabet /\ s[2] \in Alphabet
             /\ Third(s) \in Shorter(s) /\ Tail(s) \in Shorter(s)
  <2>1. Len(s) \in Nat /\ s # <<>>
    BY <1>1 DEF Text
  <2>2. Len(s) > 1
    BY <1>1, <2>1
  <2> QED BY <2>1, <2>2, Tails, TwoLeft
<1>2. ASSUME NEW s \in Text, NEW g \in [Shorter(s) -> Text] PROVE D[s][g] \in Text
  <2>1. CASE Len(s) < 2
    BY <2>1
  <2>2. CASE ~(Len(s) < 2) /\ s[1] = Backslash
    <3>1. D[s][g] = <<s[2]>> \o g[Third(s)]
      BY <2>2
    <3> QED BY <1>1, <2>2, <3>1, PutOne
  <2>3. CASE ~(Len(s) < 2) /\ s[1] # Backslash
    <3>1. D[s][g] = <<s[1]>> \o g[Tail(s)]
      BY <2>3
    <3> QED BY <1>1, <2>3, <3>1, PutOne
  <2> QED BY <2>1, <2>2, <2>3
<1>3. PICK f \in [Text -> Text] : \A s \in Text : f[s] = D[s][[t \in Shorter(s) |-> f[t]]]
  <2> HIDE DEF D
  <2> QED BY <1>2, TextRecursion
<1>4. ASSUME NEW s \in Text
      PROVE  f[s] = IF Len(s) < 2 THEN s
                    ELSE IF s[1] = Backslash THEN <<s[2]>> \o f[Third(s)]
                    ELSE <<s[1]>> \o f[Tail(s)]
  <2> DEFINE g == [t \in Shorter(s) |-> f[t]]
  <2>1. g \in [Shorter(s) -> Text] /\ f[s] = D[s][g]
    BY <1>3 DEF Shorter
  <2>2. ~(Len(s) < 2) => /\ g[Tail(s)] = f[Tail(s)]
                         /\ g[Third(s)] = f[Third(s)]
    BY <1>1
  <2> HIDE DEF g
  <2> QED BY <2>1, <2>2
<1>5. Is(f)
  BY <1>3, <1>4
<1>6. Unquote = CHOOSE h : Is(h)
  BY DEF Unquote, Third
<1>7. Is(Unquote)
  <2> HIDE DEF Is
  <2> QED BY <1>5, <1>6
<1> QED BY <1>7

\* The rests of a text that one character or any text before them leaves.
Rests(t) == {SubSeq(t, i, Len(t)) : i \in 1..Len(t) + 1}

LEMMA RestsType == \A t \in Text : Rests(t) \subseteq Text
<1> SUFFICES ASSUME NEW t \in Text, NEW i \in 1..Len(t) + 1 PROVE SubSeq(t, i, Len(t)) \in Text
  BY DEF Rests
<1>1. Len(t) \in Nat /\ i \in Int /\ \A j \in i..Len(t) : t[j] \in Alphabet
  BY DEF Text
<1> QED BY <1>1, SubSeqProperties DEF Text

\* One character of a pattern on a text, where u and v are what the pattern without
\* its first one and two characters answers.
Match(many, one, p, t, u, v) ==
  IF p = <<>> THEN t = <<>>
  ELSE IF p[1] = many THEN \E i \in 1..Len(t) + 1 : u[SubSeq(t, i, Len(t))]
  ELSE IF p[1] = Backslash /\ Len(p) > 1 THEN t # <<>> /\ t[1] = p[2] /\ v[Tail(t)]
  ELSE t # <<>> /\ p[1] \in {t[1], one} /\ u[Tail(t)]

LEMMA GlobEquation ==
  ASSUME NEW many, NEW one
  PROVE  \A p, t \in Text :
           Glob(many, one)[p][t] = Match(many, one, p, t, Glob(many, one)[Tail(p)],
                                         Glob(many, one)[Third(p)])
<1> DEFINE B == [Text -> BOOLEAN]
           D == [p \in Text |-> [g \in [Shorter(p) -> B] |-> [t \in Text |->
                  Match(many, one, p, t, g[Tail(p)], g[Third(p)])]]]
           Is(h) == h = [p \in Text |-> [t \in Text |->
                          Match(many, one, p, t, h[Tail(p)], h[Third(p)])]]
<1>1. ASSUME NEW p \in Text, NEW g \in [Shorter(p) -> B] PROVE D[p][g] \in B
  BY DEF Match
<1>2. PICK f \in [Text -> B] : \A p \in Text : f[p] = D[p][[t \in Shorter(p) |-> f[t]]]
  <2> HIDE DEF D, B
  <2> QED BY <1>1, TextRecursion
<1>3. ASSUME NEW p \in Text
      PROVE  f[p] = [t \in Text |-> Match(many, one, p, t, f[Tail(p)], f[Third(p)])]
  <2> DEFINE g == [t \in Shorter(p) |-> f[t]]
  <2>1. g \in [Shorter(p) -> B]
    BY <1>2 DEF Shorter
  <2>2. f[p] = [t \in Text |-> Match(many, one, p, t, g[Tail(p)], g[Third(p)])]
    <3>1. f[p] = D[p][g]
      BY <1>2
    <3> HIDE DEF g, B
    <3>2. D[p] = [x \in [Shorter(p) -> B] |-> [t \in Text |->
                    Match(many, one, p, t, x[Tail(p)], x[Third(p)])]]
      OBVIOUS
    <3>3. D[p][g] = [t \in Text |-> Match(many, one, p, t, g[Tail(p)], g[Third(p)])]
      BY <2>1, <3>2
    <3> QED BY <3>1, <3>3
  <2>3. ASSUME NEW t \in Text
        PROVE  Match(many, one, p, t, g[Tail(p)], g[Third(p)])
               = Match(many, one, p, t, f[Tail(p)], f[Third(p)])
    <3>1. p # <<>> => g[Tail(p)] = f[Tail(p)]
      BY Tails
    <3>2. Len(p) > 1 => g[Third(p)] = f[Third(p)]
      BY TwoLeft
    <3>3. /\ \A x, y, x2, y2 : p = <<>> => Match(many, one, p, t, x, y) = Match(many, one, p, t, x2, y2)
          /\ \A x, y, y2 : ~(Len(p) > 1) => Match(many, one, p, t, x, y) = Match(many, one, p, t, x, y2)
      BY DEF Match
    <3>4. Len(p) > 1 => p # <<>>
      BY DEF Text
    <3> HIDE DEF g
    <3> QED BY <3>1, <3>2, <3>3, <3>4
  <2> HIDE DEF g, B
  <2> QED BY <2>2, <2>3
<1>4. Is(f)
  BY <1>2, <1>3
<1>5. Glob(many, one) = CHOOSE h : Is(h)
  BY DEF Glob, Match, Third
<1>6. Is(Glob(many, one))
  <2> HIDE DEF Is
  <2> QED BY <1>4, <1>5
<1> DEFINE G == Glob(many, one)
<1>7. G = [p \in Text |-> [t \in Text |->
             Match(many, one, p, t, G[Tail(p)], G[Third(p)])]]
  BY <1>6
<1> HIDE DEF G
<1>8. ASSUME NEW p \in Text, NEW t \in Text
      PROVE  G[p][t] = Match(many, one, p, t, G[Tail(p)], G[Third(p)])
  <2>1. G[p] = [x \in Text |-> Match(many, one, p, x, G[Tail(p)], G[Third(p)])]
    BY <1>7
  <2> QED BY <2>1
<1> QED BY <1>8 DEF G

\* Joining texts.
LEMMA Joins ==
  /\ <<>> \in Text
  /\ \A a, b \in Text : a \o b \in Text
  /\ \A a \in Text : a \o <<>> = a /\ <<>> \o a = a
  /\ \A a, b, c \in Text : (a \o b) \o c = a \o (b \o c)
<1>1. /\ <<>> \in Text /\ \A a, b \in Text : a \o b \in Text
      /\ \A a \in Text : a \o <<>> = a /\ <<>> \o a = a
  BY DEF Text
<1>2. \A a, b, c \in Text : (a \o b) \o c = a \o (b \o c)
  BY ConcatAssociative DEF Text
<1> QED BY <1>1, <1>2

LEMMA JoinTwice ==
  ASSUME NEW a \in Text, NEW b \in Text, NEW c \in Text
  PROVE  (a \o b) \o c = a \o (b \o c)
BY ConcatAssociative DEF Text

LEMMA Single == \A c \in Alphabet : <<c>> \in Text
<1>1. \A c : <<c>> = Append(<<>>, c)
  OBVIOUS
<1> QED BY <1>1 DEF Text

\* Escape, text by text.
LEMMA EscapeLaws ==
  ASSUME NEW special
  PROVE  /\ Escape(special)[<<>>] = <<>>
         /\ \A v \in Text : Escape(special)[v] \in Text
         /\ \A c \in Alphabet, w \in Text :
              Escape(special)[<<c>> \o w] = Code(c, special) \o Escape(special)[w]
<1> DEFINE E == Escape(special)
           P == {v \in Text : E[v] \in Text}
<1>1. E[<<>>] = <<>> /\ \A v \in Text : v # <<>> => E[v] = Code(v[1], special) \o E[Tail(v)]
  BY EscapeEquation, Joins
<1> HIDE DEF E
<1>2. ASSUME NEW c \in Alphabet, NEW w \in Text
      PROVE  E[<<c>> \o w] = Code(c, special) \o E[w]
  <2>1. <<c>> \o w \in Text /\ <<c>> \o w # <<>> /\ (<<c>> \o w)[1] = c /\ Tail(<<c>> \o w) = w
    BY PutOne
  <2> QED BY <1>1, <2>1
<1>3. ASSUME NEW v \in Text, Shorter(v) \subseteq P PROVE v \in P
  <2>1. CASE v = <<>>
    BY <1>1, <2>1, Joins
  <2>2. CASE v # <<>>
    <3>1. E[v] = Code(v[1], special) \o E[Tail(v)] /\ v[1] \in Alphabet /\ Tail(v) \in Shorter(v)
      BY <1>1, <2>2, Tails
    <3>2. E[Tail(v)] \in Text /\ Code(v[1], special) \in Text
      BY <1>3, <3>1, CodeType
    <3>3. Code(v[1], special) \o E[Tail(v)] \in Text
      BY <3>2, Joins
    <3> QED BY <3>1, <3>3
  <2> QED BY <2>1, <2>2
<1>4. Text \subseteq P
  <2> HIDE DEF P
  <2> QED BY <1>3, TextInduction
<1> QED BY <1>1, <1>2, <1>4 DEF E

\* A text without special characters is its own escape.
LEMMA EscapePlain ==
  ASSUME NEW special
  PROVE  \A v \in Text : (\A i \in DOMAIN v : v[i] \notin special) => Escape(special)[v] = v
<1> DEFINE Plain(v) == \A i \in 1..Len(v) : v[i] \notin special
           P == {v \in Text : Plain(v) => Escape(special)[v] = v}
<1>1. ASSUME NEW v \in Text, Shorter(v) \subseteq P PROVE v \in P
  <2>1. CASE v = <<>>
    BY <2>1, EscapeLaws
  <2>2. CASE v # <<>> /\ Plain(v)
    <3>1. v[1] \in Alphabet /\ Tail(v) \in Shorter(v) /\ v = <<v[1]>> \o Tail(v) /\ Tail(v) \in Text
      BY <2>2, Tails DEF Shorter
    <3>2. /\ Len(v) \in Nat /\ Len(Tail(v)) \in Nat /\ Len(v) = Len(Tail(v)) + 1
          /\ \A i \in 1..Len(Tail(v)) : Tail(v)[i] = v[i + 1]
      BY <2>2 DEF Text
    <3>3. Plain(Tail(v)) /\ v[1] \notin special
      BY <2>2, <3>2
    <3>4. Escape(special)[Tail(v)] = Tail(v)
      BY <1>1, <3>1, <3>3
    <3>5. Code(v[1], special) = <<v[1]>>
      BY <3>3 DEF Code
    <3>6. Escape(special)[<<v[1]>> \o Tail(v)] = Code(v[1], special) \o Escape(special)[Tail(v)]
      BY <3>1, EscapeLaws
    <3> QED BY <3>1, <3>4, <3>5, <3>6
  <2> QED BY <2>1, <2>2
<1>2. Text \subseteq P
  <2> HIDE DEF P
  <2> QED BY <1>1, TextInduction
<1>3. \A v \in Text : DOMAIN v = 1..Len(v)
  BY DEF Text
<1> QED BY <1>2, <1>3

\* A character that is no backslash stays.
LEMMA UnquoteOne ==
  ASSUME NEW c \in Alphabet, NEW s \in Text, c # Backslash, Unquote[s] \in Text
  PROVE  Unquote[<<c>> \o s] = <<c>> \o Unquote[s]
<1>1. /\ <<c>> \o s \in Text /\ Len(<<c>> \o s) = Len(s) + 1 /\ (<<c>> \o s)[1] = c
      /\ Tail(<<c>> \o s) = s /\ Len(s) \in Nat /\ (Len(s) = 0 => s = <<>>)
  BY PutOne DEF Text
<1>2. CASE s = <<>>
  <2>1. Len(s) = 0
    BY <1>2
  <2>2. Len(<<c>> \o s) < 2 /\ Len(s) < 2
    BY <1>1, <2>1
  <2>3. Unquote[s] = s
    BY <2>2, UnquoteEquation
  <2>4. Unquote[<<c>> \o s] = <<c>> \o s
    BY <1>1, <2>2, UnquoteEquation
  <2> QED BY <2>3, <2>4
<1>3. CASE s # <<>>
  <2>1. ~(Len(<<c>> \o s) < 2)
    BY <1>1, <1>3
  <2> QED BY <1>1, <1>1, <2>1, UnquoteEquation
<1> QED BY <1>2, <1>3

\* Unquoting takes off what escaping put on, whatever was escaped besides the backslash.
LEMMA UnquoteEscape ==
  ASSUME NEW special, Backslash \in special, NEW t \in Text, Unquote[t] = t
  PROVE  \A v \in Text : Unquote[Escape(special)[v] \o t] = v \o t
<1> DEFINE E == Escape(special)
           P == {v \in Text : Unquote[E[v] \o t] = v \o t}
<1>0. /\ E[<<>>] = <<>> /\ \A v \in Text : E[v] \in Text
      /\ \A c \in Alphabet, w \in Text : E[<<c>> \o w] = Code(c, special) \o E[w]
  BY EscapeLaws
<1> HIDE DEF E
<1>2. ASSUME NEW c \in Alphabet, NEW s \in Text
      PROVE  Unquote[<<Backslash, c>> \o s] = <<c>> \o Unquote[s]
  <2> DEFINE u == <<Backslash, c>> \o s
  <2>1. Backslash \in Alphabet
    BY FiltersAssumption
  <2>2. /\ u = <<Backslash>> \o (<<c>> \o s)
        /\ Len(u) = Len(s) + 2 /\ u[1] = Backslash /\ u[2] = c /\ Third(u) = s
    <3>1. u = <<Backslash, c>> \o s
      OBVIOUS
    <3> HIDE DEF u
    <3>2. u = <<Backslash>> \o (<<c>> \o s) /\ Len(u) = Len(s) + 2
      BY <2>1, <3>1, PutTwo
    <3>3. u[1] = Backslash /\ u[2] = c
      BY <2>1, <3>1, PutTwo
    <3>4. Third(u) \in {s}
      BY <2>1, <3>1, PutTwo
    <3> QED BY <3>2, <3>3, <3>4
  <2>3. u \in Text
    BY <2>1, <2>2, PutOne
  <2>4. ~(Len(u) < 2)
    BY <2>2 DEF Text
  <2> HIDE DEF u
  <2>5. Unquote[u] = <<c>> \o Unquote[s]
    BY <2>2, <2>3, <2>4, UnquoteEquation
  <2> QED BY <2>5 DEF u
<1>3. ASSUME NEW v \in Text, Shorter(v) \subseteq P PROVE v \in P
  <2>1. CASE v = <<>>
    BY <1>0, <2>1, Joins
  <2>2. CASE v # <<>>
    <3> DEFINE c == v[1]
               w == Tail(v)
    <3>1. c \in Alphabet /\ w \in Shorter(v) /\ w \in Text /\ v = <<c>> \o w
      BY <2>2, Tails DEF Shorter
    <3> HIDE DEF c, w
    <3>2. Unquote[E[w] \o t] = w \o t /\ E[w] \in Text /\ E[w] \o t \in Text /\ w \o t \in Text
      BY <1>0, <1>3, <3>1, Joins
    <3>3. E[v] \o t = Code(c, special) \o (E[w] \o t)
      <4>1. E[v] = Code(c, special) \o E[w] /\ Code(c, special) \in Text
        BY <1>0, <3>1, CodeType
      <4>2. (Code(c, special) \o E[w]) \o t = Code(c, special) \o (E[w] \o t)
        BY <3>2, <4>1, JoinTwice
      <4> QED BY <4>1, <4>2
    <3>4. Unquote[Code(c, special) \o (E[w] \o t)] = <<c>> \o (w \o t)
      <4>1. CASE c \in special
        BY <1>2, <3>1, <3>2, <4>1 DEF Code
      <4>2. CASE c \notin special
        BY UnquoteOne, <3>1, <3>2, <4>2 DEF Code
      <4> QED BY <4>1, <4>2
    <3>5. <<c>> \o (w \o t) = v \o t
      <4>1. <<c>> \in Text
        BY <3>1, Single
      <4>2. (<<c>> \o w) \o t = <<c>> \o (w \o t)
        BY <3>1, <4>1, Joins
      <4> QED BY <3>1, <4>2
    <3> QED BY <3>3, <3>4, <3>5
  <2> QED BY <2>1, <2>2
<1>4. Text \subseteq P
  <2> HIDE DEF P
  <2> QED BY <1>3, TextInduction
<1> QED BY <1>4 DEF E

\* What a piece of a text is, character by character.
LEMMA Piece ==
  ASSUME NEW t \in Text, NEW v \in Text, NEW i \in 1..Len(t) + 1, NEW j \in Int, i - 1 <= j, j <= Len(t)
  PROVE  /\ SubSeq(t, i, j) \in Text
         /\ SubSeq(t, i, j) = v <=> /\ Len(v) = j - i + 1
                                    /\ \A k \in 1..Len(v) : t[i + k - 1] = v[k]
<1>1. Len(t) \in Nat /\ i \in Int /\ Len(v) \in Nat /\ \A k \in i..j : t[k] \in Alphabet
  BY DEF Text
<1>2. /\ SubSeq(t, i, j) \in Seq(Alphabet)
      /\ Len(SubSeq(t, i, j)) = IF i <= j THEN j - i + 1 ELSE 0
      /\ \A k \in 1..j - i + 1 : SubSeq(t, i, j)[k] = t[i + k - 1]
  BY <1>1, SubSeqProperties
<1> DEFINE s == SubSeq(t, i, j)
<1> HIDE DEF s
<1>3. s \in Seq(Alphabet) /\ Len(s) = j - i + 1 /\ \A k \in 1..j - i + 1 : s[k] = t[i + k - 1]
  BY <1>1, <1>2 DEF s
<1>4. ASSUME Len(v) = j - i + 1, \A k \in 1..Len(v) : t[i + k - 1] = v[k] PROVE s = v
  <2>1. Len(s) = Len(v) /\ \A k \in 1..Len(s) : s[k] = v[k]
    BY <1>3, <1>4
  <2> QED BY <1>3, <2>1, SeqEqual DEF Text
<1>5. ASSUME s = v PROVE Len(v) = j - i + 1 /\ \A k \in 1..Len(v) : t[i + k - 1] = v[k]
  BY <1>3, <1>5
<1> QED BY <1>3, <1>4, <1>5 DEF s, Text

\* What a text is that starts with another one.
LEMMA Joined ==
  ASSUME NEW t \in Text, NEW v \in Text
  PROVE  (\E r \in Text : t = v \o r) <=> /\ Len(v) <= Len(t)
                                          /\ \A k \in 1..Len(v) : t[k] = v[k]
<1>0. Len(t) \in Nat /\ Len(v) \in Nat
  BY DEF Text
<1>1. ASSUME NEW r \in Text, t = v \o r
      PROVE  Len(v) <= Len(t) /\ \A k \in 1..Len(v) : t[k] = v[k]
  <2>1. Len(v \o r) = Len(v) + Len(r) /\ \A k \in 1..Len(v) : (v \o r)[k] = v[k]
    BY DEF Text
  <2>2. Len(r) \in Nat
    BY DEF Text
  <2> QED BY <1>0, <1>1, <2>1, <2>2
<1>2. ASSUME Len(v) <= Len(t), \A k \in 1..Len(v) : t[k] = v[k]
      PROVE  \E r \in Text : t = v \o r
  <2> DEFINE r == SubSeq(t, Len(v) + 1, Len(t))
  <2>1. \A k \in Len(v) + 1..Len(t) : t[k] \in Alphabet
    BY <1>0 DEF Text
  <2>2. /\ r \in Seq(Alphabet)
        /\ Len(r) = IF Len(v) + 1 <= Len(t) THEN Len(t) - (Len(v) + 1) + 1 ELSE 0
        /\ \A k \in 1..Len(t) - (Len(v) + 1) + 1 : r[k] = t[Len(v) + 1 + k - 1]
    <3>1. Len(v) + 1 \in Int /\ Len(t) \in Int
      BY <1>0
    <3> QED BY <2>1, <3>1, SubSeqProperties
  <2> HIDE DEF r
  <2>3. Len(r) = Len(t) - Len(v) /\ \A k \in 1..Len(t) - Len(v) : r[k] = t[Len(v) + k]
    BY <1>0, <1>2, <2>2
  <2> DEFINE u == v \o r
  <2>4. /\ u \in Seq(Alphabet) /\ Len(u) = Len(v) + Len(r)
        /\ \A k \in 1..Len(v) + Len(r) : u[k] = IF k <= Len(v) THEN v[k] ELSE r[k - Len(v)]
    BY <2>2, ConcatProperties DEF Text
  <2> HIDE DEF u
  <2>5. Len(u) = Len(t)
    BY <1>0, <2>3, <2>4
  <2>6. ASSUME NEW k \in 1..Len(t) PROVE u[k] = t[k]
    <3>1. CASE k <= Len(v)
      BY <1>0, <1>2, <2>3, <2>4, <3>1
    <3>2. CASE ~(k <= Len(v))
      <4>1. k - Len(v) \in 1..Len(t) - Len(v) /\ Len(v) + (k - Len(v)) = k
        BY <1>0, <3>2
      <4>2. u[k] = r[k - Len(v)]
        BY <1>0, <2>3, <2>4, <3>2
      <4> QED BY <2>3, <4>1, <4>2
    <3> QED BY <3>1, <3>2
  <2>7. u = t
    BY <2>4, <2>5, <2>6, SeqEqual DEF Text
  <2> QED BY <2>2, <2>7 DEF u, Text
<1> QED BY <1>1, <1>2

\* A text that starts with another, has it somewhere, or ends with it.
LEMMA PrefixIs ==
  ASSUME NEW t \in Text, NEW v \in Text
  PROVE  (\E r \in Text : t = v \o r) <=> IsPrefix(v, t)
<1>0. Len(t) \in Nat /\ Len(v) \in Nat
  BY DEF Text
<1>1. SubSeq(v, 1, Len(v)) = v
  BY SubSeqFull DEF Text
<1>2. Len(v) <= Len(t) => (SubSeq(t, 1, Len(v)) = v <=> \A k \in 1..Len(v) : t[k] = v[k])
  <2> SUFFICES ASSUME Len(v) <= Len(t)
               PROVE  SubSeq(t, 1, Len(v)) = v <=> \A k \in 1..Len(v) : t[k] = v[k]
    OBVIOUS
  <2>1. SubSeq(t, 1, Len(v)) = v <=> /\ Len(v) = Len(v) - 1 + 1
                                     /\ \A k \in 1..Len(v) : t[1 + k - 1] = v[k]
    <3>1. 1 \in 1..Len(t) + 1 /\ Len(v) \in Int /\ 1 - 1 <= Len(v)
      BY <1>0
    <3> QED BY <3>1, Piece
  <2>2. \A k \in 1..Len(v) : 1 + k - 1 = k
    BY <1>0
  <2> QED BY <1>0, <2>1, <2>2
<1> QED BY <1>1, <1>2, Joined DEF IsPrefix

LEMMA OccursIs ==
  ASSUME NEW t \in Text, NEW v \in Text
  PROVE  (\E i \in 1..Len(t) + 1 : \E r \in Text : SubSeq(t, i, Len(t)) = v \o r) <=> Occurs(v, t)
<1>0. Len(t) \in Nat /\ Len(v) \in Nat
  BY DEF Text
<1> DEFINE At(i) == i + Len(v) - 1 <= Len(t) /\ \A k \in 1..Len(v) : t[i + k - 1] = v[k]
<1>1. ASSUME NEW i \in 1..Len(t) + 1
      PROVE  (\E r \in Text : SubSeq(t, i, Len(t)) = v \o r) <=> At(i)
  <2> DEFINE s == SubSeq(t, i, Len(t))
  <2>1. i \in Int /\ Len(t) \in Int /\ i - 1 <= Len(t) /\ \A k \in i..Len(t) : t[k] \in Alphabet
    BY <1>0 DEF Text
  <2>2. /\ s \in Seq(Alphabet) /\ Len(s) = IF i <= Len(t) THEN Len(t) - i + 1 ELSE 0
        /\ \A k \in 1..Len(t) - i + 1 : s[k] = t[i + k - 1]
    BY <2>1, SubSeqProperties
  <2>3. s \in Text
    BY <2>2 DEF Text
  <2> HIDE DEF s
  <2>4. Len(s) = Len(t) - i + 1
    BY <1>0, <2>1, <2>2
  <2>5. (\E r \in Text : s = v \o r) <=> Len(v) <= Len(s) /\ \A k \in 1..Len(v) : s[k] = v[k]
    BY <2>3, Joined
  <2>6. Len(v) <= Len(s) <=> i + Len(v) - 1 <= Len(t)
    BY <1>0, <2>1, <2>4
  <2>7. Len(v) <= Len(s) => \A k \in 1..Len(v) : s[k] = t[i + k - 1]
    BY <1>0, <2>2, <2>4
  <2> QED BY <2>5, <2>6, <2>7 DEF s
<1>2. Occurs(v, t) <=> \E i \in 1..Len(t) + 1 : At(i)
  <2>1. ASSUME NEW n \in 0..Len(t) - Len(v)
        PROVE  SubSeq(t, n + 1, n + Len(v)) = v <=> \A k \in 1..Len(v) : t[n + 1 + k - 1] = v[k]
    <3>1. /\ n + 1 \in 1..Len(t) + 1 /\ n + Len(v) \in Int /\ (n + 1) - 1 <= n + Len(v)
          /\ n + Len(v) <= Len(t) /\ (n + Len(v)) - (n + 1) + 1 = Len(v)
      BY <1>0
    <3>2. SubSeq(t, n + 1, n + Len(v)) = v <=>
            /\ Len(v) = (n + Len(v)) - (n + 1) + 1
            /\ \A k \in 1..Len(v) : t[n + 1 + k - 1] = v[k]
      BY <3>1, Piece
    <3> QED BY <3>1, <3>2
  <2>2. ASSUME Occurs(v, t) PROVE \E i \in 1..Len(t) + 1 : At(i)
    <3>1. PICK n \in 0..Len(t) - Len(v) : SubSeq(t, n + 1, n + Len(v)) = v
      BY <2>2 DEF Occurs
    <3>2. \A k \in 1..Len(v) : t[n + 1 + k - 1] = v[k]
      BY <2>1, <3>1
    <3>3. n + 1 \in 1..Len(t) + 1 /\ (n + 1) + Len(v) - 1 <= Len(t)
      BY <1>0
    <3> QED BY <3>2, <3>3
  <2>3. ASSUME NEW i \in 1..Len(t) + 1, At(i) PROVE Occurs(v, t)
    <3>1. i - 1 \in 0..Len(t) - Len(v) /\ (i - 1) + 1 = i
      BY <1>0, <2>3
    <3>2. SubSeq(t, (i - 1) + 1, (i - 1) + Len(v)) = v
      BY <2>1, <2>3, <3>1
    <3> QED BY <3>1, <3>2 DEF Occurs
  <2> QED BY <2>2, <2>3
<1> HIDE DEF At
<1> QED BY <1>1, <1>2

LEMMA Listed ==
  ASSUME NEW n \in Nat, NEW s \in [1..n -> Alphabet]
  PROVE  s \in Text /\ Len(s) = n
<1>1. s \in Seq(Alphabet)
  BY SeqDef
<1> QED BY <1>1 DEF Text

LEMMA SuffixIs ==
  ASSUME NEW t \in Text, NEW v \in Text
  PROVE  (\E i \in 1..Len(t) + 1 : SubSeq(t, i, Len(t)) = v) <=> IsSuffix(v, t)
<1>0. Len(t) \in Nat /\ Len(v) \in Nat
  BY DEF Text
<1> DEFINE Ends == Len(v) <= Len(t) /\ \A k \in 1..Len(v) : t[Len(t) - Len(v) + k] = v[k]
<1>1. ASSUME NEW i \in 1..Len(t) + 1
      PROVE  SubSeq(t, i, Len(t)) = v <=> Ends /\ i = Len(t) - Len(v) + 1
  <2>1. Len(t) \in Int /\ i - 1 <= Len(t) /\ Len(t) <= Len(t) /\ i \in Int
    BY <1>0
  <2>2. SubSeq(t, i, Len(t)) = v <=> /\ Len(v) = Len(t) - i + 1
                                     /\ \A k \in 1..Len(v) : t[i + k - 1] = v[k]
    BY <2>1, Piece
  <2>3. Len(v) = Len(t) - i + 1 <=> i = Len(t) - Len(v) + 1
    BY <1>0, <2>1
  <2>4. i = Len(t) - Len(v) + 1 => \A k \in 1..Len(v) : i + k - 1 = Len(t) - Len(v) + k
    BY <1>0, <2>1
  <2>5. i = Len(t) - Len(v) + 1 => Len(v) <= Len(t)
    BY <1>0, <2>1
  <2> QED BY <2>2, <2>3, <2>4, <2>5
<1>2. Ends => Len(t) - Len(v) + 1 \in 1..Len(t) + 1
  BY <1>0
<1>3. (\E i \in 1..Len(t) + 1 : SubSeq(t, i, Len(t)) = v) <=> Ends
  <2>1. ASSUME NEW i \in 1..Len(t) + 1, SubSeq(t, i, Len(t)) = v PROVE Ends
    BY <1>1, <2>1
  <2>2. ASSUME Ends PROVE \E i \in 1..Len(t) + 1 : SubSeq(t, i, Len(t)) = v
    <3> DEFINE i == Len(t) - Len(v) + 1
    <3>1. i \in 1..Len(t) + 1 /\ i = Len(t) - Len(v) + 1
      BY <1>2, <2>2
    <3> HIDE DEF i
    <3>2. SubSeq(t, i, Len(t)) = v
      BY <1>1, <2>2, <3>1
    <3> QED BY <3>1, <3>2
  <2> HIDE DEF Ends
  <2> QED BY <2>1, <2>2
<1> DEFINE rt == Reverse(t)
           rv == Reverse(v)
<1>4. /\ rt \in Text /\ rv \in Text /\ Len(rt) = Len(t) /\ Len(rv) = Len(v)
      /\ \A k \in 1..Len(t) : rt[k] = t[(Len(t) - k) + 1]
      /\ \A k \in 1..Len(v) : rv[k] = v[(Len(v) - k) + 1]
  <2>1. ASSUME NEW s \in Text
        PROVE  /\ Reverse(s) \in Text /\ Len(Reverse(s)) = Len(s)
               /\ \A k \in 1..Len(s) : Reverse(s)[k] = s[(Len(s) - k) + 1]
    <3>1. Len(s) \in Nat /\ \A k \in 1..Len(s) : (Len(s) - k) + 1 \in 1..Len(s)
      BY DEF Text
    <3>2. \A k \in 1..Len(s) : s[(Len(s) - k) + 1] \in Alphabet
      BY <3>1, ElementOfSeq DEF Text
    <3>3. Reverse(s) = [k \in 1..Len(s) |-> s[(Len(s) - k) + 1]]
      BY DEF Reverse
    <3>4. Reverse(s) \in [1..Len(s) -> Alphabet]
      BY <3>2, <3>3
    <3>5. Reverse(s) \in Text /\ Len(Reverse(s)) = Len(s)
      BY <3>1, <3>4, Listed
    <3> QED BY <3>3, <3>5
  <2> QED BY <2>1
<1> HIDE DEF rt, rv
<1>5. IsSuffix(v, t) <=> IsPrefix(rv, rt)
  BY DEF IsSuffix, rt, rv
<1>6. IsPrefix(rv, rt) <=> Len(v) <= Len(t) /\ \A k \in 1..Len(v) : rt[k] = rv[k]
  <2>1. (\E r \in Text : rt = rv \o r) <=> IsPrefix(rv, rt)
    BY <1>4, PrefixIs
  <2>2. (\E r \in Text : rt = rv \o r) <=> Len(rv) <= Len(rt) /\ \A k \in 1..Len(rv) : rt[k] = rv[k]
    BY <1>4, Joined
  <2> QED BY <1>4, <2>1, <2>2
<1>7. ASSUME Len(v) <= Len(t)
      PROVE  (\A k \in 1..Len(v) : rt[k] = rv[k]) <=> \A k \in 1..Len(v) : t[Len(t) - Len(v) + k] = v[k]
  <2>1. ASSUME NEW k \in 1..Len(v)
        PROVE  /\ (Len(v) - k) + 1 \in 1..Len(v)
               /\ rt[k] = t[Len(t) - Len(v) + ((Len(v) - k) + 1)]
               /\ rv[k] = v[(Len(v) - k) + 1]
               /\ (Len(v) - ((Len(v) - k) + 1)) + 1 = k
    <3>1. (Len(t) - k) + 1 = Len(t) - Len(v) + ((Len(v) - k) + 1)
      BY <1>0
    <3>2. k \in 1..Len(t)
      BY <1>0, <1>7
    <3>3. rt[k] = t[(Len(t) - k) + 1]
      BY <1>4, <3>2
    <3> QED BY <1>0, <1>4, <3>1, <3>3
  <2>2. ASSUME \A k \in 1..Len(v) : rt[k] = rv[k], NEW n \in 1..Len(v)
        PROVE  t[Len(t) - Len(v) + n] = v[n]
    <3> DEFINE k == (Len(v) - n) + 1
    <3>1. k \in 1..Len(v) /\ (Len(v) - k) + 1 = n
      BY <1>0
    <3> HIDE DEF k
    <3>2. rt[k] = t[Len(t) - Len(v) + n] /\ rv[k] = v[n]
      BY <2>1, <3>1
    <3> QED BY <2>2, <3>1, <3>2
  <2>3. ASSUME \A n \in 1..Len(v) : t[Len(t) - Len(v) + n] = v[n], NEW k \in 1..Len(v)
        PROVE  rt[k] = rv[k]
    <3> DEFINE n == (Len(v) - k) + 1
    <3>1. n \in 1..Len(v) /\ rt[k] = t[Len(t) - Len(v) + n] /\ rv[k] = v[n]
      BY <2>1
    <3> HIDE DEF n
    <3> QED BY <2>3, <3>1
  <2> QED BY <2>2, <2>3
<1> QED BY <1>3, <1>5, <1>6, <1>7

\* A text that starts with a character.
LEMMA Splits ==
  ASSUME NEW t \in Text, NEW c \in Alphabet, t # <<>>, t[1] = c
  PROVE  t = <<c>> \o Tail(t) /\ Tail(t) \in Text
BY Tails DEF Shorter

\* What a pattern takes from a text: nothing takes nothing.
LEMMA GlobNothing ==
  ASSUME NEW many, NEW one, NEW t \in Text
  PROVE  Glob(many, one)[<<>>][t] <=> t = <<>>
<1> DEFINE G == Glob(many, one)
<1>1. \A q, u \in Text : G[q][u] = Match(many, one, q, u, G[Tail(q)], G[Third(q)])
  BY GlobEquation
<1>2. \A f, h : Match(many, one, <<>>, t, f, h) <=> t = <<>>
  BY DEF Match
<1> HIDE DEF G
<1>3. G[<<>>][t] <=> t = <<>>
  BY <1>1, <1>2, Joins
<1> QED BY <1>3 DEF G

\* The wildcard takes any text before what the pattern after it takes.
LEMMA GlobMany ==
  ASSUME NEW many \in Alphabet, NEW one, NEW p \in Text, NEW t \in Text
  PROVE  Glob(many, one)[<<many>> \o p][t]
           <=> \E i \in 1..Len(t) + 1 : Glob(many, one)[p][SubSeq(t, i, Len(t))]
<1> DEFINE G == Glob(many, one)
           q == <<many>> \o p
<1>1. q \in Text /\ q # <<>> /\ q[1] = many /\ Tail(q) = p
  BY PutOne
<1>2. \A u \in Text : u \in Text => G[u][t] = Match(many, one, u, t, G[Tail(u)], G[Third(u)])
  BY GlobEquation
<1> HIDE DEF q, G
<1>3. G[q][t] = Match(many, one, q, t, G[p], G[Third(q)])
  BY <1>1, <1>2
<1> QED BY <1>1, <1>3 DEF Match, q, G

\* A character, escaped if it is special, takes itself.
LEMMA GlobOne ==
  ASSUME NEW many, NEW one, NEW special, {many, one, Backslash} \subseteq special,
         many # Backslash, NEW p \in Text, NEW t \in Text, NEW c \in Alphabet
  PROVE  Glob(many, one)[Code(c, special) \o p][t]
           <=> t # <<>> /\ t[1] = c /\ Glob(many, one)[p][Tail(t)]
<1> DEFINE G == Glob(many, one)
<1>0. \A q, u \in Text : G[q][u] = Match(many, one, q, u, G[Tail(q)], G[Third(q)])
  BY GlobEquation
<1> HIDE DEF G
<1>3. G[Code(c, special) \o p][t] <=> t # <<>> /\ t[1] = c /\ G[p][Tail(t)]
  <2>1. CASE c \in special
    <3> DEFINE q == <<Backslash, c>> \o p
    <3>1. Backslash \in Alphabet
      BY FiltersAssumption
    <3>e. q = <<Backslash, c>> \o p
      OBVIOUS
    <3> HIDE DEF q
    <3>2. q \in Text /\ Len(q) = Len(p) + 2 /\ q[1] = Backslash /\ q[2] = c
      <4>1. q \in Text
        BY <3>1, <3>e, PutTwo
      <4>2. Len(q) = Len(p) + 2
        BY <3>1, <3>e, PutTwo
      <4>3. q[1] = Backslash /\ q[2] = c
        BY <3>1, <3>e, PutTwo
      <4> QED BY <4>1, <4>2, <4>3
    <3>3. Third(q) \in {p}
      BY <3>1, <3>e, PutTwo
    <3>4. Len(q) > 1 /\ q # <<>>
      BY <3>2 DEF Text
    <3>5. G[q][t] = Match(many, one, q, t, G[Tail(q)], G[p])
      BY <1>0, <3>2, <3>3
    <3>6. G[q][t] <=> t # <<>> /\ t[1] = c /\ G[p][Tail(t)]
      BY <3>2, <3>4, <3>5 DEF Match
    <3> QED BY <2>1, <3>6 DEF q, Code
  <2>2. CASE c \notin special
    <3> DEFINE q == <<c>> \o p
    <3>1. q \in Text /\ q # <<>> /\ q[1] = c /\ Tail(q) = p
      BY PutOne
    <3> HIDE DEF q
    <3>2. G[q][t] = Match(many, one, q, t, G[p], G[Third(q)])
      BY <1>0, <3>1
    <3>3. c # many /\ c # one /\ c # Backslash
      BY <2>2
    <3>4. G[q][t] <=> t # <<>> /\ t[1] = c /\ G[p][Tail(t)]
      BY <3>1, <3>2, <3>3 DEF Match
    <3> QED BY <2>2, <3>4 DEF q, Code
  <2> QED BY <2>1, <2>2
<1> QED BY <1>3 DEF G

\* An escaped value before a pattern takes itself.
Literally(many, one, special, p, word, line) ==
  Glob(many, one)[Escape(special)[word] \o p][line]
    <=> \E r \in Text : line = word \o r /\ Glob(many, one)[p][r]

LEMMA GlobLiteral ==
  ASSUME NEW many, NEW one, NEW special, {many, one, Backslash} \subseteq special,
         many # Backslash, NEW p \in Text, NEW word \in Text, NEW line \in Text
  PROVE  Literally(many, one, special, p, word, line)
<1> DEFINE G == Glob(many, one)
           E == Escape(special)
           P == {v \in Text : \A t \in Text :
                   G[E[v] \o p][t] <=> \E r \in Text : t = v \o r /\ G[p][r]}
<1>0. /\ E[<<>>] = <<>> /\ \A v \in Text : E[v] \in Text
      /\ \A c \in Alphabet, w \in Text : E[<<c>> \o w] = Code(c, special) \o E[w]
  BY EscapeLaws
<1>1. ASSUME NEW q \in Text, NEW t \in Text, NEW c \in Alphabet
      PROVE  G[Code(c, special) \o q][t] <=> t # <<>> /\ t[1] = c /\ G[q][Tail(t)]
  BY GlobOne
<1> HIDE DEF G, E
<1>2. ASSUME NEW v \in Text, Shorter(v) \subseteq P PROVE v \in P
  <2> SUFFICES ASSUME NEW t \in Text
               PROVE  G[E[v] \o p][t] <=> \E r \in Text : t = v \o r /\ G[p][r]
    OBVIOUS
  <2>1. CASE v = <<>>
    <3>1. E[v] \o p = p /\ \A r \in Text : v \o r = r
      BY <1>0, <2>1, Joins
    <3> QED BY <3>1
  <2>2. CASE v # <<>>
    <3> DEFINE c == v[1]
               w == Tail(v)
    <3>1. c \in Alphabet /\ w \in Shorter(v) /\ w \in Text /\ v = <<c>> \o w /\ <<c>> \in Text
      BY <2>2, Tails, Single DEF Shorter
    <3> HIDE DEF c, w
    <3>2. E[w] \in Text /\ E[w] \o p \in Text
      BY <1>0, <3>1, Joins
    <3>3. E[v] \o p = Code(c, special) \o (E[w] \o p)
      <4>1. E[v] = Code(c, special) \o E[w] /\ Code(c, special) \in Text
        BY <1>0, <3>1, CodeType
      <4>2. (Code(c, special) \o E[w]) \o p = Code(c, special) \o (E[w] \o p)
        BY <3>2, <4>1, JoinTwice
      <4> QED BY <4>1, <4>2
    <3>4. G[E[v] \o p][t] <=> t # <<>> /\ t[1] = c /\ G[E[w] \o p][Tail(t)]
      BY <1>1, <3>1, <3>2, <3>3
    <3>5. \A u \in Text : G[E[w] \o p][u] <=> \E r \in Text : u = w \o r /\ G[p][r]
      BY <1>2, <3>1
    <3>6. ASSUME NEW r \in Text PROVE v \o r = <<c>> \o (w \o r) /\ w \o r \in Text
      <4>1. (<<c>> \o w) \o r = <<c>> \o (w \o r)
        BY <3>1, JoinTwice
      <4> QED BY <3>1, <4>1, Joins
    <3>7. ASSUME G[E[v] \o p][t] PROVE \E r \in Text : t = v \o r /\ G[p][r]
      <4>1. t # <<>> /\ t[1] = c /\ G[E[w] \o p][Tail(t)]
        BY <3>4, <3>7
      <4>2. t = <<c>> \o Tail(t) /\ Tail(t) \in Text
        BY <3>1, <4>1, Splits
      <4>3. PICK r \in Text : Tail(t) = w \o r /\ G[p][r]
        BY <3>5, <4>1, <4>2
      <4>4. t = v \o r
        BY <3>6, <4>2, <4>3
      <4> QED BY <4>3, <4>4
    <3>8. ASSUME NEW r \in Text, t = v \o r, G[p][r] PROVE G[E[v] \o p][t]
      <4>1. t = <<c>> \o (w \o r) /\ w \o r \in Text
        BY <3>6, <3>8
      <4>2. t # <<>> /\ t[1] = c /\ Tail(t) = w \o r
        BY <3>1, <4>1, PutOne
      <4>3. G[E[w] \o p][w \o r]
        BY <3>5, <3>8, <4>1
      <4> QED BY <3>4, <4>2, <4>3
    <3> QED BY <3>7, <3>8
  <2> QED BY <2>1, <2>2
<1>3. word \in P
  <2> HIDE DEF P
  <2>1. Text \subseteq P
    BY <1>2, TextInduction
  <2> QED BY <2>1
<1>4. G[E[word] \o p][line] <=> \E r \in Text : line = word \o r /\ G[p][r]
  BY <1>3
<1> QED BY <1>4 DEF G, E, Literally

\* The four patterns of an escaped value take what the operators say.
AsSaid(many, one, special, v, t) ==
  /\ Glob(many, one)[Escape(special)[v]][t] <=> t = v
  /\ Glob(many, one)[Escape(special)[v] \o <<many>>][t] <=> IsPrefix(v, t)
  /\ Glob(many, one)[<<many>> \o Escape(special)[v]][t] <=> IsSuffix(v, t)
  /\ Glob(many, one)[<<many>> \o Escape(special)[v] \o <<many>>][t] <=> Occurs(v, t)

LEMMA Patterns ==
  ASSUME NEW many, NEW one, NEW special, {many, one, Backslash} \subseteq special,
         many # Backslash, many \in Alphabet, NEW v \in Text, NEW t \in Text
  PROVE  AsSaid(many, one, special, v, t)
<1> DEFINE G == Glob(many, one)
           E == Escape(special)
<1>0. E[v] \in Text /\ <<>> \in Text /\ <<many>> \in Text /\ E[v] \o <<many>> \in Text
      /\ E[v] \o <<>> = E[v] /\ <<many>> \o <<>> = <<many>> /\ v \o <<>> = v
  BY EscapeLaws, Single, Joins
<1>1. ASSUME NEW u \in Text PROVE G[<<>>][u] <=> u = <<>>
  BY GlobNothing
<1>2. ASSUME NEW q \in Text, NEW u \in Text
      PROVE  G[<<many>> \o q][u] <=> \E i \in 1..Len(u) + 1 : G[q][SubSeq(u, i, Len(u))]
  BY GlobMany
<1>3. ASSUME NEW q \in Text, NEW u \in Text
      PROVE  G[E[v] \o q][u] <=> \E r \in Text : u = v \o r /\ G[q][r]
  <2>1. Literally(many, one, special, q, v, u)
    BY GlobLiteral
  <2> QED BY <2>1 DEF Literally
<1>j. (<<many>> \o E[v]) \o <<many>> = <<many>> \o (E[v] \o <<many>>)
  BY <1>0, JoinTwice
<1> HIDE DEF G, E
<1>4. \A u \in Text : \A i \in 1..Len(u) + 1 : SubSeq(u, i, Len(u)) \in Text
  BY RestsType DEF Rests
<1>5. \A u \in Text : G[<<many>>][u]
  <2> SUFFICES ASSUME NEW u \in Text PROVE G[<<many>>][u]
    OBVIOUS
  <2>1. Len(u) \in Nat /\ SubSeq(u, Len(u) + 1, Len(u)) = <<>> /\ Len(u) + 1 \in 1..Len(u) + 1
    <3>1. Len(u) \in Nat
      BY DEF Text
    <3> QED BY <3>1, SubSeqEmpty
  <2>2. G[<<>>][SubSeq(u, Len(u) + 1, Len(u))]
    BY <1>0, <1>1, <2>1
  <2>3. G[<<many>> \o <<>>][u]
    BY <1>0, <1>2, <2>1, <2>2
  <2> QED BY <1>0, <2>3
<1>6. \A u \in Text : G[E[v]][u] <=> u = v
  <2> SUFFICES ASSUME NEW u \in Text PROVE G[E[v]][u] <=> u = v
    OBVIOUS
  <2>1. G[E[v] \o <<>>][u] <=> \E r \in Text : u = v \o r /\ G[<<>>][r]
    <3>1. <<>> \in Text
      BY <1>0
    <3> QED BY <1>3, <3>1
  <2>2. G[E[v]][u] <=> \E r \in Text : u = v \o r /\ G[<<>>][r]
    BY <1>0, <2>1
  <2> QED BY <1>0, <1>1, <2>2
<1>7. \A u \in Text : G[E[v] \o <<many>>][u] <=> \E r \in Text : u = v \o r
  <2> SUFFICES ASSUME NEW u \in Text
               PROVE  G[E[v] \o <<many>>][u] <=> \E r \in Text : u = v \o r
    OBVIOUS
  <2>1. G[E[v] \o <<many>>][u] <=> \E r \in Text : u = v \o r /\ G[<<many>>][r]
    <3>1. <<many>> \in Text
      BY <1>0
    <3> QED BY <1>3, <3>1
  <2> QED BY <1>5, <2>1
<1>8. G[E[v] \o <<many>>][t] <=> IsPrefix(v, t)
  <2>1. (\E r \in Text : t = v \o r) <=> IsPrefix(v, t)
    BY PrefixIs
  <2>2. G[E[v] \o <<many>>][t] <=> \E r \in Text : t = v \o r
    BY <1>7
  <2> QED BY <2>1, <2>2
<1>9. G[<<many>> \o E[v]][t] <=> IsSuffix(v, t)
  <2>1. (\E i \in 1..Len(t) + 1 : SubSeq(t, i, Len(t)) = v) <=> IsSuffix(v, t)
    BY SuffixIs
  <2>2. G[<<many>> \o E[v]][t] <=> \E i \in 1..Len(t) + 1 : G[E[v]][SubSeq(t, i, Len(t))]
    BY <1>0, <1>2
  <2>3. \A i \in 1..Len(t) + 1 : G[E[v]][SubSeq(t, i, Len(t))] <=> SubSeq(t, i, Len(t)) = v
    BY <1>4, <1>6
  <2> QED BY <2>1, <2>2, <2>3
<1>10. G[<<many>> \o E[v] \o <<many>>][t] <=> Occurs(v, t)
  <2>1. (\E i \in 1..Len(t) + 1 : \E r \in Text : SubSeq(t, i, Len(t)) = v \o r) <=> Occurs(v, t)
    BY OccursIs
  <2>2. G[<<many>> \o (E[v] \o <<many>>)][t]
          <=> \E i \in 1..Len(t) + 1 : G[E[v] \o <<many>>][SubSeq(t, i, Len(t))]
    BY <1>0, <1>2
  <2>3. \A i \in 1..Len(t) + 1 : G[E[v] \o <<many>>][SubSeq(t, i, Len(t))]
                                   <=> \E r \in Text : SubSeq(t, i, Len(t)) = v \o r
    BY <1>4, <1>7
  <2> QED BY <1>j, <2>1, <2>2, <2>3
<1> QED BY <1>6, <1>8, <1>9, <1>10 DEF G, E, AsSaid

-----------------------------------------------------------------------------
(* Filters: what the script of any rules does with any message *)

\* The rows are those of a table; ...
Tabled ==
  /\ message.spam \in BOOLEAN
  /\ \A rule \in rules :
       /\ rule.position \in Nat
       /\ rule.action \in {"move_to", "mark_read", "forward", "discard"}

\* ... the blocks reached so far come before the others, ...
Reached == blocks \ left
InOrder ==
  /\ left \subseteq blocks
  /\ \A rule \in Reached, other \in left : rule.position <= other.position

\* The script has done nothing but mark the message; has made one copy of it; has
\* made none and stopped.
Marked(r, seen) ==
  /\ r.stored = <<>> /\ r.told = <<>> /\ r.sent = <<>>
  /\ r.keep /\ r.seen = seen /\ ~r.stopped
Copied(r, folder, seen) ==
  /\ r.stored = <<<<folder, seen>>>> /\ r.told = <<folder>> /\ r.sent = <<>>
  /\ ~r.keep /\ r.stopped
Gone(r, to) ==
  /\ r.stored = <<>> /\ r.told = <<>> /\ r.sent = to
  /\ ~r.keep /\ r.stopped
Obeys(rule, r, seen) ==
  /\ rule.action = "move_to" => Copied(r, rule.targetFolder, seen)
  /\ rule.action = "forward" => Gone(r, <<rule.conditionValue>>)
  /\ rule.action = "discard" => Gone(r, <<>>)

\* ... and either none of them has decided where the message goes, or the last has,
\* and the script has stopped there.
Decides(rule) == condition(rule) /\ rule.action # "mark_read"
Reads(rule) == condition(rule) /\ rule.action = "mark_read"
ReadSoFar == \E rule \in Reached : Reads(rule)
Decided(rule) ==
  /\ rule \in Reached /\ Decides(rule)
  /\ \A other \in Reached : other.position <= rule.position /\ (Decides(other) => other = rule)
  /\ Obeys(rule, result, ReadSoFar)
ByTheBook ==
  /\ at = "spam" => left = blocks /\ result = Nothing
  /\ at = "rules" =>
       IF message.spam THEN Copied(result, Junk, FALSE)
       ELSE \/ Marked(result, ReadSoFar) /\ \A rule \in Reached : ~Decides(rule)
            \/ \E rule \in rules : Decided(rule)
ScriptInv == Tabled /\ InOrder /\ ByTheBook

Outcome == [stored : Seq(FoldersOf(rules) \X BOOLEAN), told : Seq(FoldersOf(rules)),
            sent : Seq({rule.conditionValue : rule \in rules}),
            keep : BOOLEAN, seen : BOOLEAN, stopped : BOOLEAN]

\* Each command keeps the type of what the script has done.
LEMMA CommandTypes ==
  ASSUME NEW r \in Outcome
  PROVE  /\ \A f \in FoldersOf(rules) : fileinto(f, r) \in Outcome /\ notifyCall(f, r) \in Outcome
         /\ \A to \in {rule.conditionValue : rule \in rules} : redirect(to, r) \in Outcome
         /\ setflag(r) \in Outcome /\ discard(r) \in Outcome /\ stop(r) \in Outcome
<1> DEFINE F == FoldersOf(rules)
           V == {rule.conditionValue : rule \in rules}
<1> HIDE DEF F, V
<1>1. Outcome = [stored : Seq(F \X BOOLEAN), told : Seq(F), sent : Seq(V),
                 keep : BOOLEAN, seen : BOOLEAN, stopped : BOOLEAN]
  BY DEF Outcome, F, V
<1>2. ASSUME NEW f \in F PROVE fileinto(f, r) \in Outcome /\ notifyCall(f, r) \in Outcome
  <2>1. Append(r.stored, <<f, r.seen>>) \in Seq(F \X BOOLEAN) /\ Append(r.told, f) \in Seq(F)
    BY <1>1
  <2> QED BY <1>1, <2>1 DEF fileinto, notifyCall
<1>3. ASSUME NEW to \in V PROVE redirect(to, r) \in Outcome
  <2>1. Append(r.sent, to) \in Seq(V)
    BY <1>1
  <2> QED BY <1>1, <2>1 DEF redirect
<1>4. setflag(r) \in Outcome /\ discard(r) \in Outcome /\ stop(r) \in Outcome
  BY <1>1 DEF setflag, discard, stop
<1> QED BY <1>2, <1>3, <1>4 DEF F, V

\* So does each block.
LEMMA BodyTypes ==
  ASSUME Tabled, NEW rule \in blocks, NEW r \in Outcome
  PROVE  body(rule, r) \in Outcome
<1>1. rule \in rules /\ rule.action \in {"move_to", "mark_read", "forward", "discard"}
  BY DEF Tabled, blocks
<1>2. rule.conditionValue \in {x.conditionValue : x \in rules}
  BY <1>1
<1>3. CASE rule.action = "move_to"
  <2>1. rule.targetFolder \in FoldersOf(rules)
    BY <1>1, <1>3 DEF blocks, FoldersOf
  <2>2. fileinto(rule.targetFolder, r) \in Outcome
    BY <2>1, CommandTypes
  <2>3. notifyCall(rule.targetFolder, fileinto(rule.targetFolder, r)) \in Outcome
    BY <2>1, <2>2, CommandTypes
  <2>4. stop(notifyCall(rule.targetFolder, fileinto(rule.targetFolder, r))) \in Outcome
    BY <2>3, CommandTypes
  <2> QED BY <1>3, <2>4 DEF body
<1>4. CASE rule.action = "mark_read"
  BY <1>4, CommandTypes DEF body
<1>5. CASE rule.action = "forward"
  <2>1. redirect(rule.conditionValue, r) \in Outcome
    BY <1>2, CommandTypes
  <2>2. stop(redirect(rule.conditionValue, r)) \in Outcome
    BY <2>1, CommandTypes
  <2> QED BY <1>5, <2>2 DEF body
<1>6. CASE rule.action = "discard"
  <2>1. discard(r) \in Outcome
    BY CommandTypes
  <2>2. stop(discard(r)) \in Outcome
    BY <2>1, CommandTypes
  <2> QED BY <1>6, <2>2 DEF body
<1> QED BY <1>1, <1>3, <1>4, <1>5, <1>6

LEMMA InitTabled == FiltersInit => Tabled
BY FiltersAssumption DEF FiltersInit, Tabled

LEMMA TabledKept == Tabled /\ [FiltersNext]_filterVars => Tabled'
<1> SUFFICES ASSUME Tabled, [FiltersNext]_filterVars PROVE Tabled'
  OBVIOUS
<1>1. UNCHANGED <<rules, message>>
  BY DEF FiltersNext, SpamBlock, RuleBlock, End, filterVars
<1> QED BY <1>1 DEF Tabled

LEMMA NextTyped == Tabled /\ FiltersTypeOK /\ [FiltersNext]_filterVars => FiltersTypeOK'
<1> SUFFICES ASSUME Tabled, FiltersTypeOK, [FiltersNext]_filterVars PROVE FiltersTypeOK'
  OBVIOUS
<1>1. rules' = rules /\ message' = message
  BY DEF FiltersNext, SpamBlock, RuleBlock, End, filterVars
<1>2. blocks' = blocks /\ Outcome' = Outcome
  BY <1>1 DEF blocks, Outcome, FoldersOf
<1>3. result \in Outcome /\ {Inbox, Junk} \subseteq FoldersOf(rules)
  BY DEF FiltersTypeOK, Outcome, FoldersOf
<1>4. CASE SpamBlock
  <2>1. fileinto(Junk, result) \in Outcome
    BY <1>3, CommandTypes
  <2>2. notifyCall(Junk, fileinto(Junk, result)) \in Outcome
    BY <1>3, <2>1, CommandTypes
  <2>3. stop(notifyCall(Junk, fileinto(Junk, result))) \in Outcome
    BY <2>2, CommandTypes
  <2>4. result' \in Outcome
    BY <1>3, <1>4, <2>3 DEF SpamBlock
  <2> QED BY <1>2, <1>4, <2>4 DEF SpamBlock, FiltersTypeOK, Outcome
<1>5. ASSUME NEW rule \in left, RuleBlock(rule) PROVE FiltersTypeOK'
  <2>1. rule \in blocks
    BY DEF FiltersTypeOK
  <2>2. body(rule, result) \in Outcome
    BY <1>3, <2>1, BodyTypes
  <2>3. result' \in Outcome
    BY <1>3, <1>5, <2>2 DEF RuleBlock
  <2> QED BY <1>2, <1>5, <2>3 DEF RuleBlock, FiltersTypeOK, Outcome
<1>6. CASE End
  <2>1. PICK told \in Outcome : result' = IF told.keep THEN fileinto(Inbox, told) ELSE told
    <3>1. notifyCall(Inbox, result) \in Outcome
      BY <1>3, CommandTypes
    <3> QED BY <1>3, <1>6, <3>1 DEF End
  <2>2. fileinto(Inbox, told) \in Outcome
    BY <1>3, CommandTypes
  <2>3. result' \in Outcome
    BY <2>1, <2>2
  <2> QED BY <1>2, <1>6, <2>3 DEF End, FiltersTypeOK, Outcome
<1>7. CASE UNCHANGED filterVars
  BY <1>2, <1>7 DEF filterVars, FiltersTypeOK, Outcome
<1> QED BY <1>4, <1>5, <1>6, <1>7 DEF FiltersNext

LEMMA InitFiltersTyped == FiltersInit => FiltersTypeOK
BY DEF FiltersInit, FiltersTypeOK, Nothing

\* Whatever the rules and the message, the script does what it does to known folders,
\* rules and addresses.
THEOREM FiltersTyped == FiltersSpec => []FiltersTypeOK
<1>1. FiltersInit => Tabled /\ FiltersTypeOK
  BY InitTabled, InitFiltersTyped
<1>2. (Tabled /\ FiltersTypeOK) /\ [FiltersNext]_filterVars => (Tabled /\ FiltersTypeOK)'
  BY TabledKept, NextTyped
<1> QED BY <1>1, <1>2, PTL DEF FiltersSpec

\* What commands make of a message that has only been marked so far: a copy and its
\* announcement; a rule's block; and the end of the script, with the implicit keep.
LEMMA CopyMeans ==
  ASSUME NEW r \in Outcome, NEW seen \in BOOLEAN, Marked(r, seen), NEW f
  PROVE  /\ Copied(stop(notifyCall(f, fileinto(f, r))), f, seen)
         /\ LET end == fileinto(f, notifyCall(f, r))
            IN  end.stored = <<<<f, seen>>>> /\ end.told = <<f>> /\ end.sent = <<>>
         /\ notifyCall(f, r).keep
<1> DEFINE F == FoldersOf(rules)
           V == {x.conditionValue : x \in rules}
<1>1. r \in [stored : Seq(F \X BOOLEAN), told : Seq(F), sent : Seq(V),
             keep : BOOLEAN, seen : BOOLEAN, stopped : BOOLEAN]
  BY DEF Outcome
<1> HIDE DEF F, V
<1>2. \A x : Append(<<>>, x) = <<x>>
  OBVIOUS
<1> QED BY <1>1, <1>2 DEF stop, notifyCall, fileinto, Marked, Copied

\* What a block's commands do to a message that has only been read.
LEMMA BodyMeans ==
  ASSUME NEW r \in Outcome, NEW seen \in BOOLEAN, Marked(r, seen), NEW rule
  PROVE  /\ rule.action = "mark_read" => Marked(body(rule, r), TRUE)
         /\ Obeys(rule, body(rule, r), seen)
<1> DEFINE F == FoldersOf(rules)
           V == {x.conditionValue : x \in rules}
<1>1. r \in [stored : Seq(F \X BOOLEAN), told : Seq(F), sent : Seq(V),
             keep : BOOLEAN, seen : BOOLEAN, stopped : BOOLEAN]
  BY DEF Outcome
<1> HIDE DEF F, V
<1>2. \A f : Copied(stop(notifyCall(f, fileinto(f, r))), f, seen)
  BY CopyMeans
<1>3. ASSUME NEW to PROVE Gone(stop(redirect(to, r)), <<to>>)
  <2>1. \A x : Append(<<>>, x) = <<x>>
    OBVIOUS
  <2> QED BY <1>1, <2>1 DEF stop, redirect, Marked, Gone
<1>4. Gone(stop(discard(r)), <<>>)
  BY <1>1 DEF stop, discard, Marked, Gone
<1>5. Marked(setflag(r), TRUE)
  BY <1>1 DEF setflag, Marked
<1> QED BY <1>2, <1>3, <1>4, <1>5 DEF body, Obeys

\* The invariant of the script.
LEMMA InitScript == FiltersInit => ScriptInv
<1> SUFFICES ASSUME FiltersInit PROVE ScriptInv
  OBVIOUS
<1>1. Tabled
  BY InitTabled
<1>2. at = "spam" /\ left = blocks /\ result = Nothing
  BY DEF FiltersInit
<1> QED BY <1>1, <1>2 DEF ScriptInv, InOrder, Reached, ByTheBook

\* What no step changes
LEMMA Unmoved ==
  ASSUME [FiltersNext]_filterVars
  PROVE  /\ rules' = rules /\ message' = message /\ blocks' = blocks
         /\ \A rule : condition(rule)' = condition(rule)
<1>1. rules' = rules /\ message' = message
  BY DEF FiltersNext, SpamBlock, RuleBlock, End, filterVars
<1> QED BY <1>1 DEF blocks, condition

\* The block of the first rule that is left.
LEMMA BlockStep ==
  ASSUME ScriptInv, result \in Outcome, NEW rule \in left, RuleBlock(rule)
  PROVE  InOrder' /\ ByTheBook'
<1>1. rules' = rules /\ message' = message /\ blocks' = blocks
  BY Unmoved DEF FiltersNext
<1>2. \A x : (Decides(x)' <=> Decides(x)) /\ (Reads(x)' <=> Reads(x))
  BY Unmoved DEF FiltersNext, Decides, Reads
<1>3. rule \in blocks /\ rule \in rules /\ left \subseteq blocks /\ blocks \subseteq rules
  BY DEF ScriptInv, InOrder, blocks
<1>4. left' = left \ {rule} /\ Reached' = Reached \cup {rule} /\ rule \notin Reached
  BY <1>1, <1>3 DEF RuleBlock, Reached
<1>5. \A x \in rules : x.position \in Nat
  BY DEF ScriptInv, Tabled
<1>6. \A x \in Reached : x \in rules /\ x.position <= rule.position
  BY <1>3 DEF ScriptInv, InOrder, Reached
<1>7. InOrder'
  <2>1. \A y \in left' : rule.position <= y.position
    BY <1>3, <1>4, <1>5 DEF RuleBlock
  <2> QED BY <1>1, <1>3, <1>4, <2>1 DEF ScriptInv, InOrder
<1>8. at = "rules" /\ at' = "rules" /\ ~result.stopped
      /\ result' = IF condition(rule) THEN body(rule, result) ELSE result
  BY DEF RuleBlock
<1>9. ~message.spam /\ \A d \in rules : ~Decided(d)
  BY <1>8 DEF ScriptInv, Tabled, ByTheBook, Decided, Decides, Obeys, Copied, Gone
<1>10. Marked(result, ReadSoFar) /\ \A x \in Reached : ~Decides(x)
  BY <1>8, <1>9 DEF ScriptInv, ByTheBook
<1>11. PICK seen \in BOOLEAN : seen = ReadSoFar
  BY DEF ReadSoFar
<1>12. /\ rule.action = "mark_read" => Marked(body(rule, result), TRUE)
       /\ Obeys(rule, body(rule, result), seen)
  BY <1>10, <1>11, BodyMeans
<1>13. ByTheBook'
  <2> SUFFICES \/ Marked(result, ReadSoFar)' /\ \A x \in Reached' : ~Decides(x)'
               \/ \E x \in rules : Decided(x)'
    BY <1>1, <1>8, <1>9 DEF ByTheBook
  <2>1. CASE ~condition(rule)
    <3>1. ~Decides(rule) /\ ~Reads(rule)
      BY <2>1 DEF Decides, Reads
    <3>2. ReadSoFar' = seen
      BY <1>2, <1>4, <1>11, <3>1 DEF ReadSoFar
    <3>3. Marked(result', seen)
      BY <1>8, <1>10, <1>11, <2>1
    <3> QED BY <1>2, <1>4, <1>10, <3>1, <3>2, <3>3 DEF Marked
  <2>2. CASE condition(rule) /\ rule.action = "mark_read"
    <3>1. ~Decides(rule) /\ Reads(rule)
      BY <2>2 DEF Decides, Reads
    <3>2. ReadSoFar'
      BY <1>2, <1>4, <3>1 DEF ReadSoFar
    <3>3. Marked(result', TRUE)
      BY <1>8, <1>12, <2>2
    <3> QED BY <1>2, <1>4, <1>10, <3>1, <3>2, <3>3 DEF Marked, ReadSoFar
  <2>3. CASE condition(rule) /\ rule.action # "mark_read"
    <3>1. Decides(rule) /\ ~Reads(rule)
      BY <2>3 DEF Decides, Reads
    <3>2. ReadSoFar' = seen
      BY <1>2, <1>4, <1>11, <3>1 DEF ReadSoFar
    <3>3. Obeys(rule, result', seen)
      BY <1>8, <1>12, <2>3
    <3>4. Obeys(rule, result, ReadSoFar)'
      BY <3>2, <3>3 DEF Obeys, Copied, Gone
    <3>5. \A other \in Reached' : other.position <= rule.position
                                  /\ (Decides(other)' => other = rule)
      BY <1>2, <1>3, <1>4, <1>5, <1>6, <1>10
    <3> QED BY <1>2, <1>3, <1>4, <3>1, <3>4, <3>5 DEF Decided
  <2> QED BY <2>1, <2>2, <2>3
<1> QED BY <1>7, <1>13

LEMMA NextScript ==
  FiltersTypeOK /\ ScriptInv /\ [FiltersNext]_filterVars => ScriptInv'
<1> SUFFICES ASSUME FiltersTypeOK, ScriptInv, [FiltersNext]_filterVars PROVE ScriptInv'
  OBVIOUS
<1>1. Tabled'
  BY TabledKept DEF ScriptInv
<1>2. result \in Outcome
  BY DEF FiltersTypeOK, Outcome
<1>3. CASE SpamBlock
  <2>1. rules' = rules /\ message' = message /\ blocks' = blocks /\ left' = left
    BY <1>3, Unmoved DEF FiltersNext, SpamBlock
  <2>2. left = blocks /\ Reached' = {} /\ at' = "rules" /\ result = Nothing
    BY <1>3, <2>1 DEF SpamBlock, ScriptInv, ByTheBook, Reached
  <2>3. ~ReadSoFar'
    BY <2>2 DEF ReadSoFar
  <2>4. Marked(result, FALSE)
    BY <2>2 DEF Marked, Nothing
  <2>5. CASE message.spam
    <3>1. result' = stop(notifyCall(Junk, fileinto(Junk, result)))
      BY <1>3, <2>5 DEF SpamBlock
    <3>2. Copied(result', Junk, FALSE)
      BY <1>2, <2>4, <3>1, CopyMeans
    <3> QED BY <1>1, <2>1, <2>2, <2>5, <3>2 DEF ScriptInv, InOrder, ByTheBook, Copied
  <2>6. CASE ~message.spam
    <3>1. Marked(result', FALSE)
      BY <1>3, <2>4, <2>6 DEF SpamBlock
    <3>2. Marked(result, ReadSoFar)'
      BY <2>3, <3>1 DEF Marked, ReadSoFar
    <3> QED BY <1>1, <2>1, <2>2, <2>6, <3>2 DEF ScriptInv, InOrder, ByTheBook
  <2> QED BY <2>5, <2>6
<1>4. ASSUME NEW rule \in left, RuleBlock(rule) PROVE ScriptInv'
  BY <1>1, <1>2, <1>4, BlockStep DEF ScriptInv
<1>5. CASE End
  <2>1. rules' = rules /\ message' = message /\ blocks' = blocks /\ left' = left /\ at' = "end"
    BY <1>5, Unmoved DEF FiltersNext, End
  <2> QED BY <1>1, <2>1 DEF ScriptInv, InOrder, Reached, ByTheBook
<1>6. CASE UNCHANGED filterVars
  <2>1. UNCHANGED <<rules, message, at, left, result, blocks>>
    BY <1>6, Unmoved DEF filterVars
  <2>2. \A x : (Decides(x)' <=> Decides(x)) /\ (Reads(x)' <=> Reads(x))
    BY Unmoved DEF Decides, Reads
  <2>3. Reached' = Reached /\ ReadSoFar' = ReadSoFar
    BY <2>1, <2>2 DEF Reached, ReadSoFar
  <2>4. \A x : Decided(x)' <=> Decided(x)
    BY <2>1, <2>2, <2>3 DEF Decided, Obeys, Copied, Gone
  <2>5. Marked(result, ReadSoFar)' <=> Marked(result, ReadSoFar)
    BY <2>1, <2>3 DEF Marked
  <2> QED BY <1>1, <2>1, <2>2, <2>3, <2>4, <2>5 DEF ScriptInv, InOrder, ByTheBook, Copied
<1> QED BY <1>3, <1>4, <1>5, <1>6 DEF FiltersNext

\* What the message comes to once the script has ended.
Ended == AnnouncedWhereStored /\ (WildcardsAreLiteral => FiledAsMeant)

\* The rules that decide, of all, are those whose blocks do.
LEMMA DecidingMeans ==
  ASSUME WildcardsAreLiteral
  PROVE  /\ Deciding = {rule \in blocks : Decides(rule)}
         /\ \A rule \in rules : rule \in Applying /\ rule.action = "mark_read"
                                <=> rule \in blocks /\ Reads(rule)
<1>1. \A rule \in rules : condition(rule) <=> Says(rule, message[headerFor[rule.conditionField]])
  BY DEF WildcardsAreLiteral
<1>2. \A rule \in rules : rule \in Applying <=> rule.active /\ condition(rule)
  BY <1>1 DEF Applying
<1>3. \A rule \in rules : rule \in Deciding <=> rule \in blocks /\ Decides(rule)
  BY <1>2 DEF Deciding, blocks, Decides
<1>4. Deciding \subseteq rules /\ blocks \subseteq rules
  BY DEF Deciding, Applying, blocks
<1> QED BY <1>2, <1>3, <1>4 DEF blocks, Reads

LEMMA OneCopy ==
  ASSUME NEW f, NEW seen, NEW r, r.stored = <<<<f, seen>>>>, r.told = <<f>>
  PROVE  r.told = [i \in DOMAIN r.stored |-> r.stored[i][1]]
OBVIOUS

LEMMA NoCopy ==
  ASSUME NEW r, r.stored = <<>>, r.told = <<>>
  PROVE  r.told = [i \in DOMAIN r.stored |-> r.stored[i][1]]
OBVIOUS

\* No block decided: the message is kept.
LEMMA EndKept ==
  ASSUME ScriptInv, result \in Outcome, End, ~message.spam, Marked(result, ReadSoFar),
         \A rule \in Reached : ~Decides(rule)
  PROVE  Ended'
<1>1. PICK seen \in BOOLEAN : seen = ReadSoFar
  BY DEF ReadSoFar
<1>2. Marked(result, seen) /\ ~result.stopped
  BY <1>1 DEF Marked
<1>3. left = {} /\ Reached = blocks
  BY <1>2 DEF End, Reached
<1>4. result' = fileinto(Inbox, notifyCall(Inbox, result))
  BY <1>2, CopyMeans DEF End
<1>5. result'.stored = <<<<Inbox, seen>>>> /\ result'.told = <<Inbox>> /\ result'.sent = <<>>
  BY <1>2, <1>4, CopyMeans
<1>6. AnnouncedWhereStored'
  BY <1>5, OneCopy DEF AnnouncedWhereStored
<1>7. ASSUME WildcardsAreLiteral PROVE FiledAsMeant'
  <2>1. rules' = rules /\ message' = message
    BY DEF End
  <2>2. Deciding = {} /\ (Read <=> ReadSoFar)
    <3>1. Applying \subseteq rules /\ blocks \subseteq rules
      BY DEF Applying, blocks
    <3>2. Deciding = {}
      BY <1>3, <1>7, DecidingMeans
    <3>3. Read <=> \E rule \in Applying : rule.action = "mark_read"
      BY <3>2 DEF Read
    <3> QED BY <1>3, <1>7, <3>1, <3>2, <3>3, DecidingMeans DEF ReadSoFar, Reads
  <2>3. Deciding' = {} /\ Read' = Read
    BY <2>1, <2>2 DEF Deciding, Applying, Read, First
  <2>4. Meant' = <<<<Inbox, seen>>>>
    BY <1>1, <2>1, <2>2, <2>3 DEF Meant, Read
  <2> QED BY <1>5, <2>3, <2>4 DEF FiledAsMeant
<1>8. WildcardsAreLiteral' <=> WildcardsAreLiteral
  BY DEF End, WildcardsAreLiteral, condition
<1> QED BY <1>6, <1>7, <1>8 DEF Ended

\* A block decided: it was the first to, and nothing is added.
LEMMA EndDecided ==
  ASSUME ScriptInv, End, ~message.spam, NEW d \in rules, Decided(d)
  PROVE  Ended'
<1>1. PICK seen \in BOOLEAN : seen = ReadSoFar
  BY DEF ReadSoFar
<1>2. /\ d \in blocks /\ d \notin left /\ Decides(d) /\ Obeys(d, result, seen)
      /\ \A other \in Reached : other.position <= d.position /\ (Decides(other) => other = d)
  BY <1>1 DEF Decided, Reached
<1>3. d.action \in {"move_to", "forward", "discard"}
  BY <1>2 DEF ScriptInv, Tabled, Decides
<1>4. result.stopped /\ ~result.keep
  BY <1>2, <1>3 DEF Obeys, Copied, Gone
<1>5. result' = result /\ rules' = rules /\ message' = message
  BY <1>4 DEF End
<1>6. AnnouncedWhereStored'
  BY <1>2, <1>3, <1>5, OneCopy, NoCopy DEF AnnouncedWhereStored, Obeys, Copied, Gone
<1>7. ASSUME WildcardsAreLiteral, PositionsDiffer PROVE FiledAsMeant'
  <2>1. Applying \subseteq rules /\ blocks \subseteq rules
    BY DEF Applying, blocks
  <2>2. \A x \in rules, y \in rules : x.position \in Nat /\ (x.position = y.position => x = y)
    BY <1>7 DEF ScriptInv, Tabled, PositionsDiffer
  <2>3. \A x \in left : d.position < x.position
    <3>1. \A x \in left : d.position <= x.position /\ x # d /\ x \in rules
      BY <1>2, <2>1 DEF ScriptInv, InOrder, Reached
    <3> QED BY <2>2, <3>1
  <2>4. Deciding \subseteq blocks /\ d \in Deciding
    BY <1>2, <1>7, DecidingMeans
  <2>5. \A x \in Deciding : x = d \/ x \in left
    BY <1>2, <1>7, DecidingMeans DEF Reached
  <2>6. \A x \in Deciding : d.position <= x.position
    BY <2>1, <2>2, <2>3, <2>4, <2>5
  <2>7. First = d
    <3>1. \A x \in Deciding : (\A other \in Deciding : x.position <= other.position) => x = d
      BY <2>1, <2>2, <2>4, <2>6
    <3> QED BY <2>4, <2>6, <3>1 DEF First
  <2>8. \A x \in rules : x \in Reached /\ Reads(x) <=> /\ x \in blocks /\ Reads(x)
                                                      /\ x.position < d.position
    <3> SUFFICES ASSUME NEW x \in blocks, Reads(x)
                 PROVE  x \in Reached <=> x.position < d.position
      BY <2>1 DEF Reached
    <3>1. x # d
      BY <1>2 DEF Reads, Decides
    <3> QED BY <1>2, <2>1, <2>2, <2>3, <3>1 DEF Reached
  <2>9. Read <=> ReadSoFar
    <3>1. Read <=> \E x \in Applying : x.action = "mark_read" /\ x.position < d.position
      BY <2>4, <2>7 DEF Read
    <3>2. Reached \subseteq rules
      BY <2>1 DEF Reached
    <3> QED BY <1>7, <2>1, <2>8, <3>1, <3>2, DecidingMeans DEF ReadSoFar
  <2>10. Deciding' = Deciding /\ First' = First /\ Read' = Read
    BY <1>5 DEF Deciding, Applying, Read, First
  <2>11. Deciding' # {} /\ First' = d /\ Read' = seen /\ ~message'.spam
    BY <1>1, <1>5, <2>4, <2>7, <2>9, <2>10 DEF Read, ReadSoFar
  <2>12. Meant' = IF d.action = "move_to" THEN <<<<d.targetFolder, seen>>>> ELSE <<>>
    BY <1>5, <2>11 DEF Meant, Read
  <2> QED BY <1>2, <1>3, <1>5, <2>11, <2>12 DEF FiledAsMeant, Obeys, Copied, Gone
<1>8. /\ WildcardsAreLiteral' <=> WildcardsAreLiteral
      /\ PositionsDiffer' <=> PositionsDiffer
  BY DEF End, WildcardsAreLiteral, condition, PositionsDiffer
<1> QED BY <1>6, <1>7, <1>8 DEF Ended, FiledAsMeant

\* Spam goes to the junk folder before any rule.
LEMMA EndSpam ==
  ASSUME End, message.spam, Copied(result, Junk, FALSE)
  PROVE  Ended'
<1>1. result' = result /\ message' = message /\ result'.sent = <<>>
      /\ result'.stored = <<<<Junk, FALSE>>>> /\ result'.told = <<Junk>>
  BY DEF End, Copied
<1>2. AnnouncedWhereStored'
  BY <1>1, OneCopy DEF AnnouncedWhereStored
<1>3. FiledAsMeant'
  BY <1>1 DEF FiledAsMeant, Meant
<1> QED BY <1>2, <1>3 DEF Ended

\* And what it has done when it ends.
LEMMA NextEnded ==
  FiltersTypeOK /\ ScriptInv /\ Ended /\ [FiltersNext]_filterVars => Ended'
<1> SUFFICES ASSUME FiltersTypeOK, ScriptInv, Ended, [FiltersNext]_filterVars PROVE Ended'
  OBVIOUS
<1>1. result \in Outcome
  BY DEF FiltersTypeOK, Outcome
<1>2. CASE End
  <2>1. at = "rules" /\ message.spam \in BOOLEAN
    BY <1>2 DEF End, ScriptInv, Tabled
  <2> QED BY <1>1, <1>2, <2>1, EndSpam, EndKept, EndDecided DEF ScriptInv, ByTheBook
<1>3. CASE UNCHANGED filterVars
  <2>1. rules' = rules /\ message' = message /\ at' = at /\ result' = result
    BY <1>3 DEF filterVars
  <2>2. Applying' = Applying /\ (WildcardsAreLiteral' <=> WildcardsAreLiteral)
    BY <2>1 DEF Applying, WildcardsAreLiteral, condition
  <2>3. Deciding' = Deciding /\ First' = First
    BY <2>2 DEF Deciding, First
  <2>4. Meant' = Meant
    BY <2>1, <2>2, <2>3 DEF Meant, Read
  <2>5. PositionsDiffer' <=> PositionsDiffer
    BY <2>1 DEF PositionsDiffer
  <2>6. (AnnouncedWhereStored' <=> AnnouncedWhereStored) /\ (FiledAsMeant' <=> FiledAsMeant)
    BY <2>1, <2>3, <2>4, <2>5 DEF AnnouncedWhereStored, FiledAsMeant
  <2> QED BY <2>2, <2>6 DEF Ended
<1>4. ASSUME SpamBlock \/ \E rule \in left : RuleBlock(rule) PROVE Ended'
  <2>1. at' # "end"
    BY <1>4 DEF SpamBlock, RuleBlock
  <2> QED BY <2>1 DEF Ended, AnnouncedWhereStored, FiledAsMeant
<1> QED BY <1>2, <1>3, <1>4 DEF FiltersNext

LEMMA ScriptEnds ==
  FiltersSpec => [](FiltersTypeOK /\ ScriptInv /\ Ended)
<1>1. FiltersInit => FiltersTypeOK /\ ScriptInv /\ Ended
  BY InitFiltersTyped, InitScript
     DEF FiltersInit, Ended, AnnouncedWhereStored, FiledAsMeant
<1>2. (FiltersTypeOK /\ ScriptInv /\ Ended) /\ [FiltersNext]_filterVars
        => (FiltersTypeOK /\ ScriptInv /\ Ended)'
  BY NextTyped, NextScript, NextEnded DEF ScriptInv
<1> QED BY <1>1, <1>2, PTL DEF FiltersSpec

\* Whatever the rules and the message, each copy the script makes is announced once,
\* with its folder, and nothing else is.
THEOREM CopiesAnnounced == FiltersSpec => []AnnouncedWhereStored
<1>1. FiltersTypeOK /\ ScriptInv /\ Ended => AnnouncedWhereStored
  BY DEF Ended
<1> QED BY <1>1, ScriptEnds, PTL

\* Of any number of rules whose values the script's tests take literally, the first by
\* position that decides does, and the earlier ones about reading have been obeyed.
THEOREM FiledAsRulesSay == FiltersSpec => [](WildcardsAreLiteral => FiledAsMeant)
<1>1. FiltersTypeOK /\ ScriptInv /\ Ended => (WildcardsAreLiteral => FiledAsMeant)
  BY DEF Ended
<1> QED BY <1>1, ScriptEnds, PTL

-----------------------------------------------------------------------------
(* Filters: what a test says of a text *)

\* The value of a starts_with or ends_with rule has no character that :matches reads
\* as more than itself.
PlainRule(rule) ==
  rule.conditionOperator \in {"starts_with", "ends_with"} =>
    \A i \in DOMAIN rule.conditionValue : rule.conditionValue[i] \notin {"*", "?", Backslash}

TestOf(case) ==
  /\ case[2] \in [spam : BOOLEAN, from : Text, address : Text, subject : Text, to : Text]
  /\ \A rule \in case[1] :
       /\ rule.conditionField \in {"sender", "subject", "recipient"}
       /\ rule.conditionOperator \in {"contains", "equals", "starts_with", "ends_with"}
       /\ rule.conditionValue \in Text
Tests == TestOf(<<rules, message>>)

LEMMA SieveCharactersKnown ==
  /\ {Backslash, Quote, "*", "?", "%", "_"} \subseteq Alphabet
  /\ "*" # Backslash /\ "%" # Backslash
BY FiltersAssumption DEF Backslash

\* What contains and equals are given is the value itself.
LEMMA Quoted == \A v \in Text : Unquote[quote(v)] = v
<1> SUFFICES ASSUME NEW v \in Text PROVE Unquote[quote(v)] = v
  OBVIOUS
<1>1. Unquote[<<>>] = <<>>
  <2>1. <<>> \in Text /\ Len(<<>>) < 2
    BY Joins
  <2> QED BY <2>1, UnquoteEquation
<1>2. Unquote[Escape({Backslash, Quote})[v] \o <<>>] = v \o <<>>
  <2> DEFINE S == {Backslash, Quote}
  <2>1. Backslash \in S /\ <<>> \in Text
    BY Joins
  <2> HIDE DEF S
  <2>2. Unquote[Escape(S)[v] \o <<>>] = v \o <<>>
    BY <1>1, <2>1, UnquoteEscape
  <2> QED BY <2>2 DEF S
<1>3. Escape({Backslash, Quote})[v] \in Text
  BY EscapeLaws
<1> QED BY <1>2, <1>3, Joins DEF quote

\* What :matches is given is the value without the escapes of its wildcards.
LEMMA QuotedMatch ==
  ASSUME NEW v \in Text
  PROVE  /\ Unquote[quoteMatch(v, <<>>, <<"*">>)] = v \o <<"*">>
         /\ Unquote[quoteMatch(v, <<"*">>, <<>>)] = <<"*">> \o v
<1> DEFINE S == {Backslash, Quote, "*", "?"}
           E == Escape(S)[v]
<1>0. E \in Text /\ <<"*">> \in Text /\ <<>> \in Text /\ "*" \in Alphabet /\ Backslash \in S
  BY SieveCharactersKnown, EscapeLaws, Single, Joins
<1>1. Unquote[<<>>] = <<>> /\ Unquote[<<"*">>] = <<"*">>
  <2>1. Len(<<>>) < 2 /\ Len(<<"*">>) < 2
    OBVIOUS
  <2> QED BY <1>0, <2>1, UnquoteEquation
<1>2. Unquote[E \o <<"*">>] = v \o <<"*">>
  BY <1>0, <1>1, UnquoteEscape
<1>3. Unquote[E \o <<>>] = v \o <<>>
  BY <1>0, <1>1, UnquoteEscape
<1>4. quoteMatch(v, <<>>, <<"*">>) = (<<>> \o E) \o <<"*">>
      /\ quoteMatch(v, <<"*">>, <<>>) = (<<"*">> \o E) \o <<>>
  BY DEF quoteMatch
<1> HIDE DEF E
<1>5. <<>> \o E = E /\ E \o <<>> = E /\ v \o <<>> = v /\ (<<"*">> \o E) \o <<>> = <<"*">> \o E
  BY <1>0, Joins
<1>6. Unquote[<<"*">> \o E] = <<"*">> \o v
  <2>1. Unquote[E] = v
    BY <1>3, <1>5
  <2>2. "*" # Backslash
    BY SieveCharactersKnown
  <2> QED BY <1>0, <2>1, <2>2, UnquoteOne
<1> QED BY <1>2, <1>4, <1>5, <1>6

\* A plain rule's test holds of the texts that have its value where it says.
LEMMA PlainIsLiteral ==
  ASSUME Tests, NEW rule \in rules, PlainRule(rule)
  PROVE  condition(rule) <=> Says(rule, message[headerFor[rule.conditionField]])
<1> DEFINE t == message[headerFor[rule.conditionField]]
           v == rule.conditionValue
           S == {"*", "?", Backslash}
<1>1. v \in Text /\ t \in Text
  BY DEF Tests, TestOf, headerFor
<1>2. rule.conditionOperator \in {"contains", "equals", "starts_with", "ends_with"}
  BY DEF Tests, TestOf
<1>3. CASE rule.conditionOperator = "contains"
  BY <1>1, <1>3, Quoted DEF condition, Says
<1>4. CASE rule.conditionOperator = "equals"
  BY <1>1, <1>4, Quoted DEF condition, Says
<1>5. "*" \in Alphabet /\ "*" # Backslash /\ {"*", "?", Backslash} \subseteq S
  BY SieveCharactersKnown
<1>6. rule.conditionOperator \in {"starts_with", "ends_with"} => Escape(S)[v] = v
  BY <1>1, EscapePlain DEF PlainRule
<1>9. AsSaid("*", "?", S, v, t)
  <2> HIDE DEF S, v, t
  <2> QED BY <1>1, <1>5, Patterns
<1>7. CASE rule.conditionOperator = "starts_with"
  <2>1. Glob("*", "?")[Escape(S)[v] \o <<"*">>][t] <=> IsPrefix(v, t)
    BY <1>9 DEF AsSaid
  <2>2. condition(rule) <=> Glob("*", "?")[v \o <<"*">>][t]
    BY <1>1, <1>7, QuotedMatch DEF condition
  <2> QED BY <1>6, <1>7, <2>1, <2>2 DEF Says
<1>8. CASE rule.conditionOperator = "ends_with"
  <2>1. Glob("*", "?")[<<"*">> \o Escape(S)[v]][t] <=> IsSuffix(v, t)
    BY <1>9 DEF AsSaid
  <2>2. condition(rule) <=> Glob("*", "?")[<<"*">> \o v][t]
    BY <1>1, <1>8, QuotedMatch DEF condition
  <2> QED BY <1>6, <1>8, <2>1, <2>2 DEF Says
<1> QED BY <1>2, <1>3, <1>4, <1>7, <1>8

\* ILIKE takes every value literally.
LEMMA LikeIsLiteral ==
  ASSUME NEW t \in Text, NEW v \in Text, NEW operator
  PROVE  LET G == Glob("%", "_")
         IN  /\ operator = "contains" => (G[patternFor(operator, v)][t] <=> Occurs(v, t))
             /\ operator = "equals" => (G[patternFor(operator, v)][t] <=> t = v)
             /\ operator = "starts_with" => (G[patternFor(operator, v)][t] <=> IsPrefix(v, t))
             /\ operator = "ends_with" => (G[patternFor(operator, v)][t] <=> IsSuffix(v, t))
<1> DEFINE S == {"%", "_", Backslash}
<1>1. "%" \in Alphabet /\ "%" # Backslash /\ {"%", "_", Backslash} \subseteq S
  BY SieveCharactersKnown
<1>a. AsSaid("%", "_", S, v, t)
  <2> HIDE DEF S
  <2> QED BY <1>1, Patterns
<1>2. CASE operator = "contains"
  <2>1. Glob("%", "_")[<<"%">> \o Escape(S)[v] \o <<"%">>][t] <=> Occurs(v, t)
    BY <1>a DEF AsSaid
  <2> QED BY <1>2, <2>1 DEF patternFor
<1>3. CASE operator = "equals"
  <2>1. Glob("%", "_")[Escape(S)[v]][t] <=> t = v
    BY <1>a DEF AsSaid
  <2> QED BY <1>3, <2>1 DEF patternFor
<1>4. CASE operator = "starts_with"
  <2>1. Glob("%", "_")[Escape(S)[v] \o <<"%">>][t] <=> IsPrefix(v, t)
    BY <1>a DEF AsSaid
  <2> QED BY <1>4, <2>1 DEF patternFor
<1>5. CASE operator = "ends_with"
  <2>1. Glob("%", "_")[<<"%">> \o Escape(S)[v]][t] <=> IsSuffix(v, t)
    BY <1>a DEF AsSaid
  <2> QED BY <1>5, <2>1 DEF patternFor
<1> QED BY <1>2, <1>3, <1>4, <1>5

\* So the preview's query is what the rule says of the column.
LEMMA LikeSays ==
  ASSUME Tests, NEW rule \in rules
  PROVE  ilike(rule) <=> Says(rule, IF rule.conditionField = "sender" THEN message.address ELSE message.subject)
<1> DEFINE t == IF rule.conditionField = "sender" THEN message.address ELSE message.subject
           v == rule.conditionValue
<1>1. v \in Text /\ t \in Text
  BY DEF Tests, TestOf
<1>2. rule.conditionOperator \in {"contains", "equals", "starts_with", "ends_with"}
  BY DEF Tests, TestOf
<1>3. ilike(rule) <=> Glob("%", "_")[patternFor(rule.conditionOperator, v)][t]
  BY DEF ilike
<1> HIDE DEF t
<1>4. ilike(rule) <=> Says(rule, t)
  BY <1>1, <1>2, <1>3, LikeIsLiteral DEF Says
<1> QED BY <1>4 DEF t

LEMMA PreviewSays ==
  Tests /\ WildcardsAreLiteral => PreviewAgrees
<1> SUFFICES ASSUME Tests, WildcardsAreLiteral, message.from = message.address,
                    NEW rule \in rules, preview(rule).supported
             PROVE  preview(rule).total = 1 <=> condition(rule)
  BY DEF PreviewAgrees
<1>1. rule.conditionField \in {"sender", "subject"}
  BY DEF preview, Tests, TestOf
<1>2. preview(rule).total = 1 <=> ilike(rule)
  BY <1>1 DEF preview
<1>3. message[headerFor[rule.conditionField]]
        = IF rule.conditionField = "sender" THEN message.address ELSE message.subject
  BY <1>1 DEF headerFor
<1>4. condition(rule) <=> Says(rule, message[headerFor[rule.conditionField]])
  BY DEF WildcardsAreLiteral
<1> QED BY <1>2, <1>3, <1>4, LikeSays

\* The rules and the message are those of one case throughout.
LEMMA TestsKept == FiltersSpec => []Tests
<1>1. FiltersInit => Tests
  BY FiltersAssumption DEF FiltersInit, Tests, TestOf
<1>2. Tests /\ [FiltersNext]_filterVars => Tests'
  <2> SUFFICES ASSUME Tests, [FiltersNext]_filterVars PROVE Tests'
    OBVIOUS
  <2>1. rules' = rules /\ message' = message
    BY DEF FiltersNext, filterVars, SpamBlock, RuleBlock, End
  <2> QED BY <2>1 DEF Tests
<1> QED BY <1>1, <1>2, PTL DEF FiltersSpec

\* Every value is plain where that matters.
AllPlain == \A rule \in rules : PlainRule(rule)

\* A block's test takes every value literally but those of starts_with and ends_with
\* rules that have a wildcard or a backslash, for any values and headers: the escapes of
\* contains and equals come off whole (sieve.ts:23), whatever characters they protect.
THEOREM PlainRulesLiteral == FiltersSpec => [](AllPlain => WildcardsAreLiteral)
<1>1. Tests /\ AllPlain => WildcardsAreLiteral
  BY PlainIsLiteral DEF AllPlain, WildcardsAreLiteral
<1> QED BY <1>1, TestsKept, PTL

\* The preview of a rule, whose ILIKE takes every value literally, finds a message if and
\* only if the script's test does, when that test is literal too.
THEOREM PreviewFindsWhatIsFiled == FiltersSpec => [](WildcardsAreLiteral => PreviewAgrees)
BY TestsKept, PreviewSays, PTL

\* So the mail of any number of plain rules is filed as they say and as they preview.
THEOREM PlainRulesKept == FiltersSpec => [](AllPlain => FiledAsMeant /\ PreviewAgrees)
BY PlainRulesLiteral, PreviewFindsWhatIsFiled, FiledAsRulesSay, PTL
=============================================================================
