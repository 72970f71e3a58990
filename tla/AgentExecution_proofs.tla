----------------------- MODULE AgentExecution_proofs -----------------------
(***************************************************************************)
(* Proofs about AgentExecution, for any set of jobs, any failures and any  *)
(* sizes of the pages.                                                     *)
(***************************************************************************)
EXTENDS AgentExecution, FiniteSetTheorems, WellFoundedInduction, TLAPS

-----------------------------------------------------------------------------
(* Pages.  A message that a page leaves out has a page of newer ones.      *)

\* The things of S that f numbers above n, and those with fewer than k above them.
Above(S, f, n) == {x \in S : f[x] > n}
Top(S, f, k)   == {x \in S : Cardinality(Above(S, f, f[x])) < k}

\* Of finitely many things with a number there is one with the largest: the one
\* with the fewest above it.
LEMMA LargestExists ==
    ASSUME NEW S, IsFiniteSet(S), NEW f \in [S -> Nat], S # {}
    PROVE  \E x \in S : \A y \in S : f[y] <= f[x]
<1> DEFINE above(x) == {y \in S : f[y] > f[x]}
           Counts == {Cardinality(above(x)) : x \in S}
<1>1. \A x \in S : IsFiniteSet(above(x)) /\ Cardinality(above(x)) \in Nat
  <2> SUFFICES ASSUME NEW x \in S
               PROVE  IsFiniteSet(above(x)) /\ Cardinality(above(x)) \in Nat
    OBVIOUS
  <2>1. above(x) \in SUBSET S
    OBVIOUS
  <2> HIDE DEF above
  <2> QED
    BY <2>1, FS_Subset, FS_CardinalityType
<1>2. PICK n \in Counts : \A k \in Counts : ~(<<k, n>> \in OpToRel(<, Nat))
  <2>1. Counts \subseteq Nat /\ Counts # {}
    BY <1>1
  <2> HIDE DEF Counts
  <2> QED
    BY <2>1, NatLessThanWellFounded, WFMin
<1>3. PICK x \in S : n = Cardinality(above(x))
  BY <1>2
<1>4. ASSUME NEW y \in S, f[y] > f[x] PROVE FALSE
  <2>1. above(y) \in SUBSET (above(x) \ {y}) /\ y \in above(x)
    BY <1>4
  <2>2. Cardinality(above(x) \ {y}) = Cardinality(above(x)) - 1
        /\ IsFiniteSet(above(x) \ {y})
    <3> HIDE DEF above
    <3> QED
      BY <1>1, <2>1, FS_RemoveElement
  <2>3. Cardinality(above(y)) <= Cardinality(above(x) \ {y})
    <3> HIDE DEF above
    <3> QED
      BY <2>1, <2>2, FS_Subset
  <2>4. Cardinality(above(y)) \in Counts /\ Cardinality(above(y)) \in Nat /\ n \in Nat
    BY <1>1, <1>3
  <2>5. Cardinality(above(y)) < n
    <3> HIDE DEF above, Counts
    <3> QED
      BY <1>1, <1>3, <2>2, <2>3, <2>4
  <2> QED
    <3> HIDE DEF above, Counts
    <3> QED
      BY <1>2, <2>4, <2>5 DEF OpToRel
<1> QED
  BY <1>4

\* Where k things are above a value, k of the top ones are.
LEMMA TopSuffices ==
    ASSUME NEW S, IsFiniteSet(S), NEW f \in [S -> Nat],
           NEW k \in Nat, NEW m \in Nat, Cardinality(Above(S, f, m)) >= k
    PROVE  Cardinality(Above(Top(S, f, k), f, m)) >= k
<1> DEFINE above(n) == Above(S, f, n)
           top == Top(S, f, k)
           kept == Above(top, f, m)
           left == above(m) \ kept
<1> USE DEF Above, Top
<1>1. /\ IsFiniteSet(above(m)) /\ Cardinality(above(m)) \in Nat
      /\ IsFiniteSet(kept) /\ Cardinality(kept) \in Nat
  <2>1. above(m) \in SUBSET S /\ kept \in SUBSET S
    OBVIOUS
  <2> HIDE DEF above, kept
  <2> QED
    BY <2>1, FS_Subset, FS_CardinalityType
<1>2. CASE left = {}
  <2>1. above(m) \subseteq kept
    BY <1>2
  <2>2. above(m) \in SUBSET kept
    BY <2>1
  <2>3. Cardinality(above(m)) <= Cardinality(kept)
    <3> HIDE DEF above, kept
    <3> QED
      BY <1>1, <2>2, FS_Subset
  <2> QED
    BY <1>1, <2>3
<1>3. CASE left # {}
  <2>1. PICK x \in left : \A y \in left : f[y] <= f[x]
    <3> DEFINE g == [y \in left |-> f[y]]
    <3>1. g \in [left -> Nat] /\ left \subseteq above(m)
      OBVIOUS
    <3> HIDE DEF left, above
    <3>3. IsFiniteSet(left)
      BY <1>1, <3>1, FS_Subset
    <3> HIDE DEF g
    <3>2. \E x \in left : \A y \in left : g[y] <= g[x]
      BY <1>3, <3>1, <3>3, LargestExists
    <3> QED
      BY <3>2 DEF g
  <2>2. above(f[x]) \in SUBSET kept
    <3> SUFFICES ASSUME NEW y \in above(f[x]) PROVE y \in kept
      OBVIOUS
    <3>1. y \in above(m) /\ ~(f[y] <= f[x])
      BY <2>1
    <3> QED
      BY <2>1, <3>1
  <2>3. Cardinality(above(f[x])) <= Cardinality(kept) /\ Cardinality(above(f[x])) \in Nat
    <3>1. above(f[x]) \in SUBSET S
      OBVIOUS
    <3> HIDE DEF above, kept
    <3> QED
      BY <1>1, <2>2, <3>1, FS_Subset, FS_CardinalityType
  <2>4. x \in S /\ f[x] > m /\ x \notin kept
    BY <2>1
  <2>5. ~(Cardinality(above(f[x])) < k)
    BY <2>4
  <2> QED
    BY <1>1, <2>3, <2>5
<1> QED
  BY <1>2, <1>3

\* What is in reach of a page of comments, and of a page of the chat.
Within(m, S)    == m \in S \/ Cardinality(Newer(S, m)) >= Recent
InReach(m, rows) == m \in Messages(rows) \/ Cardinality(After(rows, m)) >= Recent

\* A page of newer ones has one that the page keeps, or the message is kept.
LEMMA NewestReaches ==
    ASSUME TypeOK, NEW m \in comments
    PROVE  Within(m, Newest(comments)) /\ IsFiniteSet(Newest(comments))
<1> DEFINE f == [n \in comments |-> n]
<1>1. posted \in Nat /\ comments \in SUBSET (1..posted)
  BY DEF TypeOK
<1>2. IsFiniteSet(comments)
  <2>1. IsFiniteSet(1..posted)
    BY <1>1, FS_Interval
  <2> QED
    BY <1>1, <2>1, FS_Subset
<1>3. f \in [comments -> Nat] /\ m \in Nat
  BY <1>1
<1>4. \A n : Above(comments, f, n) = Newer(comments, n)
  BY DEF Above, Newer
<1>5. /\ Top(comments, f, Recent) = Newest(comments)
      /\ Above(Newest(comments), f, m) = Newer(Newest(comments), m)
  BY <1>4 DEF Above, Top, Newer, Newest
<1>6. IsFiniteSet(Newest(comments)) /\ Cardinality(Newer(comments, m)) \in Nat
  BY <1>2, FS_Subset, FS_CardinalityType DEF Newest, Newer
<1>7. CASE Cardinality(Newer(comments, m)) < Recent
  BY <1>6, <1>7 DEF Newest, Within
<1>8. CASE Cardinality(Newer(comments, m)) >= Recent
  <2>1. Cardinality(Above(Top(comments, f, Recent), f, m)) >= Recent
    <3> HIDE DEF f
    <3> QED
      BY <1>2, <1>3, <1>4, <1>8, TopSuffices, PagesAssumption
  <2> QED
    BY <1>5, <1>6, <2>1 DEF Within
<1> QED
  BY <1>4, <1>6, <1>7, <1>8, PagesAssumption

LEMMA LatestReaches ==
    ASSUME NEW rows \in SUBSET Rows, IsFiniteSet(rows), NEW m \in Nat,
           InReach(m, rows)
    PROVE  InReach(m, Latest(Recent, rows))
<1> DEFINE f == [r \in rows |-> r.msg]
<1>1. f \in [rows -> Nat]
  BY DEF Rows
<1>2. \A n : Above(rows, f, n) = After(rows, n)
  BY DEF Above, After
<1>3. /\ Top(rows, f, Recent) = Latest(Recent, rows)
      /\ Above(Latest(Recent, rows), f, m) = After(Latest(Recent, rows), m)
  BY <1>2 DEF Above, Top, After, Latest
<1>4. Cardinality(After(rows, m)) \in Nat
  BY FS_Subset, FS_CardinalityType DEF After
<1>5. CASE Cardinality(After(rows, m)) < Recent
  <2>1. m \in Messages(rows)
    BY <1>4, <1>5, PagesAssumption DEF InReach
  <2>2. PICK r \in rows : r.msg = m
    BY <2>1 DEF Messages
  <2>3. r \in Latest(Recent, rows)
    BY <1>5, <2>2 DEF Latest
  <2> QED
    BY <2>2, <2>3 DEF InReach, Messages
<1>6. CASE Cardinality(After(rows, m)) >= Recent
  <2>1. Cardinality(Above(Top(rows, f, Recent), f, m)) >= Recent
    <3> HIDE DEF f
    <3> QED
      BY <1>1, <1>2, <1>6, TopSuffices, PagesAssumption
  <2> QED
    BY <1>3, <2>1 DEF InReach
<1> QED
  BY <1>2, <1>4, <1>5, <1>6, PagesAssumption

\* A chat that grows reaches no less.
LEMMA GrownReaches ==
    ASSUME NEW rows, NEW more, rows \subseteq more, IsFiniteSet(more), NEW m,
           InReach(m, rows)
    PROVE  InReach(m, more)
<1>1. CASE m \in Messages(rows)
  BY <1>1 DEF Messages, InReach
<1>2. CASE Cardinality(After(rows, m)) >= Recent
  <2>1. After(rows, m) \in SUBSET After(more, m) /\ IsFiniteSet(After(more, m))
    BY FS_Subset DEF After
  <2>2. Cardinality(After(rows, m)) <= Cardinality(After(more, m))
        /\ Cardinality(After(rows, m)) \in Nat /\ Cardinality(After(more, m)) \in Nat
    BY <2>1, FS_Subset, FS_CardinalityType
  <2> QED
    BY <1>2, <2>2, PagesAssumption DEF InReach
<1> QED
  BY <1>1, <1>2 DEF InReach

\* Nor does a chat with every message of a set reach less than the set.
LEMMA SavedReaches ==
    ASSUME NEW rows \in SUBSET Rows, IsFiniteSet(rows), NEW S,
           S \subseteq Messages(rows), NEW m \in Nat, Within(m, S)
    PROVE  InReach(m, rows)
<1>1. CASE m \in S
  BY <1>1 DEF InReach
<1>2. CASE Cardinality(Newer(S, m)) >= Recent
  <2> DEFINE T == {r.msg : r \in After(rows, m)}
             f == [r \in After(rows, m) |-> r.msg]
  <2>1. IsFiniteSet(After(rows, m)) /\ Cardinality(After(rows, m)) \in Nat
    BY FS_Subset, FS_CardinalityType DEF After
  <2>2. f \in Surjection(After(rows, m), T)
    BY DEF Surjection
  <2>3. IsFiniteSet(T) /\ Cardinality(T) <= Cardinality(After(rows, m))
        /\ Cardinality(T) \in Nat
    <3> HIDE DEF T, f
    <3> QED
      BY <2>1, <2>2, FS_Surjection, FS_CardinalityType
  <2>4. Newer(S, m) \in SUBSET T
    BY DEF Newer, After, Messages
  <2>5. Cardinality(Newer(S, m)) <= Cardinality(T) /\ Cardinality(Newer(S, m)) \in Nat
    <3> HIDE DEF T
    <3> QED
      BY <2>3, <2>4, FS_Subset, FS_CardinalityType
  <2> HIDE DEF T
  <2> QED
    BY <1>2, <2>1, <2>3, <2>5, PagesAssumption DEF InReach
<1> QED
  BY <1>1, <1>2 DEF Within

-----------------------------------------------------------------------------
(* Types.                                                                  *)

LEMMA InitTypeOK == Init => TypeOK
BY DEF Init, TypeOK, JobState, Idle, Assignees, Statuses, Endings

\* An updated record of a job is one still.
LEMMA JobRecords ==
    ASSUME NEW r \in JobState
    PROVE  /\ \A b \in BOOLEAN, n \in Nat :
                  [r EXCEPT !.pc = "task", !.onItem = b, !.trigger = n] \in JobState
           /\ \A b \in BOOLEAN :
                  [r EXCEPT !.pc = "create", !.hasAssignee = b] \in JobState
           /\ \A pc \in {"context", "insert"}, s \in Statuses :
                  [r EXCEPT !.pc = pc, !.found = s] \in JobState
           /\ \A ms \in SUBSET Nat :
                  /\ [r EXCEPT !.pc = "chat", !.context = ms,
                               !.onItem = FALSE, !.hasAssignee = FALSE] \in JobState
                  /\ [r EXCEPT !.pc = "save", !.unsaved = ms] \in JobState
           /\ \A rows \in SUBSET Rows :
                  [r EXCEPT !.pc = "run", !.memory = rows] \in JobState
BY DEF JobState

LEMMA EndedRecord ==
    ASSUME TypeOK, NEW j \in Jobs, NEW how \in Endings
    PROVE  Ended(j, how) \in JobState
BY DEF Ended, Idle, TypeOK, JobState, Statuses

LEMMA GotoType ==
    ASSUME TypeOK, NEW j \in Jobs,
           NEW pc \in {"giveUp", "check", "tools", "reply", "close", "fail"},
           Goto(j, pc)
    PROVE  job' \in [Jobs -> JobState]
BY DEF Goto, TypeOK, JobState

LEMMA EndType ==
    ASSUME TypeOK, NEW j \in Jobs, NEW how \in Endings, End(j, how)
    PROVE  job' \in [Jobs -> JobState]
BY EndedRecord DEF End, TypeOK

LEMMA SetStatusType ==
    ASSUME TypeOK, NEW s \in Statuses, SetStatus(s)
    PROVE  execution' \in [status : Statuses, contextStale : BOOLEAN, by : SUBSET Jobs]
BY DEF SetStatus, TypeOK

LEMMA SetExecutingType ==
    ASSUME TypeOK, NEW j \in Jobs, SetExecuting(j)
    PROVE  execution' \in [status : Statuses, contextStale : BOOLEAN, by : SUBSET Jobs]
BY DEF SetExecuting, TypeOK, Statuses

LEMMA StartType ==
    ASSUME TypeOK, NEW j \in Jobs, NEW b \in BOOLEAN, NEW n \in Nat, Start(j, b, n)
    PROVE  job' \in [Jobs -> JobState]
BY JobRecords DEF Start, TypeOK

LEMMA PostType ==
    ASSUME TypeOK, Post
    PROVE  posted' \in Nat /\ comments' \subseteq 1..posted' /\ chat' = chat
BY DEF Post, TypeOK

LEMMA SavedType ==
    ASSUME NEW j \in Jobs, NEW ms \in SUBSET Nat
    PROVE  SavedBy(j, ms) \subseteq Rows
BY DEF SavedBy, Rows

LEMMA SaveConversationType ==
    ASSUME TypeOK, NEW j \in Jobs, SaveConversation(j)
    PROVE  posted' \in Nat /\ comments' \subseteq 1..posted' /\ chat' \subseteq Rows
<1>1. PICK n \in 0..2 :
        /\ posted' = posted + n
        /\ chat' = chat \cup SavedBy(j, (posted + 1)..(posted + n))
        /\ comments' = comments
  <2>1. CASE "conversation" \in Faults
    BY <2>1 DEF SaveConversation
  <2>2. CASE "conversation" \notin Faults
    BY <2>2 DEF SaveConversation
  <2> QED
    BY <2>1, <2>2
<1>2. (posted + 1)..(posted + n) \in SUBSET Nat
  BY DEF TypeOK
<1> QED
  BY <1>1, <1>2, SavedType DEF TypeOK

\* prepareStep never finds the row, and changes nothing.
LEMMA PrepareStepStutters ==
    ASSUME TypeOK, NEW j \in Jobs, PrepareStep(j)
    PROVE  UNCHANGED vars
<1>1. getTaskExecutionByTaskId(NoTeam) = {}
  BY TeamAssumption DEF getTaskExecutionByTaskId
<1>2. execution' = [execution EXCEPT !.contextStale = @ /\ ~FALSE]
  BY <1>1, Zenon DEF PrepareStep
<1>3. execution' = execution
  BY <1>2 DEF TypeOK
<1>4. /\ job' = [job EXCEPT ![j] = [@ EXCEPT !.memory = job[j].memory \cup {}]]
      /\ chat' = chat \cup {}
      /\ UNCHANGED <<assigned, posted, comments, loops>>
  BY <1>1 DEF PrepareStep
<1>5. [job[j] EXCEPT !.memory = job[j].memory \cup {}] = job[j]
  BY DEF TypeOK, JobState
<1>6. job' = job
  BY <1>4, <1>5 DEF TypeOK
<1> QED
  BY <1>3, <1>4, <1>6 DEF vars, messages

LEMMA NextTypeOK == TypeOK /\ [Next]_vars => TypeOK'
<1> SUFFICES ASSUME TypeOK, [Next]_vars PROVE TypeOK'
  OBVIOUS
<1>1. CASE UNCHANGED vars
  BY <1>1 DEF vars, messages, TypeOK
<1>2. ASSUME NEW j \in Jobs, Comment(j) PROVE TypeOK'
  <2>1. posted + 1 \in Nat
    BY DEF TypeOK
  <2> QED
    BY <1>2, <2>1, StartType, PostType DEF Comment, TypeOK
<1>3. ASSUME NEW j \in Jobs, Wake(j) \/ Assign(j) \/ AssignItem(j) PROVE TypeOK'
  BY <1>3, StartType DEF Wake, Assign, AssignItem, Assignees, messages, TypeOK
<1>4. CASE Remark
  BY <1>4, PostType DEF Remark, TypeOK
<1>5. CASE Reassign
  BY <1>5 DEF Reassign, messages, TypeOK
<1>6. CASE Restart
  <2>1. job' \in [Jobs -> JobState]
    BY <1>6, EndedRecord DEF Restart, Endings, TypeOK
  <2> QED
    BY <1>6, <2>1 DEF Restart, messages, TypeOK
<1>7. ASSUME NEW j \in Jobs, PrepareStep(j) PROVE TypeOK'
  BY <1>7, PrepareStepStutters DEF vars, messages, TypeOK
<1>8. ASSUME NEW j \in Jobs, LateLoopEnds(j) PROVE TypeOK'
  BY <1>8, SaveConversationType DEF LateLoopEnds, TypeOK
<1>9. ASSUME NEW j \in Jobs, Run(j) PROVE TypeOK'
  <2>1. CASE GetTask(j)
    <3>1. [job[j] EXCEPT !.pc = "create",
                         !.hasAssignee = assigned # "nobody"] \in JobState
      BY JobRecords DEF TypeOK
    <3> QED
      BY <2>1, <3>1 DEF GetTask, messages, TypeOK
  <2>2. CASE GetActive(j)
    <3> DEFINE pc == IF Exists THEN "context" ELSE "insert"
    <3>1. [job[j] EXCEPT !.pc = pc, !.found = execution.status] \in JobState
      BY JobRecords DEF TypeOK
    <3> QED
      BY <2>2, <3>1 DEF GetActive, messages, TypeOK
  <2>3. CASE Insert(j)
    <3>1. CASE Exists
      BY <2>3, <3>1, EndType DEF Insert, Endings, messages, TypeOK
    <3>2. CASE ~Exists
      <4>1. [job[j] EXCEPT !.pc = "context", !.found = "pending"] \in JobState
        BY JobRecords DEF TypeOK, Statuses
      <4>2. /\ execution' = [status |-> "pending", contextStale |-> FALSE, by |-> {}]
            /\ job' = [job EXCEPT ![j] =
                          [@ EXCEPT !.pc = "context", !.found = "pending"]]
            /\ UNCHANGED <<assigned, messages, loops>>
        BY <2>3, <3>2 DEF Insert
      <4>3. job' \in [Jobs -> JobState]
        BY <4>1, <4>2 DEF TypeOK
      <4>4. execution' \in [status : Statuses, contextStale : BOOLEAN, by : SUBSET Jobs]
        BY <4>2 DEF Statuses
      <4> QED
        BY <4>2, <4>3, <4>4 DEF messages, TypeOK
    <3> QED
      BY <3>1, <3>2
  <2>4. CASE NoAssignee(j)
    BY <2>4, GotoType, SetStatusType DEF NoAssignee, messages, TypeOK, Statuses
  <2>5. CASE GetActivities(j)
    <3>1. Newest(comments) \in SUBSET Nat
      <4>1. comments \subseteq Nat
        BY DEF TypeOK
      <4> QED
        BY <4>1 DEF Newest
    <3>2. [job[j] EXCEPT !.pc = "chat", !.context = Newest(comments),
                         !.onItem = FALSE, !.hasAssignee = FALSE] \in JobState
      BY <3>1, JobRecords DEF TypeOK
    <3> QED
      BY <2>5, <3>2 DEF GetActivities, messages, TypeOK
  <2>6. CASE GetChat(j)
    <3>1. Unsaved(job[j].context) \in SUBSET Nat
      BY DEF Unsaved, TypeOK, JobState
    <3>2. [job[j] EXCEPT !.pc = "save", !.unsaved = Unsaved(job[j].context)] \in JobState
      BY <3>1, JobRecords DEF TypeOK
    <3> QED
      BY <2>6, <3>2 DEF GetChat, messages, TypeOK
  <2>7. CASE SaveMessages(j)
    <3>1. SavedBy(j, job[j].unsaved) \subseteq Rows
      BY SavedType DEF TypeOK, JobState
    <3> QED
      BY <2>7, <3>1, GotoType DEF SaveMessages, TypeOK
  <2>8. CASE GiveUp(j)
    BY <2>8, EndType, SetStatusType DEF GiveUp, Endings, messages, TypeOK, Statuses
  <2>9. CASE Yield(j)
    BY <2>9, EndType DEF Yield, Endings, messages, TypeOK
  <2>10. CASE ContextFails(j)
    <3>1. \A ms \in SUBSET job[j].unsaved : SavedBy(j, ms) \subseteq Rows
      BY SavedType DEF TypeOK, JobState
    <3>2. chat' \subseteq Rows
      BY <2>10, <3>1 DEF ContextFails, TypeOK
    <3> QED
      BY <2>10, <3>2, EndType DEF ContextFails, Endings, TypeOK
  <2>11. CASE Execute(j)
    BY <2>11, GotoType, EndType, SetExecutingType DEF Execute, Endings, messages, TypeOK
  <2>12. CASE Prepare(j)
    <3>1. Latest(Recent, chat) \in SUBSET Rows
      BY DEF Latest, TypeOK
    <3>2. [job[j] EXCEPT !.pc = "run", !.memory = Latest(Recent, chat)] \in JobState
      BY <3>1, JobRecords DEF TypeOK
    <3> QED
      BY <2>12, <3>2 DEF Prepare, messages, TypeOK
  <2>13. CASE PrepareFails(j) \/ GenerateFails(j) \/ GenerateTimesOut(j)
    BY <2>13, GotoType DEF PrepareFails, GenerateFails, GenerateTimesOut,
       messages, TypeOK
  <2>14. CASE Generated(j)
    BY <2>14, GotoType, SaveConversationType DEF Generated, TypeOK
  <2>15. CASE Reply(j)
    BY <2>15, GotoType, PostType DEF Reply, messages, TypeOK
  <2>16. CASE Close(j)
    BY <2>16, GotoType, EndType, SetStatusType
    DEF Close, Endings, messages, TypeOK, Statuses
  <2>17. CASE Fail(j)
    BY <2>17, EndType, SetStatusType DEF Fail, Endings, messages, TypeOK, Statuses
  <2> QED
    BY <1>9, <2>1, <2>2, <2>3, <2>4, <2>5, <2>6, <2>7, <2>8, <2>9, <2>10,
       <2>11, <2>12, <2>13, <2>14, <2>15, <2>16, <2>17 DEF Run
<1> QED
  BY <1>1, <1>2, <1>3, <1>4, <1>5, <1>6, <1>7, <1>8, <1>9 DEF Next

\* Every value stays of its type, in the row, the chat and the jobs.
THEOREM TypeCorrect == Spec => []TypeOK
BY InitTypeOK, NextTypeOK, PTL DEF Spec

-----------------------------------------------------------------------------
(* What a step may do to a job, field by field.                            *)

Successors(pc) ==
    CASE pc = "idle"    -> {"idle", "task"}
      [] pc = "task"    -> {"task", "create", "done"}
      [] pc = "create"  -> {"create", "insert", "context", "done"}
      [] pc = "insert"  -> {"insert", "context", "done"}
      [] pc = "context" -> {"context", "giveUp", "chat", "done"}
      [] pc = "giveUp"  -> {"giveUp", "done"}
      [] pc = "chat"    -> {"chat", "save", "done"}
      [] pc = "save"    -> {"save", "check", "done"}
      [] pc = "check"   -> {"check", "tools", "done"}
      [] pc = "tools"   -> {"tools", "run", "fail", "done"}
      [] pc = "run"     -> {"run", "reply", "fail", "done"}
      [] pc = "reply"   -> {"reply", "close", "fail", "done"}
      [] pc = "close"   -> {"close", "fail", "done"}
      [] pc = "fail"    -> {"fail", "done"}
      [] pc = "done"    -> {"done"}

Ends(before, end) ==
    \/ end \in {"threw", "lost"}
    \/ before.pc = "insert" /\ end = "beaten" /\ Exists
    \/ before.pc = "giveUp" /\ end = "unassigned"
    \/ before.pc = "check" /\ end = "yielded" /\ before.found = "executing"
    \/ before.pc = "close" /\ end = "replied"
    \/ before.pc = "fail" /\ end = "failed"

Goes(i, from, to) == job[i].pc = from /\ job[i].pc' = to
Leaves(i)         == job[i].pc # "done" /\ job[i].pc' = "done"

Moves(i) ==
    /\ job[i].pc' \in Successors(job[i].pc)
    /\ job[i].trigger' # job[i].trigger =>
           Goes(i, "idle", "task") /\ job[i].trigger' \in comments' \cup {0}
    /\ job[i].context' = IF Goes(i, "context", "chat") THEN Newest(comments)
                         ELSE IF Leaves(i) THEN {} ELSE job[i].context
    /\ job[i].unsaved' = IF Goes(i, "chat", "save") THEN Unsaved(job[i].context)
                         ELSE IF Leaves(i) THEN {} ELSE job[i].unsaved
    /\ job[i].memory' = IF Goes(i, "tools", "run") THEN Latest(Recent, chat)
                                                   ELSE job[i].memory
    /\ Goes(i, "save", "check") => chat' = chat \cup SavedBy(i, job[i].unsaved)
    /\ Goes(i, "create", "insert") => ~Exists /\ execution' = execution
    /\ Goes(i, "insert", "context") => job[i].found' = "pending"
    /\ job[i].pc \notin {"create", "insert"} /\ job[i].pc' # "done"
           => job[i].found' = job[i].found
    /\ IF Leaves(i) THEN Ends(job[i], job[i].end') ELSE job[i].end' = job[i].end

LEMMA StayPut ==
    ASSUME TypeOK, NEW i \in Jobs, job[i]' = job[i]
    PROVE  Moves(i)
<1>1. job[i].pc \in Successors(job[i].pc)
  BY DEF TypeOK, JobState, Successors
<1>2. /\ job[i].pc' = job[i].pc
      /\ job[i].trigger' = job[i].trigger
      /\ job[i].context' = job[i].context
      /\ job[i].unsaved' = job[i].unsaved
      /\ job[i].memory' = job[i].memory
      /\ job[i].found' = job[i].found
      /\ job[i].end' = job[i].end
  OBVIOUS
<1> QED
  BY <1>1, <1>2 DEF Moves, Goes, Leaves

\* A job that ends keeps its trigger and what its agent was given.
LEMMA EndMoves ==
    ASSUME TypeOK, NEW i \in Jobs, job[i].pc \notin {"idle", "done"},
           NEW how \in Endings, job[i]' = Ended(i, how), Ends(job[i], how)
    PROVE  Moves(i)
<1>1. job[i] \in JobState
  BY DEF TypeOK
<1>2. /\ job[i].pc' = "done" /\ job[i].end' = how
      /\ job[i].trigger' = job[i].trigger /\ job[i].memory' = job[i].memory
      /\ job[i].context' = {} /\ job[i].unsaved' = {}
  BY DEF Ended, Idle
<1>3. "done" \in Successors(job[i].pc)
  BY <1>1 DEF JobState, Successors
<1> QED
  BY <1>2, <1>3 DEF Moves, Goes, Leaves

\* The steps that only move on.
LEMMA GotoMoves ==
    ASSUME TypeOK, NEW i \in Jobs, NEW pc, Goto(i, pc),
           pc \in Successors(job[i].pc), job[i].pc # "done", pc # "done",
           pc \in {"giveUp", "tools", "reply", "close", "fail"}
    PROVE  Moves(i)
<1>1. job[i] \in JobState /\ job[i]' = [job[i] EXCEPT !.pc = pc]
  BY DEF Goto, TypeOK
<1>2. /\ job[i].pc' = pc
      /\ job[i].trigger' = job[i].trigger
      /\ job[i].context' = job[i].context
      /\ job[i].unsaved' = job[i].unsaved
      /\ job[i].memory' = job[i].memory
      /\ job[i].found' = job[i].found
      /\ job[i].end' = job[i].end
  BY <1>1 DEF JobState
<1> QED
  BY <1>2 DEF Moves, Goes, Leaves

\* A step of one job leaves the others alone.
LEMMA OthersStay ==
    ASSUME TypeOK, NEW j \in Jobs, NEW i \in Jobs \ {j},
           Run(j) \/ LateLoopEnds(j) \/ Comment(j) \/ Wake(j) \/ Assign(j) \/ AssignItem(j)
    PROVE  job[i]' = job[i]
<1>1. ASSUME NEW r, job' = [job EXCEPT ![j] = r]
      PROVE  job[i]' = job[i]
  BY <1>1 DEF TypeOK
<1>2. CASE Run(j)
  <2>1. \E r : job' = [job EXCEPT ![j] = r]
    <3>1. ASSUME NEW pc, Goto(j, pc) PROVE \E r : job' = [job EXCEPT ![j] = r]
      BY <3>1 DEF Goto
    <3>2. ASSUME NEW e, End(j, e) PROVE \E r : job' = [job EXCEPT ![j] = r]
      BY <3>2 DEF End
    <3>3. CASE GetTask(j) \/ GetActive(j) \/ GetActivities(j) \/ GetChat(j) \/ Prepare(j)
      BY <3>3 DEF GetTask, GetActive, GetActivities, GetChat, Prepare
    <3>4. CASE Insert(j)
      BY <3>2, <3>4 DEF Insert
    <3>5. CASE NoAssignee(j) \/ SaveMessages(j) \/ PrepareFails(j) \/ Generated(j)
               \/ GenerateFails(j) \/ GenerateTimesOut(j) \/ Reply(j)
      BY <3>1, <3>5 DEF NoAssignee, SaveMessages, PrepareFails, Generated,
         GenerateFails, GenerateTimesOut, Reply
    <3>6. CASE GiveUp(j) \/ Yield(j) \/ Fail(j) \/ ContextFails(j)
      BY <3>2, <3>6 DEF GiveUp, Yield, Fail, ContextFails
    <3>7. CASE Execute(j) \/ Close(j)
      BY <3>1, <3>2, <3>7 DEF Execute, Close
    <3> QED
      BY <1>2, <3>3, <3>4, <3>5, <3>6, <3>7 DEF Run
  <2> QED
    BY <1>1, <2>1
<1>3. CASE LateLoopEnds(j)
  BY <1>3 DEF LateLoopEnds
<1>4. CASE Comment(j) \/ Wake(j) \/ Assign(j) \/ AssignItem(j)
  BY <1>1, <1>4 DEF Comment, Wake, Assign, AssignItem, Start
<1> QED
  BY <1>2, <1>3, <1>4

LEMMA EndIsEnded ==
    ASSUME TypeOK, NEW j \in Jobs, NEW how, End(j, how)
    PROVE  job[j]' = Ended(j, how)
BY DEF End, TypeOK

LEMMA RunMoves ==
    ASSUME TypeOK, NEW j \in Jobs, Run(j)
    PROVE  Moves(j)
<1>0. job[j] \in JobState
  BY DEF TypeOK
<1>1. CASE GetTask(j)
  BY <1>0, <1>1 DEF GetTask, At, Moves, Goes, Leaves, Successors, TypeOK, JobState
<1>2. CASE GetActive(j)
  BY <1>0, <1>2 DEF GetActive, At, Moves, Goes, Leaves, Successors, TypeOK, JobState
<1>3. CASE Insert(j)
  <2>1. CASE Exists /\ End(j, "beaten")
    BY <1>3, <2>1, EndIsEnded, EndMoves DEF Insert, At, Ends, Endings
  <2>2. CASE job' = [job EXCEPT ![j] = [@ EXCEPT !.pc = "context",
                                               !.found = "pending"]]
    BY <1>0, <1>3, <2>2 DEF Insert, At, Moves, Goes, Leaves, Successors, TypeOK, JobState
  <2> QED
    BY <1>3, <2>1, <2>2 DEF Insert
<1>4. CASE NoAssignee(j)
  BY <1>4, GotoMoves DEF NoAssignee, At, Successors
<1>5. CASE GetActivities(j)
  BY <1>0, <1>5 DEF GetActivities, At, Moves, Goes, Leaves, Successors, TypeOK, JobState
<1>6. CASE GetChat(j)
  BY <1>0, <1>6 DEF GetChat, At, Moves, Goes, Leaves, Successors, TypeOK, JobState
<1>7. CASE SaveMessages(j)
  BY <1>0, <1>7 DEF SaveMessages, Goto, At, Moves, Goes, Leaves, Successors, TypeOK, JobState
<1>8. CASE GiveUp(j)
  BY <1>8, EndIsEnded, EndMoves DEF GiveUp, At, Ends, Endings
<1>9. CASE Yield(j)
  BY <1>9, EndIsEnded, EndMoves DEF Yield, At, Ends, Endings
<1>10. CASE ContextFails(j)
  BY <1>10, EndIsEnded, EndMoves DEF ContextFails, Ends, Endings
<1>11. CASE Execute(j)
  <2>1. CASE Goto(j, "tools")
    BY <1>11, <2>1, GotoMoves DEF Execute, At, Successors
  <2>2. CASE End(j, "threw")
    BY <1>11, <2>2, EndIsEnded, EndMoves DEF Execute, At, Ends, Endings
  <2> QED
    BY <1>11, <2>1, <2>2 DEF Execute
<1>12. CASE Prepare(j)
  BY <1>0, <1>12 DEF Prepare, At, Moves, Goes, Leaves, Successors, TypeOK, JobState
<1>13. CASE PrepareFails(j)
  BY <1>13, GotoMoves DEF PrepareFails, At, Successors
<1>14. CASE Generated(j)
  BY <1>14, GotoMoves DEF Generated, At, Successors
<1>15. CASE GenerateFails(j) \/ GenerateTimesOut(j)
  BY <1>15, GotoMoves DEF GenerateFails, GenerateTimesOut, At, Successors
<1>16. CASE Reply(j)
  BY <1>16, GotoMoves DEF Reply, At, Successors
<1>17. CASE Close(j)
  <2>1. CASE End(j, "replied")
    BY <1>17, <2>1, EndIsEnded, EndMoves DEF Close, At, Ends, Endings
  <2>2. CASE Goto(j, "fail")
    BY <1>17, <2>2, GotoMoves DEF Close, At, Successors
  <2> QED
    BY <1>17, <2>1, <2>2 DEF Close
<1>18. CASE Fail(j)
  <2>1. CASE End(j, "failed")
    BY <1>18, <2>1, EndIsEnded, EndMoves DEF Fail, At, Ends, Endings
  <2>2. CASE End(j, "threw")
    BY <1>18, <2>2, EndIsEnded, EndMoves DEF Fail, At, Ends, Endings
  <2> QED
    BY <1>18, <2>1, <2>2 DEF Fail
<1> QED
  BY <1>1, <1>2, <1>3, <1>4, <1>5, <1>6, <1>7, <1>8, <1>9, <1>10, <1>11, <1>12,
     <1>13, <1>14, <1>15, <1>16, <1>17, <1>18 DEF Run

LEMMA StepMoves ==
    ASSUME TypeOK, [Next]_vars, NEW i \in Jobs
    PROVE  Moves(i)
<1>1. CASE UNCHANGED vars
  BY <1>1, StayPut DEF vars
<1>2. ASSUME NEW j \in Jobs, Run(j) PROVE Moves(i)
  BY <1>2, RunMoves, OthersStay, StayPut
<1>3. ASSUME NEW j \in Jobs, PrepareStep(j) PROVE Moves(i)
  BY <1>3, PrepareStepStutters, StayPut DEF vars
<1>4. ASSUME NEW j \in Jobs, LateLoopEnds(j) PROVE Moves(i)
  BY <1>4, StayPut DEF LateLoopEnds
<1>5. ASSUME NEW j \in Jobs, NEW b, NEW n \in comments' \cup {0}, Start(j, b, n)
      PROVE  Moves(i)
  <2>1. CASE i # j
    BY <1>5, <2>1, StayPut DEF Start, TypeOK
  <2>2. CASE i = j
    <3>1. /\ job[i] \in JobState /\ job[i].pc = "idle"
          /\ job[i]' = [job[i] EXCEPT !.pc = "task", !.onItem = b, !.trigger = n]
      BY <1>5, <2>2 DEF Start, At, TypeOK
    <3> QED
      BY <1>5, <3>1 DEF Moves, Goes, Leaves, Successors, JobState
  <2> QED
    BY <2>1, <2>2
<1>6. ASSUME NEW j \in Jobs, Comment(j) \/ Wake(j) \/ Assign(j) \/ AssignItem(j)
      PROVE  Moves(i)
  BY <1>5, <1>6 DEF Comment, Wake, Assign, AssignItem, Post
<1>7. CASE Remark \/ Reassign
  BY <1>7, StayPut DEF Remark, Reassign
<1>8. CASE Restart
  <2>1. CASE i \in InProgress
    <3>1. job[i]' = Ended(i, "lost") /\ job[i].pc \notin {"idle", "done"}
      BY <1>8, <2>1 DEF Restart, InProgress, TypeOK
    <3> QED
      BY <3>1, EndMoves DEF Ends, Endings
  <2>2. CASE i \notin InProgress
    BY <1>8, <2>2, StayPut DEF Restart, TypeOK
  <2> QED
    BY <2>1, <2>2
<1> QED
  BY <1>1, <1>2, <1>3, <1>4, <1>6, <1>7, <1>8 DEF Next

-----------------------------------------------------------------------------
(* The invariant.  A comment is carried by its own job, except when that   *)
(* job lost the insertion of the row: then the job that inserted it has    *)
(* not read the comments yet, or carries this one too.                     *)

\* Job i has comment m in reach, at whichever point it is.
Carries(i, m) ==
    /\ job[i].pc \in {"chat", "save"} => Within(m, job[i].context)
    /\ job[i].pc \in {"check", "tools"} => InReach(m, chat)
    /\ job[i].pc \in {"run", "reply", "close"} \/ job[i].end = "replied"
           => InReach(m, job[i].memory)

\* Job i inserted the row after m was posted.
Inserter(i, m) ==
    /\ job[i].pc \notin {"idle", "task", "create", "insert"}
    /\ job[i].found = "pending" \/ At(i, "done")
    /\ At(i, "done") => job[i].end \in Endings \ {"beaten", "yielded"}
    /\ Carries(i, m)

Finite ==
    /\ IsFiniteSet(chat)
    /\ \A j \in Jobs : IsFiniteSet(job[j].context) /\ IsFiniteSet(job[j].unsaved)

Posted == \A j \in Jobs :
    /\ job[j].context \subseteq comments
    /\ job[j].trigger \in comments \cup {0}

\* A comment that a job does not save has been saved.
Saved == \A j \in Jobs :
    At(j, "save") => job[j].context \subseteq Messages(chat) \cup job[j].unsaved

OwnContext == \A j \in Jobs : \A m \in job[j].context : Carries(j, m)

OwnComment == \A j \in Jobs : job[j].trigger # 0 => Carries(j, job[j].trigger)

\* A job that ended says how, and one that was not woken has no comment.
Over == \A j \in Jobs :
    /\ job[j].end # "none" <=> At(j, "done")
    /\ At(j, "idle") => job[j].trigger = 0

CarriedInv == TypeOK /\ Finite /\ Posted /\ Saved /\ OwnContext /\ OwnComment /\ Over

LeftToInserter == \A j \in Jobs :
    job[j].trigger # 0 /\ ((At(j, "insert") /\ Exists) \/ job[j].end = "beaten")
        => \E i \in Jobs : Inserter(i, job[j].trigger)

AgentInv == CarriedInv /\ LeftToInserter

-----------------------------------------------------------------------------
(* What a step may do to the tables.                                       *)

LEMMA SavedFinite ==
    ASSUME NEW j, NEW ms, IsFiniteSet(ms)
    PROVE  IsFiniteSet(SavedBy(j, ms))
<1> DEFINE f == [m \in ms |-> [msg |-> m, by |-> j]]
<1>1. f \in Surjection(ms, SavedBy(j, ms))
  BY DEF Surjection, SavedBy
<1> HIDE DEF f
<1> QED
  BY <1>1, FS_Surjection

LEMMA SaveConversationGrows ==
    ASSUME TypeOK, Finite, NEW j \in Jobs, SaveConversation(j)
    PROVE  chat \subseteq chat' /\ IsFiniteSet(chat') /\ comments' = comments
<1>1. PICK n \in 0..2 :
        /\ chat' = chat \cup SavedBy(j, (posted + 1)..(posted + n))
        /\ comments' = comments
  <2>1. CASE "conversation" \in Faults
    BY <2>1 DEF SaveConversation
  <2>2. CASE "conversation" \notin Faults
    BY <2>2 DEF SaveConversation
  <2> QED
    BY <2>1, <2>2
<1>2. posted + 1 \in Int /\ posted + n \in Int
  BY DEF TypeOK
<1>3. IsFiniteSet((posted + 1)..(posted + n))
  BY <1>2, FS_Interval
<1>4. IsFiniteSet(SavedBy(j, (posted + 1)..(posted + n)))
  BY <1>3, SavedFinite
<1> QED
  BY <1>1, <1>4, FS_Union DEF Finite

\* Messages are never removed from the chat, nor comments from the task, nor the
\* row from its table.
LEMMA Monotone ==
    ASSUME TypeOK, Finite, [Next]_vars
    PROVE  /\ chat \subseteq chat' /\ IsFiniteSet(chat')
           /\ comments \subseteq comments'
           /\ Exists => Exists'
<1> DEFINE Grows == /\ chat \subseteq chat' /\ IsFiniteSet(chat')
                    /\ comments \subseteq comments'
                    /\ Exists => Exists'
<1>1. ASSUME NEW s \in Statuses \ {"none"}, SetStatus(s) PROVE Exists => Exists'
  BY <1>1 DEF SetStatus, Exists, TypeOK
<1>2. CASE UNCHANGED vars
  BY <1>2 DEF vars, messages, Exists, Finite
<1>3. ASSUME NEW j \in Jobs, Run(j) PROVE Grows
  <2>1. CASE NoAssignee(j) \/ GiveUp(j) \/ Close(j) \/ Fail(j)
    BY <1>1, <2>1 DEF NoAssignee, GiveUp, Close, Fail, Statuses, Exists,
       messages, Finite
  <2>2. CASE Yield(j) \/ Execute(j)
    BY <2>2 DEF Yield, Execute, SetExecuting, Exists, TypeOK, messages, Finite
  <2>3. CASE Insert(j)
    BY <2>3 DEF Insert, Exists, messages, Finite
  <2>4. CASE SaveMessages(j)
    <3>1. IsFiniteSet(SavedBy(j, job[j].unsaved))
      BY SavedFinite DEF Finite
    <3> QED
      BY <2>4, <3>1, FS_Union DEF SaveMessages, Exists, Finite
  <2>5. CASE ContextFails(j)
    <3>1. CASE chat' = chat
      BY <2>5, <3>1 DEF ContextFails, Exists, Finite
    <3>2. CASE \E ms \in SUBSET job[j].unsaved : chat' = chat \cup SavedBy(j, ms)
      <4>1. PICK ms \in SUBSET job[j].unsaved : chat' = chat \cup SavedBy(j, ms)
        BY <3>2
      <4>2. IsFiniteSet(SavedBy(j, ms))
        BY SavedFinite, FS_Subset DEF Finite
      <4> QED
        BY <2>5, <4>1, <4>2, FS_Union DEF ContextFails, Exists, Finite
    <3> QED
      BY <2>5, <3>1, <3>2 DEF ContextFails
  <2>6. CASE Generated(j)
    BY <2>6, SaveConversationGrows DEF Generated, Exists
  <2>7. CASE Reply(j)
    BY <2>7 DEF Reply, Post, messages, Exists, Finite
  <2>8. CASE GetTask(j) \/ GetActive(j) \/ GetActivities(j) \/ GetChat(j)
             \/ Prepare(j) \/ PrepareFails(j)
             \/ GenerateFails(j) \/ GenerateTimesOut(j)
    BY <2>8 DEF GetTask, GetActive, GetActivities, GetChat, Prepare, PrepareFails,
       GenerateFails, GenerateTimesOut, messages, Exists, Finite
  <2> QED
    BY <1>3, <2>1, <2>2, <2>3, <2>4, <2>5, <2>6, <2>7, <2>8 DEF Run
<1>4. ASSUME NEW j \in Jobs, PrepareStep(j) PROVE Grows
  BY <1>4, PrepareStepStutters DEF vars, messages, Exists, Finite
<1>5. ASSUME NEW j \in Jobs, LateLoopEnds(j) PROVE Grows
  BY <1>5, SaveConversationGrows DEF LateLoopEnds, Exists
<1>6. ASSUME NEW j \in Jobs, Comment(j) \/ Wake(j) \/ Assign(j) \/ AssignItem(j)
      PROVE  Grows
  BY <1>6 DEF Comment, Post, Wake, Assign, AssignItem, messages, Exists, Finite
<1>7. CASE Remark \/ Reassign \/ Restart
  BY <1>7 DEF Remark, Post, Reassign, Restart, messages, Exists, Finite
<1> QED
  BY <1>2, <1>3, <1>4, <1>5, <1>6, <1>7 DEF Next

\* A row appears only when a job inserts it.
LEMMA NewRow ==
    ASSUME TypeOK, [Next]_vars, ~Exists, Exists'
    PROVE  \E j \in Jobs : Goes(j, "insert", "context") /\ job[j].found' = "pending"
<1>1. ASSUME NEW s, SetStatus(s) PROVE FALSE
  BY <1>1 DEF SetStatus, Exists
<1>2. execution' # execution
  BY DEF Exists
<1>3. ASSUME NEW j \in Jobs, Run(j)
      PROVE  Insert(j)
  <2>1. ~GiveUp(j) /\ ~Close(j) /\ ~Fail(j) /\ ~NoAssignee(j)
    BY <1>1, <1>2 DEF NoAssignee, GiveUp, Close, Fail
  <2>2. ~Yield(j)
    BY DEF Yield, Exists, TypeOK
  <2>3. ~Execute(j)
    BY <1>2 DEF Execute, SetExecuting
  <2> QED
    BY <1>2, <1>3, <2>1, <2>2, <2>3 DEF Run, GetTask, GetActive, GetActivities, GetChat,
       SaveMessages, ContextFails, Prepare, PrepareFails, Generated, GenerateFails,
       GenerateTimesOut, Reply
<1>4. PICK j \in Jobs : Insert(j)
  <2>1. ASSUME NEW j \in Jobs, PrepareStep(j) PROVE FALSE
    BY <1>2, <2>1, PrepareStepStutters DEF vars
  <2> QED
    BY <1>2, <1>3, <2>1 DEF Next, vars, Comment, Wake, Assign, AssignItem, Remark,
       Reassign, Restart, LateLoopEnds
<1>5. job[j] \in JobState /\ job[j].pc = "insert"
  BY <1>4 DEF Insert, At, TypeOK
<1>6. job[j]' = [job[j] EXCEPT !.pc = "context", !.found = "pending"]
  BY <1>4 DEF Insert, TypeOK
<1>7. job[j]'.pc = "context" /\ job[j]'.found = "pending"
  BY <1>5, <1>6 DEF JobState
<1> QED
  BY <1>5, <1>7 DEF Goes

-----------------------------------------------------------------------------
(* The invariant is kept.                                                  *)

LEMMA InitAgentInv == Init => AgentInv
<1> SUFFICES ASSUME Init PROVE AgentInv
  OBVIOUS
<1>1. TypeOK
  BY InitTypeOK
<1>2. \A j \in Jobs : /\ job[j].pc = "idle" /\ job[j].end = "none"
                      /\ job[j].trigger = 0
                      /\ job[j].context = {} /\ job[j].unsaved = {}
  BY DEF Init, Idle
<1>3. chat = {}
  BY DEF Init
<1> QED
  BY <1>1, <1>2, <1>3, FS_EmptySet DEF AgentInv, CarriedInv, Finite, Posted, Saved,
     OwnContext, OwnComment, Over, LeftToInserter, At

LEMMA FiniteStep == CarriedInv /\ [Next]_vars => Finite'
<1> SUFFICES ASSUME CarriedInv, [Next]_vars, NEW j \in Jobs
             PROVE  IsFiniteSet(job[j].context') /\ IsFiniteSet(job[j].unsaved')
  BY Monotone DEF Finite, CarriedInv
<1>1. Moves(j)
  BY StepMoves DEF CarriedInv
<1>2. IsFiniteSet(Newest(comments)) /\ IsFiniteSet({})
  <2>1. posted \in Nat /\ comments \in SUBSET (1..posted)
    BY DEF CarriedInv, TypeOK
  <2>2. IsFiniteSet(1..posted)
    BY <2>1, FS_Interval
  <2> QED
    BY <2>1, <2>2, FS_Subset, FS_EmptySet DEF Newest
<1>3. IsFiniteSet(Unsaved(job[j].context))
  BY FS_Subset DEF Unsaved, CarriedInv, Finite
<1> QED
  BY <1>1, <1>2, <1>3 DEF Moves, CarriedInv, Finite

LEMMA PostedStep == CarriedInv /\ [Next]_vars => Posted'
<1> SUFFICES ASSUME CarriedInv, [Next]_vars, NEW j \in Jobs
             PROVE  /\ job[j].context' \subseteq comments'
                    /\ job[j].trigger' \in comments' \cup {0}
  BY DEF Posted
<1>1. Moves(j) /\ comments \subseteq comments'
  BY StepMoves, Monotone DEF CarriedInv
<1>2. Newest(comments) \subseteq comments
  BY DEF Newest
<1> QED
  BY <1>1, <1>2 DEF Moves, CarriedInv, Posted

LEMMA SavedStep == CarriedInv /\ [Next]_vars => Saved'
<1> SUFFICES ASSUME CarriedInv, [Next]_vars, NEW j \in Jobs, job[j].pc' = "save"
             PROVE  job[j].context' \subseteq Messages(chat') \cup job[j].unsaved'
  BY DEF Saved, Messages, At
<1>1. Moves(j) /\ job[j] \in JobState /\ chat \subseteq chat'
  BY StepMoves, Monotone DEF CarriedInv, TypeOK
<1>2. Messages(chat) \subseteq Messages(chat')
  BY <1>1 DEF Messages
<1>3. CASE Goes(j, "chat", "save")
  <2>1. /\ job[j].context' = job[j].context
        /\ job[j].unsaved' = Unsaved(job[j].context)
    BY <1>1, <1>3 DEF Moves, Goes, Leaves
  <2>2. Messages(Latest(ChatPage, chat)) \subseteq Messages(chat)
    BY DEF Messages, Latest
  <2> QED
    BY <1>2, <2>1, <2>2 DEF Unsaved
<1>4. CASE job[j].pc = "save"
  <2>1. job[j].context' = job[j].context /\ job[j].unsaved' = job[j].unsaved
    BY <1>1, <1>4 DEF Moves, Goes, Leaves
  <2> QED
    BY <1>2, <1>4, <2>1 DEF CarriedInv, Saved, At
<1> QED
  BY <1>1, <1>3, <1>4 DEF Moves, Successors, Goes, JobState

\* What a job has in reach stays in its reach: it reads the newest comments, saves
\* those the chat does not have, and takes the newest of the chat.
LEMMA CarriesStep ==
    ASSUME CarriedInv, [Next]_vars, NEW i \in Jobs, NEW m \in comments,
           Carries(i, m)
    PROVE  Carries(i, m)'
<1>1. Moves(i) /\ job[i] \in JobState /\ chat \subseteq chat' /\ IsFiniteSet(chat')
  BY StepMoves, Monotone DEF CarriedInv, TypeOK
<1>2. m \in Nat
  BY DEF CarriedInv, TypeOK
<1>3. chat \in SUBSET Rows /\ IsFiniteSet(chat)
  BY DEF CarriedInv, TypeOK, Finite
<1>4. chat' \in SUBSET Rows
  BY NextTypeOK DEF CarriedInv, TypeOK
<1>5. job[i].pc' \in {"chat", "save"} => Within(m, job[i].context')
  <2>1. CASE Goes(i, "context", "chat")
    BY <1>1, <2>1, NewestReaches DEF Moves, CarriedInv
  <2>2. CASE ~Goes(i, "context", "chat")
    BY <1>1, <2>2 DEF Carries, Moves, Goes, Leaves, Successors, JobState
  <2> QED
    BY <2>1, <2>2
<1>6. job[i].pc' \in {"check", "tools"} => InReach(m, chat')
  <2>1. CASE Goes(i, "save", "check")
    <3>1. Within(m, job[i].context)
      BY <2>1 DEF Carries, Goes
    <3>2. job[i].context \subseteq Messages(chat) \cup job[i].unsaved
      BY <2>1 DEF CarriedInv, Saved, At, Goes
    <3>3. chat' = chat \cup SavedBy(i, job[i].unsaved)
      BY <1>1, <2>1 DEF Moves
    <3>4. ASSUME NEW n \in job[i].context PROVE n \in Messages(chat')
      <4>1. CASE n \in Messages(chat)
        BY <1>1, <4>1 DEF Messages
      <4>2. CASE n \in job[i].unsaved
        <5>1. [msg |-> n, by |-> i] \in chat'
          BY <3>3, <4>2 DEF SavedBy
        <5>2. [msg |-> n, by |-> i].msg = n
          OBVIOUS
        <5> QED
          BY <5>1, <5>2 DEF Messages
      <4> QED
        BY <3>2, <4>1, <4>2
    <3> QED
      BY <1>1, <1>2, <1>4, <3>1, <3>4, SavedReaches
  <2>2. CASE job[i].pc \in {"check", "tools"}
    BY <1>1, <2>2, GrownReaches DEF Carries
  <2> QED
    BY <1>1, <2>1, <2>2 DEF Moves, Goes, Successors, JobState
<1>7. job[i].pc' \in {"run", "reply", "close"} => InReach(m, job[i].memory')
  <2>1. CASE Goes(i, "tools", "run")
    <3>1. job[i].memory' = Latest(Recent, chat)
      BY <1>1, <2>1 DEF Moves
    <3>2. InReach(m, chat)
      BY <2>1 DEF Carries, Goes
    <3> QED
      BY <1>2, <1>3, <3>1, <3>2, LatestReaches
  <2>2. CASE ~Goes(i, "tools", "run")
    BY <1>1, <2>2 DEF Carries, Moves, Goes, Successors, JobState
  <2> QED
    BY <2>1, <2>2
<1>8. job[i].end' = "replied" => InReach(m, job[i].memory')
  <2>1. CASE job[i].end = "replied"
    <3>1. job[i].pc = "done"
      BY <2>1 DEF CarriedInv, Over, At
    <3> QED
      BY <1>1, <2>1, <3>1 DEF Carries, Moves, Goes
  <2>2. CASE job[i].end # "replied" /\ job[i].end' = "replied"
    <3>1. job[i].pc = "close"
      BY <1>1, <2>2 DEF Moves, Ends
    <3> QED
      BY <1>1, <3>1 DEF Carries, Moves, Goes
  <2> QED
    BY <2>1, <2>2
<1> QED
  BY <1>5, <1>6, <1>7, <1>8 DEF Carries

LEMMA OverStep == CarriedInv /\ [Next]_vars => Over'
<1> SUFFICES ASSUME CarriedInv, [Next]_vars, NEW j \in Jobs
             PROVE  /\ job[j].end' # "none" <=> job[j].pc' = "done"
                    /\ job[j].pc' = "idle" => job[j].trigger' = 0
  BY DEF Over, At
<1>1. Moves(j) /\ job[j] \in JobState
  BY StepMoves DEF CarriedInv, TypeOK
<1>2. /\ job[j].end # "none" <=> job[j].pc = "done"
      /\ job[j].pc = "idle" => job[j].trigger = 0
  BY DEF CarriedInv, Over, At
<1>3. job[j].end' # "none" <=> job[j].pc' = "done"
  BY <1>1, <1>2 DEF Moves, Ends, Leaves, Successors, JobState
<1>4. job[j].pc' = "idle" => job[j].trigger' = 0
  BY <1>1, <1>2 DEF Moves, Goes, Successors, JobState
<1> QED
  BY <1>3, <1>4

\* A job starts to carry its context when it reads it.
LEMMA OwnContextStep == CarriedInv /\ [Next]_vars => OwnContext'
<1> SUFFICES ASSUME CarriedInv, [Next]_vars, NEW j \in Jobs, NEW m \in job[j].context'
             PROVE  Carries(j, m)'
  BY DEF OwnContext
<1>1. Moves(j) /\ job[j] \in JobState
  BY StepMoves DEF CarriedInv, TypeOK
<1>2. CASE Goes(j, "context", "chat")
  <2>1. job[j].pc' = "chat" /\ job[j].end' = "none"
    BY <1>1, <1>2 DEF Moves, Goes, Leaves, CarriedInv, Over, At
  <2> QED
    BY <2>1 DEF Carries, Within
<1>3. CASE ~Goes(j, "context", "chat")
  <2>1. m \in job[j].context
    BY <1>1, <1>3 DEF Moves
  <2>2. Carries(j, m) /\ m \in comments
    BY <2>1 DEF CarriedInv, OwnContext, Posted
  <2> QED
    BY <2>2, CarriesStep
<1> QED
  BY <1>2, <1>3

\* The comment of a job was posted before the job began.
LEMMA OwnCommentStep == CarriedInv /\ [Next]_vars => OwnComment'
<1> SUFFICES ASSUME CarriedInv, [Next]_vars, NEW j \in Jobs, job[j].trigger' # 0
             PROVE  Carries(j, job[j].trigger)'
  BY DEF OwnComment
<1>1. Moves(j) /\ job[j] \in JobState
  BY StepMoves DEF CarriedInv, TypeOK
<1>2. CASE job[j].trigger' = job[j].trigger
  <2>1. PICK m : m = job[j].trigger
    OBVIOUS
  <2>2. m \in comments /\ Carries(j, m)
    BY <1>2, <2>1 DEF CarriedInv, Posted, OwnComment
  <2>3. Carries(j, m)'
    BY <2>2, CarriesStep
  <2> QED
    BY <1>2, <2>1, <2>3 DEF Carries
<1>3. CASE Goes(j, "idle", "task")
  <2>1. job[j].pc' = "task" /\ job[j].end' = "none"
    BY <1>1, <1>3 DEF Moves, Goes, Leaves, CarriedInv, Over, At
  <2> QED
    BY <2>1 DEF Carries
<1> QED
  BY <1>1, <1>2, <1>3 DEF Moves

\* The job that inserted the row runs: it never finds an execution in progress.
LEMMA InserterStays ==
    ASSUME CarriedInv, [Next]_vars, NEW i \in Jobs, NEW m \in comments, Inserter(i, m)
    PROVE  Inserter(i, m)'
<1>1. Moves(i) /\ job[i] \in JobState
  BY StepMoves DEF CarriedInv, TypeOK
<1>2. Carries(i, m)'
  BY CarriesStep DEF Inserter
<1>3. job[i].pc' \notin {"idle", "task", "create", "insert"}
  BY <1>1 DEF Inserter, Moves, Successors, JobState
<1>4. job[i].found' = "pending" \/ job[i].pc' = "done"
  BY <1>1 DEF Inserter, Moves, Successors, At
<1>5. job[i].pc' = "done" => job[i].end' \in Endings \ {"beaten", "yielded"}
  <2>1. CASE job[i].pc = "done"
    BY <1>1, <2>1 DEF Inserter, Moves, Leaves, At
  <2>2. CASE job[i].pc # "done" /\ job[i].pc' = "done"
    BY <1>1, <2>2 DEF Inserter, Moves, Leaves, Ends, Endings, At
  <2> QED
    BY <2>1, <2>2
<1> QED
  BY <1>2, <1>3, <1>4, <1>5 DEF Inserter, At

\* A job about to insert, or that lost the insertion, has an inserter.
LEMMA LeftToInserterStep == AgentInv /\ [Next]_vars => LeftToInserter'
<1> SUFFICES ASSUME AgentInv, [Next]_vars, NEW j \in Jobs, job[j].trigger' # 0,
                    (job[j].pc' = "insert" /\ Exists') \/ job[j].end' = "beaten"
             PROVE  \E i \in Jobs : Inserter(i, job[j].trigger)'
  BY DEF LeftToInserter, At
<1>1. Moves(j) /\ job[j] \in JobState
  BY StepMoves DEF AgentInv, CarriedInv, TypeOK
<1>2. PICK m : m = job[j].trigger'
  OBVIOUS
<1>3. job[j].pc # "idle"
  BY <1>1 DEF Moves, Leaves, Successors, AgentInv, CarriedInv, Over, At
<1>4. m = job[j].trigger /\ m \in comments /\ m # 0
  BY <1>1, <1>2, <1>3 DEF Moves, Goes, AgentInv, CarriedInv, Posted
<1>5. SUFFICES \E i \in Jobs : Inserter(i, m)'
  BY <1>2 DEF Inserter, Carries, At
<1>6. ASSUME (job[j].pc = "insert" /\ Exists) \/ job[j].end = "beaten"
      PROVE  \E i \in Jobs : Inserter(i, m)'
  <2>1. PICK i \in Jobs : Inserter(i, m)
    BY <1>4, <1>6 DEF AgentInv, LeftToInserter, At
  <2> QED
    BY <1>4, <2>1, InserterStays DEF AgentInv
<1>7. CASE job[j].end # "beaten" /\ job[j].end' = "beaten"
  <2>1. job[j].pc = "insert" /\ Exists
    BY <1>1, <1>7 DEF Moves, Ends
  <2> QED
    BY <1>6, <2>1
<1>8. CASE job[j].pc # "insert" /\ job[j].pc' = "insert" /\ Exists'
  <2>1. Goes(j, "create", "insert")
    BY <1>1, <1>8 DEF Moves, Successors, Goes, JobState
  <2> QED
    BY <1>1, <1>8, <2>1 DEF Moves, Exists
<1>9. CASE job[j].pc = "insert" /\ ~Exists /\ Exists'
  <2>1. PICK i \in Jobs : Goes(i, "insert", "context") /\ job[i].found' = "pending"
    BY <1>9, NewRow DEF AgentInv, CarriedInv
  <2>2. job[i].end' = "none"
    BY <2>1, StepMoves DEF Moves, Goes, Leaves, AgentInv, CarriedInv, Over, At
  <2>3. Inserter(i, m)'
    BY <2>1, <2>2 DEF Inserter, Carries, At, Goes
  <2> QED
    BY <2>3
<1> QED
  BY <1>6, <1>7, <1>8, <1>9

LEMMA CarriedInvariant == Spec => []CarriedInv
<1>1. Init => CarriedInv
  BY InitAgentInv DEF AgentInv
<1>2. CarriedInv /\ [Next]_vars => CarriedInv'
  BY NextTypeOK, FiniteStep, PostedStep, SavedStep, OwnContextStep, OwnCommentStep,
     OverStep DEF CarriedInv
<1> QED
  BY <1>1, <1>2, PTL DEF Spec

LEMMA AgentInvariant == Spec => []AgentInv
<1>1. CarriedInv /\ LeftToInserter /\ [Next]_vars => LeftToInserter'
  BY LeftToInserterStep DEF AgentInv
<1>2. Init => LeftToInserter
  BY InitAgentInv DEF AgentInv
<1> QED
  BY <1>1, <1>2, CarriedInvariant, PTL DEF Spec, AgentInv

-----------------------------------------------------------------------------
\* Whatever triggers overlap, whatever fails and whenever the process ends, a
\* comment that reached no agent has a job that says why, or was cut off.
THEOREM NoCommentLost == Spec => []NoSilentLoss
<1>1. AgentInv => NoSilentLoss
  <2> SUFFICES ASSUME AgentInv, Quiet, NEW c \in Jobs, job[c].trigger # 0,
                      job[c].end \notin Endings \ {"replied", "beaten"}
               PROVE  \/ \E j \in Jobs : Reached(j, job[c].trigger)
                      \/ /\ job[c].end = "beaten"
                         /\ \E j \in Jobs : job[j].end \in
                                Endings \ {"replied", "beaten", "yielded"}
    BY DEF NoSilentLoss
  <2>1. job[c] \in JobState /\ job[c].pc = "done"
    BY DEF Quiet, AgentInv, CarriedInv, Over, TypeOK, At
  <2>2. job[c].end \in {"replied", "beaten"}
    BY <2>1 DEF AgentInv, CarriedInv, Over, At, JobState
  <2>3. CASE job[c].end = "replied"
    BY <2>1, <2>3 DEF AgentInv, CarriedInv, OwnComment, Carries, Reached, InReach
  <2>4. CASE job[c].end = "beaten"
    <3>1. PICK i \in Jobs : Inserter(i, job[c].trigger)
      BY <2>4 DEF AgentInv, LeftToInserter
    <3>2. job[i].end \in Endings \ {"beaten", "yielded"}
      BY <3>1 DEF Inserter, Quiet, At
    <3>3. job[i].end = "replied" => Reached(i, job[c].trigger)
      BY <3>1 DEF Inserter, Carries, Reached, InReach
    <3> QED
      BY <2>4, <3>2, <3>3
  <2> QED
    BY <2>2, <2>3, <2>4
<1> QED
  BY <1>1, AgentInvariant, PTL

\* An agent has been given the comment that started its job and every comment its
\* prompt was built from, however long the chat is, up to the end of it that it
\* remembers.
THEOREM RepliesAnswer == Spec => []AnswersItsTrigger
<1>1. CarriedInv => AnswersItsTrigger
  BY DEF CarriedInv, OwnContext, OwnComment, Carries, AnswersItsTrigger, Reached, InReach
<1> QED
  BY <1>1, CarriedInvariant, PTL

-----------------------------------------------------------------------------
(* A row left at "executing" would make every later trigger yield to       *)
(* nobody.                                                                 *)

\* Statuses other than "executing" are nobody's.
LEMMA StatusWritten ==
    ASSUME TypeOK, NEW s \in {"completed", "failed"}, SetStatus(s),
           execution'.status = "executing"
    PROVE  FALSE
BY DEF SetStatus, Exists, TypeOK

\* A job that works goes on working, closes the execution, or is cut off.
LEMMA WorkerStays ==
    ASSUME TypeOK, Over, [Next]_vars, execution'.status = "executing",
           NEW w \in Working \cup Abandoned
    PROVE  w \in (Working \cup Abandoned)'
<1>1. w \in Jobs /\ Moves(w) /\ job[w] \in JobState
  BY StepMoves DEF Working, Abandoned, TypeOK
<1>2. CASE w \in Abandoned
  <2>1. job[w].pc = "done"
    BY <1>1, <1>2 DEF Abandoned, Over, At
  <2> QED
    BY <1>1, <1>2, <2>1 DEF Abandoned, Moves, Leaves
<1>3. CASE w \in Working /\ ~Leaves(w)
  BY <1>1, <1>3 DEF Working, Moves, Leaves, Successors, JobState
<1>4. CASE w \in Working /\ Leaves(w) /\ job[w].end' \in {"threw", "lost"}
  BY <1>1, <1>4 DEF Abandoned
<1>5. ASSUME w \in Working, Leaves(w), job[w].end' \in {"replied", "failed"}
      PROVE  FALSE
  <2>1. job[w]' # job[w]
    BY <1>5 DEF Leaves
  <2>2. ASSUME NEW how, End(w, how) PROVE job[w]'.end = how
    <3>1. job[w]' = Ended(w, how)
      BY <1>1, <2>2, EndIsEnded
    <3> QED
      BY <3>1 DEF Ended, Idle
  <2>3. ASSUME NEW pc, Goto(w, pc) PROVE job[w]'.pc = pc
    BY <1>1, <2>3 DEF Goto, TypeOK, JobState
  <2>4. ~Goto(w, "fail") /\ ~End(w, "threw")
    BY <1>5, <2>2, <2>3 DEF Leaves
  <2>5. ~SetStatus("completed") /\ ~SetStatus("failed")
    BY StatusWritten
  <2>6. ~Run(w)
    <3>1. ~Close(w)
      BY <2>4, <2>5 DEF Close
    <3>2. ~Fail(w)
      BY <2>4, <2>5 DEF Fail
    <3>3. ~Prepare(w)
      <4>1. ASSUME Prepare(w)
            PROVE  job[w]' = [job[w] EXCEPT !.pc = "run",
                                            !.memory = Latest(Recent, chat)]
        BY <1>1, <4>1 DEF Prepare, TypeOK
      <4> QED
        BY <1>1, <1>5, <4>1 DEF Leaves, JobState
    <3> QED
      BY <1>5, <2>3, <3>1, <3>2, <3>3 DEF Run, Working, Leaves, At, GetTask, GetActive,
         Insert, NoAssignee, GetActivities, GetChat, SaveMessages, GiveUp, Yield,
         ContextFails, Execute, PrepareFails, Generated, GenerateFails,
         GenerateTimesOut, Reply
  <2>7. ~Restart
    BY <1>1, <1>5, <2>1 DEF Restart, InProgress, Ended, Idle, TypeOK
  <2>8. ~PrepareStep(w)
    BY <1>1, <2>1, PrepareStepStutters DEF vars
  <2>9. ~LateLoopEnds(w) /\ ~Comment(w) /\ ~Wake(w) /\ ~Assign(w) /\ ~AssignItem(w)
    BY <1>5, <2>1 DEF LateLoopEnds, Comment, Wake, Assign, AssignItem, Start, At, Working
  <2>10. PICK j \in Jobs : \/ Run(j) \/ PrepareStep(j) \/ LateLoopEnds(j)
                           \/ Comment(j) \/ Wake(j) \/ Assign(j) \/ AssignItem(j)
    BY <2>1, <2>7 DEF Next, vars, Remark, Reassign
  <2>11. j # w
    BY <2>6, <2>8, <2>9, <2>10
  <2> QED
    BY <1>1, <2>1, <2>10, <2>11, OthersStay, PrepareStepStutters DEF vars
<1> QED
  BY <1>1, <1>2, <1>3, <1>4, <1>5 DEF Moves, Ends, Working

\* A row that says "executing" has the job that set it, at work or cut off: no
\* other job, however it overlaps, leaves the row so when it ends.
THEOREM ExecutionOwned == Spec => []ExecutingHasOwner
<1>1. Init => ExecutingHasOwner
  BY DEF Init, ExecutingHasOwner
<1>2. CarriedInv /\ ExecutingHasOwner /\ [Next]_vars => ExecutingHasOwner'
  <2> SUFFICES ASSUME TypeOK, Over, ExecutingHasOwner, [Next]_vars,
                      execution'.status = "executing"
               PROVE  execution'.by \cap (Working \cup Abandoned)' # {}
    BY DEF ExecutingHasOwner, CarriedInv
  <2>1. ASSUME NEW j \in Jobs, Execute(j), Exists
        PROVE  execution'.by \cap (Working \cup Abandoned)' # {}
    <3>1. execution'.by = {j}
      BY <2>1 DEF Execute, SetExecuting, TypeOK
    <3>2. CASE Goto(j, "tools")
      <4>1. job[j].pc' = "tools"
        BY <3>2 DEF Goto, TypeOK, JobState
      <4> QED
        BY <3>1, <4>1 DEF Working
    <3>3. CASE End(j, "threw")
      <4>1. job[j]' = Ended(j, "threw")
        BY <3>3, EndIsEnded
      <4>2. job[j]'.end = "threw"
        BY <4>1 DEF Ended, Idle
      <4> QED
        BY <3>1, <4>2 DEF Abandoned
    <3> QED
      BY <2>1, <3>2, <3>3 DEF Execute
  <2>2. ASSUME \A j \in Jobs : ~(Execute(j) /\ Exists)
        PROVE  execution.status = "executing" /\ execution'.by = execution.by
    <3>1. ASSUME NEW s \in {"completed", "failed"} PROVE ~SetStatus(s)
      BY <3>1, StatusWritten
    <3>2. ASSUME NEW j \in Jobs, Run(j)
          PROVE  execution.status = "executing" /\ execution'.by = execution.by
      <4>1. ~GiveUp(j) /\ (NoAssignee(j) => execution' = execution)
        BY <3>1 DEF GiveUp, NoAssignee
      <4>2. (Close(j) \/ Fail(j)) => execution' = execution
        BY <3>1 DEF Close, Fail
      <4>3. Insert(j) => execution' = execution
        BY DEF Insert
      <4>4. Execute(j) => execution' = execution
        BY <2>2 DEF Execute, SetExecuting
      <4>5. Yield(j) => execution'.status = execution.status
                        /\ execution'.by = execution.by
        BY DEF Yield, TypeOK
      <4> QED
        BY <3>2, <4>1, <4>2, <4>3, <4>4, <4>5 DEF Run, GetTask,
           GetActive, GetActivities, GetChat, SaveMessages, ContextFails, Prepare,
           PrepareFails, Generated, GenerateFails, GenerateTimesOut, Reply
    <3>3. ASSUME NEW j \in Jobs, PrepareStep(j) PROVE execution' = execution
      BY <3>3, PrepareStepStutters DEF vars
    <3> QED
      BY <3>2, <3>3 DEF Next, vars, Comment, Wake, Assign, AssignItem, Remark,
         Reassign, Restart, LateLoopEnds
  <2>3. CASE \A j \in Jobs : ~(Execute(j) /\ Exists)
    <3>1. PICK w \in Working \cup Abandoned : w \in execution.by
      BY <2>2, <2>3 DEF ExecutingHasOwner
    <3>2. w \in (Working \cup Abandoned)'
      BY WorkerStays
    <3> QED
      BY <2>2, <2>3, <3>1, <3>2
  <2> QED
    BY <2>1, <2>3
<1> QED
  BY <1>1, <1>2, CarriedInvariant, PTL DEF Spec
=============================================================================
