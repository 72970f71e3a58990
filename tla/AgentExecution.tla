--------------------------- MODULE AgentExecution ---------------------------
(***************************************************************************)
(* The agent that works on a task: the "execute-agent-task-plan" job, the  *)
(* one task_executions row of the task, and the triggers (an assignment, a *)
(* comment) that start a job each.                                         *)
(*                                                                         *)
(* A job reads the row, saves the comments the task's chat does not have   *)
(* yet, and either finds the row "executing" (it marks the context stale   *)
(* and leaves) or runs the agent loop itself.  Jobs run in one process and *)
(* live in its memory; each await lets the others go on, so every database *)
(* call is an action.  One task; comments and messages are the numbers of  *)
(* their creation, so that the newest of a set are its largest.            *)
(***************************************************************************)
EXTENDS Naturals, FiniteSets

CONSTANTS
    Jobs,        \* job runs; bounds the triggers
    Team,        \* the team of the task
    NoTeam,      \* `teamId` left out of a call: SQL compares with NULL
    Recent,      \* a page of activities, and what an agent remembers of a chat (20)
    ChatPage,    \* the messages getChatById returns (100)
    Faults,      \* what may fail or be late, by the place it happens
    MaxRemarks   \* bound on the messages there are when a comment triggers nothing

ASSUME TeamAssumption == NoTeam # Team
ASSUME OptionsAssumption ==
    Faults \subseteq {"context", "starting", "tools", "model", "timeout",
                      "conversation", "closing", "catch", "restart"}
ASSUME PagesAssumption ==
    /\ Recent \in Nat \ {0} /\ ChatPage \in Nat
    /\ Recent <= ChatPage

VARIABLES
    assigned,   \* the assignee of the task
    execution,  \* the task_executions row; status "none" while there is none
    posted,     \* how many comments and messages were created
    comments,   \* the comments on the task
    chat,       \* the rows of chat_messages
    job,        \* the job runs
    loops       \* the jobs whose agent loop is still taking steps

messages == <<posted, comments, chat>>
vars     == <<assigned, execution, messages, job, loops>>

Assignees == {"nobody", "human", "agent"}
Statuses  == {"none", "pending", "executing", "completed", "failed"}
Endings   == {"replied", "yielded", "unassigned", "failed", "beaten", "threw", "lost"}

\* A row of chat_messages, by the job that saved it: nothing keeps a message
\* from being saved twice.
Rows == [msg : Nat, by : Jobs]

\* onItem: the job is about one checklist item; trigger is the comment that woke
\* it, 0 for another trigger; hasAssignee and found are what it read from the task
\* and from the row, context the comments it read, unsaved those it has to save,
\* memory what the chat gave its agent.
JobState ==
    [pc : {"idle", "task", "create", "insert", "context", "giveUp", "chat", "save",
           "check", "tools", "run", "reply", "close", "fail", "done"},
     onItem : BOOLEAN, trigger : Nat, hasAssignee : BOOLEAN, found : Statuses,
     context : SUBSET Nat, unsaved : SUBSET Nat, memory : SUBSET Rows,
     end : Endings \cup {"none"}]

Idle == [pc |-> "idle", onItem |-> FALSE, trigger |-> 0, hasAssignee |-> FALSE,
         found |-> "none", context |-> {}, unsaved |-> {}, memory |-> {},
         end |-> "none"]

TypeOK ==
    /\ assigned \in Assignees
    /\ execution \in [status : Statuses, contextStale : BOOLEAN, by : SUBSET Jobs]
    /\ posted \in Nat
    /\ comments \subseteq 1..posted
    /\ chat \subseteq Rows
    /\ job \in [Jobs -> JobState]
    /\ loops \subseteq Jobs

\* The row's `by` is history: the job that last set "executing", if any.
Init ==
    /\ assigned \in Assignees
    /\ execution = [status |-> "none", contextStale |-> FALSE, by |-> {}]
    /\ posted = 0 /\ comments = {} /\ chat = {}
    /\ job = [j \in Jobs |-> Idle]
    /\ loops = {}

At(j, pc) == job[j].pc = pc
Exists    == execution.status # "none"

\* The newest of a set of comments, and the n newest rows.
Newer(S, m)   == {n \in S : n > m}
Newest(S)     == {m \in S : Cardinality(Newer(S, m)) < Recent}
After(rows, m)      == {r \in rows : r.msg > m}
Latest(n, rows)     == {r \in rows : Cardinality(After(rows, r.msg)) < n}
Messages(rows)      == {r.msg : r \in rows}
SavedBy(j, ms)      == {[msg |-> m, by |-> j] : m \in ms}

Goto(j, pc) == job' = [job EXCEPT ![j] = [@ EXCEPT !.pc = pc]]

\* Of a job that is over, only what woke it and what it was given is kept.
Ended(j, how) == [Idle EXCEPT !.pc = "done", !.end = how,
                              !.trigger = job[j].trigger, !.memory = job[j].memory]
End(j, how)   == job' = [job EXCEPT ![j] = Ended(j, how)]

\* updateTaskExecution: an UPDATE by task id, whatever the row holds.
SetStatus(s) == execution' = IF Exists THEN [execution EXCEPT !.status = s, !.by = {}]
                                       ELSE execution

-----------------------------------------------------------------------------
(* The triggers.  The check on who acts (never the agent itself) is left   *)
(* out: every actor here is somebody else.                                 *)

Start(j, item, comment) ==
    /\ At(j, "idle")
    /\ job' = [job EXCEPT ![j] = [@ EXCEPT !.pc = "task", !.onItem = item,
                                           !.trigger = comment]]

Post == /\ posted' = posted + 1
        /\ comments' = comments \cup {posted + 1}
        /\ UNCHANGED chat

\* A comment on a task that is an agent's.
Comment(j) ==
    /\ assigned = "agent"
    /\ Post
    /\ Start(j, FALSE, posted + 1)
    /\ UNCHANGED <<assigned, execution, loops>>

\* A comment that triggers nothing: the task is nobody's or a human's, the agent
\* wrote it, or the process ended before the trigger.
Remark ==
    /\ posted < MaxRemarks
    /\ Post
    /\ UNCHANGED <<assigned, execution, job, loops>>

\* An item of a task that is an agent's is completed.
Wake(j) ==
    /\ assigned = "agent"
    /\ Start(j, FALSE, 0)
    /\ UNCHANGED <<assigned, execution, messages, loops>>

\* The task is given to an agent.
Assign(j) ==
    /\ assigned # "agent" /\ assigned' = "agent"
    /\ Start(j, FALSE, 0)
    /\ UNCHANGED <<execution, messages, loops>>

\* A checklist item of it is.
AssignItem(j) ==
    /\ Start(j, TRUE, 0)
    /\ UNCHANGED <<assigned, execution, messages, loops>>

\* An update that triggers nothing.
Reassign ==
    /\ assigned' \in Assignees \ {assigned, "agent"}
    /\ UNCHANGED <<execution, messages, job, loops>>

-----------------------------------------------------------------------------
(* getTaskExecutorContext                                                  *)

GetTask(j) ==
    /\ At(j, "task")
    /\ job' = [job EXCEPT ![j] =
                  [@ EXCEPT !.pc = "create",
                            !.hasAssignee = assigned # "nobody"]]
    /\ UNCHANGED <<assigned, execution, messages, loops>>

\* createTaskExecution looks for a row (of any status) and, if there is none,
\* inserts one: two awaits.
GetActive(j) ==
    /\ At(j, "create")
    /\ job' = [job EXCEPT ![j] =
                  [@ EXCEPT !.pc = IF Exists THEN "context" ELSE "insert",
                            !.found = execution.status]]
    /\ UNCHANGED <<assigned, execution, messages, loops>>

\* A second row breaks the unique constraint; nothing catches the exception.
Insert(j) ==
    /\ At(j, "insert")
    /\ IF Exists
         THEN End(j, "beaten") /\ UNCHANGED execution
         ELSE /\ execution' = [status |-> "pending", contextStale |-> FALSE,
                               by |-> {}]
              /\ job' = [job EXCEPT ![j] = [@ EXCEPT !.pc = "context",
                                                     !.found = "pending"]]
    /\ UNCHANGED <<assigned, messages, loops>>

\* The assignee is the one read with the task.  That of an item, or the item
\* itself, is looked up now, and anybody may have changed it: either way.
NoAssignee(j) ==
    /\ At(j, "context") /\ (job[j].onItem \/ ~job[j].hasAssignee)
    /\ IF job[j].onItem THEN UNCHANGED execution ELSE SetStatus("failed")
    /\ Goto(j, "giveUp")
    /\ UNCHANGED <<assigned, messages, loops>>

\* Who it is for is not asked again.
GetActivities(j) ==
    /\ At(j, "context") /\ (job[j].onItem \/ job[j].hasAssignee)
    /\ job' = [job EXCEPT ![j] =
                  [@ EXCEPT !.pc = "chat", !.context = Newest(comments),
                            !.onItem = FALSE, !.hasAssignee = FALSE]]
    /\ UNCHANGED <<assigned, execution, messages, loops>>

Unsaved(context) == context \ Messages(Latest(ChatPage, chat))

GetChat(j) ==
    /\ At(j, "chat")
    /\ job' = [job EXCEPT ![j] = [@ EXCEPT !.pc = "save",
                                           !.unsaved = Unsaved(job[j].context)]]
    /\ UNCHANGED <<assigned, execution, messages, loops>>

\* Mutant: only the comments the job did not start with are saved.
SaveOthers(j) ==
    /\ At(j, "save")
    /\ chat' = chat \cup SavedBy(j, job[j].unsaved \ {job[j].trigger})
    /\ Goto(j, "check")
    /\ UNCHANGED <<assigned, execution, posted, comments, loops>>

\* A comment keeps its own time in the chat.
SaveMessages(j) ==
    /\ At(j, "save")
    /\ chat' = chat \cup SavedBy(j, job[j].unsaved)
    /\ Goto(j, "check")
    /\ UNCHANGED <<assigned, execution, posted, comments, loops>>

-----------------------------------------------------------------------------
(* The job                                                                 *)

\* The context came back without a task.
GiveUp(j) ==
    /\ At(j, "giveUp")
    /\ SetStatus("failed")
    /\ End(j, "unassigned")
    /\ UNCHANGED <<assigned, messages, loops>>

\* The status is the one read in GetActive.
Yield(j) ==
    /\ At(j, "check") /\ job[j].found = "executing"
    /\ execution' = [execution EXCEPT !.contextStale = TRUE]
    /\ End(j, "yielded")
    /\ UNCHANGED <<assigned, messages, loops>>

\* A call before the try throws: the job ends with a line in the log.
ContextFails(j) ==
    /\ "context" \in Faults
    /\ job[j].pc \in {"task", "create", "insert", "context", "chat", "save",
                      "giveUp", "check"}
    /\ IF At(j, "save") THEN \E ms \in SUBSET job[j].unsaved :
                                 chat' = chat \cup SavedBy(j, ms)
                        ELSE UNCHANGED chat
    /\ End(j, "threw")
    /\ UNCHANGED <<assigned, execution, posted, comments, loops>>

SetExecuting(j) ==
    execution' = IF Exists THEN [execution EXCEPT !.status = "executing", !.by = {j}]
                           ELSE execution

\* The update and the activity run together, before the try.
Execute(j) ==
    /\ At(j, "check") /\ job[j].found # "executing"
    /\ SetExecuting(j)
    /\ \/ Goto(j, "tools")
       \/ "starting" \in Faults /\ End(j, "threw")
    /\ UNCHANGED <<assigned, messages, loops>>

\* Mutant: the slice is taken from the wrong end of the chat.
PrepareFirst(j) ==
    /\ At(j, "tools")
    /\ job' = [job EXCEPT ![j] =
                  [@ EXCEPT !.pc = "run",
                            !.memory = {r \in chat : Cardinality(
                                {q \in chat : q.msg < r.msg}) < Recent}]]
    /\ loops' = loops \cup {j}
    /\ UNCHANGED <<assigned, execution, messages>>

\* getAllTools, createAgentFromDB; prepareAgent reads the chat and keeps the
\* end of it.
Prepare(j) ==
    /\ At(j, "tools")
    /\ job' = [job EXCEPT ![j] = [@ EXCEPT !.pc = "run",
                                           !.memory = Latest(Recent, chat)]]
    /\ loops' = loops \cup {j}
    /\ UNCHANGED <<assigned, execution, messages>>

PrepareFails(j) ==
    /\ "tools" \in Faults /\ At(j, "tools")
    /\ Goto(j, "fail")
    /\ UNCHANGED <<assigned, execution, messages, loops>>

\* The row of the task in that team.
getTaskExecutionByTaskId(teamId) ==
    {r \in {execution} : r.status # "none" /\ teamId = Team}

\* prepareStep, which only matters when it finds the context stale.  The call
\* leaves `teamId` out.
PrepareStep(j) ==
    /\ j \in loops
    /\ LET stale == \E r \in getTaskExecutionByTaskId(NoTeam) : r.contextStale
           new   == IF stale THEN SavedBy(j, Unsaved(Newest(comments))) ELSE {}
       IN  /\ job' = [job EXCEPT ![j] =
                         [@ EXCEPT !.memory = job[j].memory \cup new]]
           /\ chat' = chat \cup new
           /\ execution' = [execution EXCEPT !.contextStale = @ /\ ~stale]
    /\ UNCHANGED <<assigned, posted, comments, loops>>

\* saveConversation: the prompt and the answer; what fails is only logged.
SaveConversation(j) ==
    \E n \in IF "conversation" \in Faults THEN 0..2 ELSE {2} :
        /\ posted' = posted + n
        /\ chat' = chat \cup SavedBy(j, (posted + 1)..(posted + n))
        /\ UNCHANGED comments

Generated(j) ==
    /\ At(j, "run")
    /\ SaveConversation(j)
    /\ loops' = loops \ {j}
    /\ Goto(j, "reply")
    /\ UNCHANGED <<assigned, execution>>

GenerateFails(j) ==
    /\ "model" \in Faults /\ At(j, "run")
    /\ loops' = loops \ {j}
    /\ Goto(j, "fail")
    /\ UNCHANGED <<assigned, execution, messages>>

\* generate gives up after ten minutes; nothing aborts the loop.
GenerateTimesOut(j) ==
    /\ "timeout" \in Faults /\ At(j, "run")
    /\ Goto(j, "fail")
    /\ UNCHANGED <<assigned, execution, messages, loops>>

LateLoopEnds(j) ==
    /\ j \in loops /\ ~At(j, "run")
    /\ SaveConversation(j)
    /\ loops' = loops \ {j}
    /\ UNCHANGED <<assigned, execution, job>>

\* createTaskComment.  The agent's own comment triggers nothing.
Reply(j) ==
    /\ At(j, "reply")
    /\ \/ Post /\ Goto(j, "close")
       \/ "closing" \in Faults /\ Goto(j, "fail") /\ UNCHANGED messages
    /\ UNCHANGED <<assigned, execution, loops>>

\* Mutant: the activity without the status.
CloseKeepsStatus(j) ==
    /\ At(j, "close")
    /\ End(j, "replied")
    /\ UNCHANGED <<assigned, execution, messages, loops>>

\* The update and the activity run together: either may be the one that fails.
Close(j) ==
    /\ At(j, "close")
    /\ \/ SetStatus("completed") /\ End(j, "replied")
       \/ /\ "closing" \in Faults /\ Goto(j, "fail")
          /\ SetStatus("completed") \/ UNCHANGED execution
    /\ UNCHANGED <<assigned, messages, loops>>

\* Mutant: the exception is only logged.
FailLogs(j) ==
    /\ At(j, "fail")
    /\ End(j, "failed")
    /\ UNCHANGED <<assigned, execution, messages, loops>>

\* The catch, whose own update may throw.
Fail(j) ==
    /\ At(j, "fail")
    /\ \/ SetStatus("failed") /\ End(j, "failed")
       \/ "catch" \in Faults /\ End(j, "threw") /\ UNCHANGED execution
    /\ UNCHANGED <<assigned, messages, loops>>

-----------------------------------------------------------------------------
InProgress == {j \in Jobs : job[j].pc \notin {"idle", "done"}}

\* The process ends, and the jobs and loops in its memory with it; the next one
\* resumes none of them.
Restart ==
    /\ "restart" \in Faults
    /\ InProgress \cup loops # {}
    /\ job' = [j \in Jobs |-> IF j \in InProgress
                              THEN Ended(j, "lost") ELSE job[j]]
    /\ loops' = {}
    /\ UNCHANGED <<assigned, execution, messages>>

Run(j) ==
    \/ GetTask(j) \/ GetActive(j) \/ Insert(j)
    \/ NoAssignee(j) \/ GetActivities(j) \/ GetChat(j) \/ SaveMessages(j)
    \/ GiveUp(j) \/ Yield(j) \/ ContextFails(j) \/ Execute(j)
    \/ Prepare(j) \/ PrepareFails(j)
    \/ Generated(j) \/ GenerateFails(j) \/ GenerateTimesOut(j)
    \/ Reply(j) \/ Close(j) \/ Fail(j)

Next ==
    \/ \E j \in Jobs : Run(j) \/ PrepareStep(j) \/ LateLoopEnds(j)
    \/ \E j \in Jobs : Comment(j) \/ Wake(j) \/ Assign(j) \/ AssignItem(j)
    \/ Remark \/ Reassign \/ Restart

Spec == Init /\ [][Next]_vars

\* The event loop resumes every await whose call is answered, and generate is
\* answered or times out.
Fairness == \A j \in Jobs : WF_vars(Run(j)) /\ WF_vars(PrepareStep(j))
FairSpec == Spec /\ Fairness

-----------------------------------------------------------------------------
(* Properties                                                              *)

Working   == {j \in Jobs : job[j].pc \in {"tools", "run", "reply", "close", "fail"}}
Abandoned == {j \in Jobs : job[j].end \in {"threw", "lost"}}
Quiet     == \A j \in Jobs : job[j].pc \in {"idle", "done"}

\* The agent of j was given message m, or as many newer ones as it remembers.
Reached(j, m) ==
    \/ m \in Messages(job[j].memory)
    \/ Cardinality(After(job[j].memory, m)) >= Recent

\* A row that says "executing" has a job that will say otherwise, or was
\* abandoned by a job that an exception outside the try, or the end of the
\* process, cut off: every trigger that meets it only marks it stale, so a row
\* left so is never executed again.
ExecutingHasOwner ==
    execution.status = "executing" => execution.by \cap (Working \cup Abandoned) # {}

\* Once the jobs are over, every comment that triggered one reached an agent,
\* unless its job found an execution in progress, could not run or was cut off; a
\* job lost to the unique constraint leaves its comment to the one that inserted.
NoSilentLoss ==
    Quiet => \A c \in {j \in Jobs : job[j].trigger # 0} :
        \/ \E j \in Jobs : Reached(j, job[c].trigger)
        \/ job[c].end \in Endings \ {"replied", "beaten"}
        \/ /\ job[c].end = "beaten"
           /\ \E j \in Jobs : job[j].end \in Endings \ {"replied", "beaten", "yielded"}

\* An agent that works or replies was given the comment that started its job, and
\* every comment its prompt was built from, up to the end of the chat it remembers.
AnswersItsTrigger ==
    \A j \in Jobs : job[j].pc \in {"run", "reply", "close"} =>
        \A m \in job[j].context \cup ({job[j].trigger} \ {0}) : Reached(j, m)

\* An execution ends, whichever jobs overlap, fail or give up, unless the job
\* that set it was cut off.
RunEnds ==
    execution.status = "executing"
        ~> execution.status # "executing" \/ execution.by \cap Abandoned # {}

\* A context marked stale is refreshed.
StaleIsRefreshed == execution.contextStale ~> ~execution.contextStale

\* One agent at a time works on the task.
OneAgent == Cardinality(loops) <= 1
=============================================================================
