----------------------- MODULE RecurringTasks_proofs -----------------------
(***************************************************************************)
(* Theorems about RecurringTasks, for every set of tasks, runs, requests   *)
(* and cron expressions:                                                   *)
(*   - type correctness, whatever is interleaved and whatever fails;       *)
(*   - OneChain, when requests do not overlap the runs of their task;      *)
(*   - ScheduleMatchesRow, when handlers of a task run in turn, unfailing. *)
(***************************************************************************)
EXTENDS MCRecurringSchedules, TLAPS

\* A slot that is not free holds a record with all its fields.
LEMMA LiveRunFields ==
    ASSUME TypeOK, NEW r \in Runs, run[r].pc # "unused"
    PROVE  run[r] \in LiveRun
BY DEF TypeOK, NoRunState

LEMMA LiveEditFields ==
    ASSUME TypeOK, NEW e \in Edits, edit[e].pc # "idle"
    PROVE  edit[e] \in LiveEdit
BY DEF TypeOK, NoEdit

LEMMA InitTypeOK == Init => TypeOK
BY ConstantsAreDistinct, OptionsAreKnown
DEF Init, TypeOK, TaskRow, NoEdit, Cron, RunId

\* updateTaskRecurringJob keeps the table well-formed.
LEMMA SetRecurringJobType ==
    ASSUME TypeOK, NEW t \in Tasks, NEW j \in RunId, SetRecurringJob(t, j)
    PROVE  task' \in [Tasks -> TaskRow]
BY DEF SetRecurringJob, TypeOK, TaskRow

\* No step of the code puts a value of another type into a row, a timer or a
\* request: in particular an update without `recurring` leaves a cron in the row.
LEMMA NextTypeOK == TypeOK /\ [Next]_vars => TypeOK'
<1> SUFFICES ASSUME TypeOK, [Next]_vars PROVE TypeOK'
  OBVIOUS
<1>1. CASE UNCHANGED vars
  BY <1>1 DEF vars, TypeOK
<1>2. ASSUME NEW e \in Edits, NEW t \in Tasks, NEW c \in Cron, TaskCreate(e, t, c)
      PROVE  TypeOK'
  <2>0. [task[t] EXCEPT !.row = "present", !.recurring = c] \in TaskRow
    BY DEF TypeOK, TaskRow
  <2>1. task' \in [Tasks -> TaskRow]
    BY <1>2, <2>0 DEF TaskCreate, TypeOK
  <2>2. [pc |-> "syncing", id |-> t, recurring |-> c, oldRecurring |-> NoCron,
         oldJobId |-> NoRun, nextJob |-> NoRun] \in LiveEdit
    BY DEF LiveEdit, Cron, RunId
  <2> QED
    BY <1>2, <2>1, <2>2 DEF TaskCreate, TypeOK
<1>3. ASSUME NEW e \in Edits, NEW t \in Tasks, NEW c \in Cron \cup {Unchanged},
             UpdateRead(e, t, c)
      PROVE  TypeOK'
  <2>1. [pc |-> "updating", id |-> t, recurring |-> c,
         oldRecurring |-> task[t].recurring,
         oldJobId |-> task[t].recurringJobId, nextJob |-> NoRun] \in LiveEdit
    BY DEF LiveEdit, TypeOK, TaskRow, RunId
  <2> QED
    BY <1>3, <2>1 DEF UpdateRead, TypeOK
<1>4. ASSUME NEW t \in Tasks, TaskDelete(t)
      PROVE  TypeOK'
  <2>1. task' \in [Tasks -> TaskRow]
    BY <1>4 DEF TaskDelete, TypeOK, TaskRow
  <2> QED
    BY <1>4, <2>1 DEF TaskDelete, TypeOK
<1>5. ASSUME NEW e \in Edits, UpdateWrite(e)
      PROVE  TypeOK'
  <2> DEFINE t == edit[e].id
             c == IF edit[e].recurring = Unchanged
                  THEN task[t].recurring ELSE edit[e].recurring
             next == [edit[e] EXCEPT !.pc = "syncing", !.recurring = c]
  <2>1. edit[e] \in LiveEdit
    BY <1>5, LiveEditFields DEF UpdateWrite
  <2>2. t \in Tasks /\ c \in Cron
    BY <2>1 DEF LiveEdit, TypeOK, TaskRow
  <2>3. next \in LiveEdit /\ next.recurring = c
    BY <2>1, <2>2 DEF LiveEdit
  <2>4. task' \in [Tasks -> TaskRow]
    BY <1>5, <2>2 DEF UpdateWrite, TypeOK, TaskRow
  <2>5. \/ edit' = [edit EXCEPT ![e] = NoEdit]
        \/ edit' = [edit EXCEPT ![e] = next]
    BY <1>5 DEF UpdateWrite, TypeOK
  <2>7. run' = run /\ faults' = faults
    BY <1>5 DEF UpdateWrite
  <2> HIDE DEF t, c, next
  <2>8. edit' \in [Edits -> LiveEdit \cup {NoEdit}]
    BY <2>3, <2>5 DEF TypeOK
  <2>9. \A d \in Edits : edit'[d].pc # "updating" => edit'[d].recurring \in Cron
    BY <2>2, <2>3, <2>5 DEF TypeOK, NoEdit, Cron
  <2> QED
    BY <2>4, <2>7, <2>8, <2>9 DEF TypeOK
<1>6. ASSUME NEW e \in Edits, EditSync(e)
      PROVE  TypeOK'
  <2>1. edit[e] \in LiveEdit /\ edit[e].recurring \in Cron
    BY <1>6, LiveEditFields DEF EditSync, TypeOK
  <2>2. [edit[e] EXCEPT !.pc = "unlinking"] \in LiveEdit
    BY <2>1 DEF LiveEdit
  <2>3. CASE edit[e].recurring = NoCron
    <3>1. run' \in [Runs -> LiveRun \cup {NoRunState}]
      BY <1>6, <2>3 DEF EditSync, Cancelled, TypeOK
    <3> QED
      BY <1>6, <2>1, <2>2, <2>3, <3>1 DEF EditSync, TypeOK, LiveEdit
  <2>4. CASE edit[e].recurring # NoCron
    <3>1. PICK n \in Runs :
            /\ run' = Cancelled([run EXCEPT ![n] = Armed(edit[e].id, edit[e].recurring)],
                                edit[e].oldJobId)
            /\ edit' = [edit EXCEPT ![e] = [@ EXCEPT !.pc = "linking", !.nextJob = n]]
      BY <1>6, <2>4 DEF EditSync
    <3>2. Armed(edit[e].id, edit[e].recurring) \in LiveRun
      BY <2>1 DEF Armed, LiveRun, LiveEdit, RunId
    <3>3. run' \in [Runs -> LiveRun \cup {NoRunState}]
      BY <3>1, <3>2 DEF Cancelled, TypeOK
    <3>4. [edit[e] EXCEPT !.pc = "linking", !.nextJob = n] \in LiveEdit
      BY <2>1 DEF LiveEdit, RunId
    <3>5. edit' = [edit EXCEPT ![e] = [edit[e] EXCEPT !.pc = "linking", !.nextJob = n]]
      BY <3>1, <2>1 DEF TypeOK
    <3> QED
      BY <1>6, <2>1, <3>3, <3>4, <3>5 DEF EditSync, TypeOK, LiveEdit
  <2> QED
    BY <2>3, <2>4
<1>7. ASSUME NEW e \in Edits, EditLink(e) \/ EditUnlink(e)
      PROVE  TypeOK'
  <2>1. edit[e] \in LiveEdit
    BY <1>7, LiveEditFields DEF EditLink, EditUnlink
  <2>2. task' \in [Tasks -> TaskRow]
    BY <1>7, <2>1, SetRecurringJobType DEF EditLink, EditUnlink, LiveEdit, RunId
  <2> QED
    BY <1>7, <2>2 DEF EditLink, EditUnlink, TypeOK, NoEdit, Cron
<1>8. ASSUME NEW r \in Runs, Fire(r) \/ RunCreate(r) \/ RunRead(r)
      PROVE  TypeOK'
  <2>1. run[r] \in LiveRun
    BY <1>8, LiveRunFields DEF Fire, RunCreate, RunRead, Pending
  <2>2. run' \in [Runs -> LiveRun \cup {NoRunState}]
    <3>1. CASE Fire(r)
      BY <3>1, <2>1 DEF Fire, TypeOK, LiveRun
    <3>2. CASE RunCreate(r)
      BY <3>2, <2>1 DEF RunCreate, TypeOK, LiveRun
    <3>3. CASE RunRead(r)
      <4>1. task[run[r].originalTaskId].recurring \in Cron
        BY <2>1 DEF TypeOK, LiveRun, TaskRow
      <4> DEFINE pc == IF task[run[r].originalTaskId].recurring = NoCron
                       THEN "unlinking" ELSE "creating"
      <4>2. [run[r] EXCEPT !.pc = pc,
                           !.recurring = task[run[r].originalTaskId].recurring]
              \in LiveRun
        BY <2>1, <4>1 DEF LiveRun
      <4>3. \/ run' = [run EXCEPT ![r] = NoRunState]
            \/ run' = [run EXCEPT ![r] =
                 [run[r] EXCEPT !.pc = pc,
                                !.recurring = task[run[r].originalTaskId].recurring]]
        BY <3>3 DEF RunRead, TypeOK
      <4> QED
        BY <4>2, <4>3 DEF TypeOK
    <3> QED
      BY <1>8, <3>1, <3>2, <3>3
  <2> QED
    BY <1>8, <2>2 DEF Fire, RunCreate, RunRead, TypeOK
<1>9. ASSUME NEW r \in Runs, RunSchedule(r)
      PROVE  TypeOK'
  <2>1. run[r] \in LiveRun
    BY <1>9, LiveRunFields DEF RunSchedule
  <2>2. PICK n \in Runs :
          /\ n # r
          /\ run' = [run EXCEPT ![r] = [@ EXCEPT !.pc = "linking", !.nextJob = n],
                                ![n] = Armed(run[r].originalTaskId, run[r].recurring)]
    BY <1>9 DEF RunSchedule, Fresh
  <2>3. Armed(run[r].originalTaskId, run[r].recurring) \in LiveRun
    BY <2>1 DEF Armed, LiveRun, RunId
  <2>4. [run[r] EXCEPT !.pc = "linking", !.nextJob = n] \in LiveRun
    BY <2>1 DEF LiveRun, RunId
  <2>5. run' \in [Runs -> LiveRun \cup {NoRunState}]
    BY <2>2, <2>3, <2>4 DEF TypeOK
  <2> QED
    BY <1>9, <2>5 DEF RunSchedule, TypeOK
<1>10. ASSUME NEW r \in Runs, RunLink(r) \/ RunUnlink(r)
       PROVE  TypeOK'
  <2>1. run[r] \in LiveRun
    BY <1>10, LiveRunFields DEF RunLink, RunUnlink
  <2>2. task' \in [Tasks -> TaskRow]
    BY <1>10, <2>1, SetRecurringJobType DEF RunLink, RunUnlink, LiveRun, RunId
  <2> QED
    BY <1>10, <2>2 DEF RunLink, RunUnlink, TypeOK
<1>11. ASSUME NEW r \in Runs, RunFail(r)
       PROVE  TypeOK'
  BY <1>11, OptionsAreKnown DEF RunFail, Fault, TypeOK
<1>12. ASSUME NEW e \in Edits, EditFail(e)
       PROVE  TypeOK'
  BY <1>12, OptionsAreKnown DEF EditFail, Fault, TypeOK, NoEdit, Cron
<1>13. CASE Restart
  BY <1>13, OptionsAreKnown DEF Restart, Fault, TypeOK, NoEdit, Cron
<1> QED
  BY <1>1, <1>2, <1>3, <1>4, <1>5, <1>6, <1>7, <1>8, <1>9, <1>10, <1>11, <1>12,
     <1>13
  DEF Next, EditStep, RunStep

THEOREM TypeCorrect == Spec => []TypeOK
BY InitTypeOK, NextTypeOK, PTL DEF Spec

-----------------------------------------------------------------------------
(* One chain of runs per task                                              *)

Chained == {"creating", "scheduling", "linking", "unlinking"}

\* Handlers exist only for tasks that were created.
Born ==
    /\ \A r \in Runs : run[r].pc # "unused" => task[run[r].originalTaskId].row # "absent"
    /\ \A e \in Edits : edit[e].pc # "idle" => task[edit[e].id].row # "absent"

\* No request is in progress beside a run of its task.
EditsExcludeRuns ==
    \A e \in Edits, r \in Runs :
        edit[e].pc # "idle" /\ Active(r) => edit[e].id # run[r].originalTaskId

\* The row keeps naming the run that has passed the stale check until that run
\* itself writes the row.  OneChain alone is not inductive: without this a second
\* run could pass the check next.
ChainedIsLinked ==
    \A r \in Runs : run[r].pc \in Chained =>
        task[run[r].originalTaskId].recurringJobId = r

ChainInv == TypeOK /\ Born /\ EditsExcludeRuns /\ ChainedIsLinked

LEMMA InitChainInv == Init => ChainInv
<1> SUFFICES ASSUME Init PROVE ChainInv
  OBVIOUS
<1>1. TypeOK
  BY InitTypeOK
<1> QED
  BY <1>1 DEF ChainInv, Init, Born, EditsExcludeRuns, ChainedIsLinked, Chained,
     Active, NoRunState, NoEdit

LEMMA ChainInvImpliesOneChain == ChainInv => OneChain
BY DEF ChainInv, ChainedIsLinked, Chained, OneChain

\* A write of the row by a handler of task t leaves the other tasks' links, and
\* every task's row state, as they are.
LEMMA SetRecurringJobFrame ==
    ASSUME TypeOK, NEW t \in Tasks, NEW j \in RunId, SetRecurringJob(t, j)
    PROVE  /\ \A s \in Tasks : task'[s].row = task[s].row
           /\ \A s \in Tasks : s # t => task'[s].recurringJobId = task[s].recurringJobId
BY DEF SetRecurringJob, TypeOK, TaskRow

LEMMA NextChainInv ==
    ASSUME "edit/run" \notin Overlap
    PROVE  ChainInv /\ [Next]_vars => ChainInv'
<1> SUFFICES ASSUME ChainInv, [Next]_vars PROVE ChainInv'
  OBVIOUS
<1> USE DEF ChainInv
<1>0. TypeOK'
  BY NextTypeOK
<1>1. CASE UNCHANGED vars
  BY <1>0, <1>1 DEF vars, Born, EditsExcludeRuns, ChainedIsLinked, Active
<1>2. ASSUME NEW e \in Edits, NEW t \in Tasks, NEW c \in Cron, TaskCreate(e, t, c)
      PROVE  ChainInv'
  <2>1. \A r \in Runs : run[r].pc # "unused" => run[r].originalTaskId # t
    BY <1>2 DEF TaskCreate, Born
  <2>2. \A s \in Tasks : /\ task[s].row # "absent" => task'[s].row # "absent"
                         /\ task'[s].recurringJobId = task[s].recurringJobId
    BY <1>2 DEF TaskCreate, TypeOK, TaskRow
  <2>3. task'[t].row # "absent"
    BY <1>2 DEF TaskCreate, TypeOK, TaskRow
  <2>4. \A d \in Edits : edit'[d].pc # "idle" =>
             (edit'[d].id = edit[d].id /\ edit[d].pc # "idle") \/ edit'[d].id = t
    BY <1>2 DEF TaskCreate, TypeOK
  <2>5. run' = run
    BY <1>2 DEF TaskCreate
  <2>6. Born'
    BY <2>2, <2>3, <2>4, <2>5, LiveRunFields, LiveEditFields DEF Born, LiveRun, LiveEdit
  <2>7. EditsExcludeRuns'
    BY <2>1, <2>4, <2>5 DEF EditsExcludeRuns, Active
  <2>8. ChainedIsLinked'
    BY <2>2, <2>5, LiveRunFields DEF ChainedIsLinked, Chained, LiveRun
  <2> QED
    BY <1>0, <2>6, <2>7, <2>8
<1>3. ASSUME NEW e \in Edits, NEW t \in Tasks, NEW c \in Cron \cup {Unchanged},
             UpdateRead(e, t, c)
      PROVE  ChainInv'
  <2>1. RunsOf(t) = {}
    BY <1>3 DEF UpdateRead, MayEdit
  <2>2. \A d \in Edits : edit'[d].pc # "idle" =>
             (edit'[d].id = edit[d].id /\ edit[d].pc # "idle") \/ edit'[d].id = t
    BY <1>3 DEF UpdateRead, TypeOK
  <2>3. task' = task /\ run' = run /\ task[t].row # "absent"
    BY <1>3 DEF UpdateRead, Present
  <2>4. Born'
    BY <2>2, <2>3 DEF Born
  <2>5. EditsExcludeRuns'
    BY <2>1, <2>2, <2>3 DEF EditsExcludeRuns, Active, RunsOf
  <2>6. ChainedIsLinked'
    BY <2>3 DEF ChainedIsLinked
  <2> QED
    BY <1>0, <2>4, <2>5, <2>6
<1>4. ASSUME NEW t \in Tasks, TaskDelete(t)
      PROVE  ChainInv'
  <2>1. \A s \in Tasks : /\ task[s].row # "absent" => task'[s].row # "absent"
                         /\ task'[s].recurringJobId = task[s].recurringJobId
    BY <1>4 DEF TaskDelete, TypeOK, TaskRow
  <2>2. run' = run /\ edit' = edit
    BY <1>4 DEF TaskDelete
  <2>3. Born'
    BY <2>1, <2>2, LiveRunFields, LiveEditFields DEF Born, LiveRun, LiveEdit
  <2>4. EditsExcludeRuns' /\ ChainedIsLinked'
    BY <2>1, <2>2, LiveRunFields
    DEF EditsExcludeRuns, Active, ChainedIsLinked, Chained, LiveRun
  <2> QED
    BY <1>0, <2>3, <2>4
<1>5. ASSUME NEW e \in Edits, EditStep(e)
      PROVE  ChainInv'
  <2>1. edit[e] \in LiveEdit
    BY <1>5, LiveEditFields
    DEF EditStep, UpdateWrite, EditSync, EditLink, EditUnlink
  <2> DEFINE t == edit[e].id
  <2>2. t \in Tasks /\ edit[e].pc # "idle"
    BY <2>1 DEF LiveEdit
  \* What a step of the request may change ...
  <2>3. \A s \in Tasks : /\ task[s].row = task'[s].row
                         /\ s # t => task'[s].recurringJobId = task[s].recurringJobId
    <3>1. CASE UpdateWrite(e)
      BY <3>1, <2>2 DEF UpdateWrite, TypeOK, TaskRow
    <3>2. CASE EditSync(e)
      BY <3>2 DEF EditSync
    <3>3. CASE EditLink(e) \/ EditUnlink(e)
      BY <3>3, <2>1, <2>2, SetRecurringJobFrame
      DEF EditLink, EditUnlink, LiveEdit, RunId
    <3> QED
      BY <1>5, <3>1, <3>2, <3>3 DEF EditStep
  <2>4. \A d \in Edits : edit'[d].pc # "idle" =>
             edit'[d].id = edit[d].id /\ edit[d].pc # "idle"
    <3>1. CASE UpdateWrite(e)
      <4> DEFINE c == IF edit[e].recurring = Unchanged
                      THEN task[t].recurring ELSE edit[e].recurring
                 next == [edit[e] EXCEPT !.pc = "syncing", !.recurring = c]
      <4>1. \/ edit' = [edit EXCEPT ![e] = NoEdit]
            \/ edit' = [edit EXCEPT ![e] = next]
        BY <3>1 DEF UpdateWrite, TypeOK
      <4>2. next.id = t
        BY <2>1 DEF LiveEdit
      <4> HIDE DEF next
      <4> QED
        BY <4>1, <4>2, <2>2 DEF TypeOK, NoEdit
    <3>2. CASE EditSync(e)
      <4>1. PICK n : \/ edit' = [edit EXCEPT ![e] = [@ EXCEPT !.pc = "unlinking"]]
                     \/ edit' = [edit EXCEPT ![e] = [@ EXCEPT !.pc = "linking",
                                                              !.nextJob = n]]
        BY <3>2 DEF EditSync, TypeOK
      <4>2. /\ [edit[e] EXCEPT !.pc = "unlinking"].id = t
            /\ [edit[e] EXCEPT !.pc = "linking", !.nextJob = n].id = t
        BY <2>1 DEF LiveEdit
      <4> QED
        BY <4>1, <4>2, <2>2 DEF TypeOK
    <3>3. CASE EditLink(e) \/ EditUnlink(e)
      BY <3>3 DEF EditLink, EditUnlink, TypeOK, NoEdit
    <3> QED
      BY <1>5, <3>1, <3>2, <3>3 DEF EditStep
  \* ... and that it starts no run, it only arms or clears a timer of t.
  <2>5. \A r \in Runs : \/ run'[r] = run[r]
                        \/ run'[r].pc = "unused"
                        \/ run'[r].pc = "pending" /\ run'[r].originalTaskId = t
    <3>1. CASE UpdateWrite(e) \/ EditLink(e) \/ EditUnlink(e)
      BY <3>1 DEF UpdateWrite, EditLink, EditUnlink
    <3>2. CASE EditSync(e)
      <4> DEFINE armed == Armed(t, edit[e].recurring)
      <4>1. armed.pc = "pending" /\ armed.originalTaskId = t /\ NoRunState.pc = "unused"
        BY DEF Armed, NoRunState
      <4>2. PICK n \in RunId : \/ run' = Cancelled(run, edit[e].oldJobId)
                              \/ run' = Cancelled([run EXCEPT ![n] = armed],
                                                  edit[e].oldJobId)
        BY <3>2 DEF EditSync, RunId
      <4> HIDE DEF armed
      <4> QED
        BY <4>1, <4>2 DEF Cancelled, TypeOK
    <3> QED
      BY <1>5, <3>1, <3>2 DEF EditStep
  <2>6. Born'
    BY <2>2, <2>3, <2>4, <2>5, LiveRunFields, LiveEditFields DEF Born, LiveRun, LiveEdit
  <2>7. EditsExcludeRuns'
    BY <2>4, <2>5 DEF EditsExcludeRuns, Active
  <2>8. ChainedIsLinked'
    <3> SUFFICES ASSUME NEW r \in Runs, run'[r].pc \in Chained
                 PROVE  task'[run'[r].originalTaskId].recurringJobId = r
      BY DEF ChainedIsLinked
    <3>1. run'[r] = run[r] /\ Active(r) /\ run[r].originalTaskId \in Tasks
      BY <2>5, LiveRunFields DEF Chained, Active, LiveRun
    <3>2. run[r].originalTaskId # t
      BY <2>2, <3>1 DEF EditsExcludeRuns
    <3> QED
      BY <2>3, <3>1, <3>2 DEF ChainedIsLinked
  <2> QED
    BY <1>0, <2>6, <2>7, <2>8
<1>6. ASSUME NEW r \in Runs, Fire(r)
      PROVE  ChainInv'
  <2>1. run[r] \in LiveRun
    BY <1>6, LiveRunFields DEF Fire, Pending
  <2>2. EditsOf(run[r].originalTaskId) = {}
    BY <1>6 DEF Fire, MayFire
  <2>3. \A s \in Runs : /\ run'[s].originalTaskId = run[s].originalTaskId
                        /\ s # r => run'[s] = run[s]
    BY <1>6, <2>1 DEF Fire, TypeOK, LiveRun
  <2>4. run'[r].pc = "started" /\ run[r].pc = "pending"
    BY <1>6, <2>1 DEF Fire, Pending, TypeOK, LiveRun
  <2>5. task' = task /\ edit' = edit
    BY <1>6 DEF Fire
  <2>6. Born'
    BY <2>3, <2>4, <2>5 DEF Born
  <2>7. EditsExcludeRuns'
    BY <2>2, <2>3, <2>5 DEF EditsExcludeRuns, EditsOf, Active
  <2>8. ChainedIsLinked'
    BY <2>3, <2>4, <2>5 DEF ChainedIsLinked, Chained
  <2> QED
    BY <1>0, <2>6, <2>7, <2>8
<1>7. ASSUME NEW r \in Runs, RunStep(r)
      PROVE  ChainInv'
  <2>1. run[r] \in LiveRun /\ Active(r)
    BY <1>7, LiveRunFields
    DEF RunStep, RunRead, RunCreate, RunSchedule, RunLink, RunUnlink, Active
  <2> DEFINE t == run[r].originalTaskId
  <2>2. t \in Tasks
    BY <2>1 DEF LiveRun
  \* Only a run the row names goes on, and only the run itself writes the row.
  <2>3. /\ run'[r].originalTaskId = t \/ run'[r].pc = "unused"
        /\ run'[r].pc \in Chained => task[t].recurringJobId = r /\ task' = task
    <3>1. CASE RunRead(r)
      BY <3>1, <2>1 DEF RunRead, TypeOK, LiveRun, NoRunState, Chained
    <3>2. CASE RunCreate(r)
      BY <3>2, <2>1 DEF RunCreate, TypeOK, LiveRun, Chained, ChainedIsLinked
    <3>3. CASE RunSchedule(r)
      <4>1. PICK n \in Runs :
              /\ n # r
              /\ run' = [run EXCEPT ![r] = [@ EXCEPT !.pc = "linking", !.nextJob = n],
                                    ![n] = Armed(t, run[r].recurring)]
        BY <3>3 DEF RunSchedule, Fresh
      <4>2. run'[r] = [run[r] EXCEPT !.pc = "linking", !.nextJob = n]
        BY <4>1 DEF TypeOK
      <4> QED
        BY <3>3, <4>2, <2>1 DEF RunSchedule, LiveRun, Chained, ChainedIsLinked
    <3>4. CASE RunLink(r) \/ RunUnlink(r)
      BY <3>4 DEF RunLink, RunUnlink, TypeOK, NoRunState, Chained
    <3> QED
      BY <1>7, <3>1, <3>2, <3>3, <3>4 DEF RunStep
  <2>4. \A s \in Runs : s # r => \/ run'[s] = run[s]
                                 \/ run'[s].pc = "pending" /\ run'[s].originalTaskId = t
    <3>1. CASE RunRead(r) \/ RunCreate(r) \/ RunLink(r) \/ RunUnlink(r)
      BY <3>1 DEF RunRead, RunCreate, RunLink, RunUnlink, TypeOK
    <3>2. CASE RunSchedule(r)
      BY <3>2 DEF RunSchedule, Armed, TypeOK
    <3> QED
      BY <1>7, <3>1, <3>2 DEF RunStep
  <2>5. /\ \A s \in Tasks : task'[s].row = task[s].row
        /\ \A s \in Tasks : s # t => task'[s].recurringJobId = task[s].recurringJobId
        /\ task' # task => run[r].pc \in Chained
    <3>1. CASE RunRead(r) \/ RunCreate(r) \/ RunSchedule(r)
      BY <3>1 DEF RunRead, RunCreate, RunSchedule
    <3>2. CASE RunLink(r) \/ RunUnlink(r)
      BY <3>2, <2>1, <2>2, SetRecurringJobFrame
      DEF RunLink, RunUnlink, LiveRun, RunId, Chained
    <3> QED
      BY <1>7, <3>1, <3>2 DEF RunStep
  <2>6. edit' = edit
    BY <1>7 DEF RunStep, RunRead, RunCreate, RunSchedule, RunLink, RunUnlink
  <2> HIDE DEF t
  <2>7. \A s \in Runs : run[s].pc # "unused" => run[s].originalTaskId \in Tasks
    BY LiveRunFields DEF LiveRun
  <2>8. task[t].row # "absent" /\ \A e \in Edits : edit[e].pc # "idle" => edit[e].id # t
    BY <2>1 DEF Born, EditsExcludeRuns, Active, t
  <2>9. Born'
    BY <2>2, <2>3, <2>4, <2>5, <2>6, <2>7, <2>8, LiveEditFields DEF Born, LiveEdit
  <2>10. EditsExcludeRuns'
    BY <2>3, <2>4, <2>6, <2>8 DEF EditsExcludeRuns, Active
  <2>11. ChainedIsLinked'
    <3> SUFFICES ASSUME NEW s \in Runs, run'[s].pc \in Chained
                 PROVE  task'[run'[s].originalTaskId].recurringJobId = s
      BY DEF ChainedIsLinked
    <3>1. CASE s = r
      BY <3>1, <2>3 DEF Chained
    <3>2. CASE s # r
      <4>1. run'[s] = run[s] /\ task[run[s].originalTaskId].recurringJobId = s
        BY <3>2, <2>4 DEF Chained, ChainedIsLinked
      <4>2. task' = task \/ run[s].originalTaskId # t
        BY <3>2, <4>1, <2>5 DEF ChainedIsLinked, t
      <4> QED
        BY <4>1, <4>2, <2>5, <2>7 DEF Chained
    <3> QED
      BY <3>1, <3>2
  <2> QED
    BY <1>0, <2>9, <2>10, <2>11
<1>8. ASSUME NEW r \in Runs, RunFail(r)
      PROVE  ChainInv'
  BY <1>0, <1>8
  DEF RunFail, TypeOK, NoRunState, Born, EditsExcludeRuns, ChainedIsLinked, Chained, Active
<1>9. ASSUME NEW e \in Edits, EditFail(e)
      PROVE  ChainInv'
  BY <1>0, <1>9
  DEF EditFail, TypeOK, NoEdit, Born, EditsExcludeRuns, ChainedIsLinked, Active
<1>10. CASE Restart
  BY <1>0, <1>10
  DEF Restart, NoRunState, NoEdit, Born, EditsExcludeRuns, ChainedIsLinked, Chained, Active
<1> QED
  BY <1>1, <1>2, <1>3, <1>4, <1>5, <1>6, <1>7, <1>8, <1>9, <1>10 DEF Next

\* However many tasks, requests and timers there are, whatever fails, and even
\* when a timer fires before it is linked: two runs of a task never both get past
\* the check that skips stale runs, so long as requests on a task wait for its
\* run to end.
THEOREM AtMostOneChain ==
    ASSUME "edit/run" \notin Overlap
    PROVE  Spec => []OneChain
<1>1. Spec => []ChainInv
  BY InitChainInv, NextChainInv, PTL DEF Spec
<1> QED
  BY <1>1, ChainInvImpliesOneChain, PTL

-----------------------------------------------------------------------------
\* ScheduleMatchesRow, when the handlers of a task run one after the other and nothing
\* fails.  It is not inductive: it says nothing of a task with a handler in progress.
\* The invariant says for each step of a handler which timers its task has.

\* The only timer of t is j, for the cron of its row.
ArmedFor(t, j) ==
    /\ task[t].recurring # NoCron
    /\ TimersOf(t) = {j}
    /\ run[j].recurring = task[t].recurring

Matches(t) ==
    IF task[t].recurring = NoCron
    THEN task[t].recurringJobId = NoRun /\ TimersOf(t) = {}
    ELSE ArmedFor(t, task[t].recurringJobId)

\* A request has its task to itself, and knows what it is about to replace.
EditOK(e) ==
    LET t == edit[e].id
    IN  edit[e].pc # "idle" =>
            /\ Present(t) /\ RunsOf(t) = {} /\ EditsOf(t) = {e}
            /\ edit[e].pc = "updating" =>
                  /\ Matches(t)
                  /\ edit[e].oldRecurring = task[t].recurring
                  /\ edit[e].oldJobId = task[t].recurringJobId
            /\ edit[e].pc = "syncing" =>
                  /\ edit[e].recurring = task[t].recurring
                  /\ edit[e].oldJobId = task[t].recurringJobId
                  /\ TimersOf(t) = {edit[e].oldJobId} \ {NoRun}
            /\ edit[e].pc = "linking" => ArmedFor(t, edit[e].nextJob)
            /\ edit[e].pc = "unlinking" => task[t].recurring = NoCron /\ TimersOf(t) = {}

\* A run has its task to itself, and is the one its row names; one of a deleted
\* task has yet to notice.
RunOK(r) ==
    LET t == run[r].originalTaskId
    IN  Active(r) =>
            IF Present(t)
            THEN /\ RunsOf(t) = {r} /\ EditsOf(t) = {}
                 /\ task[t].recurringJobId = r
                 /\ task[t].recurring # NoCron
                 /\ run[r].recurring = task[t].recurring
                 /\ run[r].pc # "unlinking"
                 /\ IF run[r].pc = "linking" THEN ArmedFor(t, run[r].nextJob) ELSE TimersOf(t) = {}
            ELSE task[t].row = "deleted" /\ run[r].pc = "started"

TaskInv(t) ==
    /\ Present(t) /\ Quiescent(t) => Matches(t)
    /\ task[t].row = "absent" => TimersOf(t) = {} /\ task[t].recurringJobId = NoRun
    /\ \A e \in Edits : edit[e].id = t => EditOK(e)
    /\ \A r \in Runs : run[r].originalTaskId = t => RunOK(r)

SerialInv == TypeOK /\ \A t \in Tasks : TaskInv(t)

LEMMA InitSerialInv == Init => SerialInv
<1> SUFFICES ASSUME Init PROVE SerialInv
  OBVIOUS
<1>1. TypeOK
  BY InitTypeOK
<1>2. \A t \in Tasks : TimersOf(t) = {} /\ ~Present(t)
  BY DEF Init, TimersOf, Pending, NoRunState, Present
<1>3. (\A e \in Edits : EditOK(e)) /\ \A r \in Runs : RunOK(r)
  BY DEF Init, EditOK, RunOK, Active, NoEdit, NoRunState
<1> QED
  BY <1>1, <1>2, <1>3 DEF Init, SerialInv, TaskInv

\* A task that a step does not touch stays as it is.
LEMMA Untouched ==
    ASSUME NEW u \in Tasks, TaskInv(u), task'[u] = task[u],
           \A r \in Runs : run[r].originalTaskId = u \/ run'[r].originalTaskId = u => run'[r] = run[r],
           \A e \in Edits : edit[e].id = u \/ edit'[e].id = u => edit'[e] = edit[e]
    PROVE  TaskInv(u)'
<1>1. TimersOf(u)' = TimersOf(u) /\ RunsOf(u)' = RunsOf(u) /\ EditsOf(u)' = EditsOf(u)
  BY DEF TimersOf, RunsOf, EditsOf, Pending, Active
<1>2. \A j \in TimersOf(u) : run'[j] = run[j]
  BY DEF TimersOf
<1>3. \A j : ArmedFor(u, j)' <=> ArmedFor(u, j)
  BY <1>1, <1>2 DEF ArmedFor
<1>4. Matches(u)' <=> Matches(u)
  BY <1>1, <1>3 DEF Matches
<1>5. Present(u)' <=> Present(u)
  BY DEF Present
<1>6. ASSUME NEW e \in Edits, edit'[e].id = u PROVE EditOK(e)'
  <2>1. edit'[e] = edit[e] /\ EditOK(e)
    BY <1>6 DEF TaskInv
  <2> QED
    BY <1>6, <2>1, <1>1, <1>3, <1>4, <1>5 DEF EditOK
<1>7. ASSUME NEW r \in Runs, run'[r].originalTaskId = u PROVE RunOK(r)'
  <2>1. run'[r] = run[r] /\ RunOK(r)
    BY <1>7 DEF TaskInv
  <2> QED
    BY <1>7, <2>1, <1>1, <1>3, <1>5 DEF RunOK, Active
<1> QED
  BY <1>1, <1>4, <1>5, <1>6, <1>7 DEF TaskInv, Quiescent

\* A step that is about task t leaves the other tasks alone.
LEMMA AboutOneTask ==
    ASSUME SerialInv, TypeOK', NEW t \in Tasks, TaskInv(t)',
           \A u \in Tasks \ {t} : task'[u] = task[u],
           \A r \in Runs : \/ run'[r] = run[r]
                           \/ {run[r].originalTaskId, run'[r].originalTaskId} \subseteq {t, NoTask},
           \A e \in Edits : edit'[e] = edit[e] \/ {edit[e].id, edit'[e].id} \subseteq {t, NoTask}
    PROVE  SerialInv'
<1>1. ASSUME NEW u \in Tasks \ {t} PROVE TaskInv(u)'
  <2>1. u # NoTask
    BY ConstantsAreDistinct
  <2>2. TaskInv(u)
    BY DEF SerialInv
  <2> QED
    BY <2>1, <2>2, Untouched
<1> QED
  BY <1>1 DEF SerialInv

\* A task without handlers has neither requests nor runs that the invariant speaks of.
LEMMA QuietTask ==
    ASSUME TypeOK, NEW t \in Tasks
    PROVE  /\ EditsOf(t) = {} => \A e \in Edits : edit[e].id # t
           /\ \A r \in Runs : r \in RunsOf(t) <=> Active(r) /\ run[r].originalTaskId = t
           /\ \A e \in Edits : edit[e].pc = "idle" <=> edit[e] = NoEdit
           /\ \A r \in Runs : run[r].pc = "unused" <=> run[r] = NoRunState
<1>1. \A e \in Edits : edit[e].pc = "idle" <=> edit[e] = NoEdit
  BY DEF TypeOK, LiveEdit, NoEdit
<1>2. \A r \in Runs : run[r].pc = "unused" <=> run[r] = NoRunState
  BY DEF TypeOK, LiveRun, NoRunState
<1>3. EditsOf(t) = {} => \A e \in Edits : edit[e].id # t
  BY <1>1, ConstantsAreDistinct DEF EditsOf, NoEdit
<1> QED
  BY <1>1, <1>2, <1>3 DEF RunsOf

\* A request in progress is alone with its task.
LEMMA EditAlone ==
    ASSUME SerialInv, NEW e \in Edits, edit[e].pc # "idle"
    PROVE  /\ edit[e].id \in Tasks /\ edit[e] \in LiveEdit
           /\ EditOK(e)
           /\ \A f \in Edits \ {e} : edit[f].id # edit[e].id
           /\ \A r \in Runs : run[r].originalTaskId = edit[e].id => ~Active(r)
<1> DEFINE t == edit[e].id
<1>1. edit[e] \in LiveEdit /\ t \in Tasks
  BY DEF SerialInv, TypeOK, LiveEdit, NoEdit
<1>2. EditOK(e) /\ TypeOK
  BY <1>1 DEF SerialInv, TaskInv
<1>3. EditsOf(t) = {e} /\ RunsOf(t) = {}
  BY <1>2 DEF EditOK
<1>4. ASSUME NEW f \in Edits \ {e} PROVE edit[f].id # t
  <2>1. edit[f].pc = "idle" \/ edit[f].id # t
    BY <1>3 DEF EditsOf
  <2>2. NoEdit.id # t
    BY <1>1, ConstantsAreDistinct DEF NoEdit
  <2> QED
    BY <1>1, <1>2, <2>1, <2>2, QuietTask
<1>5. \A r \in Runs : run[r].originalTaskId = t => ~Active(r)
  BY <1>3 DEF RunsOf
<1> QED
  BY <1>1, <1>2, <1>4, <1>5

LEMMA CreateSerial ==
    ASSUME SerialInv, TypeOK', NEW e \in Edits, NEW t \in Tasks, NEW c \in Cron, TaskCreate(e, t, c)
    PROVE  SerialInv'
<1>1. /\ task' = [task EXCEPT ![t] = [@ EXCEPT !.row = "present", !.recurring = c]]
      /\ task[t].row = "absent" /\ edit[e].pc = "idle" /\ run' = run
      /\ \A f \in Edits \ {e} : edit'[f] = edit[f]
      /\ TypeOK /\ TaskInv(t)
  BY DEF TaskCreate, SerialInv, TypeOK
<1>2. /\ TimersOf(t) = {} /\ task[t].recurringJobId = NoRun
      /\ \A r \in Runs : run[r].originalTaskId = t => ~Active(r)
      /\ \A f \in Edits : edit[f].id = t => edit[f].pc = "idle"
  BY <1>1 DEF TaskInv, RunOK, EditOK, Present
<1>3. /\ edit[e] = NoEdit /\ NoEdit.id = NoTask /\ NoTask # t
      /\ \A f \in Edits : edit[f].id # t
  BY <1>1, <1>2, QuietTask, ConstantsAreDistinct DEF NoEdit
<1>4. /\ task'[t].row = "present" /\ task'[t].recurring = c /\ task'[t].recurringJobId = NoRun
      /\ \A u \in Tasks \ {t} : task'[u] = task[u]
  BY <1>1, <1>2 DEF TypeOK, TaskRow
<1>5. TimersOf(t)' = {} /\ RunsOf(t)' = {}
  BY <1>1, <1>2 DEF TimersOf, RunsOf, Pending, Active
<1>6. \A r \in Runs : run'[r].originalTaskId = t => RunOK(r)'
  BY <1>1, <1>2 DEF RunOK, Active
<1>7. CASE c = NoCron
  <2>1. edit' = edit
    BY <1>7 DEF TaskCreate
  <2>2. Matches(t)'
    BY <1>4, <1>5, <1>7 DEF Matches
  <2>3. TaskInv(t)'
    BY <2>1, <2>2, <1>3, <1>4, <1>6 DEF TaskInv
  <2> QED
    BY <2>1, <2>3, <1>1, <1>4, AboutOneTask
<1>8. CASE c # NoCron
  <2>1. /\ edit'[e].pc = "syncing" /\ edit'[e].id = t /\ edit'[e].recurring = c
        /\ edit'[e].oldJobId = NoRun
    BY <1>8 DEF TaskCreate, SerialInv, TypeOK
  <2>2. EditsOf(t)' = {e}
    BY <2>1, <1>1, <1>3 DEF EditsOf
  <2>3. EditOK(e)'
    BY <2>1, <2>2, <1>4, <1>5 DEF EditOK, Present
  <2>4. TaskInv(t)'
    BY <2>2, <2>3, <1>1, <1>3, <1>4, <1>6 DEF TaskInv, Quiescent
  <2> QED
    BY <2>1, <2>4, <1>1, <1>3, <1>4, AboutOneTask
<1> QED
  BY <1>7, <1>8

LEMMA UpdateReadSerial ==
    ASSUME SerialInv, TypeOK', Overlap = {},
           NEW e \in Edits, NEW t \in Tasks, NEW input \in Cron \cup {Unchanged}, UpdateRead(e, t, input)
    PROVE  SerialInv'
<1>1. /\ task' = task /\ run' = run /\ edit[e].pc = "idle" /\ Present(t)
      /\ EditsOf(t) = {} /\ RunsOf(t) = {}
      /\ \A f \in Edits \ {e} : edit'[f] = edit[f]
      /\ edit'[e].pc = "updating" /\ edit'[e].id = t
      /\ edit'[e].oldRecurring = task[t].recurring
      /\ edit'[e].oldJobId = task[t].recurringJobId
      /\ TypeOK /\ TaskInv(t)
  BY DEF UpdateRead, MayEdit, SerialInv, TypeOK
<1>2. Matches(t)
  BY <1>1 DEF TaskInv, Quiescent
<1>3. edit[e] = NoEdit /\ NoEdit.id = NoTask /\ \A f \in Edits : edit[f].id # t
  BY <1>1, QuietTask DEF NoEdit
<1>4. /\ TimersOf(t)' = TimersOf(t) /\ RunsOf(t)' = {} /\ (Present(t)' <=> Present(t))
      /\ EditsOf(t)' = {e}
  BY <1>1, <1>3 DEF TimersOf, RunsOf, EditsOf, Pending, Active, Present
<1>5. Matches(t)'
  BY <1>1, <1>2, <1>4 DEF Matches, ArmedFor
<1>6. EditOK(e)'
  BY <1>1, <1>4, <1>5 DEF EditOK
<1>7. \A r \in Runs : run'[r].originalTaskId = t => RunOK(r)'
  BY <1>1 DEF RunsOf, RunOK, Active
<1>8. TaskInv(t)'
  BY <1>1, <1>3, <1>4, <1>6, <1>7 DEF TaskInv, Quiescent, Present
<1> QED
  BY <1>1, <1>3, <1>8, AboutOneTask

LEMMA UpdateWriteSerial ==
    ASSUME SerialInv, TypeOK', NEW e \in Edits, UpdateWrite(e)
    PROVE  SerialInv'
<1>0. edit[e].pc # "idle"
  BY DEF UpdateWrite
<1>t. PICK t \in Tasks : edit[e].id = t
  BY <1>0, EditAlone
<1> DEFINE recurring == IF edit[e].recurring = Unchanged THEN task[t].recurring ELSE edit[e].recurring
<1>1. /\ edit[e].pc = "updating" /\ t \in Tasks /\ TypeOK /\ edit[e] \in LiveEdit
      /\ Present(t) /\ RunsOf(t) = {}
      /\ Matches(t)
      /\ edit[e].oldRecurring = task[t].recurring
      /\ edit[e].oldJobId = task[t].recurringJobId
      /\ \A f \in Edits \ {e} : edit[f].id # t
      /\ \A r \in Runs : run[r].originalTaskId = t => ~Active(r)
  BY <1>0, <1>t, EditAlone DEF UpdateWrite, EditOK, SerialInv
<1>2. /\ task' = [task EXCEPT ![t].recurring = recurring] /\ run' = run
      /\ edit' = [edit EXCEPT ![e] = IF NeedsSync(e, recurring)
                                     THEN [@ EXCEPT !.pc = "syncing", !.recurring = recurring]
                                     ELSE NoEdit]
  BY <1>1, <1>t DEF UpdateWrite
<1> HIDE DEF recurring
<1>3. /\ task'[t].row = "present" /\ task'[t].recurring = recurring
      /\ task'[t].recurringJobId = task[t].recurringJobId
      /\ \A u \in Tasks \ {t} : task'[u] = task[u]
      /\ \A f \in Edits \ {e} : edit'[f] = edit[f]
  BY <1>1, <1>2 DEF TypeOK, TaskRow, Present
<1>4. TimersOf(t)' = TimersOf(t) /\ RunsOf(t)' = {}
  BY <1>1, <1>2 DEF TimersOf, RunsOf, Pending, Active
<1>5. \A r \in Runs : run'[r].originalTaskId = t => RunOK(r)'
  BY <1>1, <1>2 DEF RunOK, Active
<1>6. CASE NeedsSync(e, recurring)
  <2>1. /\ edit'[e].pc = "syncing" /\ edit'[e].recurring = recurring
        /\ edit'[e].id = t /\ edit'[e].oldJobId = edit[e].oldJobId
    <3>1. edit'[e] = [edit[e] EXCEPT !.pc = "syncing", !.recurring = recurring]
      BY <1>2, <1>6, <1>1 DEF TypeOK
    <3> QED
      BY <3>1, <1>1, <1>t DEF LiveEdit
  <2>2. EditsOf(t)' = {e}
    BY <2>1, <1>1, <1>3 DEF EditsOf
  <2>3. TimersOf(t) = {edit[e].oldJobId} \ {NoRun}
    <3>1. CASE task[t].recurring = NoCron
      BY <3>1, <1>1 DEF Matches
    <3>2. CASE task[t].recurring # NoCron
      <4>1. TimersOf(t) = {edit[e].oldJobId}
        BY <3>2, <1>1 DEF Matches, ArmedFor
      <4>2. NoRun \notin TimersOf(t)
        BY ConstantsAreDistinct DEF TimersOf
      <4> QED
        BY <4>1, <4>2
    <3> QED
      BY <3>1, <3>2
  <2>4. EditOK(e)'
    BY <2>1, <2>2, <2>3, <1>1, <1>3, <1>4 DEF EditOK, Present
  <2>5. TaskInv(t)'
    BY <2>2, <2>4, <1>1, <1>3, <1>5 DEF TaskInv, Quiescent
  <2> QED
    BY <2>1, <2>5, <1>1, <1>2, <1>3, <1>t, AboutOneTask
<1>7. CASE ~NeedsSync(e, recurring)
  <2>1. edit'[e] = NoEdit /\ recurring = task[t].recurring
    BY <1>1, <1>2, <1>7 DEF NeedsSync, TypeOK
  <2>2. Matches(t)'
    BY <2>1, <1>1, <1>2, <1>3, <1>4 DEF Matches, ArmedFor
  <2>3. NoEdit.id = NoTask /\ NoTask # t
    BY <1>1, ConstantsAreDistinct DEF NoEdit
  <2>4. TaskInv(t)'
    BY <2>1, <2>2, <2>3, <1>1, <1>3, <1>5 DEF TaskInv
  <2> QED
    BY <2>1, <2>3, <2>4, <1>1, <1>2, <1>3, <1>t, AboutOneTask
<1> QED
  BY <1>6, <1>7

\* The old timer goes, and the new one takes its place.
LEMMA EditSyncSerial ==
    ASSUME SerialInv, TypeOK', NEW e \in Edits, EditSync(e)
    PROVE  SerialInv'
<1>0. edit[e].pc = "syncing"
  BY DEF EditSync
<1>t. PICK t \in Tasks : edit[e].id = t
  BY <1>0, EditAlone
<1>1. /\ TypeOK /\ edit[e] \in LiveEdit
      /\ Present(t) /\ RunsOf(t) = {}
      /\ edit[e].recurring = task[t].recurring
      /\ TimersOf(t) = {edit[e].oldJobId} \ {NoRun}
      /\ \A f \in Edits \ {e} : edit[f].id # t
      /\ \A r \in Runs : run[r].originalTaskId = t => ~Active(r)
  BY <1>0, <1>t, EditAlone DEF EditOK, SerialInv
<1>2. task' = task /\ (\A f \in Edits \ {e} : edit'[f] = edit[f]) /\ (Present(t)' <=> Present(t))
  BY <1>1 DEF EditSync, TypeOK, Present
<1>3. NoRunState.originalTaskId = NoTask /\ NoTask # t /\ NoRunState.pc = "unused"
  BY ConstantsAreDistinct DEF NoRunState
<1>4. \A r \in Runs : run[r].pc = "unused" <=> run[r] = NoRunState
  BY <1>1, QuietTask
\* What cancelJob clears is the timer of t, if it has one.
<1>5. \A r \in Runs : r = edit[e].oldJobId => run[r].originalTaskId = t
  <2> SUFFICES ASSUME NEW r \in Runs, r = edit[e].oldJobId
               PROVE  run[r].originalTaskId = t
    OBVIOUS
  <2>1. r \in TimersOf(t)
    BY <1>1, ConstantsAreDistinct
  <2> QED
    BY <2>1 DEF TimersOf
<1>6. CASE edit[e].recurring = NoCron
  <2>1. run' = Cancelled(run, edit[e].oldJobId) /\ edit' = [edit EXCEPT ![e].pc = "unlinking"]
    BY <1>6, ConstantsAreDistinct DEF EditSync
  <2>2. edit'[e].pc = "unlinking" /\ edit'[e].id = t
    BY <2>1, <1>1, <1>t DEF TypeOK, LiveEdit
  <2>3. \A r \in Runs : run'[r] = run[r] \/ (run'[r] = NoRunState /\ run[r].originalTaskId = t)
    <3>1. ASSUME NEW r \in Runs, run'[r] # run[r]
          PROVE  r = edit[e].oldJobId /\ run'[r] = NoRunState
      BY <3>1, <2>1, <1>1 DEF Cancelled, TypeOK
    <3> QED
      BY <3>1, <1>5
  <2>4. TimersOf(t)' = {}
    <3> SUFFICES ASSUME NEW r \in Runs, run'[r].pc = "pending", run'[r].originalTaskId = t
                 PROVE  FALSE
      BY DEF TimersOf, Pending
    <3>1. run'[r] = run[r]
      BY <2>3, <1>3
    <3>2. r = edit[e].oldJobId /\ r # NoRun
      BY <3>1, <1>1 DEF TimersOf, Pending
    <3> QED
      BY <3>1, <3>2, <2>1, <1>1, <1>3 DEF Cancelled, TypeOK
  <2>5. \A r \in Runs : run'[r].originalTaskId = t => run'[r] = run[r]
    BY <2>3, <1>3
  <2>6. RunsOf(t)' = {} /\ EditsOf(t)' = {e}
    BY <2>2, <2>5, <1>1, <1>2 DEF RunsOf, EditsOf, Active
  <2>7. EditOK(e)'
    BY <2>2, <2>4, <2>6, <1>1, <1>2, <1>6 DEF EditOK
  <2>8. \A r \in Runs : run'[r].originalTaskId = t => RunOK(r)'
    BY <2>5, <1>1 DEF RunOK, Active
  <2>9. TaskInv(t)'
    BY <2>6, <2>7, <2>8, <1>1, <1>2 DEF TaskInv, Quiescent, Present
  <2> QED
    BY <2>2, <2>3, <2>9, <1>2, <1>3, <1>t, AboutOneTask
<1>7. CASE edit[e].recurring # NoCron
  <2>1. PICK n \in Runs :
          /\ Fresh(n)
          /\ run' = Cancelled([run EXCEPT ![n] = Armed(edit[e].id, edit[e].recurring)], edit[e].oldJobId)
          /\ edit' = [edit EXCEPT ![e] = [@ EXCEPT !.pc = "linking", !.nextJob = n]]
    BY <1>7 DEF EditSync
  <2>2. edit'[e].pc = "linking" /\ edit'[e].id = t /\ edit'[e].nextJob = n
    <3>1. edit'[e] = [edit[e] EXCEPT !.pc = "linking", !.nextJob = n]
      BY <2>1, <1>1 DEF TypeOK
    <3> QED
      BY <3>1, <1>1, <1>t DEF LiveEdit
  <2>3. n # edit[e].oldJobId /\ run[n] = NoRunState
    BY <2>1, <1>4 DEF Fresh
  <2>4. /\ run'[n].pc = "pending" /\ run'[n].originalTaskId = t
        /\ run'[n].recurring = edit[e].recurring
        /\ \A r \in Runs \ {n} :
              run'[r] = IF edit[e].oldJobId # NoRun /\ run[edit[e].oldJobId].pc = "pending"
                           /\ r = edit[e].oldJobId
                        THEN NoRunState ELSE run[r]
    <3>1. run' = IF edit[e].oldJobId # NoRun /\ run[edit[e].oldJobId].pc = "pending"
                 THEN [[run EXCEPT ![n] = Armed(t, edit[e].recurring)] EXCEPT ![edit[e].oldJobId] = NoRunState]
                 ELSE [run EXCEPT ![n] = Armed(t, edit[e].recurring)]
      BY <2>1, <1>t DEF Cancelled
    <3>2. run \in [Runs -> LiveRun \cup {NoRunState}]
      BY <1>1 DEF TypeOK
    <3>3. /\ run'[n] = Armed(t, edit[e].recurring)
          /\ \A r \in Runs \ {n} :
                run'[r] = IF edit[e].oldJobId # NoRun /\ run[edit[e].oldJobId].pc = "pending"
                             /\ r = edit[e].oldJobId
                          THEN NoRunState ELSE run[r]
      BY <3>1, <3>2, <2>3
    <3> QED
      BY <3>3 DEF Armed
  <2>5. \A r \in Runs \ {n} : run'[r] = run[r] \/ (run'[r] = NoRunState /\ run[r].originalTaskId = t)
    <3>1. ASSUME NEW r \in Runs \ {n}, run'[r] # run[r]
          PROVE  r = edit[e].oldJobId /\ run'[r] = NoRunState
      BY <3>1, <2>4
    <3> QED
      BY <3>1, <1>5
  <2>6. TimersOf(t)' = {n}
    <3>1. ASSUME NEW r \in Runs \ {n}, run'[r].pc = "pending", run'[r].originalTaskId = t
          PROVE  FALSE
      <4>1. run'[r] = run[r]
        BY <3>1, <2>5, <1>3
      <4>2. r = edit[e].oldJobId /\ r # NoRun
        BY <3>1, <4>1, <1>1 DEF TimersOf, Pending
      <4> QED
        BY <3>1, <4>1, <4>2, <2>4, <1>3
    <3> QED
      BY <3>1, <2>4 DEF TimersOf, Pending
  <2>7. \A r \in Runs : run'[r].originalTaskId = t => r = n \/ run'[r] = run[r]
    BY <2>5, <1>3
  <2>8. RunsOf(t)' = {} /\ EditsOf(t)' = {e}
    BY <2>2, <2>4, <2>7, <1>1, <1>2 DEF RunsOf, EditsOf, Active
  <2>9. ArmedFor(t, n)'
    BY <2>4, <2>6, <1>1, <1>2, <1>7 DEF ArmedFor
  <2>10. EditOK(e)'
    BY <2>2, <2>8, <2>9, <1>1, <1>2 DEF EditOK
  <2>11. \A r \in Runs : run'[r].originalTaskId = t => RunOK(r)'
    BY <2>4, <2>7, <1>1 DEF RunOK, Active
  <2>12. TaskInv(t)'
    BY <2>8, <2>10, <2>11, <1>1, <1>2 DEF TaskInv, Quiescent, Present
  <2>13. run[n].originalTaskId = NoTask
    BY <2>3, <1>3
  <2>14. \A r \in Runs : \/ run'[r] = run[r]
                         \/ {run[r].originalTaskId, run'[r].originalTaskId} \subseteq {t, NoTask}
    BY <2>4, <2>5, <2>13, <1>3
  <2> QED
    BY <2>2, <2>12, <2>14, <1>2, <1>t, AboutOneTask
<1> QED
  BY <1>6, <1>7

LEMMA EditLinkSerial ==
    ASSUME SerialInv, TypeOK', NEW e \in Edits, EditLink(e) \/ EditUnlink(e)
    PROVE  SerialInv'
<1>0. edit[e].pc \in {"linking", "unlinking"}
  BY DEF EditLink, EditUnlink
<1>t. PICK t \in Tasks : edit[e].id = t
  BY <1>0, EditAlone
<1>j. PICK j : j = IF edit[e].pc = "linking" THEN edit[e].nextJob ELSE NoRun
  OBVIOUS
<1>1. /\ TypeOK /\ Present(t) /\ RunsOf(t) = {}
      /\ edit[e].pc = "linking" => ArmedFor(t, j)
      /\ edit[e].pc = "unlinking" => task[t].recurring = NoCron /\ TimersOf(t) = {} /\ j = NoRun
      /\ \A f \in Edits \ {e} : edit[f].id # t
      /\ \A r \in Runs : run[r].originalTaskId = t => ~Active(r)
  BY <1>0, <1>t, <1>j, EditAlone DEF EditOK, SerialInv
<1>2. task' = [task EXCEPT ![t].recurringJobId = j] /\ edit' = [edit EXCEPT ![e] = NoEdit] /\ run' = run
  BY <1>1, <1>t, <1>j DEF EditLink, EditUnlink, SetRecurringJob
<1>3. /\ task'[t].row = "present" /\ task'[t].recurring = task[t].recurring
      /\ task'[t].recurringJobId = j
      /\ \A u \in Tasks \ {t} : task'[u] = task[u]
      /\ edit'[e] = NoEdit /\ \A f \in Edits \ {e} : edit'[f] = edit[f]
  BY <1>1, <1>2 DEF TypeOK, TaskRow, Present
<1>4. NoEdit.id = NoTask /\ NoTask # t
  BY ConstantsAreDistinct DEF NoEdit
<1>5. TimersOf(t)' = TimersOf(t)
  BY <1>2 DEF TimersOf, Pending
<1>6. Matches(t)'
  BY <1>0, <1>1, <1>2, <1>3, <1>5 DEF Matches, ArmedFor
<1>7. \A r \in Runs : run'[r].originalTaskId = t => RunOK(r)'
  BY <1>1, <1>2 DEF RunOK, Active
<1>8. TaskInv(t)'
  BY <1>1, <1>3, <1>4, <1>6, <1>7 DEF TaskInv
<1> QED
  BY <1>2, <1>3, <1>4, <1>8, <1>t, AboutOneTask

LEMMA DeleteSerial ==
    ASSUME SerialInv, TypeOK', Overlap = {}, NEW t \in Tasks, TaskDelete(t)
    PROVE  SerialInv'
<1>1. /\ TypeOK /\ task' = [task EXCEPT ![t].row = "deleted"] /\ run' = run /\ edit' = edit
      /\ EditsOf(t) = {} /\ RunsOf(t) = {}
  BY DEF TaskDelete, MayEdit, SerialInv
<1>2. task'[t].row = "deleted" /\ \A u \in Tasks \ {t} : task'[u] = task[u]
  BY <1>1 DEF TypeOK, TaskRow
<1>3. \A f \in Edits : edit[f].id # t
  BY <1>1, QuietTask
<1>4. \A r \in Runs : run'[r].originalTaskId = t => RunOK(r)'
  BY <1>1 DEF RunsOf, RunOK, Active
<1>5. TaskInv(t)'
  BY <1>1, <1>2, <1>3, <1>4 DEF TaskInv, Present
<1> QED
  BY <1>1, <1>2, <1>5, AboutOneTask

\* A run in progress of a task that exists is alone with it.
LEMMA RunAlone ==
    ASSUME SerialInv, NEW r \in Runs, Active(r)
    PROVE  /\ run[r].originalTaskId \in Tasks /\ run[r] \in LiveRun
           /\ RunOK(r)
           /\ Present(run[r].originalTaskId) =>
                 /\ \A e \in Edits : edit[e].id # run[r].originalTaskId
                 /\ \A s \in Runs \ {r} : run[s].originalTaskId = run[r].originalTaskId => ~Active(s)
<1> DEFINE t == run[r].originalTaskId
<1>1. run[r] \in LiveRun /\ t \in Tasks
  BY DEF SerialInv, TypeOK, LiveRun, NoRunState, Active
<1>2. RunOK(r) /\ TypeOK
  BY <1>1 DEF SerialInv, TaskInv
<1>3. Present(t) => RunsOf(t) = {r} /\ EditsOf(t) = {}
  BY <1>2 DEF RunOK
<1>4. Present(t) => \A e \in Edits : edit[e].id # t
  BY <1>1, <1>2, <1>3, QuietTask
<1>5. Present(t) => \A s \in Runs \ {r} : run[s].originalTaskId = t => ~Active(s)
  BY <1>3 DEF RunsOf
<1> QED
  BY <1>1, <1>2, <1>4, <1>5

\* A timer fires only when no handler of its task is in progress, or when its task is
\* deleted.
LEMMA FireSerial ==
    ASSUME SerialInv, TypeOK', Overlap = {}, NEW r \in Runs, Fire(r)
    PROVE  SerialInv'
<1>t. PICK t \in Tasks : run[r].originalTaskId = t
  BY DEF Fire, Pending, SerialInv, TypeOK, LiveRun, NoRunState
<1>1. /\ TypeOK /\ TaskInv(t) /\ run[r].pc = "pending"
      /\ EditsOf(t) = {} /\ ~BeingLinked(r)
      /\ task' = task /\ edit' = edit
      /\ run'[r].pc = "started" /\ run'[r].originalTaskId = t /\ run'[r].recurring = run[r].recurring
      /\ \A s \in Runs \ {r} : run'[s] = run[s]
  <2>1. run[r] \in LiveRun
    BY DEF Fire, Pending, SerialInv, TypeOK, LiveRun, NoRunState
  <2> QED
    BY <2>1, <1>t DEF Fire, MayFire, Pending, SerialInv, TypeOK, LiveRun
<1>2. r \in TimersOf(t)
  BY <1>t, <1>1 DEF TimersOf, Pending
<1>3. \A e \in Edits : edit[e].id # t
  BY <1>1, QuietTask
<1>4. EditsOf(t)' = {} /\ (Present(t)' <=> Present(t))
  BY <1>1 DEF EditsOf, Present
<1>5. CASE Present(t)
  <2>1. RunsOf(t) = {}
    <3> SUFFICES ASSUME NEW s \in RunsOf(t) PROVE FALSE
      OBVIOUS
    <3>1. s \in Runs /\ Active(s) /\ run[s].originalTaskId = t
      BY DEF RunsOf
    <3>2. run[s].pc = "linking" /\ TimersOf(t) = {run[s].nextJob}
      BY <3>1, <1>1, <1>2, <1>5 DEF TaskInv, RunOK, ArmedFor
    <3> QED
      BY <3>1, <3>2, <1>1, <1>2 DEF BeingLinked
  <2>2. Matches(t)
    BY <2>1, <1>1, <1>5 DEF TaskInv, Quiescent
  <2>3. /\ task[t].recurring # NoCron /\ task[t].recurringJobId = r /\ TimersOf(t) = {r}
        /\ run[r].recurring = task[t].recurring
    BY <2>2, <1>2 DEF Matches, ArmedFor
  <2>4. TimersOf(t)' = {}
    BY <2>3, <1>1 DEF TimersOf, Pending
  <2>5. RunsOf(t)' = {r}
    BY <2>1, <1>1 DEF RunsOf, Active
  <2>6. RunOK(r)'
    BY <2>3, <2>4, <2>5, <1>1, <1>4, <1>5 DEF RunOK
  <2>7. \A s \in Runs : run'[s].originalTaskId = t => RunOK(s)'
    BY <2>1, <2>6, <1>1 DEF RunsOf, RunOK, Active
  <2>8. TaskInv(t)'
    BY <2>5, <2>7, <1>1, <1>3, <1>5 DEF TaskInv, Quiescent, Present
  <2> QED
    BY <2>8, <1>1, <1>t, AboutOneTask
<1>6. CASE ~Present(t)
  <2>1. task[t].row = "deleted"
    BY <1>1, <1>2, <1>6 DEF TaskInv, TypeOK, TaskRow, Present
  <2>2. \A s \in Runs : run'[s].originalTaskId = t => RunOK(s)'
    BY <2>1, <1>1, <1>4, <1>6 DEF TaskInv, RunOK, Active
  <2>3. TaskInv(t)'
    BY <2>1, <2>2, <1>1, <1>3, <1>4, <1>6 DEF TaskInv
  <2> QED
    BY <2>3, <1>1, <1>t, AboutOneTask
<1> QED
  BY <1>5, <1>6

\* A run of a task that exists goes on, since its row names it; one of a deleted task ends.
LEMMA RunReadSerial ==
    ASSUME SerialInv, TypeOK', NEW r \in Runs, RunRead(r)
    PROVE  SerialInv'
<1>0. Active(r) /\ run[r].pc = "started"
  BY DEF RunRead, Active
<1>t. PICK t \in Tasks : run[r].originalTaskId = t
  BY <1>0, RunAlone
<1>1. /\ TypeOK /\ TaskInv(t) /\ RunOK(r) /\ run[r] \in LiveRun
      /\ task' = task /\ edit' = edit
      /\ Present(t) => /\ \A e \in Edits : edit[e].id # t
                       /\ \A s \in Runs \ {r} : run[s].originalTaskId = t => ~Active(s)
      /\ \A s \in Runs \ {r} : run'[s] = run[s]
  BY <1>0, <1>t, RunAlone DEF RunRead, SerialInv, TypeOK
<1>2. EditsOf(t)' = EditsOf(t) /\ (Present(t)' <=> Present(t))
  BY <1>1 DEF EditsOf, Present
<1>3. NoRunState.originalTaskId = NoTask /\ NoTask # t /\ NoRunState.pc = "unused"
  BY ConstantsAreDistinct DEF NoRunState
<1>4. CASE Present(t)
  <2>1. /\ RunsOf(t) = {r} /\ EditsOf(t) = {} /\ task[t].recurringJobId = r
        /\ task[t].recurring # NoCron /\ TimersOf(t) = {}
    BY <1>0, <1>1, <1>t, <1>4 DEF RunOK
  <2>2. run'[r] = [run[r] EXCEPT !.pc = "creating", !.recurring = task[t].recurring]
    <3>1. run' = [run EXCEPT ![r].pc = "creating", ![r].recurring = task[t].recurring]
      BY <2>1, <1>t, <1>4 DEF RunRead, Present
    <3>2. r \in DOMAIN run
      BY <1>1 DEF TypeOK
    <3> QED
      BY <3>1, <3>2
  <2>3. run'[r].pc = "creating" /\ run'[r].originalTaskId = t /\ run'[r].recurring = task[t].recurring
    BY <2>2, <1>1, <1>t DEF LiveRun
  <2>4. TimersOf(t)' = {} /\ RunsOf(t)' = {r}
    BY <2>1, <2>3, <1>1 DEF TimersOf, RunsOf, Pending, Active
  <2>5. RunOK(r)'
    BY <2>1, <2>3, <2>4, <1>1, <1>2, <1>4 DEF RunOK
  <2>6. \A s \in Runs : run'[s].originalTaskId = t => RunOK(s)'
    BY <2>5, <1>1, <1>4 DEF RunOK, Active
  <2>7. TaskInv(t)'
    BY <2>4, <2>6, <1>1, <1>4 DEF TaskInv, Quiescent, Present
  <2> QED
    BY <2>3, <2>7, <1>1, <1>t, AboutOneTask
<1>5. CASE ~Present(t)
  <2>1. run'[r] = NoRunState /\ task[t].row = "deleted"
    BY <1>0, <1>1, <1>t, <1>5 DEF RunRead, RunOK, Present, TypeOK
  <2>2. \A s \in Runs : run'[s].originalTaskId = t => RunOK(s)'
    BY <2>1, <1>1, <1>2, <1>3, <1>5 DEF TaskInv, RunOK, Active
  <2>3. \A e \in Edits : edit[e].id = t => edit[e].pc = "idle"
    BY <1>1, <1>5 DEF TaskInv, EditOK
  <2>4. \A e \in Edits : edit'[e].id = t => EditOK(e)'
    BY <2>3, <1>1 DEF EditOK
  <2>5. TaskInv(t)'
    BY <2>1, <2>2, <2>4, <1>1, <1>2, <1>5 DEF TaskInv
  <2> QED
    BY <2>1, <2>5, <1>1, <1>3, <1>t, AboutOneTask
<1> QED
  BY <1>4, <1>5

\* RunCreate, RunSchedule and RunLink are steps of the only run of a task.
LEMMA RunGoesOn ==
    ASSUME SerialInv, NEW r \in Runs, Active(r), run[r].pc # "started"
    PROVE  LET t == run[r].originalTaskId IN
           /\ t \in Tasks /\ run[r] \in LiveRun /\ Present(t) /\ TypeOK
           /\ RunsOf(t) = {r} /\ EditsOf(t) = {}
           /\ task[t].recurringJobId = r
           /\ task[t].recurring # NoCron /\ run[r].recurring = task[t].recurring
           /\ run[r].pc # "unlinking"
           /\ IF run[r].pc = "linking" THEN ArmedFor(t, run[r].nextJob) ELSE TimersOf(t) = {}
           /\ \A e \in Edits : edit[e].id # t
           /\ \A s \in Runs \ {r} : run[s].originalTaskId = t => ~Active(s)
BY RunAlone DEF RunOK, SerialInv

LEMMA RunCreateSerial ==
    ASSUME SerialInv, TypeOK', NEW r \in Runs, RunCreate(r)
    PROVE  SerialInv'
<1>0. Active(r) /\ run[r].pc = "creating"
  BY DEF RunCreate, Active
<1>t. PICK t \in Tasks : run[r].originalTaskId = t
  BY <1>0, RunGoesOn
<1>1. /\ TypeOK /\ Present(t) /\ EditsOf(t) = {}
      /\ task[t].recurringJobId = r
      /\ task[t].recurring # NoCron /\ run[r].recurring = task[t].recurring
      /\ TimersOf(t) = {}
      /\ \A e \in Edits : edit[e].id # t
      /\ \A s \in Runs \ {r} : run[s].originalTaskId = t => ~Active(s)
      /\ run[r] \in LiveRun
  BY <1>0, <1>t, RunGoesOn
<1>2. /\ task' = task /\ edit' = edit
      /\ run'[r].pc = "scheduling" /\ run'[r].originalTaskId = t
      /\ run'[r].recurring = run[r].recurring
      /\ \A s \in Runs \ {r} : run'[s] = run[s]
  BY <1>1, <1>t DEF RunCreate, TypeOK, LiveRun
<1>3. TimersOf(t)' = {} /\ RunsOf(t)' = {r} /\ EditsOf(t)' = {}
  BY <1>1, <1>2 DEF TimersOf, RunsOf, EditsOf, Pending, Active
<1>4. RunOK(r)'
  BY <1>1, <1>2, <1>3 DEF RunOK, Present
<1>5. \A s \in Runs : run'[s].originalTaskId = t => RunOK(s)'
  BY <1>1, <1>2, <1>4 DEF RunOK, Active
<1>6. TaskInv(t)'
  BY <1>1, <1>2, <1>3, <1>5 DEF TaskInv, Quiescent, Present
<1> QED
  BY <1>2, <1>6, <1>t, AboutOneTask

LEMMA RunScheduleSerial ==
    ASSUME SerialInv, TypeOK', NEW r \in Runs, RunSchedule(r)
    PROVE  SerialInv'
<1>0. Active(r) /\ run[r].pc = "scheduling"
  BY DEF RunSchedule, Active
<1>t. PICK t \in Tasks : run[r].originalTaskId = t
  BY <1>0, RunGoesOn
<1>1. /\ TypeOK /\ Present(t) /\ EditsOf(t) = {}
      /\ task[t].recurringJobId = r
      /\ task[t].recurring # NoCron /\ run[r].recurring = task[t].recurring
      /\ TimersOf(t) = {}
      /\ \A e \in Edits : edit[e].id # t
      /\ \A s \in Runs \ {r} : run[s].originalTaskId = t => ~Active(s)
      /\ run[r] \in LiveRun
  BY <1>0, <1>t, RunGoesOn
<1>2. PICK n \in Runs :
        /\ Fresh(n)
        /\ run' = [run EXCEPT ![r] = [@ EXCEPT !.pc = "linking", !.nextJob = n],
                              ![n] = Armed(run[r].originalTaskId, run[r].recurring)]
  BY DEF RunSchedule
<1>3. n # r /\ run[n] = NoRunState
  BY <1>0, <1>1, <1>2, QuietTask DEF Fresh
<1>4. /\ task' = task /\ edit' = edit
      /\ run'[r].pc = "linking" /\ run'[r].originalTaskId = t /\ run'[r].nextJob = n
      /\ run'[r].recurring = run[r].recurring
      /\ run'[n].pc = "pending" /\ run'[n].originalTaskId = t /\ run'[n].recurring = run[r].recurring
      /\ \A s \in Runs \ {r, n} : run'[s] = run[s]
  <2>1. /\ run'[r] = [run[r] EXCEPT !.pc = "linking", !.nextJob = n]
        /\ run'[n] = Armed(t, run[r].recurring)
        /\ \A s \in Runs \ {r, n} : run'[s] = run[s]
    BY <1>1, <1>2, <1>3, <1>t DEF TypeOK
  <2>2. /\ run'[r].pc = "linking" /\ run'[r].originalTaskId = t /\ run'[r].nextJob = n
        /\ run'[r].recurring = run[r].recurring
    BY <2>1, <1>1, <1>t DEF LiveRun
  <2>3. run'[n].pc = "pending" /\ run'[n].originalTaskId = t /\ run'[n].recurring = run[r].recurring
    BY <2>1 DEF Armed
  <2> QED
    BY <2>1, <2>2, <2>3 DEF RunSchedule
<1>5. TimersOf(t)' = {n} /\ RunsOf(t)' = {r} /\ EditsOf(t)' = {}
  BY <1>1, <1>3, <1>4 DEF TimersOf, RunsOf, EditsOf, Pending, Active
<1>6. ArmedFor(t, n)'
  BY <1>1, <1>4, <1>5 DEF ArmedFor
<1>7. RunOK(r)'
  BY <1>1, <1>4, <1>5, <1>6 DEF RunOK, Present
<1>8. \A s \in Runs : run'[s].originalTaskId = t => RunOK(s)'
  BY <1>1, <1>4, <1>7 DEF RunOK, Active
<1>9. TaskInv(t)'
  BY <1>1, <1>4, <1>5, <1>8 DEF TaskInv, Quiescent, Present
<1>10. run[n].originalTaskId = NoTask
  BY <1>3 DEF NoRunState
<1> QED
  BY <1>4, <1>9, <1>10, <1>t, AboutOneTask

LEMMA RunLinkSerial ==
    ASSUME SerialInv, TypeOK', NEW r \in Runs, RunLink(r) \/ RunUnlink(r)
    PROVE  SerialInv'
<1>0. Active(r) /\ run[r].pc = "linking" /\ RunLink(r)
  <2>1. Active(r) /\ run[r].pc # "started"
    BY DEF RunLink, RunUnlink, Active
  <2> QED
    BY <2>1, RunGoesOn DEF RunLink, RunUnlink
<1>t. PICK t \in Tasks : run[r].originalTaskId = t
  BY <1>0, RunGoesOn
<1>j. PICK j : run[r].nextJob = j
  OBVIOUS
<1>1. /\ TypeOK /\ Present(t) /\ ArmedFor(t, j)
      /\ \A e \in Edits : edit[e].id # t
      /\ \A s \in Runs \ {r} : run[s].originalTaskId = t => ~Active(s)
  BY <1>0, <1>t, <1>j, RunGoesOn
<1>2. /\ task' = [task EXCEPT ![t].recurringJobId = j] /\ edit' = edit
      /\ run' = [run EXCEPT ![r] = NoRunState]
  BY <1>0, <1>1, <1>t, <1>j DEF RunLink, SetRecurringJob
<1>3. /\ task'[t].row = "present" /\ task'[t].recurring = task[t].recurring
      /\ task'[t].recurringJobId = j
      /\ \A u \in Tasks \ {t} : task'[u] = task[u]
      /\ run'[r] = NoRunState /\ \A s \in Runs \ {r} : run'[s] = run[s]
  BY <1>1, <1>2 DEF TypeOK, TaskRow, Present
<1>4. NoRunState.originalTaskId = NoTask /\ NoTask # t /\ NoRunState.pc = "unused"
  BY ConstantsAreDistinct DEF NoRunState
<1>5. TimersOf(t)' = TimersOf(t)
  BY <1>0, <1>3, <1>4 DEF TimersOf, Pending
<1>6. j # r /\ j \in Runs
  BY <1>0, <1>1 DEF ArmedFor, TimersOf, Pending
<1>7. Matches(t)'
  BY <1>1, <1>3, <1>5, <1>6 DEF Matches, ArmedFor
<1>8. \A s \in Runs : run'[s].originalTaskId = t => RunOK(s)'
  BY <1>1, <1>3, <1>4 DEF RunOK, Active
<1>9. TaskInv(t)'
  BY <1>1, <1>2, <1>3, <1>7, <1>8 DEF TaskInv
<1> QED
  BY <1>2, <1>3, <1>4, <1>9, <1>t, AboutOneTask

LEMMA NextSerialInv ==
    ASSUME Overlap = {}, Faults = {}, SerialInv, [Next]_vars
    PROVE  SerialInv'
<1>0. TypeOK'
  BY NextTypeOK DEF SerialInv
<1>1. CASE UNCHANGED vars
  BY <1>0, <1>1, Untouched DEF SerialInv, vars
<1>2. ASSUME NEW e \in Edits, EditStep(e) PROVE SerialInv'
  BY <1>0, <1>2, UpdateWriteSerial, EditSyncSerial, EditLinkSerial DEF EditStep
<1>3. ASSUME NEW r \in Runs, Fire(r) \/ RunStep(r) PROVE SerialInv'
  BY <1>0, <1>3, FireSerial, RunReadSerial, RunCreateSerial, RunScheduleSerial, RunLinkSerial
  DEF RunStep
<1>4. (\A e \in Edits : ~EditFail(e)) /\ (\A r \in Runs : ~RunFail(r)) /\ ~Restart
  BY DEF EditFail, RunFail, Restart, Fault
<1> QED
  BY <1>0, <1>1, <1>2, <1>3, <1>4, CreateSerial, UpdateReadSerial, DeleteSerial DEF Next

\* However many tasks and requests there are, as long as the handlers of one task do not
\* overlap and nothing fails: a recurring task at rest has exactly one timer, the one its
\* row names, armed for its own cron, and any other task has none.
THEOREM RowAndTimersAgree ==
    ASSUME Overlap = {}, Faults = {}
    PROVE  Spec => []ScheduleMatchesRow
<1>1. SerialInv => ScheduleMatchesRow
  BY DEF SerialInv, TaskInv, Matches, ArmedFor, ScheduleMatchesRow
<1>2. Spec => []SerialInv
  BY InitSerialInv, NextSerialInv, PTL DEF Spec
<1> QED
  BY <1>1, <1>2, PTL

\* The same beside the regime in which handlers overlap, as the runs compose the two.
THEOREM SerialRegimeAgrees ==
    ASSUME Overlap = {}, Faults = {}
    PROVE  RegimeSpec => []SerialScheduleMatchesRow
<1> DEFINE RegimeInv == regime = "serial" => SerialInv
<1>1. RegimeInit => RegimeInv
  BY InitSerialInv DEF RegimeInit
<1>2. RegimeInv /\ [SerialStep \/ OverlappingStep]_regimeVars => RegimeInv'
  <2> SUFFICES ASSUME RegimeInv, [SerialStep \/ OverlappingStep]_regimeVars,
                      regime' = "serial"
               PROVE  SerialInv'
    OBVIOUS
  <2>1. SerialInv /\ [Next]_vars
    BY DEF SerialStep, OverlappingStep, regimeVars
  <2> QED
    BY <2>1, NextSerialInv
<1>3. RegimeInv => SerialScheduleMatchesRow
  BY DEF SerialScheduleMatchesRow, SerialInv, TaskInv, Matches, ArmedFor, ScheduleMatchesRow
<1> QED
  BY <1>1, <1>2, <1>3, PTL DEF RegimeSpec
=============================================================================
