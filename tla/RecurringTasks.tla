--------------------------- MODULE RecurringTasks ---------------------------
(***************************************************************************)
(* Recurring tasks: the tasks router (create, update, delete), the local   *)
(* job scheduler and the "create-recurring-task-job" run, all of them      *)
(* writing the same task row.                                              *)
(*                                                                         *)
(* A task row carries `recurring` (a cron expression or null) and          *)
(* `recurringJobId`, the id of the run that will create the next           *)
(* occurrence.  The run is a setTimeout handle of the API process; when it *)
(* fires it reads the row, and goes on only if the row still names it.     *)
(*                                                                         *)
(* Every database call is an await: the event loop may run any other       *)
(* handler or timer before the next statement, so each of them is an       *)
(* action of its own.  Time is left out here (RecurrenceClock has it): a   *)
(* pending timer may fire at any moment.                                   *)
(***************************************************************************)
EXTENDS Naturals, FiniteSets

CONSTANTS
    Tasks,      \* task ids
    Runs,       \* run ids (randomUUID); bounds the runs alive at one time
    Crons,      \* valid cron expressions
    Edits,      \* slots for tasks.create / tasks.update requests in progress
    NoCron,     \* recurring = null
    NoRun,      \* recurringJobId = null
    NoTask,     \* the task of an unused slot
    Unchanged,  \* an update whose input does not mention `recurring`
    Overlap,    \* which handlers of one task the event loop interleaves
    Faults,     \* which failures the environment may inject
    MaxFaults,  \* and how many of them
    MaxAlive    \* bound: a request starts only beside so many live runs

Cron  == Crons \cup {NoCron}
RunId == Runs \cup {NoRun}

ASSUME ConstantsAreDistinct ==
    /\ NoCron \notin Crons
    /\ Unchanged \notin Cron
    /\ NoRun \notin Runs
    /\ NoTask \notin Tasks

ASSUME OptionsAreKnown ==
    /\ Overlap \subseteq {"edit/edit", "edit/run", "fire/link"}
    /\ Faults \subseteq {"restart", "failure"}
    /\ MaxFaults \in Nat
    /\ MaxAlive \in Nat

VARIABLES
    task,   \* the rows of the tasks table
    run,    \* _timers and the job runs in progress
    edit,   \* tasks.create / tasks.update requests in progress
    faults  \* failures so far (bounds the environment, not the code)

vars == <<task, run, edit, faults>>

TaskRow == [row : {"absent", "present", "deleted"},
            recurring : Cron, recurringJobId : RunId]

\* `recurring` of a pending run is the cron its date was computed from, of a
\* run in progress the value it read from the row.
LiveRun == [pc : {"pending", "started", "creating", "scheduling", "linking",
                  "unlinking"},
            originalTaskId : Tasks, recurring : Cron, nextJob : RunId]
NoRunState == [pc |-> "unused", originalTaskId |-> NoTask,
               recurring |-> NoCron, nextJob |-> NoRun]

\* `recurring` is the input's, then the updated row's; the old values are those
\* read before the update.
LiveEdit == [pc : {"updating", "syncing", "linking", "unlinking"}, id : Tasks,
             recurring : Cron \cup {Unchanged},
             oldRecurring : Cron, oldJobId : RunId, nextJob : RunId]
NoEdit == [pc |-> "idle", id |-> NoTask, recurring |-> NoCron,
           oldRecurring |-> NoCron, oldJobId |-> NoRun, nextJob |-> NoRun]

TypeOK ==
    /\ task \in [Tasks -> TaskRow]
    /\ run \in [Runs -> LiveRun \cup {NoRunState}]
    /\ edit \in [Edits -> LiveEdit \cup {NoEdit}]
    /\ \A e \in Edits : edit[e].pc # "updating" => edit[e].recurring \in Cron
    /\ faults \in 0..MaxFaults

-----------------------------------------------------------------------------
Init ==
    /\ task = [t \in Tasks |-> [row |-> "absent", recurring |-> NoCron,
                                recurringJobId |-> NoRun]]
    /\ run = [r \in Runs |-> NoRunState]
    /\ edit = [e \in Edits |-> NoEdit]
    /\ faults = 0

Present(t) == task[t].row = "present"
Pending(r) == run[r].pc = "pending"
Active(r)  == run[r].pc \notin {"unused", "pending"}
RoomForEdit == Cardinality({r \in Runs : Pending(r) \/ Active(r)}) <= MaxAlive

\* The handlers of task t that are in progress.
RunsOf(t)  == {r \in Runs : Active(r) /\ run[r].originalTaskId = t}
EditsOf(t) == {e \in Edits : edit[e].pc # "idle" /\ edit[e].id = t}

MayEdit(t) ==
    /\ "edit/edit" \in Overlap \/ EditsOf(t) = {}
    /\ "edit/run" \in Overlap \/ RunsOf(t) = {}

\* Some handler has armed r and has not yet written it to the row.
BeingLinked(r) ==
    \/ \E e \in Edits : edit[e].pc = "linking" /\ edit[e].nextJob = r
    \/ \E s \in Runs : run[s].pc = "linking" /\ run[s].nextJob = r

MayFire(r) ==
    /\ "edit/run" \in Overlap \/ EditsOf(run[r].originalTaskId) = {}
    /\ "fire/link" \in Overlap \/ ~BeingLinked(r)

\* randomUUID never returns an id something still refers to.
Fresh(r) ==
    /\ run[r].pc = "unused"
    /\ \A t \in Tasks : task[t].recurringJobId # r
    /\ \A s \in Runs : run[s].nextJob # r
    /\ \A e \in Edits : edit[e].oldJobId # r /\ edit[e].nextJob # r

\* enqueue: arm a timer for the next occurrence of t under cron c.
Armed(t, c) == [pc |-> "pending", originalTaskId |-> t, recurring |-> c,
                nextJob |-> NoRun]

\* Mutant of Cancelled: the timer is never cleared.
NothingCancelled(f, r) == f

\* cancelJob: only a timer that has not fired can be cleared.
Cancelled(f, r) ==
    IF r # NoRun /\ run[r].pc = "pending" THEN [f EXCEPT ![r] = NoRunState] ELSE f

-----------------------------------------------------------------------------
(* tasks.create and tasks.update                                           *)

TaskCreate(e, t, c) ==
    /\ edit[e].pc = "idle"
    /\ task[t].row = "absent"
    /\ RoomForEdit
    /\ task' = [task EXCEPT ![t] = [@ EXCEPT !.row = "present", !.recurring = c]]
    /\ IF c = NoCron
       THEN UNCHANGED edit
       ELSE edit' = [edit EXCEPT ![e] =
                  [pc |-> "syncing", id |-> t, recurring |-> c,
                   oldRecurring |-> NoCron, oldJobId |-> NoRun, nextJob |-> NoRun]]
    /\ UNCHANGED <<run, faults>>

\* oldTask = await getTaskById(...)
UpdateRead(e, t, input) ==
    /\ edit[e].pc = "idle"
    /\ Present(t)
    /\ MayEdit(t)
    /\ RoomForEdit
    /\ edit' = [edit EXCEPT ![e] =
                  [pc |-> "updating", id |-> t, recurring |-> input,
                   oldRecurring |-> task[t].recurring,
                   oldJobId |-> task[t].recurringJobId, nextJob |-> NoRun]]
    /\ UNCHANGED <<task, run, faults>>

\* recurringChanged || missingRecurringJob, on the row read before the update.
NeedsSync(e, recurring) ==
    \/ edit[e].oldRecurring # recurring
    \/ recurring # NoCron /\ edit[e].oldJobId = NoRun

\* task = await updateTask(...): throws when the row is gone.
UpdateWrite(e) ==
    LET t == edit[e].id
        recurring == IF edit[e].recurring = Unchanged
                     THEN task[t].recurring ELSE edit[e].recurring
    IN  /\ edit[e].pc = "updating"
        /\ IF Present(t)
           THEN /\ task' = [task EXCEPT ![t].recurring = recurring]
                /\ edit' = [edit EXCEPT ![e] =
                              IF NeedsSync(e, recurring)
                              THEN [@ EXCEPT !.pc = "syncing",
                                             !.recurring = recurring]
                              ELSE NoEdit]
           ELSE /\ edit' = [edit EXCEPT ![e] = NoEdit]
                /\ UNCHANGED task
        /\ UNCHANGED <<run, faults>>

\* syncRecurringTaskSchedule up to its database write: cancel, then enqueue.
EditSync(e) ==
    LET new == edit[e].recurring
        old == edit[e].oldJobId
    IN  /\ edit[e].pc = "syncing"
        /\ \/ /\ new = NoCron
              /\ run' = Cancelled(run, old)
              /\ edit' = [edit EXCEPT ![e].pc = "unlinking"]
           \/ /\ new # NoCron
              /\ \E n \in Runs :
                   /\ Fresh(n)
                   /\ run' = Cancelled([run EXCEPT ![n] = Armed(edit[e].id, new)], old)
                   /\ edit' = [edit EXCEPT ![e] = [@ EXCEPT !.pc = "linking",
                                                            !.nextJob = n]]
        /\ UNCHANGED <<task, faults>>

\* updateTaskRecurringJob: an UPDATE by task id, which throws on no row.
SetRecurringJob(t, jobId) ==
    task' = IF Present(t) THEN [task EXCEPT ![t].recurringJobId = jobId] ELSE task

EditLink(e) ==
    /\ edit[e].pc = "linking"
    /\ SetRecurringJob(edit[e].id, edit[e].nextJob)
    /\ edit' = [edit EXCEPT ![e] = NoEdit]
    /\ UNCHANGED <<run, faults>>

EditUnlink(e) ==
    /\ edit[e].pc = "unlinking"
    /\ SetRecurringJob(edit[e].id, NoRun)
    /\ edit' = [edit EXCEPT ![e] = NoEdit]
    /\ UNCHANGED <<run, faults>>

\* deleteTask and bulkDeleteTask remove the row and leave its timer armed.
TaskDelete(t) ==
    /\ Present(t)
    /\ MayEdit(t)
    /\ task' = [task EXCEPT ![t].row = "deleted"]
    /\ UNCHANGED <<run, edit, faults>>

-----------------------------------------------------------------------------
(* create-recurring-task-job                                               *)

\* The setTimeout callback: leave _timers, start the run.
Fire(r) ==
    /\ Pending(r)
    /\ MayFire(r)
    /\ run' = [run EXCEPT ![r].pc = "started"]
    /\ UNCHANGED <<task, edit, faults>>

\* Mutant of RunRead: neither the missing row nor the stale run is skipped.
RunReadUnchecked(r) ==
    LET row == task[run[r].originalTaskId]
    IN  /\ run[r].pc = "started"
        /\ run' = [run EXCEPT
                      ![r].pc = IF row.recurring = NoCron THEN "unlinking" ELSE "creating",
                      ![r].recurring = row.recurring]
        /\ UNCHANGED <<task, edit, faults>>

\* Mutant of RunRead: the run goes by the cron it was armed for.
RunKeepsCron(r) ==
    LET row == task[run[r].originalTaskId]
    IN  /\ run[r].pc = "started"
        /\ \/ /\ row.row = "present" /\ row.recurringJobId = r
              /\ run' = [run EXCEPT
                    ![r].pc = IF row.recurring = NoCron THEN "unlinking" ELSE "creating"]
           \/ /\ row.row # "present" \/ row.recurringJobId # r
              /\ run' = [run EXCEPT ![r] = NoRunState]
        /\ UNCHANGED <<task, edit, faults>>

\* The row the run goes by is read once, here.
RunRead(r) ==
    LET row == task[run[r].originalTaskId]
    IN  /\ run[r].pc = "started"
        /\ \/ /\ row.row = "present" /\ row.recurringJobId = r
              /\ run' = [run EXCEPT
                    ![r].pc = IF row.recurring = NoCron THEN "unlinking" ELSE "creating",
                    ![r].recurring = row.recurring]
           \/ /\ row.row # "present" \/ row.recurringJobId # r  \* gone, or stale
              /\ run' = [run EXCEPT ![r] = NoRunState]
        /\ UNCHANGED <<task, edit, faults>>

\* createTask and the copy of the checklist: the new occurrence.
RunCreate(r) ==
    /\ run[r].pc = "creating"
    /\ run' = [run EXCEPT ![r].pc = "scheduling"]
    /\ UNCHANGED <<task, edit, faults>>

\* syncRecurringTaskSchedule without a previousJobId.
RunSchedule(r) ==
    /\ run[r].pc = "scheduling"
    /\ \E n \in Runs :
         /\ Fresh(n)
         /\ run' = [run EXCEPT ![r] = [@ EXCEPT !.pc = "linking", !.nextJob = n],
                               ![n] = Armed(run[r].originalTaskId, run[r].recurring)]
    /\ UNCHANGED <<task, edit, faults>>

\* Mutant of RunLink: the write to the row is forgotten.
RunForgetsLink(r) ==
    /\ run[r].pc = "linking"
    /\ run' = [run EXCEPT ![r] = NoRunState]
    /\ UNCHANGED <<task, edit, faults>>

RunLink(r) ==
    /\ run[r].pc = "linking"
    /\ SetRecurringJob(run[r].originalTaskId, run[r].nextJob)
    /\ run' = [run EXCEPT ![r] = NoRunState]
    /\ UNCHANGED <<edit, faults>>

RunUnlink(r) ==
    /\ run[r].pc = "unlinking"
    /\ SetRecurringJob(run[r].originalTaskId, NoRun)
    /\ run' = [run EXCEPT ![r] = NoRunState]
    /\ UNCHANGED <<edit, faults>>

-----------------------------------------------------------------------------
(* Failures                                                                *)

Fault(kind) ==
    /\ kind \in Faults
    /\ faults < MaxFaults
    /\ faults' = faults + 1

\* A database call of the run throws: _execJob logs it, the run is over.
RunFail(r) ==
    /\ Fault("failure")
    /\ Active(r)
    /\ run' = [run EXCEPT ![r] = NoRunState]
    /\ UNCHANGED <<task, edit>>

\* A database call of the request throws: the request returns an error.
EditFail(e) ==
    /\ Fault("failure")
    /\ edit[e].pc \in {"updating", "linking", "unlinking"}
    /\ edit' = [edit EXCEPT ![e] = NoEdit]
    /\ UNCHANGED <<task, run>>

\* The API process restarts: _timers and every handler in progress are gone.
Restart ==
    /\ Fault("restart")
    /\ run' = [r \in Runs |-> NoRunState]
    /\ edit' = [e \in Edits |-> NoEdit]
    /\ UNCHANGED task

-----------------------------------------------------------------------------
EditStep(e) == UpdateWrite(e) \/ EditSync(e) \/ EditLink(e) \/ EditUnlink(e)

RunStep(r) ==
    \/ RunRead(r) \/ RunCreate(r) \/ RunSchedule(r) \/ RunLink(r) \/ RunUnlink(r)

Next ==
    \/ \E e \in Edits, t \in Tasks, c \in Cron : TaskCreate(e, t, c)
    \/ \E e \in Edits, t \in Tasks, c \in Cron \cup {Unchanged} : UpdateRead(e, t, c)
    \/ \E t \in Tasks : TaskDelete(t)
    \/ \E e \in Edits : EditStep(e) \/ EditFail(e)
    \/ \E r \in Runs : Fire(r) \/ RunStep(r) \/ RunFail(r)
    \/ Restart

Spec == Init /\ [][Next]_vars

\* The event loop resumes every handler whose await has settled and runs every
\* timer that is due; users owe the system nothing.
Fairness ==
    /\ \A e \in Edits : WF_vars(EditStep(e))
    /\ \A r \in Runs : WF_vars(Fire(r)) /\ WF_vars(RunStep(r))

FairSpec == Spec /\ Fairness

-----------------------------------------------------------------------------
(* What the code promises                                                  *)

Quiescent(t) == RunsOf(t) = {} /\ EditsOf(t) = {}
TimersOf(t) == {r \in Runs : Pending(r) /\ run[r].originalTaskId = t}

\* When nothing of the task is in progress (and the handlers of one task do not
\* overlap: Overlap = {}), a recurring task has exactly one
\* timer, the one its row names, armed for the row's own cron; a task that is
\* not recurring has none (syncRecurringTaskSchedule leaves it so).
ScheduleMatchesRow ==
    \A t \in Tasks : Present(t) /\ Quiescent(t) =>
        LET j == task[t].recurringJobId
        IN  IF task[t].recurring = NoCron
            THEN j = NoRun /\ TimersOf(t) = {}
            ELSE TimersOf(t) = {j} /\ run[j].recurring = task[t].recurring

\* Past the check that skips stale runs there is one run of a task at a time:
\* no two of them create occurrences, or reschedule, side by side.
OneChain ==
    \A r, s \in Runs :
        /\ run[r].pc \in {"creating", "scheduling", "linking"}
        /\ run[s].pc \in {"creating", "scheduling", "linking"}
        /\ run[r].originalTaskId = run[s].originalTaskId
        => r = s

\* The timer of a deleted task is not cancelled, and removing the recurrence may
\* miss one that a run half-way is about to arm; but the runs they start end the
\* chain: in the end nothing of the task is scheduled any more.
StoppedTaskDrains ==
    \A t \in Tasks :
        <>[](task[t].row = "deleted" \/ task[t].recurring = NoCron)
            => <>[](\A r \in Runs : run[r].originalTaskId # t)

\* A run that read the row before the user changed its cron arms the next one for
\* the old cron, and may write it over the one the request armed for the new cron;
\* but every later run reads the row again: in the end nothing of the task runs by
\* another cron than its own.
LastCronWins ==
    \A t \in Tasks, c \in Crons :
        <>[](Present(t) /\ task[t].recurring = c)
            => <>[](\A r \in Runs : run[r].originalTaskId = t => run[r].recurring = c)

\* A task that stays recurring keeps getting occurrences.
KeepsRecurring ==
    \A t \in Tasks :
        <>[](Present(t) /\ task[t].recurring # NoCron /\ EditsOf(t) = {})
            => []<>(\E r \in RunsOf(t) : run[r].pc = "scheduling")
=============================================================================
