------------------------------ MODULE VaultQueue ------------------------------
(***************************************************************************)
(* The job queue of the vault (broker.vault.jobs): readers insert jobs,    *)
(* and the writer (broker.vault.writer), alone behind a file lock, drains  *)
(* them in order of enqueued_at.  launchd starts the writer again after a  *)
(* crash; a second one, --once for instance, may be started at any time.   *)
(*                                                                         *)
(* enqueued_at is read before the INSERT.  What a handler writes is one    *)
(* effect.  requeue_stale_in_flight has no caller and is not modelled: a   *)
(* job in flight when its process dies stays in flight.                    *)
(***************************************************************************)
EXTENDS Naturals, FiniteSets

CONSTANTS
    Jobs,
    Drainers,     \* processes of broker.vault.writer
    NoJob,
    MaxCrashes    \* bound on deaths and failing statements

ASSUME VaultConstants == IsFiniteSet(Jobs) /\ NoJob \notin Jobs /\ MaxCrashes \in Nat

VARIABLES
    job,       \* job[j]: status, enqueued_at, and how often its handler took effect
    drainer,   \* drainer[d]: where the process is, and the job it has claimed
    stranded,  \* jobs claimed by a process that died
    crashes

vaultVars == <<job, drainer, stranded, crashes>>

Statuses == {"none", "stamped", "queued", "in_flight", "done", "failed"}
Idle == [pc |-> "polling", job |-> NoJob]
Off == [pc |-> "off", job |-> NoJob]

VaultTypeOK ==
    /\ job \in [Jobs -> [status : Statuses, at : Nat, effects : Nat]]
    /\ drainer \in [Drainers -> {Off, Idle} \cup
                       [pc : {"handling", "marking", "failing"}, job : Jobs]]
    /\ stranded \subseteq Jobs
    /\ crashes \in 0..MaxCrashes

VaultInit ==
    /\ job = [j \in Jobs |-> [status |-> "none", at |-> 0, effects |-> 0]]
    /\ drainer = [d \in Drainers |-> Off]
    /\ stranded = {}
    /\ crashes = 0

With(status) == {j \in Jobs : job[j].status = status}
SetStatus(j, s) == job' = [job EXCEPT ![j].status = s]
Moves(d, pc, j) == drainer' = [drainer EXCEPT ![d] = [pc |-> pc, job |-> j]]

\* Mutant of LockFree: a lock file, which a dead process leaves behind.
LockFileGone == crashes = 0 /\ \A d \in Drainers : drainer[d] = Off

\* _acquire_lock: the lock belongs to a process, and goes with it.
LockFree == \A d \in Drainers : drainer[d] = Off

-----------------------------------------------------------------------------
\* enqueue, at now_iso.
EnqueueStamp(j) ==
    /\ job[j].status = "none"
    /\ job' = [job EXCEPT ![j] = [@ EXCEPT !.status = "stamped",
                                           !.at = Cardinality(Jobs \ With("none"))]]
    /\ UNCHANGED <<drainer, stranded, crashes>>

\* Its INSERT.
EnqueueInsert(j) ==
    /\ job[j].status = "stamped"
    /\ SetStatus(j, "queued")
    /\ UNCHANGED <<drainer, stranded, crashes>>

\* Mutant of StartDrainer: the lock is not asked for.
StartUnlocked(d) ==
    /\ drainer[d] = Off
    /\ Moves(d, "polling", NoJob)
    /\ UNCHANGED <<job, stranded, crashes>>

\* main: a process that does not get the lock exits.
StartDrainer(d) ==
    /\ LockFree
    /\ Moves(d, "polling", NoJob)
    /\ UNCHANGED <<job, stranded, crashes>>

\* claim_next_queued.  A kind without a handler goes to mark_failed.
Claim(d) ==
    /\ drainer[d] = Idle
    /\ \E j \in With("queued"), pc \in {"handling", "failing"} :
           /\ \A k \in With("queued") : job[j].at <= job[k].at
           /\ SetStatus(j, "in_flight")
           /\ Moves(d, pc, j)
    /\ UNCHANGED <<stranded, crashes>>

\* The handler returns, or raises before or after its effect, which is its
\* descriptor: ingest_repo returns as well when it fetched nothing.
Handle(d) ==
    /\ drainer[d].pc = "handling"
    /\ LET j == drainer[d].job
       IN  \/ job' = [job EXCEPT ![j].effects = @ + 1] /\ Moves(d, "marking", j)
           \/ job' = [job EXCEPT ![j].effects = @ + 1] /\ Moves(d, "failing", j)
           \/ UNCHANGED job /\ Moves(d, "failing", j)
    /\ UNCHANGED <<stranded, crashes>>

\* mark_done, inside the try: a failing statement leads to mark_failed.
MarkDone(d) ==
    /\ drainer[d].pc = "marking"
    /\ SetStatus(drainer[d].job, "done")
    /\ Moves(d, "polling", NoJob)
    /\ UNCHANGED <<stranded, crashes>>

MarkDoneRaises(d) ==
    /\ drainer[d].pc = "marking"
    /\ crashes < MaxCrashes
    /\ crashes' = crashes + 1
    /\ Moves(d, "failing", drainer[d].job)
    /\ UNCHANGED <<job, stranded>>

\* Mutant of MarkFailed: a failed job goes back to the queue.
MarkRequeued(d) ==
    /\ drainer[d].pc = "failing"
    /\ SetStatus(drainer[d].job, "queued")
    /\ Moves(d, "polling", NoJob)
    /\ UNCHANGED <<stranded, crashes>>

MarkFailed(d) ==
    /\ drainer[d].pc = "failing"
    /\ SetStatus(drainer[d].job, "failed")
    /\ Moves(d, "polling", NoJob)
    /\ UNCHANGED <<stranded, crashes>>

\* The process dies, also of a statement that raises in claim_next_queued or
\* mark_failed: nothing catches that.
Dies(d) ==
    /\ drainer[d] # Off
    /\ crashes < MaxCrashes
    /\ crashes' = crashes + 1
    /\ drainer' = [drainer EXCEPT ![d] = Off]
    /\ stranded' = stranded \cup ({drainer[d].job} \ {NoJob})
    /\ UNCHANGED job

\* --once, when nothing is queued.
Exit(d) ==
    /\ drainer[d] = Idle
    /\ With("queued") = {}
    /\ drainer' = [drainer EXCEPT ![d] = Off]
    /\ UNCHANGED <<job, stranded, crashes>>

Work(d) == Claim(d) \/ Handle(d) \/ MarkDone(d) \/ MarkFailed(d)

VaultNext ==
    \/ \E j \in Jobs : EnqueueStamp(j) \/ EnqueueInsert(j)
    \/ \E d \in Drainers :
           \/ StartDrainer(d) \/ Claim(d) \/ Handle(d) \/ MarkDone(d)
           \/ MarkDoneRaises(d) \/ MarkFailed(d) \/ Dies(d) \/ Exit(d)

VaultSpec == VaultInit /\ [][VaultNext]_vaultVars

-----------------------------------------------------------------------------
\* B3, one writer: with several processes, started and dying at any moment,
\* at most one is past the lock, and the jobs in flight are the one it works
\* on and those that a dead process left behind.
InFlightOwned ==
    /\ \A d, e \in Drainers : drainer[d] # Off /\ drainer[e] # Off => d = e
    /\ With("in_flight") = stranded \cup ({drainer[d].job : d \in Drainers} \ {NoJob})

\* No job takes effect twice, and one marked done has, whatever crashes and
\* restarts come between claim, handler and mark.
EffectOnce == \A j \in Jobs : job[j].effects <= 1 /\ (job[j].status = "done" => job[j].effects = 1)

\* With the writer started again after each crash, a job that is queued is
\* claimed: none starves behind later ones or behind a job left in flight.
QueuedIsClaimed == \A j \in Jobs : (job[j].status = "queued") ~> (job[j].status # "queued")
=============================================================================
