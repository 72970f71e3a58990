----------------------------- MODULE DagConductor -----------------------------
(***************************************************************************)
(* The DAG conductor (broker.conductor.dag): worker threads pull nodes of  *)
(* a validated DAG off one ready queue, journal each result durably        *)
(* (broker.conductor.checkpoint) and only then merge it in memory.  The    *)
(* process may crash between any two steps and run_dag be called again     *)
(* with the same run_id and resume = True.                                 *)
(*                                                                         *)
(* A node's result is abstracted to its outcome: "ok", or "failed" (a      *)
(* dispatch that failed or raised, or a lens gate that blocked it).        *)
(***************************************************************************)
EXTENDS Integers, FiniteSets

CONSTANTS
    Nodes,      \* node ids
    Docs,       \* the DAG files run_dag may be given
    Workers,    \* max_workers threads
    None,       \* no result
    Faults,     \* what may go wrong: "crash", "torn", "append", "sink", "edit"
    MaxFaults   \* bound on the crashes and raised exceptions

\* A DAG maps its nodes to their depends_on; validate_dag leaves only such DAGs.
IsDag(d) ==
    /\ DOMAIN d \subseteq Nodes
    /\ \A n \in DOMAIN d : d[n] \subseteq DOMAIN d
    /\ \A S \in SUBSET DOMAIN d : S # {} => \E n \in S : d[n] \cap S = {}

Outcomes == {"ok", "failed"}
Results  == [Nodes -> Outcomes \cup {None}]

ASSUME DagConstants ==
    /\ IsFiniteSet(Nodes)
    /\ Docs # {}
    /\ \A d \in Docs : IsDag(d) /\ d \in [DOMAIN d -> SUBSET Nodes]
    /\ None \notin Outcomes
    /\ Faults \subseteq {"crash", "torn", "append", "sink", "edit"}
    /\ MaxFaults \in Nat

VARIABLES
    doc,         \* the DAG of this run
    run,         \* "down": no process; "running": in run_dag; "returned"
    checkpoint,  \* what load_checkpoint reads of the journal for this run_id
    torn,        \* the journal ends in a partial line
    results,     \* results, by node
    inDegree,    \* in_degree
    ready,       \* ready[n]: how often n is in the ready queue
    remaining,   \* remaining
    worker,      \* worker[w]: where thread w is in worker_loop, with which node
    faults       \* faults so far (bound)

memory == <<results, inDegree, ready, remaining, worker>>
vars == <<doc, run, checkpoint, torn, results, inDegree, ready, remaining, worker, faults>>

Idle == [pc |-> "idle", node |-> None, outcome |-> None]

AtPoll    == {[pc |-> p, node |-> None, outcome |-> None] : p \in {"idle", "empty", "exited", "dead"}}
AtNode    == [pc : {"dispatch"}, node : Nodes, outcome : {None}]
AtOutcome == [pc : {"report", "merge"}, node : Nodes, outcome : Outcomes]

TypeOK ==
    /\ doc \in Docs
    /\ run \in {"down", "running", "returned"}
    /\ checkpoint \in Results
    /\ torn \in BOOLEAN
    /\ results \in Results
    /\ inDegree \in [Nodes -> Int]
    /\ ready \in [Nodes -> Nat]
    /\ remaining \in Int
    /\ worker \in [Workers -> AtPoll \cup AtNode \cup AtOutcome]
    /\ faults \in 0..MaxFaults

NoResults == [n \in Nodes |-> None]

Init ==
    /\ doc \in Docs
    /\ run = "down"
    /\ checkpoint = NoResults
    /\ torn = FALSE
    /\ results = NoResults
    /\ inDegree = [n \in Nodes |-> 0]
    /\ ready = [n \in Nodes |-> 0]
    /\ remaining = 0
    /\ worker = [w \in Workers |-> Idle]
    /\ faults = 0

-----------------------------------------------------------------------------
Done(r) == {n \in Nodes : r[n] # None}

Holds(w, n) == worker[w].pc \in {"dispatch", "report", "merge"} /\ worker[w].node = n

\* in_degree after the cached nodes have been taken off.
InDegreeOf(d, cached) ==
    [n \in Nodes |-> IF n \in DOMAIN d THEN Cardinality(d[n] \ cached) ELSE 0]

Queued(d, cached) ==
    [n \in Nodes |-> IF n \in DOMAIN d \ cached /\ d[n] \subseteq cached THEN 1 ELSE 0]

\* Mutant of Start: the dependents of cached nodes keep their full in_degree.
StartCountsCached(d) ==
    LET cached == Done(checkpoint) \cap DOMAIN d IN
    /\ run # "running"
    /\ d = doc \/ "edit" \in Faults
    /\ run' = "running"
    /\ doc' = d
    /\ results' = [n \in Nodes |-> IF n \in cached THEN checkpoint[n] ELSE None]
    /\ inDegree' = InDegreeOf(d, {})
    /\ ready' = [n \in Nodes |-> IF n \in DOMAIN d \ cached /\ d[n] = {} THEN 1 ELSE 0]
    /\ remaining' = Cardinality(DOMAIN d \ cached)
    /\ worker' = [w \in Workers |-> Idle]
    /\ UNCHANGED <<checkpoint, torn, faults>>

\* Mutant of Start: cached nodes are queued like the others.
StartQueuesCached(d) ==
    LET cached == Done(checkpoint) \cap DOMAIN d IN
    /\ run # "running"
    /\ d = doc \/ "edit" \in Faults
    /\ run' = "running"
    /\ doc' = d
    /\ results' = [n \in Nodes |-> IF n \in cached THEN checkpoint[n] ELSE None]
    /\ inDegree' = InDegreeOf(d, cached)
    /\ ready' = [n \in Nodes |-> IF n \in DOMAIN d /\ d[n] \subseteq cached THEN 1 ELSE 0]
    /\ remaining' = Cardinality(DOMAIN d \ cached)
    /\ worker' = [w \in Workers |-> Idle]
    /\ UNCHANGED <<checkpoint, torn, faults>>

\* run_dag up to the start of its threads: a first run, or the resume of one that
\* crashed or returned; the file may have been edited in between.
Start(d) ==
    LET cached == Done(checkpoint) \cap DOMAIN d IN
    /\ run # "running"
    /\ d = doc \/ "edit" \in Faults
    /\ run' = "running"
    /\ doc' = d
    /\ results' = [n \in Nodes |-> IF n \in cached THEN checkpoint[n] ELSE None]
    /\ inDegree' = InDegreeOf(d, cached)
    /\ ready' = Queued(d, cached)
    /\ remaining' = Cardinality(DOMAIN d \ cached)
    /\ worker' = [w \in Workers |-> Idle]
    /\ UNCHANGED <<checkpoint, torn, faults>>

\* ready.get
Take(w, n) ==
    /\ run = "running"
    /\ worker[w].pc = "idle"
    /\ ready[n] > 0
    /\ ready' = [ready EXCEPT ![n] = @ - 1]
    /\ worker' = [worker EXCEPT ![w] = [pc |-> "dispatch", node |-> n, outcome |-> None]]
    /\ UNCHANGED <<doc, run, checkpoint, torn, results, inDegree, remaining, faults>>

\* ready.get times out.
PollEmpty(w) ==
    /\ run = "running"
    /\ worker[w].pc = "idle"
    /\ \A n \in Nodes : ready[n] = 0
    /\ worker' = [worker EXCEPT ![w] = [Idle EXCEPT !.pc = "empty"]]
    /\ UNCHANGED <<doc, run, checkpoint, torn, results, inDegree, ready, remaining, faults>>

\* Under the lock: leave if every node is done, else poll again.
PollDecide(w) ==
    /\ run = "running"
    /\ worker[w].pc = "empty"
    /\ worker' = [worker EXCEPT ![w] = [Idle EXCEPT !.pc = IF remaining <= 0 THEN "exited" ELSE "idle"]]
    /\ UNCHANGED <<doc, run, checkpoint, torn, results, inDegree, ready, remaining, faults>>

\* dispatch_node returns or raises, and the lens gate may block its result.
Finish(w, o) ==
    /\ run = "running"
    /\ worker[w].pc = "dispatch"
    /\ worker' = [worker EXCEPT ![w] = [@ EXCEPT !.pc = "report", !.outcome = o]]
    /\ UNCHANGED <<doc, run, checkpoint, torn, results, inDegree, ready, remaining, faults>>

\* Mutant of JournalWith: only results that are ok are journaled.
JournalOk(n, o) ==
    /\ checkpoint' = IF torn \/ o # "ok" THEN checkpoint ELSE [checkpoint EXCEPT ![n] = o]
    /\ torn' = FALSE

\* A line after a partial one is glued to it and cannot be read back.
JournalWith(n, o) ==
    /\ checkpoint' = IF torn THEN checkpoint ELSE [checkpoint EXCEPT ![n] = o]
    /\ torn' = FALSE

\* telemetry_sink, then append_node_checkpoint, flushed and fsynced.
Report(w) ==
    /\ run = "running"
    /\ worker[w].pc = "report"
    /\ JournalWith(worker[w].node, worker[w].outcome)
    /\ worker' = [worker EXCEPT ![w].pc = "merge"]
    /\ UNCHANGED <<doc, run, results, inDegree, ready, remaining, faults>>

\* Mutant of Merge: a failed node's dependents are counted as done and never queued.
MergeCascades(w) ==
    LET n == worker[w].node
        next == {m \in DOMAIN doc : n \in doc[m]}
        failed == worker[w].outcome = "failed" IN
    /\ run = "running"
    /\ worker[w].pc = "merge"
    /\ results' = [results EXCEPT ![n] = worker[w].outcome]
    /\ inDegree' = [m \in Nodes |-> IF m \in next THEN inDegree[m] - 1 ELSE inDegree[m]]
    /\ ready' = [m \in Nodes |-> IF m \in next /\ inDegree[m] = 1 /\ ~failed THEN ready[m] + 1 ELSE ready[m]]
    /\ remaining' = remaining - 1 - (IF failed THEN Cardinality(next) ELSE 0)
    /\ worker' = [worker EXCEPT ![w] = Idle]
    /\ UNCHANGED <<doc, run, checkpoint, torn, faults>>

\* Mutant of Merge: a dependent is queued as soon as one of its nodes is done.
MergeQueuesEarly(w) ==
    LET n == worker[w].node
        next == {m \in DOMAIN doc : n \in doc[m]} IN
    /\ run = "running"
    /\ worker[w].pc = "merge"
    /\ results' = [results EXCEPT ![n] = worker[w].outcome]
    /\ inDegree' = [m \in Nodes |-> IF m \in next THEN inDegree[m] - 1 ELSE inDegree[m]]
    /\ ready' = [m \in Nodes |-> IF m \in next THEN ready[m] + 1 ELSE ready[m]]
    /\ remaining' = remaining - 1
    /\ worker' = [worker EXCEPT ![w] = Idle]
    /\ UNCHANGED <<doc, run, checkpoint, torn, faults>>

\* Under the lock: merge the result and queue the dependents it was the last to hold up.
Merge(w) ==
    LET n == worker[w].node
        next == {m \in DOMAIN doc : n \in doc[m]} IN
    /\ run = "running"
    /\ worker[w].pc = "merge"
    /\ results' = [results EXCEPT ![n] = worker[w].outcome]
    /\ inDegree' = [m \in Nodes |-> IF m \in next THEN inDegree[m] - 1 ELSE inDegree[m]]
    /\ ready' = [m \in Nodes |-> IF m \in next /\ inDegree[m] = 1 THEN ready[m] + 1 ELSE ready[m]]
    /\ remaining' = remaining - 1
    /\ worker' = [worker EXCEPT ![w] = Idle]
    /\ UNCHANGED <<doc, run, checkpoint, torn, faults>>

\* The threads are joined and run_dag returns.
Return ==
    /\ run = "running"
    /\ \A w \in Workers : worker[w].pc \in {"exited", "dead"}
    /\ run' = "returned"
    /\ UNCHANGED <<doc, checkpoint, torn, memory, faults>>

-----------------------------------------------------------------------------
Fault(kind) ==
    /\ run = "running"
    /\ kind \in Faults
    /\ faults < MaxFaults
    /\ faults' = faults + 1

Die(w) ==
    /\ worker[w].pc = "report"
    /\ worker' = [worker EXCEPT ![w] = [Idle EXCEPT !.pc = "dead"]]

\* telemetry_sink raises, outside the try: the thread ends with its node uncounted.
SinkRaises(w) ==
    /\ Fault("sink")
    /\ Die(w)
    /\ UNCHANGED <<doc, run, checkpoint, torn, results, inDegree, ready, remaining>>

\* append_node_checkpoint raises (a full disk), with nothing or a part of the line written.
AppendRaises(w) ==
    /\ Fault("append")
    /\ Die(w)
    /\ torn' \in {torn} \cup (IF "torn" \in Faults THEN {TRUE} ELSE {})
    /\ UNCHANGED <<doc, run, checkpoint, results, inDegree, ready, remaining>>

\* The process dies; only the journal is left, cut short if a line was being written.
Crash ==
    /\ Fault("crash")
    /\ run' = "down"
    /\ \/ torn' = torn
       \/ /\ "torn" \in Faults
          /\ \E w \in Workers : worker[w].pc = "report"
          /\ torn' = TRUE
    /\ results' = NoResults
    /\ inDegree' = [n \in Nodes |-> 0]
    /\ ready' = [n \in Nodes |-> 0]
    /\ remaining' = 0
    /\ worker' = [w \in Workers |-> Idle]
    /\ UNCHANGED <<doc, checkpoint>>

-----------------------------------------------------------------------------
\* A step of thread w, exceptions aside.
Work(w) ==
    \/ \E n \in Nodes : Take(w, n)
    \/ PollEmpty(w)
    \/ PollDecide(w)
    \/ \E o \in Outcomes : Finish(w, o)
    \/ Report(w)
    \/ Merge(w)

Next ==
    \/ \E d \in Docs : Start(d)
    \/ \E w \in Workers : Work(w) \/ SinkRaises(w) \/ AppendRaises(w)
    \/ Return
    \/ Crash

Spec == Init /\ [][Next]_vars

\* Threads are scheduled, a dispatch ends (its subprocess has a timeout) and join returns.
\* Nothing makes anyone resume a run that crashed.
FairSpec == Spec /\ \A w \in Workers : WF_vars(Work(w)) /\ WF_vars(Return)

-----------------------------------------------------------------------------
\* Every node done before a crash stays done, with its result: what is merged in
\* memory is already in the journal.
ResultsDurable == \A n \in Done(results) : checkpoint[n] = results[n]

\* A node that has a result, from this process or from the journal, is never
\* dispatched again, and no two threads dispatch the same node.
NeverRedispatched ==
    \A w \in Workers, n \in Nodes :
        Holds(w, n) =>
            /\ results[n] = None
            /\ \A v \in Workers \ {w} : ~Holds(v, n)

\* A node is dispatched after all its depends_on have their results, whichever
\* process got them.
DispatchedAfterDeps ==
    \A w \in Workers, n \in Nodes :
        Holds(w, n) => \A m \in doc[n] : results[m] # None

\* Through crashes and resumes, the journal is one execution of the DAG.
Execution == INSTANCE DagExecution WITH done <- checkpoint
ExecutesDag == Execution!Spec

Undisturbed == \A w \in Workers : worker[w].pc # "dead"

\* If none of its threads died, run_dag returns with a result for every node.
ReturnedComplete == run = "returned" /\ Undisturbed => Done(results) = DOMAIN doc

\* run_dag returns, unless its process crashes or one of its threads dies: no node is
\* left uncounted, so that the threads do not poll an empty queue for ever.
RunFinishes == run = "running" ~> run # "running" \/ ~Undisturbed
=============================================================================
