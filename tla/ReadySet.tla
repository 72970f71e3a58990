------------------------------- MODULE ReadySet -------------------------------
(***************************************************************************)
(* The ready set of one run of a DAG: the daemon's queue                   *)
(* (broker.daemon.ready_set) and the client's mirror of it                 *)
(* (broker.conductor.ready_set_client).  A call may be refused, answered,  *)
(* or carried out with its answer lost; after the first failure the client *)
(* never asks the daemon again and goes on alone.  The conductor calls the *)
(* client from one thread; a node is complete some time after pull         *)
(* returned it.                                                            *)
(*                                                                         *)
(* _dispatched and _completed of the daemon and the two counters of the    *)
(* client are only reported, and left out.                                 *)
(***************************************************************************)
EXTENDS Integers, FiniteSets, SequencesExt

CONSTANTS
    NodeOrder,  \* the node ids in the order of the DAG file
    Plans,      \* the DAGs: a plan maps a node to its depends_on
    NoNode

NodeIds == {NodeOrder[i] : i \in DOMAIN NodeOrder}

ASSUME ReadySetConstants ==
    /\ NodeOrder \in Seq(NodeIds)
    /\ IsInjective(NodeOrder)
    /\ Plans \subseteq [NodeIds -> SUBSET NodeIds]
    /\ \A p \in Plans, S \in SUBSET NodeIds :
           S # {} => \E n \in S : p[n] \cap S = {}
    /\ NoNode \notin NodeIds

VARIABLES
    plan,
    daemonSet,  \* the daemon's ReadySetStore of this run: a set of at most one
    mirror,     \* _local_ready and _local_in_degree
    reachable,  \* daemon_available
    handed,     \* what pull has returned, in order
    finished    \* the nodes given to mark_complete

readyVars == <<plan, daemonSet, mirror, reachable, handed, finished>>

ReadyQueues == [ready : Seq(NodeIds), degree : [NodeIds -> Int]]

ReadyTypeOK ==
    /\ plan \in Plans
    /\ daemonSet \subseteq ReadyQueues
    /\ mirror \in ReadyQueues
    /\ reachable \in BOOLEAN
    /\ handed \in Seq(NodeIds)
    /\ finished \subseteq NodeIds

\* The nodes of S, in the order of the DAG file: a loop that appends.
InOrder(S) ==
    FoldLeft(LAMBDA q, n : IF n \in S THEN Append(q, n) ELSE q, <<>>, NodeOrder)

\* The constructors of the store and of the mirror.
FreshQueue(p) ==
    [ready |-> InOrder({n \in NodeIds : p[n] = {}}),
     degree |-> [n \in NodeIds |-> Cardinality(p[n])]]

\* ReadySetClient.__init__: with no daemon, one that does not answer, or one
\* that registers the run.
ReadyInit ==
    /\ plan \in Plans
    /\ mirror = FreshQueue(plan)
    /\ daemonSet \in {{}, {FreshQueue(plan)}}
    /\ reachable \in {FALSE, daemonSet # {}}
    /\ handed = <<>>
    /\ finished = {}

-----------------------------------------------------------------------------
AtHead(q) == IF q.ready = <<>> THEN NoNode ELSE Head(q.ready)

Popped(q) == IF q.ready = <<>> THEN q ELSE [q EXCEPT !.ready = Tail(@)]

\* Mutant of Freed: the first dependency that completes frees a node.
FreedByFirst(q, n) ==
    [ready |-> q.ready \o InOrder({m \in NodeIds : n \in plan[m]}),
     degree |-> q.degree]

\* mark_complete on either side: dependents in the order of the DAG file.
Freed(q, n) ==
    [ready |-> q.ready \o InOrder({m \in NodeIds : n \in plan[m] /\ q.degree[m] = 1}),
     degree |-> [m \in NodeIds |->
                     IF n \in plan[m] THEN q.degree[m] - 1 ELSE q.degree[m]]]

\* Mutant of Served: what the daemon serves stays in the mirror.
ServedLingers(n) == mirror

\* The mirror after the daemon has served n.
Served(n) ==
    IF n = NoNode THEN mirror ELSE [mirror EXCEPT !.ready = RemoveFirst(@, n)]

Hand(n) == handed' = IF n = NoNode THEN handed ELSE Append(handed, n)

\* pull answered by the daemon.
PullFast ==
    /\ reachable
    /\ \E q \in daemonSet :
           /\ Hand(AtHead(q))
           /\ mirror' = Served(AtHead(q))
           /\ daemonSet' = {Popped(q)}
    /\ UNCHANGED <<plan, reachable, finished>>

\* Mutant of PullLocal: pop() instead of pop(0).
PullLocalLast ==
    /\ mirror.ready # <<>>
    /\ Hand(Last(mirror.ready))
    /\ mirror' = [mirror EXCEPT !.ready = SubSeq(@, 1, Len(@) - 1)]
    /\ UNCHANGED <<plan, finished>>

PullLocal ==
    /\ Hand(AtHead(mirror))
    /\ mirror' = Popped(mirror)
    /\ UNCHANGED <<plan, finished>>

PullAlone == ~reachable /\ PullLocal /\ UNCHANGED <<daemonSet, reachable>>

\* pull whose call fails: the daemon has no such run or does not answer, or it
\* has served a node that the client does not hear of.
PullFallsBack ==
    /\ reachable
    /\ reachable' = FALSE
    /\ daemonSet' \in {daemonSet, {Popped(q) : q \in daemonSet}}
    /\ PullLocal

\* Mutant of CompleteLocal: the mirror is left alone while the daemon answers.
CompleteUnmirrored(n) ==
    /\ n \in ToSet(handed) \ finished
    /\ finished' = finished \cup {n}
    /\ mirror' = IF reachable THEN mirror ELSE Freed(mirror, n)
    /\ UNCHANGED <<plan, handed>>

\* mark_complete: the mirror first, and the daemon if it is reachable.
CompleteLocal(n) ==
    /\ n \in ToSet(handed) \ finished
    /\ finished' = finished \cup {n}
    /\ mirror' = Freed(mirror, n)
    /\ UNCHANGED <<plan, handed>>

CompleteFast(n) ==
    /\ reachable
    /\ daemonSet # {}
    /\ daemonSet' = {Freed(q, n) : q \in daemonSet}
    /\ CompleteLocal(n)
    /\ UNCHANGED reachable

CompleteAlone(n) == ~reachable /\ CompleteLocal(n) /\ UNCHANGED <<daemonSet, reachable>>

CompleteFallsBack(n) ==
    /\ reachable
    /\ reachable' = FALSE
    /\ daemonSet' \in {daemonSet, {Freed(q, n) : q \in daemonSet}}
    /\ CompleteLocal(n)

\* invalidate: answered, or not.
Invalidate ==
    /\ reachable
    /\ \/ daemonSet' = {} /\ UNCHANGED reachable
       \/ daemonSet' \in {daemonSet, {}} /\ reachable' = FALSE
    /\ UNCHANGED <<plan, mirror, handed, finished>>

\* The registry lives in memory only.
DaemonRestarts ==
    /\ daemonSet # {}
    /\ daemonSet' = {}
    /\ UNCHANGED <<plan, mirror, reachable, handed, finished>>

Pull == PullFast \/ PullAlone \/ PullFallsBack
Complete(n) == CompleteFast(n) \/ CompleteAlone(n) \/ CompleteFallsBack(n)

ReadyNext ==
    \/ PullFast \/ PullAlone \/ PullFallsBack
    \/ \E n \in NodeIds : CompleteFast(n) \/ CompleteAlone(n) \/ CompleteFallsBack(n)
    \/ Invalidate
    \/ DaemonRestarts

ReadySpec == ReadyInit /\ [][ReadyNext]_readyVars

-----------------------------------------------------------------------------
\* ready_set_client.py: a fallback never changes the sequence of decisions
\* the conductor would have made anyway.  However calls fail, and whatever the
\* daemon did before its answer was lost, every node served is the one that
\* the mirror alone, with no daemon, would serve next, and was never served
\* before.
SameSequence ==
    [][handed' # handed =>
          /\ handed' = Append(handed, AtHead(mirror))
          /\ IsInjective(handed')]_readyVars

\* Served and completed by daemon and mirror together, the run is an
\* execution of its DAG: no node completes before those it depends on.
Promised ==
    INSTANCE DagExecution WITH
        Nodes <- NodeIds, Docs <- Plans, Outcomes <- {1}, None <- 0,
        doc <- plan, done <- [n \in NodeIds |-> IF n \in finished THEN 1 ELSE 0]
ExecutesPlan == Promised!Spec

\* A run that has begun never stalls: if the conductor keeps pulling, and what
\* it pulled completes, every node completes, with the daemon, without it,
\* or after it is lost at any call.
PlanFinishes == (handed # <<>>) ~> (finished = NodeIds)
=============================================================================
