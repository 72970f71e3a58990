------------------------------ MODULE CycleCheck ------------------------------
(***************************************************************************)
(* _check_cycles of broker.node_contract, one of the checks of             *)
(* validate_dag: Kahn's algorithm, one action for each node it takes off   *)
(* its queue.  The order in which it takes them is left open.  A           *)
(* depends_on may name nodes that do not exist: this check skips them.     *)
(* The other checks of validate_dag are left out; they refuse, besides,    *)
(* dangling and asymmetric edges, orphan leaves and collisions of outputs. *)
(***************************************************************************)
EXTENDS Integers, FiniteSets

CONSTANTS
    ContractNodes,  \* the node ids a document may have
    Documents       \* a document maps its nodes to their depends_on

ASSUME ContractConstants ==
    /\ IsFiniteSet(ContractNodes)
    /\ \A d \in Documents : DOMAIN d \subseteq ContractNodes

VARIABLES
    document,
    unseen,     \* in_degree
    queue,
    visited,    \* how many nodes were taken off the queue
    taken,      \* which ones (history)
    verdict     \* "running", "accepted" (None), or "cycle" with the nodes it names

contractVars == <<document, unseen, queue, visited, taken, verdict>>

\* The edges that count: the others are dangling, and another check reports them.
Deps(n) == document[n] \cap DOMAIN document

ContractTypeOK ==
    /\ document \in Documents
    /\ unseen \in [DOMAIN document -> Int]
    /\ queue \subseteq DOMAIN document
    /\ visited \in Nat
    /\ taken \subseteq DOMAIN document
    /\ verdict \in {"running", "accepted", "cycle"}

ContractInit ==
    /\ document \in Documents
    /\ unseen = [n \in DOMAIN document |-> Cardinality(Deps(n))]
    /\ queue = {n \in DOMAIN document : unseen[n] = 0}
    /\ visited = 0
    /\ taken = {}
    /\ verdict = "running"

-----------------------------------------------------------------------------
\* Mutant of Visit: a dependent is queued by the first node it depends on.
VisitEager(current) ==
    /\ current \in queue
    /\ unseen' = [n \in DOMAIN document |->
                      IF current \in Deps(n) THEN unseen[n] - 1 ELSE unseen[n]]
    /\ queue' = (queue \ {current}) \cup
                    {n \in DOMAIN document : current \in Deps(n) /\ unseen'[n] <= 1}
    /\ visited' = visited + 1
    /\ taken' = taken \cup {current}
    /\ UNCHANGED <<document, verdict>>

Visit(current) ==
    /\ current \in queue
    /\ unseen' = [n \in DOMAIN document |->
                      IF current \in Deps(n) THEN unseen[n] - 1 ELSE unseen[n]]
    /\ queue' = (queue \ {current}) \cup
                    {n \in DOMAIN document : current \in Deps(n) /\ unseen'[n] = 0}
    /\ visited' = visited + 1
    /\ taken' = taken \cup {current}
    /\ UNCHANGED <<document, verdict>>

Conclude ==
    /\ queue = {}
    /\ verdict = "running"
    /\ verdict' = IF visited = Cardinality(DOMAIN document) THEN "accepted" ELSE "cycle"
    /\ UNCHANGED <<document, unseen, queue, visited, taken>>

ContractNext == (\E n \in DOMAIN document : Visit(n)) \/ Conclude

ContractSpec == ContractInit /\ [][ContractNext]_contractVars

-----------------------------------------------------------------------------
\* A set of nodes each of which depends on one of the set: no order of
\* execution exists for them.
Deadlocked(S) == S # {} /\ \A n \in S : Deps(n) \cap S # {}

\* The nodes that the error names.
Residual == {n \in DOMAIN document : unseen[n] > 0}

\* _check_cycles returns an error exactly when no order of execution exists for
\* some of the nodes, edges to nodes that do not exist aside: a document that
\* passes has no cycle on which a conductor would wait for ever, and this check
\* refuses none without a cycle.  (validate_dag may, for other reasons.)
AcceptedIffRunnable ==
    verdict # "running" =>
        (verdict = "accepted" <=> \A S \in SUBSET DOMAIN document : ~Deadlocked(S))

\* The error names the nodes that can never run: those on a cycle, and those
\* behind one, which are on none.
NamesTheStuck ==
    verdict = "cycle" =>
        Residual = UNION {S \in SUBSET DOMAIN document : Deadlocked(S)}

\* The answer that _check_cycles gives is exact.
VerdictExact == AcceptedIffRunnable /\ NamesTheStuck
=============================================================================
