------------------------- MODULE DagConductor_proofs -------------------------
(***************************************************************************)
(* Theorems about DagConductor, for any set of nodes, any valid DAGs, any  *)
(* number of threads and any number of crashes and resumes:                *)
(*   - type correctness, whatever fails;                                   *)
(*   - when no journal line is torn and the DAG is not edited, a result is *)
(*     in the journal before it is merged, no node is dispatched twice or  *)
(*     before its dependencies, and the journal is an execution of the DAG;*)
(*   - whatever fails, a run that returns and lost no thread is complete.  *)
(***************************************************************************)
EXTENDS DagConductor, FiniteSetTheorems, TLAPS

\* validate_dag leaves edges between the nodes of the DAG, all of them finite.
LEMMA DagFacts ==
    ASSUME NEW g \in Docs
    PROVE  /\ DOMAIN g \subseteq Nodes
           /\ \A n \in DOMAIN g : g[n] \subseteq DOMAIN g
           /\ \A S \in SUBSET Nodes : IsFiniteSet(S) /\ Cardinality(S) \in Nat
<1>1. IsDag(g)
  BY DagConstants
<1>2. \A S \in SUBSET Nodes : IsFiniteSet(S)
  BY DagConstants, FS_Subset
<1>3. \A S \in SUBSET Nodes : Cardinality(S) \in Nat
  BY <1>2, FS_CardinalityType
<1> QED
  BY <1>1, <1>2, <1>3 DEF IsDag

\* What cached nodes take off in_degree is a number of edges.
LEMMA InDegreeType ==
    ASSUME NEW g \in Docs, NEW cached
    PROVE  /\ InDegreeOf(g, cached) \in [Nodes -> Int]
           /\ Queued(g, cached) \in [Nodes -> Nat]
           /\ Cardinality(DOMAIN g \ cached) \in Int
<1>1. \A n \in DOMAIN g : g[n] \ cached \in SUBSET Nodes
  BY DagFacts
<1>2. DOMAIN g \ cached \in SUBSET Nodes
  BY DagFacts
<1>3. \A S \in SUBSET Nodes : Cardinality(S) \in Int
  BY DagFacts
<1> QED
  BY <1>1, <1>2, <1>3 DEF InDegreeOf, Queued

\* The state of a thread says whether it holds a node, and with what outcome.
LEMMA ThreadFacts ==
    ASSUME TypeOK, NEW w \in Workers
    PROVE  /\ worker[w].pc = "dispatch" => worker[w] \in AtNode
           /\ worker[w].pc \in {"report", "merge"} => worker[w] \in AtOutcome
           /\ worker[w].pc \in {"dispatch", "report", "merge"} => worker[w].node \in Nodes
BY DEF TypeOK, AtPoll, AtNode, AtOutcome

LEMMA ThreadStates ==
    /\ Idle \in AtPoll
    /\ [Idle EXCEPT !.pc = "empty"] \in AtPoll
    /\ [Idle EXCEPT !.pc = "exited"] \in AtPoll
    /\ [Idle EXCEPT !.pc = "dead"] \in AtPoll
    /\ \A n \in Nodes : [pc |-> "dispatch", node |-> n, outcome |-> None] \in AtNode
    /\ \A s \in AtNode, o \in Outcomes : [s EXCEPT !.pc = "report", !.outcome = o] \in AtOutcome
    /\ \A s \in AtOutcome : [s EXCEPT !.pc = "merge"] \in AtOutcome
<1>1. Idle \in AtPoll
  BY DEF Idle, AtPoll
<1>2. \A p \in {"empty", "exited", "dead"} : [Idle EXCEPT !.pc = p] \in AtPoll
  BY DEF Idle, AtPoll
<1>3. \A n \in Nodes : [pc |-> "dispatch", node |-> n, outcome |-> None] \in AtNode
  BY DEF AtNode
<1>4. ASSUME NEW s \in AtNode, NEW o \in Outcomes
      PROVE  [s EXCEPT !.pc = "report", !.outcome = o] \in AtOutcome
  BY DEF AtNode, AtOutcome
<1>5. ASSUME NEW s \in AtOutcome
      PROVE  [s EXCEPT !.pc = "merge"] \in AtOutcome
  BY DEF AtOutcome
<1> QED
  BY <1>1, <1>2, <1>3, <1>4, <1>5

LEMMA InitTypeOK == Init => TypeOK
<1> SUFFICES ASSUME Init PROVE TypeOK
  OBVIOUS
<1>1. worker \in [Workers -> AtPoll \cup AtNode \cup AtOutcome]
  BY ThreadStates DEF Init
<1>2. checkpoint \in Results /\ results \in Results
  BY DEF Init, Results, NoResults
<1>3. faults \in 0..MaxFaults
  BY DagConstants DEF Init
<1>4. inDegree \in [Nodes -> Int] /\ ready \in [Nodes -> Nat] /\ remaining \in Int
  BY DEF Init
<1>5. doc \in Docs /\ run \in {"down", "running", "returned"} /\ torn \in BOOLEAN
  BY DEF Init
<1> QED
  BY <1>1, <1>2, <1>3, <1>4, <1>5 DEF TypeOK

LEMMA NextTypeOK == TypeOK /\ [Next]_vars => TypeOK'
<1> SUFFICES ASSUME TypeOK, [Next]_vars PROVE TypeOK'
  OBVIOUS
<1>1. CASE UNCHANGED vars
  BY <1>1 DEF vars, TypeOK
<1>2. ASSUME NEW g \in Docs, Start(g) PROVE TypeOK'
  <2>1. results' \in Results
    BY <1>2 DEF Start, TypeOK, Results
  <2>2. inDegree' \in [Nodes -> Int] /\ ready' \in [Nodes -> Nat] /\ remaining' \in Int
    BY <1>2, InDegreeType DEF Start
  <2>3. worker' \in [Workers -> AtPoll \cup AtNode \cup AtOutcome]
    BY <1>2, ThreadStates DEF Start
  <2> QED
    BY <1>2, <2>1, <2>2, <2>3 DEF Start, TypeOK
<1>3. ASSUME NEW w \in Workers, NEW n \in Nodes, Take(w, n) PROVE TypeOK'
  <2>1. ready' \in [Nodes -> Nat]
    BY <1>3 DEF Take, TypeOK
  <2>2. worker' \in [Workers -> AtPoll \cup AtNode \cup AtOutcome]
    BY <1>3, ThreadStates DEF Take, TypeOK
  <2> QED
    BY <1>3, <2>1, <2>2 DEF Take, TypeOK
<1>4. ASSUME NEW w \in Workers, PollEmpty(w) PROVE TypeOK'
  BY <1>4, ThreadStates DEF PollEmpty, TypeOK
<1>5. ASSUME NEW w \in Workers, PollDecide(w) PROVE TypeOK'
  <2>1. [Idle EXCEPT !.pc = IF remaining <= 0 THEN "exited" ELSE "idle"] \in AtPoll
    BY DEF Idle, AtPoll
  <2> QED
    BY <1>5, <2>1 DEF PollDecide, TypeOK
<1>6. ASSUME NEW w \in Workers, NEW o \in Outcomes, Finish(w, o) PROVE TypeOK'
  <2>1. [worker[w] EXCEPT !.pc = "report", !.outcome = o] \in AtOutcome
    BY <1>6, ThreadFacts, ThreadStates DEF Finish
  <2> QED
    BY <1>6, <2>1 DEF Finish, TypeOK
<1>7. ASSUME NEW w \in Workers, Report(w) PROVE TypeOK'
  <2>1. worker[w] \in AtOutcome
    BY <1>7, ThreadFacts DEF Report
  <2>2. [worker[w] EXCEPT !.pc = "merge"] \in AtOutcome
    BY <2>1, ThreadStates
  <2>3. worker' \in [Workers -> AtPoll \cup AtNode \cup AtOutcome]
    BY <1>7, <2>2 DEF Report, TypeOK
  <2>4. checkpoint' \in Results /\ torn' \in BOOLEAN
    BY <1>7, <2>1 DEF Report, JournalWith, TypeOK, Results, AtOutcome
  <2> QED
    BY <1>7, <2>3, <2>4 DEF Report, TypeOK
<1>8. ASSUME NEW w \in Workers, Merge(w) PROVE TypeOK'
  <2>1. worker[w] \in AtOutcome
    BY <1>8, ThreadFacts DEF Merge
  <2>2. results' \in Results
    BY <1>8, <2>1 DEF Merge, TypeOK, Results, AtOutcome
  <2>3. inDegree' \in [Nodes -> Int] /\ ready' \in [Nodes -> Nat] /\ remaining' \in Int
    BY <1>8 DEF Merge, TypeOK
  <2>4. worker' \in [Workers -> AtPoll \cup AtNode \cup AtOutcome]
    BY <1>8, ThreadStates DEF Merge, TypeOK
  <2> QED
    BY <1>8, <2>2, <2>3, <2>4 DEF Merge, TypeOK
<1>9. CASE Return
  BY <1>9 DEF Return, memory, TypeOK
<1>10. ASSUME NEW w \in Workers, SinkRaises(w) PROVE TypeOK'
  <2>1. worker' \in [Workers -> AtPoll \cup AtNode \cup AtOutcome]
    BY <1>10, ThreadStates DEF SinkRaises, Die, TypeOK
  <2>2. faults' \in 0..MaxFaults
    BY <1>10, DagConstants DEF SinkRaises, Fault, TypeOK
  <2> QED
    BY <1>10, <2>1, <2>2 DEF SinkRaises, TypeOK
<1>11. ASSUME NEW w \in Workers, AppendRaises(w) PROVE TypeOK'
  <2>1. worker' \in [Workers -> AtPoll \cup AtNode \cup AtOutcome]
    BY <1>11, ThreadStates DEF AppendRaises, Die, TypeOK
  <2>2. faults' \in 0..MaxFaults
    BY <1>11, DagConstants DEF AppendRaises, Fault, TypeOK
  <2>3. torn' \in BOOLEAN
    BY <1>11 DEF AppendRaises, TypeOK
  <2> QED
    BY <1>11, <2>1, <2>2, <2>3 DEF AppendRaises, TypeOK
<1>12. CASE Crash
  <2>1. worker' \in [Workers -> AtPoll \cup AtNode \cup AtOutcome]
    BY <1>12, ThreadStates DEF Crash
  <2>2. faults' \in 0..MaxFaults
    BY <1>12, DagConstants DEF Crash, Fault, TypeOK
  <2>3. results' \in Results
    BY <1>12 DEF Crash, Results, NoResults
  <2>4. torn' \in BOOLEAN
    BY <1>12 DEF Crash, TypeOK
  <2> QED
    BY <1>12, <2>1, <2>2, <2>3, <2>4 DEF Crash, TypeOK
<1> QED
  BY <1>1, <1>2, <1>3, <1>4, <1>5, <1>6, <1>7, <1>8, <1>9, <1>10, <1>11, <1>12
  DEF Next, Work

\* Every reachable state is well-formed, whatever crashes, raises or tears a line.
THEOREM TypeCorrect == Spec => []TypeOK
BY InitTypeOK, NextTypeOK, PTL DEF Spec

-----------------------------------------------------------------------------
\* The inductive invariant.  ResultsDurable, NeverRedispatched and
\* DispatchedAfterDeps are not inductive: that a node is queued or held only while
\* it has no result rests on in_degree counting its missing dependencies exactly.

\* A node that may be dispatched: it has no result, all its dependencies have.
Eligible(n) ==
    /\ n \in DOMAIN doc
    /\ results[n] = None
    /\ doc[n] \subseteq Done(results)

\* Results are closed under dependencies, in memory and in the journal.
Closed ==
    /\ Done(checkpoint) \subseteq DOMAIN doc
    /\ \A n \in Done(results) : n \in DOMAIN doc /\ doc[n] \subseteq Done(results)
    /\ \A n \in Done(checkpoint) : doc[n] \subseteq Done(checkpoint)

\* A journaled result is merged, or about to be.
Pending ==
    run # "down" =>
        \A n \in Done(checkpoint) :
            results[n] # None \/ \E w \in Workers : worker[w].pc = "merge" /\ worker[w].node = n

Counted ==
    run # "down" =>
        \A n \in DOMAIN doc : inDegree[n] = Cardinality(doc[n] \ Done(results))

QueueOK ==
    \A n \in Nodes :
        /\ ready[n] \in {0, 1}
        /\ ready[n] = 1 =>
              /\ Eligible(n)
              /\ checkpoint[n] = None
              /\ \A w \in Workers : ~Holds(w, n)

HeldOK ==
    \A w \in Workers, n \in Nodes :
        Holds(w, n) =>
            /\ Eligible(n)
            /\ IF worker[w].pc = "merge" THEN checkpoint[n] = worker[w].outcome ELSE checkpoint[n] = None
            /\ \A v \in Workers \ {w} : ~Holds(v, n)

ConductorInv ==
    /\ TypeOK
    /\ torn = FALSE
    /\ ResultsDurable
    /\ Closed
    /\ Pending
    /\ Counted
    /\ QueueOK
    /\ HeldOK

LEMMA InitInv == Init => ConductorInv
<1> SUFFICES ASSUME Init PROVE ConductorInv
  OBVIOUS
<1>1. TypeOK
  BY InitTypeOK
<1>2. Done(checkpoint) = {} /\ Done(results) = {}
  BY DEF Init, Done, NoResults
<1>3. \A w \in Workers, n \in Nodes : ~Holds(w, n)
  BY DEF Init, Holds, Idle
<1>4. ResultsDurable /\ Closed /\ Pending /\ Counted
  BY <1>2 DEF Init, ResultsDurable, Closed, Pending, Counted
<1>5. QueueOK /\ HeldOK
  BY <1>3 DEF Init, QueueOK, HeldOK
<1> QED
  BY <1>1, <1>4, <1>5 DEF Init, ConductorInv

\* A resume rebuilds results from the journal, in_degree from what is missing, and
\* queues what can be dispatched.
LEMMA StartInv ==
    ASSUME ConductorInv, TypeOK', "edit" \notin Faults, NEW g \in Docs, Start(g)
    PROVE  ConductorInv'
<1> DEFINE cached == Done(checkpoint) \cap DOMAIN g
<1>1. g = doc /\ doc' = doc /\ checkpoint' = checkpoint /\ torn' = torn
  BY DEF Start
<1>2. cached = Done(checkpoint) /\ cached \subseteq Nodes
  BY <1>1, DagFacts DEF ConductorInv, Closed
<1>3. results' = checkpoint
  BY <1>2 DEF Start, Done, ConductorInv, TypeOK, Results
<1>4. Done(results)' = cached /\ Done(checkpoint)' = cached
  BY <1>1, <1>2, <1>3 DEF Done
<1>5. \A w \in Workers, n \in Nodes : ~Holds(w, n)'
  BY DEF Start, Holds, Idle
<1>6. ResultsDurable' /\ Closed' /\ Pending'
  BY <1>1, <1>2, <1>3, <1>4 DEF ConductorInv, Closed, ResultsDurable, Pending, Done
<1>7. Counted'
  BY <1>1, <1>2, <1>4, DagFacts DEF Start, Counted, InDegreeOf
<1>8. QueueOK'
  <2> SUFFICES ASSUME NEW n \in Nodes
               PROVE  /\ ready'[n] \in {0, 1}
                      /\ ready'[n] = 1 => Eligible(n)' /\ checkpoint'[n] = None
    BY <1>5 DEF QueueOK
  <2>1. ready'[n] = IF n \in DOMAIN g \ cached /\ g[n] \subseteq cached THEN 1 ELSE 0
    BY DEF Start, Queued
  <2>2. ASSUME n \in DOMAIN g \ cached PROVE checkpoint[n] = None
    BY <2>2, <1>2 DEF Done
  <2> QED
    BY <2>1, <2>2, <1>1, <1>3, <1>4 DEF Eligible
<1>9. HeldOK'
  BY <1>5 DEF HeldOK
<1> QED
  BY <1>1, <1>6, <1>7, <1>8, <1>9 DEF ConductorInv

LEMMA TakeInv ==
    ASSUME ConductorInv, TypeOK', NEW w \in Workers, NEW n \in Nodes, Take(w, n)
    PROVE  ConductorInv'
<1>1. /\ UNCHANGED <<doc, run, checkpoint, torn, results, inDegree>>
      /\ ready[n] = 1
      /\ ready' = [ready EXCEPT ![n] = 0]
  <2>1. ready[n] \in {0, 1} /\ ready[n] > 0
    BY DEF Take, ConductorInv, QueueOK
  <2>2. ready[n] = 1
    BY <2>1
  <2> QED
    BY <2>2 DEF Take
<1>2. Holds(w, n)' /\ worker'[w].pc = "dispatch" /\ worker[w].pc = "idle"
  BY DEF Take, Holds, ConductorInv, TypeOK
<1>3. \A m \in Nodes : Holds(w, m)' => m = n
  BY DEF Take, Holds, ConductorInv, TypeOK
<1>4. \A v \in Workers \ {w} : worker'[v] = worker[v]
  BY DEF Take, ConductorInv, TypeOK
<1>5. \A v \in Workers \ {w}, m \in Nodes : Holds(v, m)' <=> Holds(v, m)
  BY <1>4 DEF Holds
<1>6. Eligible(n) /\ checkpoint[n] = None /\ \A v \in Workers : ~Holds(v, n)
  BY <1>1 DEF ConductorInv, QueueOK
<1>7. \A m \in Nodes : Eligible(m)' <=> Eligible(m)
  BY <1>1 DEF Eligible, Done
<1>8. ResultsDurable' /\ Closed' /\ Counted' /\ torn' = FALSE
  BY <1>1 DEF ConductorInv, ResultsDurable, Closed, Counted, Done
<1>9. Pending'
  BY <1>1, <1>2, <1>4 DEF ConductorInv, Pending, Done
<1>10. QueueOK'
  <2> SUFFICES ASSUME NEW m \in Nodes
               PROVE  /\ ready'[m] \in {0, 1}
                      /\ ready'[m] = 1 =>
                            Eligible(m)' /\ checkpoint'[m] = None /\ \A v \in Workers : ~Holds(v, m)'
    BY DEF QueueOK
  <2>1. CASE m = n
    BY <2>1, <1>1 DEF ConductorInv, TypeOK
  <2>2. CASE m # n
    BY <2>2, <1>1, <1>3, <1>5, <1>7 DEF ConductorInv, QueueOK, TypeOK
  <2> QED
    BY <2>1, <2>2
<1>11. HeldOK'
  BY <1>1, <1>2, <1>3, <1>4, <1>5, <1>6, <1>7 DEF ConductorInv, HeldOK
<1> QED
  BY <1>8, <1>9, <1>10, <1>11 DEF ConductorInv

\* A thread that holds no node and takes none changes nothing the invariant says.
LEMMA EmptyHandedInv ==
    ASSUME ConductorInv, TypeOK',
           NEW w \in Workers, NEW s \in AtPoll,
           worker' = [worker EXCEPT ![w] = s], worker[w].pc # "merge",
           UNCHANGED <<doc, run, checkpoint, torn, results, inDegree, ready>>
    PROVE  ConductorInv'
<1>1. \A v \in Workers \ {w} : worker'[v] = worker[v]
  BY DEF ConductorInv, TypeOK
<1>2. worker'[w] = s /\ s.pc \notin {"dispatch", "report", "merge"}
  BY DEF ConductorInv, TypeOK, AtPoll
<1>3. \A v \in Workers, m \in Nodes : Holds(v, m)' => v # w /\ Holds(v, m)
  BY <1>1, <1>2 DEF Holds
<1>4. \A m \in Nodes : Eligible(m)' <=> Eligible(m)
  BY DEF Eligible, Done
<1>5. ResultsDurable' /\ Closed' /\ Counted' /\ torn' = FALSE
  BY DEF ConductorInv, ResultsDurable, Closed, Counted, Done
<1>6. Pending'
  BY <1>1 DEF ConductorInv, Pending, Done
<1>7. QueueOK'
  BY <1>3, <1>4 DEF ConductorInv, QueueOK
<1>8. HeldOK'
  BY <1>1, <1>3, <1>4 DEF ConductorInv, HeldOK
<1> QED
  BY <1>5, <1>6, <1>7, <1>8 DEF ConductorInv

LEMMA FinishInv ==
    ASSUME ConductorInv, TypeOK', NEW w \in Workers, NEW o \in Outcomes, Finish(w, o)
    PROVE  ConductorInv'
<1>1. UNCHANGED <<doc, run, checkpoint, torn, results, inDegree, ready>>
  BY DEF Finish
<1>2. /\ worker[w].pc = "dispatch"
      /\ worker'[w].pc = "report"
      /\ worker'[w].node = worker[w].node
  <2>1. worker[w] \in AtNode
    BY ThreadFacts DEF Finish, ConductorInv
  <2> QED
    BY <2>1 DEF Finish, ConductorInv, TypeOK, AtNode
<1>3. \A v \in Workers \ {w} : worker'[v] = worker[v]
  BY DEF Finish, ConductorInv, TypeOK
<1>4. \A v \in Workers, m \in Nodes : Holds(v, m)' <=> Holds(v, m)
  BY <1>2, <1>3 DEF Holds
<1>5. \A m \in Nodes : Eligible(m)' <=> Eligible(m)
  BY <1>1 DEF Eligible, Done
<1>6. ResultsDurable' /\ Closed' /\ Counted' /\ torn' = FALSE
  BY <1>1 DEF ConductorInv, ResultsDurable, Closed, Counted, Done
<1>7. Pending'
  BY <1>1, <1>2, <1>3 DEF ConductorInv, Pending, Done
<1>8. QueueOK'
  BY <1>1, <1>4, <1>5 DEF ConductorInv, QueueOK
<1>9. HeldOK'
  BY <1>1, <1>2, <1>3, <1>4, <1>5 DEF ConductorInv, HeldOK
<1> QED
  BY <1>6, <1>7, <1>8, <1>9 DEF ConductorInv

\* The journal line of a node: its dependencies are journaled, itself it is not.
LEMMA ReportFacts ==
    ASSUME ConductorInv, NEW w \in Workers, Report(w)
    PROVE  LET n == worker[w].node IN
           /\ n \in DOMAIN doc /\ n \in Nodes
           /\ worker[w].outcome \in Outcomes
           /\ Holds(w, n)
           /\ checkpoint[n] = None
           /\ \A m \in doc[n] : checkpoint[m] # None
           /\ checkpoint' = [checkpoint EXCEPT ![n] = worker[w].outcome]
<1> DEFINE n == worker[w].node
<1>1. worker[w] \in AtOutcome
  BY ThreadFacts DEF Report, ConductorInv
<1>2. n \in Nodes /\ worker[w].outcome \in Outcomes
  BY <1>1 DEF AtOutcome
<1>3. Holds(w, n)
  BY DEF Report, Holds
<1>4. Eligible(n) /\ checkpoint[n] = None
  BY <1>2, <1>3 DEF ConductorInv, HeldOK, Report
<1>5. \A m \in Done(results) : checkpoint[m] # None
  BY DagConstants DEF ConductorInv, ResultsDurable, Done, TypeOK, Results
<1> QED
  BY <1>2, <1>3, <1>4, <1>5 DEF Eligible, Report, JournalWith, ConductorInv

LEMMA ReportInv ==
    ASSUME ConductorInv, TypeOK', NEW w \in Workers, Report(w)
    PROVE  ConductorInv'
<1> DEFINE n == worker[w].node
<1>1. UNCHANGED <<doc, run, results, inDegree, ready>> /\ torn' = FALSE
  BY DEF Report, JournalWith
<1>2. /\ n \in DOMAIN doc /\ n \in Nodes
      /\ worker[w].outcome \in Outcomes
      /\ Holds(w, n)
      /\ checkpoint[n] = None
      /\ \A m \in doc[n] : checkpoint[m] # None
      /\ checkpoint' = [checkpoint EXCEPT ![n] = worker[w].outcome]
  BY ReportFacts
<1> HIDE DEF n
<1>3. /\ worker[w].pc = "report" /\ worker'[w].pc = "merge"
      /\ worker'[w].node = worker[w].node
      /\ worker'[w].outcome = worker[w].outcome
  <2>1. worker[w] \in AtOutcome
    BY ThreadFacts DEF Report, ConductorInv
  <2> QED
    BY <2>1 DEF Report, ConductorInv, TypeOK, AtOutcome
<1>4. \A v \in Workers \ {w} : worker'[v] = worker[v]
  BY DEF Report, ConductorInv, TypeOK
<1>5. \A v \in Workers, m \in Nodes : Holds(v, m)' <=> Holds(v, m)
  BY <1>3, <1>4 DEF Holds
<1>6. \A m \in Nodes : Eligible(m)' <=> Eligible(m)
  BY <1>1 DEF Eligible, Done
<1>7. checkpoint'[n] = worker[w].outcome /\ checkpoint'[n] # None
  BY <1>2, DagConstants DEF ConductorInv, TypeOK, Results
<1>8. \A m \in Nodes \ {n} : checkpoint'[m] = checkpoint[m]
  BY <1>2 DEF ConductorInv, TypeOK, Results
<1>9. Done(checkpoint)' = Done(checkpoint) \cup {n} /\ Done(results)' = Done(results)
  BY <1>1, <1>2, <1>7, <1>8 DEF Done
<1>10. results[n] = None
  BY <1>2 DEF ConductorInv, HeldOK, Eligible
<1>11. ResultsDurable'
  BY <1>1, <1>8, <1>9, <1>10 DEF ConductorInv, ResultsDurable, Done
<1>12. Closed'
  <2>1. doc[n] \subseteq Nodes
    BY <1>2, DagFacts DEF ConductorInv, TypeOK
  <2>2. doc[n] \subseteq Done(checkpoint)
    BY <1>2, <2>1 DEF Done
  <2> QED
    BY <1>1, <1>2, <1>9, <2>2 DEF ConductorInv, Closed
<1>13. Pending'
  <2>1. worker'[w].node = n
    BY <1>3 DEF n
  <2> QED
    BY <1>1, <1>3, <1>4, <1>9, <2>1 DEF ConductorInv, Pending
<1>14. Counted'
  BY <1>1, <1>9 DEF ConductorInv, Counted
<1>15. QueueOK'
  BY <1>1, <1>2, <1>5, <1>6, <1>8 DEF ConductorInv, QueueOK
<1>16. HeldOK'
  <2> SUFFICES ASSUME NEW v \in Workers, NEW m \in Nodes, Holds(v, m)'
               PROVE  /\ Eligible(m)'
                      /\ IF worker'[v].pc = "merge" THEN checkpoint'[m] = worker'[v].outcome
                                                    ELSE checkpoint'[m] = None
                      /\ \A u \in Workers \ {v} : ~Holds(u, m)'
    BY DEF HeldOK
  <2>1. Eligible(m)' /\ \A u \in Workers \ {v} : ~Holds(u, m)'
    BY <1>5, <1>6 DEF ConductorInv, HeldOK
  <2>2. CASE v = w
    <3>1. m = n
      BY <2>2, <1>5 DEF Holds, n
    <3> QED
      BY <2>1, <2>2, <3>1, <1>3, <1>7
  <2>3. CASE v # w
    <3>1. m # n
      BY <2>1, <2>3, <1>2, <1>5
    <3> QED
      BY <2>1, <2>3, <3>1, <1>4, <1>5, <1>8 DEF ConductorInv, HeldOK
  <2> QED
    BY <2>2, <2>3
<1> QED
  BY <1>1, <1>11, <1>12, <1>13, <1>14, <1>15, <1>16 DEF ConductorInv

\* Merging n: the nodes that n was the last to hold up are new to the queue.
LEMMA MergeFacts ==
    ASSUME ConductorInv, NEW w \in Workers, Merge(w)
    PROVE  LET n == worker[w].node IN
           /\ n \in Nodes /\ n \in DOMAIN doc
           /\ Holds(w, n)
           /\ n \notin Done(results)
           /\ doc[n] \subseteq Done(results)
           /\ checkpoint[n] = worker[w].outcome /\ worker[w].outcome \in Outcomes
           /\ results' = [results EXCEPT ![n] = worker[w].outcome]
           /\ Done(results)' = Done(results) \cup {n}
           /\ UNCHANGED <<doc, run, checkpoint, torn>>
<1> DEFINE n == worker[w].node
<1>1. worker[w] \in AtOutcome
  BY ThreadFacts DEF Merge, ConductorInv
<1>2. n \in Nodes /\ worker[w].outcome \in Outcomes
  BY <1>1 DEF AtOutcome
<1>3. Holds(w, n)
  BY DEF Merge, Holds
<1>4. Eligible(n) /\ checkpoint[n] = worker[w].outcome
  BY <1>2, <1>3 DEF ConductorInv, HeldOK, Merge
<1>5. results' = [results EXCEPT ![n] = worker[w].outcome]
  BY DEF Merge
<1> HIDE DEF n
<1>6. Done(results)' = Done(results) \cup {n}
  BY <1>2, <1>5, DagConstants DEF Done, ConductorInv, TypeOK, Results
<1> QED
  BY <1>2, <1>3, <1>4, <1>5, <1>6 DEF Eligible, Done, Merge, n

LEMMA MergeInv ==
    ASSUME ConductorInv, TypeOK', NEW w \in Workers, Merge(w)
    PROVE  ConductorInv'
<1> DEFINE n == worker[w].node
           o == worker[w].outcome
           next == {m \in DOMAIN doc : n \in doc[m]}
<1>1. /\ n \in Nodes /\ n \in DOMAIN doc
      /\ Holds(w, n)
      /\ n \notin Done(results)
      /\ doc[n] \subseteq Done(results)
      /\ checkpoint[n] = o /\ o \in Outcomes
      /\ results' = [results EXCEPT ![n] = o]
      /\ Done(results)' = Done(results) \cup {n}
      /\ UNCHANGED <<doc, run, checkpoint, torn>>
  BY MergeFacts
<1>2. /\ inDegree' = [m \in Nodes |-> IF m \in next THEN inDegree[m] - 1 ELSE inDegree[m]]
      /\ ready' = [m \in Nodes |-> IF m \in next /\ inDegree[m] = 1 THEN ready[m] + 1 ELSE ready[m]]
      /\ worker' = [worker EXCEPT ![w] = Idle]
      /\ worker[w].pc = "merge"
      /\ run = "running"
  BY DEF Merge
<1> HIDE DEF n, o, next
<1>3. \A m \in Nodes \ {n} : results'[m] = results[m]
  BY <1>1 DEF ConductorInv, TypeOK, Results
<1>4. results'[n] = o
  BY <1>1 DEF ConductorInv, TypeOK, Results
<1>5. \A v \in Workers \ {w} : worker'[v] = worker[v]
  BY <1>2 DEF ConductorInv, TypeOK
<1>6. \A v \in Workers, m \in Nodes : Holds(v, m)' => v # w /\ Holds(v, m) /\ m # n
  <2> SUFFICES ASSUME NEW v \in Workers, NEW m \in Nodes, Holds(v, m)'
               PROVE  v # w /\ Holds(v, m) /\ m # n
    OBVIOUS
  <2>1. v # w
    BY <1>2 DEF Holds, Idle, ConductorInv, TypeOK
  <2>2. Holds(v, m)
    BY <2>1, <1>5 DEF Holds
  <2> QED
    BY <2>1, <2>2, <1>1 DEF ConductorInv, HeldOK
<1>7. \A m \in Nodes \ {n} : Eligible(m) => Eligible(m)'
  BY <1>1, <1>3 DEF Eligible
<1>8. ResultsDurable'
  BY <1>1, <1>3, <1>4 DEF ConductorInv, ResultsDurable, Done
<1>9. Closed'
  BY <1>1 DEF ConductorInv, Closed
<1>10. Pending'
  <2> SUFFICES ASSUME NEW m \in Done(checkpoint)
               PROVE  \/ results'[m] # None
                      \/ \E v \in Workers : worker'[v].pc = "merge" /\ worker'[v].node = m
    BY <1>1 DEF Pending, Done
  <2>1. CASE m = n
    BY <2>1, <1>1, <1>4, DagConstants
  <2>2. CASE m # n
    <3>1. m \in Nodes
      BY DEF Done
    <3>2. CASE results[m] # None
      BY <3>1, <3>2, <2>2, <1>3
    <3>3. CASE results[m] = None
      <4>1. PICK v \in Workers : worker[v].pc = "merge" /\ worker[v].node = m
        BY <3>3, <1>2 DEF ConductorInv, Pending
      <4>2. v # w
        BY <4>1, <2>2 DEF n
      <4> QED
        BY <4>1, <4>2, <1>5
    <3> QED
      BY <3>2, <3>3
  <2> QED
    BY <2>1, <2>2
<1>11. Counted'
  <2> SUFFICES ASSUME NEW m \in DOMAIN doc
               PROVE  inDegree'[m] = Cardinality(doc[m] \ (Done(results) \cup {n}))
    BY <1>1 DEF Counted
  <2>1. m \in Nodes /\ doc[m] \ Done(results) \in SUBSET Nodes
    BY DagFacts DEF ConductorInv, TypeOK
  <2>2. inDegree[m] = Cardinality(doc[m] \ Done(results))
    BY <1>2 DEF ConductorInv, Counted
  <2>3. doc[m] \ (Done(results) \cup {n}) = (doc[m] \ Done(results)) \ {n}
    OBVIOUS
  <2>4. Cardinality((doc[m] \ Done(results)) \ {n}) =
           IF n \in doc[m] \ Done(results) THEN Cardinality(doc[m] \ Done(results)) - 1
                                           ELSE Cardinality(doc[m] \ Done(results))
    BY <2>1, DagFacts, FS_RemoveElement DEF ConductorInv, TypeOK
  <2> QED
    BY <2>1, <2>2, <2>3, <2>4, <1>1, <1>2 DEF next
<1>12. QueueOK'
  <2> SUFFICES ASSUME NEW m \in Nodes
               PROVE  /\ ready'[m] \in {0, 1}
                      /\ ready'[m] = 1 =>
                            Eligible(m)' /\ checkpoint'[m] = None /\ \A v \in Workers : ~Holds(v, m)'
    BY DEF QueueOK
  <2>1. CASE m \in next /\ inDegree[m] = 1
    <3>1. m \in DOMAIN doc /\ n \in doc[m] /\ n \in doc[m] \ Done(results)
      BY <2>1, <1>1 DEF next
    <3>2. ~Eligible(m)
      BY <3>1 DEF Eligible
    <3>3. ready[m] = 0
      BY <3>2 DEF ConductorInv, QueueOK
    <3>4. \A v \in Workers : ~Holds(v, m)
      BY <3>2 DEF ConductorInv, HeldOK
    <3>5. m # n
      BY <3>1, <1>1
    <3>6. results[m] = None
      BY <3>1 DEF ConductorInv, Closed, Done
    <3>7. checkpoint[m] = None
      <4>1. ASSUME checkpoint[m] # None PROVE FALSE
        <5>1. PICK v \in Workers : worker[v].pc = "merge" /\ worker[v].node = m
          BY <4>1, <3>6, <1>2 DEF ConductorInv, Pending, Done
        <5>2. Holds(v, m)
          BY <5>1 DEF Holds
        <5> QED
          BY <5>2, <3>4
      <4> QED
        BY <4>1
    <3>8. doc[m] \ Done(results) = {n}
      <4>1. IsFiniteSet(doc[m] \ Done(results))
        BY <3>1, DagFacts DEF ConductorInv, TypeOK
      <4>2. Cardinality(doc[m] \ Done(results)) = 1
        BY <2>1, <3>1, <1>2 DEF ConductorInv, Counted
      <4>3. \E x : doc[m] \ Done(results) = {x}
        BY <4>1, <4>2, FS_Singleton
      <4> QED
        BY <4>3, <3>1
    <3>9. Eligible(m)'
      BY <3>1, <3>5, <3>6, <3>8, <1>1, <1>3 DEF Eligible
    <3> QED
      BY <2>1, <3>3, <3>4, <3>7, <3>9, <1>1, <1>2, <1>6
  <2>2. CASE ~(m \in next /\ inDegree[m] = 1)
    <3>1. ready'[m] = ready[m]
      BY <2>2, <1>2
    <3>2. ready[m] = 1 => m # n
      BY <1>1 DEF ConductorInv, QueueOK
    <3> QED
      BY <3>1, <3>2, <1>1, <1>6, <1>7 DEF ConductorInv, QueueOK
  <2> QED
    BY <2>1, <2>2
<1>13. HeldOK'
  BY <1>1, <1>5, <1>6, <1>7 DEF ConductorInv, HeldOK
<1> QED
  BY <1>1, <1>8, <1>9, <1>10, <1>11, <1>12, <1>13 DEF ConductorInv

LEMMA ReturnInv ==
    ASSUME ConductorInv, TypeOK', Return
    PROVE  ConductorInv'
<1>1. UNCHANGED <<doc, checkpoint, torn, results, inDegree, ready, worker>>
  BY DEF Return, memory
<1>2. \A w \in Workers, n \in Nodes : Holds(w, n)' <=> Holds(w, n)
  BY <1>1 DEF Holds
<1>3. \A n \in Nodes : Eligible(n)' <=> Eligible(n)
  BY <1>1 DEF Eligible, Done
<1>4. ResultsDurable' /\ Closed' /\ Pending' /\ Counted' /\ torn' = FALSE
  BY <1>1 DEF Return, ConductorInv, ResultsDurable, Closed, Pending, Counted, Done
<1>5. QueueOK' /\ HeldOK'
  BY <1>1, <1>2, <1>3 DEF ConductorInv, QueueOK, HeldOK
<1> QED
  BY <1>4, <1>5 DEF ConductorInv

LEMMA CrashInv ==
    ASSUME ConductorInv, TypeOK', "torn" \notin Faults, Crash
    PROVE  ConductorInv'
<1>1. /\ UNCHANGED <<doc, checkpoint>> /\ torn' = torn
      /\ run' = "down"
      /\ \A n \in Nodes : results'[n] = None /\ ready'[n] = 0
  BY DEF Crash, NoResults
<1>2. \A w \in Workers, n \in Nodes : ~Holds(w, n)'
  BY DEF Crash, Holds, Idle
<1>3. Done(results)' = {} /\ Done(checkpoint)' = Done(checkpoint)
  BY <1>1 DEF Done
<1>4. ResultsDurable' /\ Closed' /\ Pending' /\ Counted'
  BY <1>1, <1>3 DEF ConductorInv, ResultsDurable, Closed, Pending, Counted
<1>5. QueueOK' /\ HeldOK'
  BY <1>1, <1>2 DEF QueueOK, HeldOK
<1> QED
  BY <1>1, <1>4, <1>5 DEF ConductorInv

LEMMA NextInv ==
    ASSUME "torn" \notin Faults, "edit" \notin Faults, ConductorInv, [Next]_vars
    PROVE  ConductorInv'
<1>0. TypeOK'
  BY NextTypeOK DEF ConductorInv
<1>1. CASE UNCHANGED vars
  <2>1. \A w \in Workers, n \in Nodes : Holds(w, n)' <=> Holds(w, n)
    BY <1>1 DEF Holds, vars
  <2>2. \A n \in Nodes : Eligible(n)' <=> Eligible(n)
    BY <1>1 DEF Eligible, Done, vars
  <2>3. ResultsDurable' /\ Closed' /\ Pending' /\ Counted' /\ torn' = FALSE
    BY <1>1 DEF vars, ConductorInv, ResultsDurable, Closed, Pending, Counted, Done
  <2>4. QueueOK' /\ HeldOK'
    BY <1>1, <2>1, <2>2 DEF vars, ConductorInv, QueueOK, HeldOK
  <2> QED
    BY <1>0, <2>3, <2>4 DEF ConductorInv
<1>2. ASSUME NEW w \in Workers, PollEmpty(w) \/ PollDecide(w) PROVE ConductorInv'
  <2>1. /\ worker[w].pc # "merge"
        /\ UNCHANGED <<doc, run, checkpoint, torn, results, inDegree, ready>>
        /\ \/ worker' = [worker EXCEPT ![w] = [Idle EXCEPT !.pc = "empty"]]
           \/ worker' = [worker EXCEPT ![w] = [Idle EXCEPT !.pc = "exited"]]
           \/ worker' = [worker EXCEPT ![w] = [Idle EXCEPT !.pc = "idle"]]
    BY <1>2 DEF PollEmpty, PollDecide
  <2>2. \A p \in {"empty", "exited", "idle"} : [Idle EXCEPT !.pc = p] \in AtPoll
    BY DEF Idle, AtPoll
  <2> QED
    BY <1>0, <2>1, <2>2, EmptyHandedInv
<1>3. ASSUME NEW w \in Workers, SinkRaises(w) \/ AppendRaises(w) PROVE ConductorInv'
  <2>1. /\ worker[w].pc # "merge"
        /\ UNCHANGED <<doc, run, checkpoint, torn, results, inDegree, ready>>
        /\ worker' = [worker EXCEPT ![w] = [Idle EXCEPT !.pc = "dead"]]
    BY <1>3 DEF SinkRaises, AppendRaises, Die
  <2>2. [Idle EXCEPT !.pc = "dead"] \in AtPoll
    BY ThreadStates
  <2> QED
    BY <1>0, <2>1, <2>2, EmptyHandedInv
<1> QED
  BY <1>0, <1>1, <1>2, <1>3, StartInv, TakeInv, FinishInv, ReportInv, MergeInv, ReturnInv, CrashInv
  DEF Next, Work

\* What the conductor can rely on when no line is torn and the DAG stays the same.
THEOREM ConductorSafe ==
    ASSUME "torn" \notin Faults, "edit" \notin Faults
    PROVE  Spec => []ConductorInv
BY InitInv, NextInv, PTL DEF Spec

\* A merged result is in the journal: no crash loses a node that was done.
THEOREM DurableResults ==
    ASSUME "torn" \notin Faults, "edit" \notin Faults
    PROVE  Spec => []ResultsDurable
<1>1. ConductorInv => ResultsDurable
  BY DEF ConductorInv
<1> QED
  BY <1>1, ConductorSafe, PTL

\* No node is dispatched twice, by two threads or after its result is known, in this
\* process or in one that crashed.
THEOREM AtMostOnce ==
    ASSUME "torn" \notin Faults, "edit" \notin Faults
    PROVE  Spec => []NeverRedispatched
<1>1. ConductorInv => NeverRedispatched
  BY DEF ConductorInv, HeldOK, Eligible, NeverRedispatched
<1> QED
  BY <1>1, ConductorSafe, PTL

\* No node is dispatched before its dependencies have their results.
THEOREM InOrder ==
    ASSUME "torn" \notin Faults, "edit" \notin Faults
    PROVE  Spec => []DispatchedAfterDeps
<1>1. ConductorInv => DispatchedAfterDeps
  BY DEF ConductorInv, HeldOK, Eligible, DispatchedAfterDeps, Done
<1> QED
  BY <1>1, ConductorSafe, PTL

-----------------------------------------------------------------------------
LEMMA InitRefines == Init => Execution!Init
BY DEF Init, NoResults, Execution!Init

\* A journal line completes a node of the DAG; every other step leaves the journal alone.
LEMMA NextRefines ==
    ASSUME "torn" \notin Faults, "edit" \notin Faults, ConductorInv, [Next]_vars
    PROVE  [Execution!Next]_<<doc, checkpoint>>
<1>1. ASSUME NEW w \in Workers, Report(w) PROVE Execution!Next
  <2> DEFINE n == worker[w].node
  <2>1. /\ n \in DOMAIN doc
        /\ worker[w].outcome \in Outcomes
        /\ checkpoint[n] = None
        /\ \A m \in doc[n] : checkpoint[m] # None
        /\ checkpoint' = [checkpoint EXCEPT ![n] = worker[w].outcome]
    BY <1>1, ReportFacts
  <2>2. doc' = doc
    BY <1>1 DEF Report
  <2> QED
    BY <2>1, <2>2 DEF Execution!Next, Execution!Complete
<1>2. \/ UNCHANGED <<doc, checkpoint>>
      \/ \E w \in Workers : Report(w)
  BY DEF Next, Work, Start, Take, PollEmpty, PollDecide, Finish, Merge, Return,
         SinkRaises, AppendRaises, Crash, vars
<1> QED
  BY <1>1, <1>2

\* Through any crashes and resumes, the journal executes the DAG: every node at most
\* once, after its dependencies, its result never changed or lost.
THEOREM Refines ==
    ASSUME "torn" \notin Faults, "edit" \notin Faults
    PROVE  Spec => ExecutesDag
BY ConductorSafe, InitRefines, NextRefines, PTL DEF Spec, ExecutesDag, Execution!Spec

-----------------------------------------------------------------------------
\* ReturnedComplete, whatever fails and however the DAG is edited.  in_degree may then
\* count too little, since a cached node that is dispatched again is taken off twice,
\* but never too much; and nobody leaves a queue that is not empty.

\* A node that nobody needs to queue any more.
Served(n) == results[n] # None \/ ready[n] > 0 \/ \E w \in Workers : Holds(w, n)

\* Only nodes of this DAG are queued and held.
OwnNodes == \A n \in Nodes : ready[n] > 0 \/ (\E w \in Workers : Holds(w, n)) => n \in DOMAIN doc

NotOvercounted ==
    run # "down" =>
        \A n \in DOMAIN doc : inDegree[n] <= Cardinality(doc[n] \ Done(results))

NoneForgotten ==
    run # "down" /\ Undisturbed =>
        \A n \in DOMAIN doc : inDegree[n] <= 0 => Served(n)

\* The last thread to find the queue empty leaves it empty.
Drained ==
    run # "down" /\ (\A w \in Workers : worker[w].pc \in {"empty", "exited"}) =>
        \A n \in Nodes : ready[n] = 0

Left == run = "returned" => \A w \in Workers : worker[w].pc \in {"exited", "dead"}

CompleteInv ==
    /\ TypeOK
    /\ Done(results) \subseteq DOMAIN doc
    /\ OwnNodes
    /\ NotOvercounted
    /\ NoneForgotten
    /\ Drained
    /\ Left

LEMMA InitComplete == Init => CompleteInv
<1> SUFFICES ASSUME Init PROVE CompleteInv
  OBVIOUS
<1>1. TypeOK
  BY InitTypeOK
<1>2. Done(results) = {} /\ \A w \in Workers, n \in Nodes : ~Holds(w, n)
  BY DEF Init, Done, NoResults, Holds, Idle
<1> QED
  BY <1>1, <1>2 DEF Init, CompleteInv, OwnNodes, NotOvercounted, NoneForgotten, Drained, Left

LEMMA StartComplete ==
    ASSUME CompleteInv, TypeOK', Workers # {}, NEW g \in Docs, Start(g)
    PROVE  CompleteInv'
<1> DEFINE cached == Done(checkpoint) \cap DOMAIN g
<1>1. /\ doc' = g /\ run' = "running"
      /\ results' = [n \in Nodes |-> IF n \in cached THEN checkpoint[n] ELSE None]
      /\ inDegree' = InDegreeOf(g, cached)
      /\ ready' = Queued(g, cached)
      /\ \A w \in Workers : worker'[w].pc = "idle"
  BY DEF Start, Idle
<1>2. DOMAIN g \subseteq Nodes /\ \A n \in DOMAIN g : g[n] \subseteq DOMAIN g
  BY DagFacts
<1>3. Done(results)' = cached
  BY <1>1, <1>2 DEF Done
<1>4. \A n \in DOMAIN g : inDegree'[n] = Cardinality(g[n] \ cached) /\ IsFiniteSet(g[n] \ cached)
  <2> SUFFICES ASSUME NEW n \in DOMAIN g
               PROVE  inDegree'[n] = Cardinality(g[n] \ cached) /\ IsFiniteSet(g[n] \ cached)
    OBVIOUS
  <2>1. g[n] \ cached \in SUBSET Nodes
    BY <1>2
  <2> QED
    BY <2>1, <1>1, <1>2, DagFacts DEF InDegreeOf
<1>5. OwnNodes'
  BY <1>1 DEF OwnNodes, Queued, Holds
<1>6. NotOvercounted'
  <2> SUFFICES ASSUME NEW n \in DOMAIN g
               PROVE  inDegree'[n] <= Cardinality(g[n] \ cached)
    BY <1>1, <1>3 DEF NotOvercounted
  <2>1. inDegree'[n] \in Int
    BY <1>2 DEF TypeOK
  <2> QED
    BY <2>1, <1>4
<1>7. NoneForgotten'
  <2> SUFFICES ASSUME NEW n \in DOMAIN g, inDegree'[n] <= 0
               PROVE  Served(n)'
    BY <1>1 DEF NoneForgotten
  <2>1. CASE n \in cached
    BY <2>1, <1>3 DEF Served, Done
  <2>2. CASE n \notin cached
    <3>1. Cardinality(g[n] \ cached) \in Nat
      BY <1>4, FS_CardinalityType
    <3>2. Cardinality(g[n] \ cached) = 0
      BY <3>1, <1>4
    <3>3. g[n] \subseteq cached
      BY <3>2, <1>4, FS_EmptySet
    <3>4. ready'[n] = 1
      BY <3>3, <2>2, <1>1, <1>2 DEF Queued
    <3> QED
      BY <3>4 DEF Served
  <2> QED
    BY <2>1, <2>2
<1>8. Drained' /\ Left'
  BY <1>1 DEF Drained, Left
<1> QED
  BY <1>1, <1>3, <1>5, <1>6, <1>7, <1>8 DEF CompleteInv

LEMMA TakeComplete ==
    ASSUME CompleteInv, TypeOK', NEW w \in Workers, NEW n \in Nodes, Take(w, n)
    PROVE  CompleteInv'
<1>1. /\ UNCHANGED <<doc, run, results, inDegree>> /\ run = "running"
      /\ ready[n] > 0
      /\ \A m \in Nodes \ {n} : ready'[m] = ready[m]
      /\ worker[w].pc = "idle"
      /\ worker'[w].pc = "dispatch" /\ worker'[w].node = n
      /\ \A v \in Workers \ {w} : worker'[v] = worker[v]
  BY DEF Take, CompleteInv, TypeOK
<1>2. \A m \in Nodes : Holds(w, m)' <=> m = n
  BY <1>1 DEF Holds
<1>3. \A v \in Workers \ {w}, m \in Nodes : Holds(v, m)' <=> Holds(v, m)
  BY <1>1 DEF Holds
<1>4. \A m \in Nodes : ~Holds(w, m)
  BY <1>1 DEF Holds
<1>5. OwnNodes'
  BY <1>1, <1>2, <1>3 DEF CompleteInv, OwnNodes
<1>6. NoneForgotten'
  <2>1. Undisturbed' => Undisturbed
    BY <1>1 DEF Undisturbed
  <2>2. \A m \in Nodes : Served(m) => Served(m)'
    <3> SUFFICES ASSUME NEW m \in Nodes, Served(m) PROVE Served(m)'
      OBVIOUS
    <3>1. CASE m = n
      BY <3>1, <1>2 DEF Served
    <3>2. CASE m # n
      BY <3>2, <1>1, <1>3, <1>4 DEF Served
    <3> QED
      BY <3>1, <3>2
  <2>3. DOMAIN doc \subseteq Nodes
    BY DagFacts DEF CompleteInv, TypeOK
  <2> QED
    BY <1>1, <2>1, <2>2, <2>3 DEF CompleteInv, NoneForgotten
<1>7. Done(results)' \subseteq DOMAIN doc' /\ NotOvercounted'
  BY <1>1 DEF CompleteInv, NotOvercounted, Done
<1>8. Drained' /\ Left'
  BY <1>1 DEF Drained, Left
<1> QED
  BY <1>5, <1>6, <1>7, <1>8 DEF CompleteInv

\* A step of a thread that queues nothing and lets go of no node.
LEMMA MoveComplete ==
    ASSUME CompleteInv, TypeOK', NEW w \in Workers, run = "running",
           UNCHANGED <<doc, run, results, inDegree, ready>>,
           \A v \in Workers \ {w} : worker'[v] = worker[v],
           \A n \in Nodes : Holds(w, n)' <=> Holds(w, n),
           worker[w].pc # "dead",
           worker'[w].pc \in {"empty", "exited"} =>
               worker[w].pc = "empty" \/ \A n \in Nodes : ready[n] = 0
    PROVE  CompleteInv'
<1>1. \A v \in Workers, n \in Nodes : Holds(v, n)' <=> Holds(v, n)
  <2> SUFFICES ASSUME NEW v \in Workers, NEW n \in Nodes PROVE Holds(v, n)' <=> Holds(v, n)
    OBVIOUS
  <2>1. CASE v = w
    BY <2>1
  <2>2. CASE v # w
    <3>1. worker'[v] = worker[v]
      BY <2>2
    <3> QED
      BY <3>1 DEF Holds
  <2> QED
    BY <2>1, <2>2
<1>2. Undisturbed' => Undisturbed
  BY DEF Undisturbed
<1>3. \A n \in Nodes : Served(n)' <=> Served(n)
  BY <1>1 DEF Served
<1>4. DOMAIN doc \subseteq Nodes
  BY DagFacts DEF CompleteInv, TypeOK
<1>5. OwnNodes'
  BY <1>1 DEF CompleteInv, OwnNodes
<1>6. NoneForgotten'
  BY <1>2, <1>3, <1>4 DEF CompleteInv, NoneForgotten
<1>7. Done(results)' \subseteq DOMAIN doc' /\ NotOvercounted'
  BY DEF CompleteInv, NotOvercounted, Done
<1>8. Drained'
  BY DEF CompleteInv, Drained
<1>9. Left'
  BY DEF Left
<1> QED
  BY <1>5, <1>6, <1>7, <1>8, <1>9 DEF CompleteInv

LEMMA WorkComplete ==
    ASSUME CompleteInv, TypeOK', NEW w \in Workers,
           PollEmpty(w) \/ PollDecide(w) \/ (\E o \in Outcomes : Finish(w, o)) \/ Report(w)
    PROVE  CompleteInv'
<1>1. /\ run = "running"
      /\ UNCHANGED <<doc, run, results, inDegree, ready>>
      /\ \A v \in Workers \ {w} : worker'[v] = worker[v]
      /\ worker[w].pc # "dead"
  BY DEF PollEmpty, PollDecide, Finish, Report, CompleteInv, TypeOK
<1>2. CASE PollEmpty(w) \/ PollDecide(w)
  <2>1. /\ \A n \in Nodes : ~Holds(w, n) /\ ~Holds(w, n)'
        /\ worker[w].pc = "empty" \/ \A n \in Nodes : ready[n] = 0
    BY <1>2 DEF PollEmpty, PollDecide, Holds, Idle, CompleteInv, TypeOK
  <2> QED
    BY <1>1, <2>1, MoveComplete
<1>3. CASE (\E o \in Outcomes : Finish(w, o)) \/ Report(w)
  <2>1. /\ worker[w].pc \in {"dispatch", "report"}
        /\ worker'[w].pc \in {"report", "merge"}
        /\ worker'[w].node = worker[w].node
    <3>1. CASE Report(w)
      <4>1. worker[w] \in AtOutcome
        BY <3>1, ThreadFacts DEF Report, CompleteInv
      <4> QED
        BY <3>1, <4>1 DEF Report, CompleteInv, TypeOK, AtOutcome
    <3>2. ASSUME NEW o \in Outcomes, Finish(w, o)
          PROVE  /\ worker[w].pc = "dispatch" /\ worker'[w].pc = "report"
                 /\ worker'[w].node = worker[w].node
      <4>1. worker[w] \in AtNode
        BY <3>2, ThreadFacts DEF Finish, CompleteInv
      <4> QED
        BY <3>2, <4>1 DEF Finish, CompleteInv, TypeOK, AtNode
    <3> QED
      BY <1>3, <3>1, <3>2
  <2>2. \A n \in Nodes : Holds(w, n)' <=> Holds(w, n)
    BY <2>1 DEF Holds
  <2> QED
    BY <1>1, <2>1, <2>2, MoveComplete
<1> QED
  BY <1>2, <1>3

\* A dependent whose in_degree reaches zero is queued; one that was taken below zero
\* had been served before.
LEMMA MergeComplete ==
    ASSUME CompleteInv, TypeOK', NEW w \in Workers, Merge(w)
    PROVE  CompleteInv'
<1> DEFINE n == worker[w].node
           next == {m \in DOMAIN doc : n \in doc[m]}
<1>1. /\ run = "running" /\ UNCHANGED <<doc, run>>
      /\ worker[w].pc = "merge" /\ worker'[w].pc = "idle"
      /\ \A v \in Workers \ {w} : worker'[v] = worker[v]
      /\ results' = [results EXCEPT ![n] = worker[w].outcome]
      /\ inDegree' = [m \in Nodes |-> IF m \in next THEN inDegree[m] - 1 ELSE inDegree[m]]
      /\ ready' = [m \in Nodes |-> IF m \in next /\ inDegree[m] = 1 THEN ready[m] + 1 ELSE ready[m]]
  BY DEF Merge, Idle, CompleteInv, TypeOK
<1>2. n \in Nodes /\ worker[w].outcome \in Outcomes /\ Holds(w, n)
  <2>1. worker[w] \in AtOutcome
    BY <1>1, ThreadFacts DEF CompleteInv
  <2> QED
    BY <2>1, <1>1 DEF AtOutcome, Holds
<1>3. n \in DOMAIN doc /\ DOMAIN doc \subseteq Nodes /\ \A m \in DOMAIN doc : doc[m] \subseteq Nodes
  <2>1. doc \in Docs
    BY DEF CompleteInv, TypeOK
  <2> QED
    BY <2>1, <1>2, DagFacts DEF CompleteInv, OwnNodes
<1>4. \A m \in Nodes : Holds(w, m) <=> m = n
  BY <1>1 DEF Holds
<1> HIDE DEF n, next
<1>5. results'[n] # None /\ \A m \in Nodes \ {n} : results'[m] = results[m]
  BY <1>1, <1>2, DagConstants DEF CompleteInv, TypeOK, Results
<1>6. Done(results)' = Done(results) \cup {n}
  BY <1>2, <1>5 DEF Done
<1>7. \A m \in Nodes : ~Holds(w, m)'
  BY <1>1 DEF Holds
<1>8. \A v \in Workers \ {w}, m \in Nodes : Holds(v, m)' <=> Holds(v, m)
  BY <1>1 DEF Holds
<1>9. \A m \in Nodes : inDegree[m] \in Int /\ ready[m] \in Nat
  BY DEF CompleteInv, TypeOK
<1>10. OwnNodes'
  <2> SUFFICES ASSUME NEW m \in Nodes, ready'[m] > 0 \/ \E v \in Workers : Holds(v, m)'
               PROVE  m \in DOMAIN doc
    BY <1>1 DEF OwnNodes
  <2>1. m \in next => m \in DOMAIN doc
    BY DEF next
  <2>2. m \notin next => ready'[m] = ready[m]
    BY <1>1
  <2> QED
    BY <2>1, <2>2, <1>7, <1>8 DEF CompleteInv, OwnNodes
<1>11. NotOvercounted'
  <2> SUFFICES ASSUME NEW m \in DOMAIN doc
               PROVE  inDegree'[m] <= Cardinality(doc[m] \ (Done(results) \cup {n}))
    BY <1>1, <1>6 DEF NotOvercounted
  <2> DEFINE missing == doc[m] \ Done(results)
  <2>1. missing \in SUBSET Nodes /\ m \in Nodes
    BY <1>3
  <2>2. IsFiniteSet(missing) /\ Cardinality(missing) \in Nat
    BY <2>1, DagFacts DEF CompleteInv, TypeOK
  <2>3. inDegree[m] <= Cardinality(missing)
    BY <1>1 DEF CompleteInv, NotOvercounted
  <2>4. doc[m] \ (Done(results) \cup {n}) = missing \ {n}
    OBVIOUS
  <2>5. Cardinality(missing \ {n}) = IF n \in missing THEN Cardinality(missing) - 1
                                                    ELSE Cardinality(missing)
    BY <2>2, FS_RemoveElement
  <2>6. inDegree'[m] = IF n \in doc[m] THEN inDegree[m] - 1 ELSE inDegree[m]
    BY <1>1, <2>1 DEF next
  <2> HIDE DEF missing
  <2>7. n \in missing => n \in doc[m]
    BY DEF missing
  <2> QED
    BY <2>1, <2>2, <2>3, <2>4, <2>5, <2>6, <2>7, <1>9
<1>12. NoneForgotten'
  <2> SUFFICES ASSUME Undisturbed', NEW m \in DOMAIN doc, inDegree'[m] <= 0
               PROVE  Served(m)'
    BY <1>1 DEF NoneForgotten
  <2>1. m \in Nodes /\ Undisturbed
    BY <1>1, <1>3 DEF Undisturbed
  <2>2. CASE m = n
    BY <2>2, <1>5 DEF Served
  <2>3. CASE m # n /\ inDegree[m] <= 0
    <3>1. Served(m)
      BY <2>1, <2>3, <1>1 DEF CompleteInv, NoneForgotten
    <3>2. ready[m] > 0 => ready'[m] > 0
      BY <2>1, <1>1, <1>9
    <3> QED
      BY <2>1, <2>3, <3>1, <3>2, <1>4, <1>5, <1>8 DEF Served
  <2>4. CASE m # n /\ inDegree[m] > 0
    <3>1. m \in next /\ inDegree[m] = 1
      BY <2>1, <2>4, <1>1, <1>9
    <3>2. ready'[m] > 0
      BY <2>1, <3>1, <1>1, <1>9
    <3> QED
      BY <3>2 DEF Served
  <2> QED
    BY <2>1, <2>2, <2>3, <2>4, <1>9
<1>13. Drained' /\ Left'
  BY <1>1 DEF Drained, Left
<1>14. Done(results)' \subseteq DOMAIN doc'
  BY <1>1, <1>3, <1>6 DEF CompleteInv
<1> QED
  BY <1>10, <1>11, <1>12, <1>13, <1>14 DEF CompleteInv

\* A thread that dies takes its node with it: the run is not undisturbed any more.
LEMMA DeathComplete ==
    ASSUME CompleteInv, TypeOK', NEW w \in Workers, SinkRaises(w) \/ AppendRaises(w)
    PROVE  CompleteInv'
<1>1. /\ UNCHANGED <<doc, run, results, inDegree, ready>> /\ run = "running"
      /\ worker'[w].pc = "dead"
      /\ \A v \in Workers \ {w} : worker'[v] = worker[v]
  BY DEF SinkRaises, AppendRaises, Fault, Die, Idle, CompleteInv, TypeOK
<1>2. \A v \in Workers, n \in Nodes : Holds(v, n)' => Holds(v, n)
  BY <1>1 DEF Holds
<1>3. OwnNodes'
  BY <1>1, <1>2 DEF CompleteInv, OwnNodes
<1>4. NoneForgotten'
  BY <1>1 DEF NoneForgotten, Undisturbed
<1>5. Done(results)' \subseteq DOMAIN doc' /\ NotOvercounted'
  BY <1>1 DEF CompleteInv, NotOvercounted, Done
<1>6. Drained' /\ Left'
  BY <1>1 DEF Drained, Left
<1> QED
  BY <1>3, <1>4, <1>5, <1>6 DEF CompleteInv

LEMMA EndComplete ==
    ASSUME CompleteInv, TypeOK', Return \/ Crash \/ UNCHANGED vars
    PROVE  CompleteInv'
<1>1. CASE Return \/ UNCHANGED vars
  <2>1. /\ UNCHANGED <<doc, results, inDegree, ready, worker>>
        /\ run' # "down" => run # "down"
        /\ run' = "returned" => \A w \in Workers : worker[w].pc \in {"exited", "dead"}
    BY <1>1 DEF Return, memory, vars, CompleteInv, Left
  <2>2. \A w \in Workers, n \in Nodes : Holds(w, n)' <=> Holds(w, n)
    BY <2>1 DEF Holds
  <2>3. DOMAIN doc \subseteq Nodes
    BY DagFacts DEF CompleteInv, TypeOK
  <2>4. \A n \in Nodes : Served(n)' <=> Served(n)
    BY <2>1, <2>2 DEF Served
  <2>5. Done(results)' \subseteq DOMAIN doc' /\ OwnNodes' /\ NotOvercounted'
    BY <2>1, <2>2 DEF CompleteInv, OwnNodes, NotOvercounted, Done
  <2>6. NoneForgotten' /\ Drained' /\ Left'
    BY <2>1, <2>3, <2>4 DEF CompleteInv, NoneForgotten, Undisturbed, Drained, Left
  <2> QED
    BY <2>5, <2>6 DEF CompleteInv
<1>2. CASE Crash
  <2>1. run' = "down" /\ \A n \in Nodes : results'[n] = None /\ ready'[n] = 0
    BY <1>2 DEF Crash, NoResults
  <2>2. \A w \in Workers, n \in Nodes : ~Holds(w, n)'
    BY <1>2 DEF Crash, Holds, Idle
  <2>3. Done(results)' = {}
    BY <2>1 DEF Done
  <2> QED
    BY <2>1, <2>2, <2>3 DEF CompleteInv, OwnNodes, NotOvercounted, NoneForgotten, Drained, Left
<1> QED
  BY <1>1, <1>2

LEMMA NextComplete ==
    ASSUME Workers # {}, CompleteInv, [Next]_vars
    PROVE  CompleteInv'
<1>1. TypeOK'
  BY NextTypeOK DEF CompleteInv
<1> QED
  BY <1>1, StartComplete, TakeComplete, WorkComplete, MergeComplete, DeathComplete, EndComplete
  DEF Next, Work

\* When the queue is empty and nobody holds a node, the nodes without a result would each
\* have to wait for another of them, which a valid DAG excludes.
LEMMA CompleteAtReturn == CompleteInv => ReturnedComplete
<1> SUFFICES ASSUME CompleteInv, run = "returned", Undisturbed
             PROVE  Done(results) = DOMAIN doc
  BY DEF ReturnedComplete
<1> DEFINE missing == DOMAIN doc \ Done(results)
<1>1. doc \in Docs /\ DOMAIN doc \subseteq Nodes
  BY DagFacts DEF CompleteInv, TypeOK
<1>2. \A w \in Workers : worker[w].pc = "exited"
  BY DEF CompleteInv, Left, Undisturbed
<1>3. (\A n \in Nodes : ready[n] = 0) /\ \A w \in Workers, n \in Nodes : ~Holds(w, n)
  BY <1>2 DEF CompleteInv, Drained, Holds
<1>4. ASSUME NEW n \in missing PROVE doc[n] \cap missing # {}
  <2>1. n \in Nodes /\ results[n] = None
    BY <1>1 DEF Done
  <2>2. ~(inDegree[n] <= 0) /\ inDegree[n] \in Int
    BY <2>1, <1>3 DEF CompleteInv, NoneForgotten, Served, TypeOK
  <2>3. inDegree[n] <= Cardinality(doc[n] \ Done(results))
    BY DEF CompleteInv, NotOvercounted
  <2>4. doc[n] \ Done(results) # {}
    BY <2>2, <2>3, FS_EmptySet
  <2>5. doc[n] \subseteq DOMAIN doc
    BY <1>1, DagFacts
  <2> QED
    BY <2>4, <2>5
<1>5. missing = {}
  <2>1. IsDag(doc)
    BY <1>1, DagConstants
  <2> QED
    BY <2>1, <1>4 DEF IsDag
<1> QED
  BY <1>5 DEF CompleteInv

\* Whatever failed before, and however the DAG was edited, a run none of whose threads
\* died returns with a result for every node, if it has a thread at all.
THEOREM Complete ==
    ASSUME Workers # {}
    PROVE  Spec => []ReturnedComplete
BY InitComplete, NextComplete, CompleteAtReturn, PTL DEF Spec
=============================================================================
