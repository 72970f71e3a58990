----------------------------- MODULE DagExecution -----------------------------
(***************************************************************************)
(* What the conductor promises of one run of a DAG, crashes included:      *)
(* every node gets one result, once, after the nodes it depends on.        *)
(***************************************************************************)
CONSTANTS Nodes, Docs, Outcomes, None
VARIABLES doc, done

Init ==
    /\ doc \in Docs
    /\ done = [n \in Nodes |-> None]

Complete(n, o) ==
    /\ done[n] = None
    /\ \A m \in doc[n] : done[m] # None
    /\ done' = [done EXCEPT ![n] = o]
    /\ UNCHANGED doc

Next == \E n \in DOMAIN doc, o \in Outcomes : Complete(n, o)

Spec == Init /\ [][Next]_<<doc, done>>
=============================================================================
