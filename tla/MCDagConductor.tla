---------------------------- MODULE MCDagConductor ----------------------------
(* Every DAG of three nodes and the diamond of four; and a file whose      *)
(* nodes, and what they depend on, change when it is edited.               *)
EXTENDS DagConductor, TLC

CONSTANTS a, b, c, d

Diamond == (a :> {}) @@ (b :> {a}) @@ (c :> {a}) @@ (d :> {b, c})

Chain   == (a :> {}) @@ (b :> {a}) @@ (c :> {b})
Split   == (a :> {}) @@ (b :> {a}) @@ (d :> {})
Joined  == (a :> {}) @@ (b :> {a, d}) @@ (d :> {})

\* A run of Apart that has done b but not a, resumed as Rejoined, dispatches b
\* again and takes it off the in_degree of d twice.
Apart    == (a :> {}) @@ (b :> {}) @@ (c :> {}) @@ (d :> {})
Rejoined == (a :> {}) @@ (b :> {a}) @@ (c :> {}) @@ (d :> {b, c})

MCDags ==
    {Diamond} \cup {g \in [{a, b, c} -> SUBSET {a, b, c}] : IsDag(g)}
MCEdited == {Chain, Split, Joined, Apart, Rejoined}

Symmetry == Permutations(Workers)
=============================================================================
