----------------------------- MODULE Plans_proofs -----------------------------
(***************************************************************************)
(* The two components that read the plan of a run: CycleCheck, whose       *)
(* answer is exact for every document, in every order in which nodes are   *)
(* taken off the queue; and ReadySet, which executes the plan, in the      *)
(* order that the client alone would have chosen, however calls fail.      *)
(* First, what these proofs and those of Stores_proofs need of folds.      *)
(***************************************************************************)
EXTENDS CycleCheck, ReadySet, Integers, FiniteSetTheorems, SequenceTheorems, TLAPS

-----------------------------------------------------------------------------
\* Folds.  The folds of the community modules are recursive functions on the
\* subsets of a finite set: such a function exists, by induction on the number
\* of elements.  The induction is a search for a least counterexample, since no
\* prover instantiates an induction theorem with a formula.

\* A non-empty set of numbers has a least one.
LEMMA LeastOf ==
    ASSUME NEW S, S \subseteq Nat, S # {}
    PROVE  \E m \in S : \A k \in S : m <= k
<1>1. PICK m \in S : \A k \in S : <<k, m>> \notin OpToRel(<, Nat)
  BY NatLessThanWellFounded, WFMin
<1>2. \A k \in S : ~(k < m)
  BY <1>1 DEF OpToRel
<1> QED
  BY <1>2

\* A fold over a finite set: pick says which element is next, step what it
\* does to the value.
Picks(pick, D) == \A s \in SUBSET D : s # {} => pick[s] \in s
Steps(step, D, V) == \A x \in D, v \in V : step[x][v] \in V
IsFold(G, D, V, base, pick, step) ==
    /\ G \in [SUBSET D -> V]
    /\ \A s \in SUBSET D :
           G[s] = IF s = {} THEN base ELSE step[pick[s]][G[s \ {pick[s]}]]

\* What a fold computes exists: by induction on the number of elements, as a
\* least counterexample.
LEMMA FoldExists ==
    ASSUME NEW D, IsFiniteSet(D), NEW V, NEW base \in V,
           NEW pick, Picks(pick, D), NEW step, Steps(step, D, V)
    PROVE  \E G : IsFold(G, D, V, base, pick, step)
<1> USE DEF Picks, Steps
<1> DEFINE Holds(G, s) ==
             G[s] = IF s = {} THEN base ELSE step[pick[s]][G[s \ {pick[s]}]]
           UpTo(n) == \E G \in [SUBSET D -> V] :
                          \A s \in SUBSET D : Cardinality(s) < n => Holds(G, s)
           Bad == {n \in Nat : ~UpTo(n)}
<1>1. \A s \in SUBSET D : IsFiniteSet(s) /\ Cardinality(s) \in Nat
  BY FS_Subset, FS_CardinalityType
<1>2. UpTo(0)
  <2> DEFINE G == [s \in SUBSET D |-> base]
  <2>1. G \in [SUBSET D -> V]
    OBVIOUS
  <2>2. \A s \in SUBSET D : ~(Cardinality(s) < 0)
    BY <1>1
  <2> HIDE DEF Holds, G
  <2> QED
    BY <2>1, <2>2
<1>3. ASSUME NEW n \in Nat, UpTo(n) PROVE UpTo(n + 1)
  <2>1. PICK G \in [SUBSET D -> V] : \A s \in SUBSET D : Cardinality(s) < n => Holds(G, s)
    BY <1>3
  <2> DEFINE H == [s \in SUBSET D |->
                      IF s = {} THEN base ELSE step[pick[s]][G[s \ {pick[s]}]]]
  <2>2. \A s \in SUBSET D : s \ {pick[s]} \in SUBSET D
    OBVIOUS
  <2>3. H \in [SUBSET D -> V]
    BY <2>2
  <2>4. ASSUME NEW s \in SUBSET D, Cardinality(s) < n + 1 PROVE Holds(H, s)
    <3>1. CASE s = {}
      BY <3>1
    <3>2. CASE s # {}
      <4> DEFINE t == s \ {pick[s]}
      <4>1. t \in SUBSET D /\ Cardinality(t) < n
        BY <1>1, <2>4, <3>2, FS_RemoveElement
      <4>2. Holds(G, t)
        BY <2>1, <4>1
      <4>3. H[t] = G[t]
        BY <4>1, <4>2
      <4>4. H[s] = step[pick[s]][G[t]]
        BY <3>2
      <4> HIDE DEF H, t
      <4> QED
        BY <3>2, <4>3, <4>4 DEF t
    <3> QED
      BY <3>1, <3>2
  <2> HIDE DEF Holds, H
  <2> QED
    BY <2>3, <2>4
<1> HIDE DEF UpTo
<1>4. Bad = {}
  <2>1. SUFFICES ASSUME Bad # {} PROVE FALSE
    OBVIOUS
  <2>2. PICK m \in Bad : \A k \in Bad : m <= k
    BY <2>1, LeastOf
  <2>3. m \in Nat /\ ~UpTo(m)
    OBVIOUS
  <2>4. m # 0
    BY <1>2, <2>3
  <2>5. m - 1 \in Nat /\ m - 1 \notin Bad
    BY <2>2, <2>3, <2>4
  <2>6. UpTo(m - 1)
    BY <2>5
  <2>7. UpTo((m - 1) + 1)
    BY <1>3, <2>5, <2>6
  <2> QED
    BY <2>3, <2>7
<1>5. Cardinality(D) + 1 \in Nat
  BY <1>1
<1>6. UpTo(Cardinality(D) + 1)
  BY <1>4, <1>5
<1>7. \A s \in SUBSET D : Cardinality(s) < Cardinality(D) + 1
  BY <1>1, FS_Subset
<1> QED
  BY <1>6, <1>7 DEF UpTo, IsFold

-----------------------------------------------------------------------------
\* MapThenSumSet, of a weight: G[t] is the sum over the set t.
Pick(t) == CHOOSE x \in t : TRUE
Sums(G, w, D) ==
    /\ G[{}] = 0
    /\ \A t \in SUBSET D : t # {} => G[t] = w[Pick(t)] + G[t \ {Pick(t)}]

LEMMA SumExists ==
    ASSUME NEW D, IsFiniteSet(D), NEW w \in [D -> Nat]
    PROVE  \E G \in [SUBSET D -> Nat] : Sums(G, w, D)
<1> DEFINE pick == [t \in SUBSET D |-> Pick(t)]
           step == [x \in D |-> [n \in Nat |-> w[x] + n]]
<1>1. \A t \in SUBSET D : t # {} => Pick(t) \in t
  BY DEF Pick
<1>2. Picks(pick, D)
  BY <1>1 DEF Picks
<1>3. Steps(step, D, Nat)
  BY DEF Steps
<1>4. 0 \in Nat
  OBVIOUS
<1>5. PICK G : IsFold(G, D, Nat, 0, pick, step)
  <2> HIDE DEF pick, step
  <2> QED
    BY <1>2, <1>3, <1>4, FoldExists
<1>6. G \in [SUBSET D -> Nat]
  BY <1>5 DEF IsFold
<1>7. G[{}] = 0
  BY <1>5 DEF IsFold
<1>8. ASSUME NEW t \in SUBSET D, t # {} PROVE G[t] = w[Pick(t)] + G[t \ {Pick(t)}]
  <2>1. Pick(t) \in D /\ t \ {Pick(t)} \in SUBSET D
    BY <1>1, <1>8
  <2>2. G[t] = step[Pick(t)][G[t \ {Pick(t)}]]
    BY <1>5, <1>8 DEF IsFold
  <2> QED
    BY <1>6, <2>1, <2>2
<1> HIDE DEF pick, step
<1> QED
  BY <1>6, <1>7, <1>8 DEF Sums

\* The weight of the elements of T grows by one.
GrowsOn(T, w, v, D) == \A x \in D : v[x] = w[x] + (IF x \in T THEN 1 ELSE 0)

\* A sum grows by the number of elements whose weight grows by one.
LEMMA SumGrows ==
    ASSUME NEW D, IsFiniteSet(D),
           NEW w \in [D -> Nat], NEW v \in [D -> Nat], NEW T \in SUBSET D,
           GrowsOn(T, w, v, D),
           NEW G, Sums(G, w, D), NEW H, Sums(H, v, D)
    PROVE  G[D] \in Nat /\ H[D] = G[D] + Cardinality(T)
<1> USE DEF GrowsOn
<1> DEFINE In(t) == {x \in t : x \in T}
           Holds(t) == G[t] \in Nat /\ H[t] = G[t] + Cardinality(In(t))
           Bad == {n \in Nat : \E t \in SUBSET D : Cardinality(t) = n /\ ~Holds(t)}
<1>1. \A t \in SUBSET D : /\ IsFiniteSet(t) /\ Cardinality(t) \in Nat
                          /\ IsFiniteSet(In(t)) /\ Cardinality(In(t)) \in Nat
  <2> TAKE t \in SUBSET D
  <2>1. IsFiniteSet(t) /\ In(t) \subseteq t
    BY FS_Subset
  <2>2. IsFiniteSet(In(t))
    BY <2>1, FS_Subset
  <2> HIDE DEF In
  <2> QED
    BY <2>1, <2>2, FS_CardinalityType
<1>2. ASSUME NEW t \in SUBSET D, t # {}, Holds(t \ {Pick(t)}) PROVE Holds(t)
  <2> DEFINE x == Pick(t)
             u == t \ {x}
  <2>1. x \in t /\ x \in D /\ u \in SUBSET D
    BY <1>2 DEF Pick
  <2>2. G[t] = w[x] + G[u] /\ H[t] = v[x] + H[u]
    BY <1>2 DEF Sums
  <2>3. Cardinality(In(t)) = Cardinality(In(u)) + (IF x \in T THEN 1 ELSE 0)
    <3>1. CASE x \in T
      <4>1. In(t) = In(u) \cup {x} /\ x \notin In(u)
        BY <2>1, <3>1
      <4>2. IsFiniteSet(In(u)) /\ Cardinality(In(u)) \in Nat
        BY <1>1, <2>1
      <4> HIDE DEF In
      <4> QED
        BY <3>1, <4>1, <4>2, FS_AddElement
    <3>2. CASE x \notin T
      <4>1. In(t) = In(u)
        BY <2>1, <3>2
      <4>2. Cardinality(In(u)) \in Nat
        BY <1>1, <2>1
      <4> HIDE DEF In
      <4> QED
        BY <3>2, <4>1, <4>2
    <3> QED
      BY <3>1, <3>2
  <2>4. G[u] \in Nat /\ H[u] = G[u] + Cardinality(In(u))
    BY <1>2
  <2>5. w[x] \in Nat /\ v[x] = w[x] + (IF x \in T THEN 1 ELSE 0)
    BY <2>1
  <2>6. Cardinality(In(u)) \in Nat
    BY <1>1, <2>1
  <2> HIDE DEF x, u, In
  <2> QED
    BY <2>2, <2>3, <2>4, <2>5, <2>6
<1>3. Holds({})
  <2>1. In({}) = {}
    OBVIOUS
  <2>2. Cardinality(In({})) = 0
    BY <2>1, FS_EmptySet
  <2> HIDE DEF In
  <2> QED
    BY <2>2 DEF Sums
<1> HIDE DEF Holds
<1>4. Bad = {}
  <2> SUFFICES ASSUME Bad # {} PROVE FALSE
    OBVIOUS
  <2>1. PICK n \in Bad : \A k \in Bad : n <= k
    <3>1. Bad \subseteq Nat
      OBVIOUS
    <3> HIDE DEF Bad
    <3> QED
      BY <3>1, LeastOf
  <2>2. PICK t \in SUBSET D : Cardinality(t) = n /\ ~Holds(t)
    OBVIOUS
  <2>3. t # {}
    BY <1>3, <2>2
  <2>4. Pick(t) \in t
    BY <2>3 DEF Pick
  <2>5. t \ {Pick(t)} \in SUBSET D
    OBVIOUS
  <2>6. Cardinality(t \ {Pick(t)}) = n - 1 /\ n - 1 \in Nat
    <3>1. IsFiniteSet(t) /\ Cardinality(t) \in Nat /\ Cardinality(t \ {Pick(t)}) \in Nat
      BY <1>1, <2>5
    <3>2. Cardinality(t \ {Pick(t)}) = Cardinality(t) - 1
      BY <2>4, <3>1, FS_RemoveElement
    <3> QED
      BY <2>2, <3>1, <3>2
  <2>7. n - 1 \notin Bad
    BY <2>1, <2>6
  <2>8. Holds(t \ {Pick(t)})
    BY <2>5, <2>6, <2>7
  <2> QED
    BY <1>2, <2>2, <2>3, <2>8
<1>5. Holds(D)
  <2>1. Cardinality(D) \in Nat /\ D \in SUBSET D
    BY <1>1
  <2> QED
    BY <1>4, <2>1
<1>6. In(D) = T
  OBVIOUS
<1> QED
  BY <1>5, <1>6 DEF Holds

LEMMA SumOfNothing ==
    ASSUME NEW D, IsFiniteSet(D), NEW w \in [D -> Nat], \A x \in D : w[x] = 0,
           NEW G, Sums(G, w, D)
    PROVE  G[D] = 0
<1> DEFINE Bad == {n \in Nat : \E t \in SUBSET D : Cardinality(t) = n /\ G[t] # 0}
<1>1. Bad = {}
  <2> SUFFICES ASSUME Bad # {} PROVE FALSE
    OBVIOUS
  <2>1. PICK n \in Bad : \A k \in Bad : n <= k
    <3>1. Bad \subseteq Nat
      OBVIOUS
    <3> HIDE DEF Bad
    <3> QED
      BY <3>1, LeastOf
  <2>2. PICK t \in SUBSET D : Cardinality(t) = n /\ G[t] # 0
    OBVIOUS
  <2>3. t # {}
    BY <2>2 DEF Sums
  <2>4. Pick(t) \in t /\ t \ {Pick(t)} \in SUBSET D
    BY <2>3 DEF Pick
  <2>5. Cardinality(t \ {Pick(t)}) = n - 1 /\ n - 1 \in Nat
    <3>1. /\ IsFiniteSet(t) /\ IsFiniteSet(t \ {Pick(t)})
          /\ Cardinality(t) \in Nat /\ Cardinality(t \ {Pick(t)}) \in Nat
      BY <2>4, FS_Subset, FS_CardinalityType
    <3>2. Cardinality(t \ {Pick(t)}) = Cardinality(t) - 1
      BY <2>4, <3>1, FS_RemoveElement
    <3> QED
      BY <2>2, <3>1, <3>2
  <2>6. G[t \ {Pick(t)}] = 0
    BY <2>1, <2>4, <2>5
  <2>7. w[Pick(t)] = 0
    BY <2>4
  <2> QED
    BY <2>2, <2>3, <2>6, <2>7 DEF Sums
<1>2. Cardinality(D) \in Nat
  BY FS_CardinalityType
<1> QED
  BY <1>1, <1>2

-----------------------------------------------------------------------------
\* CycleCheck.
\* What a node still waits for.
Missing(n) == Deps(n) \ taken

\* unseen counts what a node waits for, the queue holds the nodes that wait
\* for nothing, and what was taken waits for nothing and is in no set of
\* nodes that wait for each other.
KahnInv ==
    /\ document \in Documents
    /\ verdict \in {"running", "accepted", "cycle"}
    /\ taken \subseteq DOMAIN document
    /\ unseen = [n \in DOMAIN document |-> Cardinality(Missing(n))]
    /\ queue = {n \in DOMAIN document \ taken : Missing(n) = {}}
    /\ visited = Cardinality(taken)
    /\ \A n \in taken : Missing(n) = {}
    /\ \A S \in SUBSET DOMAIN document : Deadlocked(S) => S \cap taken = {}
    /\ verdict # "running" =>
           /\ queue = {}
           /\ verdict = "accepted" <=> visited = Cardinality(DOMAIN document)

-----------------------------------------------------------------------------
\* A document is finite, and so is what a node waits for.
LEMMA DocumentFinite ==
    ASSUME document \in Documents
    PROVE  /\ IsFiniteSet(DOMAIN document)
           /\ \A n : IsFiniteSet(Missing(n)) /\ Cardinality(Missing(n)) \in Nat
<1>1. IsFiniteSet(DOMAIN document)
  BY ContractConstants, FS_Subset
<1>2. ASSUME NEW n PROVE IsFiniteSet(Missing(n)) /\ Cardinality(Missing(n)) \in Nat
  <2>1. Missing(n) \in SUBSET DOMAIN document
    BY DEF Missing, Deps
  <2>2. IsFiniteSet(Missing(n))
    BY <1>1, <2>1, FS_Subset
  <2> QED BY <2>2, FS_CardinalityType
<1> QED BY <1>1, <1>2

LEMMA InitKahn == ContractInit => KahnInv
<1> SUFFICES ASSUME ContractInit PROVE KahnInv
  OBVIOUS
<1> USE DEF ContractInit
<1>1. \A n : Missing(n) = Deps(n)
  BY DEF Missing
<1>2. unseen = [n \in DOMAIN document |-> Cardinality(Missing(n))]
  BY <1>1
<1>3. queue = {n \in DOMAIN document \ taken : Missing(n) = {}}
  <2>1. \A n \in DOMAIN document : unseen[n] = 0 <=> Missing(n) = {}
    BY <1>2, DocumentFinite, FS_EmptySet
  <2> QED BY <2>1
<1>4. visited = Cardinality(taken)
  BY FS_EmptySet
<1> QED BY <1>2, <1>3, <1>4 DEF KahnInv

\* A node is taken off the queue.
LEMMA VisitKahn ==
    ASSUME KahnInv, NEW current \in DOMAIN document, Visit(current)
    PROVE  KahnInv'
<1> USE DEF KahnInv, Visit
<1>1. /\ current \in DOMAIN document \ taken
      /\ Missing(current) = {}
      /\ document' = document
      /\ \A n : Deps(n)' = Deps(n)
      /\ taken' = taken \cup {current}
  BY DEF Deps
<1>2. \A n : Missing(n)' = Missing(n) \ {current}
  BY <1>1 DEF Missing
<1>3. \A n : current \in Deps(n) <=> current \in Missing(n)
  BY <1>1 DEF Missing
<1>4. unseen' = [n \in DOMAIN document' |-> Cardinality(Missing(n)')]
  <2>1. ASSUME NEW n \in DOMAIN document
        PROVE  (IF current \in Deps(n) THEN unseen[n] - 1 ELSE unseen[n])
                  = Cardinality(Missing(n)')
    <3>1. unseen[n] = Cardinality(Missing(n))
      OBVIOUS
    <3>2. IsFiniteSet(Missing(n))
      BY DocumentFinite
    <3>3. Cardinality(Missing(n) \ {current})
             = IF current \in Missing(n) THEN Cardinality(Missing(n)) - 1
                                         ELSE Cardinality(Missing(n))
      BY <3>2, FS_RemoveElement
    <3> QED BY <1>2, <1>3, <3>1, <3>3
  <2> QED BY <1>1, <2>1
<1>5. \A n \in DOMAIN document : unseen'[n] = 0 <=> Missing(n)' = {}
  <2> SUFFICES ASSUME NEW n \in DOMAIN document
               PROVE  unseen'[n] = 0 <=> Missing(n)' = {}
    OBVIOUS
  <2>1. unseen'[n] = Cardinality(Missing(n) \ {current})
    BY <1>1, <1>2, <1>4
  <2>2. IsFiniteSet(Missing(n))
    BY DocumentFinite
  <2>3. IsFiniteSet(Missing(n) \ {current})
    BY <2>2, FS_RemoveElement
  <2> QED BY <1>2, <2>1, <2>3, FS_EmptySet
<1>6. \A n \in taken' : Missing(n)' = {}
  BY <1>1, <1>2
<1>7. queue' = {n \in DOMAIN document' \ taken' : Missing(n)' = {}}
  BY <1>1, <1>2, <1>3, <1>5
<1>8. visited' = Cardinality(taken')
  <2>1. IsFiniteSet(taken)
    BY DocumentFinite, FS_Subset
  <2> QED BY <1>1, <2>1, FS_AddElement
<1>9. \A S \in SUBSET DOMAIN document' : Deadlocked(S)' => S \cap taken' = {}
  <2> SUFFICES ASSUME NEW S \in SUBSET DOMAIN document, Deadlocked(S)
               PROVE  S \cap taken' = {}
    BY <1>1 DEF Deadlocked
  <2>1. S \cap taken = {}
    OBVIOUS
  <2>2. current \notin S
    BY <1>1, <2>1 DEF Deadlocked, Missing
  <2> QED BY <1>1, <2>1, <2>2
<1>10. verdict' = "running"
  BY <1>1
<1> QED BY <1>1, <1>4, <1>6, <1>7, <1>8, <1>9, <1>10

\* The count is compared.
LEMMA ConcludeKahn ==
    ASSUME KahnInv, Conclude
    PROVE  KahnInv'
BY DEF KahnInv, Conclude, Missing, Deps, Deadlocked

LEMMA StutterKahn ==
    ASSUME KahnInv, UNCHANGED contractVars
    PROVE  KahnInv'
BY DEF KahnInv, contractVars, Missing, Deps, Deadlocked

THEOREM KahnInvariant == ContractSpec => []KahnInv
<1>1. ContractInit => KahnInv
  BY InitKahn
<1>2. KahnInv /\ [ContractNext]_contractVars => KahnInv'
  <2> SUFFICES ASSUME KahnInv, [ContractNext]_contractVars PROVE KahnInv'
    OBVIOUS
  <2>1. CASE \E n \in DOMAIN document : Visit(n)
    BY <2>1, VisitKahn
  <2>2. CASE Conclude
    BY <2>2, ConcludeKahn
  <2>3. CASE UNCHANGED contractVars
    BY <2>3, StutterKahn
  <2> QED BY <2>1, <2>2, <2>3 DEF ContractNext
<1> QED BY <1>1, <1>2, PTL DEF ContractSpec

-----------------------------------------------------------------------------
\* Once the queue is empty, what is left depends on what is left.
LEMMA LeftDeadlocked ==
    ASSUME KahnInv, queue = {}, DOMAIN document \ taken # {}
    PROVE  Deadlocked(DOMAIN document \ taken)
<1>1. \A n \in DOMAIN document \ taken : Missing(n) # {}
  BY DEF KahnInv
<1> QED BY <1>1 DEF Deadlocked, Missing, Deps

LEMMA AnswerExact == KahnInv => VerdictExact
<1> SUFFICES ASSUME KahnInv, verdict # "running"
             PROVE  AcceptedIffRunnable /\ NamesTheStuck
  BY DEF VerdictExact, AcceptedIffRunnable, NamesTheStuck
<1>1. queue = {} /\ document \in Documents /\ taken \in SUBSET DOMAIN document
  BY DEF KahnInv
<1>2. verdict = "accepted" <=> taken = DOMAIN document
  <2>1. IsFiniteSet(DOMAIN document)
    BY <1>1, DocumentFinite
  <2>2. Cardinality(taken) = Cardinality(DOMAIN document) => taken = DOMAIN document
    BY <1>1, <2>1, FS_Subset
  <2> QED BY <2>2 DEF KahnInv
<1>3. \A S \in SUBSET DOMAIN document : Deadlocked(S) => S \subseteq DOMAIN document \ taken
  BY DEF KahnInv
<1>4. AcceptedIffRunnable
  <2>1. CASE taken = DOMAIN document
    BY <1>2, <1>3, <2>1 DEF AcceptedIffRunnable, Deadlocked
  <2>2. CASE taken # DOMAIN document
    <3>1. Deadlocked(DOMAIN document \ taken)
      BY <1>1, <2>2, LeftDeadlocked
    <3> QED BY <1>2, <2>2, <3>1 DEF AcceptedIffRunnable
  <2> QED BY <2>1, <2>2
<1>5. Residual = DOMAIN document \ taken
  <2>1. \A n \in DOMAIN document : unseen[n] > 0 <=> Missing(n) # {}
    BY <1>1, DocumentFinite, FS_EmptySet DEF KahnInv
  <2>2. \A n \in taken : Missing(n) = {}
    BY DEF KahnInv
  <2>3. \A n \in DOMAIN document \ taken : Missing(n) # {}
    BY <1>1 DEF KahnInv
  <2> QED BY <1>1, <2>1, <2>2, <2>3 DEF Residual
<1>6. NamesTheStuck
  <2>1. CASE DOMAIN document \ taken = {}
    BY <1>1, <1>2, <2>1 DEF NamesTheStuck
  <2>2. CASE DOMAIN document \ taken # {}
    <3>1. Deadlocked(DOMAIN document \ taken)
      BY <1>1, <2>2, LeftDeadlocked
    <3> QED BY <1>3, <1>5, <3>1 DEF NamesTheStuck
  <2> QED BY <2>1, <2>2
<1> QED BY <1>4, <1>6

\* What the check counts and collects is of the document.
THEOREM ContractTypeCorrect == ContractSpec => []ContractTypeOK
<1>1. KahnInv => ContractTypeOK
  <2> SUFFICES ASSUME KahnInv PROVE ContractTypeOK
    OBVIOUS
  <2>1. \A n : Cardinality(Missing(n)) \in Nat
    BY DocumentFinite DEF KahnInv
  <2>2. visited \in Nat
    <3>1. IsFiniteSet(DOMAIN document) /\ taken \subseteq DOMAIN document /\ visited = Cardinality(taken)
      BY DocumentFinite DEF KahnInv
    <3> QED
      BY <3>1, FS_Subset, FS_CardinalityType
  <2>3. unseen \in [DOMAIN document -> Int]
    BY <2>1 DEF KahnInv
  <2> QED
    BY <2>2, <2>3 DEF KahnInv, ContractTypeOK
<1> QED
  BY <1>1, KahnInvariant, PTL

\* _check_cycles returns an error exactly when some nodes can be executed in no
\* order, and then names the nodes that never can.
THEOREM CheckExact == ContractSpec => []VerdictExact
BY KahnInvariant, AnswerExact, PTL

-----------------------------------------------------------------------------
\* InOrder, as the recursion over positions that its fold is.
LEMMA OrderFacts ==
    /\ Len(NodeOrder) \in Nat
    /\ DOMAIN NodeOrder = 1..Len(NodeOrder)
    /\ \A i \in 1..Len(NodeOrder) : NodeOrder[i] \in NodeIds
    /\ IsFiniteSet(NodeIds)
<1>1. Len(NodeOrder) \in Nat /\ DOMAIN NodeOrder = 1..Len(NodeOrder)
  BY ReadySetConstants, LenProperties
<1>2. NodeOrder \in Surjection(1..Len(NodeOrder), NodeIds)
  BY <1>1, ReadySetConstants, LenProperties DEF Surjection, NodeIds
<1>3. IsFiniteSet(1..Len(NodeOrder))
  BY <1>1, FS_Interval
<1> QED
  BY <1>1, <1>2, <1>3, FS_Surjection DEF NodeIds

LEMMA MaxUpTo ==
    ASSUME NEW k \in Nat \ {0}
    PROVE  Max(1..k) = k
BY DEF Max

LEMMA InOrderFold ==
    ASSUME NEW S
    PROVE  \E G : /\ InOrder(S) = G[Len(NodeOrder)]
                 /\ G[0] = <<>>
                 /\ \A i \in 1..Len(NodeOrder) :
                        G[i] = IF NodeOrder[i] \in S
                               THEN Append(G[i - 1], NodeOrder[i]) ELSE G[i - 1]
<1> DEFINE D == DOMAIN NodeOrder
           Rest(F, s) == F[s \ {Max(s)}]
           Step(F, s) == IF NodeOrder[Max(s)] \in S
                         THEN Append(Rest(F, s), NodeOrder[Max(s)]) ELSE Rest(F, s)
           Is(F) == F = [s \in SUBSET D |-> IF s = {} THEN <<>> ELSE Step(F, s)]
           fold == CHOOSE F : Is(F)
<1>1. InOrder(S) = fold[D]
  BY DEF InOrder, FoldLeft, MapThenFoldSet
<1>2. \A s \in SUBSET D : s # {} => Max(s) \in s
  <2> SUFFICES ASSUME NEW s \in SUBSET D, s # {} PROVE Max(s) \in s
    OBVIOUS
  <2> DEFINE T == {n \in Nat : \A k \in s : k <= n}
  <2>1. Len(NodeOrder) \in T
    BY OrderFacts
  <2>2. PICK m \in T : \A n \in T : m <= n
    BY <2>1, LeastOf
  <2>3. m \in s
    <3> SUFFICES ASSUME m \notin s PROVE FALSE
      OBVIOUS
    <3>1. \A k \in s : k \in Nat /\ k < m
      BY <2>2, OrderFacts
    <3>2. m - 1 \in T
      BY <2>2, <3>1
    <3> QED
      BY <2>2, <3>2
  <2>4. \A k \in s : m >= k
    BY <2>2, OrderFacts
  <2> QED
    BY <2>3, <2>4 DEF Max
<1>3. Is(fold)
  <2> DEFINE V == Seq(NodeIds)
             pick == [s \in SUBSET D |-> Max(s)]
             step == [x \in D |-> [v \in V |->
                         IF NodeOrder[x] \in S THEN Append(v, NodeOrder[x]) ELSE v]]
  <2>1. IsFiniteSet(D)
    BY OrderFacts, FS_Interval
  <2>2. <<>> \in V
    OBVIOUS
  <2>3. Picks(pick, D)
    BY <1>2 DEF Picks
  <2>4. Steps(step, D, V)
    BY OrderFacts DEF Steps
  <2>5. PICK G : IsFold(G, D, V, <<>>, pick, step)
    <3> HIDE DEF D, V, pick, step
    <3> QED
      BY <2>1, <2>2, <2>3, <2>4, FoldExists
  <2>6. ASSUME NEW s \in SUBSET D
        PROVE  G[s] = IF s = {} THEN <<>> ELSE Step(G, s)
    BY <1>2, <2>5 DEF IsFold
  <2>7. Is(G)
    BY <2>5, <2>6 DEF IsFold
  <2> HIDE DEF Is
  <2> QED
    BY <2>7
<1> DEFINE H == [i \in 0..Len(NodeOrder) |-> fold[1..i]]
<1>4. H[0] = <<>>
  <2>1. 1..0 = {} /\ 1..0 \in SUBSET D
    BY OrderFacts
  <2>2. fold[1..0] = <<>>
    <3> HIDE DEF fold
    <3> QED BY <1>3, <2>1
  <2> QED
    BY <2>2, OrderFacts
<1>5. ASSUME NEW i \in 1..Len(NodeOrder)
      PROVE  H[i] = IF NodeOrder[i] \in S
                    THEN Append(H[i - 1], NodeOrder[i]) ELSE H[i - 1]
  <2>1. 1..i \in SUBSET D /\ 1..i # {} /\ Max(1..i) = i /\ (1..i) \ {i} = 1..(i - 1)
    BY OrderFacts, MaxUpTo
  <2> HIDE DEF fold
  <2>2. fold[1..i] = Step(fold, 1..i)
    BY <1>3, <2>1
  <2> QED
    BY <2>1, <2>2, OrderFacts
<1>6. InOrder(S) = H[Len(NodeOrder)]
  BY <1>1, OrderFacts
<1> HIDE DEF H
<1> QED
  BY <1>4, <1>5, <1>6

-----------------------------------------------------------------------------
\* Sequences without repetition, and what is in them.
Distinct(s, S) == s \in Seq(S) /\ IsInjective(s)

LEMMA AppendedDistinct ==
    ASSUME NEW S, NEW s, Distinct(s, S), NEW e \in S, e \notin ToSet(s)
    PROVE  /\ Distinct(Append(s, e), S)
           /\ ToSet(Append(s, e)) = ToSet(s) \cup {e}
<1>1. /\ Append(s, e) \in Seq(S)
      /\ DOMAIN s = 1..Len(s) /\ Len(s) \in Nat
      /\ DOMAIN Append(s, e) = 1..(Len(s) + 1)
      /\ \A i \in 1..Len(s) : Append(s, e)[i] = s[i]
      /\ Append(s, e)[Len(s) + 1] = e
  BY AppendProperties, LenProperties DEF Distinct
<1>2. IsInjective(Append(s, e))
  <2> SUFFICES ASSUME NEW i \in 1..(Len(s) + 1), NEW j \in 1..(Len(s) + 1),
                      Append(s, e)[i] = Append(s, e)[j]
               PROVE  i = j
    BY <1>1 DEF IsInjective
  <2>1. \A k \in 1..Len(s) : s[k] # e
    BY <1>1 DEF ToSet
  <2>2. CASE i = Len(s) + 1
    BY <1>1, <2>1, <2>2
  <2>3. CASE i # Len(s) + 1
    BY <1>1, <2>1, <2>3 DEF Distinct, IsInjective
  <2> QED
    BY <2>2, <2>3
<1>3. ToSet(Append(s, e)) = ToSet(s) \cup {e}
  BY <1>1 DEF ToSet
<1> QED
  BY <1>1, <1>2, <1>3 DEF Distinct

LEMMA JoinedDistinct ==
    ASSUME NEW S, NEW s, Distinct(s, S), NEW t, Distinct(t, S), ToSet(s) \cap ToSet(t) = {}
    PROVE  /\ Distinct(s \o t, S)
           /\ ToSet(s \o t) = ToSet(s) \cup ToSet(t)
<1>1. /\ s \o t \in Seq(S)
      /\ DOMAIN s = 1..Len(s) /\ Len(s) \in Nat
      /\ DOMAIN t = 1..Len(t) /\ Len(t) \in Nat
      /\ DOMAIN (s \o t) = 1..(Len(s) + Len(t))
      /\ \A i \in 1..(Len(s) + Len(t)) :
             (s \o t)[i] = IF i <= Len(s) THEN s[i] ELSE t[i - Len(s)]
  BY ConcatProperties, LenProperties DEF Distinct
<1>2. \A i \in 1..Len(s), j \in 1..Len(t) : s[i] # t[j]
  BY <1>1 DEF ToSet
<1>3. IsInjective(s \o t)
  <2> SUFFICES ASSUME NEW i \in 1..(Len(s) + Len(t)), NEW j \in 1..(Len(s) + Len(t)),
                      (s \o t)[i] = (s \o t)[j]
               PROVE  i = j
    BY <1>1 DEF IsInjective
  <2>1. CASE i <= Len(s) /\ j <= Len(s)
    BY <1>1, <2>1 DEF Distinct, IsInjective
  <2>2. CASE i > Len(s) /\ j > Len(s)
    <3>1. i - Len(s) \in 1..Len(t) /\ j - Len(s) \in 1..Len(t)
      BY <1>1, <2>2
    <3>2. t[i - Len(s)] = t[j - Len(s)]
      BY <1>1, <2>2
    <3>3. i - Len(s) = j - Len(s)
      BY <1>1, <3>1, <3>2 DEF Distinct, IsInjective
    <3> QED
      BY <1>1, <3>3
  <2>3. CASE i <= Len(s) /\ j > Len(s)
    BY <1>1, <1>2, <2>3
  <2>4. CASE i > Len(s) /\ j <= Len(s)
    BY <1>1, <1>2, <2>4
  <2> QED
    BY <1>1, <2>1, <2>2, <2>3, <2>4
<1>4. ToSet(s \o t) = ToSet(s) \cup ToSet(t)
  <2>1. \A j \in 1..Len(t) : /\ Len(s) + j \in 1..(Len(s) + Len(t))
                             /\ (s \o t)[Len(s) + j] = t[j]
    BY <1>1
  <2>2. ToSet(t) \subseteq ToSet(s \o t)
    BY <1>1, <2>1 DEF ToSet
  <2>3. ToSet(s) \subseteq ToSet(s \o t)
    BY <1>1 DEF ToSet
  <2>4. ToSet(s \o t) \subseteq ToSet(s) \cup ToSet(t)
    <3> SUFFICES ASSUME NEW i \in 1..(Len(s) + Len(t))
                 PROVE  (s \o t)[i] \in ToSet(s) \cup ToSet(t)
      BY <1>1 DEF ToSet
    <3> QED
      BY <1>1 DEF ToSet
  <2> QED
    BY <2>2, <2>3, <2>4
<1> QED
  BY <1>1, <1>3, <1>4 DEF Distinct

\* The nodes of S, each once.
LEMMA InOrderFacts ==
    ASSUME NEW S \in SUBSET NodeIds
    PROVE  Distinct(InOrder(S), NodeIds) /\ ToSet(InOrder(S)) = S
<1>1. PICK G : /\ InOrder(S) = G[Len(NodeOrder)]
               /\ G[0] = <<>>
               /\ \A i \in 1..Len(NodeOrder) :
                      G[i] = IF NodeOrder[i] \in S
                             THEN Append(G[i - 1], NodeOrder[i]) ELSE G[i - 1]
  BY InOrderFold
<1> DEFINE Upto(k) == {NodeOrder[i] : i \in 1..k} \cap S
           Good(k) == Distinct(G[k], NodeIds) /\ ToSet(G[k]) = Upto(k)
           Bad == {k \in 0..Len(NodeOrder) : ~Good(k)}
<1>2. Good(0)
  BY <1>1 DEF Distinct, IsInjective, ToSet
<1>3. ASSUME NEW k \in 1..Len(NodeOrder), Good(k - 1) PROVE Good(k)
  <2>1. /\ NodeOrder[k] \in NodeIds
        /\ {NodeOrder[i] : i \in 1..k} = {NodeOrder[i] : i \in 1..(k - 1)} \cup {NodeOrder[k]}
    BY OrderFacts
  <2>2. NodeOrder[k] \notin {NodeOrder[i] : i \in 1..(k - 1)}
    BY OrderFacts, ReadySetConstants DEF IsInjective
  <2>3. CASE NodeOrder[k] \in S
    <3>1. G[k] = Append(G[k - 1], NodeOrder[k])
      BY <1>1, <2>3
    <3>2. Upto(k) = Upto(k - 1) \cup {NodeOrder[k]}
      BY <2>1, <2>3
    <3>3. NodeOrder[k] \notin ToSet(G[k - 1])
      BY <1>3, <2>2
    <3> QED
      BY <1>3, <2>1, <3>1, <3>2, <3>3, AppendedDistinct
  <2>4. CASE NodeOrder[k] \notin S
    BY <1>1, <1>3, <2>1, <2>4
  <2> QED
    BY <2>3, <2>4
<1> HIDE DEF Good
<1>4. Bad = {}
  <2> SUFFICES ASSUME Bad # {} PROVE FALSE
    OBVIOUS
  <2>1. Bad \subseteq Nat
    BY OrderFacts
  <2>2. PICK k \in Bad : \A j \in Bad : k <= j
    BY <2>1, LeastOf
  <2>3. k # 0
    BY <1>2, <2>2
  <2>4. k \in 1..Len(NodeOrder) /\ k - 1 \in 0..Len(NodeOrder) /\ k - 1 \notin Bad
    BY <2>2, <2>3, OrderFacts
  <2> QED
    BY <1>3, <2>2, <2>4
<1>5. Good(Len(NodeOrder))
  BY <1>4, OrderFacts
<1>6. Upto(Len(NodeOrder)) = S
  BY OrderFacts DEF NodeIds
<1> QED
  BY <1>1, <1>5, <1>6 DEF Good

LEMMA FirstOfDistinct ==
    ASSUME NEW S, NEW s \in Seq(S), NEW t \in Seq(S), IsInjective(s \o t)
    PROVE  IsInjective(s)
<1>1. /\ DOMAIN s = 1..Len(s) /\ Len(s) \in Nat /\ Len(t) \in Nat
      /\ DOMAIN (s \o t) = 1..(Len(s) + Len(t))
      /\ \A i \in 1..Len(s) : (s \o t)[i] = s[i]
  BY ConcatProperties, LenProperties
<1> QED
  BY <1>1 DEF IsInjective

LEMMA HeadMoves ==
    ASSUME NEW S, NEW h \in Seq(S), NEW s \in Seq(S), s # <<>>
    PROVE  /\ Append(h, Head(s)) \o Tail(s) = h \o s
           /\ Append(h, Head(s)) \in Seq(S)
           /\ Head(s) \in ToSet(h \o s)
           /\ ToSet(Append(h, Head(s))) = ToSet(h) \cup {Head(s)}
<1>1. /\ Head(s) \in S /\ Tail(s) \in Seq(S) /\ Len(Tail(s)) = Len(s) - 1
      /\ \A i \in 1..Len(Tail(s)) : Tail(s)[i] = s[i + 1]
      /\ Len(s) \in Nat \ {0} /\ Len(h) \in Nat /\ Head(s) = s[1]
  BY HeadTailProperties, LenProperties, EmptySeq
<1>2. /\ Append(h, Head(s)) \in Seq(S)
      /\ Len(Append(h, Head(s))) = Len(h) + 1
      /\ DOMAIN Append(h, Head(s)) = 1..(Len(h) + 1)
      /\ DOMAIN h = 1..Len(h)
      /\ \A i \in 1..Len(h) : Append(h, Head(s))[i] = h[i]
      /\ Append(h, Head(s))[Len(h) + 1] = Head(s)
  BY <1>1, AppendProperties, LenProperties
<1>3. /\ h \o s \in Seq(S) /\ Len(h \o s) = Len(h) + Len(s)
      /\ DOMAIN (h \o s) = 1..(Len(h) + Len(s))
      /\ \A i \in 1..(Len(h) + Len(s)) :
             (h \o s)[i] = IF i <= Len(h) THEN h[i] ELSE s[i - Len(h)]
  BY ConcatProperties, LenProperties
<1>4. Append(h, Head(s)) \o Tail(s) = h \o s
  <2> DEFINE a == Append(h, Head(s))
             t == Tail(s)
  <2>1. /\ a \o t \in Seq(S) /\ Len(a \o t) = Len(a) + Len(t)
        /\ \A i \in 1..(Len(a) + Len(t)) :
               (a \o t)[i] = IF i <= Len(a) THEN a[i] ELSE t[i - Len(a)]
    BY <1>1, <1>2, ConcatProperties
  <2>2. ASSUME NEW i \in 1..(Len(h) + Len(s)) PROVE (a \o t)[i] = (h \o s)[i]
    <3>1. CASE i <= Len(h)
      BY <1>1, <1>2, <1>3, <2>1, <3>1
    <3>2. CASE i = Len(h) + 1
      <4>1. (a \o t)[i] = Head(s)
        BY <1>1, <1>2, <2>1, <3>2
      <4>2. (h \o s)[i] = s[1]
        BY <1>1, <1>3, <3>2
      <4> QED
        BY <1>1, <4>1, <4>2
    <3>3. CASE i > Len(h) + 1
      <4>1. (a \o t)[i] = t[i - (Len(h) + 1)]
        BY <1>1, <1>2, <2>1, <3>3
      <4>2. t[i - (Len(h) + 1)] = s[i - Len(h)]
        BY <1>1, <3>3
      <4>3. (h \o s)[i] = s[i - Len(h)]
        BY <1>1, <1>3, <3>3
      <4> QED
        BY <4>1, <4>2, <4>3
    <3> QED
      BY <1>1, <3>1, <3>2, <3>3
  <2>3. Len(a \o t) = Len(h \o s)
    BY <1>1, <1>2, <1>3, <2>1
  <2> HIDE DEF a, t
  <2>4. a \o t = h \o s
    BY <1>3, <2>1, <2>2, <2>3, SeqEqual
  <2> QED
    BY <2>4 DEF a, t
<1>5. Head(s) \in ToSet(h \o s)
  <2>1. Len(h) + 1 \in DOMAIN (h \o s) /\ (h \o s)[Len(h) + 1] = Head(s)
    BY <1>1, <1>3
  <2> QED
    BY <2>1 DEF ToSet
<1>6. ToSet(Append(h, Head(s))) = ToSet(h) \cup {Head(s)}
  BY <1>1, <1>2 DEF ToSet
<1> QED
  BY <1>2, <1>4, <1>5, <1>6

LEMMA RemoveHead ==
    ASSUME NEW S, NEW s \in Seq(S), s # <<>>
    PROVE  RemoveFirst(s, Head(s)) = Tail(s)
<1>1. Len(s) \in Nat \ {0} /\ Head(s) = s[1] /\ Tail(s) = SubSeq(s, 2, Len(s))
  BY HeadTailProperties, LenProperties, EmptySeq, TailIsSubSeq
<1> DEFINE I == {i \in 1..Len(s) : s[i] = Head(s)}
<1>2. 1 \in I /\ \A i \in I : 1 <= i
  BY <1>1
<1>3. Min(I) = 1
  BY <1>2 DEF Min
<1>4. SelectInSeq(s, LAMBDA v : v = Head(s)) = 1
  BY <1>2, <1>3 DEF SelectInSeq
<1>5. SubSeq(s, 1, 0) = <<>> /\ SubSeq(s, 2, Len(s)) \in Seq(S)
  BY <1>1, SubSeqEmpty, HeadTailProperties
<1>6. RemoveAt(s, 1) = Tail(s)
  <2>1. RemoveAt(s, 1) = SubSeq(s, 1, 1 - 1) \o SubSeq(s, 1 + 1, Len(s))
    BY DEF RemoveAt
  <2> QED
    BY <1>1, <1>5, <2>1, ConcatEmptySeq
<1>7. \E i \in 1..Len(s) : s[i] = Head(s)
  BY <1>1
<1> QED
  BY <1>4, <1>6, <1>7 DEF RemoveFirst

-----------------------------------------------------------------------------
\* ReadySet.  What was ever queued is what was handed out and what is queued
\* still: every node whose dependencies are finished, each once.
Free == {n \in NodeIds : plan[n] \subseteq finished}

MirrorInv ==
    /\ plan \in Plans
    /\ handed \in Seq(NodeIds)
    /\ mirror \in ReadyQueues
    /\ Distinct(handed \o mirror.ready, NodeIds)
    /\ ToSet(handed \o mirror.ready) = Free
    /\ finished \subseteq ToSet(handed)
    /\ mirror.degree = [n \in NodeIds |-> Cardinality(plan[n] \ finished)]

\* As long as the client asks the daemon, the two queues are the same.
ReadyInv ==
    /\ MirrorInv
    /\ reachable \in BOOLEAN
    /\ daemonSet \subseteq ReadyQueues
    /\ reachable => daemonSet \subseteq {mirror}

LEMMA PlanFacts ==
    ASSUME plan \in Plans
    PROVE  /\ \A n \in NodeIds : plan[n] \subseteq NodeIds
           /\ \A n \in NodeIds : \A S : /\ IsFiniteSet(plan[n] \ S)
                                       /\ Cardinality(plan[n] \ S) \in Nat
           /\ DOMAIN plan = NodeIds
<1>1. plan \in [NodeIds -> SUBSET NodeIds]
  BY ReadySetConstants
<1>2. ASSUME NEW n \in NodeIds, NEW S
      PROVE  IsFiniteSet(plan[n] \ S) /\ Cardinality(plan[n] \ S) \in Nat
  <2>1. plan[n] \ S \in SUBSET NodeIds
    BY <1>1
  <2> QED
    BY <2>1, OrderFacts, FS_Subset, FS_CardinalityType
<1> QED
  BY <1>1, <1>2

LEMMA InitMirror ==
    ASSUME plan \in Plans, mirror = FreshQueue(plan), handed = <<>>, finished = {}
    PROVE  MirrorInv
<1> DEFINE S == {n \in NodeIds : plan[n] = {}}
<1>1. Distinct(InOrder(S), NodeIds) /\ ToSet(InOrder(S)) = S
  BY InOrderFacts
<1>2. /\ mirror.ready = InOrder(S)
      /\ mirror.degree = [n \in NodeIds |-> Cardinality(plan[n])]
      /\ mirror = [ready |-> mirror.ready, degree |-> mirror.degree]
  BY DEF FreshQueue
<1>3. mirror.degree \in [NodeIds -> Int]
  <2>1. \A n \in NodeIds : plan[n] \ {} = plan[n] /\ Cardinality(plan[n] \ {}) \in Nat
    BY PlanFacts
  <2> QED
    BY <1>2, <2>1
<1>4. handed \o mirror.ready = InOrder(S)
  BY <1>1, <1>2, ConcatEmptySeq DEF Distinct
<1>5. S = Free
  BY DEF Free
<1>6. mirror.degree = [n \in NodeIds |-> Cardinality(plan[n] \ finished)]
  <2>1. \A n \in NodeIds : plan[n] \ finished = plan[n]
    OBVIOUS
  <2> QED
    BY <1>2, <2>1
<1>7. mirror \in ReadyQueues
  BY <1>1, <1>2, <1>3 DEF ReadyQueues, Distinct
<1> HIDE DEF S
<1> QED
  BY <1>1, <1>4, <1>5, <1>6, <1>7 DEF MirrorInv

\* A node goes from the queue to those handed out.
LEMMA PullMoves ==
    ASSUME MirrorInv, Hand(AtHead(mirror)), mirror' = Popped(mirror),
           UNCHANGED <<plan, finished>>
    PROVE  /\ MirrorInv'
           /\ handed' # handed =>
                  handed' = Append(handed, AtHead(mirror)) /\ IsInjective(handed')
<1> USE DEF MirrorInv, ReadyQueues
<1>1. CASE mirror.ready = <<>>
  <2>1. handed' = handed /\ mirror' = mirror
    BY <1>1 DEF Hand, AtHead, Popped
  <2> QED
    BY <2>1 DEF Free
<1>2. CASE mirror.ready # <<>>
  <2>1. Head(mirror.ready) \in NodeIds /\ Tail(mirror.ready) \in Seq(NodeIds)
    BY <1>2, HeadTailProperties
  <2>2. /\ AtHead(mirror) = Head(mirror.ready)
        /\ handed' = Append(handed, Head(mirror.ready))
        /\ mirror' = [mirror EXCEPT !.ready = Tail(@)]
    BY <1>2, <2>1, ReadySetConstants DEF Hand, AtHead, Popped
  <2>3. /\ mirror'.ready = Tail(mirror.ready)
        /\ mirror'.degree = mirror.degree
        /\ mirror' \in ReadyQueues
    BY <2>1, <2>2
  <2>4. /\ handed' \o mirror'.ready = handed \o mirror.ready
        /\ handed' \in Seq(NodeIds)
        /\ ToSet(handed) \subseteq ToSet(handed')
    <3> DEFINE q == mirror.ready
    <3>1. q \in Seq(NodeIds)
      OBVIOUS
    <3> HIDE DEF q
    <3>2. /\ Append(handed, Head(q)) \o Tail(q) = handed \o q
          /\ Append(handed, Head(q)) \in Seq(NodeIds)
          /\ ToSet(Append(handed, Head(q))) = ToSet(handed) \cup {Head(q)}
      BY <1>2, <3>1, HeadMoves DEF q
    <3> QED
      BY <2>2, <2>3, <3>2 DEF q
  <2>5. MirrorInv'
    BY <2>3, <2>4 DEF Free
  <2>6. IsInjective(handed')
    <3> DEFINE both == handed' \o mirror'.ready
    <3>1. IsInjective(both)
      BY <2>4 DEF Distinct
    <3>2. handed' \in Seq(NodeIds) /\ mirror'.ready \in Seq(NodeIds)
      BY <2>1, <2>3, <2>4
    <3> QED
      BY <3>1, <3>2, FirstOfDistinct
  <2> QED
    BY <2>2, <2>5, <2>6
<1> QED
  BY <1>1, <1>2

\* A node that completes frees the nodes whose last open dependency it was.
LEMMA CompleteFrees ==
    ASSUME MirrorInv, NEW n \in NodeIds, CompleteLocal(n)
    PROVE  MirrorInv'
<1> USE DEF MirrorInv
<1> DEFINE S == {m \in NodeIds : n \in plan[m] /\ mirror.degree[m] = 1}
<1>1. /\ n \in ToSet(handed) \ finished
      /\ finished' = finished \cup {n}
      /\ mirror' = Freed(mirror, n)
      /\ plan' = plan /\ handed' = handed
  BY DEF CompleteLocal
<1>2. /\ mirror.ready \in Seq(NodeIds)
      /\ mirror.degree \in [NodeIds -> Int]
  BY DEF ReadyQueues
<1>3. Distinct(InOrder(S), NodeIds) /\ ToSet(InOrder(S)) = S
  BY InOrderFacts
<1>4. /\ mirror'.ready = mirror.ready \o InOrder(S)
      /\ mirror'.degree = [m \in NodeIds |->
                               IF n \in plan[m] THEN mirror.degree[m] - 1
                                                ELSE mirror.degree[m]]
      /\ mirror' = [ready |-> mirror'.ready, degree |-> mirror'.degree]
  BY <1>1 DEF Freed
<1>5. \A m \in NodeIds : plan[m] \ finished' = (plan[m] \ finished) \ {n}
  BY <1>1
<1>6. ASSUME NEW m \in NodeIds
      PROVE  /\ Cardinality(plan[m] \ finished')
                    = IF n \in plan[m] THEN mirror.degree[m] - 1 ELSE mirror.degree[m]
             /\ m \in S <=> plan[m] \ finished = {n}
  <2>1. IsFiniteSet(plan[m] \ finished) /\ Cardinality(plan[m] \ finished) \in Nat
    BY PlanFacts
  <2>2. mirror.degree[m] = Cardinality(plan[m] \ finished)
    OBVIOUS
  <2>3. n \in plan[m] <=> n \in plan[m] \ finished
    BY <1>1
  <2>4. Cardinality((plan[m] \ finished) \ {n})
           = IF n \in plan[m] \ finished THEN Cardinality(plan[m] \ finished) - 1
                                         ELSE Cardinality(plan[m] \ finished)
    BY <2>1, FS_RemoveElement
  <2>5. Cardinality(plan[m] \ finished) = 1 <=> \E x : plan[m] \ finished = {x}
    BY <2>1, FS_Singleton
  <2>6. m \in S <=> n \in plan[m] \ finished /\ Cardinality(plan[m] \ finished) = 1
    BY <2>2, <2>3
  <2>7. m \in S <=> plan[m] \ finished = {n}
    <3> HIDE DEF S
    <3> QED
      BY <2>5, <2>6
  <2> QED
    BY <1>5, <2>2, <2>3, <2>4, <2>7
<1> HIDE DEF S
<1>7. mirror'.degree = [m \in NodeIds |-> Cardinality(plan[m] \ finished')]
  BY <1>4, <1>6
<1>8. S \subseteq NodeIds
  BY DEF S
<1>9. S \cap Free = {} /\ Free' = Free \cup S
  <2>1. ASSUME NEW m \in NodeIds
        PROVE  /\ m \in S => m \notin Free
               /\ m \in Free' <=> m \in Free \/ m \in S
    <3>1. m \in Free <=> plan[m] \ finished = {}
      BY DEF Free
    <3>2. m \in Free' <=> (plan[m] \ finished) \ {n} = {}
      BY <1>1, <1>5 DEF Free
    <3>3. m \in S <=> plan[m] \ finished = {n}
      BY <1>6
    <3> QED
      BY <3>1, <3>2, <3>3
  <2>2. Free \subseteq NodeIds /\ Free' \subseteq NodeIds
    BY DEF Free
  <2> QED
    BY <1>8, <2>1, <2>2
<1>10. handed' \o mirror'.ready = (handed \o mirror.ready) \o InOrder(S)
  <2>1. InOrder(S) \in Seq(NodeIds) /\ handed \in Seq(NodeIds)
    BY <1>3 DEF Distinct
  <2>2. (handed \o mirror.ready) \o InOrder(S) = handed \o (mirror.ready \o InOrder(S))
    <3> DEFINE q == mirror.ready
               t == InOrder(S)
    <3>1. q \in Seq(NodeIds) /\ t \in Seq(NodeIds)
      BY <1>2, <2>1
    <3> HIDE DEF q, t
    <3>2. (handed \o q) \o t = handed \o (q \o t)
      BY <2>1, <3>1, ConcatAssociative
    <3> QED
      BY <3>2 DEF q, t
  <2> QED
    BY <1>1, <1>4, <2>2
<1>11. /\ Distinct(handed' \o mirror'.ready, NodeIds)
       /\ ToSet(handed' \o mirror'.ready) = Free'
  BY <1>3, <1>9, <1>10, JoinedDistinct
<1>12. mirror' \in ReadyQueues
  <2>1. mirror'.ready \in Seq(NodeIds)
    BY <1>2, <1>3, <1>4, ConcatProperties DEF Distinct
  <2>2. mirror'.degree \in [NodeIds -> Int]
    BY <1>2, <1>4
  <2> QED
    BY <1>4, <2>1, <2>2 DEF ReadyQueues
<1> QED
  BY <1>1, <1>7, <1>11, <1>12

-----------------------------------------------------------------------------
\* The steps of the client and of the daemon.
LEMMA QueueSteps ==
    ASSUME plan \in Plans, NEW q \in ReadyQueues
    PROVE  /\ Popped(q) \in ReadyQueues
           /\ \A n \in NodeIds : Freed(q, n) \in ReadyQueues
<1>1. q.ready \in Seq(NodeIds) /\ q.degree \in [NodeIds -> Int]
  BY DEF ReadyQueues
<1>2. Popped(q) \in ReadyQueues
  <2>1. CASE q.ready = <<>>
    BY <2>1 DEF Popped
  <2>2. CASE q.ready # <<>>
    <3>1. Tail(q.ready) \in Seq(NodeIds)
      BY <1>1, <2>2, HeadTailProperties
    <3> QED
      BY <2>2, <3>1 DEF Popped, ReadyQueues
  <2> QED
    BY <2>1, <2>2
<1>3. ASSUME NEW n \in NodeIds PROVE Freed(q, n) \in ReadyQueues
  <2> DEFINE S == {m \in NodeIds : n \in plan[m] /\ q.degree[m] = 1}
             d == [m \in NodeIds |-> IF n \in plan[m] THEN q.degree[m] - 1 ELSE q.degree[m]]
             r == q.ready \o InOrder(S)
  <2>1. InOrder(S) \in Seq(NodeIds)
    BY InOrderFacts DEF Distinct
  <2>2. r \in Seq(NodeIds)
    BY <1>1, <2>1, ConcatProperties
  <2>3. d \in [NodeIds -> Int]
    BY <1>1
  <2>4. Freed(q, n) = [ready |-> r, degree |-> d]
    BY DEF Freed
  <2> HIDE DEF r, d
  <2> QED
    BY <2>2, <2>3, <2>4 DEF ReadyQueues
<1> QED
  BY <1>2, <1>3

\* What the daemon serves the mirror would serve.
LEMMA ServedIsPopped ==
    ASSUME MirrorInv
    PROVE  Served(AtHead(mirror)) = Popped(mirror)
<1>1. mirror.ready \in Seq(NodeIds) /\ mirror \in ReadyQueues
  BY DEF MirrorInv, ReadyQueues
<1>2. CASE mirror.ready = <<>>
  BY <1>2 DEF Served, AtHead, Popped
<1>3. CASE mirror.ready # <<>>
  <2> DEFINE q == mirror.ready
  <2>1. q \in Seq(NodeIds) /\ q # <<>>
    BY <1>1, <1>3
  <2> HIDE DEF q
  <2>2. Head(q) \in NodeIds /\ RemoveFirst(q, Head(q)) = Tail(q)
    BY <2>1, RemoveHead, HeadTailProperties
  <2>3. AtHead(mirror) = Head(mirror.ready) /\ AtHead(mirror) # NoNode
    BY <1>3, <2>2, ReadySetConstants DEF AtHead, q
  <2> QED
    BY <1>3, <2>2, <2>3 DEF Served, Popped, q
<1> QED
  BY <1>2, <1>3

\* A step pulls, completes a node, or leaves what the conductor sees alone.
Pulls == Hand(AtHead(mirror)) /\ mirror' = Popped(mirror) /\ UNCHANGED <<plan, finished>>

LEMMA StepKinds ==
    ASSUME ReadyInv, [ReadyNext]_readyVars
    PROVE  \/ Pulls
           \/ \E n \in NodeIds : CompleteLocal(n)
           \/ UNCHANGED <<plan, mirror, handed, finished>>
<1>1. CASE PullFast
  <2>1. PICK q \in daemonSet : Hand(AtHead(q)) /\ mirror' = Served(AtHead(q))
    BY <1>1 DEF PullFast
  <2>2. q = mirror
    BY <1>1, <2>1 DEF PullFast, ReadyInv
  <2>3. Served(AtHead(mirror)) = Popped(mirror)
    BY ServedIsPopped DEF ReadyInv
  <2> QED
    BY <1>1, <2>1, <2>2, <2>3 DEF PullFast, Pulls
<1>2. CASE PullAlone \/ PullFallsBack
  BY <1>2 DEF PullAlone, PullFallsBack, PullLocal, Pulls
<1>3. ASSUME NEW n \in NodeIds, CompleteFast(n) \/ CompleteAlone(n) \/ CompleteFallsBack(n)
      PROVE  CompleteLocal(n)
  BY <1>3 DEF CompleteFast, CompleteAlone, CompleteFallsBack
<1>4. CASE Invalidate \/ DaemonRestarts \/ UNCHANGED readyVars
  BY <1>4 DEF Invalidate, DaemonRestarts, readyVars
<1> QED
  BY <1>1, <1>2, <1>3, <1>4 DEF ReadyNext

LEMMA StepMirror ==
    ASSUME ReadyInv, [ReadyNext]_readyVars
    PROVE  MirrorInv'
<1>1. CASE Pulls
  BY <1>1, PullMoves DEF Pulls, ReadyInv
<1>2. CASE \E n \in NodeIds : CompleteLocal(n)
  BY <1>2, CompleteFrees DEF ReadyInv
<1>3. CASE UNCHANGED <<plan, mirror, handed, finished>>
  BY <1>3 DEF ReadyInv, MirrorInv, Free
<1> QED
  BY <1>1, <1>2, <1>3, StepKinds

\* The daemon's queue follows the mirror, or is left behind for good.
LEMMA StepDaemon ==
    ASSUME ReadyInv, [ReadyNext]_readyVars
    PROVE  /\ reachable' \in BOOLEAN
           /\ daemonSet' \subseteq ReadyQueues
           /\ reachable' => daemonSet' \subseteq {mirror'}
<1> USE DEF ReadyInv
<1>1. plan \in Plans
  BY DEF MirrorInv
<1>2. \A q \in daemonSet : /\ Popped(q) \in ReadyQueues
                           /\ \A n \in NodeIds : Freed(q, n) \in ReadyQueues
  BY <1>1, QueueSteps
<1>3. CASE PullFast
  <2>1. PICK q \in daemonSet : mirror' = Served(AtHead(q)) /\ daemonSet' = {Popped(q)}
    BY <1>3 DEF PullFast
  <2>2. q = mirror /\ reachable' = reachable
    BY <1>3, <2>1 DEF PullFast
  <2>3. mirror' = Popped(mirror)
    BY <2>1, <2>2, ServedIsPopped
  <2> QED
    BY <1>2, <2>1, <2>2, <2>3
<1>4. CASE PullAlone
  BY <1>4 DEF PullAlone
<1>5. CASE PullFallsBack
  BY <1>2, <1>5 DEF PullFallsBack
<1>6. ASSUME NEW n \in NodeIds, CompleteFast(n)
      PROVE  /\ daemonSet' \subseteq ReadyQueues
             /\ daemonSet' \subseteq {mirror'}
             /\ reachable' = reachable
  <2>1. /\ daemonSet' = {Freed(q, n) : q \in daemonSet}
        /\ mirror' = Freed(mirror, n)
        /\ reachable /\ reachable' = reachable
    BY <1>6 DEF CompleteFast, CompleteLocal
  <2> QED
    BY <1>2, <2>1
<1>7. ASSUME NEW n \in NodeIds, CompleteAlone(n)
      PROVE  UNCHANGED <<daemonSet, reachable>> /\ ~reachable
  BY <1>7 DEF CompleteAlone
<1>8. ASSUME NEW n \in NodeIds, CompleteFallsBack(n)
      PROVE  daemonSet' \subseteq ReadyQueues /\ reachable' = FALSE
  BY <1>2, <1>8 DEF CompleteFallsBack
<1>9. CASE Invalidate
  BY <1>9 DEF Invalidate
<1>10. CASE DaemonRestarts
  BY <1>10 DEF DaemonRestarts
<1>11. CASE UNCHANGED readyVars
  BY <1>11 DEF readyVars
<1> QED
  BY <1>3, <1>4, <1>5, <1>6, <1>7, <1>8, <1>9, <1>10, <1>11 DEF ReadyNext

THEOREM ReadyInvariant == ReadySpec => []ReadyInv
<1>1. ReadyInit => ReadyInv
  <2> SUFFICES ASSUME ReadyInit PROVE ReadyInv
    OBVIOUS
  <2>1. MirrorInv
    BY InitMirror DEF ReadyInit
  <2>2. daemonSet \subseteq {mirror} /\ reachable \in BOOLEAN
    BY DEF ReadyInit
  <2> QED
    BY <2>1, <2>2 DEF ReadyInv, MirrorInv
<1>2. ReadyInv /\ [ReadyNext]_readyVars => ReadyInv'
  BY StepMirror, StepDaemon DEF ReadyInv
<1> QED
  BY <1>1, <1>2, PTL DEF ReadySpec

\* Both queues hold nodes of the plan, whatever fails.
THEOREM ReadyTypeCorrect == ReadySpec => []ReadyTypeOK
<1>1. ReadyInv => ReadyTypeOK
  <2> SUFFICES ASSUME ReadyInv PROVE ReadyTypeOK
    OBVIOUS
  <2>1. finished \subseteq NodeIds
    <3>1. handed \in Seq(NodeIds) /\ finished \subseteq ToSet(handed)
      BY DEF ReadyInv, MirrorInv
    <3> QED
      BY <3>1, LenProperties DEF ToSet
  <2> QED
    BY <2>1 DEF ReadyInv, MirrorInv, ReadyTypeOK
<1> QED
  BY <1>1, ReadyInvariant, PTL

\* ready_set_client.py: a mid-run fallback never changes the sequence of
\* decisions, whatever fails and whatever the daemon did before its answer was
\* lost; and no node is served twice.
THEOREM SequenceKept == ReadySpec => SameSequence
<1>1. ReadyInv /\ [ReadyNext]_readyVars =>
          [handed' # handed => /\ handed' = Append(handed, AtHead(mirror))
                               /\ IsInjective(handed')]_readyVars
  <2> SUFFICES ASSUME ReadyInv, [ReadyNext]_readyVars, handed' # handed
               PROVE  handed' = Append(handed, AtHead(mirror)) /\ IsInjective(handed')
    OBVIOUS
  <2>1. Pulls
    BY StepKinds DEF CompleteLocal
  <2> QED
    BY <2>1, PullMoves DEF Pulls, ReadyInv
<1> QED
  BY <1>1, ReadyInvariant, PTL DEF ReadySpec, SameSequence

-----------------------------------------------------------------------------
\* The run, as an execution of its plan.
LEMMA StepExecutes ==
    ASSUME ReadyInv, [ReadyNext]_readyVars
    PROVE  [Promised!Next]_<<plan, [n \in NodeIds |-> IF n \in finished THEN 1 ELSE 0]>>
<1> DEFINE done == [n \in NodeIds |-> IF n \in finished THEN 1 ELSE 0]
<1>1. ASSUME NEW n \in NodeIds, CompleteLocal(n) PROVE Promised!Complete(n, 1)
  <2>1. n \in ToSet(handed) \ finished /\ finished' = finished \cup {n} /\ plan' = plan
    BY <1>1 DEF CompleteLocal
  <2>2. n \in Free
    <3>1. handed \in Seq(NodeIds) /\ mirror.ready \in Seq(NodeIds)
      BY DEF ReadyInv, MirrorInv, ReadyQueues
    <3>2. ToSet(handed) \subseteq ToSet(handed \o mirror.ready)
      BY <3>1, ConcatProperties, LenProperties DEF ToSet
    <3> QED
      BY <2>1, <3>2 DEF ReadyInv, MirrorInv
  <2>3. plan[n] \subseteq finished /\ plan[n] \subseteq NodeIds
    BY <2>2, PlanFacts DEF Free, ReadyInv, MirrorInv
  <2>4. done[n] = 0 /\ \A m \in plan[n] : done[m] = 1
    BY <2>1, <2>3
  <2>5. done' = [done EXCEPT ![n] = 1]
    BY <2>1
  <2> QED
    BY <2>1, <2>4, <2>5 DEF Promised!Complete
<1>2. (\E n \in NodeIds : CompleteLocal(n)) => Promised!Next
  <2>1. DOMAIN plan = NodeIds
    BY PlanFacts DEF ReadyInv, MirrorInv
  <2> QED
    BY <1>1, <2>1 DEF Promised!Next
<1>3. UNCHANGED <<plan, finished>> => UNCHANGED <<plan, done>>
  OBVIOUS
<1> HIDE DEF done
<1>4. [Promised!Next]_<<plan, done>>
  BY <1>2, <1>3, StepKinds DEF Pulls
<1> QED
  BY <1>4 DEF done

\* However calls to the daemon fail, the run is an execution of its plan:
\* every node completes once, after those it depends on.
THEOREM PlanExecuted == ReadySpec => ExecutesPlan
<1>1. ReadyInit => Promised!Init
  BY DEF ReadyInit, Promised!Init
<1> QED
  BY <1>1, StepExecutes, ReadyInvariant, PTL DEF ReadySpec, ExecutesPlan, Promised!Spec
=============================================================================
