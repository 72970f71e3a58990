----------------------------- MODULE Stores_proofs -----------------------------
(***************************************************************************)
(* What the broker keeps, and promises of it: the decisions of the memory  *)
(* ledger, the jobs of the vault queue, the event log, the telemetry rows, *)
(* and the queues of the event bus.  The components share no state; each   *)
(* has an inductive invariant of its own.                                  *)
(***************************************************************************)
EXTENDS MemoryLedger, VaultQueue, EventLog, TelemetryDelivery, EventBus,
        Plans_proofs, SequenceTheorems, TLAPS

-----------------------------------------------------------------------------
\* MemoryLedger.
DecisionRows == [id : DecisionIds, at : 0..MaxWrites, text : Texts,
         status : DecisionStates \cup {"superseded"}, tombstone : BOOLEAN,
         supersedes : 0..MaxWrites]

\* No row names a time that is still to come, so that a close takes a time
\* nothing names; and what a backfill takes for embedded stays embedded.
LedgerInv ==
    /\ ledgerTime \in 1..(MaxWrites + 1)
    /\ decisions \subseteq DecisionRows
    /\ \A r \in decisions : r.at < ledgerTime /\ r.supersedes < ledgerTime
    /\ ChainWalkable
    /\ NoSilentGap
    /\ \A b \in backfill : b.existing \subseteq KeysOf(vecMemory)

\* What VersionsKept says of a step.
Lossless ==
    \A r \in decisions :
        \/ r \in decisions'
        \/ r.at = 0 /\ \E s \in decisions' :
               s.at # 0 /\ s = [r EXCEPT !.at = s.at, !.status = "superseded"]

-----------------------------------------------------------------------------
\* A marker is replaced or kept, and goes only with its key.
LEMMA EnqueueKeys ==
    ASSUME NEW outbox, NEW blobs
    PROVE  KeysOf(outbox) \cup KeysOf(blobs) \subseteq KeysOf(Enqueue(outbox, blobs))
BY DEF KeysOf, Enqueue

LEMMA ClearKeys ==
    ASSUME NEW outbox, NEW keys
    PROVE  KeysOf(outbox) \subseteq KeysOf(Clear(outbox, keys)) \cup keys
BY DEF KeysOf, Clear

\* The fields of a row that a close renames.
LEMMA RenamedRow ==
    ASSUME NEW r \in DecisionRows, NEW t \in 0..MaxWrites
    PROVE  LET s == [r EXCEPT !.at = t, !.status = "superseded"]
           IN  s \in DecisionRows /\ s.id = r.id /\ s.at = t /\ s.supersedes = r.supersedes
BY DEF DecisionRows

\* The row of a retirement.
LEMMA NewTombstone ==
    ASSUME NEW id \in DecisionIds, NEW text \in Texts, NEW supersedes \in 0..MaxWrites
    PROVE  /\ NewRow(id, text, "superseded", TRUE, supersedes) \in DecisionRows
           /\ NewRow(id, text, "superseded", TRUE, supersedes).id = id
           /\ NewRow(id, text, "superseded", TRUE, supersedes).at = 0
           /\ NewRow(id, text, "superseded", TRUE, supersedes).supersedes = supersedes
           /\ NewRow(id, text, "superseded", TRUE, supersedes).tombstone = TRUE
<1>1. 0 \in 0..MaxWrites
  BY LedgerConstants
<1> QED BY <1>1 DEF NewRow, DecisionRows

-----------------------------------------------------------------------------
\* A write closes what is on the bare id and puts a row there, which names
\* what was closed.
RowWrite(id, new) ==
    /\ ledgerTime <= MaxWrites
    /\ ledgerTime' = ledgerTime + 1
    /\ decisions' = Closed(id) \cup {new}
    /\ new \in DecisionRows
    /\ new.id = id /\ new.at = 0
    /\ new.supersedes = IF Bare(id) = {} THEN 0 ELSE ledgerTime

LEMMA RowStep ==
    ASSUME LedgerInv, NEW id \in DecisionIds, NEW new, RowWrite(id, new)
    PROVE  /\ ledgerTime' \in 1..(MaxWrites + 1)
           /\ decisions' \subseteq DecisionRows
           /\ \A r \in decisions' : r.at < ledgerTime' /\ r.supersedes < ledgerTime'
           /\ ChainWalkable'
           /\ Lossless
           /\ \A r \in decisions' : r.at = 0 => r = new \/ r \in decisions
<1> DEFINE t == ledgerTime
           Renamed(r) == [r EXCEPT !.at = t, !.status = "superseded"]
<1>1. t \in Nat /\ t # 0 /\ t \in 0..MaxWrites /\ ledgerTime' = t + 1 /\ MaxWrites \in Nat
  BY LedgerConstants DEF LedgerInv, RowWrite
<1>2. \A r \in Bare(id) : r \in decisions /\ r \in DecisionRows /\ r.id = id /\ r.at = 0
  BY DEF Bare, LedgerInv
<1>3. \A r \in Bare(id) :
         /\ Renamed(r) \in DecisionRows
         /\ Renamed(r).id = id
         /\ Renamed(r).at = t
         /\ Renamed(r).supersedes = r.supersedes
  BY <1>1, <1>2, RenamedRow
<1>4. decisions' = (decisions \ Bare(id)) \cup {Renamed(r) : r \in Bare(id)} \cup {new}
  BY DEF RowWrite, Closed
<1> HIDE DEF Renamed
<1>5. new \in DecisionRows /\ new.id = id /\ new.at = 0
      /\ new.supersedes = IF Bare(id) = {} THEN 0 ELSE t
  BY DEF RowWrite
<1>6. \A r \in decisions : r \in DecisionRows /\ r.at \in Nat /\ r.at < t
                           /\ r.supersedes \in Nat /\ r.supersedes < t
  BY DEF LedgerInv, DecisionRows
<1>7. decisions' \subseteq DecisionRows
  BY <1>3, <1>4, <1>5, <1>6
<1>8. \A r \in decisions' : r.at < ledgerTime' /\ r.supersedes < ledgerTime'
  <2> SUFFICES ASSUME NEW r \in decisions'
               PROVE  r.at < t + 1 /\ r.supersedes < t + 1
    BY <1>1
  <2>1. CASE r \in decisions
    BY <1>1, <1>6, <2>1
  <2>2. CASE r = new
    BY <1>1, <1>5, <2>2
  <2>3. ASSUME NEW q \in Bare(id), r = Renamed(q)
        PROVE  r.at < t + 1 /\ r.supersedes < t + 1
    <3>1. q.supersedes \in Nat /\ q.supersedes < t
      BY <1>2, <1>6
    <3> QED BY <1>1, <1>3, <2>3, <3>1
  <2> QED BY <1>4, <2>1, <2>2, <2>3
<1>9. \A r \in decisions' : r.at = 0 => r = new \/ r \in decisions
  BY <1>1, <1>3, <1>4
<1>10. \A r \in decisions' : r.at # 0 => \/ r \in decisions \ Bare(id)
                                         \/ r.id = id /\ r.at = t /\ Bare(id) # {}
  BY <1>3, <1>4, <1>5
<1>11. ASSUME NEW r \in decisions
       PROVE  \E s \in decisions' : s.id = r.id /\ s.supersedes = r.supersedes
  <2>1. CASE r \in Bare(id)
    BY <1>2, <1>3, <1>4, <2>1
  <2>2. CASE r \notin Bare(id)
    BY <1>4, <2>2
  <2> QED BY <2>1, <2>2
<1>12. ASSUME NEW s \in decisions', s # new
       PROVE  \E q \in decisions :
                 /\ q.id = s.id /\ q.supersedes = s.supersedes
                 /\ s = IF q \in Bare(id) THEN Renamed(q) ELSE q
  <2>1. CASE s \in decisions \ Bare(id)
    BY <2>1
  <2>2. ASSUME NEW q \in Bare(id), s = Renamed(q)
        PROVE  \E p \in decisions :
                 /\ p.id = s.id /\ p.supersedes = s.supersedes
                 /\ s = IF p \in Bare(id) THEN Renamed(p) ELSE p
    BY <1>2, <1>3, <2>2
  <2> QED BY <1>4, <1>12, <2>1, <2>2
<1>13. ChainWalkable'
  <2> SUFFICES ASSUME NEW r \in decisions', r.at # 0
               PROVE  /\ \E s \in decisions' : s.id = r.id /\ s.supersedes = r.at
                      /\ \A s, u \in decisions' :
                             s.id = r.id /\ u.id = r.id /\ s.supersedes = r.at
                                 /\ u.supersedes = r.at => s = u
    BY DEF ChainWalkable
  <2>1. CASE r \in decisions \ Bare(id)
    <3>1. r.at \in Nat /\ r.at < t /\ r.at # t
      BY <1>1, <1>6, <2>1
    <3>2. new.supersedes # r.at
      BY <1>1, <1>5, <3>1
    <3>3. PICK q \in decisions : q.id = r.id /\ q.supersedes = r.at
      BY <2>1 DEF LedgerInv, ChainWalkable
    <3>4. \A p, q1 \in decisions :
             p.id = r.id /\ q1.id = r.id /\ p.supersedes = r.at /\ q1.supersedes = r.at
                => p = q1
      BY <2>1 DEF LedgerInv, ChainWalkable
    <3>5. \E s \in decisions' : s.id = r.id /\ s.supersedes = r.at
      BY <1>11, <3>3
    <3>6. ASSUME NEW s \in decisions', NEW u \in decisions',
                 s.id = r.id, u.id = r.id, s.supersedes = r.at, u.supersedes = r.at
          PROVE  s = u
      <4>1. s # new /\ u # new
        BY <3>2, <3>6
      <4>2. PICK p \in decisions : /\ p.id = s.id /\ p.supersedes = s.supersedes
                                   /\ s = IF p \in Bare(id) THEN Renamed(p) ELSE p
        BY <1>12, <4>1
      <4>3. PICK v \in decisions : /\ v.id = u.id /\ v.supersedes = u.supersedes
                                   /\ u = IF v \in Bare(id) THEN Renamed(v) ELSE v
        BY <1>12, <4>1
      <4>4. p = v
        BY <3>4, <3>6, <4>2, <4>3
      <4> QED BY <4>2, <4>3, <4>4
    <3> QED BY <3>5, <3>6
  <2>2. CASE r.id = id /\ r.at = t /\ Bare(id) # {}
    <3>1. new \in decisions' /\ new.id = r.id /\ new.supersedes = r.at
      BY <1>4, <1>5, <2>2
    <3>2. ASSUME NEW s \in decisions', s.supersedes = t
          PROVE  s = new
      <4>1. SUFFICES ASSUME s # new PROVE FALSE
        OBVIOUS
      <4>2. PICK q \in decisions : q.supersedes = s.supersedes
        BY <1>12, <4>1
      <4> QED BY <1>1, <1>6, <3>2, <4>2
    <3> QED BY <2>2, <3>1, <3>2
  <2> QED BY <1>10, <2>1, <2>2
<1>14. Lossless
  <2> SUFFICES ASSUME NEW r \in decisions
               PROVE  \/ r \in decisions'
                      \/ r.at = 0 /\ \E s \in decisions' :
                             s.at # 0 /\ s = [r EXCEPT !.at = s.at, !.status = "superseded"]
    BY DEF Lossless
  <2>1. CASE r \notin Bare(id)
    BY <1>4, <2>1
  <2>2. CASE r \in Bare(id)
    <3>1. Renamed(r) \in decisions' /\ Renamed(r).at = t /\ r.at = 0
      BY <1>2, <1>3, <1>4, <2>2
    <3>2. Renamed(r) = [r EXCEPT !.at = t, !.status = "superseded"]
      BY DEF Renamed
    <3> QED BY <1>1, <3>1, <3>2
  <2> QED BY <2>1, <2>2
<1> QED BY <1>1, <1>7, <1>8, <1>9, <1>13, <1>14

\* A step that writes no row: the index grows, and a marker goes only when
\* its key is in the index.
LEMMA IndexStep ==
    ASSUME LedgerInv, decisions' = decisions, ledgerTime' = ledgerTime,
           KeysOf(vecMemory) \subseteq KeysOf(vecMemory)',
           KeysOf(embedOutbox) \subseteq KeysOf(embedOutbox)' \cup KeysOf(vecMemory)',
           \A b \in backfill' : b.existing \subseteq KeysOf(vecMemory)'
    PROVE  LedgerInv' /\ Lossless
<1>1. ChainWalkable'
  BY DEF LedgerInv, ChainWalkable
<1>2. NoSilentGap'
  BY DEF LedgerInv, NoSilentGap, RowKey
<1> QED BY <1>1, <1>2 DEF LedgerInv, Lossless

\* decision add, first transaction.
LEMMA AddStep ==
    ASSUME LedgerInv, NEW w, NEW id \in DecisionIds, NEW text \in Texts,
           NEW status \in DecisionStates, AddRow(w, id, text, status)
    PROVE  LedgerInv' /\ Lossless
<1> DEFINE named == IF Current(id) = {} THEN 0 ELSE ledgerTime
           new == NewRow(id, text, status, FALSE, named)
           marker == [key |-> <<id, 0>>, text |-> text]
<1>1. named \in 0..MaxWrites
  BY LedgerConstants DEF AddRow, LedgerInv
<1>2. /\ new \in DecisionRows /\ new.id = id /\ new.at = 0
      /\ new.supersedes = named
  <2>1. 0 \in 0..MaxWrites
    BY LedgerConstants
  <2> HIDE DEF named
  <2> QED BY <1>1, <2>1 DEF NewRow, DecisionRows
<1>3. decisions' = Closed(id) \cup {new} /\ Bare(id) = Current(id)
  BY DEF AddRow
<1>4. embedOutbox' = Enqueue(embedOutbox, {marker}) /\ marker.key = <<id, 0>>
  BY DEF AddRow
<1> HIDE DEF new, marker
<1>5. RowWrite(id, new)
  BY <1>2, <1>3 DEF AddRow, RowWrite
<1>6. /\ ledgerTime' \in 1..(MaxWrites + 1)
      /\ decisions' \subseteq DecisionRows
      /\ \A r \in decisions' : r.at < ledgerTime' /\ r.supersedes < ledgerTime'
      /\ ChainWalkable'
      /\ Lossless
      /\ \A r \in decisions' : r.at = 0 => r = new \/ r \in decisions
  BY <1>5, RowStep
<1>7. vecMemory' = vecMemory /\ backfill' = backfill
  BY DEF AddRow
<1>8. KeysOf(embedOutbox) \subseteq KeysOf(embedOutbox)' /\ <<id, 0>> \in KeysOf(embedOutbox)'
  <2>1. KeysOf(embedOutbox) \cup KeysOf({marker}) \subseteq KeysOf(Enqueue(embedOutbox, {marker}))
    BY EnqueueKeys
  <2>2. <<id, 0>> \in KeysOf({marker})
    BY <1>4 DEF KeysOf
  <2>3. KeysOf(embedOutbox)' = KeysOf(Enqueue(embedOutbox, {marker}))
    BY <1>4 DEF KeysOf
  <2> QED BY <2>1, <2>2, <2>3
<1>9. KeysOf(vecMemory)' = KeysOf(vecMemory)
  BY <1>7 DEF KeysOf
<1>10. NoSilentGap'
  <2> SUFFICES ASSUME NEW r \in decisions', r.at = 0, ~r.tombstone
               PROVE  RowKey(r) \in KeysOf(vecMemory)' \cup KeysOf(embedOutbox)'
    BY DEF NoSilentGap, RowKey
  <2>1. CASE r = new
    BY <1>2, <1>8, <2>1 DEF RowKey
  <2>2. CASE r \in decisions
    BY <1>8, <1>9, <2>2 DEF LedgerInv, NoSilentGap
  <2> QED BY <1>6, <2>1, <2>2
<1>11. \A b \in backfill' : b.existing \subseteq KeysOf(vecMemory)'
  BY <1>7, <1>9 DEF LedgerInv
<1> QED BY <1>6, <1>10, <1>11 DEF LedgerInv

\* decision retire.
LEMMA RetireStep ==
    ASSUME LedgerInv, NEW id \in DecisionIds, Retire(id)
    PROVE  LedgerInv' /\ Lossless
<1>1. PICK q \in Current(id) :
         decisions' = Closed(id) \cup {NewRow(id, q.text, "superseded", TRUE, ledgerTime)}
  BY DEF Retire
<1> DEFINE new == NewRow(id, q.text, "superseded", TRUE, ledgerTime)
<1>2. q \in Bare(id) /\ q \in DecisionRows /\ q.text \in Texts
  BY <1>1 DEF Current, Bare, LedgerInv, DecisionRows
<1>3. ledgerTime \in 0..MaxWrites
  BY LedgerConstants DEF Retire, LedgerInv
<1>4. new \in DecisionRows /\ new.id = id /\ new.at = 0 /\ new.supersedes = ledgerTime
      /\ new.tombstone = TRUE
  BY <1>2, <1>3, NewTombstone
<1> HIDE DEF new
<1>5. RowWrite(id, new)
  <2>1. decisions' = Closed(id) \cup {new}
    BY <1>1 DEF new
  <2> QED BY <1>2, <1>4, <2>1 DEF Retire, RowWrite
<1>6. /\ ledgerTime' \in 1..(MaxWrites + 1)
      /\ decisions' \subseteq DecisionRows
      /\ \A r \in decisions' : r.at < ledgerTime' /\ r.supersedes < ledgerTime'
      /\ ChainWalkable'
      /\ Lossless
      /\ \A r \in decisions' : r.at = 0 => r = new \/ r \in decisions
  BY <1>5, RowStep
<1>7. UNCHANGED <<vecMemory, embedOutbox, backfill>>
  BY DEF Retire
<1>8. KeysOf(vecMemory)' = KeysOf(vecMemory) /\ KeysOf(embedOutbox)' = KeysOf(embedOutbox)
  BY <1>7 DEF KeysOf
<1>9. NoSilentGap'
  <2> SUFFICES ASSUME NEW r \in decisions', r.at = 0, ~r.tombstone
               PROVE  RowKey(r) \in KeysOf(vecMemory)' \cup KeysOf(embedOutbox)'
    BY DEF NoSilentGap, RowKey
  <2>1. r \in decisions
    BY <1>4, <1>6
  <2> QED BY <1>8, <2>1 DEF LedgerInv, NoSilentGap
<1>10. \A b \in backfill' : b.existing \subseteq KeysOf(vecMemory)'
  BY <1>7, <1>8 DEF LedgerInv
<1> QED BY <1>6, <1>9, <1>10 DEF LedgerInv

\* The second transaction of a write: embedded, parked, or not reached.
LEMMA EmbedStep ==
    ASSUME LedgerInv, NEW w \in Writers, EmbedRow(w) \/ EmbedFails(w) \/ EmbedSkipped(w)
    PROVE  LedgerInv' /\ Lossless
<1>1. decisions' = decisions /\ ledgerTime' = ledgerTime /\ backfill' = backfill
  BY DEF EmbedRow, EmbedFails, EmbedSkipped
<1>2. /\ KeysOf(vecMemory) \subseteq KeysOf(vecMemory)'
      /\ KeysOf(embedOutbox) \subseteq KeysOf(embedOutbox)' \cup KeysOf(vecMemory)'
  <2>1. CASE EmbedRow(w)
    <3> DEFINE k == writer[w].key
               v == [key |-> k, text |-> writer[w].text]
    <3>1. vecMemory' = vecMemory \cup {v} /\ v.key = k /\ embedOutbox' = Clear(embedOutbox, {k})
      BY <2>1 DEF EmbedRow
    <3> HIDE DEF k, v
    <3>2. KeysOf(vecMemory) \subseteq KeysOf(vecMemory)' /\ k \in KeysOf(vecMemory)'
      BY <3>1 DEF KeysOf
    <3>3. KeysOf(embedOutbox)' = KeysOf(Clear(embedOutbox, {k}))
      BY <3>1 DEF KeysOf
    <3> QED BY <3>2, <3>3, ClearKeys
  <2>2. CASE EmbedFails(w) \/ EmbedSkipped(w)
    BY <2>2 DEF EmbedFails, EmbedSkipped, KeysOf
  <2> QED BY <2>1, <2>2
<1>3. \A b \in backfill' : b.existing \subseteq KeysOf(vecMemory)'
  BY <1>1, <1>2 DEF LedgerInv
<1> QED BY <1>1, <1>2, <1>3, IndexStep

\* Another model is installed, or recall finds that one was.
LEMMA ModelStep ==
    ASSUME LedgerInv, SwapModel \/ Recall
    PROVE  LedgerInv' /\ Lossless
<1>1. UNCHANGED <<decisions, ledgerTime, vecMemory, backfill>>
  BY DEF SwapModel, Recall
<1>2. KeysOf(vecMemory)' = KeysOf(vecMemory)
  BY <1>1 DEF KeysOf
<1>3. KeysOf(embedOutbox) \subseteq KeysOf(embedOutbox)'
  <2>1. CASE SwapModel
    BY <2>1 DEF SwapModel, KeysOf
  <2>2. CASE Recall
    <3>1. PICK S : embedOutbox' = Enqueue(embedOutbox, S)
      BY <2>2 DEF Recall
    <3>2. KeysOf(embedOutbox)' = KeysOf(Enqueue(embedOutbox, S))
      BY <3>1 DEF KeysOf
    <3> QED BY <3>2, EnqueueKeys
  <2> QED BY <2>1, <2>2
<1>4. \A b \in backfill' : b.existing \subseteq KeysOf(vecMemory)'
  BY <1>1, <1>2 DEF LedgerInv
<1> QED BY <1>1, <1>2, <1>3, <1>4, IndexStep

\* A backfill begins, reads its markers, or stops.
LEMMA BackfillReadStep ==
    ASSUME LedgerInv, BackfillBegin \/ BackfillRead \/ BackfillStops
    PROVE  LedgerInv' /\ Lossless
<1>1. UNCHANGED <<decisions, ledgerTime, vecMemory, embedOutbox>>
  BY DEF BackfillBegin, BackfillRead, BackfillStops
<1>2. KeysOf(vecMemory)' = KeysOf(vecMemory) /\ KeysOf(embedOutbox)' = KeysOf(embedOutbox)
  BY <1>1 DEF KeysOf
<1>3. \A b \in backfill' : b.existing \subseteq KeysOf(vecMemory)
  <2>1. CASE BackfillBegin
    <3>1. backfill' = {[existing |-> KeysOf(vecMemory), outbox |-> {}, read |-> FALSE,
                        locked |-> FALSE, model |-> embedModel]}
      BY <2>1 DEF BackfillBegin
    <3> QED BY <3>1
  <2>2. CASE BackfillRead
    <3>1. PICK b \in backfill :
             \E outbox, locked :
                 backfill' = {[existing |-> b.existing, outbox |-> outbox, read |-> TRUE,
                               locked |-> locked, model |-> b.model]}
      BY <2>2 DEF BackfillRead
    <3>2. \A c \in backfill' : c.existing = b.existing
      BY <3>1
    <3> QED BY <3>2 DEF LedgerInv
  <2>3. CASE BackfillStops
    BY <2>3 DEF BackfillStops
  <2> QED BY <2>1, <2>2, <2>3
<1> QED BY <1>1, <1>2, <1>3, IndexStep

\* A backfill commits: what it clears is in the index, because it was there
\* when the backfill began or because this transaction puts it there.
LEMMA BackfillCommitStep ==
    ASSUME LedgerInv, NEW full \in BOOLEAN, BackfillCommit(full)
    PROVE  LedgerInv' /\ Lossless
<1>1. decisions' = decisions /\ ledgerTime' = ledgerTime /\ backfill' = {}
  BY DEF BackfillCommit
<1>2. PICK b \in backfill :
         \E embedded0, more, letters : Committed(b, embedded0, more, letters)
  BY DEF BackfillCommit
<1>8. PICK embedded0, more, letters : Committed(b, embedded0, more, letters)
  BY <1>2
<1> DEFINE inserted == embedded0 \cup more
           extra == IF b.locked THEN b.outbox ELSE {}
<1>3. /\ vecMemory' = vecMemory \cup inserted
      /\ embedOutbox' = Clear(Enqueue(embedOutbox, extra),
                              Settled(b, embedded0) \cup KeysOf(inserted))
  BY <1>8 DEF Committed
<1>4. KeysOf(embedded0) \subseteq KeysOf(inserted)
  BY DEF KeysOf
<1> HIDE DEF inserted, extra
<1>5. KeysOf(vecMemory)' = KeysOf(vecMemory) \cup KeysOf(inserted)
  BY <1>3 DEF KeysOf
<1>6. Settled(b, embedded0) \subseteq KeysOf(vecMemory)'
  <2>1. b.existing \subseteq KeysOf(vecMemory)
    BY DEF LedgerInv
  <2>2. Settled(b, embedded0) \subseteq b.existing \cup KeysOf(embedded0)
    BY DEF Settled, KeysOf
  <2> QED BY <1>4, <1>5, <2>1, <2>2
<1>7. KeysOf(embedOutbox) \subseteq KeysOf(embedOutbox)' \cup KeysOf(vecMemory)'
  <2> DEFINE outbox == Enqueue(embedOutbox, extra)
             keys == Settled(b, embedded0) \cup KeysOf(inserted)
  <2>1. KeysOf(embedOutbox) \subseteq KeysOf(outbox)
    BY EnqueueKeys
  <2>2. KeysOf(outbox) \subseteq KeysOf(Clear(outbox, keys)) \cup keys
    BY ClearKeys
  <2>3. KeysOf(embedOutbox)' = KeysOf(Clear(outbox, keys))
    BY <1>3 DEF KeysOf
  <2> HIDE DEF outbox
  <2> QED BY <1>5, <1>6, <2>1, <2>2, <2>3
<1> QED BY <1>1, <1>5, <1>7, IndexStep

-----------------------------------------------------------------------------
LEMMA InitLedger == LedgerInit => LedgerInv
BY LedgerConstants DEF LedgerInit, LedgerInv, ChainWalkable, NoSilentGap

LEMMA StutterLedger ==
    ASSUME LedgerInv, UNCHANGED ledgerVars
    PROVE  LedgerInv' /\ Lossless
BY DEF LedgerInv, ledgerVars, ChainWalkable, NoSilentGap, Lossless, KeysOf, RowKey

LEMMA NextLedger ==
    ASSUME LedgerInv, [LedgerNext]_ledgerVars
    PROVE  LedgerInv' /\ Lossless
<1>1. ASSUME NEW w \in Writers, NEW text \in Texts, NEW status \in DecisionStates,
             AddNext(w, text, status)
      PROVE  LedgerInv' /\ Lossless
  BY <1>1, AddStep DEF AddNext
<1>2. ASSUME NEW w \in Writers, NEW id \in DecisionIds, NEW text \in Texts,
             NEW status \in DecisionStates, AddExplicit(w, id, text, status)
      PROVE  LedgerInv' /\ Lossless
  BY <1>2, AddStep DEF AddExplicit
<1>3. ASSUME NEW w \in Writers, EmbedRow(w) \/ EmbedFails(w) \/ EmbedSkipped(w)
      PROVE  LedgerInv' /\ Lossless
  BY <1>3, EmbedStep
<1>4. ASSUME NEW id \in DecisionIds, Retire(id)
      PROVE  LedgerInv' /\ Lossless
  BY <1>4, RetireStep
<1>5. CASE SwapModel \/ Recall
  BY <1>5, ModelStep
<1>6. CASE BackfillBegin \/ BackfillRead \/ BackfillStops
  BY <1>6, BackfillReadStep
<1>7. ASSUME NEW full \in BOOLEAN, BackfillCommit(full)
      PROVE  LedgerInv' /\ Lossless
  BY <1>7, BackfillCommitStep
<1>8. CASE UNCHANGED ledgerVars
  BY <1>8, StutterLedger
<1> QED BY <1>1, <1>2, <1>3, <1>4, <1>5, <1>6, <1>7, <1>8 DEF LedgerNext

THEOREM LedgerInvariant == LedgerSpec => []LedgerInv
<1>1. LedgerInit => LedgerInv
  BY InitLedger
<1>2. LedgerInv /\ [LedgerNext]_ledgerVars => LedgerInv'
  BY NextLedger
<1> QED BY <1>1, <1>2, PTL DEF LedgerSpec

\* The chain of versions has no fork and no gap.
THEOREM ChainHolds == LedgerSpec => []ChainWalkable
<1>1. LedgerInv => ChainWalkable
  BY DEF LedgerInv
<1> QED BY <1>1, LedgerInvariant, PTL

\* No decision is unknown to both the index and the markers.
THEOREM NoGap == LedgerSpec => []NoSilentGap
<1>1. LedgerInv => NoSilentGap
  BY DEF LedgerInv
<1> QED BY <1>1, LedgerInvariant, PTL

\* No write, of any process, loses a version or anything of one but its status.
THEOREM HistoryKept == LedgerSpec => VersionsKept
<1>1. LedgerInv /\ [LedgerNext]_ledgerVars => [Lossless]_ledgerVars
  BY NextLedger
<1>2. LedgerInv /\ [LedgerNext]_ledgerVars =>
          [\A r \in decisions :
              \/ r \in decisions'
              \/ r.at = 0 /\ \E s \in decisions' :
                     s.at # 0 /\ s = [r EXCEPT !.at = s.at, !.status = "superseded"]]_ledgerVars
  BY <1>1 DEF Lossless
<1> QED BY <1>2, LedgerInvariant, PTL DEF LedgerSpec, VersionsKept

\* Every value the ledger stores is one its columns are for.  A dead letter has
\* a number within the bound: so there is a last one, and a next one.
LedgerTyped ==
    /\ LedgerTypeOK
    /\ \A x \in deadLetter : x.n <= MaxFailures + 1

Works == [key : DecisionIds \X {0}, text : Texts, model : EmbedModels]
Runs == [existing : SUBSET Keys, outbox : SUBSET Blobs,
         read : BOOLEAN, locked : BOOLEAN, model : EmbedModels]
Letters == [n : Nat, key : Keys, text : Texts]

\* What the steps of the index have in common: the rows stay.
LEMMA RowsStay ==
    ASSUME LedgerTyped, UNCHANGED <<ledgerTime, decisions>>,
           vecMemory' \subseteq Blobs,
           provenance' \subseteq [key : Keys, model : EmbedModels],
           embedOutbox' \subseteq Blobs,
           deadLetter' \subseteq Letters, \A x \in deadLetter' : x.n <= MaxFailures + 1,
           embedModel' \in EmbedModels,
           writer' \in [Writers -> {NoWork} \cup Works],
           backfill' \subseteq Runs
    PROVE  LedgerTyped'
BY DEF LedgerTyped, LedgerTypeOK, Works, Runs, Letters

\* The operators of the index.
LEMMA IndexTyped ==
    ASSUME NEW S, S \subseteq Blobs
    PROVE  /\ KeysOf(S) \subseteq Keys
           /\ \A outbox \in SUBSET Blobs : Enqueue(outbox, S) \in SUBSET Blobs
           /\ \A keys : Clear(S, keys) \in SUBSET Blobs
BY DEF KeysOf, Enqueue, Clear, Blobs

LEMMA StampTyped ==
    ASSUME LedgerTyped, NEW keys \in SUBSET Keys, NEW model \in EmbedModels
    PROVE  Stamp(keys, model) \subseteq [key : Keys, model : EmbedModels]
BY DEF Stamp, LedgerTyped, LedgerTypeOK

\* A set of bounded numbers has a last one.
LEMMA LastOf ==
    ASSUME NEW M \in Nat, NEW S, S \subseteq 0..M, S # {}
    PROVE  \E n \in S : \A m \in S : m <= n
<1> DEFINE T == {M - m : m \in S}
<1>1. T \subseteq Nat /\ T # {}
  <2>1. \A m \in S : M - m \in Nat
    OBVIOUS
  <2> QED
    BY <2>1
<1> HIDE DEF T
<1>2. PICK k \in T : \A j \in T : k <= j
  BY <1>1, LeastOf
<1>3. PICK n \in S : k = M - n
  BY DEF T
<1>4. \A m \in S : M - m \in T
  BY DEF T
<1>5. \A m \in S : m <= n
  BY <1>2, <1>3, <1>4
<1> QED
  BY <1>5

\* A dead letter goes behind all there are.
LEMMA ParkedTyped ==
    ASSUME NEW letters \in SUBSET Letters, \A x \in letters : x.n <= MaxFailures + 1,
           NEW blobs, \A b \in blobs : b.key \in Keys /\ b.text \in Texts
    PROVE  /\ Parked(letters, blobs) \in SUBSET Letters
           /\ (\A x \in letters : x.n < MaxFailures) =>
                  \A x \in Parked(letters, blobs) : x.n <= MaxFailures + 1
<1> DEFINE numbers == {x.n : x \in letters}
           last == IF letters = {} THEN 0
                   ELSE CHOOSE n \in numbers : \A x \in letters : x.n <= n
<1>1. numbers \subseteq 0..(MaxFailures + 1) /\ MaxFailures \in Nat
  BY LedgerConstants DEF Letters
<1>2. last \in Nat /\ (letters # {} => last \in numbers)
  <2>1. CASE letters = {}
    BY <2>1
  <2>2. CASE letters # {}
    <3>1. numbers # {}
      BY <2>2
    <3>2. PICK n \in numbers : \A m \in numbers : m <= n
      <4> HIDE DEF numbers
      <4> QED
        <5>1. MaxFailures + 1 \in Nat
          BY <1>1
        <5> QED
          BY <1>1, <3>1, <5>1, LastOf
    <3>3. \A x \in letters : x.n <= n
      BY <3>2
    <3>4. last \in numbers
      BY <2>2, <3>3
    <3> HIDE DEF last, numbers
    <3> QED
      BY <1>1, <3>4
  <2> QED
    BY <2>1, <2>2
<1>3. Parked(letters, blobs) =
          letters \cup {[n |-> last + 1, key |-> b.key, text |-> b.text] : b \in blobs}
  BY DEF Parked
<1>4. last + 1 \in Nat
  BY <1>2
<1>5. Parked(letters, blobs) \in SUBSET Letters
  <2> HIDE DEF last
  <2> QED
    BY <1>3, <1>4 DEF Letters
<1>6. ASSUME \A x \in letters : x.n < MaxFailures
      PROVE  \A x \in Parked(letters, blobs) : x.n <= MaxFailures + 1
  <2>1. last + 1 <= MaxFailures + 1
    <3>1. CASE letters = {}
      BY <1>1, <1>6, <3>1
    <3>2. CASE letters # {}
      <4>1. PICK x \in letters : last = x.n
        BY <1>2, <3>2
      <4> HIDE DEF last
      <4> QED
        BY <1>1, <1>2, <1>6, <4>1
    <3> QED
      BY <3>1, <3>2
  <2> HIDE DEF last
  <2> QED
    BY <1>3, <2>1
<1> QED
  BY <1>5, <1>6

\* A new version, or a tombstone, and the row it closes.
LEMMA RowsTyped ==
    ASSUME LedgerTyped, NEW id \in DecisionIds, ledgerTime <= MaxWrites
    PROVE  /\ Closed(id) \subseteq DecisionRows
           /\ \A text \in Texts : \A t \in {0, ledgerTime} :
                 /\ \A status \in DecisionStates :
                       NewRow(id, text, status, FALSE, t) \in DecisionRows
                 /\ NewRow(id, text, "superseded", TRUE, t) \in DecisionRows
           /\ ledgerTime + 1 \in 1..(MaxWrites + 1)
<1>1. ledgerTime \in 0..MaxWrites /\ 0 \in 0..MaxWrites /\ decisions \subseteq DecisionRows
  BY LedgerConstants DEF LedgerTyped, LedgerTypeOK, DecisionRows
<1>2. \A r \in DecisionRows :
         [r EXCEPT !.at = ledgerTime, !.status = "superseded"] \in DecisionRows
  BY <1>1, RenamedRow
<1>4. Closed(id) \subseteq DecisionRows
  BY <1>1, <1>2 DEF Closed, Bare
<1>3. ledgerTime + 1 \in 1..(MaxWrites + 1)
  BY LedgerConstants DEF LedgerTyped, LedgerTypeOK
<1> QED
  BY <1>1, <1>3, <1>4 DEF NewRow, DecisionRows

LEMMA AddTyped ==
    ASSUME LedgerTyped, NEW w \in Writers, NEW id \in DecisionIds, NEW text \in Texts,
           NEW status \in DecisionStates, AddRow(w, id, text, status)
    PROVE  LedgerTyped'
<1>1. /\ ledgerTime <= MaxWrites
      /\ decisions' = Closed(id) \cup
             {NewRow(id, text, status, FALSE, IF Current(id) = {} THEN 0 ELSE ledgerTime)}
      /\ embedOutbox' = Enqueue(embedOutbox, {[key |-> <<id, 0>>, text |-> text]})
      /\ writer' = [writer EXCEPT ![w] =
                       [key |-> <<id, 0>>, text |-> text, model |-> embedModel]]
      /\ ledgerTime' = ledgerTime + 1
      /\ UNCHANGED <<vecMemory, provenance, deadLetter, embedModel, backfill>>
  BY DEF AddRow
<1>2. decisions' \subseteq DecisionRows /\ ledgerTime' \in 1..(MaxWrites + 1)
  BY <1>1, RowsTyped
<1>3. embedOutbox' \subseteq Blobs
  <2>1. {[key |-> <<id, 0>>, text |-> text]} \subseteq Blobs
    BY LedgerConstants DEF Blobs, Keys
  <2>2. embedOutbox \in SUBSET Blobs
    BY DEF LedgerTyped, LedgerTypeOK
  <2> QED
    BY <1>1, <2>1, <2>2, IndexTyped
<1>4. writer' \in [Writers -> {NoWork} \cup Works]
  BY <1>1 DEF LedgerTyped, LedgerTypeOK, Works
<1> QED
  BY <1>1, <1>2, <1>3, <1>4 DEF LedgerTyped, LedgerTypeOK, Works, DecisionRows

LEMMA RetireTyped ==
    ASSUME LedgerTyped, NEW id \in DecisionIds, Retire(id)
    PROVE  LedgerTyped'
<1>1. ledgerTime <= MaxWrites /\ ledgerTime' = ledgerTime + 1
      /\ UNCHANGED <<vecMemory, provenance, embedOutbox, deadLetter, embedModel, writer, backfill>>
  BY DEF Retire
<1>2. PICK r \in Current(id) :
          decisions' = Closed(id) \cup {NewRow(id, r.text, "superseded", TRUE, ledgerTime)}
  BY DEF Retire
<1>3. r.text \in Texts
  BY DEF Current, Bare, LedgerTyped, LedgerTypeOK
<1>4. decisions' \subseteq DecisionRows /\ ledgerTime' \in 1..(MaxWrites + 1)
  BY <1>1, <1>2, <1>3, RowsTyped
<1> QED
  BY <1>1, <1>4 DEF LedgerTyped, LedgerTypeOK, DecisionRows

LEMMA EmbedTyped ==
    ASSUME LedgerTyped, NEW w \in Writers, EmbedRow(w) \/ EmbedFails(w) \/ EmbedSkipped(w)
    PROVE  LedgerTyped'
<1>1. /\ writer \in [Writers -> {NoWork} \cup Works] /\ writer[w] \in Works
      /\ deadLetter \in SUBSET Letters /\ \A x \in deadLetter : x.n <= MaxFailures + 1
      /\ embedModel \in EmbedModels /\ vecMemory \in SUBSET Blobs /\ embedOutbox \in SUBSET Blobs
      /\ provenance \subseteq [key : Keys, model : EmbedModels] /\ backfill \subseteq Runs
  BY DEF EmbedRow, EmbedFails, EmbedSkipped, LedgerTyped, LedgerTypeOK, Works, Letters, Runs
<1>2. /\ writer[w].key \in Keys /\ writer[w].text \in Texts /\ writer[w].model \in EmbedModels
  BY <1>1, LedgerConstants DEF Works, Keys
<1>3. writer' \in [Writers -> {NoWork} \cup Works] /\ UNCHANGED <<ledgerTime, decisions, embedModel, backfill>>
  BY <1>1 DEF EmbedRow, EmbedFails, EmbedSkipped
<1>4. CASE EmbedRow(w)
  <2>1. vecMemory' \subseteq Blobs
    BY <1>1, <1>2, <1>4 DEF EmbedRow, Blobs
  <2>2. provenance' \subseteq [key : Keys, model : EmbedModels]
    BY <1>2, <1>4, StampTyped DEF EmbedRow
  <2>3. embedOutbox' \subseteq Blobs
    BY <1>1, <1>4, IndexTyped DEF EmbedRow
  <2> QED
    BY <1>1, <1>3, <1>4, <2>1, <2>2, <2>3, RowsStay DEF EmbedRow
<1>5. CASE EmbedFails(w)
  <2>1. deadLetter' \in SUBSET Letters /\ \A x \in deadLetter' : x.n <= MaxFailures + 1
    BY <1>1, <1>2, <1>5, ParkedTyped DEF EmbedFails
  <2> QED
    BY <1>1, <1>3, <1>5, <2>1, RowsStay DEF EmbedFails
<1>6. CASE EmbedSkipped(w)
  BY <1>1, <1>3, <1>6, RowsStay DEF EmbedSkipped
<1> QED
  BY <1>4, <1>5, <1>6

\* What a swap enqueues is in the index.
LEMMA StaleTyped ==
    ASSUME LedgerTyped, NEW model, NEW S \in StaleBlobs(model)
    PROVE  S \subseteq Blobs /\ Enqueue(embedOutbox, S) \in SUBSET Blobs
<1>1. S \subseteq vecMemory
  BY DEF StaleBlobs
<1>2. S \subseteq Blobs /\ embedOutbox \in SUBSET Blobs
  BY <1>1 DEF LedgerTyped, LedgerTypeOK
<1> QED
  BY <1>2, IndexTyped

LEMMA BackfillTyped ==
    ASSUME LedgerTyped,
           SwapModel \/ Recall \/ BackfillBegin \/ BackfillRead \/ BackfillStops
    PROVE  LedgerTyped'
<1>1. /\ writer \in [Writers -> {NoWork} \cup Works]
      /\ deadLetter \subseteq Letters /\ \A x \in deadLetter : x.n <= MaxFailures + 1
      /\ embedModel \in EmbedModels /\ vecMemory \subseteq Blobs /\ embedOutbox \subseteq Blobs
      /\ provenance \subseteq [key : Keys, model : EmbedModels] /\ backfill \subseteq Runs
  BY DEF LedgerTyped, LedgerTypeOK, Works, Letters, Runs
<1>2. CASE SwapModel
  BY <1>1, <1>2, RowsStay DEF SwapModel
<1>3. CASE Recall
  BY <1>1, <1>3, StaleTyped, RowsStay DEF Recall
<1>4. CASE BackfillBegin
  <2>1. KeysOf(vecMemory) \subseteq Keys
    BY <1>1, IndexTyped
  <2>2. backfill' \subseteq Runs
    BY <1>1, <1>4, <2>1 DEF BackfillBegin, Runs
  <2> QED
    BY <1>1, <1>4, <2>2, RowsStay DEF BackfillBegin
<1>5. CASE BackfillRead
  <2>1. PICK b \in backfill : \E S \in StaleBlobs(b.model) :
            backfill' = {[existing |-> b.existing, outbox |-> Enqueue(embedOutbox, S),
                          read |-> TRUE, locked |-> S # {}, model |-> b.model]}
    BY <1>5 DEF BackfillRead
  <2>2. b \in Runs
    BY <1>1
  <2>3. backfill' \subseteq Runs
    BY <2>1, <2>2, StaleTyped DEF Runs
  <2> QED
    BY <1>1, <1>5, <2>3, RowsStay DEF BackfillRead
<1>6. CASE BackfillStops
  BY <1>1, <1>6, RowsStay DEF BackfillStops
<1> QED
  BY <1>2, <1>3, <1>4, <1>5, <1>6

LEMMA CommitTyped ==
    ASSUME LedgerTyped, NEW full \in BOOLEAN, BackfillCommit(full)
    PROVE  LedgerTyped'
<1>1. /\ writer \in [Writers -> {NoWork} \cup Works]
      /\ deadLetter \subseteq Letters /\ \A x \in deadLetter : x.n <= MaxFailures + 1
      /\ embedModel \in EmbedModels /\ vecMemory \subseteq Blobs /\ embedOutbox \in SUBSET Blobs
      /\ provenance \subseteq [key : Keys, model : EmbedModels] /\ backfill \subseteq Runs
  BY DEF LedgerTyped, LedgerTypeOK, Works, Letters, Runs
<1>2. backfill' = {} /\ UNCHANGED <<ledgerTime, decisions, embedModel, writer>>
  BY DEF BackfillCommit
<1>3. \A s \in decisions : RowKey(s) \in Keys /\ s.text \in Texts
  BY DEF LedgerTyped, LedgerTypeOK, RowKey, Keys
<1>4. PICK b \in backfill : \E embedded0 \in SUBSET Blobs, more \in SUBSET Blobs,
                               letters \in SUBSET Letters : Committed(b, embedded0, more, letters)
  <2>1. PICK b \in backfill : \E embedded0 \in SUBSET b.outbox :
         \E e1, gone, todo2 :
            /\ e1 \subseteq deadLetter
            /\ todo2 \subseteq {[key |-> RowKey(r), text |-> r.text] : r \in decisions}
            /\ \E embedded2 \in SUBSET todo2 :
                   Committed(b, embedded0,
                             {[key |-> x.key, text |-> x.text] : x \in e1} \cup embedded2,
                             Parked(deadLetter \ gone, todo2 \ embedded2))
    BY DEF BackfillCommit
  <2>2. b.outbox \subseteq Blobs
    BY <1>1 DEF Runs
  <2>3. PICK embedded0 \in SUBSET Blobs :
         \E e1, gone, todo2 :
            /\ e1 \subseteq deadLetter
            /\ todo2 \subseteq {[key |-> RowKey(r), text |-> r.text] : r \in decisions}
            /\ \E embedded2 \in SUBSET todo2 :
                   Committed(b, embedded0,
                             {[key |-> x.key, text |-> x.text] : x \in e1} \cup embedded2,
                             Parked(deadLetter \ gone, todo2 \ embedded2))
    BY <2>1, <2>2
  <2>4. PICK e1, gone, todo2 :
            /\ e1 \subseteq deadLetter
            /\ todo2 \subseteq {[key |-> RowKey(r), text |-> r.text] : r \in decisions}
            /\ \E embedded2 \in SUBSET todo2 :
                   Committed(b, embedded0,
                             {[key |-> x.key, text |-> x.text] : x \in e1} \cup embedded2,
                             Parked(deadLetter \ gone, todo2 \ embedded2))
    BY <2>3
  <2>5. PICK embedded2 \in SUBSET todo2 :
            Committed(b, embedded0,
                      {[key |-> x.key, text |-> x.text] : x \in e1} \cup embedded2,
                      Parked(deadLetter \ gone, todo2 \ embedded2))
    BY <2>4
  <2>6. todo2 \subseteq Blobs
    BY <1>3, <2>4 DEF Blobs
  <2>7. {[key |-> x.key, text |-> x.text] : x \in e1} \subseteq Blobs
    BY <1>1, <2>4 DEF Blobs, Letters
  <2>8. Parked(deadLetter \ gone, todo2 \ embedded2) \in SUBSET Letters
    <3>1. \A y \in todo2 \ embedded2 : y.key \in Keys /\ y.text \in Texts
      BY <2>6 DEF Blobs
    <3>2. deadLetter \ gone \in SUBSET Letters
      BY <1>1
    <3> QED
      BY <1>1, <3>1, <3>2, ParkedTyped
  <2> QED
    BY <2>5, <2>6, <2>7, <2>8
<1>5. PICK embedded0 \in SUBSET Blobs, more \in SUBSET Blobs, letters \in SUBSET Letters :
          Committed(b, embedded0, more, letters)
  BY <1>4
<1>6. b \in Runs
  BY <1>1
<1>7. KeysOf(embedded0 \cup more) \in SUBSET Keys /\ b.model \in EmbedModels
  BY <1>6, IndexTyped DEF Runs
<1>8. vecMemory' \subseteq Blobs
  BY <1>1, <1>5 DEF Committed
<1>9. provenance' \subseteq [key : Keys, model : EmbedModels]
  BY <1>5, <1>7, StampTyped DEF Committed
<1>10. embedOutbox' \subseteq Blobs
  <2>1. (IF b.locked THEN b.outbox ELSE {}) \subseteq Blobs
    BY <1>6 DEF Runs
  <2>2. Enqueue(embedOutbox, IF b.locked THEN b.outbox ELSE {}) \in SUBSET Blobs
    BY <1>1, <2>1, IndexTyped
  <2> QED
    BY <1>5, <2>2, IndexTyped DEF Committed
<1>11. deadLetter' \subseteq Letters /\ \A x \in deadLetter' : x.n <= MaxFailures + 1
  BY <1>5, LedgerConstants DEF Committed, Letters
<1> QED
  BY <1>1, <1>2, <1>8, <1>9, <1>10, <1>11, RowsStay

LEMMA LedgerTypedStep == LedgerTyped /\ [LedgerNext]_ledgerVars => LedgerTyped'
<1> SUFFICES ASSUME LedgerTyped, [LedgerNext]_ledgerVars PROVE LedgerTyped'
  OBVIOUS
<1>1. ASSUME NEW w \in Writers, NEW text \in Texts, NEW status \in DecisionStates,
             AddNext(w, text, status)
      PROVE  LedgerTyped'
  BY <1>1, AddTyped DEF AddNext
<1>2. ASSUME NEW w \in Writers, NEW id \in DecisionIds, NEW text \in Texts,
             NEW status \in DecisionStates, AddExplicit(w, id, text, status)
      PROVE  LedgerTyped'
  BY <1>2, AddTyped DEF AddExplicit
<1>3. CASE UNCHANGED ledgerVars
  BY <1>3 DEF ledgerVars, LedgerTyped, LedgerTypeOK
<1> QED
  BY <1>1, <1>2, <1>3, EmbedTyped, RetireTyped, BackfillTyped, CommitTyped DEF LedgerNext

\* Every value the ledger stores is one its columns are for, whatever processes
\* write, die and backfill.
THEOREM LedgerTypeCorrect == LedgerSpec => []LedgerTypeOK
<1>1. LedgerInit => LedgerTyped
  BY LedgerConstants DEF LedgerInit, LedgerTyped, LedgerTypeOK
<1>2. LedgerTyped => LedgerTypeOK
  BY DEF LedgerTyped
<1> QED
  BY <1>1, <1>2, LedgerTypedStep, PTL DEF LedgerSpec

-----------------------------------------------------------------------------
\* VaultQueue.
\* The jobs that a live process has claimed.
Held == {drainer[d].job : d \in Drainers} \ {NoJob}

\* What a dead process left is not claimed again, a job has not taken effect
\* before it is claimed, and what the process that claimed it has done of it
\* shows in its pc.
VaultInv ==
    /\ VaultTypeOK
    /\ InFlightOwned
    /\ EffectOnce
    /\ Held \cap stranded = {}
    /\ \A j \in Jobs : job[j].status \in {"none", "stamped", "queued"} => job[j].effects = 0
    /\ \A d \in Drainers :
           /\ drainer[d].pc = "handling" => job[drainer[d].job].effects = 0
           /\ drainer[d].pc = "marking" => job[drainer[d].job].effects = 1

JobRecords == [status : Statuses, at : Nat, effects : Nat]
DrainerRecords == {Off, Idle} \cup [pc : {"handling", "marking", "failing"}, job : Jobs]

-----------------------------------------------------------------------------
\* What the updates of a job do to its fields.
LEMMA StatusSet ==
    ASSUME NEW r \in JobRecords, NEW s \in Statuses
    PROVE  /\ [r EXCEPT !.status = s] \in JobRecords
           /\ [r EXCEPT !.status = s].status = s
           /\ [r EXCEPT !.status = s].effects = r.effects
BY DEF JobRecords

LEMMA StampSet ==
    ASSUME NEW r \in JobRecords, NEW t \in Nat
    PROVE  /\ [r EXCEPT !.status = "stamped", !.at = t] \in JobRecords
           /\ [r EXCEPT !.status = "stamped", !.at = t].status = "stamped"
           /\ [r EXCEPT !.status = "stamped", !.at = t].effects = r.effects
BY DEF JobRecords, Statuses

LEMMA EffectSet ==
    ASSUME NEW r \in JobRecords
    PROVE  /\ [r EXCEPT !.effects = @ + 1] \in JobRecords
           /\ [r EXCEPT !.effects = @ + 1].status = r.status
           /\ [r EXCEPT !.effects = @ + 1].effects = r.effects + 1
BY DEF JobRecords

\* A process that holds a job is not off, and what it holds is a job.
LEMMA DrainerFields ==
    ASSUME NEW r \in DrainerRecords
    PROVE  /\ r # Off /\ r # Idle => r.job \in Jobs /\ r.job # NoJob
           /\ r.pc \in {"handling", "marking", "failing"} => r # Off /\ r # Idle
           /\ r.pc = "off" <=> r = Off
           /\ r.pc = "polling" <=> r = Idle
           /\ r.job \in Jobs \cup {NoJob}
           /\ r.job # NoJob => r # Off /\ r # Idle
BY VaultConstants DEF DrainerRecords, Off, Idle

\* Only one process changes, and it is alone past the lock.
LEMMA OneMoves ==
    ASSUME VaultInv, NEW d \in Drainers, NEW r \in DrainerRecords,
           \A e \in Drainers \ {d} : drainer[e] = Off,
           drainer' = [drainer EXCEPT ![d] = r]
    PROVE  /\ drainer' \in [Drainers -> DrainerRecords]
           /\ drainer'[d] = r
           /\ \A e \in Drainers \ {d} : drainer'[e] = Off
           /\ \A e, f \in Drainers : drainer'[e] # Off /\ drainer'[f] # Off => e = f
           /\ Held = {drainer[d].job} \ {NoJob}
           /\ Held' = {r.job} \ {NoJob}
<1>1. drainer \in [Drainers -> DrainerRecords]
  BY DEF VaultInv, VaultTypeOK, DrainerRecords
<1>2. Off \in DrainerRecords /\ Off.job = NoJob
  BY DEF DrainerRecords, Off
<1>3. /\ drainer' \in [Drainers -> DrainerRecords]
      /\ drainer'[d] = r
      /\ \A e \in Drainers \ {d} : drainer'[e] = Off
  BY <1>1
<1>4. Held = {drainer[d].job} \ {NoJob}
  BY <1>2 DEF Held
<1>5. Held' = {r.job} \ {NoJob}
  BY <1>2, <1>3 DEF Held
<1> QED BY <1>3, <1>4, <1>5

\* A process that is past the lock is alone there.
LEMMA Alone ==
    ASSUME VaultInv, NEW d \in Drainers, drainer[d] # Off
    PROVE  \A e \in Drainers \ {d} : drainer[e] = Off
BY DEF VaultInv, InFlightOwned
-----------------------------------------------------------------------------
\* A process works on the job it has claimed: it keeps it, or is done with it.
OwnStep(d, x, r) ==
    /\ drainer[d].pc \in {"handling", "marking", "failing"}
    /\ job' = [job EXCEPT ![drainer[d].job] = x]
    /\ drainer' = [drainer EXCEPT ![d] = r]
    /\ stranded' = stranded
    /\ crashes' \in 0..MaxCrashes
    /\ \/ x.status = "in_flight" /\ r.job = drainer[d].job
       \/ x.status \in {"done", "failed"} /\ r = Idle
    /\ x.effects <= 1
    /\ x.status = "done" => x.effects = 1
    /\ r.pc # "handling"
    /\ r.pc = "marking" => x.effects = 1

LEMMA OwnJobStep ==
    ASSUME VaultInv, NEW d \in Drainers, NEW x \in JobRecords, NEW r \in DrainerRecords,
           OwnStep(d, x, r)
    PROVE  VaultInv'
<1> USE DEF OwnStep
<1> DEFINE j == drainer[d].job
<1>1. /\ job \in [Jobs -> JobRecords] /\ drainer \in [Drainers -> DrainerRecords]
      /\ stranded \subseteq Jobs
  BY DEF VaultInv, VaultTypeOK, JobRecords, DrainerRecords
<1>2. /\ drainer[d] # Off /\ drainer[d] # Idle /\ j \in Jobs /\ j # NoJob
      /\ Idle.job = NoJob /\ Idle.pc = "polling" /\ Off.pc = "off"
  BY <1>1, DrainerFields DEF Idle, Off
<1>3. /\ drainer' \in [Drainers -> DrainerRecords]
      /\ drainer'[d] = r
      /\ \A e \in Drainers \ {d} : drainer'[e] = Off
      /\ \A e, f \in Drainers : drainer'[e] # Off /\ drainer'[f] # Off => e = f
      /\ Held = {j}
      /\ Held' = {r.job} \ {NoJob}
  BY <1>2, Alone, OneMoves
<1>4. /\ job' \in [Jobs -> JobRecords] /\ job'[j] = x
      /\ \A k \in Jobs \ {j} : job'[k] = job[k]
  BY <1>1, <1>2
<1>5. With("in_flight") = stranded \cup {j} /\ j \notin stranded
  BY <1>3 DEF VaultInv, InFlightOwned, Held
<1>6. With("in_flight")' = stranded' \cup Held' /\ Held' \cap stranded' = {}
  <2>1. CASE x.status = "in_flight" /\ r.job = j
    BY <1>2, <1>3, <1>4, <1>5, <2>1 DEF With
  <2>2. CASE x.status \in {"done", "failed"} /\ r = Idle
    <3>1. Held' = {}
      BY <1>2, <1>3, <2>2
    <3>2. With("in_flight")' = With("in_flight") \ {j}
      BY <1>2, <1>4, <2>2 DEF With
    <3> QED BY <1>5, <3>1, <3>2
  <2> QED BY <2>1, <2>2
<1>7. InFlightOwned'
  BY <1>3, <1>6 DEF InFlightOwned, Held
<1>8. EffectOnce'
  BY <1>4 DEF VaultInv, EffectOnce
<1>9. \A k \in Jobs : job'[k].status \in {"none", "stamped", "queued"} => job'[k].effects = 0
  BY <1>4 DEF VaultInv
<1>10. \A e \in Drainers :
          /\ drainer'[e].pc = "handling" => job'[drainer'[e].job].effects = 0
          /\ drainer'[e].pc = "marking" => job'[drainer'[e].job].effects = 1
  <2>1. r.pc = "marking" => r.job = j
    BY <1>2
  <2> QED BY <1>2, <1>3, <1>4, <2>1
<1>11. VaultTypeOK'
  BY <1>1, <1>3, <1>4 DEF VaultTypeOK, JobRecords, DrainerRecords
<1> QED BY <1>6, <1>7, <1>8, <1>9, <1>10, <1>11 DEF VaultInv

\* A job is enqueued.
LEMMA EnqueueStep ==
    ASSUME VaultInv, NEW j \in Jobs, EnqueueStamp(j) \/ EnqueueInsert(j)
    PROVE  VaultInv'
<1>1. /\ job \in [Jobs -> JobRecords] /\ drainer \in [Drainers -> DrainerRecords]
      /\ stranded \subseteq Jobs
  BY DEF VaultInv, VaultTypeOK, JobRecords, DrainerRecords
<1>2. UNCHANGED <<drainer, stranded, crashes>>
  BY DEF EnqueueStamp, EnqueueInsert
<1>3. PICK x \in JobRecords :
         /\ job' = [job EXCEPT ![j] = x]
         /\ x.status \in {"stamped", "queued"}
         /\ x.effects = 0
         /\ job[j].status # "in_flight"
  <2>1. CASE EnqueueStamp(j)
    <3>1. Cardinality(Jobs \ With("none")) \in Nat
      BY VaultConstants, FS_Difference, FS_CardinalityType
    <3> DEFINE x == [job[j] EXCEPT !.status = "stamped",
                                  !.at = Cardinality(Jobs \ With("none"))]
    <3>2. x \in JobRecords /\ x.status = "stamped" /\ x.effects = job[j].effects
      BY <1>1, <3>1, StampSet
    <3>3. job' = [job EXCEPT ![j] = x] /\ job[j].status = "none"
      BY <2>1 DEF EnqueueStamp
    <3>4. job[j].effects = 0
      BY <3>3 DEF VaultInv
    <3> HIDE DEF x
    <3> QED BY <3>2, <3>3, <3>4
  <2>2. CASE EnqueueInsert(j)
    <3>1. "queued" \in Statuses
      BY DEF Statuses
    <3>2. job' = [job EXCEPT ![j] = [job[j] EXCEPT !.status = "queued"]]
      BY <2>2 DEF EnqueueInsert, SetStatus
    <3>3. job[j].status = "stamped" /\ job[j].effects = 0
      BY <2>2 DEF EnqueueInsert, VaultInv
    <3> QED BY <1>1, <3>1, <3>2, <3>3, StatusSet
  <2> QED BY <2>1, <2>2
<1>4. /\ job' \in [Jobs -> JobRecords] /\ job'[j] = x
      /\ \A k \in Jobs \ {j} : job'[k] = job[k]
  BY <1>1, <1>3
<1>5. With("in_flight")' = With("in_flight") /\ Held' = Held /\ j \notin With("in_flight")
  BY <1>2, <1>3, <1>4 DEF With, Held
<1>6. InFlightOwned'
  BY <1>2, <1>5 DEF VaultInv, InFlightOwned, Held
<1>7. EffectOnce'
  BY <1>3, <1>4 DEF VaultInv, EffectOnce
<1>8. \A k \in Jobs : job'[k].status \in {"none", "stamped", "queued"} => job'[k].effects = 0
  BY <1>3, <1>4 DEF VaultInv
<1>9. ASSUME NEW e \in Drainers
      PROVE  /\ drainer'[e].pc = "handling" => job'[drainer'[e].job].effects = 0
             /\ drainer'[e].pc = "marking" => job'[drainer'[e].job].effects = 1
  <2>1. drainer[e].pc \in {"handling", "marking"} =>
           drainer[e].job \in Jobs /\ drainer[e].job # NoJob
    BY <1>1, DrainerFields
  <2>2. drainer[e].job # NoJob => drainer[e].job \in With("in_flight")
    BY DEF VaultInv, InFlightOwned
  <2> QED BY <1>2, <1>4, <1>5, <2>1, <2>2 DEF VaultInv
<1>10. VaultTypeOK'
  BY <1>1, <1>2, <1>4 DEF VaultInv, VaultTypeOK, JobRecords, DrainerRecords
<1> QED BY <1>2, <1>5, <1>6, <1>7, <1>8, <1>9, <1>10 DEF VaultInv

\* A process that holds no job starts, stops, or dies, or one dies with its job.
LEMMA ProcessStep ==
    ASSUME VaultInv, NEW d \in Drainers, StartDrainer(d) \/ Dies(d) \/ Exit(d)
    PROVE  VaultInv'
<1>1. /\ job \in [Jobs -> JobRecords] /\ drainer \in [Drainers -> DrainerRecords]
      /\ stranded \subseteq Jobs
  BY DEF VaultInv, VaultTypeOK, JobRecords, DrainerRecords
<1>2. /\ Off \in DrainerRecords /\ Off.job = NoJob /\ Off.pc = "off"
      /\ Idle \in DrainerRecords /\ Idle.job = NoJob /\ Idle.pc = "polling"
  BY DEF Idle, Off, DrainerRecords
<1>3. \A e \in Drainers \ {d} : drainer[e] = Off
  <2>1. CASE StartDrainer(d)
    BY <2>1 DEF StartDrainer, LockFree
  <2>2. CASE Dies(d) \/ Exit(d)
    <3>1. drainer[d] # Off
      BY <1>2, <2>2 DEF Dies, Exit
    <3> QED BY <3>1, Alone
  <2> QED BY <2>1, <2>2
<1>4. PICK r \in {Off, Idle} : drainer' = [drainer EXCEPT ![d] = r]
  BY DEF StartDrainer, Moves, Dies, Exit, Idle
<1>5. /\ drainer' \in [Drainers -> DrainerRecords]
      /\ drainer'[d] = r
      /\ \A e \in Drainers \ {d} : drainer'[e] = Off
      /\ \A e, f \in Drainers : drainer'[e] # Off /\ drainer'[f] # Off => e = f
      /\ Held = {drainer[d].job} \ {NoJob}
      /\ Held' = {r.job} \ {NoJob}
  BY <1>2, <1>3, <1>4, OneMoves
<1>6. job' = job /\ stranded' = stranded \cup Held /\ crashes' \in 0..MaxCrashes
  <2>1. CASE StartDrainer(d) \/ Exit(d)
    <3>1. drainer[d] \in {Off, Idle}
      BY <2>1 DEF StartDrainer, LockFree, Exit
    <3>2. Held = {}
      BY <1>2, <1>5, <3>1
    <3> QED BY <2>1, <3>2 DEF StartDrainer, Exit, VaultInv, VaultTypeOK
  <2>2. CASE Dies(d)
    BY <1>5, <2>2, VaultConstants DEF Dies, VaultInv, VaultTypeOK
  <2> QED BY <2>1, <2>2
<1>7. Held' = {}
  BY <1>2, <1>5
<1>8. InFlightOwned'
  <2>1. With("in_flight")' = With("in_flight")
    BY <1>6 DEF With
  <2>2. With("in_flight") = stranded \cup Held
    BY DEF VaultInv, InFlightOwned, Held
  <2> QED BY <1>5, <1>6, <1>7, <2>1, <2>2 DEF InFlightOwned, Held
<1>9. stranded' \subseteq Jobs
  BY <1>1, <1>5, <1>6, DrainerFields
<1>10. VaultTypeOK'
  BY <1>1, <1>5, <1>6, <1>9 DEF VaultTypeOK, JobRecords, DrainerRecords
<1>11. EffectOnce'
  BY <1>6 DEF VaultInv, EffectOnce
<1>12. \A e \in Drainers : drainer'[e].pc \in {"off", "polling"}
  BY <1>2, <1>4, <1>5
<1> QED BY <1>6, <1>7, <1>8, <1>10, <1>11, <1>12 DEF VaultInv

\* The oldest queued job is claimed.
LEMMA ClaimStep ==
    ASSUME VaultInv, NEW d \in Drainers, Claim(d)
    PROVE  VaultInv'
<1>1. /\ job \in [Jobs -> JobRecords] /\ drainer \in [Drainers -> DrainerRecords]
      /\ stranded \subseteq Jobs
  BY DEF VaultInv, VaultTypeOK, JobRecords, DrainerRecords
<1>2. PICK j \in With("queued"), pc \in {"handling", "failing"} :
         SetStatus(j, "in_flight") /\ Moves(d, pc, j)
  BY DEF Claim
<1>3. /\ j \in Jobs /\ j # NoJob /\ job[j].status = "queued" /\ job[j].effects = 0
      /\ "in_flight" \in Statuses
  BY <1>2, VaultConstants DEF With, VaultInv, Statuses
<1> DEFINE r == [pc |-> pc, job |-> j]
<1>4. r \in DrainerRecords /\ r.pc = pc /\ r.job = j
  BY <1>2, <1>3 DEF DrainerRecords
<1> HIDE DEF r
<1>5. drainer[d] = Idle /\ Idle # Off /\ Idle.job = NoJob
  BY DEF Claim, Idle, Off
<1>6. \A e \in Drainers \ {d} : drainer[e] = Off
  BY <1>5, Alone
<1>7. drainer' = [drainer EXCEPT ![d] = r]
  BY <1>2 DEF Moves, r
<1>8. /\ drainer' \in [Drainers -> DrainerRecords]
      /\ drainer'[d] = r
      /\ \A e \in Drainers \ {d} : drainer'[e] = Off
      /\ \A e, f \in Drainers : drainer'[e] # Off /\ drainer'[f] # Off => e = f
      /\ Held = {}
      /\ Held' = {j}
  BY <1>3, <1>4, <1>5, <1>6, <1>7, OneMoves
<1>9. /\ job' \in [Jobs -> JobRecords]
      /\ job'[j].status = "in_flight" /\ job'[j].effects = 0
      /\ \A k \in Jobs \ {j} : job'[k] = job[k]
  <2>1. job' = [job EXCEPT ![j] = [job[j] EXCEPT !.status = "in_flight"]]
    BY <1>2 DEF SetStatus
  <2> QED BY <1>1, <1>3, <2>1, StatusSet
<1>10. With("in_flight") = stranded /\ stranded' = stranded /\ crashes' = crashes
  BY <1>8 DEF VaultInv, InFlightOwned, Held, Claim
<1>11. With("in_flight")' = stranded' \cup {j} /\ j \notin stranded'
  BY <1>3, <1>9, <1>10 DEF With
<1>12. InFlightOwned'
  BY <1>8, <1>11 DEF InFlightOwned, Held
<1>13. EffectOnce'
  BY <1>9 DEF VaultInv, EffectOnce
<1>14. \A k \in Jobs : job'[k].status \in {"none", "stamped", "queued"} => job'[k].effects = 0
  BY <1>9 DEF VaultInv
<1>15. \A e \in Drainers :
          /\ drainer'[e].pc = "handling" => job'[drainer'[e].job].effects = 0
          /\ drainer'[e].pc = "marking" => job'[drainer'[e].job].effects = 1
  <2>1. Off.pc = "off" /\ r.pc # "marking"
    BY <1>2, <1>4 DEF Off
  <2> QED BY <1>4, <1>8, <1>9, <2>1
<1>16. VaultTypeOK'
  BY <1>1, <1>8, <1>9, <1>10 DEF VaultInv, VaultTypeOK, JobRecords, DrainerRecords
<1> QED BY <1>8, <1>11, <1>12, <1>13, <1>14, <1>15, <1>16 DEF VaultInv

\* The handler runs, or the job is marked.
LEMMA WorkStep ==
    ASSUME VaultInv, NEW d \in Drainers,
           Handle(d) \/ MarkDone(d) \/ MarkDoneRaises(d) \/ MarkFailed(d)
    PROVE  VaultInv'
<1>1. job \in [Jobs -> JobRecords] /\ drainer \in [Drainers -> DrainerRecords]
  BY DEF VaultInv, VaultTypeOK, JobRecords, DrainerRecords
<1>2. drainer[d].pc \in {"handling", "marking", "failing"}
  BY DEF Handle, MarkDone, MarkDoneRaises, MarkFailed
<1> DEFINE j == drainer[d].job
<1>3. j \in Jobs /\ j # NoJob
  BY <1>1, <1>2, DrainerFields
<1>4. /\ job[j] \in JobRecords /\ job[j].status = "in_flight"
      /\ job[j].effects \in {0, 1}
  <2>1. j \in With("in_flight")
    BY <1>3 DEF VaultInv, InFlightOwned
  <2>2. job[j].effects \in Nat
    BY <1>1, <1>3 DEF JobRecords
  <2> QED BY <1>1, <1>3, <2>1, <2>2 DEF With, VaultInv, EffectOnce
<1> DEFINE r(pc) == [pc |-> pc, job |-> j]
<1>5. \A pc \in {"marking", "failing"} :
         r(pc) \in DrainerRecords /\ r(pc).pc = pc /\ r(pc).job = j
  BY <1>3 DEF DrainerRecords
<1> HIDE DEF r
<1>6. Idle \in DrainerRecords /\ Idle.pc = "polling" /\ Idle = [pc |-> "polling", job |-> NoJob]
  BY DEF DrainerRecords, Idle
<1>7. "done" \in Statuses /\ "failed" \in Statuses
  BY DEF Statuses
<1>8. stranded' = stranded /\ crashes' \in 0..MaxCrashes
  BY VaultConstants DEF Handle, MarkDone, MarkDoneRaises, MarkFailed, VaultInv, VaultTypeOK
<1>9. CASE Handle(d)
  <2>1. job[j].effects = 0
    BY <1>9 DEF Handle, VaultInv
  <2>2. CASE UNCHANGED job /\ Moves(d, "failing", j)
    <3>1. job' = [job EXCEPT ![j] = job[j]]
      BY <1>1, <1>3, <2>2
    <3>2. drainer' = [drainer EXCEPT ![d] = r("failing")]
      BY <2>2 DEF Moves, r
    <3>3. OwnStep(d, job[j], r("failing"))
      BY <1>2, <1>4, <1>5, <1>8, <2>1, <3>1, <3>2 DEF OwnStep
    <3> QED BY <1>4, <1>5, <3>3, OwnJobStep
  <2>3. CASE /\ job' = [job EXCEPT ![j].effects = @ + 1]
             /\ Moves(d, "marking", j) \/ Moves(d, "failing", j)
    <3> DEFINE x == [job[j] EXCEPT !.effects = @ + 1]
    <3>1. x \in JobRecords /\ x.status = "in_flight" /\ x.effects = 1
      BY <1>4, <2>1, EffectSet
    <3>2. job' = [job EXCEPT ![j] = x]
      BY <2>3
    <3>3. PICK pc \in {"marking", "failing"} : drainer' = [drainer EXCEPT ![d] = r(pc)]
      BY <2>3 DEF Moves, r
    <3> HIDE DEF x
    <3>4. OwnStep(d, x, r(pc))
      BY <1>2, <1>5, <1>8, <3>1, <3>2, <3>3 DEF OwnStep
    <3> QED BY <1>5, <3>1, <3>4, OwnJobStep
  <2> QED BY <1>9, <2>2, <2>3 DEF Handle
<1>10. ASSUME NEW s \in {"done", "failed"}, SetStatus(j, s), Moves(d, "polling", NoJob),
              s = "done" => job[j].effects = 1
       PROVE  VaultInv'
  <2> DEFINE x == [job[j] EXCEPT !.status = s]
  <2>1. x \in JobRecords /\ x.status = s /\ x.effects = job[j].effects
    BY <1>4, <1>7, StatusSet
  <2>2. job' = [job EXCEPT ![j] = x] /\ drainer' = [drainer EXCEPT ![d] = Idle]
    BY <1>6, <1>10 DEF SetStatus, Moves
  <2> HIDE DEF x
  <2>3. OwnStep(d, x, Idle)
    BY <1>2, <1>4, <1>6, <1>8, <1>10, <2>1, <2>2 DEF OwnStep
  <2> QED BY <1>6, <2>1, <2>3, OwnJobStep
<1>11. CASE MarkDone(d)
  BY <1>10, <1>11 DEF MarkDone, VaultInv
<1>12. CASE MarkFailed(d)
  BY <1>10, <1>12 DEF MarkFailed
<1>13. CASE MarkDoneRaises(d)
  <2>1. job' = [job EXCEPT ![j] = job[j]]
    BY <1>1, <1>3, <1>13 DEF MarkDoneRaises
  <2>2. drainer' = [drainer EXCEPT ![d] = r("failing")]
    BY <1>13 DEF MarkDoneRaises, Moves, r
  <2>3. OwnStep(d, job[j], r("failing"))
    BY <1>2, <1>4, <1>5, <1>8, <2>1, <2>2 DEF OwnStep
  <2> QED BY <1>4, <1>5, <2>3, OwnJobStep
<1> QED BY <1>9, <1>11, <1>12, <1>13

LEMMA InitVault == VaultInit => VaultInv
<1> SUFFICES ASSUME VaultInit PROVE VaultInv
  OBVIOUS
<1> DEFINE fresh == [status |-> "none", at |-> 0, effects |-> 0]
<1>1. fresh \in JobRecords /\ fresh.status = "none" /\ fresh.effects = 0
  BY DEF JobRecords, Statuses
<1> HIDE DEF fresh
<1>2. Off \in DrainerRecords /\ Off.job = NoJob /\ Off.pc = "off"
  BY DEF Off, DrainerRecords
<1>3. /\ job \in [Jobs -> JobRecords] /\ \A j \in Jobs : job[j] = fresh
      /\ drainer \in [Drainers -> DrainerRecords] /\ \A d \in Drainers : drainer[d] = Off
      /\ stranded = {} /\ crashes = 0
  BY <1>1, <1>2 DEF VaultInit, fresh
<1>4. VaultTypeOK
  BY <1>3, VaultConstants DEF VaultTypeOK, JobRecords, DrainerRecords
<1>5. Held = {} /\ With("in_flight") = {}
  BY <1>1, <1>2, <1>3 DEF Held, With
<1>6. InFlightOwned
  BY <1>3, <1>5 DEF InFlightOwned, Held
<1>7. EffectOnce
  BY <1>1, <1>3 DEF EffectOnce
<1> QED BY <1>1, <1>2, <1>3, <1>4, <1>5, <1>6, <1>7 DEF VaultInv

LEMMA StutterVault ==
    ASSUME VaultInv, UNCHANGED vaultVars
    PROVE  VaultInv'
BY DEF VaultInv, vaultVars, VaultTypeOK, InFlightOwned, EffectOnce, With, Held

THEOREM VaultInvariant == VaultSpec => []VaultInv
<1>1. VaultInit => VaultInv
  BY InitVault
<1>2. VaultInv /\ [VaultNext]_vaultVars => VaultInv'
  <2> SUFFICES ASSUME VaultInv, [VaultNext]_vaultVars PROVE VaultInv'
    OBVIOUS
  <2>1. CASE \E j \in Jobs : EnqueueStamp(j) \/ EnqueueInsert(j)
    BY <2>1, EnqueueStep
  <2>2. ASSUME NEW d \in Drainers, StartDrainer(d) \/ Dies(d) \/ Exit(d)
        PROVE  VaultInv'
    BY <2>2, ProcessStep
  <2>3. ASSUME NEW d \in Drainers, Claim(d)
        PROVE  VaultInv'
    BY <2>3, ClaimStep
  <2>4. ASSUME NEW d \in Drainers,
               Handle(d) \/ MarkDone(d) \/ MarkDoneRaises(d) \/ MarkFailed(d)
        PROVE  VaultInv'
    BY <2>4, WorkStep
  <2>5. CASE UNCHANGED vaultVars
    BY <2>5, StutterVault
  <2> QED BY <2>1, <2>2, <2>3, <2>4, <2>5 DEF VaultNext
<1> QED BY <1>1, <1>2, PTL DEF VaultSpec

\* One process is past the lock, and the jobs in flight are its own and those
\* that dead processes left, for any number of processes and crashes.
THEOREM OneWriter == VaultSpec => []InFlightOwned
<1>1. VaultInv => InFlightOwned
  BY DEF VaultInv
<1> QED BY <1>1, VaultInvariant, PTL

\* No job takes effect twice, and one marked done has taken effect.
THEOREM AtMostOnce == VaultSpec => []EffectOnce
<1>1. VaultInv => EffectOnce
  BY DEF VaultInv
<1> QED BY <1>1, VaultInvariant, PTL

-----------------------------------------------------------------------------
\* EventLog.  The rows have seqs of their own, from 0 on without a gap, and
\* an open store goes on behind the last.
SeqsOf(log) == {r.seq : r \in log}

DenseLog(log) ==
    /\ IsFiniteSet(log)
    /\ \A r \in log : r.seq \in Nat
    /\ \A r, s \in log : r.seq = s.seq => r = s
    /\ SeqsOf(log) = 0..(Cardinality(log) - 1)

LogInv ==
    /\ DenseLog(eventLog)
    /\ open \in BOOLEAN
    /\ nextSeq \in Nat
    /\ open => nextSeq = Cardinality(eventLog)

LEMMA OneMoreRow ==
    ASSUME NEW log, DenseLog(log), NEW id
    PROVE  LET n == Cardinality(log)
               more == log \cup {[seq |-> n, id |-> id]}
           IN  /\ n \in Nat
               /\ [seq |-> n, id |-> id] \notin log
               /\ DenseLog(more)
               /\ Cardinality(more) = n + 1
<1> DEFINE n == Cardinality(log)
           row == [seq |-> n, id |-> id]
           more == log \cup {row}
<1>1. n \in Nat /\ IsFiniteSet(log)
  BY FS_CardinalityType DEF DenseLog
<1>2. \A r \in log : r.seq \in 0..(n - 1)
  BY DEF DenseLog, SeqsOf
<1>3. row \notin log
  BY <1>1, <1>2
<1>4. IsFiniteSet(more) /\ Cardinality(more) = n + 1
  BY <1>1, <1>3, FS_AddElement
<1>5. SeqsOf(more) = 0..n
  <2>1. row.seq = n
    OBVIOUS
  <2> HIDE DEF row
  <2>2. SeqsOf(more) = SeqsOf(log) \cup {n}
    BY <2>1 DEF SeqsOf
  <2> HIDE DEF more, n
  <2>3. SeqsOf(log) = 0..(n - 1) /\ n \in Nat
    BY <1>1 DEF DenseLog, n
  <2> QED
    BY <2>2, <2>3
<1>6. \A r, s \in more : r.seq = s.seq => r = s
  BY <1>1, <1>2 DEF DenseLog
<1>7. \A r \in more : r.seq \in Nat
  BY <1>1, <1>2
<1> HIDE DEF row, more
<1>8. DenseLog(more)
  BY <1>1, <1>4, <1>5, <1>6, <1>7 DEF DenseLog
<1> QED
  BY <1>1, <1>3, <1>4, <1>8 DEF row, more

\* EventStore.__init__ finds the next number of a dense log.
LEMMA NextAfterOpen ==
    ASSUME NEW log, DenseLog(log)
    PROVE  (IF SeqsOf(log) = {} THEN 0 ELSE 1 + Max(SeqsOf(log))) = Cardinality(log)
<1> DEFINE n == Cardinality(log)
<1>1. n \in Nat /\ SeqsOf(log) = 0..(n - 1)
  BY FS_CardinalityType DEF DenseLog
<1>2. CASE n = 0
  BY <1>1, <1>2
<1>3. CASE n # 0
  <2>1. n - 1 \in 0..(n - 1) /\ \A k \in 0..(n - 1) : n - 1 >= k
    BY <1>1, <1>3
  <2>2. Max(0..(n - 1)) = n - 1
    BY <1>1, <2>1 DEF Max
  <2> QED
    BY <1>1, <2>1, <2>2
<1> QED
  BY <1>2, <1>3

LEMMA InitLog == EventInit => LogInv
BY FS_EmptySet DEF EventInit, LogInv, DenseLog, SeqsOf

LEMMA AppendLog ==
    ASSUME LogInv, NEW id, AppendEvent(id) \/ AppendDies(id)
    PROVE  LogInv'
<1>1. /\ nextSeq = Cardinality(eventLog)
      /\ eventLog' = eventLog \cup {[seq |-> nextSeq, id |-> id]}
  BY DEF LogInv, AppendEvent, AppendDies
<1>2. /\ Cardinality(eventLog) \in Nat
      /\ DenseLog(eventLog')
      /\ Cardinality(eventLog') = Cardinality(eventLog) + 1
  BY <1>1, OneMoreRow DEF LogInv
<1>3. CASE AppendEvent(id)
  <2>1. open' = open /\ nextSeq' = nextSeq + 1
    BY <1>3 DEF AppendEvent
  <2> QED
    BY <1>1, <1>2, <2>1 DEF LogInv
<1>4. CASE AppendDies(id)
  <2>1. open' = FALSE /\ nextSeq' = nextSeq
    BY <1>4 DEF AppendDies
  <2> QED
    BY <1>1, <1>2, <2>1 DEF LogInv
<1> QED
  BY <1>3, <1>4

LEMMA OpenLog ==
    ASSUME LogInv, StoreOpens
    PROVE  LogInv'
<1>1. Seqs = SeqsOf(eventLog)
  BY DEF Seqs, SeqsOf
<1>2. nextSeq' = Cardinality(eventLog)
  BY <1>1, NextAfterOpen DEF LogInv, StoreOpens
<1>3. Cardinality(eventLog) \in Nat
  BY FS_CardinalityType DEF LogInv, DenseLog
<1> QED
  BY <1>2, <1>3 DEF LogInv, StoreOpens

THEOREM LogInvariant == EventSpec => []LogInv
<1>1. LogInv /\ [EventNext]_eventVars => LogInv'
  <2> SUFFICES ASSUME LogInv, [EventNext]_eventVars PROVE LogInv'
    OBVIOUS
  <2>1. ASSUME NEW id \in EventIds, AppendEvent(id) \/ AppendDies(id) PROVE LogInv'
    BY <2>1, AppendLog
  <2>2. CASE StoreCloses
    BY <2>2 DEF StoreCloses, LogInv
  <2>3. CASE StoreOpens
    BY <2>3, OpenLog
  <2>4. CASE UNCHANGED eventVars
    BY <2>4 DEF eventVars, LogInv
  <2> QED
    BY <2>1, <2>2, <2>3, <2>4 DEF EventNext
<1> QED
  BY <1>1, InitLog, PTL DEF EventSpec

\* Whatever crashes between the INSERT and the counter, the log has no gap
\* and no append is refused for a number that is taken.
THEOREM LogDense == EventSpec => []EventLogDense
<1>1. LogInv => EventLogDense
  BY DEF LogInv, DenseLog, SeqsOf, EventLogDense, Seqs
<1> QED
  BY <1>1, LogInvariant, PTL

-----------------------------------------------------------------------------
\* read_events returns the event with seq i at position i + 1.
LEMMA RankIsSeq ==
    ASSUME NEW log, DenseLog(log), NEW r \in log
    PROVE  Cardinality({s \in log : s.seq < r.seq}) = r.seq
<1> DEFINE P == {s \in log : s.seq < r.seq}
           T == 0..(r.seq - 1)
           f == [s \in P |-> s.seq]
<1>1. IsFiniteSet(P) /\ r.seq \in 0..(Cardinality(log) - 1) /\ Cardinality(log) \in Nat
  BY FS_Subset, FS_CardinalityType DEF DenseLog, SeqsOf
<1>2. f \in [P -> T] /\ IsInjective(f)
  BY <1>1 DEF DenseLog, SeqsOf, IsInjective
<1>3. \A k \in T : \E s \in P : f[s] = k
  <2> SUFFICES ASSUME NEW k \in T PROVE \E s \in P : f[s] = k
    OBVIOUS
  <2>1. k \in SeqsOf(log) /\ k < r.seq
    BY <1>1 DEF DenseLog
  <2>2. PICK s \in log : s.seq = k
    BY <2>1 DEF SeqsOf
  <2> QED
    BY <2>1, <2>2
<1>4. f \in Injection(P, T) /\ f \in Surjection(P, T)
  BY <1>2, <1>3 DEF Injection, Surjection
<1> HIDE DEF P, T, f
<1>5. Cardinality(T) = Cardinality(P)
  BY <1>1, <1>4, FS_Surjection
<1>6. Cardinality(T) = r.seq
  <2>1. PICK k \in Nat : k = r.seq
    BY <1>1
  <2>2. Cardinality(0..(k - 1)) = k
    BY FS_Interval
  <2> QED
    BY <2>1, <2>2 DEF T
<1> QED
  BY <1>5, <1>6 DEF P

LEMMA ReadRow ==
    ASSUME NEW log, DenseLog(log)
    PROVE  /\ DOMAIN ReadEvents(log) = 1..Cardinality(log)
           /\ \A r \in log : r.seq + 1 \in 1..Cardinality(log)
                             /\ ReadEvents(log)[r.seq + 1] = catalog[r.id]
<1> DEFINE Preceding(r) == {s \in log : s.seq < r.seq}
           row(i) == CHOOSE r \in log : Cardinality(Preceding(r)) = i - 1
<1>1. ReadEvents(log) = [i \in 1..Cardinality(log) |-> catalog[row(i).id]]
  BY DEF ReadEvents
<1>2. ASSUME NEW r \in log
      PROVE  r.seq + 1 \in 1..Cardinality(log) /\ row(r.seq + 1) = r
  <2>1. r.seq \in 0..(Cardinality(log) - 1) /\ Cardinality(log) \in Nat
    BY FS_CardinalityType DEF DenseLog, SeqsOf
  <2>2. \A s \in log : Cardinality(Preceding(s)) = s.seq
    BY RankIsSeq
  <2> HIDE DEF Preceding
  <2>3. (r.seq + 1) - 1 = r.seq
    BY <2>1
  <2>4. /\ row(r.seq + 1) \in log
        /\ Cardinality(Preceding(row(r.seq + 1))) = r.seq
    BY <2>2, <2>3
  <2>5. row(r.seq + 1).seq = r.seq
    BY <2>2, <2>4
  <2> QED
    BY <2>1, <2>4, <2>5 DEF DenseLog
<1> HIDE DEF row
<1> QED
  BY <1>1, <1>2

\* So the events of a log with one more row are those before, and the new one.
LEMMA ReadOneMore ==
    ASSUME NEW log, DenseLog(log), NEW id
    PROVE  LET n == Cardinality(log)
               more == log \cup {[seq |-> n, id |-> id]}
           IN  /\ n \in Nat
               /\ DOMAIN ReadEvents(log) = 1..n
               /\ DOMAIN ReadEvents(more) = 1..(n + 1)
               /\ \A i \in 1..n : ReadEvents(more)[i] = ReadEvents(log)[i]
               /\ ReadEvents(more)[n + 1] = catalog[id]
<1> DEFINE n == Cardinality(log)
           row == [seq |-> n, id |-> id]
           more == log \cup {row}
<1>1. n \in Nat /\ DenseLog(more) /\ Cardinality(more) = n + 1
  BY OneMoreRow
<1>2. row \in more /\ row.seq = n /\ row.id = id /\ log \subseteq more
  OBVIOUS
<1> HIDE DEF row, more
<1>3. ReadEvents(more)[n + 1] = catalog[id] /\ DOMAIN ReadEvents(more) = 1..(n + 1)
  BY <1>1, <1>2, ReadRow
<1>4. DOMAIN ReadEvents(log) = 1..n
  BY ReadRow
<1>5. ASSUME NEW i \in 1..n PROVE ReadEvents(more)[i] = ReadEvents(log)[i]
  <2>1. i - 1 \in SeqsOf(log)
    BY <1>1 DEF DenseLog
  <2>2. PICK r \in log : r.seq = i - 1
    BY <2>1 DEF SeqsOf
  <2>3. r.seq + 1 = i
    BY <1>1, <2>2
  <2>4. ReadEvents(more)[i] = catalog[r.id]
    BY <1>1, <1>2, <2>3, ReadRow
  <2>5. ReadEvents(log)[i] = catalog[r.id]
    BY <2>3, ReadRow
  <2> QED
    BY <2>4, <2>5
<1> QED
  BY <1>1, <1>3, <1>4, <1>5 DEF row, more

-----------------------------------------------------------------------------
\* The fold of a sequence of events, in the order of their positions.
IsReplay(G, D, evs) ==
    G = [s \in SUBSET D |-> IF s = {} THEN NoTables
                            ELSE Applied(G[s \ {Max(s)}], evs[Max(s)])]

LEMMA MaxOfPositions ==
    ASSUME NEW n \in Nat, NEW s \in SUBSET (1..n), s # {}
    PROVE  Max(s) \in s
<1> DEFINE T == {m \in Nat : \A k \in s : k <= m}
<1>1. n \in T
  OBVIOUS
<1>2. PICK m \in T : \A k \in T : m <= k
  BY <1>1, LeastOf
<1>3. m \in s
  <2> SUFFICES ASSUME m \notin s PROVE FALSE
    OBVIOUS
  <2>1. \A k \in s : k \in Nat /\ k < m
    BY <1>2
  <2>2. m # 0
    <3>1. PICK k : k \in s
      OBVIOUS
    <3> QED
      BY <2>1, <3>1
  <2>3. m - 1 \in Nat /\ \A k \in s : k <= m - 1
    BY <1>2, <2>1, <2>2
  <2> QED
    BY <1>2, <2>3
<1>4. \A k \in s : m >= k
  BY <1>2
<1> QED
  BY <1>3, <1>4 DEF Max

\* It exists: by induction on the number of events, as a least counterexample.
LEMMA ReplayExists ==
    ASSUME NEW n \in Nat, NEW evs
    PROVE  \E G : IsReplay(G, 1..n, evs)
<1> DEFINE D == 1..n
           Next1(G, s) == IF s = {} THEN NoTables
                          ELSE Applied(G[s \ {Max(s)}], evs[Max(s)])
           UpTo(k) == \E G : \A s \in SUBSET D : Cardinality(s) < k => G[s] = Next1(G, s)
           Bad == {k \in Nat : ~UpTo(k)}
<1>1. /\ \A s \in SUBSET D : IsFiniteSet(s) /\ Cardinality(s) \in Nat
      /\ \A s \in SUBSET D : Cardinality(s) <= Cardinality(D)
  <2>1. IsFiniteSet(D)
    BY FS_Interval
  <2> HIDE DEF D
  <2> QED
    BY <2>1, FS_Subset, FS_CardinalityType
<1>2. UpTo(0)
  <2>1. \A s \in SUBSET D : ~(Cardinality(s) < 0)
    BY <1>1
  <2> HIDE DEF Next1
  <2> QED
    BY <2>1
<1>3. ASSUME NEW k \in Nat, UpTo(k) PROVE UpTo(k + 1)
  <2>1. PICK G : \A s \in SUBSET D : Cardinality(s) < k => G[s] = Next1(G, s)
    BY <1>3
  <2> DEFINE H == [s \in SUBSET D |-> Next1(G, s)]
  <2>2. ASSUME NEW s \in SUBSET D, Cardinality(s) < k + 1 PROVE H[s] = Next1(H, s)
    <3>1. CASE s = {}
      BY <3>1
    <3>2. CASE s # {}
      <4> DEFINE t == s \ {Max(s)}
      <4>1. t \in SUBSET D /\ Cardinality(t) < k
        <5>1. Max(s) \in s
          BY <3>2, MaxOfPositions
        <5>2. Cardinality(s) \in Nat /\ Cardinality(t) = Cardinality(s) - 1
          BY <1>1, <5>1, FS_RemoveElement
        <5>3. t \in SUBSET D
          OBVIOUS
        <5> HIDE DEF t
        <5> QED
          BY <2>2, <5>2, <5>3
      <4>2. G[t] = Next1(G, t)
        BY <2>1, <4>1
      <4>3. H[t] = G[t]
        BY <4>1, <4>2
      <4>4. H[s] = Applied(G[t], evs[Max(s)])
        BY <3>2
      <4> HIDE DEF H, t
      <4> QED
        BY <3>2, <4>3, <4>4 DEF t
    <3> QED
      BY <3>1, <3>2
  <2> HIDE DEF Next1, H
  <2> QED
    BY <2>2
<1> HIDE DEF UpTo
<1>4. Bad = {}
  <2> SUFFICES ASSUME Bad # {} PROVE FALSE
    OBVIOUS
  <2>1. PICK m \in Bad : \A k \in Bad : m <= k
    BY LeastOf
  <2>2. m - 1 \in Nat /\ m - 1 \notin Bad
    BY <1>2, <2>1
  <2> QED
    BY <1>3, <2>1, <2>2
<1>5. PICK G : \A s \in SUBSET D : G[s] = Next1(G, s)
  <2>1. Cardinality(D) + 1 \in Nat
    BY <1>1
  <2>2. UpTo(Cardinality(D) + 1)
    BY <1>4, <2>1
  <2>3. \A s \in SUBSET D : Cardinality(s) < Cardinality(D) + 1
    <3>1. Cardinality(D) \in Nat
      BY <1>1
    <3> QED
      BY <1>1, <3>1
  <2> HIDE DEF D, Next1
  <2> QED
    BY <2>2, <2>3 DEF UpTo
<1> DEFINE F == [s \in SUBSET D |-> G[s]]
<1>6. ASSUME NEW s \in SUBSET D PROVE F[s] = Next1(F, s)
  <2>1. CASE s = {}
    BY <1>5, <2>1
  <2>2. CASE s # {}
    <3>1. s \ {Max(s)} \in SUBSET D
      OBVIOUS
    <3>2. F[s \ {Max(s)}] = G[s \ {Max(s)}] /\ F[s] = G[s]
      BY <3>1
    <3> HIDE DEF F
    <3> QED
      BY <1>5, <2>2, <3>2
  <2> QED
    BY <2>1, <2>2
<1>7. F = [s \in SUBSET D |-> Next1(F, s)]
  <2>1. DOMAIN F = SUBSET D /\ F = [s \in DOMAIN F |-> F[s]]
    OBVIOUS
  <2> HIDE DEF F, Next1
  <2> QED
    BY <1>6, <2>1
<1> HIDE DEF F
<1> QED
  BY <1>7 DEF IsReplay

\* The tables after each of the first n events.
RunOf(H, n, evs) ==
    /\ FoldLeft(Applied, NoTables, evs) = H[n]
    /\ H[0] = NoTables
    /\ \A i \in 1..n : H[i] = Applied(H[i - 1], evs[i])

\* FoldLeft, as the recursion over positions that it is.
LEMMA ReplayFold ==
    ASSUME NEW n \in Nat, NEW evs, DOMAIN evs = 1..n
    PROVE  \E H : RunOf(H, n, evs)
<1> DEFINE fold == CHOOSE G : IsReplay(G, 1..n, evs)
           H == [i \in 0..n |-> fold[1..i]]
<1>1. FoldLeft(Applied, NoTables, evs) = fold[1..n]
  BY DEF FoldLeft, MapThenFoldSet, IsReplay
<1>2. IsReplay(fold, 1..n, evs)
  BY ReplayExists
<1> HIDE DEF fold
<1>3. fold[1..0] = NoTables
  <2>1. 1..0 = {} /\ 1..0 \in SUBSET (1..n)
    OBVIOUS
  <2> QED
    BY <1>2, <2>1 DEF IsReplay
<1>4. ASSUME NEW i \in 1..n PROVE fold[1..i] = Applied(fold[1..(i - 1)], evs[i])
  <2>1. /\ (1..i) \in SUBSET (1..n)
        /\ (1..i) # {}
        /\ (1..i) \ {i} = 1..(i - 1)
    <3>1. i \in Nat /\ i <= n /\ i \in 1..i
      OBVIOUS
    <3>2. (1..i) \in SUBSET (1..n)
      BY <3>1
    <3>3. (1..i) \ {i} = 1..(i - 1)
      <4>1. \A k : k \in (1..i) \ {i} <=> k \in 1..(i - 1)
        BY <3>1
      <4> QED
        BY <4>1
    <3>4. (1..i) # {}
      BY <3>1
    <3> QED
      BY <3>2, <3>3, <3>4
  <2>2. Max(1..i) = i
    <3>1. i \in 1..i /\ \A k \in 1..i : i >= k
      OBVIOUS
    <3> QED
      BY <3>1 DEF Max
  <2> QED
    BY <1>2, <2>1, <2>2 DEF IsReplay
<1>5. H[n] = fold[1..n] /\ H[0] = fold[1..0]
  OBVIOUS
<1>6. \A i \in 1..n : H[i] = Applied(H[i - 1], evs[i])
  BY <1>4
<1> HIDE DEF H
<1> QED
  BY <1>1, <1>3, <1>5, <1>6 DEF RunOf

\* One more event is applied to what those before it make.
LEMMA ReplayOneMore ==
    ASSUME NEW n \in Nat, NEW evs, DOMAIN evs = 1..n,
           NEW more, DOMAIN more = 1..(n + 1), \A i \in 1..n : more[i] = evs[i]
    PROVE  FoldLeft(Applied, NoTables, more)
              = Applied(FoldLeft(Applied, NoTables, evs), more[n + 1])
<1>1. PICK H : RunOf(H, n, evs)
  BY ReplayFold
<1>2. PICK J : RunOf(J, n + 1, more)
  <2>1. n + 1 \in Nat
    OBVIOUS
  <2> QED
    BY <2>1, ReplayFold
<1> DEFINE Bad == {i \in 0..n : J[i] # H[i]}
<1>3. Bad = {}
  <2> SUFFICES ASSUME Bad # {} PROVE FALSE
    OBVIOUS
  <2>1. PICK i \in Bad : \A k \in Bad : i <= k
    <3>1. Bad \subseteq Nat
      OBVIOUS
    <3> HIDE DEF Bad
    <3> QED
      BY <3>1, LeastOf
  <2>2. i # 0
    BY <1>1, <1>2 DEF RunOf
  <2>3. i \in 1..n /\ i - 1 \in 0..n /\ i - 1 \notin Bad
    BY <2>1, <2>2
  <2>4. J[i - 1] = H[i - 1]
    BY <2>3
  <2>5. J[i] = Applied(J[i - 1], more[i]) /\ H[i] = Applied(H[i - 1], evs[i])
    <3>1. i \in 1..(n + 1)
      BY <2>3
    <3> QED
      BY <1>1, <1>2, <2>3, <3>1 DEF RunOf
  <2>6. J[i] = H[i]
    BY <2>3, <2>4, <2>5
  <2> QED
    BY <2>6
<1>4. J[n] = H[n]
  BY <1>3
<1>5. J[n + 1] = Applied(J[n], more[n + 1])
  <2>1. n + 1 \in 1..(n + 1) /\ (n + 1) - 1 = n
    OBVIOUS
  <2> QED
    BY <1>2, <2>1 DEF RunOf
<1> QED
  BY <1>1, <1>2, <1>4, <1>5 DEF RunOf

\* What a producer does, an append adds to the replay.
LEMMA AppendReplays ==
    ASSUME LogInv, NEW id
    PROVE  Replayed(eventLog \cup {[seq |-> Cardinality(eventLog), id |-> id]})
              = Applied(Replayed(eventLog), catalog[id])
<1> DEFINE n == Cardinality(eventLog)
           more == eventLog \cup {[seq |-> n, id |-> id]}
           before == ReadEvents(eventLog)
           after == ReadEvents(more)
<1>1. /\ n \in Nat
      /\ DOMAIN before = 1..n
      /\ DOMAIN after = 1..(n + 1)
      /\ \A i \in 1..n : after[i] = before[i]
      /\ after[n + 1] = catalog[id]
  BY ReadOneMore DEF LogInv
<1> HIDE DEF n, more, before, after
<1>2. FoldLeft(Applied, NoTables, after) = Applied(FoldLeft(Applied, NoTables, before), after[n + 1])
  BY <1>1, ReplayOneMore
<1> QED
  BY <1>1, <1>2 DEF Replayed, n, more, before, after

LEMMA ReadOfNothing == Replayed({}) = NoTables
<1> DEFINE evs == ReadEvents({})
<1>1. DenseLog({}) /\ Cardinality({}) = 0
  BY FS_EmptySet DEF DenseLog, SeqsOf
<1>2. DOMAIN evs = 1..0
  BY <1>1, ReadRow
<1> HIDE DEF evs
<1>3. PICK H : RunOf(H, 0, evs)
  BY <1>2, ReplayFold
<1> QED
  BY <1>3 DEF Replayed, RunOf, evs

\* event_store.py: a re-delivered event is stored once.  However events are
\* delivered again, and whatever crashes, the replay of the log is what the
\* producers have done.
THEOREM ReplayExact == EventSpec => []ReplayIsLive
<1>1. EventInit => ReplayIsLive
  BY ReadOfNothing DEF EventInit, ReplayIsLive
<1>2. LogInv /\ ReplayIsLive /\ [EventNext]_eventVars => ReplayIsLive'
  <2> SUFFICES ASSUME LogInv, ReplayIsLive, [EventNext]_eventVars PROVE ReplayIsLive'
    OBVIOUS
  <2>1. ASSUME NEW id \in EventIds, AppendEvent(id) \/ AppendDies(id) PROVE ReplayIsLive'
    <3>1. /\ nextSeq = Cardinality(eventLog)
          /\ eventLog' = eventLog \cup {[seq |-> nextSeq, id |-> id]}
          /\ live' = Applied(live, catalog[id])
          /\ catalog' = catalog
      BY <2>1 DEF AppendEvent, AppendDies, LogInv
    <3>2. Replayed(eventLog \cup {[seq |-> Cardinality(eventLog), id |-> id]})
             = Applied(Replayed(eventLog), catalog[id])
      BY AppendReplays
    <3>3. Replayed(eventLog') = live'
      BY <3>1, <3>2 DEF ReplayIsLive
    <3> QED
      BY <3>1, <3>3 DEF ReplayIsLive, Replayed, ReadEvents
  <2>2. CASE StoreCloses \/ StoreOpens \/ UNCHANGED eventVars
    <3>1. catalog' = catalog /\ eventLog' = eventLog /\ live' = live
      BY <2>2 DEF StoreCloses, StoreOpens, eventVars
    <3> QED
      BY <3>1 DEF ReplayIsLive, Replayed, ReadEvents
  <2> QED
    BY <2>1, <2>2 DEF EventNext
<1> QED
  BY <1>1, <1>2, LogInvariant, PTL DEF EventSpec

-----------------------------------------------------------------------------
\* TelemetryDelivery.  The requests that a socket holds are finitely many.
TelemetryInv ==
    /\ TelemetryTypeOK
    /\ IsFiniteSet(requests)
    /\ RowsConserved
    /\ ParityHolds

OfRow(S, r) == {q \in S : q.row = r}
OneIf(P) == IF P THEN 1 ELSE 0

LEMMA AtMostOneMore ==
    ASSUME NEW T, IsFiniteSet(T), NEW q
    PROVE  Cardinality(T) \in Nat /\ Cardinality(T \cup {q}) <= Cardinality(T) + 1
<1>1. Cardinality(T) \in Nat
  BY FS_CardinalityType
<1>2. Cardinality(T \cup {q}) = IF q \in T THEN Cardinality(T) ELSE Cardinality(T) + 1
  BY FS_AddElement
<1> QED
  BY <1>1, <1>2

LEMMA RequestArrives ==
    ASSUME NEW S, IsFiniteSet(S), NEW q, NEW r
    PROVE  /\ IsFiniteSet(S \cup {q})
           /\ Cardinality(OfRow(S, r)) \in Nat
           /\ Cardinality(OfRow(S \cup {q}, r)) \in Nat
           /\ Cardinality(OfRow(S \cup {q}, r)) <= Cardinality(OfRow(S, r)) + OneIf(q.row = r)
<1>1. IsFiniteSet(S \cup {q})
  BY FS_AddElement
<1>2. IsFiniteSet(OfRow(S, r)) /\ IsFiniteSet(OfRow(S \cup {q}, r))
  BY <1>1, FS_Subset DEF OfRow
<1>3. Cardinality(OfRow(S, r)) \in Nat /\ Cardinality(OfRow(S \cup {q}, r)) \in Nat
  BY <1>2, FS_CardinalityType
<1>4. CASE q.row = r
  <2>1. OfRow(S \cup {q}, r) = OfRow(S, r) \cup {q}
    BY <1>4 DEF OfRow
  <2>2. Cardinality(OfRow(S, r) \cup {q}) <= Cardinality(OfRow(S, r)) + 1
    BY <1>2, AtMostOneMore
  <2> QED
    BY <1>1, <1>3, <1>4, <2>1, <2>2 DEF OneIf
<1>5. CASE q.row # r
  <2>1. OfRow(S \cup {q}, r) = OfRow(S, r)
    BY <1>5 DEF OfRow
  <2> QED
    BY <1>1, <1>3, <1>5, <2>1 DEF OneIf
<1> QED
  BY <1>4, <1>5

LEMMA RequestLeaves ==
    ASSUME NEW S, IsFiniteSet(S), NEW q \in S, NEW r
    PROVE  /\ IsFiniteSet(S \ {q})
           /\ Cardinality(OfRow(S, r)) \in Nat
           /\ Cardinality(OfRow(S \ {q}, r)) \in Nat
           /\ Cardinality(OfRow(S, r)) = Cardinality(OfRow(S \ {q}, r)) + OneIf(q.row = r)
<1>1. IsFiniteSet(S \ {q})
  BY FS_RemoveElement
<1>2. IsFiniteSet(OfRow(S, r)) /\ IsFiniteSet(OfRow(S \ {q}, r))
  BY <1>1, FS_Subset DEF OfRow
<1>3. Cardinality(OfRow(S, r)) \in Nat /\ Cardinality(OfRow(S \ {q}, r)) \in Nat
  BY <1>2, FS_CardinalityType
<1>4. CASE q.row = r
  <2>1. OfRow(S, r) = OfRow(S \ {q}, r) \cup {q} /\ q \notin OfRow(S \ {q}, r)
    BY <1>4 DEF OfRow
  <2>2. Cardinality(OfRow(S, r)) = Cardinality(OfRow(S \ {q}, r)) + 1
    BY <1>2, <1>3, <2>1, FS_AddElement
  <2> QED
    BY <1>1, <1>3, <1>4, <2>2 DEF OneIf
<1>5. CASE q.row # r
  <2>1. OfRow(S \ {q}, r) = OfRow(S, r)
    BY <1>5 DEF OfRow
  <2> QED
    BY <1>1, <1>3, <1>5, <2>1 DEF OneIf
<1> QED
  BY <1>4, <1>5

LEMMA NoRequests ==
    ASSUME NEW r
    PROVE  IsFiniteSet({}) /\ Cardinality(OfRow({}, r)) = 0
<1>1. OfRow({}, r) = {}
  BY DEF OfRow
<1> QED
  BY <1>1, FS_EmptySet

\* What the counts of a row are.
LEMMA Counts ==
    ASSUME TelemetryInv, NEW r \in Rows
    PROVE  /\ caller[r].attempt \in Nat
           /\ pending[r] \in Nat /\ batch[r] \in Nat /\ stored[r] \in Nat /\ logged[r] \in Nat
           /\ Unread(r) = Cardinality(OfRow(requests, r))
           /\ Unread(r) \in Nat
<1>1. IsFiniteSet(OfRow(requests, r))
  BY FS_Subset DEF TelemetryInv, OfRow
<1>2. Cardinality(OfRow(requests, r)) \in Nat
  BY <1>1, FS_CardinalityType
<1>3. caller[r].attempt \in Nat
  BY TelemetryConstants DEF TelemetryInv, TelemetryTypeOK
<1> QED
  BY <1>2, <1>3 DEF TelemetryInv, TelemetryTypeOK, Copies, Unread, OfRow

LEMMA InitTelemetry == TelemetryInit => TelemetryInv
<1> SUFFICES ASSUME TelemetryInit PROVE TelemetryInv
  OBVIOUS
<1>1. TelemetryTypeOK
  <2>1. NoRows \in Copies /\ 0 \in 0..MaxAttempts /\ 0 \in 0..MaxTrouble
    BY TelemetryConstants DEF NoRows, Copies
  <2>2. caller \in [Rows -> [pc : {"calling"}, attempt : 0..MaxAttempts]]
    BY <2>1 DEF TelemetryInit
  <2>3. caller \in [Rows -> [pc : {"calling", "waiting", "direct", "answered",
                                  "written", "raised"},
                            attempt : 0..MaxAttempts]]
    BY <2>2
  <2> QED
    BY <2>1, <2>3 DEF TelemetryInit, TelemetryTypeOK
<1>2. \A r \in Rows : Unread(r) = 0
  BY NoRequests DEF Unread, OfRow, TelemetryInit
<1>3. IsFiniteSet(requests)
  BY FS_EmptySet DEF TelemetryInit
<1>4. RowsConserved
  BY <1>2 DEF TelemetryInit, RowsConserved, Sent, Kept, Written, NoRows
<1>5. ParityHolds
  BY DEF TelemetryInit, ParityHolds, Kept, Written, NoRows
<1> QED
  BY <1>1, <1>3, <1>4, <1>5 DEF TelemetryInv

\* A caller moves on without a request or a write.
LEMMA CallerStep ==
    ASSUME TelemetryInv, NEW r \in Rows, TimeOut(r) \/ Unavailable(r) \/ WriteRaises(r)
    PROVE  TelemetryInv'
<1>1. PICK pc \in {"calling", "direct", "raised"} : Goto(r, pc)
  BY DEF TimeOut, Unavailable, WriteRaises
<1>2. /\ caller[r].pc \in {"waiting", "calling", "direct"}
      /\ UNCHANGED <<requests, serving, pending, batch, stored, logged, lost>>
      /\ trouble' \in 0..MaxTrouble
      /\ trouble' = 0 => trouble = 0
  BY TelemetryConstants
     DEF TimeOut, Unavailable, WriteRaises, TelemetryInv, TelemetryTypeOK
<1>3. caller' = [caller EXCEPT ![r].pc = pc]
  BY <1>1 DEF Goto
<1>4. \A s \in Rows : /\ caller'[s].attempt = caller[s].attempt
                      /\ caller'[s].pc = IF s = r THEN pc ELSE caller[s].pc
  BY <1>3 DEF TelemetryInv, TelemetryTypeOK
<1>5. TelemetryTypeOK'
  BY <1>2, <1>3 DEF TelemetryInv, TelemetryTypeOK, Copies
<1>6. \A s \in Rows : /\ Written(s)' = Written(s)
                      /\ Sent(s)' => Sent(s)
                      /\ Unread(s)' = Unread(s)
                      /\ Kept(s)' = Kept(s)
  BY <1>2, <1>4 DEF Written, Sent, Unread, Kept
<1>7. RowsConserved'
  BY <1>2, <1>4, <1>6 DEF TelemetryInv, RowsConserved
<1>8. ParityHolds'
  BY <1>2, <1>6 DEF TelemetryInv, ParityHolds
<1> QED
  BY <1>2, <1>5, <1>7, <1>8 DEF TelemetryInv

LEMMA SendStep ==
    ASSUME TelemetryInv, NEW r \in Rows, Send(r)
    PROVE  TelemetryInv'
<1> DEFINE q == [row |-> r, attempt |-> caller[r].attempt + 1]
<1>1. /\ caller[r].pc = "calling" /\ caller[r].attempt < MaxAttempts
      /\ caller' = [caller EXCEPT ![r] = [pc |-> "waiting", attempt |-> @.attempt + 1]]
      /\ requests' = requests \cup {q}
      /\ UNCHANGED <<serving, pending, batch, stored, logged, lost, trouble>>
  BY DEF Send
<1>2. \A s \in Rows :
          /\ caller'[s].attempt = caller[s].attempt + OneIf(s = r)
          /\ caller'[s].pc = IF s = r THEN "waiting" ELSE caller[s].pc
  BY <1>1, Counts DEF TelemetryInv, TelemetryTypeOK, OneIf
<1>3. TelemetryTypeOK'
  <2>1. caller[r].attempt + 1 \in 1..MaxAttempts
    BY <1>1, Counts, TelemetryConstants
  <2> QED
    BY <1>1, <2>1, TelemetryConstants DEF TelemetryInv, TelemetryTypeOK, Copies
<1>4. IsFiniteSet(requests)' /\ \A s \in Rows : Unread(s)' <= Unread(s) + OneIf(s = r) /\ Unread(s)' \in Nat
  <2>1. q.row = r
    OBVIOUS
  <2> HIDE DEF q
  <2> QED
    <3>1. IsFiniteSet(requests)
      BY DEF TelemetryInv
    <3>2. IsFiniteSet(requests \cup {q})
      BY <3>1, FS_AddElement
    <3>3. ASSUME NEW s \in Rows
          PROVE  /\ Cardinality(OfRow(requests', s)) <= Cardinality(OfRow(requests, s)) + OneIf(s = r)
                 /\ Cardinality(OfRow(requests', s)) \in Nat
      <4>1. /\ Cardinality(OfRow(requests \cup {q}, s)) \in Nat
            /\ Cardinality(OfRow(requests \cup {q}, s))
                  <= Cardinality(OfRow(requests, s)) + OneIf(q.row = s)
        BY <3>1, RequestArrives
      <4>2. OneIf(q.row = s) = OneIf(s = r)
        BY <2>1 DEF OneIf
      <4> QED
        BY <1>1, <4>1, <4>2
    <3> QED
      BY <1>1, <3>2, <3>3 DEF Unread, OfRow
<1>5. \A s \in Rows : /\ Written(s)' = Written(s)
                      /\ Sent(s)' => Sent(s)
                      /\ Kept(s)' = Kept(s)
  BY <1>1, <1>2 DEF Written, Sent, Kept
<1>6. RowsConserved'
  <2> SUFFICES ASSUME NEW s \in Rows
               PROVE  /\ Sent(s)' => Kept(s)' > 0 \/ s \in lost'
                      /\ Kept(s)' + Unread(s)' <= caller'[s].attempt + Written(s)'
    BY DEF RowsConserved
  <2>1. Kept(s) + Unread(s) <= caller[s].attempt + Written(s)
    BY DEF TelemetryInv, RowsConserved
  <2>2. Kept(s) \in Nat /\ Unread(s) \in Nat /\ caller[s].attempt \in Nat
    BY Counts DEF Kept
  <2>3. Written(s) \in Nat /\ OneIf(s = r) \in Nat
    BY DEF Written, OneIf
  <2>4. Kept(s)' + Unread(s)' <= caller'[s].attempt + Written(s)'
    BY <1>2, <1>4, <1>5, <2>1, <2>2, <2>3
  <2>5. Sent(s)' => Kept(s)' > 0 \/ s \in lost'
    BY <1>1, <1>5 DEF TelemetryInv, RowsConserved
  <2> QED
    BY <2>4, <2>5
<1>7. ParityHolds'
  BY <1>1, <1>5 DEF TelemetryInv, ParityHolds
<1> QED
  BY <1>3, <1>4, <1>6, <1>7 DEF TelemetryInv

LEMMA WriteStep ==
    ASSUME TelemetryInv, NEW r \in Rows, WriteDirect(r)
    PROVE  TelemetryInv'
<1>1. /\ caller[r].pc = "direct"
      /\ caller' = [caller EXCEPT ![r].pc = "written"]
      /\ stored' = [stored EXCEPT ![r] = @ + 1]
      /\ UNCHANGED <<requests, serving, pending, batch, logged, lost, trouble>>
  BY DEF WriteDirect, Goto, Added
<1>2. \A s \in Rows : /\ caller'[s].attempt = caller[s].attempt
                      /\ caller'[s].pc = IF s = r THEN "written" ELSE caller[s].pc
                      /\ stored'[s] = stored[s] + OneIf(s = r)
  BY <1>1, Counts DEF TelemetryInv, TelemetryTypeOK, OneIf, Copies
<1>3. TelemetryTypeOK'
  BY <1>1 DEF TelemetryInv, TelemetryTypeOK, Copies
<1>4. \A s \in Rows : /\ Written(s)' = Written(s) + OneIf(s = r)
                      /\ Unread(s)' = Unread(s)
                      /\ Kept(s)' = Kept(s) + OneIf(s = r)
                      /\ Kept(s) \in Nat /\ Unread(s) \in Nat /\ caller[s].attempt \in Nat
                      /\ Written(s) \in Nat /\ OneIf(s = r) \in Nat /\ logged[s] \in Nat
  <2> TAKE s \in Rows
  <2>1. Written(s)' = Written(s) + OneIf(s = r)
    BY <1>1, <1>2 DEF Written, OneIf
  <2>2. Unread(s)' = Unread(s)
    BY <1>1 DEF Unread
  <2>3. OneIf(s = r) \in Nat /\ Written(s) \in Nat
    BY DEF OneIf, Written
  <2>4. Kept(s)' = Kept(s) + OneIf(s = r)
    BY <1>1, <1>2, <2>3, Counts DEF Kept
  <2> QED
    BY <2>1, <2>2, <2>3, <2>4, Counts DEF Kept
<1>5. RowsConserved'
  <2> SUFFICES ASSUME NEW s \in Rows
               PROVE  /\ Sent(s)' => Kept(s)' > 0 \/ s \in lost'
                      /\ Kept(s)' + Unread(s)' <= caller'[s].attempt + Written(s)'
    BY DEF RowsConserved
  <2>1. Kept(s) + Unread(s) <= caller[s].attempt + Written(s)
    BY DEF TelemetryInv, RowsConserved
  <2>2. Kept(s)' + Unread(s)' <= caller'[s].attempt + Written(s)'
    BY <1>2, <1>4, <2>1
  <2>3. CASE s = r
    BY <1>4, <2>2, <2>3 DEF OneIf
  <2>4. CASE s # r
    <3>1. Sent(s)' => Sent(s)
      BY <1>2, <2>4 DEF Sent
    <3>2. Kept(s)' = Kept(s)
      BY <1>4, <2>4 DEF OneIf
    <3> QED
      BY <1>1, <2>2, <3>1, <3>2 DEF TelemetryInv, RowsConserved
  <2> QED
    BY <2>3, <2>4
<1>6. ParityHolds'
  BY <1>1, <1>4 DEF TelemetryInv, ParityHolds
<1> QED
  BY <1>1, <1>3, <1>5, <1>6 DEF TelemetryInv

LEMMA ServeStep ==
    ASSUME TelemetryInv, NEW q \in requests, Serve(q)
    PROVE  TelemetryInv'
<1> DEFINE r == q.row
<1>1. /\ requests' = requests \ {q}
      /\ pending' = [pending EXCEPT ![r] = @ + 1]
      /\ UNCHANGED <<serving, batch, stored, lost>>
  BY DEF Serve, Added
<1>2. \/ logged' = [logged EXCEPT ![r] = @ + 1] /\ trouble' = trouble
      \/ logged' = logged /\ trouble' \in 1..MaxTrouble
  BY TelemetryConstants DEF Serve, Added, TelemetryInv, TelemetryTypeOK
<1>3. \/ caller' = caller
      \/ caller[r].pc = "waiting" /\ caller' = [caller EXCEPT ![r].pc = "answered"]
  BY DEF Serve, Goto
<1>4. r \in Rows
  BY DEF TelemetryInv, TelemetryTypeOK
<1>5. TelemetryTypeOK'
  <2>1. /\ pending' \in Copies
        /\ logged' \in Copies
        /\ trouble' \in 0..MaxTrouble
    BY <1>1, <1>2, <1>4 DEF TelemetryInv, TelemetryTypeOK, Copies
  <2>2. caller' \in [Rows -> [pc : {"calling", "waiting", "direct", "answered",
                                    "written", "raised"},
                              attempt : 0..MaxAttempts]]
    BY <1>3, <1>4 DEF TelemetryInv, TelemetryTypeOK
  <2> QED
    BY <1>1, <2>1, <2>2 DEF TelemetryInv, TelemetryTypeOK
<1>6. \A s \in Rows : pending'[s] = pending[s] + OneIf(r = s)
  BY <1>1, Counts DEF TelemetryInv, TelemetryTypeOK, OneIf, Copies
<1>7. \A s \in Rows : /\ caller'[s].attempt = caller[s].attempt
                      /\ Written(s)' = Written(s)
                      /\ s # r => (Sent(s)' => Sent(s))
  BY <1>3, <1>4 DEF TelemetryInv, TelemetryTypeOK, Written, Sent
<1>8. IsFiniteSet(requests)' /\ \A s \in Rows : Unread(s)' \in Nat /\ Unread(s) = Unread(s)' + OneIf(r = s)
  <2>1. IsFiniteSet(requests)
    BY DEF TelemetryInv
  <2>2. \A s \in Rows :
            /\ Cardinality(OfRow(requests \ {q}, s)) \in Nat
            /\ Cardinality(OfRow(requests, s)) = Cardinality(OfRow(requests \ {q}, s)) + OneIf(r = s)
    BY <2>1, RequestLeaves
  <2>3. IsFiniteSet(requests \ {q})
    BY <2>1, RequestLeaves
  <2> QED
    BY <1>1, <2>2, <2>3 DEF Unread, OfRow
<1>9. \A s \in Rows : /\ OneIf(r = s) \in Nat /\ Written(s) \in Nat
                      /\ Kept(s) \in Nat /\ caller[s].attempt \in Nat
                      /\ Kept(s)' = Kept(s) + OneIf(r = s)
  <2> TAKE s \in Rows
  <2>1. OneIf(r = s) \in Nat /\ Written(s) \in Nat
    BY DEF OneIf, Written
  <2> QED
    BY <1>1, <1>6, <2>1, Counts DEF Kept
<1> HIDE DEF r
<1>10. RowsConserved'
  <2> SUFFICES ASSUME NEW s \in Rows
               PROVE  /\ Sent(s)' => Kept(s)' > 0 \/ s \in lost'
                      /\ Kept(s)' + Unread(s)' <= caller'[s].attempt + Written(s)'
    BY DEF RowsConserved
  <2>1. Kept(s) + Unread(s) <= caller[s].attempt + Written(s)
    BY DEF TelemetryInv, RowsConserved
  <2>2. Kept(s)' + Unread(s)' <= caller'[s].attempt + Written(s)'
    BY <1>7, <1>8, <1>9, <2>1
  <2>3. CASE s = r
    <3>1. OneIf(r = s) = 1
      BY <2>3 DEF OneIf
    <3>2. Kept(s) \in Nat /\ Kept(s)' = Kept(s) + OneIf(r = s)
      BY <1>9
    <3> QED
      BY <2>2, <3>1, <3>2
  <2>4. CASE s # r
    <3>1. Sent(s)' => Sent(s)
      BY <1>7, <2>4
    <3>2. Kept(s)' = Kept(s)
      BY <1>9, <2>4 DEF OneIf
    <3> QED
      BY <1>1, <2>2, <3>1, <3>2 DEF TelemetryInv, RowsConserved
  <2> QED
    BY <2>3, <2>4
<1>11. ParityHolds'
  <2> SUFFICES ASSUME trouble' = 0, NEW s \in Rows
               PROVE  Kept(s)' = logged'[s] + Written(s)'
    BY DEF ParityHolds
  <2>1. logged' = [logged EXCEPT ![r] = @ + 1] /\ trouble = 0
    BY <1>2
  <2>2. logged'[s] = logged[s] + OneIf(r = s) /\ logged[s] \in Nat
    BY <2>1, Counts DEF TelemetryInv, TelemetryTypeOK, Copies, OneIf
  <2>3. Kept(s) = logged[s] + Written(s)
    BY <2>1 DEF TelemetryInv, ParityHolds
  <2> QED
    BY <1>7, <1>9, <2>2, <2>3
<1> QED
  BY <1>5, <1>8, <1>10, <1>11 DEF TelemetryInv

\* Rows move between the buffer, a flush and the table, and some are lost.
LEMMA RowsMove ==
    ASSUME TelemetryInv,
           UNCHANGED <<caller, logged>>,
           requests' \in {requests, {}},
           serving' \in BOOLEAN,
           pending' \in Copies, batch' \in Copies, stored' \in Copies,
           lost' \subseteq Rows, lost \subseteq lost',
           trouble' \in 0..MaxTrouble,
           trouble' = 0 => trouble = 0 /\ \A r \in Rows : Kept(r)' = Kept(r),
           \A r \in Rows : Kept(r)' <= Kept(r) /\ (Kept(r)' < Kept(r) => r \in lost')
    PROVE  TelemetryInv'
<1>1. TelemetryTypeOK'
  BY DEF TelemetryInv, TelemetryTypeOK
<1>2. IsFiniteSet(requests)' /\ \A r \in Rows : Unread(r)' \in Nat /\ Unread(r)' <= Unread(r)
  <2>1. CASE requests' = requests
    <3>1. \A r \in Rows : Unread(r)' = Unread(r)
      BY <2>1 DEF Unread
    <3> QED
      BY <2>1, <3>1, Counts DEF TelemetryInv
  <2>2. CASE requests' = {}
    <3>1. \A r \in Rows : Unread(r)' = 0
      BY <2>2, NoRequests DEF Unread, OfRow
    <3>2. IsFiniteSet(requests)'
      BY <2>2, FS_EmptySet
    <3> QED
      BY <3>1, <3>2, Counts
  <2> QED
    BY <2>1, <2>2
<1>3. \A r \in Rows : /\ Written(r)' = Written(r)
                      /\ Sent(r)' = Sent(r)
                      /\ Written(r) \in Nat /\ caller[r].attempt \in Nat
                      /\ Kept(r) \in Nat /\ Kept(r)' \in Nat
  BY Counts DEF Written, Sent, Kept, Copies
<1>4. RowsConserved'
  <2> SUFFICES ASSUME NEW r \in Rows
               PROVE  /\ Sent(r)' => Kept(r)' > 0 \/ r \in lost'
                      /\ Kept(r)' + Unread(r)' <= caller'[r].attempt + Written(r)'
    BY DEF RowsConserved
  <2>1. /\ Kept(r) + Unread(r) <= caller[r].attempt + Written(r)
        /\ Sent(r) => Kept(r) > 0 \/ r \in lost
    BY DEF TelemetryInv, RowsConserved
  <2>2. Kept(r)' + Unread(r)' <= caller'[r].attempt + Written(r)'
    BY <1>2, <1>3, <2>1, Counts
  <2>3. Sent(r)' => Kept(r)' > 0 \/ r \in lost'
    BY <1>3, <2>1
  <2> QED
    BY <2>2, <2>3
<1>5. ParityHolds'
  BY <1>3 DEF TelemetryInv, ParityHolds
<1> QED
  BY <1>1, <1>2, <1>4, <1>5 DEF TelemetryInv

LEMMA NothingKept == NoRows \in Copies /\ \A r \in Rows : NoRows[r] = 0
BY DEF NoRows, Copies

LEMMA PlusAdds ==
    ASSUME NEW f \in Copies, NEW g \in Copies
    PROVE  Plus(f, g) \in Copies /\ \A r \in Rows : Plus(f, g)[r] = f[r] + g[r]
BY DEF Plus, Copies

LEMMA FlushStep ==
    ASSUME TelemetryInv, FlushDrain \/ FlushCommit \/ FlushFails
    PROVE  TelemetryInv'
<1>1. CASE FlushDrain
  <2>1. /\ batch = NoRows /\ batch' = pending /\ pending' = NoRows
        /\ UNCHANGED <<caller, requests, serving, stored, logged, lost, trouble>>
    BY <1>1 DEF FlushDrain
  <2>2. \A r \in Rows : Kept(r)' = Kept(r) /\ Kept(r) \in Nat
    BY <2>1, NothingKept, Counts DEF Kept
  <2> QED
    BY <2>1, <2>2, NothingKept, RowsMove DEF TelemetryInv, TelemetryTypeOK
<1>2. CASE FlushCommit
  <2>1. /\ stored' = Plus(stored, batch) /\ batch' = NoRows
        /\ UNCHANGED <<caller, requests, serving, pending, logged, lost, trouble>>
    BY <1>2 DEF FlushCommit
  <2>2. \A r \in Rows : Kept(r)' = Kept(r) /\ Kept(r) \in Nat
    BY <2>1, NothingKept, PlusAdds, Counts DEF Kept, TelemetryInv, TelemetryTypeOK
  <2> QED
    BY <2>1, <2>2, NothingKept, PlusAdds, RowsMove DEF TelemetryInv, TelemetryTypeOK
<1>3. CASE FlushFails
  <2>1. /\ lost' = lost \cup RowsIn(batch) /\ batch' = NoRows
        /\ trouble' = trouble + 1 /\ trouble < MaxTrouble
        /\ UNCHANGED <<caller, requests, serving, pending, stored, logged>>
    BY <1>3 DEF FlushFails
  <2>2. \A r \in Rows : Kept(r)' <= Kept(r) /\ (Kept(r)' < Kept(r) => r \in lost')
    BY <2>1, NothingKept, Counts DEF Kept, RowsIn
  <2>3. trouble' \in 1..MaxTrouble /\ lost' \subseteq Rows
    BY <2>1, TelemetryConstants DEF TelemetryInv, TelemetryTypeOK, RowsIn
  <2> QED
    BY <2>1, <2>2, <2>3, NothingKept, RowsMove DEF TelemetryInv, TelemetryTypeOK
<1> QED
  BY <1>1, <1>2, <1>3

LEMMA DaemonStep ==
    ASSUME TelemetryInv, SpawnForCall \/ Stop \/ DaemonKilled
    PROVE  TelemetryInv'
<1>1. CASE SpawnForCall
  <2>1. serving' = TRUE /\ UNCHANGED <<caller, requests, pending, batch, stored, logged, lost, trouble>>
    BY <1>1 DEF SpawnForCall
  <2>2. \A r \in Rows : Kept(r)' = Kept(r) /\ Kept(r) \in Nat
    BY <2>1, Counts DEF Kept
  <2> QED
    BY <2>1, <2>2, RowsMove DEF TelemetryInv, TelemetryTypeOK
<1>2. CASE Stop
  <2>1. /\ serving' = FALSE /\ requests' = {} /\ pending' = NoRows
        /\ UNCHANGED <<caller, batch, logged>>
    BY <1>2 DEF Stop
  <2>a. serving' \in BOOLEAN /\ requests' \in {requests, {}}
    BY <2>1
  <2>2. CASE stored' = Plus(stored, pending) /\ UNCHANGED <<lost, trouble>>
    <3>1. \A r \in Rows : Kept(r)' = Kept(r) /\ Kept(r) \in Nat
      BY <2>1, <2>2, NothingKept, PlusAdds, Counts DEF Kept, TelemetryInv, TelemetryTypeOK
    <3> QED
      BY <2>1, <2>2, <2>a, <3>1, NothingKept, PlusAdds, RowsMove DEF TelemetryInv, TelemetryTypeOK
  <2>3. CASE /\ trouble < MaxTrouble
             /\ lost' = lost \cup RowsIn(pending)
             /\ trouble' = trouble + 1
             /\ UNCHANGED stored
    <3>1. \A r \in Rows : Kept(r)' <= Kept(r) /\ (Kept(r)' < Kept(r) => r \in lost')
      BY <2>1, <2>3, NothingKept, Counts DEF Kept, RowsIn
    <3>2. trouble' \in 1..MaxTrouble /\ lost' \subseteq Rows
      BY <2>3, TelemetryConstants DEF TelemetryInv, TelemetryTypeOK, RowsIn
    <3> QED
      BY <2>1, <2>3, <2>a, <3>1, <3>2, NothingKept, RowsMove DEF TelemetryInv, TelemetryTypeOK
  <2> QED
    BY <1>2, <2>2, <2>3 DEF Stop
<1>3. CASE DaemonKilled
  <2>1. /\ serving' = FALSE /\ requests' = {} /\ pending' = NoRows /\ batch' = NoRows
        /\ lost' = lost \cup RowsIn(pending) \cup RowsIn(batch)
        /\ trouble' = trouble + 1 /\ trouble < MaxTrouble
        /\ UNCHANGED <<caller, stored, logged>>
    BY <1>3 DEF DaemonKilled
  <2>a. serving' \in BOOLEAN /\ requests' \in {requests, {}}
    BY <2>1
  <2>2. \A r \in Rows : Kept(r)' <= Kept(r) /\ (Kept(r)' < Kept(r) => r \in lost')
    BY <2>1, NothingKept, Counts DEF Kept, RowsIn
  <2>3. trouble' \in 1..MaxTrouble /\ lost' \subseteq Rows
    BY <2>1, TelemetryConstants DEF TelemetryInv, TelemetryTypeOK, RowsIn
  <2> QED
    BY <2>1, <2>2, <2>3, <2>a, NothingKept, RowsMove DEF TelemetryInv, TelemetryTypeOK
<1> QED
  BY <1>1, <1>2, <1>3

THEOREM TelemetryInvariant == TelemetrySpec => []TelemetryInv
<1>1. TelemetryInv /\ [TelemetryNext]_telemetryVars => TelemetryInv'
  <2> SUFFICES ASSUME TelemetryInv, [TelemetryNext]_telemetryVars PROVE TelemetryInv'
    OBVIOUS
  <2>1. CASE \E r \in Rows : \/ Send(r) \/ TimeOut(r) \/ Unavailable(r)
                             \/ WriteDirect(r) \/ WriteRaises(r)
    BY <2>1, SendStep, CallerStep, WriteStep
  <2>2. CASE \E q \in requests : Serve(q)
    BY <2>2, ServeStep
  <2>3. CASE FlushDrain \/ FlushCommit \/ FlushFails
    BY <2>3, FlushStep
  <2>4. CASE SpawnForCall \/ Stop \/ DaemonKilled
    BY <2>4, DaemonStep
  <2>5. CASE UNCHANGED telemetryVars
    <3>1. \A r \in Rows : /\ Kept(r)' = Kept(r) /\ Sent(r)' = Sent(r)
                          /\ Unread(r)' = Unread(r) /\ Written(r)' = Written(r)
      BY <2>5 DEF telemetryVars, Kept, Sent, Unread, Written
    <3> QED
      BY <2>5, <3>1 DEF telemetryVars, TelemetryInv, TelemetryTypeOK, RowsConserved, ParityHolds
  <2> QED
    BY <2>1, <2>2, <2>3, <2>4, <2>5 DEF TelemetryNext
<1> QED
  BY <1>1, InitTelemetry, PTL DEF TelemetrySpec

\* fallback.py: a row that record_telemetry has accepted is somewhere, unless
\* a crash or a failed flush lost it, and no copy of it is made twice: for any
\* rows, retries, time-outs and crashes.
THEOREM NoRowDropped == TelemetrySpec => []RowsConserved
<1>1. TelemetryInv => RowsConserved
  BY DEF TelemetryInv
<1> QED
  BY <1>1, TelemetryInvariant, PTL

\* server.py: without trouble, the table and the shadow log differ by the
\* rows that a fallback wrote.
THEOREM ShadowParity == TelemetrySpec => []ParityHolds
<1>1. TelemetryInv => ParityHolds
  BY DEF TelemetryInv
<1> QED
  BY <1>1, TelemetryInvariant, PTL

-----------------------------------------------------------------------------
\* EventBus.
\* What a subscription has of the events it was there for: it got g, then
\* queued q, both in order, and lost d, none of them newer than what is queued.
Word(O, g, q, d) ==
    /\ \A i \in 1..Len(g) : g[i] \in O
    /\ \A i \in 1..Len(q) : q[i] \in O
    /\ \A i, j \in 1..Len(g) : i < j => g[i] < g[j]
    /\ \A i, j \in 1..Len(q) : i < j => q[i] < q[j]
    /\ \A i \in 1..Len(g) : \A j \in 1..Len(q) : g[i] < q[j]
    /\ Cardinality(O) = Len(g) + Len(q) + d
    /\ \A i \in 1..Len(q) : \A m \in O : m > q[i] => \E j \in 1..Len(q) : q[j] = m

\* Sequences, by length and position.
LEMMA Appended ==
    ASSUME NEW T, NEW f \in Seq(T), NEW x \in T
    PROVE  /\ Append(f, x) \in Seq(T)
           /\ Len(f) \in Nat
           /\ Len(Append(f, x)) = Len(f) + 1
           /\ \A i \in 1..Len(f) : Append(f, x)[i] = f[i]
           /\ Append(f, x)[Len(f) + 1] = x
BY AppendProperties, LenProperties

LEMMA Shortened ==
    ASSUME NEW T, NEW f \in Seq(T), Len(f) > 0
    PROVE  /\ f # <<>>
           /\ Tail(f) \in Seq(T)
           /\ Head(f) = f[1] /\ f[1] \in T
           /\ Len(f) \in Nat /\ Len(Tail(f)) = Len(f) - 1
           /\ \A i \in 1..(Len(f) - 1) : Tail(f)[i] = f[i + 1]
<1>1. f # <<>>
  BY EmptySeq
<1> QED
  BY <1>1, HeadTailProperties, LenProperties, ElementOfSeq

LEMMA WordOfNothing == Word({}, <<>>, <<>>, 0)
BY FS_EmptySet DEF Word

\* An event is queued behind the others.
LEMMA WordQueues ==
    ASSUME NEW O \in SUBSET Nat, IsFiniteSet(O), NEW g \in Seq(Nat), NEW q \in Seq(Nat),
           NEW d \in Nat, Word(O, g, q, d), NEW n \in Nat, \A m \in O : m < n
    PROVE  Word(O \cup {n}, g, Append(q, n), d)
<1> DEFINE h == Append(q, n)
           P == O \cup {n}
<1>1. /\ Len(g) \in Nat /\ Len(q) \in Nat /\ Len(h) = Len(q) + 1
      /\ \A i \in 1..Len(q) : h[i] = q[i]
      /\ h[Len(q) + 1] = n
      /\ \A i \in 1..Len(g) : g[i] \in Nat
      /\ \A i \in 1..Len(q) : q[i] \in Nat
  BY Appended, LenProperties, ElementOfSeq
<1>2. \A i \in 1..Len(h) : i \in 1..Len(q) \/ i = Len(q) + 1
  BY <1>1
<1>3. Cardinality(P) = Cardinality(O) + 1 /\ Cardinality(O) \in Nat
  BY FS_AddElement, FS_CardinalityType
<1> HIDE DEF h
<1>4. \A i \in 1..Len(g) : g[i] \in P /\ g[i] < n
  BY DEF Word
<1>5. \A i \in 1..Len(h) : h[i] \in P
  BY <1>1, <1>2 DEF Word
<1>6. \A i, j \in 1..Len(h) : i < j => h[i] < h[j]
  <2> SUFFICES ASSUME NEW i \in 1..Len(h), NEW j \in 1..Len(h), i < j
               PROVE  h[i] < h[j]
    OBVIOUS
  <2>1. i \in 1..Len(q) /\ h[i] = q[i] /\ q[i] \in O
    BY <1>1 DEF Word
  <2>2. CASE j \in 1..Len(q)
    BY <1>1, <2>1, <2>2 DEF Word
  <2>3. CASE j = Len(q) + 1
    BY <1>1, <2>1, <2>3
  <2> QED
    BY <1>2, <2>2, <2>3
<1>7. \A i \in 1..Len(g) : \A j \in 1..Len(h) : g[i] < h[j]
  BY <1>1, <1>2, <1>4 DEF Word
<1>8. Cardinality(P) = Len(g) + Len(h) + d
  BY <1>1, <1>3 DEF Word
<1>9. ASSUME NEW i \in 1..Len(h), NEW m \in P, m > h[i]
      PROVE  \E j \in 1..Len(h) : h[j] = m
  <2>1. CASE m = n
    <3>1. Len(q) + 1 \in 1..Len(h)
      BY <1>1
    <3> QED
      BY <1>1, <2>1, <3>1
  <2>2. CASE m \in O
    <3>1. i \in 1..Len(q) /\ h[i] = q[i]
      BY <1>1, <1>2, <1>9, <2>2
    <3>2. PICK j \in 1..Len(q) : q[j] = m
      BY <1>9, <2>2, <3>1 DEF Word
    <3>3. j \in 1..Len(h) /\ h[j] = m
      BY <1>1, <3>2
    <3> QED
      BY <3>3
  <2> QED
    BY <2>1, <2>2
<1> HIDE DEF P
<1>10. Word(P, g, h, d)
  BY <1>1, <1>4, <1>5, <1>6, <1>7, <1>8, <1>9 DEF Word
<1> QED
  BY <1>10 DEF P, h

\* The oldest is dropped from the queue, and counted.
LEMMA WordDrops ==
    ASSUME NEW O \in SUBSET Nat, NEW g \in Seq(Nat), NEW q \in Seq(Nat),
           NEW d \in Nat, Word(O, g, q, d), Len(q) > 0
    PROVE  Word(O, g, Tail(q), d + 1)
<1> DEFINE t == Tail(q)
<1>1. /\ Len(g) \in Nat /\ Len(q) \in Nat /\ Len(t) = Len(q) - 1
      /\ \A i \in 1..Len(t) : t[i] = q[i + 1] /\ i + 1 \in 1..Len(q)
      /\ 1 \in 1..Len(q)
      /\ \A i \in 1..Len(q) : q[i] \in Nat
  BY Shortened, LenProperties, ElementOfSeq
<1> HIDE DEF t
<1>2. \A i, j \in 1..Len(t) : i < j => t[i] < t[j]
  <2> SUFFICES ASSUME NEW i \in 1..Len(t), NEW j \in 1..Len(t), i < j
               PROVE  t[i] < t[j]
    OBVIOUS
  <2>1. i + 1 \in 1..Len(q) /\ j + 1 \in 1..Len(q) /\ i + 1 < j + 1
    BY <1>1
  <2>2. q[i + 1] < q[j + 1]
    BY <2>1 DEF Word
  <2> QED
    BY <1>1, <2>2
<1>3. ASSUME NEW i \in 1..Len(t), NEW m \in O, m > t[i]
      PROVE  \E j \in 1..Len(t) : t[j] = m
  <2>1. PICK j \in 1..Len(q) : q[j] = m
    BY <1>1, <1>3 DEF Word
  <2>2. q[1] < q[i + 1]
    BY <1>1 DEF Word
  <2>3. j # 1
    BY <1>1, <1>3, <2>1, <2>2
  <2>4. j - 1 \in 1..Len(t) /\ (j - 1) + 1 = j
    BY <1>1, <2>3
  <2>5. t[j - 1] = m
    BY <1>1, <2>1, <2>4
  <2> QED
    BY <2>4, <2>5
<1>4. Cardinality(O) = Len(g) + Len(t) + (d + 1)
  BY <1>1 DEF Word
<1>5. \A i \in 1..Len(t) : t[i] \in O
  BY <1>1 DEF Word
<1>6. \A i \in 1..Len(g) : \A j \in 1..Len(t) : g[i] < t[j]
  BY <1>1 DEF Word
<1>7. Word(O, g, t, d + 1)
  BY <1>2, <1>3, <1>4, <1>5, <1>6 DEF Word
<1> QED
  BY <1>7 DEF t

\* The oldest is taken off the queue by its subscriber.
LEMMA WordReceives ==
    ASSUME NEW O \in SUBSET Nat, NEW g \in Seq(Nat), NEW q \in Seq(Nat),
           NEW d \in Nat, Word(O, g, q, d), Len(q) > 0
    PROVE  Word(O, Append(g, Head(q)), Tail(q), d)
<1> DEFINE t == Tail(q)
           h == Append(g, Head(q))
<1>1. /\ Len(g) \in Nat /\ Len(q) \in Nat /\ Len(t) = Len(q) - 1
      /\ \A i \in 1..Len(t) : t[i] = q[i + 1] /\ i + 1 \in 1..Len(q)
      /\ 1 \in 1..Len(q) /\ Head(q) = q[1] /\ q[1] \in Nat
      /\ \A i \in 1..Len(q) : q[i] \in Nat
  BY Shortened, LenProperties, ElementOfSeq
<1>2. /\ Len(h) = Len(g) + 1
      /\ \A i \in 1..Len(g) : h[i] = g[i]
      /\ h[Len(g) + 1] = q[1]
  BY <1>1, Appended
<1>3. Word(O, g, t, d + 1)
  BY WordDrops
<1> HIDE DEF t, h
<1>4. \A i \in 1..Len(h) : i \in 1..Len(g) \/ i = Len(g) + 1
  BY <1>1, <1>2
<1>5. \A i \in 1..Len(h) : h[i] \in O
  BY <1>1, <1>2, <1>4 DEF Word
<1>6. \A i, j \in 1..Len(h) : i < j => h[i] < h[j]
  <2> SUFFICES ASSUME NEW i \in 1..Len(h), NEW j \in 1..Len(h), i < j
               PROVE  h[i] < h[j]
    OBVIOUS
  <2>1. i \in 1..Len(g) /\ h[i] = g[i]
    BY <1>1, <1>2
  <2> QED
    BY <1>1, <1>2, <1>4, <2>1 DEF Word
<1>7. \A i \in 1..Len(h) : \A j \in 1..Len(t) : h[i] < t[j]
  <2> SUFFICES ASSUME NEW i \in 1..Len(h), NEW j \in 1..Len(t)
               PROVE  h[i] < t[j]
    OBVIOUS
  <2>1. t[j] = q[j + 1] /\ j + 1 \in 1..Len(q) /\ 1 < j + 1
    BY <1>1
  <2>2. q[1] < q[j + 1]
    BY <1>1, <2>1 DEF Word
  <2>3. i \in 1..Len(g) => g[i] < q[j + 1]
    BY <2>1 DEF Word
  <2> QED
    BY <1>2, <1>4, <2>1, <2>2, <2>3
<1>8. Cardinality(O) = Len(h) + Len(t) + d
  BY <1>1, <1>2 DEF Word
<1>9. Word(O, h, t, d)
  BY <1>3, <1>5, <1>6, <1>7, <1>8 DEF Word
<1> QED
  BY <1>9 DEF t, h

-----------------------------------------------------------------------------
\* Of the events p, those that the subscription r, to the kinds in I, was there
\* for.
OwedOf(p, r, I) ==
    {n \in (r.since + 1)..(IF r.registered /\ r.alive THEN Len(p) ELSE r.until) :
        p[n] \in I}

Subscriptions ==
    [registered : BOOLEAN, alive : BOOLEAN, queue : Seq(Nat),
     got : Seq(Nat), dropped : Nat, since : Nat, until : Nat]

SubKept(p, r, I) ==
    /\ Len(r.queue) <= QueueSize
    /\ r.since <= Len(p) /\ r.until <= Len(p)
    /\ Word(OwedOf(p, r, I), r.got, r.queue, r.dropped)

BusInv ==
    /\ BusTypeOK
    /\ \A s \in Subscribers : SubKept(published, sub[s], Interest[s])

\* The fields of a subscription that ends, receives, or gets an event.
LEMMA EndedIs ==
    ASSUME NEW r \in Subscriptions, NEW b \in BOOLEAN, NEW a \in BOOLEAN
    PROVE  LET e == Ended(r, b, a)
           IN  /\ e.registered = b /\ e.alive = a
               /\ e.queue = r.queue /\ e.got = r.got /\ e.dropped = r.dropped
               /\ e.since = r.since
               /\ e.until = IF r.registered /\ r.alive THEN Len(published) ELSE r.until
               /\ Len(published) \in Nat => e \in Subscriptions
BY DEF Ended, Subscriptions

LEMMA OwedTyped ==
    ASSUME BusTypeOK, NEW r \in Subscriptions, NEW I,
           r.since <= Len(published), r.until <= Len(published)
    PROVE  /\ OwedOf(published, r, I) \in SUBSET (1..Len(published))
           /\ IsFiniteSet(OwedOf(published, r, I))
           /\ Len(published) \in Nat
<1>1. Len(published) \in Nat
  BY LenProperties DEF BusTypeOK
<1>2. OwedOf(published, r, I) \in SUBSET (1..Len(published))
  BY <1>1 DEF OwedOf, Subscriptions
<1>3. IsFiniteSet(1..Len(published))
  BY <1>1, FS_Interval
<1> QED
  BY <1>1, <1>2, <1>3, FS_Subset

LEMMA EndedKept ==
    ASSUME BusTypeOK, NEW r \in Subscriptions, NEW I, SubKept(published, r, I),
           NEW b \in BOOLEAN, NEW a \in BOOLEAN, ~(b /\ a)
    PROVE  Ended(r, b, a) \in Subscriptions /\ SubKept(published, Ended(r, b, a), I)
<1> DEFINE e == Ended(r, b, a)
<1>1. Len(published) \in Nat
  BY LenProperties DEF BusTypeOK
<1>2. /\ e.registered = b /\ e.alive = a
      /\ e.queue = r.queue /\ e.got = r.got /\ e.dropped = r.dropped
      /\ e.since = r.since
      /\ e.until = IF r.registered /\ r.alive THEN Len(published) ELSE r.until
      /\ e \in Subscriptions
  BY <1>1, EndedIs
<1> HIDE DEF e
<1>3. OwedOf(published, e, I) = OwedOf(published, r, I)
  BY <1>2 DEF OwedOf
<1>4. e.until <= Len(published)
  BY <1>1, <1>2 DEF SubKept
<1>5. SubKept(published, e, I)
  BY <1>2, <1>3, <1>4 DEF SubKept
<1> QED
  BY <1>2, <1>5 DEF e

LEMMA SubscribedKept ==
    ASSUME BusTypeOK, NEW I
    PROVE  LET r == [Unborn EXCEPT !.registered = TRUE, !.alive = TRUE, !.since = Len(published)]
           IN  r \in Subscriptions /\ SubKept(published, r, I)
<1> DEFINE r == [Unborn EXCEPT !.registered = TRUE, !.alive = TRUE, !.since = Len(published)]
<1>1. Len(published) \in Nat /\ Len(<<>>) = 0
  BY LenProperties, EmptySeq DEF BusTypeOK
<1>2. /\ r.registered /\ r.alive
      /\ r.queue = <<>> /\ r.got = <<>> /\ r.dropped = 0
      /\ r.since = Len(published) /\ r.until = 0
  BY DEF Unborn
<1>3. OwedOf(published, r, I) = {}
  BY <1>1, <1>2 DEF OwedOf
<1>4. r \in Subscriptions
  <2>1. Unborn \in Subscriptions
    BY DEF Unborn, Subscriptions
  <2> QED
    BY <1>1, <2>1 DEF Subscriptions
<1> HIDE DEF r
<1>5. SubKept(published, r, I)
  BY <1>1, <1>2, <1>3, WordOfNothing, BusConstants DEF SubKept
<1> QED
  BY <1>4, <1>5 DEF r

\* The subscription r when it has received; and with the event n.
Taken(r) == [r EXCEPT !.queue = Tail(@), !.got = Append(@, Head(r.queue))]
WithEvent(r, n) ==
    [r EXCEPT !.queue = Append(IF Len(r.queue) = QueueSize THEN Tail(r.queue) ELSE r.queue, n),
              !.dropped = IF Len(r.queue) = QueueSize THEN @ + 1 ELSE @]

LEMMA ReceivedKept ==
    ASSUME BusTypeOK, NEW r \in Subscriptions, NEW I, SubKept(published, r, I), r.queue # <<>>
    PROVE  Taken(r) \in Subscriptions /\ SubKept(published, Taken(r), I)
<1> DEFINE t == Taken(r)
           q == r.queue
           g == r.got
<1>1. q \in Seq(Nat) /\ g \in Seq(Nat) /\ r.dropped \in Nat
  BY DEF Subscriptions
<1>2. t.queue = Tail(q) /\ t.got = Append(g, Head(q))
      /\ t.registered = r.registered /\ t.alive = r.alive /\ t.dropped = r.dropped
      /\ t.since = r.since /\ t.until = r.until
  BY DEF Subscriptions, Taken
<1>3. Len(q) > 0
  <2>1. q # <<>>
    OBVIOUS
  <2> HIDE DEF q
  <2> QED
    BY <1>1, <2>1, EmptySeq, LenProperties
<1>4. Len(q) \in Nat /\ Tail(q) \in Seq(Nat) /\ Head(q) \in Nat /\ Len(Tail(q)) = Len(q) - 1
  <2> HIDE DEF q
  <2> QED
    BY <1>1, <1>3, Shortened
<1>5. Append(g, Head(q)) \in Seq(Nat)
  <2> HIDE DEF q, g
  <2> QED
    BY <1>1, <1>4, Appended
<1>6. t \in Subscriptions
  BY <1>4, <1>5 DEF Subscriptions, Taken
<1>7. OwedOf(published, t, I) = OwedOf(published, r, I) /\ OwedOf(published, r, I) \in SUBSET Nat
  <2>1. OwedOf(published, r, I) \in SUBSET (1..Len(published)) /\ Len(published) \in Nat
    BY OwedTyped DEF SubKept
  <2>2. OwedOf(published, t, I) = OwedOf(published, r, I)
    <3> HIDE DEF t
    <3> QED
      BY <1>2 DEF OwedOf
  <2> QED
    BY <2>1, <2>2
<1>8. Word(OwedOf(published, r, I), g, q, r.dropped) /\ Len(q) <= QueueSize
  BY DEF SubKept
<1> HIDE DEF t, q, g
<1>9. Word(OwedOf(published, r, I), Append(g, Head(q)), Tail(q), r.dropped)
  BY <1>1, <1>3, <1>7, <1>8, WordReceives
<1>10. Len(Tail(q)) <= QueueSize
  BY <1>4, <1>8, BusConstants
<1>11. t.since <= Len(published) /\ t.until <= Len(published)
  BY <1>2 DEF SubKept
<1>12. SubKept(published, t, I)
  BY <1>2, <1>7, <1>9, <1>10, <1>11 DEF SubKept
<1> QED
  BY <1>6, <1>12 DEF t

\* What a subscription was there for, when an event is published.
LEMMA OwedGrows ==
    ASSUME BusTypeOK, NEW kind \in Kinds, published' = Append(published, kind),
           NEW r \in Subscriptions, NEW I,
           r.since <= Len(published), r.until <= Len(published)
    PROVE  OwedOf(published', r, I) = IF r.registered /\ r.alive /\ kind \in I
                           THEN OwedOf(published, r, I) \cup {Len(published) + 1} ELSE OwedOf(published, r, I)
<1> DEFINE n == Len(published)
<1>1. n \in Nat /\ Len(published') = n + 1 /\ published'[n + 1] = kind
      /\ \A i \in 1..n : published'[i] = published[i]
  BY Appended DEF BusTypeOK
<1>2. r.since \in Nat /\ r.until \in Nat /\ r.since <= n /\ r.until <= n
  BY DEF Subscriptions
<1> HIDE DEF n
<1>3. CASE r.registered /\ r.alive
  <2>1. /\ OwedOf(published, r, I) = {k \in (r.since + 1)..n : published[k] \in I}
        /\ OwedOf(published', r, I) = {k \in (r.since + 1)..(n + 1) : published'[k] \in I}
    BY <1>1, <1>3 DEF OwedOf, n
  <2>2. \A k : k \in (r.since + 1)..(n + 1) <=> k \in (r.since + 1)..n \/ k = n + 1
    BY <1>1, <1>2
  <2>3. \A k \in (r.since + 1)..n : k \in 1..n
    BY <1>1, <1>2
  <2>4. CASE kind \in I
    BY <1>1, <1>3, <2>1, <2>2, <2>3, <2>4 DEF n
  <2>5. CASE kind \notin I
    BY <1>1, <1>3, <2>1, <2>2, <2>3, <2>5
  <2> QED
    BY <2>4, <2>5
<1>4. CASE ~(r.registered /\ r.alive)
  <2>1. /\ OwedOf(published, r, I) = {k \in (r.since + 1)..r.until : published[k] \in I}
        /\ OwedOf(published', r, I) = {k \in (r.since + 1)..r.until : published'[k] \in I}
    BY <1>4 DEF OwedOf
  <2>2. \A k \in (r.since + 1)..r.until : k \in 1..n
    BY <1>1, <1>2
  <2> QED
    BY <1>1, <1>4, <2>1, <2>2
<1> QED
  BY <1>3, <1>4

\* An event that does not go to the subscription.
LEMMA OtherKept ==
    ASSUME BusTypeOK, NEW kind \in Kinds, published' = Append(published, kind),
           NEW r \in Subscriptions, NEW I, SubKept(published, r, I),
           ~(r.registered /\ r.alive /\ kind \in I)
    PROVE  SubKept(published', r, I)
<1>1. OwedOf(published', r, I) = OwedOf(published, r, I)
  BY OwedGrows DEF SubKept
<1>2. Len(published) \in Nat /\ Len(published') = Len(published) + 1
  BY Appended DEF BusTypeOK
<1>3. r.since \in Nat /\ r.until \in Nat
  BY DEF Subscriptions
<1>4. r.since <= Len(published') /\ r.until <= Len(published')
  BY <1>2, <1>3 DEF SubKept
<1> QED
  BY <1>1, <1>4 DEF SubKept

\* One that does: it is queued, and the oldest goes when the queue is full.
LEMMA TargetKept ==
    ASSUME BusTypeOK, NEW kind \in Kinds, published' = Append(published, kind),
           NEW r \in Subscriptions, NEW I, SubKept(published, r, I),
           r.registered /\ r.alive /\ kind \in I
    PROVE  /\ WithEvent(r, Len(published) + 1) \in Subscriptions
           /\ SubKept(published', WithEvent(r, Len(published) + 1), I)
<1> DEFINE full == Len(r.queue) = QueueSize
           n == Len(published) + 1
           kept == IF full THEN Tail(r.queue) ELSE r.queue
           gone == IF full THEN r.dropped + 1 ELSE r.dropped
           t == [r EXCEPT !.queue = Append(kept, n), !.dropped = gone]
           O == OwedOf(published, r, I)
<1>1. /\ r.queue \in Seq(Nat) /\ r.got \in Seq(Nat) /\ r.dropped \in Nat
      /\ r.since \in Nat /\ r.until \in Nat /\ Len(r.queue) \in Nat
  BY LenProperties DEF Subscriptions
<1>2. /\ O \in SUBSET (1..Len(published)) /\ IsFiniteSet(O) /\ Len(published) \in Nat
  BY OwedTyped DEF SubKept
<1>3. O \in SUBSET Nat /\ n \in Nat /\ \A m \in O : m < n
  BY <1>2
<1>4. Word(O, r.got, r.queue, r.dropped) /\ Len(r.queue) <= QueueSize
  BY DEF SubKept
<1> HIDE DEF O
<1>5. kept \in Seq(Nat) /\ gone \in Nat /\ Word(O, r.got, kept, gone)
  <2>1. CASE full
    <3>1. Len(r.queue) > 0
      BY <2>1, BusConstants
    <3>2. Word(O, r.got, Tail(r.queue), r.dropped + 1) /\ Tail(r.queue) \in Seq(Nat)
      BY <1>1, <1>3, <1>4, <3>1, WordDrops, Shortened
    <3> QED
      BY <1>1, <2>1, <3>2
  <2>2. CASE ~full
    BY <1>1, <1>4, <2>2
  <2> QED
    BY <2>1, <2>2
<1>6. Len(kept) \in Nat /\ Len(kept) < QueueSize
  <2>1. CASE full
    <3>1. Len(r.queue) > 0
      BY <2>1, BusConstants
    <3>2. Len(Tail(r.queue)) = Len(r.queue) - 1
      BY <1>1, <3>1, Shortened
    <3> QED
      BY <1>1, <2>1, <3>1, <3>2
  <2>2. CASE ~full
    BY <1>1, <1>4, <2>2, BusConstants
  <2> QED
    BY <2>1, <2>2
<1> HIDE DEF kept, gone, n, full
<1>7. /\ Append(kept, n) \in Seq(Nat) /\ Len(Append(kept, n)) = Len(kept) + 1
      /\ Word(O \cup {n}, r.got, Append(kept, n), gone)
  <2> DEFINE g == r.got
  <2>1. g \in Seq(Nat) /\ Word(O, g, kept, gone)
    BY <1>1, <1>5
  <2>2. Append(kept, n) \in Seq(Nat) /\ Len(Append(kept, n)) = Len(kept) + 1
    BY <1>3, <1>5, Appended
  <2> HIDE DEF g
  <2>3. Word(O \cup {n}, g, Append(kept, n), gone)
    BY <1>2, <1>3, <1>5, <2>1, WordQueues
  <2> QED
    BY <2>2, <2>3 DEF g
<1>8. /\ t.queue = Append(kept, n) /\ t.got = r.got /\ t.dropped = gone
      /\ t.registered = r.registered /\ t.alive = r.alive
      /\ t.since = r.since /\ t.until = r.until /\ t \in Subscriptions
  BY <1>1, <1>5, <1>7 DEF Subscriptions
<1> HIDE DEF t
<1>9. OwedOf(published', t, I) = O \cup {n}
  <2>1. OwedOf(published', r, I) = OwedOf(published, r, I) \cup {Len(published) + 1}
    BY OwedGrows DEF SubKept
  <2>2. OwedOf(published', t, I) = OwedOf(published', r, I)
    BY <1>8 DEF OwedOf
  <2> QED
    BY <2>1, <2>2 DEF O, n
<1>10. t.since <= Len(published') /\ t.until <= Len(published')
  <2>1. Len(published') = Len(published) + 1
    BY Appended DEF BusTypeOK
  <2> QED
    BY <1>1, <1>2, <1>8, <2>1 DEF SubKept
<1>11. Len(t.queue) <= QueueSize
  BY <1>6, <1>7, <1>8, BusConstants
<1>12. SubKept(published', t, I)
  BY <1>7, <1>8, <1>9, <1>10, <1>11 DEF SubKept
<1> QED
  BY <1>8, <1>12 DEF t, kept, gone, n, full, WithEvent

LEMMA InitBus == BusInit => BusInv
<1> SUFFICES ASSUME BusInit PROVE BusInv
  OBVIOUS
<1>1. published \in Seq(Kinds) /\ Len(published) = 0
  BY EmptySeq, LenProperties DEF BusInit
<1>2. Unborn \in Subscriptions
  BY DEF Unborn, Subscriptions
<1>3. BusTypeOK
  BY <1>1, <1>2, BusConstants DEF BusInit, BusTypeOK, Subscriptions
<1>4. ASSUME NEW I PROVE SubKept(published, Unborn, I)
  <2>1. /\ Unborn.since = 0 /\ Unborn.until = 0 /\ Unborn.dropped = 0
        /\ Unborn.queue = <<>> /\ Unborn.got = <<>>
        /\ ~(Unborn.registered /\ Unborn.alive)
        /\ Len(<<>>) = 0
    BY EmptySeq DEF Unborn
  <2>2. OwedOf(published, Unborn, I) = {}
    BY <1>1, <2>1 DEF OwedOf
  <2> QED
    BY <1>1, <2>1, <2>2, WordOfNothing, BusConstants DEF SubKept
<1> QED
  BY <1>3, <1>4 DEF BusInv, BusInit

\* A step that changes subscriptions, and publishes nothing.
LEMMA SubsStep ==
    ASSUME BusInv, UNCHANGED <<published, droppedTotal>>, receiving' \subseteq Subscribers,
           DOMAIN sub' = Subscribers, sub' = [s \in Subscribers |-> sub'[s]],
           \A s \in Subscribers : \/ sub'[s] = sub[s]
                                  \/ /\ sub'[s] \in Subscriptions
                                     /\ SubKept(published, sub'[s], Interest[s])
    PROVE  BusInv'
<1>1. \A s \in Subscribers : sub[s] \in Subscriptions /\ SubKept(published, sub[s], Interest[s])
  BY DEF BusInv, BusTypeOK, Subscriptions
<1>2. \A s \in Subscribers : sub'[s] \in Subscriptions /\ SubKept(published, sub'[s], Interest[s])
  BY <1>1
<1>3. BusTypeOK'
  BY <1>2 DEF BusInv, BusTypeOK, Subscriptions
<1> QED
  BY <1>2, <1>3 DEF BusInv

LEMMA OneStep ==
    ASSUME BusInv, NEW s \in Subscribers,
           \/ Subscribe(s) \/ Unsubscribe(s) \/ MarkDead(s)
           \/ Receive(s) \/ Received(s) \/ ReceiveTimesOut(s)
    PROVE  BusInv'
<1>1. BusTypeOK /\ sub[s] \in Subscriptions /\ SubKept(published, sub[s], Interest[s])
  BY DEF BusInv, BusTypeOK, Subscriptions
<1>2. DOMAIN sub = Subscribers
  BY <1>1 DEF BusTypeOK
<1>3. CASE Subscribe(s)
  <2> DEFINE r == [Unborn EXCEPT !.registered = TRUE, !.alive = TRUE, !.since = Len(published)]
  <2>1. sub' = [sub EXCEPT ![s] = r] /\ UNCHANGED <<published, receiving, droppedTotal>>
    BY <1>3 DEF Subscribe
  <2>2. r \in Subscriptions /\ SubKept(published, r, Interest[s])
    BY <1>1, SubscribedKept
  <2> HIDE DEF r
  <2> QED
    BY <1>1, <1>2, <2>1, <2>2, SubsStep DEF BusTypeOK
<1>4. CASE Unsubscribe(s)
  <2> DEFINE r == Ended(sub[s], FALSE, sub[s].alive)
  <2>1. sub' = [sub EXCEPT ![s] = r] /\ UNCHANGED <<published, receiving, droppedTotal>>
    BY <1>4 DEF Unsubscribe
  <2>2. r \in Subscriptions /\ SubKept(published, r, Interest[s])
    <3>1. sub[s].alive \in BOOLEAN /\ FALSE \in BOOLEAN
      BY <1>1 DEF Subscriptions
    <3> QED
      BY <1>1, <3>1, EndedKept
  <2> HIDE DEF r
  <2> QED
    BY <1>1, <1>2, <2>1, <2>2, SubsStep DEF BusTypeOK
<1>5. CASE MarkDead(s)
  <2> DEFINE r == Ended(sub[s], TRUE, FALSE)
  <2>1. sub' = [sub EXCEPT ![s] = r] /\ UNCHANGED <<published, receiving, droppedTotal>>
    BY <1>5 DEF MarkDead
  <2>2. r \in Subscriptions /\ SubKept(published, r, Interest[s])
    BY <1>1, EndedKept
  <2> HIDE DEF r
  <2> QED
    BY <1>1, <1>2, <2>1, <2>2, SubsStep DEF BusTypeOK
<1>6. CASE Received(s)
  <2> DEFINE r == Taken(sub[s])
  <2>1. /\ sub' = [sub EXCEPT ![s] = r] /\ receiving' = receiving \ {s}
        /\ sub[s].queue # <<>> /\ UNCHANGED <<published, droppedTotal>>
    <3>1. sub \in [Subscribers -> Subscriptions]
      BY <1>1 DEF BusTypeOK, Subscriptions
    <3> QED
      BY <1>6, <3>1 DEF Received, Taken, Subscriptions
  <2>2. r \in Subscriptions /\ SubKept(published, r, Interest[s])
    BY <1>1, <2>1, ReceivedKept
  <2> HIDE DEF r
  <2> QED
    BY <1>1, <1>2, <2>1, <2>2, SubsStep DEF BusTypeOK
<1>7. CASE Receive(s) \/ ReceiveTimesOut(s)
  <2>1. /\ receiving' \subseteq Subscribers /\ UNCHANGED <<published, sub, droppedTotal>>
    BY <1>1, <1>7 DEF Receive, ReceiveTimesOut, BusTypeOK
  <2> QED
    BY <1>1, <1>2, <2>1, SubsStep DEF BusTypeOK
<1> QED
  BY <1>3, <1>4, <1>5, <1>6, <1>7

LEMMA ReapStep ==
    ASSUME BusInv, NEW idle \in SUBSET Subscribers, ReapDead(idle)
    PROVE  BusInv'
<1>1. /\ sub' = [s \in Subscribers |->
                    IF sub[s].registered /\ (~sub[s].alive \/ s \in idle)
                    THEN Ended(sub[s], FALSE, sub[s].alive) ELSE sub[s]]
      /\ UNCHANGED <<published, receiving, droppedTotal>>
  BY DEF ReapDead
<1>2. ASSUME NEW s \in Subscribers
      PROVE  \/ sub'[s] = sub[s]
             \/ sub'[s] \in Subscriptions /\ SubKept(published, sub'[s], Interest[s])
  <2>1. BusTypeOK /\ sub[s] \in Subscriptions /\ SubKept(published, sub[s], Interest[s])
    BY DEF BusInv, BusTypeOK, Subscriptions
  <2>2. sub[s].alive \in BOOLEAN /\ FALSE \in BOOLEAN
    BY <2>1 DEF Subscriptions
  <2>3. /\ Ended(sub[s], FALSE, sub[s].alive) \in Subscriptions
        /\ SubKept(published, Ended(sub[s], FALSE, sub[s].alive), Interest[s])
    BY <2>1, <2>2, EndedKept
  <2> QED
    BY <1>1, <2>3
<1>3. receiving' \subseteq Subscribers
  BY <1>1 DEF BusInv, BusTypeOK
<1>4. DOMAIN sub' = Subscribers /\ sub' = [s \in Subscribers |-> sub'[s]]
  BY <1>1
<1> QED
  BY <1>1, <1>2, <1>3, <1>4, SubsStep

Dropping(kind) == {s \in Targets(kind) : Full(s)}

LEMMA PublishStep ==
    ASSUME BusInv, NEW kind \in Kinds, Publish(kind)
    PROVE  BusInv'
<1>1. /\ published' = Append(published, kind) /\ Len(published) + 1 <= MaxPublished
      /\ sub' = [s \in Subscribers |->
                    IF s \in Targets(kind)
                    THEN [sub[s] EXCEPT !.queue = Enqueued(s, Len(published) + 1),
                                        !.dropped = IF Full(s) THEN @ + 1 ELSE @]
                    ELSE sub[s]]
      /\ droppedTotal' = droppedTotal + Cardinality(Dropping(kind))
      /\ receiving' = receiving
  BY DEF Publish, Dropping
<1>2. BusTypeOK
  BY DEF BusInv
<1>3. ASSUME NEW s \in Subscribers
      PROVE  sub'[s] \in Subscriptions /\ SubKept(published', sub'[s], Interest[s])
  <2>1. sub[s] \in Subscriptions /\ SubKept(published, sub[s], Interest[s])
    BY DEF BusInv, BusTypeOK, Subscriptions
  <2>2. CASE s \in Targets(kind)
    <3>1. sub[s].registered /\ sub[s].alive /\ kind \in Interest[s]
      BY <2>2 DEF Targets
    <3>2. sub'[s] = WithEvent(sub[s], Len(published) + 1)
      BY <1>1, <2>2 DEF Enqueued, Full, WithEvent
    <3> QED
      BY <1>1, <1>2, <2>1, <3>1, <3>2, TargetKept
  <2>3. CASE s \notin Targets(kind)
    <3>1. ~(sub[s].registered /\ sub[s].alive /\ kind \in Interest[s])
      BY <2>3 DEF Targets
    <3>2. sub'[s] = sub[s]
      BY <1>1, <2>3
    <3>3. SubKept(published', sub[s], Interest[s])
      BY <1>1, <1>2, <2>1, <3>1, OtherKept
    <3> QED
      BY <2>1, <3>2, <3>3
  <2> QED
    BY <2>2, <2>3
<1>4. published' \in Seq(Kinds) /\ Len(published') <= MaxPublished
  BY <1>1, Appended DEF BusInv, BusTypeOK
<1>5. droppedTotal' \in Nat
  <2>1. IsFiniteSet(Dropping(kind))
    BY BusConstants, FS_Subset DEF Dropping, Targets
  <2>2. Cardinality(Dropping(kind)) \in Nat
    BY <2>1, FS_CardinalityType
  <2>3. droppedTotal' = droppedTotal + Cardinality(Dropping(kind))
    BY <1>1
  <2>4. droppedTotal \in Nat
    BY <1>2 DEF BusTypeOK
  <2> QED
    BY <2>2, <2>3, <2>4
<1>6. sub' \in [Subscribers -> Subscriptions]
  <2>1. DOMAIN sub' = Subscribers /\ sub' = [s \in Subscribers |-> sub'[s]]
    BY <1>1
  <2> QED
    BY <1>3, <2>1
<1>7. BusTypeOK'
  BY <1>1, <1>4, <1>5, <1>6 DEF BusInv, BusTypeOK, Subscriptions
<1> QED
  BY <1>3, <1>7 DEF BusInv

THEOREM BusInvariant == BusSpec => []BusInv
<1>1. BusInv /\ [BusNext]_busVars => BusInv'
  <2> SUFFICES ASSUME BusInv, [BusNext]_busVars PROVE BusInv'
    OBVIOUS
  <2>1. CASE UNCHANGED busVars
    BY <2>1 DEF busVars, BusInv, BusTypeOK
  <2> QED
    BY <2>1, OneStep, ReapStep, PublishStep DEF BusNext
<1> QED
  BY <1>1, InitBus, PTL DEF BusSpec

-----------------------------------------------------------------------------
\* The counter of the bus is the sum of those of its subscriptions.
Drops(f) == [s \in Subscribers |-> f[s].dropped]
TotalOf(f) == MapThenSumSet(LAMBDA s : f[s].dropped, Subscribers)

LEMMA TotalIsSum ==
    ASSUME NEW f, \A s \in Subscribers : f[s].dropped \in Nat
    PROVE  \E G : Sums(G, Drops(f), Subscribers) /\ TotalOf(f) = G[Subscribers]
<1> DEFINE Is(G) == G = [t \in SUBSET Subscribers |->
                            IF t = {} THEN 0
                            ELSE f[CHOOSE x \in t : TRUE].dropped
                                    + G[t \ {CHOOSE x \in t : TRUE}]]
           sum == CHOOSE G : Is(G)
<1>1. TotalOf(f) = sum[Subscribers]
  BY DEF TotalOf, MapThenSumSet, MapThenFoldSet
<1>2. Drops(f) \in [Subscribers -> Nat] /\ \A s \in Subscribers : Drops(f)[s] = f[s].dropped
  BY DEF Drops
<1>3. PICK G \in [SUBSET Subscribers -> Nat] : Sums(G, Drops(f), Subscribers)
  BY <1>2, BusConstants, SumExists
<1>4. \A t \in SUBSET Subscribers : t # {} => Pick(t) \in Subscribers
  BY DEF Pick
<1>5. Is(G)
  <2>1. ASSUME NEW t \in SUBSET Subscribers
        PROVE  G[t] = IF t = {} THEN 0 ELSE f[Pick(t)].dropped + G[t \ {Pick(t)}]
    BY <1>2, <1>3, <1>4 DEF Sums
  <2> QED
    BY <2>1 DEF Pick
<1> HIDE DEF Is
<1>6. Is(sum)
  BY <1>5
<1> HIDE DEF sum
<1>7. sum[{}] = 0
  BY <1>6 DEF Is
<1>8. ASSUME NEW t \in SUBSET Subscribers, t # {}
      PROVE  sum[t] = Drops(f)[Pick(t)] + sum[t \ {Pick(t)}]
  <2>1. sum[t] = f[Pick(t)].dropped + sum[t \ {Pick(t)}]
    BY <1>6, <1>8 DEF Is, Pick
  <2> QED
    BY <1>2, <1>4, <1>8, <2>1
<1> QED
  BY <1>1, <1>7, <1>8 DEF Sums

\* It grows by the number of counters that do.
LEMMA TotalGrows ==
    ASSUME NEW f, \A s \in Subscribers : f[s].dropped \in Nat,
           NEW h, NEW T \in SUBSET Subscribers,
           \A s \in Subscribers : h[s].dropped = f[s].dropped + (IF s \in T THEN 1 ELSE 0)
    PROVE  TotalOf(f) \in Nat /\ TotalOf(h) = TotalOf(f) + Cardinality(T)
<1>1. \A s \in Subscribers : h[s].dropped \in Nat
  OBVIOUS
<1>2. PICK G : Sums(G, Drops(f), Subscribers) /\ TotalOf(f) = G[Subscribers]
  BY TotalIsSum
<1>3. PICK H : Sums(H, Drops(h), Subscribers) /\ TotalOf(h) = H[Subscribers]
  BY <1>1, TotalIsSum
<1>4. /\ Drops(f) \in [Subscribers -> Nat] /\ Drops(h) \in [Subscribers -> Nat]
      /\ GrowsOn(T, Drops(f), Drops(h), Subscribers)
  BY <1>1 DEF Drops, GrowsOn
<1> QED
  BY <1>2, <1>3, <1>4, BusConstants, SumGrows

TotalInv == droppedTotal = TotalOf(sub)

LEMMA InitTotal == BusInit => TotalInv
<1> SUFFICES ASSUME BusInit PROVE TotalInv
  OBVIOUS
<1>1. \A s \in Subscribers : sub[s].dropped = 0
  BY DEF BusInit, Unborn
<1>2. PICK G : Sums(G, Drops(sub), Subscribers) /\ TotalOf(sub) = G[Subscribers]
  BY <1>1, TotalIsSum
<1>3. Drops(sub) \in [Subscribers -> Nat] /\ \A s \in Subscribers : Drops(sub)[s] = 0
  BY <1>1 DEF Drops
<1>4. G[Subscribers] = 0
  BY <1>2, <1>3, BusConstants, SumOfNothing
<1> QED
  BY <1>2, <1>4 DEF TotalInv, BusInit

LEMMA TotalStep == BusInv /\ TotalInv /\ [BusNext]_busVars => TotalInv'
<1> SUFFICES ASSUME BusInv, TotalInv, [BusNext]_busVars PROVE TotalInv'
  OBVIOUS
<1>1. /\ sub \in [Subscribers -> Subscriptions] /\ BusTypeOK
      /\ \A s \in Subscribers : sub[s] \in Subscriptions /\ sub[s].dropped \in Nat
  BY DEF BusInv, BusTypeOK, Subscriptions
<1>2. ASSUME \A s \in Subscribers : sub'[s].dropped = sub[s].dropped,
             droppedTotal' = droppedTotal
      PROVE  TotalInv'
  <2>1. {} \in SUBSET Subscribers /\ Cardinality({}) = 0
    BY FS_EmptySet
  <2>2. \A s \in Subscribers : sub'[s].dropped = sub[s].dropped + (IF s \in {} THEN 1 ELSE 0)
    BY <1>1, <1>2
  <2>3. TotalOf(sub) \in Nat /\ TotalOf(sub') = TotalOf(sub) + Cardinality({})
    BY <1>1, <2>1, <2>2, TotalGrows
  <2> QED
    BY <1>2, <2>1, <2>3 DEF TotalInv
<1>3. ASSUME NEW kind \in Kinds, Publish(kind) PROVE TotalInv'
  <2>1. /\ sub' = [s \in Subscribers |->
                      IF s \in Targets(kind)
                      THEN [sub[s] EXCEPT !.queue = Enqueued(s, Len(published) + 1),
                                          !.dropped = IF Full(s) THEN @ + 1 ELSE @]
                      ELSE sub[s]]
        /\ droppedTotal' = droppedTotal + Cardinality(Dropping(kind))
    BY <1>3 DEF Publish, Dropping
  <2>2. Dropping(kind) \in SUBSET Subscribers
    BY DEF Dropping, Targets
  <2>3. ASSUME NEW s \in Subscribers
        PROVE  sub'[s].dropped = sub[s].dropped + (IF s \in Dropping(kind) THEN 1 ELSE 0)
    <3>1. sub[s].dropped \in Nat /\ sub[s] \in Subscriptions
      BY <1>1
    <3>2. CASE s \in Targets(kind)
      <4>1. sub'[s].dropped = IF Full(s) THEN sub[s].dropped + 1 ELSE sub[s].dropped
        BY <2>1, <3>1, <3>2 DEF Subscriptions
      <4>2. s \in Dropping(kind) <=> Full(s)
        BY <3>2 DEF Dropping
      <4> QED
        BY <3>1, <4>1, <4>2
    <3>3. CASE s \notin Targets(kind)
      <4>1. sub'[s] = sub[s] /\ s \notin Dropping(kind)
        BY <2>1, <3>3 DEF Dropping
      <4> QED
        BY <3>1, <4>1
    <3> QED
      BY <3>2, <3>3
  <2>4. TotalOf(sub') = TotalOf(sub) + Cardinality(Dropping(kind))
    BY <1>1, <2>2, <2>3, TotalGrows
  <2> QED
    BY <2>1, <2>4 DEF TotalInv
<1>5. CASE \E idle \in SUBSET Subscribers : ReapDead(idle)
  <2>1. PICK idle \in SUBSET Subscribers : ReapDead(idle)
    BY <1>5
  <2>2. \A s \in Subscribers : sub'[s].dropped = sub[s].dropped
    <3> TAKE s \in Subscribers
    <3>1. \/ sub'[s] = Ended(sub[s], FALSE, sub[s].alive)
          \/ sub'[s] = sub[s]
      BY <2>1 DEF ReapDead
    <3>2. Ended(sub[s], FALSE, sub[s].alive).dropped = sub[s].dropped
      BY <1>1 DEF Ended, Subscriptions
    <3> QED
      BY <3>1, <3>2
  <2> QED
    BY <1>2, <2>1, <2>2 DEF ReapDead
<1>6. ASSUME NEW s \in Subscribers,
             \/ Subscribe(s) \/ Unsubscribe(s) \/ MarkDead(s)
             \/ Receive(s) \/ Received(s) \/ ReceiveTimesOut(s)
      PROVE  TotalInv'
  <2>1. droppedTotal' = droppedTotal
    BY <1>6 DEF Subscribe, Unsubscribe, MarkDead, Receive, Received, ReceiveTimesOut
  <2>2. CASE Unsubscribe(s) \/ MarkDead(s)
    <3>1. \/ sub' = [sub EXCEPT ![s] = Ended(sub[s], FALSE, sub[s].alive)]
          \/ sub' = [sub EXCEPT ![s] = Ended(sub[s], TRUE, FALSE)]
      BY <2>2 DEF Unsubscribe, MarkDead
    <3>2. /\ Ended(sub[s], FALSE, sub[s].alive).dropped = sub[s].dropped
          /\ Ended(sub[s], TRUE, FALSE).dropped = sub[s].dropped
      BY <1>1 DEF Ended, Subscriptions
    <3>3. \A t \in Subscribers : sub'[t].dropped = sub[t].dropped
      BY <1>1, <3>1, <3>2
    <3> QED
      BY <1>2, <2>1, <3>3
  <2>3. CASE Subscribe(s) \/ Received(s)
    <3>1. \A t \in Subscribers : sub'[t].dropped = sub[t].dropped
      <4>1. CASE Subscribe(s)
        <5> DEFINE r == [Unborn EXCEPT !.registered = TRUE, !.alive = TRUE,
                                       !.since = Len(published)]
        <5>1. sub' = [sub EXCEPT ![s] = r] /\ sub[s] = Unborn
          BY <4>1 DEF Subscribe
        <5>2. r.dropped = 0 /\ Unborn.dropped = 0
          BY DEF Unborn
        <5> HIDE DEF r
        <5> QED
          BY <1>1, <5>1, <5>2
      <4>2. CASE Received(s)
        BY <1>1, <4>2 DEF Received, Subscriptions
      <4> QED
        BY <2>3, <4>1, <4>2
    <3> QED
      BY <1>2, <2>1, <3>1
  <2>4. CASE Receive(s) \/ ReceiveTimesOut(s)
    BY <1>2, <2>1, <2>4 DEF Receive, ReceiveTimesOut
  <2> QED
    BY <1>6, <2>2, <2>3, <2>4
<1>7. CASE UNCHANGED busVars
  BY <1>2, <1>7 DEF busVars
<1> QED
  BY <1>3, <1>5, <1>6, <1>7 DEF BusNext

\* What the positions of a subscription's queue say, as a property of it.
LEMMA WordIsKept ==
    ASSUME BusInv, NEW s \in Subscribers
    PROVE  LET seen == sub[s].got \o sub[s].queue
           IN  /\ ToSet(seen) \subseteq Owed(s)
               /\ \A i, j \in DOMAIN seen : i < j => seen[i] < seen[j]
               /\ Cardinality(Owed(s)) = Len(seen) + sub[s].dropped
               /\ \A n \in ToSet(sub[s].queue) :
                      \A m \in Owed(s) : m > n => m \in ToSet(sub[s].queue)
<1> DEFINE g == sub[s].got
           q == sub[s].queue
           d == sub[s].dropped
           O == Owed(s)
           seen == g \o q
<1>1. g \in Seq(Nat) /\ q \in Seq(Nat) /\ d \in Nat
  BY DEF BusInv, BusTypeOK
<1>2. Word(O, g, q, d)
  <2>1. O = OwedOf(published, sub[s], Interest[s])
    BY DEF Owed, OwedOf
  <2> QED
    BY <2>1 DEF BusInv, SubKept
<1> HIDE DEF g, q, d, O
<1>3. /\ Len(g) \in Nat /\ Len(q) \in Nat /\ Len(seen) = Len(g) + Len(q)
      /\ DOMAIN seen = 1..(Len(g) + Len(q)) /\ DOMAIN q = 1..Len(q)
      /\ \A i \in 1..Len(g) : seen[i] = g[i]
      /\ \A i \in (Len(g) + 1)..(Len(g) + Len(q)) : seen[i] = q[i - Len(g)]
  BY <1>1, ConcatProperties, LenProperties
<1> HIDE DEF seen
<1>4. ASSUME NEW i \in DOMAIN seen
      PROVE  \/ i \in 1..Len(g) /\ seen[i] = g[i]
             \/ ~(i \in 1..Len(g)) /\ i - Len(g) \in 1..Len(q) /\ seen[i] = q[i - Len(g)]
  BY <1>3
<1>5. ToSet(seen) \subseteq O
  <2>1. \A i \in DOMAIN seen : seen[i] \in O
    BY <1>2, <1>4 DEF Word
  <2> QED
    BY <2>1 DEF ToSet
<1>6. ASSUME NEW i \in DOMAIN seen, NEW j \in DOMAIN seen, i < j PROVE seen[i] < seen[j]
  <2>1. CASE j \in 1..Len(g)
    <3>1. i \in 1..Len(g)
      BY <1>3, <1>6, <2>1
    <3> QED
      BY <1>2, <1>4, <1>6, <2>1, <3>1 DEF Word
  <2>2. CASE j \notin 1..Len(g)
    <3>1. j - Len(g) \in 1..Len(q) /\ seen[j] = q[j - Len(g)]
      BY <1>4, <2>2
    <3>2. CASE i \in 1..Len(g)
      BY <1>2, <1>4, <3>1, <3>2 DEF Word
    <3>3. CASE i \notin 1..Len(g)
      <4>1. i - Len(g) \in 1..Len(q) /\ seen[i] = q[i - Len(g)]
        BY <1>4, <3>3
      <4>2. i - Len(g) < j - Len(g)
        BY <1>3, <1>6
      <4>3. q[i - Len(g)] < q[j - Len(g)]
        BY <1>2, <3>1, <4>1, <4>2 DEF Word
      <4> QED
        BY <3>1, <4>1, <4>3
    <3> QED
      BY <3>2, <3>3
  <2> QED
    BY <2>1, <2>2
<1>7. Cardinality(O) = Len(seen) + d
  BY <1>2, <1>3 DEF Word
<1>8. \A n \in ToSet(q) : \A m \in O : m > n => m \in ToSet(q)
  BY <1>2, <1>3 DEF Word, ToSet
<1> QED
  BY <1>5, <1>6, <1>7, <1>8 DEF g, q, d, O, seen

\* bus.py: every drop is counted, instead of silently losing events, and the
\* freshest are kept: for any subscribers, interests, queue size and
\* interleaving of publications, receptions and sweeps.
THEOREM BusKept == BusSpec => []BusKeepsItsWord
<1>1. BusInv /\ TotalInv => BusKeepsItsWord
  <2> SUFFICES ASSUME BusInv, TotalInv PROVE BusKeepsItsWord
    OBVIOUS
  <2>1. FreshestKept
    BY WordIsKept DEF FreshestKept
  <2>2. droppedTotal = MapThenSumSet(LAMBDA s : sub[s].dropped, Subscribers)
    BY DEF TotalInv, TotalOf
  <2>3. DropsCounted
    BY <2>2, WordIsKept DEF DropsCounted
  <2> QED
    BY <2>1, <2>3 DEF BusKeepsItsWord
<1> QED
  BY <1>1, InitTotal, TotalStep, BusInvariant, PTL DEF BusSpec
=============================================================================
