----------------------------- MODULE MemoryLedger -----------------------------
(***************************************************************************)
(* The bi-temporal tables of .memory/log.py (decisions; lessons are        *)
(* written the same way) and their vector index.  A write commits its row  *)
(* and a marker, embed_outbox, and then embeds in a second transaction;    *)
(* "vec backfill" drains the markers and the dead letters.  Every command  *)
(* is a process of its own on one SQLite file.                             *)
(*                                                                         *)
(* A text stands for the columns that are embedded; status is the other    *)
(* column of the payload, which --status sets.  A key is <<id, at>>: at is *)
(* 0 for the bare id, and the time of the close for a row renamed to       *)
(* id@time.                                                                *)
(***************************************************************************)
EXTENDS Naturals

CONSTANTS
    DecisionIds,  \* the numbers of DEC-001, DEC-002, ...
    Texts,
    DecisionStates, \* what --status is given
    EmbedModels,  \* in the order their versions are installed
    Writers,      \* processes that run "decision add"
    MaxWrites,    \* bound on the clock, which moves on at every write
    MaxFailures,  \* bound on the dead letters
    NoWork

ASSUME LedgerConstants ==
    /\ DecisionIds \subseteq Nat \ {0}
    /\ EmbedModels \subseteq Nat
    /\ MaxWrites \in Nat
    /\ MaxFailures \in Nat
    /\ NoWork \notin [key : DecisionIds \X {0}, text : Texts, model : EmbedModels]

VARIABLES
    ledgerTime,
    decisions,    \* the table: [id, at, text, status, tombstone, supersedes]
    vecMemory,    \* vec_memory: [key, text]
    provenance,   \* embed_provenance: [key, model]
    embedOutbox,  \* embed_outbox: [key, text], one for each key
    deadLetter,   \* vec_memory_deadletter: [n, key, text], n in insertion order
    embedModel,   \* _EMBED_MODEL of the version installed
    writer,       \* what a process still has to embed, or NoWork
    backfill      \* the running "vec backfill": a set of at most one

ledgerVars == <<ledgerTime, decisions, vecMemory, provenance, embedOutbox,
                deadLetter, embedModel, writer, backfill>>

Keys == DecisionIds \X (0..MaxWrites)
Blobs == [key : Keys, text : Texts]

LedgerTypeOK ==
    /\ ledgerTime \in 1..(MaxWrites + 1)
    /\ decisions \subseteq [id : DecisionIds, at : 0..MaxWrites, text : Texts,
                            status : DecisionStates \cup {"superseded"},
                            tombstone : BOOLEAN, supersedes : 0..MaxWrites]
    /\ vecMemory \subseteq Blobs
    /\ provenance \subseteq [key : Keys, model : EmbedModels]
    /\ embedOutbox \subseteq Blobs
    /\ deadLetter \subseteq [n : Nat, key : Keys, text : Texts]
    /\ embedModel \in EmbedModels
    /\ writer \in [Writers -> {NoWork} \cup
                      [key : DecisionIds \X {0}, text : Texts, model : EmbedModels]]
    /\ backfill \subseteq [existing : SUBSET Keys, outbox : SUBSET Blobs,
                           read : BOOLEAN, locked : BOOLEAN, model : EmbedModels]

LedgerInit ==
    /\ ledgerTime = 1
    /\ decisions = {}
    /\ vecMemory = {}
    /\ provenance = {}
    /\ embedOutbox = {}
    /\ deadLetter = {}
    /\ embedModel \in EmbedModels
    /\ writer = [w \in Writers |-> NoWork]
    /\ backfill = {}

-----------------------------------------------------------------------------
KeysOf(blobs) == {b.key : b \in blobs}
RowKey(r) == <<r.id, r.at>>

\* Rows on the bare id: the current one, or a tombstone.
Bare(id) == {r \in decisions : r.id = id /\ r.at = 0}

\* _current_row
Current(id) == {r \in Bare(id) : ~r.tombstone}

\* _next_id: one more than the largest id with a current row.
NextId ==
    LET ids == {r.id : r \in {s \in decisions : s.at = 0 /\ ~s.tombstone}}
    IN  IF ids = {} THEN 1 ELSE 1 + CHOOSE n \in ids : \A m \in ids : m <= n

\* _outbox_enqueue: INSERT OR REPLACE.
Enqueue(outbox, blobs) ==
    {b \in outbox : b.key \notin KeysOf(blobs)} \cup blobs

\* _outbox_clear
Clear(outbox, keys) == {b \in outbox : b.key \notin keys}

\* _provenance_upsert
Stamp(keys, model) ==
    {p \in provenance : p.key \notin keys}
        \cup {[key |-> k, model |-> model] : k \in keys}

\* _deadletter_insert: behind every dead letter there is.
Parked(letters, blobs) ==
    LET last == IF letters = {} THEN 0
                ELSE CHOOSE n \in {x.n : x \in letters} :
                         \A x \in letters : x.n <= n
    IN  letters \cup {[n |-> last + 1, key |-> b.key, text |-> b.text] : b \in blobs}

\* _detect_model_swap: of every key that another model embedded, one blob
\* found in vec_memory.
StaleBlobs(model) ==
    LET stale == {v \in vecMemory :
                     \E p \in provenance : p.key = v.key /\ p.model # model}
    IN  {S \in SUBSET stale :
            /\ KeysOf(S) = KeysOf(stale)
            /\ \A s, t \in S : s.key = t.key => s = t}

\* Mutant of Settled: the markers of what could not be embedded go as well.
SettledAll(b, embedded) == KeysOf(b.outbox)

\* The markers of a backfill that go: what is in the index, found or put there.
Settled(b, embedded) == KeysOf({o \in b.outbox : o.key \in b.existing} \cup embedded)

\* A backfill past its first write holds SQLite's write lock to its commit.
Unlocked == \A b \in backfill : ~b.locked

\* Mutant of Closed: the close takes the time of the next write.
ClosedLate(id) ==
    (decisions \ Bare(id))
        \cup {[r EXCEPT !.at = ledgerTime + 1, !.status = "superseded"] : r \in Bare(id)}

\* Mutant of Closed: the old row is replaced.
ClosedOverwrites(id) == decisions \ Bare(id)

\* _close_and_suffix_old_row: the bare row is renamed, and never deleted; what
\* its status was is overwritten.
Closed(id) ==
    (decisions \ Bare(id))
        \cup {[r EXCEPT !.at = ledgerTime, !.status = "superseded"] : r \in Bare(id)}

\* Mutant of NewRow: the new version names nothing.
NewRowUnlinked(id, text, status, tombstone, supersedes) ==
    [id |-> id, at |-> 0, text |-> text, status |-> status, tombstone |-> tombstone,
     supersedes |-> 0]

\* The row that takes the bare id.
NewRow(id, text, status, tombstone, supersedes) ==
    [id |-> id, at |-> 0, text |-> text, status |-> status, tombstone |-> tombstone,
     supersedes |-> supersedes]

-----------------------------------------------------------------------------
\* cmd_decision_add, first transaction: a new row, or a new version that
\* closes the current one, and the marker of its blob.  A tombstone keeps the
\* bare id, the primary key: the INSERT fails and nothing is written.
AddRow(w, id, text, status) ==
    /\ writer[w] = NoWork
    /\ Unlocked
    /\ ledgerTime <= MaxWrites
    /\ Bare(id) = Current(id)
    /\ \A r \in Current(id) : r.text # text \/ r.status # status
    /\ decisions' = Closed(id) \cup
           {NewRow(id, text, status, FALSE,
                   IF Current(id) = {} THEN 0 ELSE ledgerTime)}
    /\ embedOutbox' = Enqueue(embedOutbox, {[key |-> <<id, 0>>, text |-> text]})
    /\ writer' = [writer EXCEPT ![w] =
                     [key |-> <<id, 0>>, text |-> text, model |-> embedModel]]
    /\ ledgerTime' = ledgerTime + 1
    /\ UNCHANGED <<vecMemory, provenance, deadLetter, embedModel, backfill>>

\* cmd_decision_add without --id takes the id from _next_id.
AddNext(w, text, status) ==
    NextId \in DecisionIds /\ AddRow(w, NextId, text, status)

\* cmd_decision_add --id
AddExplicit(w, id, text, status) == id # NextId /\ AddRow(w, id, text, status)

\* _vec_insert, the second transaction: row, provenance, marker.
EmbedRow(w) ==
    /\ writer[w] # NoWork
    /\ Unlocked
    /\ vecMemory' = vecMemory \cup {[key |-> writer[w].key, text |-> writer[w].text]}
    /\ provenance' = Stamp({writer[w].key}, writer[w].model)
    /\ embedOutbox' = Clear(embedOutbox, {writer[w].key})
    /\ writer' = [writer EXCEPT ![w] = NoWork]
    /\ UNCHANGED <<ledgerTime, decisions, deadLetter, embedModel, backfill>>

\* The backend is down: the blob becomes a dead letter, the marker stays.
EmbedFails(w) ==
    /\ writer[w] # NoWork
    /\ Unlocked
    /\ \A x \in deadLetter : x.n < MaxFailures
    /\ deadLetter' = Parked(deadLetter, {writer[w]})
    /\ writer' = [writer EXCEPT ![w] = NoWork]
    /\ UNCHANGED <<ledgerTime, decisions, vecMemory, provenance, embedOutbox,
                   embedModel, backfill>>

\* The process dies between its transactions, or sqlite-vec does not load.
EmbedSkipped(w) ==
    /\ writer[w] # NoWork
    /\ writer' = [writer EXCEPT ![w] = NoWork]
    /\ UNCHANGED <<ledgerTime, decisions, vecMemory, provenance, embedOutbox,
                   deadLetter, embedModel, backfill>>

\* cmd_decision_retire: the current row is closed and a tombstone takes the
\* bare id; the index and the marker are left alone.
Retire(id) ==
    /\ Unlocked
    /\ ledgerTime <= MaxWrites
    /\ \E r \in Current(id) :
           decisions' = Closed(id) \cup
                            {NewRow(id, r.text, "superseded", TRUE, ledgerTime)}
    /\ ledgerTime' = ledgerTime + 1
    /\ UNCHANGED <<vecMemory, provenance, embedOutbox, deadLetter, embedModel,
                   writer, backfill>>

\* A version with another embedding model of the same dimension is installed.
SwapModel ==
    /\ embedModel' \in {m \in EmbedModels : m > embedModel}
    /\ UNCHANGED <<ledgerTime, decisions, vecMemory, provenance, embedOutbox,
                   deadLetter, writer, backfill>>

\* cmd_recall enqueues what another model embedded.  A recall that exits
\* with an error rolls that back.
Recall ==
    /\ Unlocked
    /\ \E S \in StaleBlobs(embedModel) :
           /\ S # {}
           /\ embedOutbox' = Enqueue(embedOutbox, S)
    /\ UNCHANGED <<ledgerTime, decisions, vecMemory, provenance, deadLetter,
                   embedModel, writer, backfill>>

-----------------------------------------------------------------------------
\* cmd_vec_backfill, the keys it will take for embedded.
BackfillBegin ==
    /\ backfill = {}
    /\ backfill' = {[existing |-> KeysOf(vecMemory), outbox |-> {}, read |-> FALSE,
                     locked |-> FALSE, model |-> embedModel]}
    /\ UNCHANGED <<ledgerTime, decisions, vecMemory, provenance, embedOutbox,
                   deadLetter, embedModel, writer>>

\* The markers to drain, after those of a swapped model, whose insertion
\* takes the write lock.
BackfillRead ==
    \E b \in backfill :
        /\ ~b.read
        /\ \E S \in StaleBlobs(b.model) :
               backfill' = {[existing |-> b.existing, outbox |-> Enqueue(embedOutbox, S),
                             read |-> TRUE, locked |-> S # {}, model |-> b.model]}
        /\ UNCHANGED <<ledgerTime, decisions, vecMemory, provenance, embedOutbox,
                       deadLetter, embedModel, writer>>

\* The commit of a backfill that embedded the markers embedded0 and more,
\* with the dead letters it leaves.
Committed(b, embedded0, more, letters) ==
    LET inserted == embedded0 \cup more
    IN  /\ vecMemory' = vecMemory \cup inserted
        /\ provenance' = Stamp(KeysOf(inserted), b.model)
        /\ embedOutbox' =
               Clear(Enqueue(embedOutbox, IF b.locked THEN b.outbox ELSE {}),
                     Settled(b, embedded0) \cup KeysOf(inserted))
        /\ deadLetter' = letters
        /\ \A x \in letters : x.n <= MaxFailures

\* Steps 0 to 2 and the commit.  embedded0, embedded1 and embedded2 are what
\* the backend embeds in each step; full is --full.
BackfillCommit(full) ==
    \E b \in backfill :
        LET todo0 == {o \in b.outbox : o.key \notin b.existing}
        IN  /\ b.read
            /\ \E embedded0 \in SUBSET todo0 :
               LET existing1 == b.existing \cup KeysOf(embedded0)
                   todo1 == {x \in deadLetter : x.key \notin existing1}
               IN  \E answered \in SUBSET todo1 :
                   LET embedded1 == {x \in answered : \A y \in answered :
                                        y.key = x.key => x.n <= y.n}
                       existing2 == existing1 \cup KeysOf(embedded1)
                       drained == {x \in deadLetter :
                                      \/ x.key \in existing1
                                      \/ \E y \in embedded1 : y.key = x.key /\ y.n <= x.n}
                       todo2 == {[key |-> RowKey(r), text |-> r.text] :
                                    r \in {s \in decisions :
                                             full /\ RowKey(s) \notin existing2}}
                   IN  \E embedded2 \in SUBSET todo2 :
                       Committed(b, embedded0,
                                 {[key |-> x.key, text |-> x.text] : x \in embedded1}
                                     \cup embedded2,
                                 Parked(deadLetter \ drained, todo2 \ embedded2))
            /\ backfill' = {}
            /\ UNCHANGED <<ledgerTime, decisions, embedModel, writer>>

\* The probe fails, the process dies: nothing is committed.
BackfillStops ==
    /\ backfill # {}
    /\ backfill' = {}
    /\ UNCHANGED <<ledgerTime, decisions, vecMemory, provenance, embedOutbox,
                   deadLetter, embedModel, writer>>

LedgerNext ==
    \/ \E w \in Writers, text \in Texts, status \in DecisionStates : AddNext(w, text, status)
    \/ \E w \in Writers, id \in DecisionIds, text \in Texts, status \in DecisionStates :
           AddExplicit(w, id, text, status)
    \/ \E w \in Writers : EmbedRow(w) \/ EmbedFails(w) \/ EmbedSkipped(w)
    \/ \E id \in DecisionIds : Retire(id)
    \/ SwapModel
    \/ Recall
    \/ BackfillBegin
    \/ BackfillRead
    \/ \E full \in BOOLEAN : BackfillCommit(full)
    \/ BackfillStops

LedgerSpec == LedgerInit /\ [][LedgerNext]_ledgerVars

-----------------------------------------------------------------------------
\* Every closed version of a decision is superseded by exactly one row of
\* its id: the chain that "decision list --history" walks has no fork and no
\* gap, through re-adds, retirements and concurrent writers.
ChainWalkable ==
    \A r \in decisions :
        r.at # 0 =>
            /\ \E s \in decisions : s.id = r.id /\ s.supersedes = r.at
            /\ \A s, t \in decisions :
                   s.id = r.id /\ t.id = r.id /\ s.supersedes = r.at
                       /\ t.supersedes = r.at => s = t

\* A decision is in the index, in some version, or a marker says that it is
\* not: no crash or outage between the two transactions of a write, no
\* concurrent write and no backfill leaves it unknown to both.
NoSilentGap ==
    \A r \in decisions :
        r.at = 0 /\ ~r.tombstone =>
            RowKey(r) \in KeysOf(vecMemory) \cup KeysOf(embedOutbox)

\* No write loses a version, and nothing of one but its status: a row stays as it
\* is, or is renamed when its version closes and then says "superseded" instead of
\* the status it was given.
VersionsKept ==
    [][\A r \in decisions :
           \/ r \in decisions'
           \/ r.at = 0 /\ \E s \in decisions' :
                  s.at # 0 /\ s = [r EXCEPT !.at = s.at, !.status = "superseded"]]_ledgerVars

\* MEMORY-LOGGING.md: without --id the id is allocated.  So the id that
\* _next_id allocates is free.
NextIdFree == \A r \in decisions : r.at = 0 => r.id # NextId
=============================================================================
