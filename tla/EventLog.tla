------------------------------- MODULE EventLog -------------------------------
(***************************************************************************)
(* The event log of the daemon and its replay (broker.daemon.event_store). *)
(* Producers deliver an event any number of times, in any order; the       *)
(* daemon, the only writer, may stop or crash at any step and opens the    *)
(* log again.                                                              *)
(*                                                                         *)
(* An event is its type and what the fold of its type reads of it.  The    *)
(* folds modelled are those of tasks and sessions; the other three         *)
(* projections are lists of rows, like the log itself, and a rebuild       *)
(* stores what the replay returns.                                         *)
(***************************************************************************)
EXTENDS Naturals, FiniteSets, SequencesExt

CONSTANTS
    EventIds,
    Catalogs,    \* what producers deliver: a catalog maps an event_id to its event
    MaxRestarts

ASSUME EventLogConstants == MaxRestarts \in Nat

VARIABLES
    catalog,
    eventLog,    \* the table event_log: a set of [seq, id]
    nextSeq,     \* _next_seq
    open,        \* the daemon holds the DuckDB connection
    live,        \* what the producers of the events have done, in order
    restarts

eventVars == <<catalog, eventLog, nextSeq, open, live, restarts>>

EmptyTable == [k \in {} |-> {}]
NoTables == [tasks |-> EmptyTable, sessions |-> EmptyTable]

EventInit ==
    /\ catalog \in Catalogs
    /\ eventLog = {}
    /\ nextSeq = 0
    /\ open = TRUE
    /\ live = NoTables
    /\ restarts = 0

-----------------------------------------------------------------------------
\* One event of fold_tasks.
TaskApplied(table, e) ==
    CASE e.type = "task.created" ->
             (e.task :> [text |-> e.text, stalls |-> 0, archived |-> FALSE]) @@ table
      [] e.type = "task.updated" /\ e.task \in DOMAIN table ->
             [table EXCEPT ![e.task].text = e.text]
      [] e.type = "task.stalled" /\ e.task \in DOMAIN table ->
             [table EXCEPT ![e.task].stalls = e.stalls]
      [] e.type = "task.archived" /\ e.task \in DOMAIN table ->
             [table EXCEPT ![e.task].archived = TRUE]
      [] e.type = "task.id_repaired" /\ e.task \in DOMAIN table ->
             (e.canonical :> table[e.task]) @@ Restrict(table, DOMAIN table \ {e.task})
      [] OTHER -> table

\* One event of fold_sessions.
SessionApplied(table, e) ==
    CASE e.type = "session.started" ->
             (e.session :> [ended |-> FALSE, messages |-> 0]) @@ table
      [] e.type = "session.ended" /\ e.session \in DOMAIN table ->
             [table EXCEPT ![e.session].ended = TRUE]
      [] e.type = "session.message_counted" /\ e.session \in DOMAIN table ->
             [table EXCEPT ![e.session].messages = e.messages]
      [] e.type = "session.reset" ->
             (e.opened :> [ended |-> FALSE, messages |-> 0]) @@
             (IF e.session \in DOMAIN table
              THEN [table EXCEPT ![e.session].ended = TRUE] ELSE table)
      [] OTHER -> table

Applied(tables, e) ==
    [tasks |-> TaskApplied(tables.tasks, e), sessions |-> SessionApplied(tables.sessions, e)]

\* read_events, ORDER BY seq: a row is preceded by those with a smaller seq.
ReadEvents(log) ==
    LET Preceding(r) == {s \in log : s.seq < r.seq}
        row(i) == CHOOSE r \in log : Cardinality(Preceding(r)) = i - 1
    IN  [i \in 1..Cardinality(log) |-> catalog[row(i).id]]

\* project
Replayed(log) == FoldLeft(Applied, NoTables, ReadEvents(log))

Seqs == {r.seq : r \in eventLog}
Stored(id) == \E r \in eventLog : r.id = id

-----------------------------------------------------------------------------
\* Mutant of AppendEvent: the second delivery of an event is another row.
AppendAgain(id) ==
    /\ open
    /\ nextSeq \notin Seqs
    /\ nextSeq < Cardinality(EventIds)
    /\ eventLog' = eventLog \cup {[seq |-> nextSeq, id |-> id]}
    /\ live' = IF Stored(id) THEN live ELSE Applied(live, catalog[id])
    /\ nextSeq' = nextSeq + 1
    /\ UNCHANGED <<catalog, open, restarts>>

\* append: an event that is there already is returned, another is inserted
\* under the next seq, which moves on when the INSERT has succeeded.  PRIMARY
\* KEY (seq).
AppendEvent(id) ==
    /\ open
    /\ ~Stored(id)
    /\ nextSeq \notin Seqs
    /\ eventLog' = eventLog \cup {[seq |-> nextSeq, id |-> id]}
    /\ live' = Applied(live, catalog[id])
    /\ nextSeq' = nextSeq + 1
    /\ UNCHANGED <<catalog, open, restarts>>

\* The daemon dies behind the INSERT, before the seq moves on.
AppendDies(id) ==
    /\ open
    /\ restarts < MaxRestarts
    /\ ~Stored(id)
    /\ nextSeq \notin Seqs
    /\ eventLog' = eventLog \cup {[seq |-> nextSeq, id |-> id]}
    /\ live' = Applied(live, catalog[id])
    /\ open' = FALSE
    /\ restarts' = restarts + 1
    /\ UNCHANGED <<catalog, nextSeq>>

StoreCloses ==
    /\ open
    /\ restarts < MaxRestarts
    /\ open' = FALSE
    /\ restarts' = restarts + 1
    /\ UNCHANGED <<catalog, eventLog, nextSeq, live>>

\* Mutant of StoreOpens: the seq starts again from the last one.
StoreOpensAtLast ==
    /\ ~open
    /\ open' = TRUE
    /\ nextSeq' = IF Seqs = {} THEN 0 ELSE Max(Seqs)
    /\ UNCHANGED <<catalog, eventLog, live, restarts>>

\* EventStore.__init__: MAX(seq) + 1.
StoreOpens ==
    /\ ~open
    /\ open' = TRUE
    /\ nextSeq' = IF Seqs = {} THEN 0 ELSE 1 + Max(Seqs)
    /\ UNCHANGED <<catalog, eventLog, live, restarts>>

EventNext ==
    \/ \E id \in EventIds : AppendEvent(id) \/ AppendDies(id)
    \/ StoreCloses
    \/ StoreOpens

EventSpec == EventInit /\ [][EventNext]_eventVars

-----------------------------------------------------------------------------
\* Through crashes behind an INSERT and restarts, the log is numbered without
\* a gap and an open store goes on at the next number, so that no append is
\* ever refused.
EventLogDense ==
    /\ Seqs = 0..(Cardinality(eventLog) - 1)
    /\ open => nextSeq = Cardinality(eventLog)

\* event_store.py: the unique event_id dedupes a re-delivered event.  So the
\* replay of the log is what the producers have done, each event once, in
\* the order of its first delivery, whatever is delivered again.  Both sides use
\* the same folds: this is about what reaches them and in which order.
ReplayIsLive == Replayed(eventLog) = live
=============================================================================
