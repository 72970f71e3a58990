--------------------------- MODULE TelemetryDelivery ---------------------------
(***************************************************************************)
(* One record_telemetry call for each row, from the hook to project.db:    *)
(* fallback.record_telemetry and client.call, which asks again after a     *)
(* time-out and at last writes the row itself; the daemon, which buffers   *)
(* the row and shadows it in its event log (server.handle_request); and    *)
(* TelemetryStore.flush, every half second and once at exit.               *)
(*                                                                         *)
(* The daemon has one thread: while a flush waits for the database it      *)
(* reads no request, and the callers' time-outs run on.                    *)
(***************************************************************************)
EXTENDS Naturals, FiniteSets

CONSTANTS
    Rows,
    MaxAttempts,  \* how often call can send a request before its deadline
    MaxTrouble    \* bound on crashes and failed writes

ASSUME TelemetryConstants == MaxAttempts \in Nat /\ MaxTrouble \in Nat

VARIABLES
    caller,    \* caller[r]: where record_telemetry(r) is, and its requests so far
    requests,  \* requests in the socket that the daemon has not read
    serving,   \* a daemon runs
    pending,   \* pending[r]: copies of r in _pending
    batch,     \* what flush has drained and not yet committed
    stored,    \* the rows of dispatch_telemetry
    logged,    \* the dispatch.completed events of the event log
    lost,      \* rows with a copy that a crash or a failed flush lost
    trouble

telemetryVars == <<caller, requests, serving, pending, batch, stored, logged,
                   lost, trouble>>

Copies == [Rows -> Nat]
NoRows == [r \in Rows |-> 0]
RowsIn(c) == {r \in Rows : c[r] > 0}
Plus(c, d) == [r \in Rows |-> c[r] + d[r]]
Added(c, r) == [c EXCEPT ![r] = @ + 1]

TelemetryTypeOK ==
    /\ caller \in [Rows -> [pc : {"calling", "waiting", "direct", "answered",
                                  "written", "raised"},
                            attempt : 0..MaxAttempts]]
    /\ requests \subseteq [row : Rows, attempt : 1..MaxAttempts]
    /\ serving \in BOOLEAN
    /\ pending \in Copies
    /\ batch \in Copies
    /\ stored \in Copies
    /\ logged \in Copies
    /\ lost \subseteq Rows
    /\ trouble \in 0..MaxTrouble

TelemetryInit ==
    /\ caller = [r \in Rows |-> [pc |-> "calling", attempt |-> 0]]
    /\ requests = {}
    /\ serving = FALSE
    /\ pending = NoRows
    /\ batch = NoRows
    /\ stored = NoRows
    /\ logged = NoRows
    /\ lost = {}
    /\ trouble = 0

-----------------------------------------------------------------------------
Goto(r, pc) == caller' = [caller EXCEPT ![r].pc = pc]

\* _spawn_daemon, by a caller that cannot connect.
SpawnForCall ==
    /\ ~serving
    /\ \E r \in Rows : caller[r].pc = "calling"
    /\ serving' = TRUE
    /\ UNCHANGED <<caller, requests, pending, batch, stored, logged, lost, trouble>>

\* _rpc
Send(r) ==
    /\ caller[r].pc = "calling"
    /\ caller[r].attempt < MaxAttempts
    /\ serving
    /\ caller' = [caller EXCEPT ![r] = [pc |-> "waiting", attempt |-> @.attempt + 1]]
    /\ requests' = requests \cup {[row |-> r, attempt |-> caller[r].attempt + 1]}
    /\ UNCHANGED <<serving, pending, batch, stored, logged, lost, trouble>>

\* A time-out is an OSError: call tries again.
TimeOut(r) ==
    /\ caller[r].pc = "waiting"
    /\ Goto(r, "calling")
    /\ UNCHANGED <<requests, serving, pending, batch, stored, logged, lost, trouble>>

\* DaemonUnavailable: the deadline, an error, or a connection closed.
Unavailable(r) ==
    /\ caller[r].pc \in {"calling", "waiting"}
    /\ Goto(r, "direct")
    /\ UNCHANGED <<requests, serving, pending, batch, stored, logged, lost, trouble>>

\* The fallback of record_telemetry.
WriteDirect(r) ==
    /\ caller[r].pc = "direct"
    /\ Goto(r, "written")
    /\ stored' = Added(stored, r)
    /\ UNCHANGED <<requests, serving, pending, batch, logged, lost, trouble>>

\* The database stays locked: the caller gets the exception.
WriteRaises(r) ==
    /\ caller[r].pc = "direct"
    /\ trouble < MaxTrouble
    /\ Goto(r, "raised")
    /\ trouble' = trouble + 1
    /\ UNCHANGED <<requests, serving, pending, batch, stored, logged, lost>>

-----------------------------------------------------------------------------
\* Mutant of Serve: the event is appended first, and when that fails the row is
\* not buffered.
ServeLogFirst(q) ==
    /\ serving
    /\ batch = NoRows
    /\ q \in requests
    /\ requests' = requests \ {q}
    /\ \/ /\ logged' = Added(logged, q.row)
          /\ pending' = Added(pending, q.row)
          /\ UNCHANGED trouble
       \/ /\ trouble < MaxTrouble
          /\ trouble' = trouble + 1
          /\ UNCHANGED <<logged, pending>>
    /\ IF caller[q.row] = [pc |-> "waiting", attempt |-> q.attempt]
       THEN Goto(q.row, "answered")
       ELSE UNCHANGED caller
    /\ UNCHANGED <<serving, batch, stored, lost>>

\* handle_request and _dual_write_dispatch_telemetry: the row is buffered, then
\* its event appended, under an id drawn here.  The answer reaches a
\* caller that still waits for it.
Serve(q) ==
    /\ serving
    /\ batch = NoRows
    /\ q \in requests
    /\ requests' = requests \ {q}
    /\ pending' = Added(pending, q.row)
    /\ \/ logged' = Added(logged, q.row) /\ UNCHANGED trouble
       \/ UNCHANGED logged /\ trouble < MaxTrouble /\ trouble' = trouble + 1
    /\ IF caller[q.row] = [pc |-> "waiting", attempt |-> q.attempt]
       THEN Goto(q.row, "answered")
       ELSE UNCHANGED caller
    /\ UNCHANGED <<serving, batch, stored, lost>>

\* Mutant of FlushDrain: the buffer is emptied only by the commit, which is
\* not there any more.
FlushKeeps ==
    /\ serving
    /\ batch = NoRows
    /\ pending # NoRows
    /\ batch' = pending
    /\ UNCHANGED <<caller, requests, serving, pending, stored, logged, lost, trouble>>

\* flush, up to the release of the lock.
FlushDrain ==
    /\ serving
    /\ batch = NoRows
    /\ pending # NoRows
    /\ batch' = pending
    /\ pending' = NoRows
    /\ UNCHANGED <<caller, requests, serving, stored, logged, lost, trouble>>

FlushCommit ==
    /\ batch # NoRows
    /\ stored' = Plus(stored, batch)
    /\ batch' = NoRows
    /\ UNCHANGED <<caller, requests, serving, pending, logged, lost, trouble>>

\* The exception is suppressed and the drained rows are gone.
FlushFails ==
    /\ batch # NoRows
    /\ trouble < MaxTrouble
    /\ lost' = lost \cup RowsIn(batch)
    /\ batch' = NoRows
    /\ trouble' = trouble + 1
    /\ UNCHANGED <<caller, requests, serving, pending, stored, logged>>

\* Mutant of Stop: no final flush.
StopUnflushed ==
    /\ serving
    /\ batch = NoRows
    /\ serving' = FALSE
    /\ requests' = {}
    /\ pending' = NoRows
    /\ UNCHANGED <<caller, batch, stored, logged, lost, trouble>>

\* The daemon stops: a final flush, and then nobody reads the socket.
Stop ==
    /\ serving
    /\ batch = NoRows
    /\ serving' = FALSE
    /\ requests' = {}
    /\ pending' = NoRows
    /\ \/ stored' = Plus(stored, pending) /\ UNCHANGED <<lost, trouble>>
       \/ /\ pending # NoRows
          /\ trouble < MaxTrouble
          /\ lost' = lost \cup RowsIn(pending)
          /\ trouble' = trouble + 1
          /\ UNCHANGED stored
    /\ UNCHANGED <<caller, batch, logged>>

\* kill -9
DaemonKilled ==
    /\ serving
    /\ trouble < MaxTrouble
    /\ serving' = FALSE
    /\ requests' = {}
    /\ pending' = NoRows
    /\ batch' = NoRows
    /\ lost' = lost \cup RowsIn(pending) \cup RowsIn(batch)
    /\ trouble' = trouble + 1
    /\ UNCHANGED <<caller, stored, logged>>

ServeAny == \E q \in requests : Serve(q)
WriteEnds(r) == WriteDirect(r) \/ WriteRaises(r)
FlushEnds == FlushCommit \/ FlushFails

TelemetryNext ==
    \/ SpawnForCall
    \/ \E r \in Rows : \/ Send(r) \/ TimeOut(r) \/ Unavailable(r)
                       \/ WriteDirect(r) \/ WriteRaises(r)
    \/ \E q \in requests : Serve(q)
    \/ FlushDrain \/ FlushCommit \/ FlushFails
    \/ Stop
    \/ DaemonKilled

TelemetrySpec == TelemetryInit /\ [][TelemetryNext]_telemetryVars

-----------------------------------------------------------------------------
Sent(r) == caller[r].pc \in {"answered", "written"}
Written(r) == IF caller[r].pc = "written" THEN 1 ELSE 0
Unread(r) == Cardinality({q \in requests : q.row = r})
Kept(r) == pending[r] + batch[r] + stored[r]

\* fallback.py: a down daemon must not drop the row; telemetry_store.py: one
\* recorded during a flush is never double-flushed.  A row that
\* record_telemetry has accepted is buffered, in flight or stored, unless a
\* crash or a failed flush lost it; and each copy comes from a request of its
\* own, which the daemon has read, or from the one direct write.
RowsConserved ==
    \A r \in Rows :
        /\ Sent(r) => Kept(r) > 0 \/ r \in lost
        /\ Kept(r) + Unread(r) <= caller[r].attempt + Written(r)

\* server.py: the table and the shadow log get the same rows.  Without
\* trouble they differ by the rows that a fallback wrote.
ParityHolds ==
    trouble = 0 => \A r \in Rows : Kept(r) = logged[r] + Written(r)

\* An accepted row reaches the table, through time-outs, stops and restarts
\* of the daemon, unless a crash or a failed flush loses it.
AcceptedIsStored == \A r \in Rows : Sent(r) ~> (stored[r] > 0 \/ r \in lost)
=============================================================================
