------------------------------ MODULE MCServices ------------------------------
(***************************************************************************)
(* Eight components that share no state, checked side by side: a behaviour *)
(* is one of the component that focus names, from any of its initial       *)
(* states, and the others stay in one of theirs.  No step of one component *)
(* could disable or change a step of another.                              *)
(***************************************************************************)
EXTENDS MCRecurrenceClock, MemoryLedger, ReadySet, TelemetryDelivery, EventLog,
        VaultQueue, EventBus, CycleCheck

CONSTANTS a, b, c, d                         \* nodes of DAGs
CONSTANTS e1, e2, e3, e4, e5, k1, k2, x, y   \* events, tasks or sessions or kinds, texts
CONSTANTS s1, s2                             \* subscribers

\* ReadySet: every DAG of these four nodes in which a has no dependency and
\* no node has more than two.
MCOrder == <<a, b, c, d>>
MCPlans ==
    {p \in [{a, b, c, d} -> SUBSET {a, b, c, d}] :
        /\ p[a] = {}
        /\ \A n \in {b, c, d} : Cardinality(p[n]) <= 2
        /\ \A S \in SUBSET {a, b, c, d} : S # {} => \E n \in S : p[n] \cap S = {}}

\* EventLog: the life of a task that is re-keyed, and of a session that is reset.
MCTaskEvents ==
    (e1 :> [type |-> "task.created", task |-> k1, text |-> x]) @@
    (e2 :> [type |-> "task.updated", task |-> k1, text |-> y]) @@
    (e3 :> [type |-> "task.id_repaired", task |-> k1, canonical |-> k2]) @@
    (e4 :> [type |-> "task.stalled", task |-> k2, stalls |-> 1]) @@
    (e5 :> [type |-> "task.archived", task |-> k1])
MCSessionEvents ==
    (e1 :> [type |-> "session.started", session |-> k1]) @@
    (e2 :> [type |-> "session.message_counted", session |-> k1, messages |-> 1]) @@
    (e3 :> [type |-> "session.reset", session |-> k1, opened |-> k2]) @@
    (e4 :> [type |-> "session.ended", session |-> k2]) @@
    (e5 :> [type |-> "session.message_counted", session |-> k2, messages |-> 2])
MCCatalogs == {MCTaskEvents, MCSessionEvents}

\* CycleCheck: every document of three nodes, with dangling edges to a fourth.
MCDocuments == [{a, b, c} -> SUBSET {a, b, c, d}]

\* EventBus: one subscriber to everything, one to the first kind.
MCInterest == (s1 :> {k1, k2}) @@ (s2 :> {k1})

VARIABLE focus

allVars == <<vars, ledgerVars, readyVars, telemetryVars, eventVars, vaultVars,
             busVars, contractVars, focus>>

\* Components out of focus start in one state only.
ServicesInit ==
    /\ focus \in {"clock", "ledger", "ready", "telemetry", "events", "vault", "bus",
                 "contract"}
    /\ Init /\ TelemetryInit /\ VaultInit /\ BusInit
    /\ LedgerInit /\ (focus = "ledger" \/ embedModel = 1)
    /\ ReadyInit /\ (focus = "ready" \/ (plan = [n \in NodeIds |-> {}] /\ reachable))
    /\ EventInit /\ (focus = "events" \/ catalog = MCTaskEvents)
    /\ ContractInit /\ (focus = "contract" \/ document = [n \in {a, b, c} |-> {}])

ClockStep ==
    /\ focus = "clock" /\ Next
    /\ UNCHANGED <<ledgerVars, readyVars, telemetryVars, eventVars, vaultVars, busVars, contractVars, focus>>
LedgerStep ==
    /\ focus = "ledger" /\ LedgerNext
    /\ UNCHANGED <<vars, readyVars, telemetryVars, eventVars, vaultVars, busVars, contractVars, focus>>
ReadyStep ==
    /\ focus = "ready" /\ ReadyNext
    /\ UNCHANGED <<vars, ledgerVars, telemetryVars, eventVars, vaultVars, busVars, contractVars, focus>>
TelemetryStep ==
    /\ focus = "telemetry" /\ TelemetryNext
    /\ UNCHANGED <<vars, ledgerVars, readyVars, eventVars, vaultVars, busVars, contractVars, focus>>
EventStep ==
    /\ focus = "events" /\ EventNext
    /\ UNCHANGED <<vars, ledgerVars, readyVars, telemetryVars, vaultVars, busVars, contractVars, focus>>
VaultStep ==
    /\ focus = "vault" /\ VaultNext
    /\ UNCHANGED <<vars, ledgerVars, readyVars, telemetryVars, eventVars, busVars, contractVars, focus>>
ContractStep ==
    /\ focus = "contract" /\ ContractNext
    /\ UNCHANGED <<vars, ledgerVars, readyVars, telemetryVars, eventVars, vaultVars, busVars, focus>>
BusStep ==
    /\ focus = "bus" /\ BusNext
    /\ UNCHANGED <<vars, ledgerVars, readyVars, telemetryVars, eventVars, vaultVars, contractVars, focus>>

ServicesNext ==
    \/ ClockStep \/ LedgerStep \/ ReadyStep \/ TelemetryStep
    \/ EventStep \/ VaultStep \/ BusStep \/ ContractStep

\* The conductor pulls while it lives, and some node that runs ends; the daemon's
\* loop serves and flushes, and callers have deadlines; launchd starts the writer,
\* which works on.  No more is assumed than that some of several goes on.
ReadyFair == WF_readyVars(focus = "ready" /\ Pull)
CompleteFair == WF_readyVars(focus = "ready" /\ \E n \in NodeIds : Complete(n))
TelemetryFair ==
    /\ WF_telemetryVars(focus = "telemetry" /\ ServeAny)
    /\ WF_telemetryVars(focus = "telemetry" /\ FlushDrain)
    /\ WF_telemetryVars(focus = "telemetry" /\ FlushEnds)
    /\ WF_telemetryVars(focus = "telemetry" /\ \E r \in Rows : Unavailable(r))
    /\ WF_telemetryVars(focus = "telemetry" /\ \E r \in Rows : WriteEnds(r))
VaultFair ==
    /\ WF_vaultVars(focus = "vault" /\ \E w \in Drainers : StartDrainer(w))
    /\ WF_vaultVars(focus = "vault" /\ \E w \in Drainers : Work(w))

ServicesSpec ==
    /\ ServicesInit /\ [][ServicesNext]_allVars
    /\ ReadyFair /\ CompleteFair /\ TelemetryFair /\ VaultFair

-----------------------------------------------------------------------------
\* Every component keeps to the values its code stores: no undefined link, no
\* time in the future, no request after the deadline, no negative in-degree.
ServicesTypeOK ==
    /\ TypeOK /\ LedgerTypeOK /\ ReadyTypeOK
    /\ TelemetryTypeOK /\ VaultTypeOK /\ BusTypeOK /\ ContractTypeOK

=============================================================================
