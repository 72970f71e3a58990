------------------------------- MODULE EventBus -------------------------------
(***************************************************************************)
(* The in-process publish-subscribe bus of the daemon (broker.daemon.bus). *)
(* Everything runs on one event loop: publish, subscribe and the sweeps do *)
(* not await, receive does, and holds its Subscription across the await,   *)
(* whatever becomes of it meanwhile.                                       *)
(*                                                                         *)
(* An event is its seq.  Every subscription has an id of its own (uuid4).  *)
(* The clock of the idle sweep is left out: any subscription may be idle.  *)
(***************************************************************************)
EXTENDS Naturals, FiniteSets, SequencesExt

CONSTANTS
    Subscribers,
    Kinds,         \* EVENT_KINDS
    Interest,      \* the kinds that each of them asks for
    QueueSize,     \* queue_size of subscribe
    MaxPublished   \* bound on the events

ASSUME BusConstants ==
    /\ IsFiniteSet(Subscribers)
    /\ Interest \in [Subscribers -> SUBSET Kinds]
    /\ QueueSize \in Nat \ {0}
    /\ MaxPublished \in Nat

VARIABLES
    published,     \* the kind of every event, by its seq
    sub,           \* sub[s]: the Subscription
    receiving,     \* subscriptions whose receive awaits the queue
    droppedTotal

busVars == <<published, sub, receiving, droppedTotal>>

\* registered: in _subscribers.  since and until (history): the seq before the
\* first and of the last event published while it was registered and alive.
Unborn == [registered |-> FALSE, alive |-> FALSE, queue |-> <<>>, got |-> <<>>,
           dropped |-> 0, since |-> 0, until |-> 0]

BusTypeOK ==
    /\ published \in Seq(Kinds) /\ Len(published) <= MaxPublished
    /\ sub \in [Subscribers ->
                   [registered : BOOLEAN, alive : BOOLEAN, queue : Seq(Nat),
                    got : Seq(Nat), dropped : Nat, since : Nat, until : Nat]]
    /\ receiving \subseteq Subscribers
    /\ droppedTotal \in Nat

BusInit ==
    /\ published = <<>>
    /\ sub = [s \in Subscribers |-> Unborn]
    /\ receiving = {}
    /\ droppedTotal = 0

-----------------------------------------------------------------------------
Targets(kind) ==
    {s \in Subscribers : sub[s].registered /\ sub[s].alive /\ kind \in Interest[s]}

Full(s) == Len(sub[s].queue) = QueueSize

\* Mutant of Enqueued: what does not fit is dropped, not the oldest.
EnqueuedOldest(s, seq) == IF Full(s) THEN sub[s].queue ELSE Append(sub[s].queue, seq)

\* _enqueue
Enqueued(s, seq) ==
    Append(IF Full(s) THEN Tail(sub[s].queue) ELSE sub[s].queue, seq)

\* A subscription that gets no more events.
Ended(r, registered, alive) ==
    [r EXCEPT !.registered = registered, !.alive = alive,
              !.until = IF r.registered /\ r.alive THEN Len(published) ELSE @]

-----------------------------------------------------------------------------
Subscribe(s) ==
    /\ sub[s] = Unborn
    /\ sub' = [sub EXCEPT ![s] = [@ EXCEPT !.registered = TRUE, !.alive = TRUE,
                                           !.since = Len(published)]]
    /\ UNCHANGED <<published, receiving, droppedTotal>>

Unsubscribe(s) ==
    /\ sub[s].registered
    /\ sub' = [sub EXCEPT ![s] = Ended(@, FALSE, @.alive)]
    /\ UNCHANGED <<published, receiving, droppedTotal>>

\* mark_dead leaves it registered, for the next sweep.
MarkDead(s) ==
    /\ sub[s].registered
    /\ sub' = [sub EXCEPT ![s] = Ended(@, TRUE, FALSE)]
    /\ UNCHANGED <<published, receiving, droppedTotal>>

\* reap_dead
ReapDead(idle) ==
    /\ sub' = [s \in Subscribers |->
                  IF sub[s].registered /\ (~sub[s].alive \/ s \in idle)
                  THEN Ended(sub[s], FALSE, sub[s].alive) ELSE sub[s]]
    /\ UNCHANGED <<published, receiving, droppedTotal>>

Publish(kind) ==
    LET seq == Len(published) + 1
    IN  /\ seq <= MaxPublished
        /\ published' = Append(published, kind)
        /\ sub' = [s \in Subscribers |->
                      IF s \in Targets(kind)
                      THEN [sub[s] EXCEPT !.queue = Enqueued(s, seq),
                                          !.dropped = IF Full(s) THEN @ + 1 ELSE @]
                      ELSE sub[s]]
        /\ droppedTotal' = droppedTotal + Cardinality({s \in Targets(kind) : Full(s)})
        /\ UNCHANGED receiving

\* receive, up to its await: a KeyError unless it is registered.
Receive(s) ==
    /\ sub[s].registered
    /\ receiving' = receiving \cup {s}
    /\ UNCHANGED <<published, sub, droppedTotal>>

\* receive, behind it.
Received(s) ==
    /\ s \in receiving
    /\ sub[s].queue # <<>>
    /\ sub' = [sub EXCEPT ![s].queue = Tail(@), ![s].got = Append(@, Head(sub[s].queue))]
    /\ receiving' = receiving \ {s}
    /\ UNCHANGED <<published, droppedTotal>>

ReceiveTimesOut(s) ==
    /\ s \in receiving
    /\ sub[s].queue = <<>>
    /\ receiving' = receiving \ {s}
    /\ UNCHANGED <<published, sub, droppedTotal>>

BusNext ==
    \/ \E kind \in Kinds : Publish(kind)
    \/ \E idle \in SUBSET Subscribers : ReapDead(idle)
    \/ \E s \in Subscribers :
           \/ Subscribe(s) \/ Unsubscribe(s) \/ MarkDead(s)
           \/ Receive(s) \/ Received(s) \/ ReceiveTimesOut(s)

BusSpec == BusInit /\ [][BusNext]_busVars

-----------------------------------------------------------------------------
\* The events a subscription was there for.
Owed(s) ==
    LET r == sub[s]
        until == IF r.registered /\ r.alive THEN Len(published) ELSE r.until
    IN  {n \in (r.since + 1)..until : published[n] \in Interest[s]}

\* bus.py: every drop is counted, instead of silently losing events.  What a
\* subscription was there for it has got, or has queued, or its counter says
\* is gone; and it gets them in order.
DropsCounted ==
    /\ \A s \in Subscribers :
           LET seen == sub[s].got \o sub[s].queue
           IN  /\ ToSet(seen) \subseteq Owed(s)
               /\ \A i, j \in DOMAIN seen : i < j => seen[i] < seen[j]
               /\ Cardinality(Owed(s)) = Len(seen) + sub[s].dropped
    /\ droppedTotal = MapThenSumSet(LAMBDA s : sub[s].dropped, Subscribers)

\* bus.py: keeping the freshest events.  Nothing newer than what is queued is
\* missing from the queue.
FreshestKept ==
    \A s \in Subscribers : \A n \in ToSet(sub[s].queue) :
        \A m \in Owed(s) : m > n => m \in ToSet(sub[s].queue)

\* A slow subscriber, a full queue, a sweep or the end of another subscription
\* costs nothing but the oldest events, and those are counted.
BusKeepsItsWord == DropsCounted /\ FreshestKept
=============================================================================
