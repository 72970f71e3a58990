------------------------ MODULE DaemonLifecycle_proofs ------------------------
(***************************************************************************)
(* Proofs about DaemonLifecycle, for any daemons, clients and faults.      *)
(*                                                                         *)
(* The argument is one of exclusion.  The flock has one holder; a daemon   *)
(* past Acquire is that holder until it dies (Holders), a probe holds the  *)
(* lock only between two steps of its own (Probes), and the daemons from   *)
(* before the pidfile never start again (Old).  So nobody but the holder   *)
(* writes the pidfile or binds the socket, and what a daemon wrote stays   *)
(* written until its exit is over.                                         *)
(*                                                                         *)
(* A lone ensure is then followed step by step (Alone): nobody else acts,  *)
(* so what it has read is still so; but for the daemon it reaps and the    *)
(* one it spawns, all daemons are settled.                                 *)
(***************************************************************************)
EXTENDS DaemonLifecycle, TLAPS

\* A client that reaps has somebody to reap.
Targets ==
    \A c \in Clients :
        client[c].pc \in {"reap", "wait"} => client[c].target \in Daemons

Old == \A d \in Legacy : daemon[d].pc \in {"serving", "dead"} \cup Exit

Probes == \A c \in Clients : client[c].pc = "release" => lock = c

Owning == {"clearing", "binding", "serving"} \cup Exit

Holders ==
    \A d \in Daemons \ Legacy :
        /\ daemon[d].pc \in {"locked", "owning", "writing"} \cup Owning => lock = d
        /\ daemon[d].pc \in Owning => pidfile = d
        /\ daemon[d].pc = "binding" => socket = Nobody
        /\ daemon[d].pc \in {"serving"} \cup Exit => socket \in {d, Nobody}

Typed == TypeOK /\ Targets
Inv == Typed /\ Old /\ Probes /\ Holders

-----------------------------------------------------------------------------
(* Effects                                                                 *)

ClientPc ==
    {"idle", "ping", "probe", "release", "read", "decide", "reap", "wait",
     "check", "unlink", "call", "spawn", "poll", "done", "failed"}

\* What an update of one client's record has to satisfy.
LEMMA ClientUpdate ==
    ASSUME TypeOK, Targets, NEW c \in Clients, NEW r \in ClientState,
           r.pc \in {"reap", "wait"} => r.target \in Daemons,
           client' = [client EXCEPT ![c] = r]
    PROVE  client' \in [Clients -> ClientState] /\ Targets'
BY DEF TypeOK, Targets

\* The record updates of the clients' actions.
LEMMA ClientRecords ==
    ASSUME NEW r \in ClientState, NEW h \in Daemons \cup {Nobody}, NEW b \in BOOLEAN,
           NEW pc \in ClientPc, NEW t \in {"probe", "call", "spawn"}
    PROVE  /\ [r EXCEPT !.pc = pc] \in ClientState
           /\ [r EXCEPT !.alone = b] \in ClientState
           /\ [r EXCEPT !.pc = pc, !.alone = b] \in ClientState
           /\ [r EXCEPT !.pc = pc, !.health = h] \in ClientState
           /\ [r EXCEPT !.pc = pc, !.fresh = b] \in ClientState
           /\ [r EXCEPT !.pc = pc, !.target = h] \in ClientState
           /\ [r EXCEPT !.pc = pc, !.then = t] \in ClientState
<1> DEFINE P == ClientPc
<1> DEFINE D == Daemons \cup {Nobody}
<1> DEFINE T == {"probe", "call", "spawn"}
<1> DEFINE S == [pc : P, health : D, fresh : BOOLEAN, target : D, then : T,
                 alone : BOOLEAN]
<1>1. ClientState = S
  BY DEF ClientState, ClientPc
<1>2. /\ r \in S /\ h \in D /\ pc \in P /\ t \in T
  BY <1>1
<1> HIDE DEF P, D, T
<1> SUFFICES /\ [r EXCEPT !.pc = pc] \in S
             /\ [r EXCEPT !.alone = b] \in S
             /\ [r EXCEPT !.pc = pc, !.alone = b] \in S
             /\ [r EXCEPT !.pc = pc, !.health = h] \in S
             /\ [r EXCEPT !.pc = pc, !.fresh = b] \in S
             /\ [r EXCEPT !.pc = pc, !.target = h] \in S
             /\ [r EXCEPT !.pc = pc, !.then = t] \in S
  BY <1>1
<1>3. [r EXCEPT !.pc = pc] \in S
  BY <1>2
<1>4. [r EXCEPT !.alone = b] \in S
  BY <1>2
<1>5. [r EXCEPT !.pc = pc, !.alone = b] \in S
  BY <1>2
<1>6. [r EXCEPT !.pc = pc, !.health = h] \in S
  BY <1>2
<1>7. [r EXCEPT !.pc = pc, !.fresh = b] \in S
  BY <1>2
<1>8. [r EXCEPT !.pc = pc, !.target = h] \in S
  BY <1>2
<1>9. [r EXCEPT !.pc = pc, !.then = t] \in S
  BY <1>2
<1>10. QED
  BY <1>3, <1>4, <1>5, <1>6, <1>7, <1>8, <1>9

LEMMA DaemonRecords ==
    ASSUME NEW r \in DaemonState, NEW b \in BOOLEAN,
           NEW pc \in {"unborn", "serving", "dead"} \cup Startup \cup Exit
    PROVE  /\ [r EXCEPT !.pc = pc] \in DaemonState
           /\ [r EXCEPT !.hung = b] \in DaemonState
           /\ [r EXCEPT !.current = b] \in DaemonState
           /\ [r EXCEPT !.pc = pc, !.current = b] \in DaemonState
BY DEF DaemonState

LEMMA IdleTyped == IdleClient \in ClientState
BY DEF IdleClient, ClientState

LEMMA StepTyped ==
    ASSUME TypeOK, NEW d \in Daemons,
           NEW pc \in {"unborn", "serving", "dead"} \cup Startup \cup Exit, Step(d, pc)
    PROVE  /\ daemon' \in [Daemons -> DaemonState]
           /\ daemon'[d].pc = pc
           /\ \A e \in Daemons \ {d} : daemon'[e] = daemon[e]
<1>1. daemon \in [Daemons -> DaemonState] /\ daemon[d] \in DaemonState
  BY DEF TypeOK
<1> DEFINE r == [daemon[d] EXCEPT !.pc = pc]
<1>2. r \in DaemonState
  BY <1>1, DaemonRecords
<1>3. r.pc = pc
  BY <1>1 DEF DaemonState
<1>4. daemon' = [daemon EXCEPT ![d] = r]
  BY DEF Step
<1> HIDE DEF r
<1>5. QED
  BY <1>1, <1>2, <1>3, <1>4

LEMMA DisturbedTyped ==
    ASSUME TypeOK
    PROVE  /\ Disturbed(client) \in [Clients -> ClientState]
           /\ \A c \in Clients : /\ Disturbed(client)[c].pc = client[c].pc
                                 /\ Disturbed(client)[c].target = client[c].target
<1>1. ASSUME NEW c \in Clients
      PROVE  /\ [client[c] EXCEPT !.alone = FALSE] \in ClientState
             /\ [client[c] EXCEPT !.alone = FALSE].pc = client[c].pc
             /\ [client[c] EXCEPT !.alone = FALSE].target = client[c].target
  <2>1. client[c] \in ClientState
    BY DEF TypeOK
  <2>2. [client[c] EXCEPT !.alone = FALSE] \in ClientState
    <3> DEFINE R == ClientState
    <3>1. \A q \in R : [q EXCEPT !.alone = FALSE] \in R
      <4> TAKE q \in R
      <4>1. FALSE \in BOOLEAN
        OBVIOUS
      <4>2. Nobody \in Daemons \cup {Nobody} /\ "idle" \in ClientPc /\ "call" \in {"probe", "call", "spawn"}
        BY DEF ClientPc
      <4>3. QED
        BY <4>1, <4>2, ClientRecords
    <3>2. QED
      BY <2>1, <3>1
  <2>3. QED
    BY <2>1, <2>2 DEF ClientState
<1>2. Disturbed(client) = [c \in Clients |-> [client[c] EXCEPT !.alone = FALSE]]
  BY DEF Disturbed
<1>3. QED
  BY <1>1, <1>2

\* Typed says nothing but types and targets: a step of a daemon keeps the
\* clients, up to Disturbed, and a step of a client keeps its own target.
LEMMA DaemonStepTyped ==
    ASSUME Typed, NEW d \in Daemons,
           NEW pc \in {"unborn", "serving", "dead"} \cup Startup \cup Exit, Step(d, pc),
           lock' \in Daemons \cup Clients \cup {Nobody}, pidfile' \in Daemons \cup {Nobody},
           socket' \in Daemons \cup {Nobody}, faults' \in 0..MaxFaults,
           client' = client \/ client' = Disturbed(client)
    PROVE  Typed'
<1>1. daemon' \in [Daemons -> DaemonState]
  BY StepTyped DEF Typed
<1>2. client' \in [Clients -> ClientState] /\ Targets'
  BY DisturbedTyped DEF Typed, TypeOK, Targets
<1>3. QED
  BY <1>1, <1>2 DEF Typed, TypeOK

LEMMA ClientStepTyped ==
    ASSUME Typed, NEW c \in Clients, NEW r \in ClientState,
           r.pc \in {"reap", "wait"} => r.target \in Daemons,
           client' = [client EXCEPT ![c] = r],
           lock' \in Daemons \cup Clients \cup {Nobody}, socket' \in Daemons \cup {Nobody},
           daemon' \in [Daemons -> DaemonState],
           UNCHANGED <<pidfile, faults>>
    PROVE  Typed'
BY ClientUpdate DEF Typed, TypeOK

\* The same for the many actions that only move on.
LEMMA GotoTyped ==
    ASSUME Typed, NEW c \in Clients, NEW pc \in ClientPc, Goto(c, pc),
           pc # "reap", pc = "wait" => client[c].target \in Daemons,
           lock' \in Daemons \cup Clients \cup {Nobody}, socket' \in Daemons \cup {Nobody},
           daemon' \in [Daemons -> DaemonState],
           UNCHANGED <<pidfile, faults>>
    PROVE  Typed'
<1> DEFINE r == [client[c] EXCEPT !.pc = pc]
<1>1. client[c] \in ClientState
  BY DEF Typed, TypeOK
<1>2. r \in ClientState
  <2>1. Nobody \in Daemons \cup {Nobody} /\ FALSE \in BOOLEAN /\ "call" \in {"probe", "call", "spawn"}
    OBVIOUS
  <2>2. QED
    BY <1>1, <2>1, ClientRecords
<1>3. r.pc = pc /\ r.target = client[c].target
  BY <1>1 DEF ClientState
<1>4. client' = [client EXCEPT ![c] = r]
  BY DEF Goto
<1> HIDE DEF r
<1>5. QED
  BY <1>2, <1>3, <1>4, ClientStepTyped

LEMMA TypedInit == Init => Typed
<1> SUFFICES ASSUME Init PROVE Typed
  OBVIOUS
<1>1. /\ socket \in Daemons \cup {Nobody} /\ lock = Nobody /\ pidfile = Nobody
      /\ faults \in 0..MaxFaults
  BY LifecycleConstants DEF Init
<1>2. client \in [Clients -> ClientState] /\ Targets
  BY IdleTyped DEF Init, Targets, IdleClient
<1>3. daemon \in [Daemons -> DaemonState]
  BY DEF Init, DaemonState
<1>4. QED
  BY <1>1, <1>2, <1>3 DEF Typed, TypeOK

LEMMA ServeTyped ==
    ASSUME Typed, NEW d \in Daemons, Serve(d)
    PROVE  Typed'
<1> USE DEF Startup, Exit
<1>1. CASE Acquire(d)
  <2>1. CASE lock = Nobody
    BY <1>1, <2>1, DaemonStepTyped DEF Acquire, Typed, TypeOK
  <2>2. CASE lock # Nobody
    BY <1>1, <2>2, DaemonStepTyped DEF Acquire, Typed, TypeOK
  <2>3. QED
    BY <2>1, <2>2
<1>2. CASE AlreadyServing(d)
  <2>1. CASE Dies(d)
    BY <1>2, <2>1, DaemonStepTyped DEF AlreadyServing, Dies, Typed, TypeOK
  <2>2. CASE daemon' = [daemon EXCEPT ![d] = [@ EXCEPT !.pc = "owning", !.current = TRUE]]
    <3> DEFINE r == [daemon[d] EXCEPT !.pc = "owning", !.current = TRUE]
    <3>1. daemon[d] \in DaemonState /\ TRUE \in BOOLEAN
      BY DEF Typed, TypeOK
    <3>2. r \in DaemonState
      BY <3>1, DaemonRecords
    <3>3. daemon' = [daemon EXCEPT ![d] = r]
      BY <2>2
    <3> HIDE DEF r
    <3>4. daemon' \in [Daemons -> DaemonState]
      BY <3>2, <3>3 DEF Typed, TypeOK
    <3>5. UNCHANGED <<pidfile, socket, client, faults>> /\ lock' \in {lock, Nobody}
      BY <1>2 DEF AlreadyServing, Dies
    <3>6. QED
      BY <3>4, <3>5 DEF Typed, TypeOK, Targets
  <2>3. QED
    BY <1>2, <2>1, <2>2 DEF AlreadyServing
<1>3. CASE Truncate(d)
  BY <1>3, DaemonStepTyped DEF Truncate, Typed, TypeOK
<1>4. CASE WriteOwner(d)
  BY <1>4, DaemonStepTyped DEF WriteOwner, Typed, TypeOK
<1>5. CASE Clear(d)
  BY <1>5, DaemonStepTyped DEF Clear, Typed, TypeOK
<1>6. CASE Bind(d)
  BY <1>6, DaemonStepTyped DEF Bind, Typed, TypeOK
<1>7. CASE CheckOwner(d)
  <2>1. CASE Step(d, "unlinking")
    BY <1>7, <2>1, DaemonStepTyped DEF CheckOwner, Typed, TypeOK
  <2>2. CASE Step(d, "releasing")
    BY <1>7, <2>2, DaemonStepTyped DEF CheckOwner, Typed, TypeOK
  <2>3. QED
    BY <1>7, <2>1, <2>2 DEF CheckOwner
<1>8. CASE ExitUnlink(d)
  BY <1>8, DaemonStepTyped DEF ExitUnlink, Typed, TypeOK
<1>9. CASE Release(d)
  BY <1>9, DaemonStepTyped DEF Release, Dies, Typed, TypeOK
<1>10. QED
  BY <1>1, <1>2, <1>3, <1>4, <1>5, <1>6, <1>7, <1>8, <1>9 DEF Serve

LEMMA EnvironmentTyped ==
    ASSUME Typed, NEW d \in Daemons,
           Killed(d) \/ Hang(d) \/ Idle(d) \/ Launch(d)
    PROVE  Typed'
<1> USE DEF Startup, Exit
<1>1. faults' \in 0..MaxFaults /\ client' = Disturbed(client)
  BY LifecycleConstants DEF Killed, Hang, Idle, Launch, Fault, Typed, TypeOK
<1>2. CASE Killed(d)
  BY <1>1, <1>2, DaemonStepTyped DEF Killed, Dies, Typed, TypeOK
<1>3. CASE Idle(d)
  BY <1>1, <1>3, DaemonStepTyped DEF Idle, Typed, TypeOK
<1>4. CASE Launch(d)
  BY <1>1, <1>4, DaemonStepTyped DEF Launch, Typed, TypeOK
<1>5. client' \in [Clients -> ClientState] /\ Targets'
  BY <1>1, DisturbedTyped DEF Typed, TypeOK, Targets
<1>6. CASE Hang(d)
  <2> DEFINE r == [daemon[d] EXCEPT !.hung = TRUE]
  <2>1. daemon[d] \in DaemonState /\ TRUE \in BOOLEAN /\ daemon[d].pc \in {"unborn", "serving", "dead"} \cup Startup \cup Exit
    BY DEF Typed, TypeOK, DaemonState
  <2>2. r \in DaemonState
    BY <2>1, DaemonRecords
  <2>3. daemon' = [daemon EXCEPT ![d] = r]
    BY <1>6 DEF Hang
  <2> HIDE DEF r
  <2>4. QED
    BY <1>1, <1>5, <1>6, <2>2, <2>3 DEF Hang, Typed, TypeOK
<1>7. QED
  BY <1>2, <1>3, <1>4, <1>6

LEMMA UpgradeTyped ==
    ASSUME Typed, Upgrade
    PROVE  Typed'
<1>1. faults' \in 0..MaxFaults /\ client' = Disturbed(client)
  BY LifecycleConstants DEF Upgrade, Fault, Typed, TypeOK
<1>2. client' \in [Clients -> ClientState] /\ Targets'
  BY <1>1, DisturbedTyped DEF Typed, TypeOK, Targets
<1>3. ASSUME NEW e \in Daemons PROVE [daemon[e] EXCEPT !.current = FALSE] \in DaemonState
  <2>1. daemon[e] \in DaemonState /\ FALSE \in BOOLEAN /\ daemon[e].pc \in {"unborn", "serving", "dead"} \cup Startup \cup Exit
    BY DEF Typed, TypeOK, DaemonState
  <2>2. QED
    BY <2>1, DaemonRecords
<1>4. daemon' \in [Daemons -> DaemonState]
  BY <1>3 DEF Upgrade
<1>5. QED
  BY <1>1, <1>2, <1>4 DEF Upgrade, Typed, TypeOK

\* The other updates the actions of a client make.
SetHealth(c, pc, h) == client' = [client EXCEPT ![c] = [@ EXCEPT !.pc = pc, !.health = h]]
SetFresh(c, pc, b)  == client' = [client EXCEPT ![c] = [@ EXCEPT !.pc = pc, !.fresh = b]]
SetTarget(c, pc, h) == client' = [client EXCEPT ![c] = [@ EXCEPT !.pc = pc, !.target = h]]
SetThen(c, pc, t)   == client' = [client EXCEPT ![c] = [@ EXCEPT !.pc = pc, !.then = t]]

Frame ==
    /\ lock' \in Daemons \cup Clients \cup {Nobody}
    /\ socket' \in Daemons \cup {Nobody}
    /\ daemon' \in [Daemons -> DaemonState]
    /\ UNCHANGED <<pidfile, faults>>

LEMMA SetHealthTyped ==
    ASSUME Typed, Frame, NEW c \in Clients, NEW pc \in ClientPc, NEW v \in Daemons \cup {Nobody},
           pc # "wait", pc # "reap", SetHealth(c, pc, v)
    PROVE  Typed'
<1> DEFINE r == [client[c] EXCEPT !.pc = pc, !.health = v]
<1>1. client[c] \in ClientState
  BY DEF Typed, TypeOK
<1>2. FALSE \in BOOLEAN /\ "call" \in {"probe", "call", "spawn"}
  OBVIOUS
<1>3. r \in ClientState
  BY <1>1, <1>2, ClientRecords
<1>4. r.pc = pc
  BY <1>1 DEF ClientState
<1>5. client' = [client EXCEPT ![c] = r]
  BY DEF SetHealth
<1> HIDE DEF r
<1>6. QED
  BY <1>3, <1>4, <1>5, ClientStepTyped DEF Frame

LEMMA SetFreshTyped ==
    ASSUME Typed, Frame, NEW c \in Clients, NEW pc \in ClientPc, NEW v \in BOOLEAN,
           pc # "wait", pc # "reap", SetFresh(c, pc, v)
    PROVE  Typed'
<1> DEFINE r == [client[c] EXCEPT !.pc = pc, !.fresh = v]
<1>1. client[c] \in ClientState
  BY DEF Typed, TypeOK
<1>2. Nobody \in Daemons \cup {Nobody} /\ "call" \in {"probe", "call", "spawn"}
  OBVIOUS
<1>3. r \in ClientState
  BY <1>1, <1>2, ClientRecords
<1>4. r.pc = pc
  BY <1>1 DEF ClientState
<1>5. client' = [client EXCEPT ![c] = r]
  BY DEF SetFresh
<1> HIDE DEF r
<1>6. QED
  BY <1>3, <1>4, <1>5, ClientStepTyped DEF Frame

LEMMA SetTargetTyped ==
    ASSUME Typed, Frame, NEW c \in Clients, NEW pc \in ClientPc, NEW v \in Daemons \cup {Nobody},
           pc # "wait", pc = "reap" => v \in Daemons, SetTarget(c, pc, v)
    PROVE  Typed'
<1> DEFINE r == [client[c] EXCEPT !.pc = pc, !.target = v]
<1>1. client[c] \in ClientState
  BY DEF Typed, TypeOK
<1>2. FALSE \in BOOLEAN /\ "call" \in {"probe", "call", "spawn"}
  OBVIOUS
<1>3. r \in ClientState
  BY <1>1, <1>2, ClientRecords
<1>4. r.pc = pc /\ r.target = v
  BY <1>1 DEF ClientState
<1>5. client' = [client EXCEPT ![c] = r]
  BY DEF SetTarget
<1> HIDE DEF r
<1>6. QED
  BY <1>3, <1>4, <1>5, ClientStepTyped DEF Frame

LEMMA SetThenTyped ==
    ASSUME Typed, Frame, NEW c \in Clients, NEW pc \in ClientPc, NEW v \in {"probe", "call", "spawn"},
           pc # "wait", pc # "reap", SetThen(c, pc, v)
    PROVE  Typed'
<1> DEFINE r == [client[c] EXCEPT !.pc = pc, !.then = v]
<1>1. client[c] \in ClientState
  BY DEF Typed, TypeOK
<1>2. FALSE \in BOOLEAN /\ Nobody \in Daemons \cup {Nobody}
  OBVIOUS
<1>3. r \in ClientState
  BY <1>1, <1>2, ClientRecords
<1>4. r.pc = pc
  BY <1>1 DEF ClientState
<1>5. client' = [client EXCEPT ![c] = r]
  BY DEF SetThen
<1> HIDE DEF r
<1>6. QED
  BY <1>3, <1>4, <1>5, ClientStepTyped DEF Frame

LEMMA ProceedTyped ==
    ASSUME Typed, NEW c \in Clients, Proceed(c)
    PROVE  Typed'
<1> USE DEF ClientPc
<1>1. /\ client[c] \in ClientState
      /\ client[c].target \in Daemons \cup {Nobody}
      /\ client[c].health \in Daemons \cup {Nobody}
      /\ client[c].then \in {"probe", "call", "spawn"}
      /\ daemon \in [Daemons -> DaemonState]
      /\ lock \in Daemons \cup Clients \cup {Nobody}
      /\ c \in Daemons \cup Clients \cup {Nobody}
      /\ socket \in Daemons \cup {Nobody} /\ pidfile \in Daemons \cup {Nobody}
  BY DEF Typed, TypeOK, ClientState
<1>2. CASE Ping(c)
  <2>1. Frame
    BY <1>1, <1>2 DEF Ping, Frame
  <2>2. CASE SetHealth(c, "probe", socket)
    BY <1>1, <2>1, <2>2, SetHealthTyped DEF Frame
  <2>3. CASE Goto(c, "probe")
    BY <1>1, <2>1, <2>3, GotoTyped DEF Frame
  <2>4. CASE SetThen(c, "check", "probe")
    BY <1>1, <2>1, <2>4, SetThenTyped DEF Frame
  <2>5. QED
    BY <1>2, <2>2, <2>3, <2>4 DEF Ping, SetHealth, SetThen
<1>3. CASE Probe(c)
  <2> DEFINE pc == IF lock = Nobody THEN "release" ELSE "read"
  <2> DEFINE b == client[c].health # Nobody /\ daemon[client[c].health].current
  <2>1. pc \in ClientPc /\ pc \notin {"reap", "wait"}
    OBVIOUS
  <2>2. b \in BOOLEAN
    BY <1>1 DEF DaemonState
  <2>3. SetFresh(c, pc, b)
    BY <1>3 DEF Probe, SetFresh
  <2>4. Frame
    BY <1>1, <1>3 DEF Probe, Frame
  <2> HIDE DEF pc, b
  <2>5. QED
    BY <2>1, <2>2, <2>3, <2>4, SetFreshTyped
<1>4. CASE ProbeRelease(c)
  BY <1>1, <1>4, GotoTyped DEF ProbeRelease
<1>5. CASE ReadHolder(c)
  <2> DEFINE h == IF pidfile # Nobody /\ Alive(pidfile) THEN pidfile ELSE Nobody
  <2>1. h \in Daemons \cup {Nobody}
    BY <1>1
  <2>2. SetTarget(c, "decide", h)
    BY <1>5 DEF ReadHolder, SetTarget
  <2>3. Frame
    BY <1>1, <1>5 DEF ReadHolder, Frame
  <2> HIDE DEF h
  <2>4. QED
    BY <2>1, <2>2, <2>3, SetTargetTyped
<1>6. CASE Decide(c)
  <2> DEFINE answered == client[c].health
  <2> DEFINE holder == client[c].target
  <2> DEFINE h == IF holder # Nobody THEN holder ELSE answered
  <2>1. Frame
    BY <1>1, <1>6 DEF Decide, Frame
  <2>2. CASE SetTarget(c, "done", answered)
    BY <1>1, <2>1, <2>2, SetTargetTyped
  <2>3. CASE Goto(c, "call")
    BY <2>1, <2>3, GotoTyped DEF Frame
  <2>4. CASE ~(answered = Nobody /\ holder = Nobody) /\ SetTarget(c, "reap", h)
    <3>1. h \in Daemons
      BY <1>1, <2>4
    <3> HIDE DEF h
    <3>2. QED
      BY <2>1, <2>4, <3>1, SetTargetTyped
  <2>5. QED
    BY <1>6, <2>2, <2>3, <2>4 DEF Decide, SetTarget, Goto
<1>7. CASE Terminate(c)
  <2>1. client[c].target \in Daemons
    BY <1>7 DEF Terminate, Does, Typed, Targets
  <2>2. daemon' \in [Daemons -> DaemonState]
    BY <1>1, <1>7, <2>1, StepTyped DEF Terminate, Dies, Typed, Startup, Exit
  <2>3. Frame
    BY <1>1, <1>7, <2>2 DEF Terminate, Dies, Frame
  <2>4. QED
    BY <1>7, <2>1, <2>3, GotoTyped DEF Terminate, Frame
<1>8. CASE Reaped(c)
  <2>1. client[c].target \in Daemons
    BY <1>8 DEF Reaped, Does, Typed, Targets
  <2>2. daemon' \in [Daemons -> DaemonState]
    BY <1>1, <1>8, <2>1, StepTyped DEF Reaped, Dies, Typed, Startup, Exit
  <2>3. Frame
    BY <1>1, <1>8, <2>2 DEF Reaped, Dies, Frame
  <2>4. SetThen(c, "check", "call")
    BY <1>8 DEF Reaped, SetThen
  <2>5. QED
    BY <2>3, <2>4, SetThenTyped
<1>9. CASE Check(c)
  <2> DEFINE pc == IF MayUnlink(c) THEN "unlink" ELSE client[c].then
  <2>1. pc \in ClientPc /\ pc \notin {"reap", "wait"}
    BY <1>1
  <2>2. Goto(c, pc)
    BY <1>9 DEF Check
  <2> HIDE DEF pc
  <2>3. QED
    BY <1>1, <1>9, <2>1, <2>2, GotoTyped DEF Check
<1>10. CASE Unlink(c)
  <2>1. client[c].then \in ClientPc /\ client[c].then \notin {"reap", "wait"}
    BY <1>1
  <2>2. QED
    BY <1>1, <1>10, <2>1, GotoTyped DEF Unlink
<1>11. CASE Call(c)
  <2>1. Frame
    BY <1>1, <1>11 DEF Call, Frame
  <2>2. CASE SetTarget(c, "done", socket)
    BY <1>1, <2>1, <2>2, SetTargetTyped DEF Frame
  <2>3. CASE Goto(c, "spawn")
    BY <1>1, <2>1, <2>3, GotoTyped DEF Frame
  <2>4. CASE SetThen(c, "check", "spawn")
    BY <1>1, <2>1, <2>4, SetThenTyped DEF Frame
  <2>5. QED
    BY <1>11, <2>2, <2>3, <2>4 DEF Call, SetTarget, SetThen
<1>12. CASE Spawn(c)
  <2>1. daemon' \in [Daemons -> DaemonState]
    BY <1>12, StepTyped DEF Spawn, Typed, Startup, Exit
  <2>2. QED
    BY <1>1, <1>12, <2>1, GotoTyped DEF Spawn
<1>13. CASE Poll(c)
  <2>1. Frame
    BY <1>1, <1>13 DEF Poll, Frame
  <2>2. CASE SetTarget(c, "done", socket)
    BY <1>1, <2>1, <2>2, SetTargetTyped DEF Frame
  <2>3. CASE Goto(c, "failed")
    BY <1>1, <2>1, <2>3, GotoTyped DEF Frame
  <2>4. QED
    BY <1>13, <2>2, <2>3 DEF Poll, SetTarget
<1>14. QED
  BY <1>2, <1>3, <1>4, <1>5, <1>6, <1>7, <1>8, <1>9, <1>10, <1>11, <1>12, <1>13 DEF Proceed

LEMMA BeginTyped ==
    ASSUME Typed, NEW c \in Clients, Ensure(c) \/ Request(c)
    PROVE  Typed'
<1>1. Disturbed(client) \in [Clients -> ClientState]
  BY DisturbedTyped DEF Typed
<1>2. PICK r \in ClientState : /\ client' = [Disturbed(client) EXCEPT ![c] = r]
                               /\ r.pc \in {"ping", "call"}
  <2> DEFINE alone == Settled /\ \A b \in Clients : ~Active(b)
  <2> DEFINE e == [IdleClient EXCEPT !.pc = "ping", !.alone = alone]
  <2> DEFINE q == [IdleClient EXCEPT !.pc = "call"]
  <2>1. alone \in BOOLEAN /\ Nobody \in Daemons \cup {Nobody}
    OBVIOUS
  <2>2. "ping" \in ClientPc /\ "call" \in ClientPc /\ "call" \in {"probe", "call", "spawn"}
    BY DEF ClientPc
  <2> HIDE DEF alone
  <2>3. e \in ClientState /\ q \in ClientState
    BY <2>1, <2>2, IdleTyped, ClientRecords
  <2>4. e.pc = "ping" /\ q.pc = "call"
    BY IdleTyped DEF ClientState
  <2>5. \/ client' = [Disturbed(client) EXCEPT ![c] = e]
        \/ client' = [Disturbed(client) EXCEPT ![c] = q]
    BY DEF Ensure, Request, alone
  <2> HIDE DEF e, q
  <2>6. QED
    BY <2>3, <2>4, <2>5
<1>3. \A b \in Clients \ {c} : client'[b] = Disturbed(client)[b]
  BY <1>1, <1>2
<1>4. client'[c] = r /\ client' \in [Clients -> ClientState]
  BY <1>1, <1>2
<1>5. Targets'
  BY <1>2, <1>3, <1>4, DisturbedTyped DEF Typed, Targets
<1>6. QED
  BY <1>4, <1>5 DEF Ensure, Request, Typed, TypeOK

LEMMA TypedStep == Typed /\ [Next]_vars => Typed'
<1> SUFFICES ASSUME Typed, [Next]_vars PROVE Typed'
  OBVIOUS
<1>1. CASE UNCHANGED vars
  BY <1>1 DEF vars, Typed, TypeOK, Targets
<1>2. ASSUME NEW d \in Daemons, Serve(d) PROVE Typed'
  BY <1>2, ServeTyped
<1>3. ASSUME NEW d \in Daemons, Killed(d) \/ Hang(d) \/ Idle(d) \/ Launch(d) PROVE Typed'
  BY <1>3, EnvironmentTyped
<1>4. ASSUME NEW c \in Clients, Ensure(c) \/ Request(c) PROVE Typed'
  BY <1>4, BeginTyped
<1>5. ASSUME NEW c \in Clients, Proceed(c) PROVE Typed'
  BY <1>5, ProceedTyped
<1>6. CASE Upgrade
  BY <1>6, UpgradeTyped
<1>7. QED
  BY <1>1, <1>2, <1>3, <1>4, <1>5, <1>6 DEF Next

\* Every reachable state is well-formed, whatever daemons, clients and faults.
THEOREM TypeCorrect == Spec => []TypeOK
<1>1. Spec => []Typed
  BY TypedInit, TypedStep, PTL DEF Spec
<1>2. Typed => TypeOK
  BY DEF Typed
<1>3. QED
  BY <1>1, <1>2, PTL

-----------------------------------------------------------------------------
(* Exclusion                                                               *)

\* Whoever holds the lock is not a daemon and a client at once.
LEMMA HoldersApart ==
    ASSUME Inv, NEW c \in Clients, client[c].pc = "release", NEW d \in Daemons \ Legacy
    PROVE  /\ lock = c /\ lock # d
           /\ daemon[d].pc \notin {"locked", "owning", "writing"} \cup Owning
BY LifecycleConstants DEF Inv, Probes, Holders

LEMMA HoldersInit == Init => Inv
<1> SUFFICES ASSUME Init PROVE Inv
  OBVIOUS
<1>1. Typed
  BY TypedInit
<1>2. Old
  BY LifecycleConstants DEF Init, Old, Exit
<1>3. Probes
  BY DEF Init, Probes, IdleClient
<1>4. \A d \in Daemons \ Legacy : daemon[d].pc \in {"serving", "unborn"} /\ (daemon[d].pc = "serving" => d = socket)
  BY DEF Init
<1>5. socket \in Legacy \cup {Nobody} /\ Nobody \notin Daemons
  BY LifecycleConstants DEF Init
<1>6. Holders
  BY <1>4, <1>5 DEF Holders, Owning, Exit
<1>7. QED
  BY <1>1, <1>2, <1>3, <1>6 DEF Inv

\* What a daemon's step to pc has to respect.
LEMMA DaemonStepHolds ==
    ASSUME Inv, NEW d \in Daemons, NEW pc \in {"serving", "dead"} \cup Startup \cup Exit,
           /\ daemon'[d].pc = pc
           /\ \A e \in Daemons \ {d} : daemon'[e].pc = daemon[e].pc,
           \A c \in Clients : client'[c].pc = "release" => client[c].pc = "release",
           d \in Legacy => pc \in {"serving", "dead"} \cup Exit,
           \/ UNCHANGED lock
           \/ lock = Nobody /\ lock' = d
           \/ lock = d /\ lock' = Nobody /\ pc = "dead",
           UNCHANGED pidfile \/ (lock = d /\ pidfile' \in {d, Nobody}),
           UNCHANGED socket \/ socket' = Nobody \/ (socket' = d /\ lock = d),
           d \notin Legacy =>
               /\ pc \in {"locked", "owning", "writing"} \cup Owning => lock' = d
               /\ pc \in Owning => pidfile' = d
               /\ pc = "binding" => socket' = Nobody
               /\ pc \in {"serving"} \cup Exit => socket' \in {d, Nobody}
    PROVE  Old' /\ Probes' /\ Holders'
<1>1. Old'
  <2>1. ASSUME NEW e \in Legacy PROVE daemon'[e].pc \in {"serving", "dead"} \cup Exit
    BY LifecycleConstants DEF Inv, Old
  <2>2. QED
    BY <2>1 DEF Old
<1>2. Probes'
  BY LifecycleConstants DEF Inv, Probes
<1>3. ASSUME NEW e \in Daemons \ Legacy
      PROVE  /\ daemon'[e].pc \in {"locked", "owning", "writing"} \cup Owning => lock' = e
             /\ daemon'[e].pc \in Owning => pidfile' = e
             /\ daemon'[e].pc = "binding" => socket' = Nobody
             /\ daemon'[e].pc \in {"serving"} \cup Exit => socket' \in {e, Nobody}
  <2>1. CASE e = d
    BY <2>1
  <2>2. CASE e # d
    <3>1. daemon'[e].pc = daemon[e].pc
      BY <2>2
    <3>2. e # Nobody
      BY LifecycleConstants
    <3>3. QED
      BY <2>2, <3>1, <3>2 DEF Inv, Holders, Owning
  <2>3. QED
    BY <2>1, <2>2
<1>4. Holders'
  BY <1>3 DEF Holders
<1>5. QED
  BY <1>1, <1>2, <1>4

LEMMA ServeHolds ==
    ASSUME Inv, NEW d \in Daemons, Serve(d)
    PROVE  Old' /\ Probes' /\ Holders'
<1> USE DEF Startup, Exit, Owning
<1>1. /\ TypeOK /\ Nobody # d /\ client' = client
      /\ d \in Legacy => daemon[d].pc \in {"serving", "dead"} \cup Exit
      /\ d \notin Legacy =>
            /\ daemon[d].pc \in {"locked", "owning", "writing"} \cup Owning => lock = d
            /\ daemon[d].pc \in Owning => pidfile = d
            /\ daemon[d].pc = "binding" => socket = Nobody
            /\ daemon[d].pc \in {"serving"} \cup Exit => socket \in {d, Nobody}
  BY LifecycleConstants DEF Inv, Typed, Old, Holders, Serve, Acquire, AlreadyServing,
     Truncate, WriteOwner, Clear, Bind, CheckOwner, ExitUnlink, Release
<1>2. CASE Acquire(d)
  <2>1. CASE lock = Nobody
    <3>1. daemon'[d].pc = "locked" /\ \A e \in Daemons \ {d} : daemon'[e].pc = daemon[e].pc
      BY <1>1, <1>2, <2>1, StepTyped DEF Acquire
    <3>2. QED
      BY <1>1, <1>2, <2>1, <3>1, DaemonStepHolds DEF Acquire, At
  <2>2. CASE lock # Nobody
    <3>1. daemon'[d].pc = "dead" /\ \A e \in Daemons \ {d} : daemon'[e].pc = daemon[e].pc
      BY <1>1, <1>2, <2>2, StepTyped DEF Acquire
    <3>2. QED
      BY <1>1, <1>2, <2>2, <3>1, DaemonStepHolds DEF Acquire, At
  <2>3. QED
    BY <2>1, <2>2
<1>3. CASE AlreadyServing(d)
  <2>1. CASE Step(d, "dead")
    <3>1. daemon'[d].pc = "dead" /\ \A e \in Daemons \ {d} : daemon'[e].pc = daemon[e].pc
      BY <1>1, <2>1, StepTyped
    <3>2. QED
      BY <1>1, <1>3, <3>1, DaemonStepHolds DEF AlreadyServing, At, Dies, Step, MayUnlink
  <2>2. CASE daemon' = [daemon EXCEPT ![d] = [@ EXCEPT !.pc = "owning", !.current = TRUE]] /\ UNCHANGED lock
    <3>1. daemon'[d].pc = "owning" /\ \A e \in Daemons \ {d} : daemon'[e].pc = daemon[e].pc
      BY <1>1, <2>2 DEF TypeOK, DaemonState
    <3>2. QED
      BY <1>1, <1>3, <2>2, <3>1, DaemonStepHolds DEF AlreadyServing, At
  <2>3. QED
    BY <1>3, <2>1, <2>2 DEF AlreadyServing, Dies
<1>4. CASE Truncate(d)
  <2>1. CASE Step(d, "writing")
    <3>1. daemon'[d].pc = "writing" /\ \A e \in Daemons \ {d} : daemon'[e].pc = daemon[e].pc
      BY <1>1, <2>1, StepTyped
    <3>2. QED
      BY <1>1, <1>4, <3>1, DaemonStepHolds DEF Truncate, At, Dies, Step, MayUnlink
  <2>2. QED
    BY <1>4, <2>1 DEF Truncate, Dies
<1>5. CASE WriteOwner(d)
  <2>1. CASE Step(d, "clearing")
    <3>1. daemon'[d].pc = "clearing" /\ \A e \in Daemons \ {d} : daemon'[e].pc = daemon[e].pc
      BY <1>1, <2>1, StepTyped
    <3>2. QED
      BY <1>1, <1>5, <3>1, DaemonStepHolds DEF WriteOwner, At, Dies, Step, MayUnlink
  <2>2. QED
    BY <1>5, <2>1 DEF WriteOwner, Dies
<1>6. CASE Clear(d)
  <2>1. CASE Step(d, "binding")
    <3>1. daemon'[d].pc = "binding" /\ \A e \in Daemons \ {d} : daemon'[e].pc = daemon[e].pc
      BY <1>1, <2>1, StepTyped
    <3>2. QED
      BY <1>1, <1>6, <3>1, DaemonStepHolds DEF Clear, At, Dies, Step, MayUnlink
  <2>2. QED
    BY <1>6, <2>1 DEF Clear, Dies
<1>7. CASE Bind(d)
  <2>1. CASE Step(d, "serving")
    <3>1. daemon'[d].pc = "serving" /\ \A e \in Daemons \ {d} : daemon'[e].pc = daemon[e].pc
      BY <1>1, <2>1, StepTyped
    <3>2. QED
      BY <1>1, <1>7, <3>1, DaemonStepHolds DEF Bind, At, Dies, Step, MayUnlink
  <2>2. QED
    BY <1>7, <2>1 DEF Bind, Dies
<1>8. CASE CheckOwner(d)
  <2>1. CASE Step(d, "unlinking")
    <3>1. daemon'[d].pc = "unlinking" /\ \A e \in Daemons \ {d} : daemon'[e].pc = daemon[e].pc
      BY <1>1, <2>1, StepTyped
    <3>2. QED
      BY <1>1, <1>8, <3>1, DaemonStepHolds DEF CheckOwner, At, Dies, Step, MayUnlink
  <2>2. CASE Step(d, "releasing")
    <3>1. daemon'[d].pc = "releasing" /\ \A e \in Daemons \ {d} : daemon'[e].pc = daemon[e].pc
      BY <1>1, <2>2, StepTyped
    <3>2. QED
      BY <1>1, <1>8, <3>1, DaemonStepHolds DEF CheckOwner, At, Dies, Step, MayUnlink
  <2>3. QED
    BY <1>8, <2>1, <2>2 DEF CheckOwner, Dies
<1>9. CASE ExitUnlink(d)
  <2>1. CASE Step(d, "releasing")
    <3>1. daemon'[d].pc = "releasing" /\ \A e \in Daemons \ {d} : daemon'[e].pc = daemon[e].pc
      BY <1>1, <2>1, StepTyped
    <3>2. QED
      BY <1>1, <1>9, <3>1, DaemonStepHolds DEF ExitUnlink, At, Dies, Step, MayUnlink
  <2>2. QED
    BY <1>9, <2>1 DEF ExitUnlink, Dies
<1>10. CASE Release(d)
  <2>1. CASE Step(d, "dead")
    <3>1. daemon'[d].pc = "dead" /\ \A e \in Daemons \ {d} : daemon'[e].pc = daemon[e].pc
      BY <1>1, <2>1, StepTyped
    <3>2. QED
      BY <1>1, <1>10, <3>1, DaemonStepHolds DEF Release, At, Dies, Step, MayUnlink
  <2>2. QED
    BY <1>10, <2>1 DEF Release, Dies
<1>11. QED
  BY <1>2, <1>3, <1>4, <1>5, <1>6, <1>7, <1>8, <1>9, <1>10 DEF Serve

LEMMA EnvironmentHolds ==
    ASSUME Inv, NEW d \in Daemons, Killed(d) \/ Hang(d) \/ Idle(d) \/ Launch(d)
    PROVE  Old' /\ Probes' /\ Holders'
<1> USE DEF Startup, Exit, Owning
<1>1. /\ TypeOK /\ Nobody # d
      /\ \A c \in Clients : client'[c].pc = client[c].pc
      /\ d \in Legacy => daemon[d].pc \in {"serving", "dead"} \cup Exit
      /\ d \notin Legacy =>
            /\ daemon[d].pc \in {"locked", "owning", "writing"} \cup Owning => lock = d
            /\ daemon[d].pc \in Owning => pidfile = d
            /\ daemon[d].pc = "binding" => socket = Nobody
            /\ daemon[d].pc \in {"serving"} \cup Exit => socket \in {d, Nobody}
  BY LifecycleConstants, DisturbedTyped DEF Inv, Typed, Old, Holders, Killed, Hang, Idle, Launch, Fault
<1>2. CASE Killed(d)
  <2>1. daemon'[d].pc = "dead" /\ \A e \in Daemons \ {d} : daemon'[e].pc = daemon[e].pc
    BY <1>1, <1>2, StepTyped DEF Killed, Dies
  <2>2. QED
    BY <1>1, <1>2, <2>1, DaemonStepHolds DEF Killed, At, Dies
<1>3. CASE Hang(d)
  <2>1. daemon'[d].pc = "serving" /\ \A e \in Daemons \ {d} : daemon'[e].pc = daemon[e].pc
    <3>1. daemon[d] \in DaemonState /\ daemon[d].pc = "serving"
      BY <1>1, <1>3 DEF Hang, At, TypeOK
    <3>2. [daemon[d] EXCEPT !.hung = TRUE].pc = "serving"
      BY <3>1 DEF DaemonState
    <3>3. QED
      BY <1>1, <1>3, <3>2 DEF Hang, TypeOK
  <2>2. QED
    BY <1>1, <1>3, <2>1, DaemonStepHolds DEF Hang, At, Dies
<1>4. CASE Idle(d)
  <2>1. daemon'[d].pc = "closing" /\ \A e \in Daemons \ {d} : daemon'[e].pc = daemon[e].pc
    BY <1>1, <1>4, StepTyped DEF Idle, Dies
  <2>2. QED
    BY <1>1, <1>4, <2>1, DaemonStepHolds DEF Idle, At, Dies
<1>5. CASE Launch(d)
  <2>1. daemon'[d].pc = "starting" /\ \A e \in Daemons \ {d} : daemon'[e].pc = daemon[e].pc
    BY <1>1, <1>5, StepTyped DEF Launch, Dies
  <2>2. QED
    BY <1>1, <1>5, <2>1, DaemonStepHolds DEF Launch, At, Dies
<1>6. QED
  BY <1>2, <1>3, <1>4, <1>5

LEMMA DiesHolds ==
    ASSUME Inv, NEW d \in Daemons, Dies(d),
           UNCHANGED pidfile, UNCHANGED socket,
           \A c \in Clients : client'[c].pc = "release" => client[c].pc = "release"
    PROVE  Old' /\ Probes' /\ Holders'
<1>1. daemon'[d].pc = "dead" /\ \A e \in Daemons \ {d} : daemon'[e].pc = daemon[e].pc
  BY StepTyped DEF Dies, Inv, Typed
<1>2. QED
  BY <1>1, DaemonStepHolds DEF Dies, Owning, Exit

\* A step that moves no daemon, writes no pidfile and at most removes the socket.
LEMMA IdleStepHolds ==
    ASSUME Inv,
           \A d \in Daemons : daemon'[d].pc = daemon[d].pc,
           UNCHANGED pidfile, socket' \in {socket, Nobody},
           \/ /\ UNCHANGED lock
              /\ \A c \in Clients : client'[c].pc = "release" => client[c].pc = "release"
           \/ \E c \in Clients :
                 /\ lock = Nobody /\ lock' = c
                 /\ \A b \in Clients \ {c} : client'[b].pc = client[b].pc
           \/ \E c \in Clients :
                 /\ client[c].pc = "release" /\ client'[c].pc # "release" /\ lock' = Nobody
                 /\ \A b \in Clients \ {c} : client'[b].pc = client[b].pc
    PROVE  Old' /\ Probes' /\ Holders'
<1>1. Old'
  <2>1. ASSUME NEW e \in Legacy PROVE daemon'[e].pc \in {"serving", "dead"} \cup Exit
    BY LifecycleConstants DEF Inv, Old
  <2>2. QED
    BY <2>1 DEF Old
<1>2. Probes'
  BY LifecycleConstants DEF Inv, Probes
<1>3. ASSUME NEW e \in Daemons \ Legacy
      PROVE  /\ daemon'[e].pc \in {"locked", "owning", "writing"} \cup Owning => lock' = e
             /\ daemon'[e].pc \in Owning => pidfile' = e
             /\ daemon'[e].pc = "binding" => socket' = Nobody
             /\ daemon'[e].pc \in {"serving"} \cup Exit => socket' \in {e, Nobody}
  <2>1. e # Nobody /\ e \notin Clients
    BY LifecycleConstants
  <2>2. daemon[e].pc \in {"locked", "owning", "writing"} \cup Owning => lock = e /\ lock' = lock
    <3>1. SUFFICES ASSUME daemon[e].pc \in {"locked", "owning", "writing"} \cup Owning
                   PROVE  lock = e /\ lock' = lock
      OBVIOUS
    <3>2. lock = e
      BY <3>1 DEF Inv, Holders
    <3>3. \A c \in Clients : client[c].pc # "release"
      BY <3>1, HoldersApart
    <3>4. QED
      BY <2>1, <3>2, <3>3
  <2>3. QED
    BY <2>1, <2>2 DEF Inv, Holders, Owning
<1>4. Holders'
  BY <1>3 DEF Holders
<1>5. QED
  BY <1>1, <1>2, <1>4

LEMMA ClientHolds ==
    ASSUME Inv, NEW c \in Clients, Ensure(c) \/ Request(c) \/ Proceed(c)
    PROVE  Old' /\ Probes' /\ Holders'
<1> USE DEF Startup, Exit, Owning
<1>1. /\ TypeOK /\ c # Nobody /\ c \notin Daemons /\ client \in [Clients -> ClientState]
      /\ client[c].pc = "release" => lock = c
  BY LifecycleConstants DEF Inv, Typed, TypeOK, Probes
<1>2. CASE Ensure(c) \/ Request(c)
  <2>1. Disturbed(client) \in [Clients -> ClientState]
    BY <1>1, DisturbedTyped
  <2>2. \A b \in Clients \ {c} : client'[b] = Disturbed(client)[b]
    BY <1>2, <2>1 DEF Ensure, Request
  <2>3. client'[c].pc \in {"ping", "call"}
    BY <1>2, <2>1 DEF Ensure, Request, IdleClient
  <2>4. QED
    BY <1>1, <1>2, <2>2, <2>3, DisturbedTyped, IdleStepHolds DEF Ensure, Request
<1>3. CASE Proceed(c)
  <2>1. \A b \in Clients \ {c} : client'[b].pc = client[b].pc
    BY <1>1, <1>3 DEF Proceed, Ping, Probe, ProbeRelease, ReadHolder, Decide, Terminate,
       Reaped, Check, Unlink, Call, Spawn, Poll, Goto
  <2>2. CASE Probe(c)
    <3>1. lock # Nobody => client'[c].pc = "read"
      BY <1>1, <2>2 DEF Probe, ClientState
    <3>2. QED
      BY <1>1, <2>1, <2>2, <3>1, IdleStepHolds DEF Probe
  <2>3. CASE ProbeRelease(c)
    <3>1. client[c].pc = "release" /\ client'[c].pc = "decide"
      BY <1>1, <2>3 DEF ProbeRelease, Does, Goto, ClientState
    <3>2. QED
      BY <1>1, <2>1, <2>3, <3>1, IdleStepHolds DEF ProbeRelease
  <2>4. CASE Ping(c) \/ ReadHolder(c) \/ Decide(c) \/ Check(c) \/ Unlink(c) \/ Call(c) \/ Poll(c)
    <3>1. client'[c].pc # "release"
      <4>0. client[c] \in ClientState /\ client[c].then \in {"probe", "call", "spawn"}
        BY <1>1 DEF ClientState
      <4>1. CASE Ping(c)
        BY <1>1, <4>0, <4>1 DEF Ping, Goto, ClientState
      <4>2. CASE ReadHolder(c)
        BY <1>1, <4>0, <4>2 DEF ReadHolder, Goto, ClientState
      <4>3. CASE Decide(c)
        BY <1>1, <4>0, <4>3 DEF Decide, Goto, ClientState
      <4>4. CASE Check(c)
        BY <1>1, <4>0, <4>4 DEF Check, Goto, ClientState
      <4>5. CASE Unlink(c)
        BY <1>1, <4>0, <4>5 DEF Unlink, Goto, ClientState
      <4>6. CASE Call(c)
        BY <1>1, <4>0, <4>6 DEF Call, Goto, ClientState
      <4>7. CASE Poll(c)
        BY <1>1, <4>0, <4>7 DEF Poll, Goto, ClientState
      <4>8. QED
        BY <2>4, <4>1, <4>2, <4>3, <4>4, <4>5, <4>6, <4>7
    <3>2. QED
      BY <1>1, <2>1, <2>4, <3>1, IdleStepHolds
         DEF Ping, ReadHolder, Decide, Check, Unlink, Call, Poll
  <2>5. CASE Terminate(c) \/ Reaped(c)
    <3> DEFINE d == client[c].target
    <3>1. d \in Daemons /\ client'[c].pc # "release"
      BY <1>1, <2>5 DEF Terminate, Reaped, Does, Goto, Inv, Typed, Targets, ClientState
    <3>2. UNCHANGED <<pidfile, socket>>
      BY <2>5 DEF Terminate, Reaped
    <3>3. CASE Dies(d)
      BY <2>1, <3>1, <3>2, <3>3, DiesHolds
    <3>4. CASE UNCHANGED <<daemon, lock>>
      BY <2>1, <3>1, <3>2, <3>4, IdleStepHolds
    <3>5. CASE At(d, "serving") /\ Step(d, "closing") /\ UNCHANGED lock
      <4>1. daemon'[d].pc = "closing" /\ \A e \in Daemons \ {d} : daemon'[e].pc = daemon[e].pc
        BY <1>1, <3>1, <3>5, StepTyped
      <4>2. d \notin Legacy => lock = d /\ pidfile = d /\ socket \in {d, Nobody}
        BY <3>1, <3>5 DEF At, Inv, Holders
      <4> HIDE DEF d
      <4>3. QED
        BY <2>1, <3>1, <3>2, <3>5, <4>1, <4>2, DaemonStepHolds
    <3>6. QED
      BY <2>5, <3>3, <3>4, <3>5 DEF Terminate, Reaped
  <2>6. CASE Spawn(c)
    <3>1. PICK d \in Daemons : At(d, "unborn") /\ Step(d, "starting")
      BY <2>6 DEF Spawn
    <3>2. d \notin Legacy
      BY <3>1 DEF At, Inv, Old
    <3>3. daemon'[d].pc = "starting" /\ \A e \in Daemons \ {d} : daemon'[e].pc = daemon[e].pc
      BY <1>1, <3>1, StepTyped
    <3>4. client'[c].pc # "release"
      BY <1>1, <2>6 DEF Spawn, Goto, ClientState
    <3>5. QED
      BY <2>1, <2>6, <3>2, <3>3, <3>4, DaemonStepHolds DEF Spawn
  <2>7. QED
    BY <1>3, <2>2, <2>3, <2>4, <2>5, <2>6 DEF Proceed
<1>4. QED
  BY <1>2, <1>3

LEMMA HoldersStep == Inv /\ [Next]_vars => Inv'
<1> SUFFICES ASSUME Inv, [Next]_vars PROVE Inv'
  OBVIOUS
<1>1. Typed'
  BY TypedStep DEF Inv
<1>2. CASE UNCHANGED vars
  BY <1>1, <1>2 DEF vars, Inv, Old, Probes, Holders
<1>3. ASSUME NEW d \in Daemons,
             Serve(d) \/ Killed(d) \/ Hang(d) \/ Idle(d) \/ Launch(d)
      PROVE  Old' /\ Probes' /\ Holders'
  BY <1>3, ServeHolds, EnvironmentHolds
<1>4. ASSUME NEW c \in Clients, Ensure(c) \/ Request(c) \/ Proceed(c)
      PROVE  Old' /\ Probes' /\ Holders'
  BY <1>4, ClientHolds
<1>5. ASSUME Upgrade PROVE Old' /\ Probes' /\ Holders'
  <2>1. \A d \in Daemons : daemon'[d].pc = daemon[d].pc
    <3> TAKE d \in Daemons
    <3>1. daemon[d] \in DaemonState
      BY DEF Inv, Typed, TypeOK
    <3>2. QED
      BY <1>5, <3>1 DEF Upgrade, DaemonState
  <2>2. \A c \in Clients : client'[c].pc = client[c].pc
    BY <1>5, DisturbedTyped DEF Inv, Typed, Upgrade, Fault
  <2>3. QED
    BY <1>5, <2>1, <2>2, IdleStepHolds DEF Upgrade
<1>6. QED
  BY <1>1, <1>2, <1>3, <1>4, <1>5 DEF Next, Inv

LEMMA InvAlways == Spec => []Inv
BY HoldersInit, HoldersStep, PTL DEF Spec

\* A daemon that serves, or hangs, or lost its socket, is always to be found: it
\* holds the flock and the pidfile names it, until its exit is over.  For any
\* number of daemons and clients, and any faults (pidfile.py: "a socketless
\* zombie is still visible via holder_pid").
THEOREM HolderFound == Spec => []HolderIsNamed
<1>1. Inv => HolderIsNamed
  BY DEF Inv, Holders, HolderIsNamed, Owning
<1>2. QED
  BY <1>1, InvAlways, PTL

\* The exit of a daemon, however late, never unlinks the socket of another
\* (pidfile.py: the incident's third hole).
THEOREM LateExitSpares == Spec => ExitSparesOthers
<1> DEFINE Spares == \A d \in Daemons \ Legacy :
                        At(d, "unlinking") /\ socket' # socket => socket \in {d, Nobody}
<1>1. Inv => [Spares]_vars
  BY DEF Inv, Holders, At, Exit
<1>2. QED
  BY <1>1, InvAlways, PTL DEF ExitSparesOthers

-----------------------------------------------------------------------------
(* A lone ensure                                                           *)

\* Who may hold the lock and be named by the pidfile, and what a daemon that
\* hangs was before.
Files ==
    /\ lock \in Daemons => lock \notin Legacy /\ daemon[lock].pc \notin {"unborn", "starting", "dead"}
    /\ lock \in Clients => client[lock].pc = "release"
    /\ pidfile \notin Legacy
    /\ \A d \in Daemons : daemon[d].hung => daemon[d].pc \in {"serving", "dead"}

\* Nobody but d starts or exits.
SettledBut(d) == \A e \in Daemons \ {d} : daemon[e].pc \notin Startup \cup Exit

\* What the ping of c saw is still so, and what the probe made of it.
Seen(c) ==
    client[c].health # Nobody =>
        Answers(client[c].health) /\ socket = client[c].health
Known(c) ==
    /\ Seen(c)
    /\ client[c].health # Nobody /\ client[c].fresh => daemon[client[c].health].current

\* The daemon that c has spawned comes up, and finds lock and socket free.
Coming(d) ==
    /\ d \in Daemons \ Legacy
    /\ SettledBut(d)
    /\ daemon[d].pc \in Startup \cup {"serving"} /\ ~daemon[d].hung
    /\ daemon[d].pc = "starting" => lock = Nobody
    /\ daemon[d].pc \notin {"starting", "locked"} => daemon[d].current
    /\ socket = IF daemon[d].pc = "serving" THEN d ELSE Nobody

\* What holds while a lone ensure is at each of its steps.
Alone(c) ==
    LET at == client[c].pc
        answered == client[c].health
        target == client[c].target
    IN  /\ \A b \in Clients \ {c} : ~Active(b)
        /\ at \notin {"idle", "failed"}
        /\ at \notin {"wait", "poll"} => Settled
        /\ at \in {"ping", "probe", "release", "read"} => target = Nobody
        /\ at = "ping" => answered = Nobody
        /\ at = "probe" => Seen(c) /\ (answered = Nobody => socket = Nobody \/ lock # Nobody)
        /\ at = "release" => Known(c) /\ (answered = Nobody => socket = Nobody)
        /\ at = "read" => Known(c) /\ lock \in Daemons
        /\ at = "decide" =>
               /\ Known(c)
               /\ target = Nobody => lock = Nobody /\ (answered = Nobody => socket = Nobody)
               /\ target # Nobody => lock = target
        /\ at = "reap" => daemon[target].pc = "serving" /\ lock \in {target, Nobody}
        /\ at = "wait" =>
               /\ SettledBut(target) /\ daemon[target].pc \notin Startup \cup {"unborn"}
               /\ lock \in {target, Nobody}
        /\ at \in {"check", "unlink"} =>
               \/ client[c].then = "probe" /\ answered = Nobody /\ target = Nobody
               \/ client[c].then = "call" /\ lock = Nobody
        /\ at \in {"call", "spawn"} => socket = Nobody /\ lock = Nobody
        /\ at = "poll" => \E d \in Daemons : Coming(d)
        /\ at = "done" => Answers(target) /\ socket = target /\ daemon[target].current

LoneInv == Files /\ \A c \in Clients : client[c].alone => Alone(c)

-----------------------------------------------------------------------------
(* Fields                                                                  *)

\* A step moves one daemon, and leaves what it is as it is.
LEMMA StepFields ==
    ASSUME TypeOK, NEW d \in Daemons,
           NEW pc \in {"unborn", "serving", "dead"} \cup Startup \cup Exit, Step(d, pc)
    PROVE  /\ daemon'[d].pc = pc
           /\ daemon'[d].hung = daemon[d].hung
           /\ daemon'[d].current = daemon[d].current
           /\ \A e \in Daemons \ {d} : daemon'[e] = daemon[e]
<1> DEFINE r == [daemon[d] EXCEPT !.pc = pc]
<1>1. daemon \in [Daemons -> DaemonState] /\ daemon[d] \in DaemonState
  BY DEF TypeOK
<1>2. r.pc = pc /\ r.hung = daemon[d].hung /\ r.current = daemon[d].current
  BY <1>1 DEF DaemonState
<1>3. daemon' = [daemon EXCEPT ![d] = r]
  BY DEF Step
<1> HIDE DEF r
<1>4. QED
  BY <1>1, <1>2, <1>3

\* What client c is after a step of its own.
IsNow(c, pc, health, fresh, target, then) ==
    /\ client'[c].pc = pc
    /\ client'[c].health = health
    /\ client'[c].fresh = fresh
    /\ client'[c].target = target
    /\ client'[c].then = then
    /\ client'[c].alone = client[c].alone
    /\ \A b \in Clients \ {c} : client'[b] = client[b]

LEMMA ClientFields ==
    ASSUME TypeOK, NEW c \in Clients, NEW pc, NEW v
    PROVE  /\ Goto(c, pc) =>
                IsNow(c, pc, client[c].health, client[c].fresh, client[c].target, client[c].then)
           /\ SetHealth(c, pc, v) =>
                IsNow(c, pc, v, client[c].fresh, client[c].target, client[c].then)
           /\ SetFresh(c, pc, v) =>
                IsNow(c, pc, client[c].health, v, client[c].target, client[c].then)
           /\ SetTarget(c, pc, v) =>
                IsNow(c, pc, client[c].health, client[c].fresh, v, client[c].then)
           /\ SetThen(c, pc, v) =>
                IsNow(c, pc, client[c].health, client[c].fresh, client[c].target, v)
<1>1. client \in [Clients -> ClientState] /\ client[c] \in ClientState
  BY DEF TypeOK
<1>2. Goto(c, pc) =>
        IsNow(c, pc, client[c].health, client[c].fresh, client[c].target, client[c].then)
  BY <1>1 DEF Goto, IsNow, ClientState
<1>3. SetHealth(c, pc, v) =>
        IsNow(c, pc, v, client[c].fresh, client[c].target, client[c].then)
  BY <1>1 DEF SetHealth, IsNow, ClientState
<1>4. SetFresh(c, pc, v) =>
        IsNow(c, pc, client[c].health, v, client[c].target, client[c].then)
  BY <1>1 DEF SetFresh, IsNow, ClientState
<1>5. SetTarget(c, pc, v) =>
        IsNow(c, pc, client[c].health, client[c].fresh, v, client[c].then)
  BY <1>1 DEF SetTarget, IsNow, ClientState
<1>6. SetThen(c, pc, v) =>
        IsNow(c, pc, client[c].health, client[c].fresh, client[c].target, v)
  BY <1>1 DEF SetThen, IsNow, ClientState
<1>7. QED
  BY <1>2, <1>3, <1>4, <1>5, <1>6

\* Every fault, and every ensure or call that begins, leaves nobody else alone.
LEMMA DisturbedFields ==
    ASSUME TypeOK, NEW c \in Clients
    PROVE  Disturbed(client)[c].alone = FALSE /\ Disturbed(client)[c].pc = client[c].pc
<1>1. client[c] \in ClientState
  BY DEF TypeOK
<1>2. [client[c] EXCEPT !.alone = FALSE].alone = FALSE
  BY <1>1 DEF ClientState
<1>3. QED
  BY <1>2, DisturbedTyped DEF Disturbed

-----------------------------------------------------------------------------
(* Files                                                                   *)

LEMMA FilesInit == Init => Files
BY LifecycleConstants DEF Init, Files

\* A step of daemon d to pc.
LEMMA FilesDaemon ==
    ASSUME Inv, Files, NEW d \in Daemons,
           NEW pc \in {"unborn", "serving", "dead"} \cup Startup \cup Exit, Step(d, pc),
           pc \in {"serving", "dead"} \/ ~daemon[d].hung,
           \/ UNCHANGED lock /\ (lock = d => pc \notin {"unborn", "starting", "dead"})
           \/ lock' = d /\ d \notin Legacy /\ pc \notin {"unborn", "starting", "dead"}
           \/ lock' = IF lock = d THEN Nobody ELSE lock,
           pidfile' \in {pidfile, Nobody} \/ (pidfile' = d /\ d \notin Legacy),
           \A c \in Clients : client[c].pc = "release" => client'[c].pc = "release"
    PROVE  Files'
<1>1. /\ daemon'[d].pc = pc
      /\ daemon'[d].hung = daemon[d].hung
      /\ \A e \in Daemons \ {d} : daemon'[e] = daemon[e]
  BY StepFields DEF Inv, Typed
<1>2. /\ Nobody \notin Daemons /\ Nobody \notin Clients /\ Daemons \cap Clients = {}
      /\ Legacy \subseteq Daemons
  BY LifecycleConstants
<1>3. (lock \in Daemons => lock \notin Legacy /\ daemon[lock].pc \notin {"unborn", "starting", "dead"})'
  BY <1>1, <1>2 DEF Files
<1>4. (lock \in Clients => client[lock].pc = "release")'
  BY <1>2 DEF Files
<1>5. (pidfile \notin Legacy)'
  BY <1>2 DEF Files
<1>6. (\A e \in Daemons : daemon[e].hung => daemon[e].pc \in {"serving", "dead"})'
  BY <1>1 DEF Files
<1>7. QED
  BY <1>3, <1>4, <1>5, <1>6 DEF Files

LEMMA FilesServe ==
    ASSUME Inv, Files, NEW d \in Daemons, Serve(d)
    PROVE  Files'
<1> USE DEF Startup, Exit, Owning
<1>1. /\ d # Nobody /\ client' = client
      /\ daemon[d].pc \in Startup \cup Exit
      /\ ~daemon[d].hung
      /\ d \in Legacy => daemon[d].pc \in Exit
      /\ d \notin Legacy /\ daemon[d].pc # "starting" => lock = d
  <2>1. client' = client /\ daemon[d].pc \in Startup \cup Exit
    BY DEF Serve, Acquire, AlreadyServing, Truncate, WriteOwner, Clear, Bind, CheckOwner,
           ExitUnlink, Release, At
  <2>2. ~daemon[d].hung
    BY <2>1 DEF Files
  <2>3. QED
    BY <2>1, <2>2, LifecycleConstants DEF Inv, Old, Holders
<1>2. CASE Acquire(d)
  <2>1. CASE lock = Nobody
    BY <1>1, <1>2, <2>1, FilesDaemon DEF Acquire, At
  <2>2. CASE lock # Nobody
    BY <1>1, <1>2, <2>2, FilesDaemon DEF Acquire, At, Files
  <2>3. QED
    BY <2>1, <2>2
<1>3. CASE AlreadyServing(d)
  <2>1. CASE Dies(d)
    BY <1>1, <1>3, <2>1, FilesDaemon DEF AlreadyServing, Dies
  <2>2. CASE daemon' = [daemon EXCEPT ![d] = [@ EXCEPT !.pc = "owning", !.current = TRUE]] /\ UNCHANGED lock
    <3>1. /\ daemon'[d].pc = "owning" /\ daemon'[d].hung = daemon[d].hung
          /\ \A e \in Daemons \ {d} : daemon'[e] = daemon[e]
      BY <2>2 DEF Inv, Typed, TypeOK, DaemonState
    <3>2. lock = d /\ d \notin Legacy
      BY <1>1, <1>3 DEF AlreadyServing, At
    <3>3. QED
      BY <1>1, <1>3, <2>2, <3>1, <3>2, LifecycleConstants DEF AlreadyServing, Files
  <2>3. QED
    BY <1>3, <2>1, <2>2 DEF AlreadyServing
<1>4. CASE Truncate(d)
  BY <1>1, <1>4, FilesDaemon DEF Truncate
<1>5. CASE WriteOwner(d)
  BY <1>1, <1>5, FilesDaemon DEF WriteOwner, At
<1>6. CASE Clear(d)
  BY <1>1, <1>6, FilesDaemon DEF Clear
<1>7. CASE Bind(d)
  BY <1>1, <1>7, FilesDaemon DEF Bind
<1>8. CASE CheckOwner(d)
  <2>1. CASE Step(d, "unlinking")
    BY <1>1, <1>8, <2>1, FilesDaemon DEF CheckOwner
  <2>2. CASE Step(d, "releasing")
    BY <1>1, <1>8, <2>2, FilesDaemon DEF CheckOwner
  <2>3. QED
    BY <1>8, <2>1, <2>2 DEF CheckOwner
<1>9. CASE ExitUnlink(d)
  BY <1>1, <1>9, FilesDaemon DEF ExitUnlink
<1>10. CASE Release(d)
  BY <1>1, <1>10, FilesDaemon DEF Release, Dies
<1>11. QED
  BY <1>2, <1>3, <1>4, <1>5, <1>6, <1>7, <1>8, <1>9, <1>10 DEF Serve

LEMMA FilesEnvironment ==
    ASSUME Inv, Files, NEW d \in Daemons, Killed(d) \/ Hang(d) \/ Idle(d) \/ Launch(d)
    PROVE  Files'
<1> USE DEF Startup, Exit
<1>1. TypeOK /\ \A c \in Clients : client'[c].pc = client[c].pc
  BY DisturbedTyped DEF Inv, Typed, Killed, Hang, Idle, Launch, Fault
<1>2. CASE Killed(d)
  BY <1>1, <1>2, FilesDaemon DEF Killed, Dies
<1>3. CASE Hang(d)
  <2>1. /\ \A e \in Daemons : daemon'[e].pc = daemon[e].pc
        /\ \A e \in Daemons \ {d} : daemon'[e] = daemon[e]
        /\ daemon[d].pc = "serving"
    BY <1>1, <1>3 DEF Hang, At, TypeOK, DaemonState
  <2>2. UNCHANGED <<lock, pidfile>>
    BY <1>3 DEF Hang
  <2>3. QED
    BY <1>1, <2>1, <2>2 DEF Files
<1>4. CASE Idle(d)
  BY <1>1, <1>4, FilesDaemon DEF Idle
<1>5. CASE Launch(d)
  <2>1. lock # d /\ ~daemon[d].hung
    BY <1>5 DEF Launch, At, Files
  <2>2. QED
    BY <1>1, <1>5, <2>1, FilesDaemon DEF Launch
<1>6. QED
  BY <1>2, <1>3, <1>4, <1>5

LEMMA FilesClient ==
    ASSUME Inv, Files, NEW c \in Clients, Ensure(c) \/ Request(c) \/ Proceed(c)
    PROVE  Files'
<1> USE DEF Startup, Exit
<1>1. /\ TypeOK /\ client \in [Clients -> ClientState] /\ client[c] \in ClientState
      /\ Nobody \notin Clients /\ Daemons \cap Clients = {} /\ Nobody \notin Daemons
  BY LifecycleConstants DEF Inv, Typed, TypeOK
<1>2. client[c].pc # "release" \/ ProbeRelease(c)
  BY DEF Ensure, Request, Active, Proceed, Ping, Probe, ProbeRelease, ReadHolder, Decide,
         Terminate, Reaped, Check, Unlink, Call, Spawn, Poll, Does
<1>3. \A b \in Clients \ {c} : client'[b].pc = client[b].pc
  <2>1. CASE Ensure(c) \/ Request(c)
    BY <1>1, <2>1, DisturbedTyped DEF Ensure, Request
  <2>2. CASE Proceed(c)
    BY <1>1, <2>2 DEF Proceed, Ping, Probe, ProbeRelease, ReadHolder, Decide, Terminate,
       Reaped, Check, Unlink, Call, Spawn, Poll, Goto
  <2>3. QED
    BY <2>1, <2>2
<1>4. UNCHANGED pidfile
  BY DEF Ensure, Request, Proceed, Ping, Probe, ProbeRelease, ReadHolder, Decide, Terminate,
         Reaped, Check, Unlink, Call, Spawn, Poll
<1>5. CASE Ensure(c) \/ Request(c) \/ Ping(c) \/ ReadHolder(c) \/ Decide(c) \/ Check(c)
           \/ Unlink(c) \/ Call(c) \/ Poll(c)
  <2>1. UNCHANGED <<daemon, lock>> /\ client[c].pc # "release"
    BY <1>5 DEF Ensure, Request, Active, Ping, ReadHolder, Decide, Check, Unlink, Call, Poll, Does
  <2>2. QED
    BY <1>1, <1>3, <1>4, <2>1 DEF Files
<1>6. CASE Probe(c)
  <2>1. CASE lock = Nobody
    <3>1. client'[c].pc = "release" /\ lock' = c /\ UNCHANGED daemon
      BY <1>1, <1>6, <2>1 DEF Probe, ClientState
    <3>2. QED
      BY <1>1, <1>3, <1>4, <3>1 DEF Files
  <2>2. CASE lock # Nobody
    <3>1. UNCHANGED <<daemon, lock>> /\ client[c].pc # "release"
      BY <1>6, <2>2 DEF Probe, Does
    <3>2. QED
      BY <1>1, <1>3, <1>4, <3>1 DEF Files
  <2>3. QED
    BY <2>1, <2>2
<1>7. CASE ProbeRelease(c)
  <2>1. UNCHANGED daemon /\ lock' = Nobody
    BY <1>7 DEF ProbeRelease
  <2>2. QED
    BY <1>1, <1>4, <2>1 DEF Files
<1>8. CASE Terminate(c) \/ Reaped(c) \/ Spawn(c)
  <2>1. \A b \in Clients : client[b].pc = "release" => client'[b].pc = "release"
    BY <1>3, <1>8 DEF Terminate, Reaped, Spawn, Does
  <2>2. CASE UNCHANGED <<daemon, lock>>
    BY <1>1, <1>4, <2>1, <2>2 DEF Files
  <2>3. ASSUME NEW d \in Daemons, Dies(d) PROVE Files'
    BY <1>4, <2>1, <2>3, FilesDaemon DEF Dies
  <2>4. ASSUME NEW d \in Daemons, At(d, "serving"), ~daemon[d].hung, Step(d, "closing"), UNCHANGED lock
        PROVE  Files'
    BY <1>4, <2>1, <2>4, FilesDaemon
  <2>5. ASSUME NEW d \in Daemons, At(d, "unborn"), Step(d, "starting"), UNCHANGED lock
        PROVE  Files'
    <3>1. lock # d /\ ~daemon[d].hung
      BY <2>5 DEF At, Files
    <3>2. QED
      BY <1>4, <2>1, <2>5, <3>1, FilesDaemon
  <2>6. CASE Terminate(c) \/ Reaped(c)
    <3>1. client[c].target \in Daemons
      BY <2>6 DEF Terminate, Reaped, Does, Inv, Typed, Targets
    <3>2. QED
      BY <2>2, <2>3, <2>4, <2>6, <3>1 DEF Terminate, Reaped
  <2>7. CASE Spawn(c)
    BY <2>5, <2>7 DEF Spawn
  <2>8. QED
    BY <1>8, <2>6, <2>7
<1>9. QED
  BY <1>5, <1>6, <1>7, <1>8 DEF Proceed

LEMMA FilesStep == Inv /\ Files /\ [Next]_vars => Files'
<1> SUFFICES ASSUME Inv, Files, [Next]_vars PROVE Files'
  OBVIOUS
<1>1. CASE UNCHANGED vars
  BY <1>1 DEF vars, Files
<1>2. CASE Upgrade
  <2>1. \A d \in Daemons : daemon'[d].pc = daemon[d].pc /\ daemon'[d].hung = daemon[d].hung
    <3> TAKE d \in Daemons
    <3>1. daemon[d] \in DaemonState
      BY DEF Inv, Typed, TypeOK
    <3>2. QED
      BY <1>2, <3>1 DEF Upgrade, DaemonState
  <2>2. \A c \in Clients : client'[c].pc = client[c].pc
    BY <1>2, DisturbedTyped DEF Inv, Typed, Upgrade, Fault
  <2>3. UNCHANGED <<lock, pidfile>>
    BY <1>2 DEF Upgrade
  <2>4. QED
    BY <2>1, <2>2, <2>3 DEF Files
<1>3. QED
  BY <1>1, <1>2, FilesServe, FilesEnvironment, FilesClient DEF Next

-----------------------------------------------------------------------------
(* The steps of a lone ensure                                              *)

\* A daemon that holds the lock, or is named by the pidfile and lives, serves and
\* is both, once nobody starts or exits.
LEMMA SettledHolder ==
    ASSUME Inv, Files, Settled
    PROVE  /\ lock \in Daemons => daemon[lock].pc = "serving" /\ pidfile = lock
           /\ pidfile # Nobody /\ Alive(pidfile) => lock = pidfile
<1> USE DEF Startup, Exit, Owning
<1>1. /\ TypeOK /\ pidfile \in Daemons \cup {Nobody}
      /\ \A d \in Daemons : daemon[d].pc \in {"unborn", "serving", "dead"} \cup Startup \cup Exit
  BY DEF Inv, Typed, TypeOK, DaemonState
<1>2. \A d \in Daemons : daemon[d].pc \in {"unborn", "serving", "dead"}
  BY <1>1 DEF Settled
<1>3. \A d \in Daemons \ Legacy : daemon[d].pc = "serving" => lock = d /\ pidfile = d
  BY DEF Inv, Holders
<1>4. lock \in Daemons => daemon[lock].pc = "serving" /\ pidfile = lock
  BY <1>2, <1>3 DEF Files
<1>5. pidfile # Nobody /\ Alive(pidfile) => lock = pidfile
  BY <1>1, <1>2, <1>3 DEF Files, Alive
<1>6. QED
  BY <1>4, <1>5

\* The facts that the cases below share.
LEMMA LoneFacts ==
    ASSUME Inv, Files, NEW c \in Clients, Alone(c)
    PROVE  /\ TypeOK
           /\ Nobody \notin Daemons /\ Nobody \notin Clients /\ Daemons \cap Clients = {}
           /\ lock \in Daemons \cup Clients \cup {Nobody} /\ socket \in Daemons \cup {Nobody}
           /\ client[c].health \in Daemons \cup {Nobody}
           /\ client[c].target \in Daemons \cup {Nobody}
           /\ client[c].then \in {"probe", "call", "spawn"}
           /\ \A b \in Clients \ {c} : client[b].pc \in {"idle", "done", "failed"}
           /\ lock \in Clients => lock = c /\ client[c].pc = "release"
<1>1. \A b \in Clients \ {c} : client[b].pc \in {"idle", "done", "failed"}
  BY DEF Alone, Active
<1>2. client[c] \in ClientState /\ lock \in Daemons \cup Clients \cup {Nobody}
      /\ socket \in Daemons \cup {Nobody} /\ TypeOK
  BY DEF Inv, Typed, TypeOK
<1>3. lock \in Clients => lock = c /\ client[c].pc = "release"
  BY <1>1 DEF Files
<1>4. QED
  BY <1>1, <1>2, <1>3, LifecycleConstants DEF ClientState

\* The steps of the ensure that leave the daemons alone.
LEMMA LonePing ==
    ASSUME Inv, Files, NEW c \in Clients, Alone(c), Ping(c)
    PROVE  Alone(c)'
<1>1. /\ UNCHANGED <<daemon, lock, pidfile, socket>> /\ client[c].pc = "ping"
      /\ client[c].health = Nobody /\ client[c].target = Nobody /\ Settled /\ TypeOK
      /\ \A b \in Clients \ {c} : ~Active(b)
  BY LoneFacts DEF Ping, Does, Alone
<1>2. CASE Answers(socket) /\ SetHealth(c, "probe", socket)
  <2>1. IsNow(c, "probe", socket, client[c].fresh, client[c].target, client[c].then)
    BY <1>1, <1>2, ClientFields
  <2>2. QED
    BY <1>1, <1>2, <2>1 DEF IsNow, Alone, Active, Settled, Seen, Answers
<1>3. CASE socket = Nobody /\ Goto(c, "probe")
  <2>1. IsNow(c, "probe", client[c].health, client[c].fresh, client[c].target, client[c].then)
    BY <1>1, <1>3, ClientFields
  <2>2. QED
    BY <1>1, <1>3, <2>1 DEF IsNow, Alone, Active, Settled, Seen, Answers
<1>4. CASE SetThen(c, "check", "probe")
  <2>1. IsNow(c, "check", client[c].health, client[c].fresh, client[c].target, "probe")
    BY <1>1, <1>4, ClientFields
  <2>2. QED
    BY <1>1, <1>4, <2>1 DEF IsNow, Alone, Active, Settled
<1>5. QED
  BY <1>2, <1>3, <1>4 DEF Ping, SetHealth, SetThen

LEMMA LoneProbe ==
    ASSUME Inv, Files, NEW c \in Clients, Alone(c), Probe(c)
    PROVE  Alone(c)'
<1> DEFINE b == client[c].health # Nobody /\ daemon[client[c].health].current
<1>1. /\ UNCHANGED <<daemon, pidfile, socket>> /\ client[c].pc = "probe"
      /\ client[c].target = Nobody /\ Settled /\ TypeOK /\ Seen(c)
      /\ client[c].health = Nobody => socket = Nobody \/ lock # Nobody
      /\ \A e \in Clients \ {c} : ~Active(e)
  BY LoneFacts DEF Probe, Does, Alone
<1>2. CASE lock = Nobody
  <2>1. SetFresh(c, "release", b)
    BY <1>2 DEF Probe, SetFresh
  <2> HIDE DEF b
  <2>2. IsNow(c, "release", client[c].health, b, client[c].target, client[c].then)
    BY <1>1, <2>1, ClientFields
  <2>3. QED
    BY <1>1, <1>2, <2>2 DEF IsNow, Alone, Active, Settled, Seen, Known, Answers, b
<1>3. CASE lock # Nobody
  <2>1. SetFresh(c, "read", b) /\ lock' = lock
    BY <1>3 DEF Probe, SetFresh
  <2>2. lock \in Daemons
    BY <1>1, <1>3, LoneFacts
  <2> HIDE DEF b
  <2>3. IsNow(c, "read", client[c].health, b, client[c].target, client[c].then)
    BY <1>1, <2>1, ClientFields
  <2>4. QED
    BY <1>1, <2>1, <2>2, <2>3 DEF IsNow, Alone, Active, Settled, Seen, Known, Answers, b
<1>4. QED
  BY <1>2, <1>3

LEMMA LoneRelease ==
    ASSUME Inv, Files, NEW c \in Clients, Alone(c), ProbeRelease(c)
    PROVE  Alone(c)'
<1>1. /\ UNCHANGED <<daemon, pidfile, socket>> /\ lock' = Nobody /\ client[c].pc = "release"
      /\ client[c].target = Nobody /\ Settled /\ TypeOK /\ Known(c)
      /\ client[c].health = Nobody => socket = Nobody
      /\ \A e \in Clients \ {c} : ~Active(e)
  BY LoneFacts DEF ProbeRelease, Does, Alone
<1>2. IsNow(c, "decide", client[c].health, client[c].fresh, client[c].target, client[c].then)
  BY <1>1, ClientFields DEF ProbeRelease
<1>3. QED
  BY <1>1, <1>2 DEF IsNow, Alone, Active, Settled, Seen, Known, Answers

LEMMA LoneRead ==
    ASSUME Inv, Files, NEW c \in Clients, Alone(c), ReadHolder(c)
    PROVE  Alone(c)'
<1>1. /\ UNCHANGED <<daemon, lock, pidfile, socket>> /\ client[c].pc = "read"
      /\ client[c].target = Nobody /\ Settled /\ TypeOK /\ Known(c) /\ lock \in Daemons
      /\ \A e \in Clients \ {c} : ~Active(e)
      /\ lock # Nobody
  BY LoneFacts DEF ReadHolder, Does, Alone
<1>2. pidfile = lock /\ daemon[lock].pc = "serving"
  BY <1>1, SettledHolder
<1>3. SetTarget(c, "decide", lock)
  BY <1>1, <1>2 DEF ReadHolder, Alive, SetTarget
<1>4. IsNow(c, "decide", client[c].health, client[c].fresh, lock, client[c].then)
  BY <1>1, <1>3, ClientFields
<1>5. QED
  BY <1>1, <1>4 DEF IsNow, Alone, Active, Settled, Seen, Known, Answers

LEMMA LoneDecide ==
    ASSUME Inv, Files, NEW c \in Clients, Alone(c), Decide(c)
    PROVE  Alone(c)'
<1> DEFINE answered == client[c].health
<1> DEFINE holder == client[c].target
<1> DEFINE h == IF holder # Nobody THEN holder ELSE answered
<1>1. /\ UNCHANGED <<daemon, lock, pidfile, socket>> /\ client[c].pc = "decide"
      /\ Settled /\ TypeOK /\ Known(c)
      /\ holder = Nobody => lock = Nobody /\ (answered = Nobody => socket = Nobody)
      /\ holder # Nobody => lock = holder
      /\ holder \in Daemons \cup {Nobody} /\ answered \in Daemons \cup {Nobody}
      /\ \A e \in Clients \ {c} : ~Active(e)
  BY LoneFacts DEF Decide, Does, Alone
<1>2. CASE answered # Nobody /\ client[c].fresh /\ SetTarget(c, "done", answered)
  <2>1. IsNow(c, "done", answered, client[c].fresh, answered, client[c].then)
    BY <1>1, <1>2, ClientFields
  <2>2. QED
    BY <1>1, <1>2, <2>1 DEF IsNow, Alone, Active, Settled, Seen, Known, Answers
<1>3. CASE answered = Nobody /\ holder = Nobody /\ Goto(c, "call")
  <2>1. IsNow(c, "call", answered, client[c].fresh, holder, client[c].then)
    BY <1>1, <1>3, ClientFields
  <2>2. QED
    BY <1>1, <1>3, <2>1 DEF IsNow, Alone, Active, Settled
<1>4. CASE ~(answered = Nobody /\ holder = Nobody) /\ SetTarget(c, "reap", h)
  <2>1. IsNow(c, "reap", answered, client[c].fresh, h, client[c].then)
    BY <1>1, <1>4, ClientFields
  <2>2. daemon[h].pc = "serving" /\ lock \in {h, Nobody}
    <3>1. CASE holder # Nobody
      BY <1>1, <3>1, SettledHolder
    <3>2. CASE holder = Nobody
      BY <1>1, <1>4, <3>2 DEF Known, Seen, Answers
    <3>3. QED
      BY <3>1, <3>2
  <2> HIDE DEF h
  <2>3. QED
    BY <1>1, <2>1, <2>2 DEF IsNow, Alone, Active, Settled
<1>5. QED
  BY <1>2, <1>3, <1>4 DEF Decide, SetTarget, Goto

LEMMA LoneUnlink ==
    ASSUME Inv, Files, NEW c \in Clients, Alone(c), Check(c) \/ Unlink(c)
    PROVE  Alone(c)'
<1> DEFINE then == client[c].then
<1>1. /\ UNCHANGED <<daemon, lock, pidfile>> /\ client[c].pc \in {"check", "unlink"}
      /\ Settled /\ TypeOK
      /\ \/ then = "probe" /\ client[c].health = Nobody /\ client[c].target = Nobody
         \/ then = "call" /\ lock = Nobody
      /\ \A e \in Clients \ {c} : ~Active(e)
  BY LoneFacts DEF Check, Unlink, Does, Alone
<1>2. CASE Goto(c, "unlink")
  <2>1. IsNow(c, "unlink", client[c].health, client[c].fresh, client[c].target, then)
    BY <1>1, <1>2, ClientFields
  <2>2. QED
    BY <1>1, <1>2, <2>1 DEF IsNow, Alone, Active, Settled
<1>3. ASSUME Goto(c, then),
             socket' = Nobody \/ (UNCHANGED socket /\ pidfile # Nobody /\ Alive(pidfile))
      PROVE  Alone(c)'
  <2>1. IsNow(c, then, client[c].health, client[c].fresh, client[c].target, then)
    BY <1>1, <1>3, ClientFields
  <2>2. socket' = Nobody \/ lock # Nobody
    BY <1>1, <1>3, SettledHolder
  <2>3. CASE then = "probe"
    BY <1>1, <2>1, <2>2, <2>3 DEF IsNow, Alone, Active, Settled, Seen
  <2>4. CASE then = "call"
    BY <1>1, <2>1, <2>2, <2>4 DEF IsNow, Alone, Active, Settled
  <2>5. QED
    BY <1>1, <2>3, <2>4
<1>4. CASE Check(c)
  <2>1. CASE MayUnlink(c)
    BY <1>2, <1>4, <2>1 DEF Check
  <2>2. CASE ~MayUnlink(c)
    BY <1>3, <1>4, <2>2 DEF Check, MayUnlink
  <2>3. QED
    BY <2>1, <2>2
<1>5. CASE Unlink(c)
  BY <1>3, <1>5 DEF Unlink
<1>6. QED
  BY <1>4, <1>5

LEMMA LoneCall ==
    ASSUME Inv, Files, NEW c \in Clients, Alone(c), Call(c)
    PROVE  Alone(c)'
<1>1. /\ UNCHANGED <<daemon, lock, pidfile, socket>> /\ client[c].pc = "call"
      /\ Settled /\ TypeOK /\ socket = Nobody /\ lock = Nobody
      /\ \A e \in Clients \ {c} : ~Active(e)
  BY LoneFacts DEF Call, Does, Alone
<1>2. Goto(c, "spawn")
  BY <1>1 DEF Call, Answers
<1>3. IsNow(c, "spawn", client[c].health, client[c].fresh, client[c].target, client[c].then)
  BY <1>1, <1>2, ClientFields
<1>4. QED
  BY <1>1, <1>3 DEF IsNow, Alone, Active, Settled

LEMMA LonePoll ==
    ASSUME Inv, Files, NEW c \in Clients, Alone(c), Poll(c)
    PROVE  Alone(c)'
<1> USE DEF Startup, Exit
<1>1. /\ UNCHANGED <<daemon, lock, pidfile, socket>> /\ client[c].pc = "poll" /\ TypeOK
      /\ \A e \in Clients \ {c} : ~Active(e)
  BY LoneFacts DEF Poll, Does, Alone
<1>2. PICK d \in Daemons : Coming(d)
  BY <1>1 DEF Alone
<1>3. d # Nobody
  BY LifecycleConstants
<1>4. Answers(socket)
  BY <1>2, <1>3 DEF Poll, Coming, Answers
<1>5. socket = d /\ daemon[d].pc = "serving" /\ daemon[d].current
  BY <1>2, <1>3, <1>4 DEF Coming, Answers
<1>6. Settled
  BY <1>2, <1>5 DEF Coming, SettledBut, Settled
<1>7. SetTarget(c, "done", socket)
  BY <1>4 DEF Poll, SetTarget
<1>8. IsNow(c, "done", client[c].health, client[c].fresh, socket, client[c].then)
  BY <1>1, <1>7, ClientFields
<1>9. QED
  BY <1>1, <1>4, <1>5, <1>6, <1>8 DEF IsNow, Alone, Active, Settled, Answers

\* The steps that move a daemon.
LEMMA LoneTerminate ==
    ASSUME Inv, Files, NEW c \in Clients, Alone(c), Terminate(c)
    PROVE  Alone(c)'
<1> USE DEF Startup, Exit
<1> DEFINE d == client[c].target
<1>1. /\ UNCHANGED <<pidfile, socket>> /\ client[c].pc = "reap"
      /\ Settled /\ TypeOK /\ daemon[d].pc = "serving" /\ lock \in {d, Nobody}
      /\ \A e \in Clients \ {c} : ~Active(e)
      /\ d \in Daemons
  BY LoneFacts DEF Terminate, Does, Alone, Inv, Typed, Targets
<1>2. UNCHANGED lock /\ (Step(d, "closing") \/ UNCHANGED daemon) /\ Goto(c, "wait")
  BY <1>1 DEF Terminate
<1>3. IsNow(c, "wait", client[c].health, client[c].fresh, d, client[c].then)
  BY <1>1, <1>2, ClientFields
<1>4. /\ daemon'[d].pc \in {"serving", "closing"}
      /\ \A e \in Daemons \ {d} : daemon'[e] = daemon[e]
  BY <1>1, <1>2, StepFields
<1> HIDE DEF d
<1>5. QED
  BY <1>1, <1>2, <1>3, <1>4 DEF IsNow, Alone, Active, Settled, SettledBut

LEMMA LoneReaped ==
    ASSUME Inv, Files, NEW c \in Clients, Alone(c), Reaped(c)
    PROVE  Alone(c)'
<1> USE DEF Startup, Exit
<1> DEFINE d == client[c].target
<1>1. /\ UNCHANGED <<pidfile, socket>> /\ client[c].pc = "wait"
      /\ TypeOK /\ SettledBut(d) /\ daemon[d].pc # "unborn" /\ lock \in {d, Nobody}
      /\ \A e \in Clients \ {c} : ~Active(e)
      /\ d \in Daemons
  BY LoneFacts DEF Reaped, Does, Alone, Inv, Typed, Targets
<1>2. IsNow(c, "check", client[c].health, client[c].fresh, d, "call")
  <2>1. SetThen(c, "check", "call")
    BY DEF Reaped, SetThen
  <2>2. QED
    BY <1>1, <2>1, ClientFields
<1>3. /\ daemon'[d].pc = "dead" /\ lock' = Nobody
      /\ \A e \in Daemons \ {d} : daemon'[e] = daemon[e]
  <2>1. CASE Alive(d)
    BY <1>1, <2>1, StepFields DEF Reaped, Dies
  <2>2. CASE ~Alive(d)
    <3>1. UNCHANGED <<daemon, lock>>
      BY <2>2 DEF Reaped
    <3>2. daemon[d].pc = "dead"
      BY <1>1, <2>2 DEF Alive
    <3>3. QED
      BY <1>1, <3>1, <3>2 DEF Files
  <2>3. QED
    BY <2>1, <2>2
<1> HIDE DEF d
<1>4. Settled'
  BY <1>1, <1>3 DEF Settled, SettledBut
<1>5. QED
  BY <1>1, <1>2, <1>3, <1>4 DEF IsNow, Alone, Active

LEMMA LoneSpawn ==
    ASSUME Inv, Files, NEW c \in Clients, Alone(c), Spawn(c)
    PROVE  Alone(c)'
<1> USE DEF Startup, Exit
<1>1. /\ UNCHANGED <<lock, pidfile, socket>> /\ client[c].pc = "spawn"
      /\ TypeOK /\ Settled /\ lock = Nobody /\ socket = Nobody
      /\ \A e \in Clients \ {c} : ~Active(e)
  BY LoneFacts DEF Spawn, Does, Alone
<1>2. IsNow(c, "poll", client[c].health, client[c].fresh, client[c].target, client[c].then)
  BY <1>1, ClientFields DEF Spawn
<1>3. PICK d \in Daemons : At(d, "unborn") /\ Step(d, "starting")
  BY DEF Spawn
<1>4. d \notin Legacy /\ ~daemon[d].hung
  BY <1>3 DEF At, Inv, Old, Files
<1>5. /\ daemon'[d].pc = "starting" /\ daemon'[d].hung = daemon[d].hung
      /\ \A e \in Daemons \ {d} : daemon'[e] = daemon[e]
  BY <1>1, <1>3, StepFields
<1>6. Coming(d)'
  BY <1>1, <1>4, <1>5 DEF Coming, Settled, SettledBut
<1>7. QED
  BY <1>1, <1>2, <1>6 DEF IsNow, Alone, Active

LEMMA LoneProceed ==
    ASSUME Inv, Files, NEW c \in Clients, Alone(c), Proceed(c)
    PROVE  Alone(c)'
BY LonePing, LoneProbe, LoneRelease, LoneRead, LoneDecide, LoneTerminate, LoneReaped,
   LoneUnlink, LoneCall, LoneSpawn, LonePoll DEF Proceed

\* Only the daemon that is reaped, or the one that was spawned, moves by itself
\* during a lone ensure.
LEMMA LoneServe ==
    ASSUME Inv, Files, NEW c \in Clients, Alone(c), NEW d \in Daemons, Serve(d)
    PROVE  Alone(c)'
<1> USE DEF Startup, Exit
<1>1. /\ client' = client /\ TypeOK /\ d # Nobody
      /\ daemon[d].pc \in Startup \cup Exit
      /\ ~daemon[d].hung
      /\ \A e \in Clients \ {c} : ~Active(e)
  BY LoneFacts DEF Serve, Acquire, AlreadyServing, Truncate, WriteOwner, Clear, Bind, CheckOwner,
         ExitUnlink, Release, At, Files, Alone
<1>2. client[c].pc \in {"wait", "poll"}
  BY <1>1 DEF Alone, Settled
<1>3. CASE client[c].pc = "wait"
  <2>1. d = client[c].target /\ daemon[d].pc \in Exit /\ lock \in {d, Nobody}
    BY <1>1, <1>3 DEF Alone, SettledBut
  <2>2. /\ daemon'[d].pc \in Exit \cup {"dead"}
        /\ \A e \in Daemons \ {d} : daemon'[e] = daemon[e]
        /\ lock' \in {d, Nobody}
    <3>1. CASE CheckOwner(d)
      BY <1>1, <2>1, <3>1, StepFields DEF CheckOwner
    <3>2. CASE ExitUnlink(d)
      BY <1>1, <2>1, <3>2, StepFields DEF ExitUnlink
    <3>3. CASE Release(d)
      BY <1>1, <2>1, <3>3, StepFields DEF Release, Dies
    <3>4. QED
      BY <2>1, <3>1, <3>2, <3>3 DEF Serve, Acquire, AlreadyServing, Truncate, WriteOwner, Clear,
         Bind, At
  <2>3. SettledBut(d)
    BY <1>3, <2>1 DEF Alone
  <2>4. SettledBut(client[c].target)'
    BY <1>1, <2>1, <2>2, <2>3 DEF SettledBut
  <2>5. QED
    BY <1>1, <1>3, <2>1, <2>2, <2>4 DEF Alone, Active
<1>4. CASE client[c].pc = "poll"
  <2>1. Coming(d)
    BY <1>1, <1>4 DEF Alone, Coming, SettledBut
  <2>2. daemon[d].pc \in Startup /\ socket = Nobody
    BY <1>1, <2>1 DEF Coming
  <2>3. ASSUME NEW pc \in Startup \cup {"serving"}, daemon'[d].pc = pc,
               ~daemon'[d].hung, \A e \in Daemons \ {d} : daemon'[e] = daemon[e],
               pc \notin {"starting", "locked"} => daemon'[d].current,
               pc # "starting", socket' = IF pc = "serving" THEN d ELSE Nobody
        PROVE  Coming(d)'
    BY <2>1, <2>3 DEF Coming, SettledBut
  <2>4. Coming(d)'
    <3>1. CASE Acquire(d)
      <4>1. Step(d, "locked") /\ UNCHANGED socket
        BY <2>1, <3>1 DEF Acquire, At, Coming
      <4>2. QED
        BY <1>1, <2>2, <2>3, <4>1, StepFields
    <3>2. CASE AlreadyServing(d)
      <4>1. daemon' = [daemon EXCEPT ![d] = [@ EXCEPT !.pc = "owning", !.current = TRUE]]
            /\ UNCHANGED socket
        BY <2>2, <3>2 DEF AlreadyServing
      <4>2. /\ daemon'[d].pc = "owning" /\ daemon'[d].hung = daemon[d].hung
            /\ daemon'[d].current = TRUE
            /\ \A e \in Daemons \ {d} : daemon'[e] = daemon[e]
        BY <1>1, <4>1 DEF TypeOK, DaemonState
      <4>3. daemon'[d].current
        BY <4>2
      <4>4. QED
        BY <1>1, <2>2, <2>3, <4>1, <4>2, <4>3
    <3>3. daemon[d].pc \notin {"starting", "locked"} => daemon[d].current
      BY <2>1 DEF Coming
    <3>4. CASE Truncate(d)
      BY <1>1, <2>2, <2>3, <3>3, <3>4, StepFields DEF Truncate, At
    <3>5. CASE WriteOwner(d)
      BY <1>1, <2>2, <2>3, <3>3, <3>5, StepFields DEF WriteOwner, At
    <3>6. CASE Clear(d)
      BY <1>1, <2>2, <2>3, <3>3, <3>6, StepFields DEF Clear, At
    <3>7. CASE Bind(d)
      BY <1>1, <2>2, <2>3, <3>3, <3>7, StepFields DEF Bind, At
    <3>8. QED
      BY <2>2, <3>1, <3>2, <3>4, <3>5, <3>6, <3>7 DEF Serve, CheckOwner, ExitUnlink, Release, At
  <2>5. QED
    BY <1>1, <1>4, <2>4 DEF Alone, Active
<1>5. QED
  BY <1>2, <1>3, <1>4

\* An ensure that begins among settled daemons, with no other, is alone.
LEMMA LoneBegins ==
    ASSUME Inv, NEW b \in Clients, Ensure(b) \/ Request(b), NEW c \in Clients, client'[c].alone
    PROVE  Alone(c)'
<1>1. TypeOK /\ Disturbed(client) \in [Clients -> ClientState]
  BY DisturbedTyped DEF Inv, Typed
<1>2. \A e \in Clients \ {b} : client'[e] = Disturbed(client)[e]
  BY <1>1 DEF Ensure, Request
<1>3. \A e \in Clients \ {b} : ~client'[e].alone /\ client'[e].pc = client[e].pc
  BY <1>1, <1>2, DisturbedFields
<1>4. c = b
  BY <1>3
<1>5. CASE Ensure(b)
  <2> DEFINE alone == Settled /\ \A e \in Clients : ~Active(e)
  <2>1. client'[b] = [IdleClient EXCEPT !.pc = "ping", !.alone = alone]
    BY <1>1, <1>5 DEF Ensure
  <2>2. /\ client'[b].pc = "ping" /\ client'[b].health = Nobody
        /\ client'[b].target = Nobody /\ client'[b].alone = alone
    BY <2>1 DEF IdleClient
  <2>3. alone
    BY <1>4, <2>2
  <2>4. UNCHANGED daemon
    BY <1>5 DEF Ensure
  <2>5. \A e \in Clients \ {b} : ~Active(e)'
    BY <1>3, <2>3 DEF Active
  <2>6. Settled'
    BY <2>3, <2>4 DEF Settled
  <2> HIDE DEF alone
  <2>7. QED
    BY <1>4, <2>2, <2>5, <2>6 DEF Alone
<1>6. CASE Request(b)
  <2>1. client'[b] = [IdleClient EXCEPT !.pc = "call"]
    BY <1>1, <1>6 DEF Request
  <2>2. client'[b].alone = FALSE
    BY <2>1 DEF IdleClient
  <2>3. QED
    BY <1>4, <2>2
<1>7. QED
  BY <1>5, <1>6

\* No step of an ensure or a call changes whether it is alone.
LEMMA ProceedKeeps ==
    ASSUME TypeOK, NEW c \in Clients, Proceed(c)
    PROVE  client'[c].alone = client[c].alone
<1>1. client \in [Clients -> ClientState] /\ client[c] \in ClientState
  BY DEF TypeOK
<1>2. CASE Ping(c)
  <2>1. CASE SetHealth(c, "probe", socket)
    <3>1. IsNow(c, "probe", socket, client[c].fresh, client[c].target, client[c].then)
      BY <2>1, ClientFields
    <3>2. QED
      BY <3>1 DEF IsNow
  <2>2. CASE Goto(c, "probe")
    <3>1. IsNow(c, "probe", client[c].health, client[c].fresh, client[c].target, client[c].then)
      BY <2>2, ClientFields
    <3>2. QED
      BY <3>1 DEF IsNow
  <2>3. CASE SetThen(c, "check", "probe")
    <3>1. IsNow(c, "check", client[c].health, client[c].fresh, client[c].target, "probe")
      BY <2>3, ClientFields
    <3>2. QED
      BY <3>1 DEF IsNow
  <2>4. QED
    BY <1>2, <2>1, <2>2, <2>3 DEF Ping, SetHealth, SetThen
<1>3. CASE Unlink(c)
  <2>1. IsNow(c, client[c].then, client[c].health, client[c].fresh, client[c].target, client[c].then)
    BY <1>3, ClientFields DEF Unlink
  <2>2. QED
    BY <2>1 DEF IsNow
<1>4. CASE Call(c)
  <2>1. CASE SetTarget(c, "done", socket)
    <3>1. IsNow(c, "done", client[c].health, client[c].fresh, socket, client[c].then)
      BY <2>1, ClientFields
    <3>2. QED
      BY <3>1 DEF IsNow
  <2>2. CASE Goto(c, "spawn")
    <3>1. IsNow(c, "spawn", client[c].health, client[c].fresh, client[c].target, client[c].then)
      BY <2>2, ClientFields
    <3>2. QED
      BY <3>1 DEF IsNow
  <2>3. CASE SetThen(c, "check", "spawn")
    <3>1. IsNow(c, "check", client[c].health, client[c].fresh, client[c].target, "spawn")
      BY <2>3, ClientFields
    <3>2. QED
      BY <3>1 DEF IsNow
  <2>4. QED
    BY <1>4, <2>1, <2>2, <2>3 DEF Call, SetTarget, SetThen
<1>5. CASE Probe(c)
  BY <1>1, <1>5 DEF Probe, Goto, ClientState
<1>6. CASE ReadHolder(c)
  BY <1>1, <1>6 DEF ReadHolder, Goto, ClientState
<1>7. CASE Decide(c)
  BY <1>1, <1>7 DEF Decide, Goto, ClientState
<1>8. CASE Terminate(c)
  BY <1>1, <1>8 DEF Terminate, Goto, ClientState
<1>9. CASE Reaped(c)
  BY <1>1, <1>9 DEF Reaped, Goto, ClientState
<1>10. CASE Check(c)
  BY <1>1, <1>10 DEF Check, Goto, ClientState
<1>11. CASE Spawn(c)
  BY <1>1, <1>11 DEF Spawn, Goto, ClientState
<1>12. CASE ProbeRelease(c)
  BY <1>1, <1>12 DEF ProbeRelease, Goto, ClientState
<1>13. CASE Poll(c)
  <2>1. CASE SetTarget(c, "done", socket)
    <3>1. IsNow(c, "done", client[c].health, client[c].fresh, socket, client[c].then)
      BY <2>1, ClientFields
    <3>2. QED
      BY <3>1 DEF IsNow
  <2>2. CASE Goto(c, "failed")
    <3>1. IsNow(c, "failed", client[c].health, client[c].fresh, client[c].target, client[c].then)
      BY <2>2, ClientFields
    <3>2. QED
      BY <3>1 DEF IsNow
  <2>3. QED
    BY <1>13, <2>1, <2>2 DEF Poll, SetTarget
<1>14. QED
  BY <1>2, <1>3, <1>4, <1>5, <1>6, <1>7, <1>8, <1>9, <1>10, <1>11, <1>12, <1>13 DEF Proceed

LEMMA LoneInit == Init => LoneInv
<1> SUFFICES ASSUME Init PROVE LoneInv
  OBVIOUS
<1>1. \A c \in Clients : client[c].alone = FALSE
  BY DEF Init, IdleClient
<1>2. QED
  BY <1>1, FilesInit DEF LoneInv

LEMMA LoneStep == Inv /\ LoneInv /\ [Next]_vars => LoneInv'
<1> SUFFICES ASSUME Inv, LoneInv, [Next]_vars PROVE LoneInv'
  OBVIOUS
<1>1. Files /\ Files' /\ TypeOK
  BY FilesStep DEF LoneInv, Inv, Typed
<1>2. SUFFICES ASSUME NEW c \in Clients, client'[c].alone PROVE Alone(c)'
  BY <1>1 DEF LoneInv
<1>3. ASSUME client' = Disturbed(client) PROVE FALSE
  BY <1>1, <1>2, <1>3, DisturbedFields
<1>4. CASE Upgrade \/ \E d \in Daemons : Killed(d) \/ Hang(d) \/ Idle(d) \/ Launch(d)
  BY <1>3, <1>4 DEF Upgrade, Killed, Hang, Idle, Launch, Fault
<1>5. CASE UNCHANGED vars
  <2>1. Alone(c)
    BY <1>2, <1>5 DEF LoneInv, vars
  <2>2. QED
    BY <1>5, <2>1 DEF vars, Alone, Active, Settled, SettledBut, Seen, Known, Coming, Answers
<1>6. ASSUME NEW d \in Daemons, Serve(d) PROVE Alone(c)'
  <2>1. client' = client
    BY <1>6 DEF Serve, Acquire, AlreadyServing, Truncate, WriteOwner, Clear, Bind, CheckOwner,
       ExitUnlink, Release
  <2>2. Alone(c)
    BY <1>2, <2>1 DEF LoneInv
  <2>3. QED
    BY <1>1, <1>6, <2>2, LoneServe
<1>7. ASSUME NEW b \in Clients, Ensure(b) \/ Request(b) PROVE Alone(c)'
  BY <1>2, <1>7, LoneBegins
<1>8. ASSUME NEW b \in Clients, Proceed(b) PROVE Alone(c)'
  <2>1. Active(b)
    BY <1>8 DEF Proceed, Ping, Probe, ProbeRelease, ReadHolder, Decide, Terminate, Reaped, Check,
       Unlink, Call, Spawn, Poll, Does, Active
  <2>2. CASE b = c
    <3>1. client'[c].alone = client[c].alone
      BY <1>1, <1>8, <2>2, ProceedKeeps
    <3>2. Alone(c)
      BY <1>2, <3>1 DEF LoneInv
    <3>3. QED
      BY <1>1, <1>8, <2>2, <3>2, LoneProceed
  <2>3. CASE b # c
    <3>1. client'[c] = client[c]
      BY <1>1, <1>8, <2>3 DEF TypeOK, Proceed, Ping, Probe, ProbeRelease, ReadHolder, Decide,
         Terminate, Reaped, Check, Unlink, Call, Spawn, Poll, Goto
    <3>2. Alone(c)
      BY <1>2, <3>1 DEF LoneInv
    <3>3. QED
      BY <2>1, <2>3, <3>2 DEF Alone
  <2>4. QED
    BY <2>2, <2>3
<1>9. QED
  BY <1>4, <1>5, <1>6, <1>7, <1>8 DEF Next

\* Whatever the races and faults before it left behind (a stale socket, a live
\* daemon without one, a hung one, an old one), an ensure that nothing comes
\* between never fails and ends with a current daemon that answers: for any
\* number of daemons, clients and faults.
THEOREM LoneEnsure == Spec => []LoneEnsureSucceeds
<1>1. LoneInv => LoneEnsureSucceeds
  BY DEF LoneInv, Alone, LoneEnsureSucceeds
<1>2. QED
  BY <1>1, LoneInit, LoneStep, InvAlways, PTL DEF Spec
=============================================================================
