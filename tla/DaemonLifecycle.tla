--------------------------- MODULE DaemonLifecycle ---------------------------
(***************************************************************************)
(* The daemon of one project: its life from spawn to exit                  *)
(* (broker.daemon.server.serve), the pidfile lock and the socket file      *)
(* (broker.daemon.pidfile), and the processes that need it: `ensure`       *)
(* (broker.daemon.ensure) and plain calls (broker.daemon.client.call).     *)
(*                                                                         *)
(* All of them are processes of one machine that share three files' worth  *)
(* of state: who holds the flock, the pid written in the pidfile, and the  *)
(* listener the socket path leads to.  Every system call on them is an     *)
(* action.                                                                 *)
(***************************************************************************)
EXTENDS Naturals, FiniteSets

CONSTANTS
    Daemons,    \* daemon processes, by pid; bounds the spawns
    Legacy,     \* those from before the pidfile: they never took the lock
    Clients,    \* processes that call ensure or call
    Nobody,     \* no holder, no owner, no listener, no target
    Faults,     \* what the environment may do
    MaxFaults   \* and how often (bound)

ASSUME LifecycleConstants ==
    /\ Legacy \subseteq Daemons
    /\ Daemons \cap Clients = {}
    /\ Nobody \notin Daemons \cup Clients
    /\ Faults \subseteq {"kill", "hang", "upgrade", "idle", "launch"}
    /\ MaxFaults \in Nat

VARIABLES
    daemon,   \* where each daemon is in serve()
    lock,     \* the holder of the flock on the pidfile
    pidfile,  \* the pid written in it
    socket,   \* the daemon that bound the file at the socket path
    client,   \* where each client is in ensure() or call()
    faults    \* faults so far (bound)

vars == <<daemon, lock, pidfile, socket, client, faults>>

Startup == {"starting", "locked", "owning", "writing", "clearing", "binding"}
Exit    == {"closing", "unlinking", "releasing"}

\* hung: it neither answers nor handles SIGTERM.  current: its source_version is
\* that of the source on disk.
DaemonState == [pc : {"unborn", "serving", "dead"} \cup Startup \cup Exit,
                hung : BOOLEAN, current : BOOLEAN]

\* health: who answered the ping.  target: who is to be reaped, then who
\* answered in the end.  then: where owner_checked_unlink returns to.  alone: no
\* fault and no other client has come between since the ensure began.
ClientState ==
    [pc : {"idle", "ping", "probe", "release", "read", "decide", "reap", "wait",
           "check", "unlink", "call", "spawn", "poll", "done", "failed"},
     health : Daemons \cup {Nobody}, fresh : BOOLEAN,
     target : Daemons \cup {Nobody}, then : {"probe", "call", "spawn"},
     alone : BOOLEAN]

TypeOK ==
    /\ daemon \in [Daemons -> DaemonState]
    /\ lock \in Daemons \cup Clients \cup {Nobody}
    /\ pidfile \in Daemons \cup {Nobody}
    /\ socket \in Daemons \cup {Nobody}
    /\ client \in [Clients -> ClientState]
    /\ faults \in 0..MaxFaults

IdleClient == [pc |-> "idle", health |-> Nobody, fresh |-> FALSE,
               target |-> Nobody, then |-> "call", alone |-> FALSE]

\* A daemon from before the pidfile may be serving; the pidfile is that of a dead
\* one (nothing ever removes it).
Init ==
    /\ socket \in Legacy \cup {Nobody}
    /\ daemon = [d \in Daemons |->
                    [pc |-> IF d = socket THEN "serving"
                            ELSE IF d \in Legacy THEN "dead" ELSE "unborn",
                     hung |-> FALSE, current |-> FALSE]]
    /\ lock = Nobody
    /\ pidfile = Nobody
    /\ client = [c \in Clients |-> IdleClient]
    /\ faults = 0

-----------------------------------------------------------------------------
Alive(d)   == daemon[d].pc \notin {"unborn", "dead"}
Answers(d) == d # Nobody /\ daemon[d].pc = "serving" /\ ~daemon[d].hung
Active(c)  == client[c].pc \notin {"idle", "done", "failed"}

\* A pid is left for one more client (bound).
Room == Cardinality({c \in Clients : Active(c)})
            < Cardinality({d \in Daemons : daemon[d].pc = "unborn"})

At(d, pc)    == daemon[d].pc = pc
Step(d, pc)  == daemon' = [daemon EXCEPT ![d] = [@ EXCEPT !.pc = pc]]
Does(c, pc)  == client[c].pc = pc
Goto(c, pc)  == client' = [client EXCEPT ![c] = [@ EXCEPT !.pc = pc]]

\* owner_checked_unlink goes on to unlink for process p.
MayUnlink(p) == pidfile \in {Nobody, p} \/ ~Alive(pidfile)

\* The kernel drops the lock of a process that dies.
Dies(d) ==
    /\ Step(d, "dead")
    /\ lock' = IF lock = d THEN Nobody ELSE lock

-----------------------------------------------------------------------------
(* serve                                                                   *)

\* Mutant: the descriptor is closed when acquire returns.
AcquireDrops(d) ==
    /\ At(d, "starting")
    /\ Step(d, IF lock = Nobody THEN "locked" ELSE "dead")
    /\ UNCHANGED <<lock, pidfile, socket, client, faults>>

Acquire(d) ==
    /\ At(d, "starting")
    /\ IF lock = Nobody THEN lock' = d /\ Step(d, "locked")
                        ELSE UNCHANGED lock /\ Step(d, "dead")
    /\ UNCHANGED <<pidfile, socket, client, faults>>

\* _already_serving: a hung listener accepts connections too.  Then DaemonState
\* takes the version of the source.
AlreadyServing(d) ==
    /\ At(d, "locked")
    /\ IF socket # Nobody /\ daemon[socket].pc = "serving"
         THEN Dies(d)
         ELSE /\ daemon' = [daemon EXCEPT ![d] = [@ EXCEPT !.pc = "owning",
                                                          !.current = TRUE]]
              /\ UNCHANGED lock
    /\ UNCHANGED <<pidfile, socket, client, faults>>

\* write_owner truncates the file, then writes it.
Truncate(d) ==
    /\ At(d, "owning")
    /\ pidfile' = Nobody
    /\ Step(d, "writing")
    /\ UNCHANGED <<lock, socket, client, faults>>

WriteOwner(d) ==
    /\ At(d, "writing")
    /\ pidfile' = d
    /\ Step(d, "clearing")
    /\ UNCHANGED <<lock, socket, client, faults>>

\* owner_checked_unlink by the owner.
Clear(d) ==
    /\ At(d, "clearing")
    /\ socket' = Nobody
    /\ Step(d, "binding")
    /\ UNCHANGED <<lock, pidfile, client, faults>>

\* start_unix_server; the handler of SIGTERM comes right after.
Bind(d) ==
    /\ At(d, "binding")
    /\ socket' = d
    /\ Step(d, "serving")
    /\ UNCHANGED <<lock, pidfile, client, faults>>

\* Mutant: the lock is released first.
ReleaseFirst(d) ==
    /\ At(d, "closing")
    /\ Step(d, IF d \in Legacy \/ MayUnlink(d) THEN "unlinking" ELSE "releasing")
    /\ lock' = IF lock = d THEN Nobody ELSE lock
    /\ UNCHANGED <<pidfile, socket, client, faults>>

\* The end of serve(): the listener is closed, the socket unlinked after a check
\* of the owner, the lock released.  The old daemons did not check.
CheckOwner(d) ==
    /\ At(d, "closing")
    /\ Step(d, IF d \in Legacy \/ MayUnlink(d) THEN "unlinking" ELSE "releasing")
    /\ UNCHANGED <<lock, pidfile, socket, client, faults>>

ExitUnlink(d) ==
    /\ At(d, "unlinking")
    /\ socket' = Nobody
    /\ Step(d, "releasing")
    /\ UNCHANGED <<lock, pidfile, client, faults>>

Release(d) ==
    /\ At(d, "releasing")
    /\ Dies(d)
    /\ UNCHANGED <<pidfile, socket, client, faults>>

-----------------------------------------------------------------------------
(* The environment                                                         *)

\* Nothing else may come between a lone ensure and its result.
Disturbed(f) == [c \in Clients |-> [f[c] EXCEPT !.alone = FALSE]]

Fault(kind) ==
    /\ kind \in Faults
    /\ faults < MaxFaults
    /\ faults' = faults + 1
    /\ client' = Disturbed(client)

Killed(d) ==
    /\ Fault("kill")
    /\ Alive(d)
    /\ Dies(d)
    /\ UNCHANGED <<pidfile, socket>>

Hang(d) ==
    /\ Fault("hang")
    /\ At(d, "serving")
    /\ daemon' = [daemon EXCEPT ![d] = [@ EXCEPT !.hung = TRUE]]
    /\ UNCHANGED <<lock, pidfile, socket>>

\* The source on disk changes under the daemons that run.
Upgrade ==
    /\ Fault("upgrade")
    /\ daemon' = [d \in Daemons |-> [daemon[d] EXCEPT !.current = FALSE]]
    /\ UNCHANGED <<lock, pidfile, socket>>

\* The idle watchdog.
Idle(d) ==
    /\ Fault("idle")
    /\ At(d, "serving") /\ ~daemon[d].hung
    /\ Step(d, "closing")
    /\ UNCHANGED <<lock, pidfile, socket>>

\* Something else starts a daemon (launchd, a shell).
Launch(d) ==
    /\ Fault("launch")
    /\ Room
    /\ At(d, "unborn")
    /\ Step(d, "starting")
    /\ UNCHANGED <<lock, pidfile, socket>>

-----------------------------------------------------------------------------
(* ensure                                                                  *)

Settled == \A d \in Daemons : daemon[d].pc \notin Startup \cup Exit

Ensure(c) ==
    /\ ~Active(c) /\ Room
    /\ client' = [Disturbed(client) EXCEPT ![c] =
           [IdleClient EXCEPT !.pc = "ping",
                              !.alone = Settled /\ \A b \in Clients : ~Active(b)]]
    /\ UNCHANGED <<daemon, lock, pidfile, socket, faults>>

\* call with spawn_if_missing = False; one that cannot connect, or is not
\* answered in time, heals a stale socket first.
Ping(c) ==
    /\ Does(c, "ping")
    /\ \/ /\ Answers(socket)
          /\ client' = [client EXCEPT ![c] = [@ EXCEPT !.pc = "probe", !.health = socket]]
       \/ /\ socket = Nobody
          /\ Goto(c, "probe")
       \/ /\ socket # Nobody /\ ~Answers(socket)
          /\ client' = [client EXCEPT ![c] = [@ EXCEPT !.pc = "check", !.then = "probe"]]
    /\ UNCHANGED <<daemon, lock, pidfile, socket, faults>>

\* holder_pid takes the lock if it can, and the version on disk is compared.
Probe(c) ==
    /\ Does(c, "probe")
    /\ client' = [client EXCEPT ![c] =
           [@ EXCEPT !.pc = IF lock = Nobody THEN "release" ELSE "read",
                     !.fresh = client[c].health # Nobody /\ daemon[client[c].health].current]]
    /\ lock' = IF lock = Nobody THEN c ELSE lock
    /\ UNCHANGED <<daemon, pidfile, socket, faults>>

ProbeRelease(c) ==
    /\ Does(c, "release")
    /\ lock' = Nobody
    /\ Goto(c, "decide")
    /\ UNCHANGED <<daemon, pidfile, socket, faults>>

\* Mutant: the pidfile is believed only if a daemon answers.
ReadSocketFirst(c) ==
    /\ Does(c, "read")
    /\ client' = [client EXCEPT ![c] =
           [@ EXCEPT !.pc = "decide",
                     !.target = IF pidfile # Nobody /\ Alive(pidfile) /\ Answers(socket)
                                THEN pidfile ELSE Nobody]]
    /\ UNCHANGED <<daemon, lock, pidfile, socket, faults>>

\* The lock is held: the pid in the file, if it is a live one.
ReadHolder(c) ==
    /\ Does(c, "read")
    /\ client' = [client EXCEPT ![c] =
           [@ EXCEPT !.pc = "decide",
                     !.target = IF pidfile # Nobody /\ Alive(pidfile) THEN pidfile
                                                                      ELSE Nobody]]
    /\ UNCHANGED <<daemon, lock, pidfile, socket, faults>>

\* decide_action, and the target of the reap.
Decide(c) ==
    /\ Does(c, "decide")
    /\ LET answered == client[c].health
           holder   == client[c].target IN
       client' = [client EXCEPT ![c] =
           IF answered # Nobody /\ client[c].fresh
             THEN [@ EXCEPT !.pc = "done", !.target = answered]
           ELSE IF answered = Nobody /\ holder = Nobody
             THEN [@ EXCEPT !.pc = "call"]
             ELSE [@ EXCEPT !.pc = "reap",
                            !.target = IF holder # Nobody THEN holder ELSE answered]]
    /\ UNCHANGED <<daemon, lock, pidfile, socket, faults>>

\* reap: SIGTERM.  A daemon without its handler dies, one that hangs does not care.
Terminate(c) ==
    /\ Does(c, "reap")
    /\ LET d == client[c].target IN
       IF daemon[d].pc \in Startup
         THEN Dies(d)
         ELSE /\ UNCHANGED lock
              /\ IF At(d, "serving") /\ ~daemon[d].hung THEN Step(d, "closing")
                                                        ELSE UNCHANGED daemon
    /\ Goto(c, "wait")
    /\ UNCHANGED <<pidfile, socket, faults>>

\* It is dead, or it is killed when the wait is over.
Reaped(c) ==
    /\ Does(c, "wait")
    /\ LET d == client[c].target IN
       IF Alive(d) THEN Dies(d) ELSE UNCHANGED <<daemon, lock>>
    /\ client' = [client EXCEPT ![c] = [@ EXCEPT !.pc = "check", !.then = "call"]]
    /\ UNCHANGED <<pidfile, socket, faults>>

\* owner_checked_unlink reads the pidfile, then unlinks.
Check(c) ==
    /\ Does(c, "check")
    /\ Goto(c, IF MayUnlink(c) THEN "unlink" ELSE client[c].then)
    /\ UNCHANGED <<daemon, lock, pidfile, socket, faults>>

Unlink(c) ==
    /\ Does(c, "unlink")
    /\ socket' = Nobody
    /\ Goto(c, client[c].then)
    /\ UNCHANGED <<daemon, lock, pidfile, faults>>

-----------------------------------------------------------------------------
(* call                                                                    *)

Request(c) ==
    /\ ~Active(c) /\ Room
    /\ client' = [Disturbed(client) EXCEPT ![c] = [IdleClient EXCEPT !.pc = "call"]]
    /\ UNCHANGED <<daemon, lock, pidfile, socket, faults>>

Call(c) ==
    /\ Does(c, "call")
    /\ \/ /\ Answers(socket)
          /\ client' = [client EXCEPT ![c] = [@ EXCEPT !.pc = "done", !.target = socket]]
       \/ /\ socket = Nobody
          /\ Goto(c, "spawn")
       \/ /\ socket # Nobody /\ ~Answers(socket)
          /\ client' = [client EXCEPT ![c] = [@ EXCEPT !.pc = "check", !.then = "spawn"]]
    /\ UNCHANGED <<daemon, lock, pidfile, socket, faults>>

Spawn(c) ==
    /\ Does(c, "spawn")
    /\ \E d \in Daemons :
         /\ At(d, "unborn")
         /\ Step(d, "starting")
    /\ Goto(c, "poll")
    /\ UNCHANGED <<lock, pidfile, socket, faults>>

\* Mutant: it polls for ever.
PollForEver(c) ==
    /\ Does(c, "poll")
    /\ Answers(socket)
    /\ client' = [client EXCEPT ![c] = [@ EXCEPT !.pc = "done", !.target = socket]]
    /\ UNCHANGED <<daemon, lock, pidfile, socket, faults>>

\* The deadline is long enough for a daemon that comes up to come up.
Poll(c) ==
    /\ Does(c, "poll")
    /\ \/ /\ Answers(socket)
          /\ client' = [client EXCEPT ![c] = [@ EXCEPT !.pc = "done", !.target = socket]]
       \/ /\ ~Answers(socket) /\ \A d \in Daemons : daemon[d].pc \notin Startup
          /\ Goto(c, "failed")
    /\ UNCHANGED <<daemon, lock, pidfile, socket, faults>>

-----------------------------------------------------------------------------
Serve(d) ==
    \/ Acquire(d) \/ AlreadyServing(d) \/ Truncate(d) \/ WriteOwner(d)
    \/ Clear(d) \/ Bind(d) \/ CheckOwner(d) \/ ExitUnlink(d) \/ Release(d)

Proceed(c) ==
    \/ Ping(c) \/ Probe(c) \/ ProbeRelease(c) \/ ReadHolder(c) \/ Decide(c)
    \/ Terminate(c) \/ Reaped(c) \/ Check(c) \/ Unlink(c)
    \/ Call(c) \/ Spawn(c) \/ Poll(c)

Next ==
    \/ \E d \in Daemons : Serve(d) \/ Killed(d) \/ Hang(d) \/ Idle(d) \/ Launch(d)
    \/ \E c \in Clients : Ensure(c) \/ Request(c) \/ Proceed(c)
    \/ Upgrade

Spec == Init /\ [][Next]_vars

\* The processes run.
FairSpec == /\ Spec
            /\ \A d \in Daemons : WF_vars(Serve(d))
            /\ \A c \in Clients : WF_vars(Proceed(c))

-----------------------------------------------------------------------------
\* A daemon that serves, or hangs, or lost its socket, is always to be found:
\* it holds the lock and the pidfile names it, until its exit is over
\* (pidfile.py: "a socketless zombie is still visible via holder_pid").
HolderIsNamed ==
    \A d \in Daemons \ Legacy :
        daemon[d].pc \in {"clearing", "binding", "serving"} \cup Exit =>
            lock = d /\ pidfile = d

\* The exit of a daemon never unlinks the socket of another, however late it is
\* (pidfile.py: the incident's third hole).
ExitSparesOthers ==
    [][\A d \in Daemons \ Legacy :
          At(d, "unlinking") /\ socket' # socket => socket \in {d, Nobody}]_vars

\* Whatever state the races and faults before it left behind (a stale socket, a
\* live daemon without one, a hung one, an old one), an ensure that nothing
\* comes between ends with a current daemon that answers.
LoneEnsureSucceeds ==
    \A c \in Clients :
        client[c].alone =>
            /\ client[c].pc # "failed"
            /\ client[c].pc = "done" =>
                 LET d == client[c].target
                 IN  /\ Answers(d) /\ socket = d
                     /\ daemon[d].current

\* Every ensure and every call comes to an end, whoever else runs.
EnsureReturns == \A c \in Clients : Active(c) ~> ~Active(c)

\* Nobody unlinks the socket a live daemon serves.
UnlinkSparesLive ==
    [][\A d \in Daemons :
          Answers(d) /\ socket = d /\ socket' # d => daemon'[d].pc # "serving"]_vars
=============================================================================
