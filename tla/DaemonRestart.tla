---------------------------- MODULE DaemonRestart ----------------------------
(***************************************************************************)
(* One machine's governance daemon and the clients that look after it       *)
(* (internal/client: restart.go, daemonstatus.go, establishDaemon).         *)
(* `client onboard` replaces a daemon of another build under the restart    *)
(* lock, a directory that its holder keeps fresh; `client validate` only    *)
(* starts one where none answers, and takes no lock.  They meet at the      *)
(* lock and at the listening address.                                      *)
(*                                                                         *)
(* A step is one system call on the lock directory or one exchange with     *)
(* whatever listens at the address.                                        *)
(***************************************************************************)
EXTENDS Naturals, FiniteSets

CONSTANTS Onboards, Validates,   \* the clients
          Builds,
          OldBuilds,      \* builds of the daemons found on the machine
          None,
          StaleAge,       \* lockTiming.staleAge in units of lockTiming.heartbeat
          MaxDelay,       \* bound: how far a live heartbeat is behind its ticker
          Scenarios       \* the machines considered: a Scenario for each name

Clients == Onboards \cup Validates

\* The clients somebody runs; the build of each and so of the daemons it starts; timely: drainWait and
\* freshWait outlast a closing listener and a start; a bound on the clients and
\* daemons that are killed or hang and the locks and starts that fail.
Scenario == [run : SUBSET Clients, build : [Clients -> Builds], timely : BOOLEAN, maxFaults : Nat]
Listeners == [kind : {"http", "tls", "foreign"}, build : Builds,
              phase : {"serving", "stopping", "wedged"}]

ASSUME ClientAssumption == Onboards \cap Validates = {} /\ IsFiniteSet(Clients)
ASSUME ScenarioAssumption == \A s \in DOMAIN Scenarios : Scenarios[s] \in Scenario
ASSUME BuildAssumption == None \notin Listeners \cup Nat /\ OldBuilds \subseteq Builds
\* defaultRestartTiming has a stale age of six heartbeats, so a heartbeat that the
\* scheduler keeps waiting for up to three intervals is in time.
ASSUME TimingAssumption == MaxDelay \in Nat \ {0} /\ StaleAge \in Nat /\ 2 * MaxDelay <= StaleAge

VARIABLES
    scenario,   \* which machine this is
    lock,       \* the restart.lock directory: absent, or its age in heartbeats
    beat,       \* the heartbeat goroutine of each client: the ticks it is behind
    port,       \* what listens at the address
    child,      \* the client has launched a daemon that has not listened yet
    pc,         \* where each client is
    told,       \* the onboards whose last run found a current daemon
    faults,
    orphaned    \* history: a client was killed while it held the lock

clientVars == <<pc, told>>
lockVars == <<lock, beat>>
faultVars == <<faults, orphaned>>
vars == <<scenario, lockVars, port, child, clientVars, faultVars>>

Build == Scenarios[scenario].build
Timely == Scenarios[scenario].timely
MaxFaults == Scenarios[scenario].maxFaults

Held == {"shutdown", "drain", "start", "fresh", "ok", "error"}
Points == Held \cup {"idle", "lock", "stat", "reap", "poll", "coldstart", "coldfresh",
                     "vstart", "vhealthy"}

Goto(c, step) == pc' = [pc EXCEPT ![c] = step] /\ UNCHANGED told
Begin(c, step) == pc' = [pc EXCEPT ![c] = step] /\ told' = told \ {c}
Return(c, r) ==
    /\ pc' = [pc EXCEPT ![c] = "idle"]
    /\ told' = (IF r = "ok" THEN told \cup ({c} \cap Onboards) ELSE told \ {c})

Answers(l) == l # None /\ l.phase # "wedged"
Current(c, l) == Answers(l) /\ l.kind = "http" /\ l.build = Build[c]
Holders == {c \in Clients : pc[c] \in Held}

----------------------------------------------------------------------------
(* ensureCurrentDaemon *)

\* probeDaemonIdentity, daemonStaleness and ensureAfterUnreadableIdentity.  A
\* daemon that is too slow to answer looks like none.
Probe(c) ==
    /\ c \in Onboards /\ pc[c] = "idle"
    /\ \/ Current(c, port) /\ Return(c, "ok")
       \/ /\ Answers(port)
          /\ port.kind = "http" => port.build # Build[c]
          /\ port.kind # "foreign"
          /\ Begin(c, "lock")
       \/ Answers(port) /\ port.kind = "foreign" /\ Return(c, "error")
       \/ /\ port # None => port.kind # "foreign"
          /\ Begin(c, "coldstart")
    /\ UNCHANGED <<scenario, lockVars, port, child, faultVars>>

\* mkdir makes a fresh directory, and startLockHeartbeat starts a ticker.
Take(c) ==
    /\ lock' = 0 /\ beat' = [beat EXCEPT ![c] = 0]
    /\ Goto(c, "shutdown")

\* Fault: a directory that is there already is good enough.
MkdirShared(c) ==
    /\ pc[c] = "lock"
    /\ Take(c)
    /\ UNCHANGED <<scenario, port, child, faultVars>>

\* acquireLockDir: mkdir succeeds for one client only.
Mkdir(c) ==
    /\ pc[c] = "lock"
    /\ \/ lock = None /\ Take(c)
       \/ lock # None /\ Goto(c, "stat") /\ UNCHANGED lockVars
    /\ UNCHANGED <<scenario, port, child, faultVars>>

\* The directory cannot be made: "this one never degrades to unlocked".
MkdirFails(c) ==
    /\ pc[c] = "lock" /\ faults < MaxFaults
    /\ Return(c, "error")
    /\ faults' = faults + 1
    /\ UNCHANGED <<scenario, lockVars, port, child, orphaned>>

\* reapStaleLockDir looks at the directory, and then removes what is there.
Stat(c) ==
    /\ pc[c] = "stat"
    /\ Goto(c, IF lock = StaleAge THEN "reap" ELSE "poll")
    /\ UNCHANGED <<scenario, lockVars, port, child, faultVars>>

\* Fault: the directory is not removed.
ReapNothing(c) ==
    /\ pc[c] = "reap"
    /\ Goto(c, "poll")
    /\ UNCHANGED <<scenario, lockVars, port, child, faultVars>>

Reap(c) ==
    /\ pc[c] = "reap"
    /\ lock' = None
    /\ Goto(c, "poll")
    /\ UNCHANGED <<scenario, beat, port, child, faultVars>>

Poll(c) ==
    /\ pc[c] = "poll"
    /\ Goto(c, "lock")
    /\ UNCHANGED <<scenario, lockVars, port, child, faultVars>>

\* The wait is over; no daemon has been touched.
GiveUp(c) ==
    /\ pc[c] = "poll"
    /\ Return(c, "error")
    /\ UNCHANGED <<scenario, lockVars, port, child, faultVars>>

\* requestDaemonShutdown: accepted, on the plain route or, by a TLS daemon, on a
\* fallback route; answered and declined, or no route this client can use; or dropped
\* or timed out, after which the restart proceeds whatever still listens.
Shutdown(c) ==
    /\ pc[c] = "shutdown"
    /\ \/ /\ Answers(port) /\ port.kind \in {"http", "tls"}
          /\ port' = [port EXCEPT !.phase = "stopping"]
          /\ Goto(c, "drain")
       \/ Answers(port) /\ Goto(c, "error") /\ UNCHANGED port
       \/ /\ Timely /\ Answers(port) => port.kind = "foreign"
          /\ Goto(c, "drain") /\ UNCHANGED port
    /\ UNCHANGED <<scenario, lockVars, child, faultVars>>

\* Fault: the new daemon is started without waiting for the old listener.
DrainSkipped(c) ==
    /\ pc[c] = "drain"
    /\ Goto(c, "start")
    /\ UNCHANGED <<scenario, lockVars, port, child, faultVars>>

\* drainDaemonAddress: until nothing accepts connections, or for drainWait.
Drain(c) ==
    /\ pc[c] = "drain"
    /\ Timely /\ port # None => port.phase # "stopping"
    /\ Goto(c, "start")
    /\ UNCHANGED <<scenario, lockVars, port, child, faultVars>>

\* The starter, under the lock, for a cold start and for validate: it launches a
\* process and learns nothing of what becomes of it.
NextOf(step) == CASE step = "start" -> "fresh" [] step = "coldstart" -> "coldfresh"
                  [] step = "vstart" -> "vhealthy"
StartDaemon(c) ==
    /\ pc[c] \in {"start", "coldstart", "vstart"}
    /\ child' = [child EXCEPT ![c] = TRUE]
    /\ Goto(c, NextOf(pc[c]))
    /\ UNCHANGED <<scenario, lockVars, port, faultVars>>

\* The executable cannot be started.  Only validate gives up at once.
StartFails(c) ==
    /\ pc[c] \in {"start", "coldstart", "vstart"} /\ faults < MaxFaults
    /\ IF pc[c] = "vstart" THEN Return(c, "error") ELSE Goto(c, NextOf(pc[c]))
    /\ faults' = faults + 1
    /\ UNCHANGED <<scenario, lockVars, port, child, orphaned>>

\* awaitFreshDaemon: an identity that is current, whoever started that daemon.
Fresh(c) ==
    /\ pc[c] \in {"fresh", "coldfresh"} /\ Current(c, port)
    /\ IF pc[c] = "fresh" THEN Goto(c, "ok") ELSE Return(c, "ok")
    /\ UNCHANGED <<scenario, lockVars, port, child, faultVars>>

\* Fault: there is no deadline.
FreshForever(c) == FALSE /\ UNCHANGED vars

FreshTimeout(c) ==
    /\ pc[c] \in {"fresh", "coldfresh"} /\ ~Current(c, port)
    /\ Timely => ~child[c]
    /\ IF pc[c] = "fresh" THEN Goto(c, "error") ELSE Return(c, "error")
    /\ UNCHANGED <<scenario, lockVars, port, child, faultVars>>

\* Fault: the directory is removed and its heartbeat left running.
ReleaseBeating(c) ==
    /\ pc[c] \in {"ok", "error"}
    /\ lock' = None
    /\ Return(c, pc[c])
    /\ UNCHANGED <<scenario, beat, port, child, faultVars>>

\* The deferred release stops the heartbeat, waits for it and removes the directory.
Release(c) ==
    /\ pc[c] \in {"ok", "error"}
    /\ lock' = None /\ beat' = [beat EXCEPT ![c] = None]
    /\ Return(c, pc[c])
    /\ UNCHANGED <<scenario, port, child, faultVars>>

----------------------------------------------------------------------------
(* establishDaemon, the path of client validate *)

\* probeDaemon, the scheme fallback and addressAlreadyOwned: any daemon will do,
\* and none is started behind a TLS listener that does not accept this client.
\* Another process that answers is not recognized.
Validate(c) ==
    /\ c \in Validates /\ pc[c] = "idle"
    /\ \/ Answers(port) /\ port.kind \in {"http", "tls"} /\ Return(c, "ok")
       \/ Answers(port) /\ port.kind = "tls" /\ Return(c, "error")
       \/ /\ Answers(port) => port.kind # "tls"
          /\ Begin(c, "vstart")
    /\ UNCHANGED <<scenario, lockVars, port, child, faultVars>>

Healthy(c) ==
    /\ pc[c] = "vhealthy"
    /\ \/ Answers(port) /\ port.kind = "http" /\ Return(c, "ok")
       \/ (Timely => ~child[c]) /\ Return(c, "error")
    /\ UNCHANGED <<scenario, lockVars, port, child, faultVars>>

----------------------------------------------------------------------------
(* The daemons, the clock and faults *)

\* runServer: the process that was launched binds the address, or ends.
Listen(c) ==
    /\ child[c]
    /\ child' = [child EXCEPT ![c] = FALSE]
    /\ port' = (IF port = None
                THEN [kind |-> "http", build |-> Build[c], phase |-> "serving"] ELSE port)
    /\ UNCHANGED <<scenario, lockVars, clientVars, faultVars>>

\* awaitShutdown and shutdown: the listener is closed.
CloseListener ==
    /\ port # None /\ port.phase = "stopping"
    /\ port' = None
    /\ UNCHANGED <<scenario, lockVars, child, clientVars, faultVars>>

\* One heartbeat interval passes: a directory grows older and every ticker fires.  The
\* scheduler lets no live heartbeat fall more than MaxDelay ticks behind.
Tick ==
    /\ \A c \in Clients : beat[c] # None => beat[c] < MaxDelay
    /\ lock \notin {None, StaleAge} \/ \E c \in Clients : beat[c] # None
    /\ lock' = (IF lock \in {None, StaleAge} THEN lock ELSE lock + 1)
    /\ beat' = [c \in Clients |-> IF beat[c] = None THEN None ELSE beat[c] + 1]
    /\ UNCHANGED <<scenario, port, child, clientVars, faultVars>>

\* Fault: the time goes to another path than the lock's.
HeartbeatElsewhere(c) ==
    /\ beat[c] \notin {None, 0}
    /\ beat' = [beat EXCEPT ![c] = 0]
    /\ UNCHANGED <<scenario, lock, port, child, clientVars, faultVars>>

\* The goroutine of startLockHeartbeat takes the one tick that its channel keeps, the
\* first it has not handled, and sets whatever directory is there to the time of it.
Heartbeat(c) ==
    /\ beat[c] \notin {None, 0}
    /\ beat' = [beat EXCEPT ![c] = 0]
    /\ lock' = (IF lock = None THEN None ELSE beat[c] - 1)
    /\ UNCHANGED <<scenario, port, child, clientVars, faultVars>>

\* A client is killed, its heartbeat with it; whoever ran it may run it again.
Crash(c) ==
    /\ pc[c] # "idle" /\ faults < MaxFaults
    /\ Return(c, "killed")
    /\ beat' = [beat EXCEPT ![c] = None]
    /\ faults' = faults + 1 /\ orphaned' = (orphaned \/ c \in Holders)
    /\ UNCHANGED <<scenario, lock, port, child>>

\* A daemon is killed, or hangs with its listener open.
DaemonFails ==
    /\ port # None /\ port.phase = "serving" /\ port.kind # "foreign" /\ faults < MaxFaults
    /\ \/ port' = None
       \/ port' = [port EXCEPT !.phase = "wedged"]
    /\ faults' = faults + 1
    /\ UNCHANGED <<scenario, lockVars, child, clientVars, orphaned>>

Init ==
    /\ scenario \in DOMAIN Scenarios
    /\ lock = None /\ beat = [c \in Clients |-> None]
    /\ port \in {None} \cup [kind : {"http", "tls", "foreign"}, build : OldBuilds, phase : {"serving"}]
    /\ child = [c \in Clients |-> FALSE]
    /\ pc = [c \in Clients |-> "idle"] /\ told = {}
    /\ faults = 0 /\ orphaned = FALSE

Run(c) == c \in Scenarios[scenario].run /\ (Probe(c) \/ Validate(c))
Step(c) ==
    \/ Mkdir(c) \/ Stat(c) \/ Reap(c) \/ Poll(c)
    \/ Shutdown(c) \/ Drain(c) \/ StartDaemon(c) \/ Fresh(c) \/ FreshTimeout(c)
    \/ Release(c) \/ Healthy(c)
Daemon == CloseListener \/ \E c \in Clients : Listen(c)
Fault(c) == Crash(c) \/ MkdirFails(c) \/ StartFails(c)

Next ==
    \/ \E c \in Clients : Run(c) \/ Step(c) \/ GiveUp(c) \/ Heartbeat(c) \/ Fault(c)
    \/ Daemon \/ Tick \/ DaemonFails

Spec == Init /\ [][Next]_vars

\* The scheduler runs clients, their heartbeats and daemons, time passes, and the
\* clock ends the wait for the lock.  Nobody has to run a client again.
FairSpec ==
    /\ Spec
    /\ \A c \in Clients : WF_vars(Step(c)) /\ WF_vars(Listen(c)) /\ WF_vars(Heartbeat(c))
    /\ \A c \in Onboards : SF_vars(GiveUp(c))
    /\ WF_vars(CloseListener) /\ WF_vars(Tick)
----------------------------------------------------------------------------
(* Properties *)

\* The lock, the address and the clients have the forms restart.go tells apart, and a
\* heartbeat runs for a client exactly as long as it holds the lock.
TypeOK ==
    /\ scenario \in DOMAIN Scenarios
    /\ lock \in {None} \cup 0..StaleAge
    /\ \A c \in Clients : beat[c] \in (IF c \in Holders THEN 0..MaxDelay ELSE {None})
    /\ port \in Listeners \cup {None}
    /\ child \in [Clients -> BOOLEAN]
    /\ pc \in [Clients -> Points] /\ told \subseteq Onboards
    /\ faults \in 0..MaxFaults /\ orphaned \in BOOLEAN

\* "one governance root, therefore one restart at a time on the machine"
\* (restart.go:92), whatever daemons and starts fail, as long as no client was killed
\* while it held the lock: reapStaleLockDir may remove a directory that was retaken
\* since it looked.
OneRestart == ~orphaned => Cardinality(Holders) <= 1

\* "a live lock is proven alive ... and can never be mistaken for residue however
\* long it is held; only a holder that died ... ages out" (restart.go:133): while a
\* restart runs, for however long, its directory is there and younger than staleAge,
\* and on no error path does it outlive the restart, unless a client was killed while
\* it held the lock.
LockAlive ==
    ~orphaned => IF Holders = {} THEN lock = None ELSE lock \in 0..(StaleAge - 1)

\* Clients of one build: whatever restarts and starts overlapped, once all is
\* quiet and some client was told that its daemon is up, a daemon of that build
\* serves.
QuietIsCurrent ==
    /\ Timely /\ faults = 0
    /\ \A c, d \in Clients : Build[c] = Build[d] /\ pc[c] = "idle" /\ ~child[c]
    /\ told # {}
    => port # None /\ port.phase = "serving" /\ \A c \in Onboards : Current(c, port)

\* Every run of a client ends, whatever holds the lock or the address.
EveryRunEnds == \A c \in Clients : pc[c] # "idle" ~> pc[c] = "idle"

\* The directory of a client that was killed does not stop restarts for ever: as
\* long as clients keep coming for the lock, it is free or held again and again.
OrphanReaped ==
    []<>(\E c \in Onboards : pc[c] = "stat") => []<>(lock = None \/ Holders # {})
=============================================================================
