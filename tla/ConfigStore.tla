----------------------------- MODULE ConfigStore -----------------------------
(***************************************************************************)
(* The governance root's configs/<repo>/config.json and caller-repos.json,  *)
(* the daemon's ConfigStore that mirrors them in memory                     *)
(* (internal/server: configstore.go, configstore_register.go, auth.go), and  *)
(* everyone who writes them: POST /register inside the daemon, `client       *)
(* onboard` outside it (internal/client/onboard.go), and the operator.       *)
(*                                                                         *)
(* The watcher learns of a write from an event, waits for the debounce and   *)
(* reads the file; /register reloads what it wrote itself.  Configs are      *)
(* replaced by rename (/register) or truncated and written in place          *)
(* (onboard); the bindings are always written in place.  A step is one       *)
(* system call on a shared file or one critical section of the store.        *)
(***************************************************************************)
EXTENDS Naturals, Sequences, FiniteSets

CONSTANTS Registers, Onboards,   \* the writers
          Repos, Configs, Callers,
          Local,          \* the implicit caller of the local listen mode
          Admins,         \* key of the admins list, beside the repositories
          Listed,         \* the bindings on disk at the start
          None,
          Scenarios       \* the situations considered: a Scenario for each name

Procs == Registers \cup Onboards
Pairs == Callers \X (Repos \cup {Admins})
Policy == "policy"      \* callerPolicyReloadKey

ASSUME ProcAssumption == Registers \cap Onboards = {} /\ Local \notin Callers
ASSUME KeyAssumption == Admins \notin Repos /\ Policy \notin Repos /\ Listed \subseteq Pairs
ASSUME ContentAssumption == {"absent", "torn", "none", "invalid"} \cap Configs = {}

\* What a writer is asked to register, and for whom.
Jobs == [repo : Repos, config : Configs, caller : Callers \cup {Local}]

\* Who writes, the jobs each may have, and bounds on the operator's edits and on the
\* failed operations and killed processes.
Scenario == [active : SUBSET Procs, jobs : [Procs -> SUBSET Jobs], maxEdits : Nat, maxFaults : Nat]
ASSUME ScenarioAssumption == \A s \in DOMAIN Scenarios : Scenarios[s] \in Scenario

VARIABLES
    scenario,       \* which situation this is
    dir, file,      \* repository directories and their config.json
    bindings,       \* caller-repos.json: the pairs it lists, or None when truncated
    lockDir,        \* caller-repos.json.lock
    unlocked,       \* the onboards that went on without it
    phase,          \* the daemon: down, scanned, up
    entries, policy,            \* the store's memory
    watched, watchedPaths,      \* watches of the kernel, and those the store knows of
    events, pending, watcher,   \* the watch loop
    pc, result, job, seen,      \* the writers; seen is what one has read
    missed,         \* history: what was written between the scan and the watches, and
                    \* the repositories that could not be watched
    edits, faults

disk == <<dir, file, bindings, lockDir, unlocked>>
loop == <<pending, watcher>>
watches == <<watched, watchedPaths>>
procVars == <<pc, result, job, seen>>
bounds == <<scenario, edits, faults>>
vars == <<disk, phase, entries, policy, watches, events, loop, procVars, missed, bounds>>

Active == Scenarios[scenario].active
MaxEdits == Scenarios[scenario].maxEdits
MaxFaults == Scenarios[scenario].maxFaults

Idle == [step |-> "select", key |-> None, read |-> None]
Registering == {"mkdir", "write", "activate", "read", "store", "bind", "truncate", "flush",
                "readPolicy", "storePolicy"}
Requesting == Registering \cup {"plan"}
Locked == {"load", "otruncate", "oflush", "unlock"}
Onboarding == Locked \cup {"sync", "ctruncate", "cflush", "lock", "stat", "reap", "await"}

Goto(p, step) == pc' = [pc EXCEPT ![p] = step] /\ UNCHANGED <<result, job, seen>>
GotoWith(p, step, s) ==
    /\ pc' = [pc EXCEPT ![p] = step] /\ seen' = [seen EXCEPT ![p] = s]
    /\ UNCHANGED <<result, job>>
Return(p, r) ==
    /\ pc' = [pc EXCEPT ![p] = "done"] /\ result' = [result EXCEPT ![p] = r]
    /\ seen' = [seen EXCEPT ![p] = None] /\ UNCHANGED job

\* A write: an event, if the path is watched, which the kernel merges with an equal
\* one at the end of its queue.
Event(kind, r) == [kind |-> kind, repo |-> r]
Notify(watching, e) ==
    /\ events' = (IF ~watching \/ (events # <<>> /\ events[Len(events)] = e) THEN events
                  ELSE Append(events, e))
    /\ missed' = (IF phase # "scanned" THEN missed
                  ELSE missed \cup {IF e.kind = "policy" THEN Policy ELSE e.repo})
NotifyConfig(r) == Notify(phase = "up" /\ r \in watched, Event("config", r))
NotifyDir(kind, r) == Notify(phase = "up", Event(kind, r))
NotifyPolicy == Notify(phase = "up", Event("policy", None))

\* Fault: whatever is read is served.
EntryUnchecked(f) == f

\* parseConfigContent and loadChildConfig: what the store makes of a file.
Entry(f) == IF f \in Configs THEN f ELSE "invalid"
\* parseCallerRepoPolicy after a reload: an unreadable document allows nobody.
PolicyOf(b) == IF b = None THEN {} ELSE b
IsAdmin(c) == c = Local \/ <<c, Admins>> \in policy

----------------------------------------------------------------------------
(* The daemon's start: newConfigStore *)

\* scanMountedConfigs and loadCallerRepoPolicy.  A truncated bindings file is a
\* parse error, and the daemon does not start.
Scan ==
    /\ phase = "down" /\ bindings # None
    /\ phase' = "scanned" /\ missed' = {}
    /\ entries' = [r \in Repos |-> IF file[r] = "absent" THEN "none" ELSE Entry(file[r])]
    /\ policy' = bindings
    /\ watchedPaths' = dir      \* repoDirs, the paths to watch
    /\ UNCHANGED <<disk, watched, events, loop, procVars, bounds>>

\* watchInitialPaths, then the watch loop: the repositories that the scan found.
WatchInitialPaths ==
    /\ phase = "scanned"
    /\ phase' = "up"
    /\ watched' = watchedPaths \cap dir /\ watchedPaths' = watchedPaths \cap dir
    /\ UNCHANGED <<disk, entries, policy, events, loop, procVars, missed, bounds>>

----------------------------------------------------------------------------
(* The watch loop *)

ensureWatch(r) ==
    IF r \in dir /\ r \notin watchedPaths
    THEN watched' = watched \cup {r} /\ watchedPaths' = watchedPaths \cup {r}
    ELSE UNCHANGED watches

\* Fault: a removed directory is still taken to be watched.
HandleEventKeepsWatch ==
    LET e == Head(events) IN
    /\ phase = "up" /\ watcher = Idle /\ events # <<>>
    /\ events' = Tail(events)
    /\ CASE e.kind = "policy" -> pending' = pending \cup {Policy} /\ UNCHANGED <<watcher, watches>>
         [] e.kind = "config" -> pending' = pending \cup {e.repo} /\ UNCHANGED <<watcher, watches>>
         [] e.kind = "removed" -> UNCHANGED <<pending, watcher, watches>>
         [] e.kind = "created" -> /\ ensureWatch(e.repo)
                                  /\ watcher' = [Idle EXCEPT !.step = "stat", !.key = e.repo]
                                  /\ UNCHANGED pending
    /\ UNCHANGED <<disk, phase, entries, policy, procVars, missed, bounds>>

\* handleEvent and recordWatchEvent.  The timer runs while something is pending.
HandleEvent ==
    LET e == Head(events) IN
    /\ phase = "up" /\ watcher = Idle /\ events # <<>>
    /\ events' = Tail(events)
    /\ CASE e.kind = "policy" -> pending' = pending \cup {Policy} /\ UNCHANGED <<watcher, watches>>
         [] e.kind = "config" -> pending' = pending \cup {e.repo} /\ UNCHANGED <<watcher, watches>>
         [] e.kind = "removed" -> /\ watchedPaths' = watchedPaths \ {e.repo}
                                  /\ pending' = pending \cup ({e.repo} \ {r \in Repos : entries[r] = "none"})
                                  /\ UNCHANGED <<watched, watcher>>
         [] e.kind = "created" -> /\ ensureWatch(e.repo)
                                  /\ watcher' = [Idle EXCEPT !.step = "stat", !.key = e.repo]
                                  /\ UNCHANGED pending
    /\ UNCHANGED <<disk, phase, entries, policy, procVars, missed, bounds>>

\* watcher.Add fails for a new directory: the event is dropped, config and all.
WatchFails ==
    LET e == Head(events) IN
    /\ phase = "up" /\ watcher = Idle /\ events # <<>>
    /\ e.kind = "created" /\ e.repo \in dir \ watchedPaths
    /\ faults < MaxFaults /\ faults' = faults + 1
    /\ events' = Tail(events)
    /\ missed' = missed \cup {e.repo}
    /\ UNCHANGED <<disk, phase, entries, policy, watches, loop, procVars, scenario, edits>>

\* Fault: a new directory is watched and its content left to later events.
StatSkipped ==
    /\ watcher.step = "stat"
    /\ watcher' = Idle
    /\ UNCHANGED <<disk, phase, entries, policy, watches, events, pending, procVars, missed, bounds>>

\* A config that was there before the watch is reloaded too.
Stat ==
    /\ watcher.step = "stat"
    /\ pending' = (IF file[watcher.key] # "absent" THEN pending \cup {watcher.key} ELSE pending)
    /\ watcher' = Idle
    /\ UNCHANGED <<disk, phase, entries, policy, watches, events, procVars, missed, bounds>>

\* The timer fires, flushPendingReloads reads one file after the other.
\* readConfigWithRetry hides short read errors.
FlushRead(key) ==
    /\ phase = "up" /\ watcher.step \in {"select", "flush"} /\ key \in pending
    /\ watcher' = [step |-> "reload", key |-> key,
                   read |-> IF key = Policy THEN PolicyOf(bindings) ELSE Entry(file[key])]
    /\ UNCHANGED <<disk, phase, entries, policy, watches, events, pending, procVars, missed, bounds>>

\* storeEntry or storeCallerRepoPolicy, and the key is no longer pending.
FlushStore ==
    /\ watcher.step = "reload"
    /\ IF watcher.key = Policy THEN policy' = watcher.read /\ UNCHANGED entries
       ELSE entries' = [entries EXCEPT ![watcher.key] = watcher.read] /\ UNCHANGED policy
    /\ pending' = pending \ {watcher.key}
    /\ watcher' = (IF pending' = {} THEN Idle ELSE [Idle EXCEPT !.step = "flush"])
    /\ UNCHANGED <<disk, phase, watches, events, procVars, missed, bounds>>

----------------------------------------------------------------------------
(* POST /register *)

\* Where a registration goes on once the repository is served: the local caller is
\* never bound.
AfterConfig(p) == IF job[p].caller = Local THEN Return(p, "ok") ELSE GotoWith(p, "bind", None)

\* registerHandler asks whether the caller is an admin before it takes registerMu.
Arrive(p) ==
    /\ p \in Registers \cap Active /\ pc[p] = "idle" /\ phase = "up"
    /\ GotoWith(p, "plan", IsAdmin(job[p].caller))
    /\ UNCHANGED <<disk, phase, entries, policy, watches, events, loop, missed, bounds>>

\* registerMu and planRegistration.
Plan(p) ==
    /\ pc[p] = "plan" /\ \A q \in Registers : pc[q] \notin Registering
    /\ LET existing == entries[job[p].repo] IN
       IF existing \in {"none", "invalid"} THEN GotoWith(p, "mkdir", None)
       ELSE IF existing = job[p].config THEN AfterConfig(p)
       ELSE IF seen[p] THEN GotoWith(p, "mkdir", None)
       ELSE Return(p, "conflict")
    /\ UNCHANGED <<disk, phase, entries, policy, watches, events, loop, missed, bounds>>

\* A file that is renamed over or removed stays with the onboard that has it open.
Orphan(r) == [q \in Procs |-> IF pc[q] = "cflush" /\ job[q].repo = r THEN "orphan" ELSE seen[q]]

\* writeRegisteredConfig: the directory, then the file by rename.
Mkdir(p) ==
    /\ pc[p] \in {"mkdir", "sync"}
    /\ IF job[p].repo \in dir THEN UNCHANGED <<dir, events, missed>>
       ELSE dir' = dir \cup {job[p].repo} /\ NotifyDir("created", job[p].repo)
    /\ Goto(p, IF pc[p] = "mkdir" THEN "write" ELSE "ctruncate")
    /\ UNCHANGED <<file, bindings, lockDir, unlocked, phase, entries, policy, watches, loop, bounds>>

WriteConfig(p) ==
    LET r == job[p].repo IN
    /\ pc[p] = "write"
    /\ IF r \in dir
       THEN /\ file' = [file EXCEPT ![r] = job[p].config] /\ NotifyConfig(r)
            /\ pc' = [pc EXCEPT ![p] = "activate"] /\ seen' = Orphan(r)
            /\ UNCHANGED <<result, job>>
       ELSE Return(p, "error") /\ UNCHANGED <<file, events, missed>>
    /\ UNCHANGED <<dir, bindings, lockDir, unlocked, phase, entries, policy, watches, loop, bounds>>

\* Fault: the new config is left to the watcher.
ActivateLater(p) ==
    /\ pc[p] = "activate"
    /\ ensureWatch(job[p].repo)
    /\ AfterConfig(p)
    /\ UNCHANGED <<disk, phase, entries, policy, events, loop, missed, bounds>>

\* activateRepoConfig: the watch, and the synchronous reload.
Activate(p) ==
    /\ pc[p] = "activate"
    /\ ensureWatch(job[p].repo)
    /\ Goto(p, "read")
    /\ UNCHANGED <<disk, phase, entries, policy, events, loop, missed, bounds>>

ReadEntry(p) ==
    /\ pc[p] = "read"
    /\ GotoWith(p, "store", Entry(file[job[p].repo]))
    /\ UNCHANGED <<disk, phase, entries, policy, watches, events, loop, missed, bounds>>

StoreEntry(p) ==
    /\ pc[p] = "store"
    /\ entries' = [entries EXCEPT ![job[p].repo] = seen[p]]
    /\ AfterConfig(p)
    /\ UNCHANGED <<disk, phase, policy, watches, events, loop, missed, bounds>>

\* bindCallerToRepo and ensureCallerBinding: the document is read, an empty file as an
\* empty one, and rewritten if the binding is missing.
Bind(p) ==
    LET pair == <<job[p].caller, job[p].repo>>
        document == PolicyOf(bindings) IN
    /\ pc[p] \in {"bind", "load"}
    /\ IF pair \in document THEN (IF pc[p] = "bind" THEN Return(p, "ok") ELSE Goto(p, "unlock"))
       ELSE GotoWith(p, IF pc[p] = "bind" THEN "truncate" ELSE "otruncate", document \cup {pair})
    /\ UNCHANGED <<disk, phase, entries, policy, watches, events, loop, missed, bounds>>

\* writeCallerBindingsDocument and writeCallerBindings: os.WriteFile, in place.
Truncate(p) ==
    /\ pc[p] \in {"truncate", "otruncate"}
    /\ bindings' = None /\ NotifyPolicy
    /\ Goto(p, IF pc[p] = "truncate" THEN "flush" ELSE "oflush")
    /\ UNCHANGED <<dir, file, lockDir, unlocked, phase, entries, policy, watches, loop, bounds>>

Flush(p) ==
    /\ pc[p] \in {"flush", "oflush"}
    /\ bindings' = seen[p] /\ NotifyPolicy
    /\ GotoWith(p, IF pc[p] = "flush" THEN "readPolicy" ELSE "unlock", None)
    /\ UNCHANGED <<dir, file, lockDir, unlocked, phase, entries, policy, watches, loop, bounds>>

\* reloadCallerRepoPolicy.
ReadPolicy(p) ==
    /\ pc[p] = "readPolicy"
    /\ GotoWith(p, "storePolicy", PolicyOf(bindings))
    /\ UNCHANGED <<disk, phase, entries, policy, watches, events, loop, missed, bounds>>

StorePolicy(p) ==
    /\ pc[p] = "storePolicy"
    /\ policy' = seen[p]
    /\ Return(p, "ok")
    /\ UNCHANGED <<disk, phase, entries, watches, events, loop, missed, bounds>>

\* An operation that fails ends the request with an error, at the step it has reached.
RegisterFails(p) ==
    /\ faults < MaxFaults /\ faults' = faults + 1
    /\ pc[p] \in {"mkdir", "write", "activate", "bind", "truncate", "flush"}
    /\ Return(p, "error")
    /\ UNCHANGED <<disk, phase, entries, policy, watches, events, loop, missed, scenario, edits>>

RegisterStep(p) ==
    \/ Arrive(p) \/ Plan(p) \/ WriteConfig(p) \/ Activate(p) \/ ReadEntry(p) \/ StoreEntry(p)
    \/ ReadPolicy(p) \/ StorePolicy(p)

----------------------------------------------------------------------------
(* client onboard, where the daemon is managed: scaffoldConfig, authorizeCaller and
   awaitRegistration. *)

Begin(p) ==
    /\ p \in Onboards \cap Active /\ pc[p] = "idle"
    /\ Goto(p, "sync")
    /\ UNCHANGED <<disk, phase, entries, policy, watches, events, loop, missed, bounds>>

\* syncSharedConfig writes in place; a directory that is gone is an error.
SyncTruncate(p) ==
    LET r == job[p].repo IN
    /\ pc[p] = "ctruncate"
    /\ IF r \in dir THEN file' = [file EXCEPT ![r] = "torn"] /\ NotifyConfig(r) /\ Goto(p, "cflush")
       ELSE Return(p, "error") /\ UNCHANGED <<file, events, missed>>
    /\ UNCHANGED <<dir, bindings, lockDir, unlocked, phase, entries, policy, watches, loop, bounds>>

\* The content goes to the start of the file: over a longer one that another writer
\* has put there since, it leaves that one's tail.
SyncFlush(p) ==
    LET r == job[p].repo IN
    /\ pc[p] = "cflush"
    /\ \/ seen[p] = "orphan" /\ UNCHANGED <<file, events, missed>>
       \/ /\ seen[p] # "orphan"
          /\ \E c \in {job[p].config, "torn"} :
               /\ c = "torn" => file[r] \notin {"torn", job[p].config}
               /\ file' = [file EXCEPT ![r] = c]
          /\ NotifyConfig(r)
    /\ GotoWith(p, IF job[p].caller = Local THEN "await" ELSE "lock", None)
    /\ UNCHANGED <<dir, bindings, lockDir, unlocked, phase, entries, policy, watches, loop, bounds>>

\* Fault: an existing lock does not keep a writer out.
LockShared(p) ==
    /\ pc[p] = "lock"
    /\ lockDir' = "fresh" /\ Goto(p, "load")
    /\ UNCHANGED <<dir, file, bindings, unlocked, phase, entries, policy, watches, events, loop, missed, bounds>>

\* acquireBindingsLock: mkdir, or else stat, reap and another turn until the deadline.
Lock(p) ==
    /\ pc[p] = "lock"
    /\ IF lockDir = "free" THEN lockDir' = "fresh" /\ Goto(p, "load")
       ELSE UNCHANGED lockDir /\ Goto(p, "stat")
    /\ UNCHANGED <<dir, file, bindings, unlocked, phase, entries, policy, watches, events, loop, missed, bounds>>

\* Where the lock cannot be made the cycle runs without it, and without releasing it.
LockDegrades(p) ==
    /\ pc[p] = "lock"
    /\ faults < MaxFaults /\ faults' = faults + 1
    /\ unlocked' = unlocked \cup {p} /\ Goto(p, "load")
    /\ UNCHANGED <<dir, file, bindings, lockDir, phase, entries, policy, watches, events, loop,
                   missed, scenario, edits>>

StatLock(p) ==
    /\ pc[p] = "stat"
    /\ IF lockDir = "stale" THEN Goto(p, "reap") ELSE Goto(p, "lock") \/ Return(p, "error")
    /\ UNCHANGED <<disk, phase, entries, policy, watches, events, loop, missed, bounds>>

Reap(p) ==
    /\ pc[p] = "reap"
    /\ lockDir' = "free"
    /\ Goto(p, "lock") \/ Return(p, "error")
    /\ UNCHANGED <<dir, file, bindings, unlocked, phase, entries, policy, watches, events, loop, missed, bounds>>

Unlock(p) ==
    /\ pc[p] = "unlock"
    /\ lockDir' = (IF p \in unlocked THEN lockDir ELSE "free")
    /\ Goto(p, "await")
    /\ UNCHANGED <<dir, file, bindings, unlocked, phase, entries, policy, watches, events, loop, missed, bounds>>

\* awaitRegistration polls /preflight for five seconds.
Acknowledged(p) ==
    /\ pc[p] = "await" /\ phase = "up"
    /\ entries[job[p].repo] \in Configs
    /\ job[p].caller # Local => <<job[p].caller, job[p].repo>> \in policy
    /\ Return(p, "ok")
    /\ UNCHANGED <<disk, phase, entries, policy, watches, events, loop, missed, bounds>>

AwaitTimeout(p) ==
    /\ pc[p] = "await"
    /\ Return(p, "unacknowledged")
    /\ UNCHANGED <<disk, phase, entries, policy, watches, events, loop, missed, bounds>>

OnboardStep(p) ==
    \/ Begin(p) \/ SyncTruncate(p) \/ SyncFlush(p) \/ Lock(p) \/ StatLock(p) \/ Reap(p)
    \/ Unlock(p) \/ Acknowledged(p) \/ AwaitTimeout(p)

\* The steps that both writers take.
Step(p) == RegisterStep(p) \/ OnboardStep(p) \/ Mkdir(p) \/ Bind(p) \/ Truncate(p) \/ Flush(p)

----------------------------------------------------------------------------
(* The operator, and what goes wrong *)

\* An edit in an editor that writes in place, or that renames: one visible change.
Edit(r, c) ==
    /\ edits < MaxEdits /\ edits' = edits + 1
    /\ r \in dir /\ file[r] # c
    /\ file' = [file EXCEPT ![r] = c] /\ NotifyConfig(r)
    /\ UNCHANGED <<dir, bindings, lockDir, unlocked, phase, entries, policy, watches, loop, procVars,
                   scenario, faults>>

\* mkdir configs/<repo>.
MakeDir(r) ==
    /\ edits < MaxEdits /\ edits' = edits + 1
    /\ r \notin dir
    /\ dir' = dir \cup {r} /\ NotifyDir("created", r)
    /\ UNCHANGED <<file, bindings, lockDir, unlocked, phase, entries, policy, watches, loop, procVars,
                   scenario, faults>>

\* rm -r configs/<repo>: the kernel drops the watch with the directory.
RemoveDir(r) ==
    /\ edits < MaxEdits /\ edits' = edits + 1
    /\ r \in dir
    /\ dir' = dir \ {r} /\ file' = [file EXCEPT ![r] = "absent"]
    /\ watched' = watched \ {r} /\ NotifyDir("removed", r)
    /\ seen' = Orphan(r)
    /\ UNCHANGED <<bindings, lockDir, unlocked, phase, entries, policy, watchedPaths, loop, pc, result,
                   job, scenario, faults>>

Cleared == [r \in Repos |-> "none"]

\* The daemon is killed, and its requests with it.
CrashDaemon ==
    /\ faults < MaxFaults /\ faults' = faults + 1
    /\ phase \in {"scanned", "up"}
    /\ phase' = "down" /\ entries' = Cleared /\ policy' = {}
    /\ watched' = {} /\ watchedPaths' = {} /\ events' = <<>> /\ pending' = {} /\ watcher' = Idle
    /\ pc' = [p \in Procs |-> IF pc[p] \in Requesting THEN "done" ELSE pc[p]]
    /\ result' = [p \in Procs |-> IF pc[p] \in Requesting THEN "error" ELSE result[p]]
    /\ seen' = [p \in Procs |-> IF pc[p] \in Requesting THEN None ELSE seen[p]]
    /\ UNCHANGED <<disk, job, missed, scenario, edits>>

KillOnboard(p) ==
    /\ faults < MaxFaults /\ faults' = faults + 1
    /\ pc[p] \in Onboarding
    /\ Return(p, "error")
    /\ UNCHANGED <<disk, phase, entries, policy, watches, events, loop, missed, scenario, edits>>

\* A writer holds the lock for milliseconds: only a dead one's reaches bindingsLockStaleAge.
Age ==
    /\ lockDir = "fresh" /\ \A p \in Onboards \ unlocked : pc[p] \notin Locked
    /\ lockDir' = "stale"
    /\ UNCHANGED <<dir, file, bindings, unlocked, phase, entries, policy, watches, events, loop, procVars,
                   missed, bounds>>

----------------------------------------------------------------------------
Init ==
    /\ scenario \in DOMAIN Scenarios
    /\ dir \in SUBSET Repos
    /\ file \in {f \in [Repos -> Configs \cup {"absent", "torn"}] :
                     \A r \in Repos : r \notin dir => f[r] = "absent"}
    /\ bindings = Listed /\ lockDir = "free" /\ unlocked = {}
    /\ phase = "down" /\ entries = Cleared /\ policy = {}
    /\ watched = {} /\ watchedPaths = {} /\ events = <<>> /\ pending = {} /\ watcher = Idle
    /\ pc = [p \in Procs |-> "idle"] /\ result = [p \in Procs |-> "none"]
    /\ LET jobs == Scenarios[scenario].jobs IN
       job \in {j \in [Procs -> Jobs] : \A p \in Procs :
                   j[p] \in (IF p \in Active THEN jobs[p] ELSE {CHOOSE k \in jobs[p] : TRUE})}
    /\ seen = [p \in Procs |-> None]
    /\ missed = {} /\ edits = 0 /\ faults = 0

Loop == HandleEvent \/ Stat \/ (\E key \in Repos \cup {Policy} : FlushRead(key)) \/ FlushStore

Next ==
    \/ Scan \/ WatchInitialPaths \/ Loop \/ Age \/ WatchFails \/ CrashDaemon
    \/ \E p \in Procs : Step(p) \/ RegisterFails(p) \/ LockDegrades(p) \/ KillOnboard(p)
    \/ \E r \in Repos : MakeDir(r) \/ RemoveDir(r) \/ \E c \in Configs : Edit(r, c)

Spec == Init /\ [][Next]_vars

\* Someone starts the daemon again, the watch loop and the writers are scheduled, and a
\* lock that nobody holds grows old.
FairSpec ==
    /\ Spec
    /\ WF_vars(Scan \/ WatchInitialPaths) /\ WF_vars(Loop) /\ WF_vars(Age)
    /\ \A p \in Procs : WF_vars(Step(p))

----------------------------------------------------------------------------
(* Properties *)

Contents == Configs \cup {"none", "invalid"}
Events == [kind : {"config", "created", "removed"}, repo : Repos] \cup {Event("policy", None)}

\* The variables have their types; in particular the store's memory only holds entries
\* and policies, and a known watch stands for a directory of configs/.
TypeOK ==
    /\ scenario \in DOMAIN Scenarios
    /\ dir \subseteq Repos /\ file \in [Repos -> Configs \cup {"absent", "torn"}]
    /\ bindings = None \/ bindings \subseteq Pairs
    /\ lockDir \in {"free", "fresh", "stale"} /\ unlocked \subseteq Onboards
    /\ phase \in {"down", "scanned", "up"}
    /\ entries \in [Repos -> Contents] /\ policy \subseteq Pairs
    /\ watched \subseteq Repos /\ watchedPaths \subseteq Repos
    /\ \A i \in DOMAIN events : events[i] \in Events
    /\ pending \subseteq Repos \cup {Policy}
    /\ watcher.step \in {"select", "stat", "flush", "reload"}
    /\ \A p \in Procs :
         /\ pc[p] \in {"idle", "done"} \cup (IF p \in Registers THEN Requesting ELSE Onboarding)
         /\ result[p] \in {"none", "ok", "conflict", "error", "unacknowledged"}
         /\ job[p] \in Jobs
    /\ missed \subseteq Repos \cup {Policy}
    /\ edits \in 0..MaxEdits /\ faults \in 0..MaxFaults

\* What is in memory is what is on disk, for one repository and for the policy.
EntryCurrent(r) ==
    /\ file[r] = "absent" => entries[r] \in {"none", "invalid"}
    /\ file[r] # "absent" => entries[r] = Entry(file[r])
    /\ r \in dir <=> r \in watched
PolicyCurrent == policy = PolicyOf(bindings)

\* Everything that was not written between the scan and the watches, and could be
\* watched, is current.
Synced ==
    /\ phase = "up"
    /\ \A r \in Repos \ missed : EntryCurrent(r)
    /\ Policy \notin missed => PolicyCurrent

\* Nothing to do for the watch loop, and no request that has written and not yet reloaded.
Quiet ==
    /\ phase = "up" /\ events = <<>> /\ pending = {} /\ watcher = Idle
    /\ \A p \in Registers : pc[p] \notin Registering

\* Only requests, or only writers outside of the daemon, change the files.
OneKindOfWriter ==
    \/ Active \cap Registers = {}
    \/ Active \subseteq Registers /\ edits = 0

\* Once the watch loop has nothing left to do, the store serves what is on disk: no event
\* is lost between a directory's creation, its watch and its config (handleEvent's stat),
\* nor when a directory is removed and made again (forgetWatch).
QuietSynced == OneKindOfWriter /\ Quiet => Synced

\* The bindings that the writers have been told are there.
Bound(p) ==
    /\ job[p].caller # Local
    /\ \/ p \in Registers /\ result[p] = "ok"
       \/ p \in Onboards /\ (pc[p] \in {"unlock", "await"} \/ result[p] \in {"ok", "unacknowledged"})
AcknowledgedBindings == Listed \cup {<<job[p].caller, job[p].repo>> : p \in {q \in Procs : Bound(q)}}

\* Between two rewrites of caller-repos.json every binding and admin that was listed or
\* acknowledged is in it.
NoBindingLost ==
    (\A p \in Procs : pc[p] \notin {"flush", "oflush"}) => AcknowledgedBindings \subseteq PolicyOf(bindings)

\* registerMu among the requests and the lock directory among the onboards serialise the
\* read-modify-write of caller-repos.json, so no binding is lost, as long as only one of
\* the two kinds writes and nobody is killed.
BindingsKept == OneKindOfWriter /\ faults = 0 => NoBindingLost

\* A request of a caller that is no admin never replaces a valid config by another one:
\* the config is reloaded before registerMu is released.
NoOverwrite ==
    [][\A p \in Registers :
         ( /\ pc[p] = "write" /\ pc'[p] = "activate"
           /\ OneKindOfWriter /\ faults = 0
           /\ job[p].caller # Local /\ <<job[p].caller, Admins>> \notin Listed )
         => file[job[p].repo] \in {"absent", "torn", job[p].config}]_vars

\* However the writes, the crashes and the reloads interleave, the store comes to serve
\* what is on disk, or the daemon does not start because the bindings file was left
\* truncated.
EventuallySynced ==
    OneKindOfWriter => <>[](OneKindOfWriter => Synced \/ (phase = "down" /\ bindings = None))
=============================================================================
