# A TLA+ model of agent-fitness-functions

This directory holds TLA+ specifications of the concurrent and crash-exposed
parts of the repository, TLC configurations that check them on small instances,
and TLAPS proofs about the certificate publication. `PROJECT.json` maps every
definition to the lines it models and lists runs, hazards, findings and theorems.

## 1. The system

A governance **daemon** runs once per machine (`internal/server`). It answers
`/check` (analyse one file, update the ledger of outstanding violations, return a
verdict), `/state`, `/preflight`, `/configs`, `/register`, `/functions`, `/health`
and `/shutdown`. The **client** (`internal/client`) is called by git and agent
hooks (`client validate`), by the user (`client onboard`, `doctor`,
`install-hooks`), and starts or replaces the daemon. Both share a **governance
root** on disk: certificates, repository configs, the caller bindings, locks. A
**history writer** (`internal/historyservice`, `historyipc`, `history`) receives
an event for each validation over a unix socket and stores it per clone.

What makes this hard to test is that independent processes meet in the file
system and in the daemon's memory:

| Shared thing | Who meets there | Module |
| --- | --- | --- |
| managed certificate root, its journal and `current` link | one publisher and the remains of killed ones, the user's edits | `CertPublication` |
| `.certificate-publication.lock` of that root | publishers, reapers of dead publishers | `CertLock` |
| per-repository locks, warm-up status, ledger | `/check` requests, the deferred csharp check, config reloads | `CheckServer` |
| `restart.lock` and the listening address | onboards, validates, daemons of several builds | `DaemonRestart` |
| `configs/`, `caller-repos.json` and the store's copy of them | `/register`, `client onboard`, the operator, the watch loop | `ConfigStore` |
| the history writer's socket, receiver slots, byte budget and queue | publishers, control requests, receivers, the persist loop, shutdown | `HistoryWriter`, `HistoryLog` |

The other parts (analyzers, reports, the configuration format, doctor, hook
scripts, the rename checker) are functions of their input or sequences of reads;
`PROJECT.json` lists each with the reason it is not modelled.

## 2. The modules

Common conventions. A step is one system call on a shared file, one critical
section or one channel operation, together with the local computation up to it,
so another actor can come between any two. An input (what an analyzer finds,
which config is loaded) is chosen from a small set. Failures are actions bounded
by a constant (`MaxAborts`, `MaxCrashes`, `maxFaults`, `maxEdits`). An operator
whose comment starts with "Fault:" is a wrong version of the definition below
it; it is used by no specification and serves to show that a property notices
such a bug. Where several settings belong to one question, a constant maps names
to settings (`Deployments`, `Scenarios`) and `Init` picks one.

### CertPublication (`devcerts/transaction.go`, `lifecycle.go`, `publish.go`, `state.go`)

The managed root: for each transaction id its directory (`kind`: candidate,
version, or claimed for deletion), how many managed files it has, its owner file;
the `current` link, the journal, temporary journal and link, the direct files of
the old layout with what the user did to them. `Begin` starts a run of `Publish`;
the program counter follows `recoverPublication`, `resumeJournal` at the stage
the journal has, `classifyRoot`, and `publishTransaction` through
`candidate_ready`, `version_ready`, `current_published`, `cleaning_direct_root`
and `retaining`. `Abort` ends the run between any two changes of the disk.
`EvidenceConflicts`/`PreserveAndFail` is every refusal of recovery, which leaves
the disk as it is. Certificates are abstract: a version is complete or not,
matches the target, the predecessor or neither, and may expire.

The code syncs the directory after each change (`cleanupDirectRoot` syncs once
for its batch), so losing the last unsynced change in a power failure is a crash
one step earlier. A user's edit between the digest check of a direct file and
its removal is outside the model; ADR-0004 documents that window as residual.

### CertLock (`devcerts/lock.go`, `releaseLock`, `cleanupLockArtifacts`)

Processes that each run `Publish` once: make the lock directory, write and
publish `owner.json`; on failure inspect the owner, rename a dead owner's lock
away and remove it, or retry until the deadline. The holder lists and cleans up
left-over artifacts, works, and releases by rename. All of it goes by path, so a
process may act on a directory that is not the one it looked at. The lock may be
there from the start, left by `Dead`, a publisher that was killed earlier. Two
history variables record what `OverlapNeverSucceeds` is about: `reaped`, whether a
reaper renamed the lock it had inspected or another one, and `met`, the pairs of
publishers that were inside together.

### CheckServer (`server/checker.go`, `state.go`, `server.go`)

Requests run `checkHandler` from the concurrency slot through config load, the
off-mode shortcut, the warm-up guard, `ensureRepoLock`, the wait for a permit,
the analysis, `ReplaceFile`/`ClearRepo`, and the verdict. A deferred csharp check
is a process of its own that a request hands its warm-up to. `repoLock` objects
are explicit (capacity, permits, references), because the table can drop one that
is still in use. Config reloads change `configs` at any moment.

### DaemonRestart (`client/restart.go`, `daemonstatus.go`, `daemon.go`, `client.go`)

`client onboard` probes the daemon and, if it is of another build, takes
`restart.lock`, asks it to shut down, waits for the address, starts its own and
waits for it; `client validate` starts a daemon where none answers, without a
lock. A listener serves, stops or is wedged. A shutdown request is accepted,
declined, or dropped. `timely` says that the five-second waits outlast a closing
listener and a start.

The lock has an age in heartbeat intervals. `Tick` lets one interval pass: the
directory grows older, and the ticker of every running heartbeat fires. `Heartbeat`
is the goroutine of `startLockHeartbeat`: it takes the first tick it has not
handled, the only one that a Go ticker keeps, and sets the directory, whosever it
is, to the time of that tick. A directory of age `StaleAge` is reaped. The
scheduling assumption is in `Tick`: a live heartbeat is at most `MaxDelay` intervals behind, and
`TimingAssumption` says that `StaleAge` is at least twice that. A heartbeat that is
d intervals late writes a time that is d - 1 intervals old, so half of the stale age
is what the code tolerates: three intervals with the production values (30 s and
5 s). The run has the values 4 and 2; the invariants were also checked once with 6
and 3, and with 4 and 3, beyond the assumption, TLC finds the lock of a running
restart stale. `orphaned` is a history variable: a client was killed while it held
the lock.

### ConfigStore (`server/configstore.go`, `configstore_register.go`, `auth.go`, `client/onboard.go`)

The disk (directories, `config.json`, `caller-repos.json`, its lock directory),
the store's memory (entries, policy, watches it has and watches it believes it
has), the inotify queue, the pending reloads and the one reload in progress. The
watch loop, each `/register` request (serialised by `registerMu`), each onboard
(serialised by the lock directory), and the operator are separate actors. A file
written in place is seen truncated in between. A request learns whether its caller
is an admin when it arrives, and plans later, under `registerMu`. A watch may fail to
be added (`WatchFails`), and the bindings lock degrades to none where it cannot be
made (`LockDegrades`). `missed` is a history variable: what was written between the
start-up scan and the first watch, and repositories whose watch failed.

Not distinguished: directories whose names differ in case, overflow of the
kernel's event queue, an unreadable but present file (it is an invalid
config, as a truncated one is), and the tail that the shorter of two overlapping
in-place writes of `caller-repos.json` leaves of the longer (the later one counts;
for a `config.json` the mixture is modelled, as an invalid config).

### HistoryWriter (`historyservice/service.go`, `historyipc/receive.go`, `publish_unix.go`) and HistoryLog

One life of the writer. A connection carries one frame, whole or cut short, and
moves through the backlog, the accept loop (`Admit` with its two looks at
`stopped`), the header, the reserved payload, and then the queue or a control.
`stop` runs under `sync.Once`, called by a control, by the end of the accept loop
or by a cancelled context. `serve` joins the receivers, cancels, joins the
persist goroutine and drops what is queued. `Cancel` is a signal, `Die` a kill.
The receive deadline is `ReceiveFails`, which is possible at any time, and a
response that may fail to be written. The frame's content is only its kind and
its size; an event is named by its connection.

`HistoryLog` is the abstract promise: an event is stored or lost for good, a lost
one is never stored later, and nothing is stored once the writer has ended. `Implements` is the refinement,
with the events that are neither stored nor in flight as the lost ones.

## 3. The runs

| Run | Instance | What it shows |
| --- | --- | --- |
| `cert_publication` | 3 ids, 2 managed files, 2 aborts | invariants and action properties of the transaction, and that recovery comes to an end |
| `cert_publication_force` | the same with stray files | finding 1 |
| `cert_lock` | 3 publishers, 1 crash, with and without a dead one's lock | publishers overlap only through finding 2 and then do not both succeed, no mutual failure, nothing left behind, every acquisition ends |
| `cert_lock_reap` | 3 publishers and a dead one's lock | finding 2 |
| `check_server` | 1 repository, 2 files, 2 requests, 1 deferred check, four deployments | locks, cap, warm-up and ledger |
| `check_server_live` | 1 file, deferring deployment | every request is answered, every warm-up ends |
| `check_server_warming` | deferring deployment | finding 3 |
| `daemon_restart` | 2 onboards and a validate on a calm machine; 2 onboards, or an onboard and a validate, of two builds with a fault; stale age of 4 heartbeats | one restart at a time, the lock's life, a current daemon in the end |
| `config_store` | 2 requests / 2 onboards / 1 onboard and an operator with 2 edits, 1 fault each | the store mirrors the disk, bindings and configs are not lost |
| `config_store_live` | 2 requests / 1 onboard and an operator with 1 edit, 1 fault each | the store comes to mirror the disk |
| `config_store_mixed` | 1 request and 1 onboard | finding 4 |
| `history_writer` | 2 events, 1 control, 2 slots, budget of 2 events, queue of 1, 1 error | accounting, shutdown order, nothing lost is stored, nothing waits for ever |

**Why the bounds suffice.** Three ids are a predecessor, an older version for
retention to delete, and a new one; two files make a set partial; two aborts let
recovery itself be interrupted. The publication lock needs a dead owner, two that
reap it against each other, one of which takes it again, and a third to meet that
one; the restart lock a killed client and two that reap it, and the killed one may
be run again. A ledger needs the checked file and another one, a lock table
one holder and one waiter. For the store one repository is enough because
repositories share nothing but the bindings file and the queue, in which the
policy is the second key. The history writer has three connections for two slots,
frames that exceed the budget together and a queue that one event fills, so every
refusal happens. The four deployments of `check_server` are: deferred warm-up;
block and advisory configs in turn; warm-up inside the request with repositories
switched off; a cap of one with a config that excludes the files.

**Properties.** The comment above each states it in words and names the code. In
short:

- `CurrentComplete`, `NoRollback`, `AlwaysUsable`: readers always find a complete
  and never an older version. `PredecessorKept`, `RetentionExact`,
  `EditedFilesKept`: nothing is deleted that should stay. `NoTempPileUp`,
  `SuccessSettled`, `RecoveryCompletes`: interrupted work is cleaned up.
- `OverlapNeverSucceeds`, `SomeoneSucceeds`, `NothingLeft`,
  `EveryoneEnds` for the lock.
- `OneAtATime`, `LockAccounting`: replaced and dropped lock
  objects do not let two checks of a repository run together.
  `VerdictMatchesLedger`, `LedgerKept` for the ledger.
  `WarmupOwned`, `EveryRequestAnswered` for the warm-up.
- `OneRestart`, `LockAlive`, `QuietIsCurrent`, `EveryRunEnds`,
  `OrphanReaped` for the restart.
- `QuietSynced`, `EventuallySynced`, `NoOverwrite`, `BindingsKept` for the store.
- `Accounting`, `ShutdownAcknowledged`, `JoinedBeforeRelease`, `Implements`,
  `ShutdownCompletes`, `EventsSettle` for the history writer.

**Deadlock** is not checked in the runs in which the system may rightly stop: all
publishers ended, all requests answered, all writers done.

**Fairness.** `CertPublication`: a running publisher proceeds and somebody runs
the program again (`RecoveryCompletes` is about that retry). `CertLock`: weak
fairness per process, strong fairness of the time-out, because the clock advances
whatever the directory does. `CheckServer`: goroutines are scheduled, and a
channel serves its waiting receivers in order, hence strong fairness of
`AcquirePermit`. `DaemonRestart`: clients, their heartbeats and daemons run, time
passes (`Tick`, `GiveUp`); nobody is assumed to start another client. `ConfigStore`: the daemon
is started again, the watch loop and the writers are scheduled. `HistoryWriter`:
each goroutine is scheduled (one per receiver, accept loop, `serve`, persist loop,
`stop`) and a transaction ends; nobody is assumed to connect or to stop it.

## 4. Findings

1. *A forced rotation of a partial root with a `current` link never completes*
   (`ForcedPartialRotates`, `transaction.go:199`). ADR-0002 allows it.
2. *A reaper can rename a live lock* (`MutualExclusion`, `lock.go:96`): between
   its look at the dead owner and the rename, another reaper has taken the lock.
3. *A cold daemon answers pass/warming although the file has outstanding
   violations* (`OutstandingBlocks`, `checker.go:144`).
4. *A request and an onboard lose each other's bindings* (`NoBindingLost`,
   `configstore_register.go:141`): they use different locks for one file.

Gaps met while modelling that have no run of their own; the conditions of the
properties above state where they begin:

- with csharp among the languages the cap is exceeded, since the deferred check
  asks for a lock of another capacity under the same key (`state.go:105`);
- a check that loaded advisory mode and then waited clears what a later
  block-mode check recorded (`checker.go:110`);
- with a dead publisher's lock to reap, all publishers can fail because of each
  other's artifacts, and an artifact that lost its owner file fails every later one
  until an operator removes it (`transaction.go:470`);
- two waiters that saw the lock of a killed restart can both restart
  (`restart.go:166`), and the second of two agents that noticed a stale daemon
  stops the fresh one (`restart.go:83`);
- a change between the start-up scan and the watches is missed
  (`configstore.go:89`), and so is the config of a new repository whose watch cannot
  be added (`configstore.go:340`);
- a reload that has read and not yet stored can overwrite a newer one
  (`configstore.go:349`);
- a writer killed while it rewrites `caller-repos.json` leaves it truncated; the
  next writer starts from an empty document, and a daemon does not start on it
  (`onboard.go:992`).

## 5. The proofs

`CertPublication_proofs` proves for every set of ids, every positive number of
managed files and any number of aborts: `TypeOK`, `CurrentComplete`,
`PredecessorKept`, `NoTempPileUp` as invariants, and `NoRollback`,
`RetentionExact`, `AlwaysUsable`, `EditedFilesKept` as action properties.

`CurrentComplete` is not inductive: whether the swap installs a complete version
depends on what the publisher has established before it, and on what a crash left
for recovery to trust. The inductive invariant is `Inv == TypeOK /\
CurrentComplete /\ SoundDocuments /\ Control`. `SoundDocuments` says that every
journal document, on disk or in memory, tells the truth: a recorded predecessor
is a complete version other than the new one, a stage after the swap means that
`current` names the new version, and then no temporary link is left. `Control`
says what the publisher knows at each program point, for instance that its
document is the journal on disk and that at `swap` the version is complete.
`Invariance` goes through the actions one by one; the theorems named after the
properties follow from `Inv` alone or from `Inv` and one step.

The assumptions are that the special values are no ids, that they are distinct,
and that there is at least one managed file.

Only model-checked: liveness (outside the prover's reach), `SuccessSettled`, and
all of the other modules so far.

## 6. Not modelled

See `components` in `PROJECT.json`. External and taken as nondeterministic
inputs: the analyzers, SQLite, TLS, the file system's failure modes beyond a
failed or last-step-lost operation.

## 7. Plan

In this order:

1. `HistoryEndpoint`: ownership of the socket across writers
   (`historyservice/endpoint.go`) with the lock, a stale socket and the ownership
   record, and its reconciliation by the client (`client/historyruntime.go`);
   composed with `HistoryWriter`.
2. `CertReaders`: `LoadManagedClient`/`LoadManagedServer`, which pin a version
   without a lock while retention deletes, and `fastPathPublished`; composed with
   `CertPublication`.
3. `AtomicPublication`: the abstract specification of a publication as one step,
   implemented by `CertPublication` under a refinement mapping, proved.
4. `Installer` and `HookInstall`: version directories and rollback; which hook
   file is written, chained or refused, and idempotence of a second run.
5. `Onboarding`: the order of onboard's steps with a failure at each, and doctor.
6. Pure operators: the scanners of `content_scoring.go` and the rate limiter's
   window against reference definitions.
7. Proofs: `OneAtATime` and `LockAccounting` of `CheckServer`; `OneRestart` and
   `LockAlive` of `DaemonRestart`; `OverlapNeverSucceeds` of `CertLock`; `BindingsKept` of `ConfigStore`; `SuccessSettled`.
