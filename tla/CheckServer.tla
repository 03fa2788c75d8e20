----------------------------- MODULE CheckServer -----------------------------
(***************************************************************************)
(* The check path of the governance daemon (internal/server: checkHandler,  *)
(* Checker, State): concurrent /check requests and the deferred csharp      *)
(* warm-up share a table of per-repository semaphores, the warm-up status   *)
(* and the ledger of outstanding violations.                               *)
(*                                                                         *)
(* A step is one critical section of State.mu, one channel operation or one *)
(* lookup of the ConfigStore, so everything the code does between two of    *)
(* them may be overtaken by another request or by a config reload.         *)
(***************************************************************************)
EXTENDS Naturals, FiniteSets

CONSTANTS Repos, Files,
          Requests,       \* bound: requests in flight; a slot is reused once it is answered
          Jobs,           \* bound: deferred checks in flight
          Locks,          \* bound: repoLock objects alive at one time
          None,
          Deployments     \* the daemons considered: a Deployment for each name

ConfigType == [mode : {"off", "advisory", "block"},
               onError : {"block", "advisory", "pass"},
               excluded : SUBSET Files]
\* How a daemon is run: MaxConcurrentAnalysesPerRepo (main.go leaves it 0),
\* --block-on-warmup, the languages it is asked about ("csharp" is the one that
\* warms up) and the configs its repositories may have.
Deployment == [permits : Nat, blockOnWarmup : BOOLEAN,
               langs : SUBSET {"go", "csharp"}, configs : SUBSET ConfigType]

ASSUME DeploymentAssumption ==
    /\ \A d \in DOMAIN Deployments : Deployments[d] \in Deployment
    /\ None \notin ConfigType
ASSUME ProcAssumption == Requests \cap Jobs = {} /\ IsFiniteSet(Requests \cup Jobs)
ASSUME LockAssumption == None \notin Locks

Procs == Requests \cup Jobs
Reqs == [repo : Repos, file : Files, lang : {"go", "csharp"}, dry : BOOLEAN]

ASSUME ReqAssumption == None \notin Reqs

VARIABLES
    deployment, \* how this daemon is run
    configs,    \* ConfigStore: the config of each repository, None if not servable
    table,      \* State.repoLocks
    cap, free, refs,   \* per repoLock: channel capacity, permits in it, references
    ledger,     \* State.violations: the files with outstanding violations
    warm,       \* State.warmups["csharp"]
    failure,    \* State.warmupFailures has a message for csharp
    pc, req,
    config,     \* the config a request has loaded
    held,       \* the repoLock it waits for or holds
    slot,       \* the repoLock its concurrency slot comes from
    warming,    \* it runs the warm-up
    found,      \* its file has violations
    answer      \* its ValidationResult, or an error

lockVars == <<table, cap, free, refs>>
stateVars == <<ledger, warm, failure>>
procVars == <<req, config, held, slot, warming, found>>
vars == <<deployment, configs, lockVars, stateVars, pc, procVars, answer>>

Waiting == {"wait", "cswait"}
Points == {"idle", "slot", "load", "off", "take", "early", "guard", "ensure", "csensure",
           "recheck", "take2", "early2", "begin", "analyze", "report", "settle",
           "unlock", "release"} \cup Waiting
NoAnswer == [status |-> "none", files |-> {}]
Answers == [status : {"none", "pass", "warming", "advisory", "block", "error"},
            files : SUBSET Files]

Permits == Deployments[deployment].permits
BlockOnWarmup == Deployments[deployment].blockOnWarmup
Langs == Deployments[deployment].langs
Configs == Deployments[deployment].configs
Repo(p) == req[p].repo
File(p) == req[p].file
Goto(p, step) == pc' = [pc EXCEPT ![p] = step]

\* The result of Check, and where the deferred calls of the code take over.
Answer(p, status, files, step) ==
    /\ answer' = [answer EXCEPT ![p] = [status |-> status, files |-> files]]
    /\ Goto(p, step)

----------------------------------------------------------------------------
(* State: the semaphores *)

\* ensureRepoLock: a lock of another capacity is replaced in the table.
Reusable(repo, n) == table[repo] # None /\ cap[table[repo]] = n
LockFor(repo, n) ==
    IF Reusable(repo, n) THEN table[repo] ELSE CHOOSE l \in Locks : refs[l] = 0
ensureRepoLock(repo, n, taken) ==
    LET l == LockFor(repo, n)
        available == IF Reusable(repo, n) THEN free[l] ELSE n
    IN  /\ table' = [table EXCEPT ![repo] = l]
        /\ cap' = [cap EXCEPT ![l] = n]
        /\ refs' = [refs EXCEPT ![l] = @ + 1]
        /\ free' = [free EXCEPT ![l] = available - taken]

\* Fault: the entry goes although others still wait for the lock.
releaseRepoLockAlways(repo, l, returned) ==
    /\ free' = [free EXCEPT ![l] = @ + returned]
    /\ refs' = [refs EXCEPT ![l] = IF @ > 0 THEN @ - 1 ELSE @]
    /\ table' = (IF table[repo] = l THEN [table EXCEPT ![repo] = None] ELSE table)
    /\ UNCHANGED cap

\* Fault: a lock nobody uses any more stays in the table.
releaseRepoLockNever(repo, l, returned) ==
    /\ free' = [free EXCEPT ![l] = @ + returned]
    /\ refs' = [refs EXCEPT ![l] = IF @ > 0 THEN @ - 1 ELSE @]
    /\ UNCHANGED <<table, cap>>

\* The release functions and releaseRepoLock; a waiter that gives up returns no
\* permit.  The code returns the permit just before it drops the reference: whoever
\* takes it in between behaves as one that came a moment earlier.
releaseRepoLock(repo, l, returned) ==
    /\ free' = [free EXCEPT ![l] = @ + returned]
    /\ refs' = [refs EXCEPT ![l] = IF @ > 0 THEN @ - 1 ELSE @]
    /\ table' = (IF refs'[l] = 0 /\ table[repo] = l
                 THEN [table EXCEPT ![repo] = None] ELSE table)
    /\ UNCHANGED cap

----------------------------------------------------------------------------
(* checkHandler and Check *)

\* A request that was decoded, authorized and not rate limited.
Receive(p, q) ==
    /\ p \in Requests /\ pc[p] = "idle" /\ q.lang \in Langs
    /\ req' = [req EXCEPT ![p] = q]
    /\ Goto(p, "slot")
    /\ UNCHANGED <<deployment, configs, lockVars, stateVars, config, held, slot, warming, found, answer>>

\* acquireConcurrencySlot, TryLockRepoN: 503 when no permit is left.
AcquireSlot(p) ==
    /\ pc[p] = "slot"
    /\ IF Permits = 0
       THEN Goto(p, "load") /\ UNCHANGED <<lockVars, slot, answer>>
       ELSE IF Reusable(Repo(p), Permits) /\ free[table[Repo(p)]] = 0
       THEN Answer(p, "error", {}, "release") /\ UNCHANGED <<lockVars, slot>>
       ELSE /\ ensureRepoLock(Repo(p), Permits, 1)
            /\ slot' = [slot EXCEPT ![p] = LockFor(Repo(p), Permits)]
            /\ Goto(p, "load") /\ UNCHANGED answer
    /\ UNCHANGED <<deployment, configs, stateVars, req, config, held, warming, found>>

\* Where a check goes that needs no warm-up (checkSynchronous).
Synchronous == IF Permits > 0 THEN "analyze" ELSE "ensure"

\* loadConfig, and the dispatch of Check.
Load(p) ==
    /\ pc[p] = "load"
    /\ LET c == configs[Repo(p)] IN
       /\ config' = [config EXCEPT ![p] = c]
       /\ IF c = None THEN Answer(p, "error", {}, "release")
          ELSE IF File(p) \in c.excluded THEN Answer(p, "pass", {}, "release")
          ELSE /\ Goto(p, CASE c.mode = "off" -> "off"
                            [] c.mode = "block" /\ req[p].lang = "csharp" -> "take"
                            [] OTHER -> Synchronous)
               /\ UNCHANGED answer
    /\ UNCHANGED <<deployment, configs, lockVars, stateVars, req, held, slot, warming, found>>

\* violationLedger: what a real check writes, a dry run keeps to itself.
ClearRepo(p) ==
    ledger' = (IF req[p].dry THEN ledger ELSE [ledger EXCEPT ![Repo(p)] = {}])
Scored(p, dirty) == (ledger[Repo(p)] \ {File(p)}) \cup (IF dirty THEN {File(p)} ELSE {})

\* Fault: a clean file clears the whole repository.
ReplaceFileClears(p, dirty) ==
    ledger' = (IF req[p].dry THEN ledger
               ELSE [ledger EXCEPT ![Repo(p)] = IF dirty THEN Scored(p, dirty) ELSE {}])

ReplaceFile(p, dirty) ==
    ledger' = (IF req[p].dry THEN ledger
               ELSE [ledger EXCEPT ![Repo(p)] = Scored(p, dirty)])

\* Enforcement is off: no lock is taken.
ClearOff(p) ==
    /\ pc[p] = "off"
    /\ ClearRepo(p)
    /\ Answer(p, "pass", {}, "release")
    /\ UNCHANGED <<deployment, configs, lockVars, warm, failure, procVars>>

----------------------------------------------------------------------------
(* The csharp warm-up guard *)

\* Where an early answer goes: the lock, if any, is given back first.
Out(p) == IF held[p] = None THEN "release" ELSE "unlock"

\* checkCSharpEarlyOut is called before the lock and again under it.
TakeWarmupFailure(p) ==
    /\ pc[p] \in {"take", "take2"}
    /\ failure' = FALSE
    /\ IF failure
       THEN Answer(p, "error", {}, Out(p))
       ELSE Goto(p, IF pc[p] = "take" THEN "early" ELSE "early2") /\ UNCHANGED answer
    /\ UNCHANGED <<deployment, configs, lockVars, ledger, warm, procVars>>

EarlyOut(p) ==
    /\ pc[p] \in {"early", "early2"}
    /\ IF ledger[Repo(p)] \ {File(p)} # {}
       THEN Answer(p, "block", ledger[Repo(p)], Out(p))
       ELSE Goto(p, IF pc[p] = "early" THEN "guard" ELSE "begin") /\ UNCHANGED answer
    /\ UNCHANGED <<deployment, configs, lockVars, stateVars, procVars>>

IsWarm(p) ==
    /\ pc[p] \in {"guard", "recheck"}
    /\ Goto(p, IF warm = "complete"
               THEN IF pc[p] = "guard" THEN Synchronous ELSE "analyze"
               ELSE IF pc[p] = "guard" THEN "csensure" ELSE "take2")
    /\ UNCHANGED <<deployment, configs, lockVars, stateVars, procVars, answer>>

EnsureLock(p) ==
    /\ pc[p] \in {"ensure", "csensure"}
    /\ ensureRepoLock(Repo(p), 1, 0)
    /\ held' = [held EXCEPT ![p] = LockFor(Repo(p), 1)]
    /\ Goto(p, IF pc[p] = "ensure" THEN "wait" ELSE "cswait")
    /\ UNCHANGED <<deployment, configs, stateVars, req, config, slot, warming, found, answer>>

\* Fault: a waiter does not wait.
AcquirePermitUnavailable(p) ==
    /\ pc[p] \in Waiting
    /\ free' = [free EXCEPT ![held[p]] = @ - 1]
    /\ Goto(p, IF pc[p] = "wait" THEN "analyze" ELSE "recheck")
    /\ UNCHANGED <<deployment, configs, table, cap, refs, stateVars, procVars, answer>>

AcquirePermit(p) ==
    /\ pc[p] \in Waiting /\ free[held[p]] > 0
    /\ free' = [free EXCEPT ![held[p]] = @ - 1]
    /\ Goto(p, IF pc[p] = "wait" THEN "analyze" ELSE "recheck")
    /\ UNCHANGED <<deployment, configs, table, cap, refs, stateVars, procVars, answer>>

\* acquireRepoPermit when the client has gone.
Cancel(p) ==
    /\ pc[p] \in Waiting
    /\ releaseRepoLock(Repo(p), held[p], 0)
    /\ held' = [held EXCEPT ![p] = None]
    /\ Answer(p, "error", {}, "release")
    /\ UNCHANGED <<deployment, configs, stateVars, req, config, slot, warming, found>>

\* BeginWarmup and checkCSharpWarmup, unless the warm-up is deferred.
BeginWarmup(p) ==
    /\ pc[p] = "begin" /\ (BlockOnWarmup \/ warm # "cold")
    /\ warm' = (IF warm = "cold" THEN "running" ELSE warm)
    /\ warming' = [warming EXCEPT ![p] = (warm = "cold")]
    /\ Goto(p, "analyze")
    /\ UNCHANGED <<deployment, configs, lockVars, ledger, failure, req, config, held, slot, found, answer>>

\* startDeferredCheck: the goroutine takes the repository lock over.
startDeferredCheck(p, j) ==
    /\ pc[p] = "begin" /\ ~BlockOnWarmup /\ warm = "cold" /\ pc[j] = "idle"
    /\ warm' = "running" /\ warming' = [warming EXCEPT ![j] = TRUE]
    /\ req' = [req EXCEPT ![j] = req[p]]
    /\ config' = [config EXCEPT ![j] = config[p]]
    /\ held' = [held EXCEPT ![j] = held[p], ![p] = None]
    /\ answer' = [answer EXCEPT ![p] = [status |-> "warming", files |-> {}]]
    /\ pc' = [pc EXCEPT ![p] = "release", ![j] = "analyze"]
    /\ UNCHANGED <<deployment, configs, lockVars, ledger, failure, slot, found>>

----------------------------------------------------------------------------
(* checkSynchronousLocked *)

\* The pattern, the analyzer or the CALM validator fails.  routeAnalysisError
\* turns an analyzer that is missing or too slow into what the config says.
AnalysisFails(p) ==
    /\ pc[p] = "analyze"
    /\ \E status \in {"error", IF config[p].onError = "block" THEN "error" ELSE config[p].onError} :
          Answer(p, status, {}, "settle")
    /\ UNCHANGED <<deployment, configs, lockVars, stateVars, procVars>>

\* net/http recovers a panic of the handler, whose deferred calls unlock; the
\* deferred check recovers its own and records it.
Panic(p) ==
    /\ pc[p] = "analyze"
    /\ Answer(p, "error", {}, IF p \in Jobs THEN "settle" ELSE "unlock")
    /\ UNCHANGED <<deployment, configs, lockVars, stateVars, procVars>>

\* The writing half of scoreClean and scoreDirty.
Score(p, dirty) ==
    /\ pc[p] = "analyze"
    /\ found' = [found EXCEPT ![p] = dirty]
    /\ IF config[p].mode = "block"
       THEN ReplaceFile(p, dirty) /\ Goto(p, "report") /\ UNCHANGED answer
       ELSE /\ ClearRepo(p)
            /\ IF dirty THEN Answer(p, "advisory", {File(p)}, "settle")
                        ELSE Answer(p, "pass", {}, "settle")
    /\ UNCHANGED <<deployment, configs, lockVars, warm, failure, req, config, held, slot, warming>>

\* OutstandingAfter: the ledger, or for a dry run the ledger as it would be.
OutstandingAfter(p) ==
    IF req[p].dry THEN Scored(p, found[p]) ELSE ledger[Repo(p)]

\* Fault: a clean file passes whatever its repository owes.
ReportFileOnly(p) ==
    /\ pc[p] = "report"
    /\ IF found[p] THEN Answer(p, "block", OutstandingAfter(p), "settle")
                   ELSE Answer(p, "pass", {}, "settle")
    /\ UNCHANGED <<deployment, configs, lockVars, stateVars, procVars>>

Report(p) ==
    /\ pc[p] = "report"
    /\ IF found[p] \/ OutstandingAfter(p) # {}
       THEN Answer(p, "block", OutstandingAfter(p), "settle")
       ELSE Answer(p, "pass", {}, "settle")
    /\ UNCHANGED <<deployment, configs, lockVars, stateVars, procVars>>

\* The deferred removal of a temporary file fails: the check has written its
\* verdict to the ledger and is answered with an error all the same.
CleanupFails(p) ==
    /\ pc[p] = "settle" /\ answer[p].status # "error"
    /\ Answer(p, "error", {}, "settle")
    /\ UNCHANGED <<deployment, configs, lockVars, stateVars, procVars>>

\* Fault: a failed deferred check leaves the warm-up running.
SettleOnSuccess(p) ==
    /\ pc[p] = "settle"
    /\ IF warming[p] /\ answer[p].status # "error"
       THEN warm' = "complete" /\ failure' = FALSE
       ELSE UNCHANGED <<warm, failure>>
    /\ Goto(p, "unlock")
    /\ UNCHANGED <<deployment, configs, lockVars, ledger, procVars, answer>>

\* CompleteWarmup or FailWarmup.
Settle(p) ==
    /\ pc[p] = "settle"
    /\ IF warming[p]
       THEN /\ warm' = (IF answer[p].status = "error" THEN "cold" ELSE "complete")
            /\ failure' = (answer[p].status = "error")
       ELSE UNCHANGED <<warm, failure>>
    /\ Goto(p, "unlock")
    /\ UNCHANGED <<deployment, configs, lockVars, ledger, procVars, answer>>

\* Fault: a check that ends with an error keeps its lock.
UnlockOnSuccess(p) ==
    /\ pc[p] = "unlock"
    /\ IF held[p] = None \/ answer[p].status = "error"
       THEN UNCHANGED lockVars ELSE releaseRepoLock(Repo(p), held[p], 1)
    /\ held' = [held EXCEPT ![p] = None]
    /\ Goto(p, "release")
    /\ UNCHANGED <<deployment, configs, stateVars, req, config, slot, warming, found, answer>>

Unlock(p) ==
    /\ pc[p] = "unlock"
    /\ IF held[p] = None THEN UNCHANGED lockVars ELSE releaseRepoLock(Repo(p), held[p], 1)
    /\ held' = [held EXCEPT ![p] = None]
    /\ Goto(p, "release")
    /\ UNCHANGED <<deployment, configs, stateVars, req, config, slot, warming, found, answer>>

\* The response is written and the concurrency slot given back.
ReleaseSlot(p) ==
    /\ pc[p] = "release"
    /\ IF slot[p] = None THEN UNCHANGED lockVars ELSE releaseRepoLock(Repo(p), slot[p], 1)
    /\ slot' = [slot EXCEPT ![p] = None]
    /\ req' = [req EXCEPT ![p] = None] /\ config' = [config EXCEPT ![p] = None]
    /\ warming' = [warming EXCEPT ![p] = FALSE] /\ found' = [found EXCEPT ![p] = FALSE]
    /\ answer' = [answer EXCEPT ![p] = NoAnswer]
    /\ Goto(p, "idle")
    /\ UNCHANGED <<deployment, configs, stateVars, held>>

----------------------------------------------------------------------------

\* The ConfigStore takes a new config over, or drops one (module ConfigStore).
Reload(repo, c) ==
    /\ configs[repo] # c
    /\ configs' = [configs EXCEPT ![repo] = c]
    /\ UNCHANGED <<deployment, lockVars, stateVars, pc, procVars, answer>>

Init ==
    /\ deployment \in DOMAIN Deployments
    /\ configs \in [Repos -> Configs]
    /\ table = [r \in Repos |-> None]
    /\ cap = [l \in Locks |-> 0] /\ free = [l \in Locks |-> 0] /\ refs = [l \in Locks |-> 0]
    /\ ledger = [r \in Repos |-> {}] /\ warm = "cold" /\ failure = FALSE
    /\ pc = [p \in Procs |-> "idle"]
    /\ req = [p \in Procs |-> None] /\ config = [p \in Procs |-> None]
    /\ held = [p \in Procs |-> None] /\ slot = [p \in Procs |-> None]
    /\ warming = [p \in Procs |-> FALSE] /\ found = [p \in Procs |-> FALSE]
    /\ answer = [p \in Procs |-> NoAnswer]

Step(p) ==
    \/ AcquireSlot(p) \/ Load(p) \/ ClearOff(p)
    \/ TakeWarmupFailure(p) \/ EarlyOut(p) \/ IsWarm(p)
    \/ EnsureLock(p) \/ AcquirePermit(p)
    \/ BeginWarmup(p) \/ \E j \in Jobs : startDeferredCheck(p, j)
    \/ AnalysisFails(p) \/ Panic(p) \/ \E dirty \in BOOLEAN : Score(p, dirty)
    \/ Report(p) \/ CleanupFails(p) \/ Settle(p) \/ Unlock(p) \/ ReleaseSlot(p)

Next ==
    \/ \E p \in Procs : Step(p) \/ Cancel(p) \/ \E q \in Reqs : Receive(p, q)
    \/ \E r \in Repos, c \in Configs \cup {None} : Reload(r, c)

Spec == Init /\ [][Next]_vars

\* Go runs every goroutine, analyzers are bounded by their timeout, and a channel
\* serves its receivers in turn, so that nobody waits for a permit for ever while
\* others keep getting one.
FairSpec ==
    Spec /\ \A p \in Procs : WF_vars(Step(p)) /\ SF_vars(AcquirePermit(p))
----------------------------------------------------------------------------
(* Properties *)

\* The tables of State and the requests have the forms state.go and checker.go give
\* them; the permit counts never go below zero.
TypeOK ==
    /\ deployment \in DOMAIN Deployments
    /\ configs \in [Repos -> Configs \cup {None}]
    /\ table \in [Repos -> Locks \cup {None}]
    /\ cap \in [Locks -> Nat] /\ free \in [Locks -> Nat] /\ refs \in [Locks -> Nat]
    /\ ledger \in [Repos -> SUBSET Files]
    /\ warm \in {"cold", "running", "complete"} /\ failure \in BOOLEAN
    /\ pc \in [Procs -> Points]
    /\ req \in [Procs -> Reqs \cup {None}] /\ config \in [Procs -> Configs \cup {None}]
    /\ held \in [Procs -> Locks \cup {None}] /\ slot \in [Procs -> Locks \cup {None}]
    /\ warming \in [Procs -> BOOLEAN] /\ found \in [Procs -> BOOLEAN]
    /\ answer \in [Procs -> Answers]

HoldsLock(p) == held[p] # None /\ pc[p] \notin Waiting

\* LockRepo "serializes a check lifecycle for one repository": although locks are
\* created on demand and dropped with their last reference, two checks never
\* hold the lock of one repository.  Where there is a per-repository cap, no more
\* requests than that are inside, in a daemon that is not asked about csharp: a cold
\* csharp check would replace the cap's lock by one of a single permit.
OneAtATime ==
    /\ Permits = 0 =>
         \A p, q \in Procs :
             HoldsLock(p) /\ HoldsLock(q) /\ Repo(p) = Repo(q) => p = q
    /\ Permits > 0 /\ Langs = {"go"} => \A r \in Repos :
         Cardinality({p \in Requests : slot[p] # None /\ Repo(p) = r}) <= Permits

\* The reference count of a repoLock is the number of checks that use it, its
\* permits are those nobody holds, and the table drops a lock with its last
\* reference and not before: neither a leak nor a lock that vanishes in use.
LockAccounting ==
    /\ \A l \in Locks :
         LET users == {p \in Procs : held[p] = l}
             slots == {p \in Procs : slot[p] = l}
             holders == {p \in users : HoldsLock(p)}
         IN  /\ refs[l] = Cardinality(users) + Cardinality(slots)
             /\ refs[l] > 0 => free[l] + Cardinality(holders) + Cardinality(slots) = cap[l]
    /\ \A r \in Repos : table[r] # None => refs[table[r]] > 0

\* The deferred warm-up: the language is "running" exactly while one check runs
\* it, so a warm-up that failed or panicked never keeps later ones from starting.
WarmupOwned ==
    ~BlockOnWarmup =>
        LET owners == {p \in Procs : warming[p] /\ pc[p] \in {"analyze", "report", "settle"}}
        IN  Cardinality(owners) = (IF warm = "running" THEN 1 ELSE 0)

\* While a real block-mode check still holds its repository, its verdict is the
\* state of the ledger: pass means nothing is outstanding, block lists what is.
\* (Only where no repository is switched off: ClearOff takes no lock.)
VerdictMatchesLedger ==
    \A p \in Procs :
        /\ Permits = 0 /\ \A c \in Configs : c.mode # "off"
        /\ held[p] # None /\ pc[p] \in {"settle", "unlock"}
        /\ ~req[p].dry /\ config[p].mode = "block" /\ config[p].onError = "block"
        /\ answer[p].status \in {"pass", "block"}
        => /\ answer[p].files = ledger[Repo(p)]
           /\ answer[p].status = "pass" <=> ledger[Repo(p)] = {}

\* A file enters or leaves the ledger through a check of that file that finds it
\* dirty or clean, or leaves it because a check under an advisory or off config clears
\* the repository; and never through a dry run, which "neither adds entries nor clears
\* the ones a real check recorded" (state.go:373).
LedgerKept ==
    [][\A r \in Repos, f \in Files : (f \in ledger[r] <=> f \in ledger'[r])
         \/ \E p \in Procs :
              /\ pc'[p] # pc[p] /\ Repo(p) = r /\ ~req[p].dry
              /\ \/ config[p].mode \in {"advisory", "off"} /\ f \notin ledger'[r]
                 \/ File(p) = f /\ pc[p] = "analyze" /\ found'[p] = (f \in ledger'[r])]_vars

\* Every request is answered, whoever holds the lock it waits for; and a deferred
\* warm-up ends, so that the language can be warmed up again or is warm.
EveryRequestAnswered ==
    /\ \A p \in Requests : pc[p] = "slot" ~> pc[p] = "idle"
    /\ ~BlockOnWarmup => (warm = "running" ~> warm # "running")

\* engineering-spec.md:905: "Any hook call against a repository with outstanding
\* violations in `block` mode MUST return a block": a real check that is answered
\* otherwise, and not with an error, leaves nothing outstanding behind.
OutstandingBlocks ==
    [][\A p \in Requests :
         /\ answer[p] = NoAnswer /\ answer'[p].status \in {"pass", "warming", "advisory"}
         /\ ~req[p].dry /\ config[p].mode = "block"
         => ledger'[Repo(p)] = {}]_vars
=============================================================================
