------------------------------ MODULE CertLock ------------------------------
(***************************************************************************)
(* The directory lock around a certificate publication                     *)
(* (internal/devcerts/lock.go, releaseLock, cleanupLockArtifacts): several  *)
(* processes that each run Publish once and see nothing of each other but   *)
(* the entries of the managed root.                                        *)
(*                                                                         *)
(* A step is one change of the file system; a check that a later change    *)
(* relies on is a step of its own whenever another process can come        *)
(* between.  Everything goes by path: a process that finds another's       *)
(* directory under the name it expects works on that one.  A process       *)
(* stands for its random token.                                            *)
(***************************************************************************)
EXTENDS Naturals, FiniteSets

CONSTANTS Procs, None,
          Dead,        \* a publisher that was killed earlier, while it held the lock
          MaxCrashes   \* bound: processes that die inside Publish

Tokens == Procs \cup {Dead}

ASSUME ProcsAssumption == None \notin Tokens /\ Dead \notin Procs
ASSUME CrashAssumption == MaxCrashes \in Nat

Lock == <<"lock", None>>
Artifacts == {"release", "reap"} \X Tokens
Names == {Lock} \cup Artifacts

\* A lock directory: owner.json, and the owner.<token>.tmp files not yet renamed.
Directories == [owner : Tokens \cup {None}, temps : SUBSET Procs]
Ownerless == [owner |-> None, temps |-> {}]

VARIABLES
    dirs,      \* what each name of the root holds
    pc,        \* where each process is
    alive,     \* whether signal zero reaches it
    target,    \* the artifact a process is making or removing
    todo,      \* the artifacts cleanupLockArtifacts has listed
    failing,   \* an error is pending while the lock is released
    crashes,
    reaped,    \* history: whether reapers renamed the lock they inspected or another
    met        \* history: the pairs that were inside at the same time

vars == <<dirs, pc, alive, target, todo, failing, crashes, reaped, met>>
history == <<reaped, met>>
rest == <<alive, crashes, history>>

Acquiring == {"mkdir", "retry", "inspect", "reap", "reapowner", "reapdir", "temp", "owner"}
Holding == {"list", "clean", "cleandir", "work", "release", "relrename"}
Releasing == {"relowner", "reldir"}
Ended == {"done", "failed", "timedout", "crashed"}
Points == {"idle"} \cup Acquiring \cup Holding \cup Releasing \cup Ended

Goto(p, step) == pc' = [pc EXCEPT ![p] = step]
Present(n) == dirs[n] # None
Empty(n) == Present(n) /\ dirs[n] = Ownerless
Set(n, content) == dirs' = [dirs EXCEPT ![n] = content]

\* os.Rename of a directory; renamePinnedDirectory wants the destination absent.
Move(from, to) == dirs' = [dirs EXCEPT ![from] = None, ![to] = dirs[from]]
Movable(from, to) == Present(from) /\ ~Present(to)

\* readCanonicalOwner with the token, and no entry but the token's own files.
OwnedBy(n, p) == Present(n) /\ dirs[n].owner = p /\ dirs[n].temps \subseteq {p}

----------------------------------------------------------------------------
(* acquireLockWithWait *)

Start(p) ==
    /\ pc[p] = "idle"
    /\ Goto(p, "mkdir")
    /\ UNCHANGED <<dirs, target, todo, failing, rest>>

\* acquireLockOnce: mkdir decides, then the owner document follows.
Mkdir(p) ==
    /\ pc[p] \in {"mkdir", "retry"}
    /\ IF Present(Lock)
       THEN Goto(p, "inspect") /\ UNCHANGED dirs
       ELSE Goto(p, "temp") /\ Set(Lock, Ownerless)
    /\ UNCHANGED <<target, todo, failing, rest>>

WriteOwnerTemp(p) ==
    /\ pc[p] = "temp" /\ Present(Lock)
    /\ Set(Lock, [dirs[Lock] EXCEPT !.temps = @ \cup {p}])
    /\ Goto(p, "owner")
    /\ UNCHANGED <<target, todo, failing, rest>>

PublishOwner(p) ==
    /\ pc[p] = "owner" /\ Present(Lock) /\ p \in dirs[Lock].temps
    /\ Set(Lock, [owner |-> p, temps |-> dirs[Lock].temps \ {p}])
    /\ Goto(p, "list")
    /\ met' = met \cup {{p, q} : q \in {o \in Procs : pc[o] \in Holding}}
    /\ UNCHANGED <<target, todo, failing, alive, crashes, reaped>>

\* Fault: the recorded process is not probed.
InspectUnprobed(p) ==
    /\ pc[p] = "inspect"
    /\ IF Present(Lock) /\ dirs[Lock].owner # None
       THEN Goto(p, "reap") /\ target' = [target EXCEPT ![p] = <<"reap", dirs[Lock].owner>>]
       ELSE Goto(p, "retry") /\ UNCHANGED target
    /\ UNCHANGED <<dirs, todo, failing, rest>>

\* reapDeadLock: only a canonical owner that is provably dead.
Inspect(p) ==
    /\ pc[p] = "inspect"
    /\ IF Present(Lock) /\ dirs[Lock].owner # None /\ ~alive[dirs[Lock].owner]
       THEN Goto(p, "reap") /\ target' = [target EXCEPT ![p] = <<"reap", dirs[Lock].owner>>]
       ELSE Goto(p, "retry") /\ UNCHANGED target
    /\ UNCHANGED <<dirs, todo, failing, rest>>

Reap(p) ==
    /\ pc[p] = "reap"
    /\ \/ /\ Movable(Lock, target[p])
          /\ Move(Lock, target[p])
          /\ reaped' = reaped \cup
               {IF dirs[Lock].owner = target[p][2] THEN "inspected" ELSE "another"}
          /\ Goto(p, "reapowner")
       \/ ~Movable(Lock, target[p]) /\ Goto(p, "retry") /\ UNCHANGED <<dirs, reaped>>
    /\ UNCHANGED <<target, todo, failing, alive, crashes, met>>

\* The token is read again, and nothing but owner.json may be there.
ReapOwner(p) ==
    /\ pc[p] = "reapowner"
    /\ dirs[target[p]] = [owner |-> target[p][2], temps |-> {}]
    /\ Set(target[p], Ownerless)
    /\ Goto(p, "reapdir")
    /\ UNCHANGED <<target, todo, failing, rest>>

ReapDir(p) ==
    /\ pc[p] = "reapdir" /\ Empty(target[p])
    /\ Set(target[p], None)
    /\ Goto(p, "retry")
    /\ UNCHANGED <<target, todo, failing, rest>>

\* Fault: the deadline counts only while somebody is known to hold the lock.
TimeOutOwned(p) ==
    /\ pc[p] = "retry" /\ Present(Lock) /\ dirs[Lock].owner # None
    /\ Goto(p, "timedout")
    /\ UNCHANGED <<dirs, target, todo, failing, rest>>

\* The deadline is looked at before every attempt but the first.
TimeOut(p) ==
    /\ pc[p] = "retry"
    /\ Goto(p, "timedout")
    /\ UNCHANGED <<dirs, target, todo, failing, rest>>

\* An early return of acquireLockOnce or reapDeadLock with an error.
AcquireFails(p) ==
    /\ \/ pc[p] = "temp" /\ ~Present(Lock)
       \/ pc[p] = "owner" /\ ~(Present(Lock) /\ p \in dirs[Lock].temps)
       \/ /\ pc[p] = "reapowner"
          /\ dirs[target[p]] # [owner |-> target[p][2], temps |-> {}]
       \/ pc[p] = "reapdir" /\ ~Empty(target[p])
    /\ Goto(p, "failed")
    /\ UNCHANGED <<dirs, target, todo, failing, rest>>

----------------------------------------------------------------------------
(* Under the lock: cleanupLockArtifacts, then everything CertPublication does. *)

\* Fault: the prefix of the artifacts matches the lock as well.
ListArtifactsAndLock(p) ==
    /\ pc[p] = "list"
    /\ todo' = [todo EXCEPT ![p] = {n \in Names : Present(n)}]
    /\ Goto(p, "clean")
    /\ UNCHANGED <<dirs, target, failing, rest>>

ListArtifacts(p) ==
    /\ pc[p] = "list"
    /\ todo' = [todo EXCEPT ![p] = {n \in Artifacts : Present(n)}]
    /\ Goto(p, "clean")
    /\ UNCHANGED <<dirs, target, failing, rest>>

\* An owner.json and the temp it was renamed from never exist together, so the
\* children are one file.  The listing is in the order of random tokens.
CleanOwner(p, n) ==
    /\ pc[p] = "clean" /\ n \in todo[p] /\ OwnedBy(n, n[2])
    /\ Set(n, Ownerless)
    /\ target' = [target EXCEPT ![p] = n]
    /\ Goto(p, "cleandir")
    /\ UNCHANGED <<todo, failing, rest>>

CleanDir(p) ==
    /\ pc[p] = "cleandir" /\ Empty(target[p])
    /\ Set(target[p], None)
    /\ todo' = [todo EXCEPT ![p] = @ \ {target[p]}]
    /\ Goto(p, "clean")
    /\ UNCHANGED <<target, failing, rest>>

\* ErrLockOwnerMismatch, or a file that is gone when it should be removed; the
\* deferred releaseLock still runs.
CleanFails(p) ==
    /\ \/ pc[p] = "clean" /\ \E n \in todo[p] : ~OwnedBy(n, n[2])
       \/ pc[p] = "cleandir" /\ ~Empty(target[p])
    /\ failing' = [failing EXCEPT ![p] = TRUE]
    /\ todo' = [todo EXCEPT ![p] = {}]
    /\ Goto(p, "release")
    /\ UNCHANGED <<dirs, target, rest>>

CleanDone(p) ==
    /\ pc[p] = "clean" /\ todo[p] = {}
    /\ Goto(p, "work")
    /\ UNCHANGED <<dirs, target, todo, failing, rest>>

Work(p) ==
    /\ pc[p] = "work"
    /\ Goto(p, "release")
    /\ UNCHANGED <<dirs, target, todo, failing, rest>>

----------------------------------------------------------------------------
(* releaseLock *)

\* Fault: an error path returns without giving the lock back.
ReleaseCheckOnSuccess(p) ==
    /\ pc[p] = "release" /\ Present(Lock) /\ dirs[Lock].owner = p
    /\ Goto(p, IF failing[p] THEN "failed" ELSE "relrename")
    /\ UNCHANGED <<dirs, target, todo, failing, rest>>

ReleaseCheck(p) ==
    /\ pc[p] = "release" /\ Present(Lock) /\ dirs[Lock].owner = p
    /\ Goto(p, "relrename")
    /\ UNCHANGED <<dirs, target, todo, failing, rest>>

ReleaseRename(p) ==
    /\ pc[p] = "relrename" /\ Movable(Lock, <<"release", p>>)
    /\ Move(Lock, <<"release", p>>)
    /\ Goto(p, "relowner")
    /\ UNCHANGED <<target, todo, failing, rest>>

ReleaseOwner(p) ==
    /\ pc[p] = "relowner" /\ OwnedBy(<<"release", p>>, p)
    /\ Set(<<"release", p>>, Ownerless)
    /\ Goto(p, "reldir")
    /\ UNCHANGED <<target, todo, failing, rest>>

\* Fault: the pending error is reported whether or not there is one.
ReleaseDirWithError(p) ==
    /\ pc[p] = "reldir" /\ Empty(<<"release", p>>)
    /\ Set(<<"release", p>>, None)
    /\ Goto(p, "failed")
    /\ UNCHANGED <<target, todo, failing, rest>>

ReleaseDir(p) ==
    /\ pc[p] = "reldir" /\ Empty(<<"release", p>>)
    /\ Set(<<"release", p>>, None)
    /\ Goto(p, IF failing[p] THEN "failed" ELSE "done")
    /\ UNCHANGED <<target, todo, failing, rest>>

ReleaseFails(p) ==
    /\ \/ pc[p] = "release" /\ ~(Present(Lock) /\ dirs[Lock].owner = p)
       \/ pc[p] = "relrename" /\ ~Movable(Lock, <<"release", p>>)
       \/ pc[p] = "relowner" /\ ~OwnedBy(<<"release", p>>, p)
       \/ pc[p] = "reldir" /\ ~Empty(<<"release", p>>)
    /\ Goto(p, "failed")
    /\ UNCHANGED <<dirs, target, todo, failing, rest>>

----------------------------------------------------------------------------
(* Processes end. *)

Crash(p) ==
    /\ pc[p] \notin Ended \cup {"idle"} /\ crashes < MaxCrashes
    /\ Goto(p, "crashed")
    /\ alive' = [alive EXCEPT ![p] = FALSE]
    /\ crashes' = crashes + 1
    /\ UNCHANGED <<dirs, target, todo, failing, history>>

\* The program goes on after Publish and exits some time later.
Exit(p) ==
    /\ pc[p] \in Ended /\ alive[p]
    /\ alive' = [alive EXCEPT ![p] = FALSE]
    /\ UNCHANGED <<dirs, pc, target, todo, failing, crashes, history>>

----------------------------------------------------------------------------

\* The root is free, or the lock of a killed publisher lies in it.
Init ==
    /\ \E residue \in {None, [owner |-> Dead, temps |-> {}]} :
         dirs = [n \in Names |-> IF n = Lock THEN residue ELSE None]
    /\ pc = [p \in Procs |-> "idle"]
    /\ alive = [t \in Tokens |-> t # Dead]
    /\ target = [p \in Procs |-> None]
    /\ todo = [p \in Procs |-> {}]
    /\ failing = [p \in Procs |-> FALSE]
    /\ crashes = 0
    /\ reaped = {} /\ met = {}

Publish(p) ==
    \/ Mkdir(p) \/ WriteOwnerTemp(p) \/ PublishOwner(p)
    \/ Inspect(p) \/ Reap(p) \/ ReapOwner(p) \/ ReapDir(p)
    \/ AcquireFails(p)
    \/ ListArtifacts(p) \/ (\E n \in Artifacts : CleanOwner(p, n)) \/ CleanDir(p)
    \/ CleanFails(p) \/ CleanDone(p) \/ Work(p)
    \/ ReleaseCheck(p) \/ ReleaseRename(p) \/ ReleaseOwner(p) \/ ReleaseDir(p)
    \/ ReleaseFails(p)

Next == \E p \in Procs : Start(p) \/ Publish(p) \/ TimeOut(p) \/ Crash(p) \/ Exit(p)

Spec == Init /\ [][Next]_vars

\* The scheduler runs every process, and the clock reaches every deadline.
FairSpec == Spec /\ \A p \in Procs : WF_vars(Publish(p)) /\ SF_vars(TimeOut(p))

----------------------------------------------------------------------------
(* Properties *)

\* Every entry of the root that the lock code makes is a directory with at most an
\* owner.json and the temporary files of known processes; a process is at one of the
\* points of Publish.
TypeOK ==
    /\ dirs \in [Names -> Directories \cup {None}]
    /\ pc \in [Procs -> Points]
    /\ alive \in [Tokens -> BOOLEAN]
    /\ target \in [Procs -> Artifacts \cup {None}]
    /\ todo \in [Procs -> SUBSET Artifacts]
    /\ failing \in [Procs -> BOOLEAN]
    /\ crashes \in 0..MaxCrashes
    /\ reaped \subseteq {"inspected", "another"} /\ met \subseteq SUBSET Procs

\* "Publication serializes" (certification_test.go:16): two processes are never
\* both between acquiring the lock and giving it back.
MutualExclusion ==
    \A p, q \in Procs : pc[p] \in Holding /\ pc[q] \in Holding => p = q

\* What the lock does guarantee, whoever dies and whenever: publishers are inside
\* together only after a reaper has renamed a lock other than the one whose owner
\* it found dead (lock.go:96), and of two that were inside together at most one
\* reports success, because releaseLock wants its own owner.json before and after
\* the rename.
OverlapNeverSucceeds ==
    /\ met # {} => "another" \in reaped
    /\ \A pair \in met : \E p \in pair : pc[p] # "done"

\* Publishers get into each other's way (one may clean up the release artifact
\* that another is still removing, and one of the two then reports an error), but
\* while none dies, none times out and there is no dead publisher's lock to reap,
\* they never all fail.
SomeoneSucceeds ==
    reaped = {} /\ (\A p \in Procs : pc[p] \in {"done", "failed"})
    => \E p \in Procs : pc[p] = "done"

\* A publisher that reports success has left nothing of its own in the root, even
\* if its lock was renamed under its feet in between.  When all publishers have
\* ended, none died and no reaper renamed a retaken lock, nothing of the lock is
\* left at all, not even of one killed earlier.
NothingLeft ==
    /\ \A p \in Procs : pc[p] = "done" =>
         \A n \in Names : Present(n) => dirs[n].owner # p /\ p \notin dirs[n].temps
    /\ "another" \notin reaped /\ (\A p \in Procs : pc[p] \in Ended \ {"crashed"})
       => \A n \in Names : ~Present(n)

\* Nobody waits for the lock or for each other for ever.
EveryoneEnds == \A p \in Procs : pc[p] = "mkdir" ~> pc[p] \in Ended
=============================================================================
