--------------------------- MODULE CertPublication ---------------------------
(***************************************************************************)
(* The journaled publication of development certificates                   *)
(* (internal/devcerts): the managed root as a file system, the one         *)
(* publisher that holds the publication lock, and the recovery that a later *)
(* publisher runs over whatever an earlier one left behind.                *)
(*                                                                         *)
(* A step is one change of the file system together with the reads that    *)
(* lead to it, so Abort (a crash, or an operation that returns an error)   *)
(* can strike between any two changes.  The lock itself is module CertLock; *)
(* here it only means that at most one publisher runs.                     *)
(***************************************************************************)
EXTENDS Naturals, FiniteSets

CONSTANTS Ids,           \* 128-bit transaction identifiers; a deleted one is free again
          ManagedFiles,  \* how many files a complete version has (5 in the source)
          None,          \* "no such file", nil
          Torn,          \* a file whose exclusive write was cut short
          Many,          \* more than one temporary file of a kind
          MaxAborts,     \* bound: crashes and failed operations in one behaviour
          StrayFiles     \* whether the user may put a managed file next to current

ASSUME IdsAssumption == {None, Torn, Many} \cap Ids = {}
ASSUME DistinctAssumption == None # Torn /\ None # Many /\ Torn # Many
ASSUME FilesAssumption == ManagedFiles \in Nat \ {0}
ASSUME BoundAssumption == MaxAborts \in Nat /\ StrayFiles \in BOOLEAN

Files == 1..ManagedFiles
Contents == {"absent", "original", "edited"}
Identities == {"target", "predecessor", "unknown"}
Stages == {"candidate_ready", "version_ready", "current_published",
           "cleaning_direct_root", "retaining"}
Published == {"current_published", "cleaning_direct_root", "retaining"}

\* journalDocument: the candidate and version paths follow from the id.
Journals == [id : Ids, pred : Ids \cup {None}, stage : Stages,
             digests : [Files -> Contents] \cup {None}]

ASSUME JournalAssumption ==
    /\ {None, Torn, Many} \cap Journals = {}
    /\ None \notin [Files -> Contents]

VARIABLES
    (* versions/: the entry of each id, its candidate owner, its files *)
    kind,           \* .candidate-<id>, v-<id>, .retention-delete-<txn>-v-<id> or none
    owner,          \* .candidate-owner.json, its temp, or none
    files,          \* how many of the managed files are there
    claimedBy,      \* the transaction in the name of a retention claim
    identity,       \* what classifyMaterial says of the files
    fresh,          \* the ids whose certificates have not expired
    (* the managed root *)
    current,        \* the version the current symlink names
    currentTemp,    \* the .current-<id> symlink
    journal,        \* .certificate-publication-transaction.json
    journalTemp,    \* .certificate-publication.transaction-<id>-<id>.tmp
    direct,         \* the managed files a legacy layout keeps in the root itself
    directIdentity, \* what classifyMaterial says of the original direct files
    (* the publisher that holds the lock *)
    pc,             \* what it does next
    doc,            \* its journalDocument in memory
    next,           \* the next file of cleanupDirectRoot
    recovering,     \* inside recoverPublication
    force,          \* Publish's argument
    result,         \* what the latest Publish returned
    aborts

versionVars == <<kind, owner, files, claimedBy, identity, fresh>>
linkVars == <<current, currentTemp>>
journalVars == <<journal, journalTemp>>
directVars == <<direct, directIdentity>>
diskVars == <<versionVars, linkVars, journalVars, directVars>>
modeVars == <<recovering, force, result>>
vars == <<diskVars, pc, doc, next, modeVars, aborts>>

Steps == {"idle", "reconcile", "candidates", "resume", "rename", "journal",
          "jwrite", "jrename", "rmowner", "publish", "swap", "finish",
          "cleandirect", "retain", "classify", "ownertemp", "ownerjson", "files"}
Results == {"none", "running", "published", "refused", "failed"}

----------------------------------------------------------------------------
(* What the code reads off the file system. *)

Entries == {i \in Ids : kind[i] # "absent"}
DirectPresent == {f \in Files : direct[f] # "absent"}

\* readManagedMaterial: every managed file, and the owner only in a candidate.
CompleteVersion(i) ==
    kind[i] = "version" /\ owner[i] = "none" /\ files[i] = ManagedFiles

\* validateTargetIdentity of the final version; expiry does not matter to it.
TargetVersion(i) == CompleteVersion(i) /\ identity[i] = "target"

\* candidateEvidenceMatches, and the candidate_ready material checks.
OwnedCandidate(i) ==
    /\ kind[i] = "candidate" /\ owner[i] = "json"
    /\ files[i] = ManagedFiles /\ identity[i] = "target"

BareCandidate(i) ==
    /\ kind[i] = "candidate" /\ owner[i] = "none"
    /\ files[i] = ManagedFiles /\ identity[i] = "target"

\* currentMatches: a nil predecessor matches an absent current.
currentMatches(pred) == current = pred

legalAdjacentStage(from, to, hasDigests) ==
    \/ from = "candidate_ready" /\ to = "version_ready"
    \/ from = "version_ready" /\ to = "current_published"
    \/ from = "current_published"
       /\ to = (IF hasDigests THEN "cleaning_direct_root" ELSE "retaining")
    \/ from = "cleaning_direct_root" /\ to = "retaining"

sameJournalImmutable(a, b) == a.id = b.id /\ a.pred = b.pred /\ a.digests = b.digests

\* classifyRoot under the lock.  "unsafe" is Partial with the unsafe mark;
\* "partial_direct" keeps the direct files it read, "partial" nothing at all.
DirectClass ==
    CASE DirectPresent = {} -> "empty"
      [] DirectPresent # {} /\ DirectPresent # Files -> "partial_direct"
      [] OTHER -> IF \E f \in Files : direct[f] = "edited"
                  THEN "unknown_direct"
                  ELSE CASE directIdentity = "target" -> "legacy"
                         [] directIdentity = "predecessor" -> "predecessor_direct"
                         [] OTHER -> "unknown_direct"

VersionedClass ==
    IF \/ DirectPresent # {}
       \/ Cardinality(Entries) \notin 1..2
       \/ \E i \in Entries : ~CompleteVersion(i)
       \/ current \notin Entries
    THEN "partial"
    ELSE CASE identity[current] = "target" -> "published"
           [] identity[current] = "predecessor" -> "predecessor"
           [] OTHER -> "unknown"

classifyRoot ==
    IF journal # None \/ journalTemp # None \/ currentTemp # None THEN "unsafe"
    ELSE IF current # None THEN VersionedClass
    ELSE IF Entries # {} THEN "unsafe"
    ELSE DirectClass

refusalRequired(class) ==
    ~force /\ class \in {"partial", "partial_direct", "unknown", "unknown_direct"}

\* The fields of classifiedRoot the transaction starts from: only these classes
\* report the current version, only these the direct files.
ClassCurrent(class) ==
    IF class \in {"published", "predecessor", "unknown"} THEN current ELSE None
ClassDigests(class) ==
    IF class \in {"partial_direct", "unknown_direct", "legacy", "predecessor_direct"}
    THEN direct ELSE None

----------------------------------------------------------------------------
(* How a run of Publish under the lock ends.  Each ending releases the lock. *)

Return(res) ==
    /\ pc' = "idle" /\ doc' = None /\ next' = 1
    /\ recovering' = FALSE /\ force' = FALSE /\ result' = res

Goto(step) == pc' = step /\ UNCHANGED <<next, modeVars, aborts>>

\* The publisher has the lock (a run that returns before that changes nothing).
Begin(f) ==
    /\ pc = "idle"
    /\ pc' = "reconcile" /\ recovering' = TRUE /\ force' = f /\ result' = "running"
    /\ UNCHANGED <<diskVars, doc, next, aborts>>

----------------------------------------------------------------------------
(* recoverPublication: journal temps, then candidates or the journal. *)

\* What reconcileJournalTemps accepts.  A duplicate stage is removed and an
\* adjacent one promoted, which leave the same journal.
AcceptedTemp ==
    /\ journalTemp \in Journals
    /\ IF journal = None
       THEN journalTemp.stage = "candidate_ready" /\ OwnedCandidate(journalTemp.id)
       ELSE /\ sameJournalImmutable(journal, journalTemp)
            /\ \/ journal.stage = journalTemp.stage
               \/ legalAdjacentStage(journal.stage, journalTemp.stage,
                                     journal.digests # None)

ReconcileWithoutTemp ==
    /\ pc = "reconcile" /\ journalTemp = None
    /\ doc' = journal
    /\ Goto(IF journal = None THEN "candidates" ELSE "resume")
    /\ UNCHANGED diskVars

ReconcileTemp ==
    /\ pc = "reconcile" /\ AcceptedTemp
    /\ journal' = journalTemp /\ journalTemp' = None /\ doc' = journalTemp
    /\ Goto("resume")
    /\ UNCHANGED <<versionVars, linkVars, directVars>>

Candidates == {i \in Ids : kind[i] = "candidate"}

\* cleanupIncompleteCandidates deletes a candidate only while it is empty or
\* holds nothing but the temp of its owner file.
RemoveOwnerTemp(i) ==
    /\ pc = "candidates" /\ i \in Candidates /\ owner[i] = "temp" /\ files[i] = 0
    /\ owner' = [owner EXCEPT ![i] = "none"]
    /\ Goto("candidates")
    /\ UNCHANGED <<kind, files, claimedBy, identity, fresh, linkVars, journalVars,
                   directVars, doc>>

\* The entry of i is gone.
Vanish(i) ==
    /\ kind' = [kind EXCEPT ![i] = "absent"]
    /\ claimedBy' = [claimedBy EXCEPT ![i] = None]
    /\ identity' = [identity EXCEPT ![i] = "target"]
    /\ fresh' = fresh \ {i}

RemoveCandidate(i) ==
    /\ pc = "candidates" /\ i \in Candidates /\ owner[i] = "none" /\ files[i] = 0
    /\ Vanish(i)
    /\ Goto("candidates")
    /\ UNCHANGED <<owner, files, linkVars, journalVars, directVars, doc>>

CandidatesClean ==
    /\ pc = "candidates" /\ Candidates = {}
    /\ pc' = "classify" /\ recovering' = FALSE
    /\ UNCHANGED <<diskVars, doc, next, force, result, aborts>>

----------------------------------------------------------------------------
(* resumeJournal and publishTransaction share their tail, so the steps below  *)
(* serve both: "resume" is a recovering publisher that checks the evidence    *)
(* first, the other program points are reached with the evidence at hand.     *)

Resume(stages) == pc = "resume" /\ doc.stage \in stages

ResumeCandidate == Resume({"candidate_ready"}) /\ currentMatches(doc.pred)
\* Fault: a version that current already names is not recognised.
ResumeVersionForgetsSwap ==
    /\ Resume({"version_ready"}) /\ TargetVersion(doc.id)
    /\ currentMatches(doc.pred)

ResumeVersion == Resume({"version_ready"}) /\ TargetVersion(doc.id)
ResumePublished == Resume(Published) /\ current = doc.id /\ TargetVersion(doc.id)

\* What resumeJournal goes on from.
ResumeEvidence ==
    \/ /\ ResumeCandidate
       /\ OwnedCandidate(doc.id) \/ BareCandidate(doc.id) \/ TargetVersion(doc.id)
    \/ /\ ResumeVersion
       /\ \/ current = doc.id
          \/ currentMatches(doc.pred) /\ currentTemp \in {None, doc.id}
    \/ ResumePublished

\* The next stage; the other fields of a transaction never change.
AtStage(d, stage) == [id |-> d.id, pred |-> d.pred, stage |-> stage, digests |-> d.digests]
AdvanceTo(stage) == doc' = AtStage(doc, stage)

RemoveOwner ==
    /\ pc = "rmowner" \/ (ResumeCandidate /\ OwnedCandidate(doc.id))
    /\ owner' = [owner EXCEPT ![doc.id] = "none"]
    /\ Goto("rename")
    /\ UNCHANGED <<kind, files, claimedBy, identity, fresh, linkVars, journalVars,
                   directVars, doc>>

\* Fault: current is published before version_ready is durable.
RenameCandidateUnjournaled ==
    /\ pc = "rename" \/ (ResumeCandidate /\ BareCandidate(doc.id))
    /\ kind' = [kind EXCEPT ![doc.id] = "version"]
    /\ AdvanceTo("version_ready")
    /\ Goto("publish")
    /\ UNCHANGED <<owner, files, claimedBy, identity, fresh, linkVars, journalVars,
                   directVars>>

RenameCandidate ==
    /\ pc = "rename" \/ (ResumeCandidate /\ BareCandidate(doc.id))
    /\ kind' = [kind EXCEPT ![doc.id] = "version"]
    /\ AdvanceTo("version_ready")
    /\ Goto("journal")
    /\ UNCHANGED <<owner, files, claimedBy, identity, fresh, linkVars, journalVars,
                   directVars>>

ResumeRenamed ==
    /\ ResumeCandidate /\ TargetVersion(doc.id)
    /\ AdvanceTo("version_ready")
    /\ Goto("journal")
    /\ UNCHANGED diskVars

\* replaceJournalWithOperations: create the temp, write and sync it, rename it.
CreateJournalTemp ==
    /\ pc = "journal"
    /\ journalTemp' = (IF journalTemp = None THEN Torn ELSE Many)
    /\ Goto("jwrite")
    /\ UNCHANGED <<versionVars, linkVars, journal, directVars, doc>>

WriteJournalTemp ==
    /\ pc = "jwrite"
    /\ journalTemp' = (IF journalTemp = Torn THEN doc ELSE Many)
    /\ Goto("jrename")
    /\ UNCHANGED <<versionVars, linkVars, journal, directVars, doc>>

\* Fault: the direct files are cleaned before current names the new version.
AfterJournalCleansFirst ==
    CASE doc.stage = "candidate_ready" -> "rmowner"
      [] doc.stage = "version_ready" -> IF doc.digests # None THEN "cleandirect" ELSE "publish"
      [] doc.stage = "current_published" -> IF recovering THEN "resume" ELSE "finish"
      [] doc.stage = "cleaning_direct_root" -> "cleandirect"
      [] OTHER -> "retain"

\* Where publishTransaction or resumeJournal goes on once doc is durable.
AfterJournal ==
    CASE doc.stage = "candidate_ready" -> "rmowner"
      [] doc.stage = "version_ready" -> IF recovering THEN "resume" ELSE "publish"
      [] doc.stage = "current_published" -> IF recovering THEN "resume" ELSE "finish"
      [] doc.stage = "cleaning_direct_root" -> "cleandirect"
      [] OTHER -> "retain"

RenameJournal ==
    /\ pc = "jrename"
    /\ journal' = doc
    /\ journalTemp' = (IF journalTemp = doc THEN None ELSE Many)
    /\ Goto(AfterJournal)
    /\ UNCHANGED <<versionVars, linkVars, directVars, doc>>

\* Fault: recovery ignores the symlink an earlier run left behind.
CreateCurrentTempAgain ==
    /\ \/ pc = "publish" /\ TargetVersion(doc.id)
       \/ ResumeVersion /\ current # doc.id /\ currentMatches(doc.pred)
    /\ currentTemp' = (IF currentTemp = None THEN doc.id ELSE Many)
    /\ Goto("swap")
    /\ UNCHANGED <<versionVars, current, journalVars, directVars, doc>>

\* publishCurrent up to the new symlink.
CreateCurrentTemp ==
    /\ \/ pc = "publish" /\ TargetVersion(doc.id)
       \/ /\ ResumeVersion /\ current # doc.id /\ currentMatches(doc.pred)
          /\ currentTemp = None
    /\ currentTemp' = (IF currentTemp = None THEN doc.id ELSE Many)
    /\ Goto("swap")
    /\ UNCHANGED <<versionVars, current, journalVars, directVars, doc>>

\* replaceCurrentSymlink: the rename that publishes.
ReplaceCurrent ==
    /\ pc = "swap" \/ (ResumeVersion /\ current # doc.id /\ currentTemp = doc.id)
    /\ currentMatches(doc.pred)
    /\ current' = doc.id /\ currentTemp' = None
    /\ AdvanceTo("current_published")
    /\ Goto("journal")
    /\ UNCHANGED <<versionVars, journalVars, directVars>>

ResumeSwapped ==
    /\ ResumeVersion /\ current = doc.id
    /\ AdvanceTo("current_published")
    /\ Goto("journal")
    /\ UNCHANGED diskVars

\* Fault: a first publication skips the direct-root cleanup.
FinishPublishedSkipsCleanup ==
    /\ pc = "finish" \/ ResumePublished
    /\ \/ /\ doc.stage = "retaining"
          /\ Goto("retain") /\ UNCHANGED doc
       \/ /\ doc.stage # "retaining"
          /\ AdvanceTo("retaining") /\ Goto("journal")
    /\ UNCHANGED diskVars

\* finishPublishedTransaction, and resumeJournal's short cut for "retaining".
FinishPublished ==
    /\ pc = "finish" \/ ResumePublished
    /\ \/ /\ doc.stage = "retaining"
          /\ Goto("retain") /\ UNCHANGED doc
       \/ /\ doc.stage = "cleaning_direct_root"
          /\ Goto("cleandirect") /\ UNCHANGED doc
       \/ /\ doc.stage = "current_published"
          /\ AdvanceTo(IF doc.digests = None THEN "retaining" ELSE "cleaning_direct_root")
          /\ Goto("journal")
    /\ UNCHANGED diskVars

\* Fault: a direct file is removed without comparing its digest.
CleanDirectFileUnchecked ==
    /\ pc = "cleandirect" /\ next \in Files
    /\ direct' = [direct EXCEPT ![next] = "absent"]
    /\ next' = next + 1
    /\ UNCHANGED <<versionVars, linkVars, journalVars, directIdentity, pc, doc,
                   modeVars, aborts>>

\* cleanupDirectRoot, one file after the other, in the order of managedFiles.
CleanDirectFile ==
    /\ pc = "cleandirect" /\ next \in Files
    /\ direct[next] \in {"absent", doc.digests[next]}
    /\ direct' = [direct EXCEPT ![next] = "absent"]
    /\ next' = next + 1
    /\ UNCHANGED <<versionVars, linkVars, journalVars, directIdentity, pc, doc,
                   modeVars, aborts>>

DirectClean ==
    /\ pc = "cleandirect" /\ next \notin Files
    /\ AdvanceTo("retaining")
    /\ pc' = "journal" /\ next' = 1
    /\ UNCHANGED <<diskVars, modeVars, aborts>>

----------------------------------------------------------------------------
(* retainRecordedVersions *)

Claimed == {i \in Ids : kind[i] = "claimed"}
\* Faults: retention spares only one of the two versions it must keep.
RecordedWithoutFinal == {doc.pred}
RecordedWithoutPredecessor == {doc.id}

Recorded == {doc.id, doc.pred}

\* Fault: the deletion does not stop at the last file.
DeleteClaimedFileOverrun(i) ==
    /\ pc = "retain" /\ i \in Claimed /\ claimedBy[i] = doc.id
    /\ files' = [files EXCEPT ![i] = @ - 1]
    /\ Goto("retain")
    /\ UNCHANGED <<kind, owner, claimedBy, identity, fresh, linkVars, journalVars,
                   directVars, doc>>

\* resumeClaimedVersionDeletion: the files in order, then the directory.
DeleteClaimedFile(i) ==
    /\ pc = "retain" /\ i \in Claimed /\ claimedBy[i] = doc.id /\ files[i] > 0
    /\ files' = [files EXCEPT ![i] = @ - 1]
    /\ Goto("retain")
    /\ UNCHANGED <<kind, owner, claimedBy, identity, fresh, linkVars, journalVars,
                   directVars, doc>>

RemoveClaimed(i) ==
    /\ pc = "retain" /\ i \in Claimed /\ claimedBy[i] = doc.id /\ files[i] = 0
    /\ Vanish(i)
    /\ Goto("retain")
    /\ UNCHANGED <<owner, files, linkVars, journalVars, directVars, doc>>

ClaimVersion(i) ==
    /\ pc = "retain" /\ Claimed = {}
    /\ i \in Entries \ Recorded /\ CompleteVersion(i)
    /\ kind' = [kind EXCEPT ![i] = "claimed"]
    /\ claimedBy' = [claimedBy EXCEPT ![i] = doc.id]
    /\ Goto("retain")
    /\ UNCHANGED <<owner, files, identity, fresh, linkVars, journalVars, directVars, doc>>

\* Fault: a recovery removes the journal while versions still wait for deletion.
RemoveJournalEarly ==
    /\ pc = "retain" /\ Claimed = {} /\ (recovering \/ Entries \subseteq Recorded)
    /\ journal' = None
    /\ IF recovering
       THEN /\ pc' = "classify" /\ doc' = None /\ recovering' = FALSE
            /\ UNCHANGED <<next, force, result>>
       ELSE Return("published")
    /\ UNCHANGED <<versionVars, linkVars, journalTemp, directVars, aborts>>

\* The journal goes last; a recovered transaction is followed by classifyRoot.
RemoveJournal ==
    /\ pc = "retain" /\ Entries \subseteq Recorded /\ TargetVersion(doc.id)
    /\ journal' = None
    /\ IF recovering
       THEN /\ pc' = "classify" /\ doc' = None /\ recovering' = FALSE
            /\ UNCHANGED <<next, force, result>>
       ELSE Return("published")
    /\ UNCHANGED <<versionVars, linkVars, journalTemp, directVars, aborts>>

----------------------------------------------------------------------------
(* publishWithOperations after recovery, and the candidate it creates. *)

AlreadyPublished ==
    /\ pc = "classify" /\ classifyRoot = "published" /\ current \in fresh
    /\ Return("published")
    /\ UNCHANGED <<diskVars, aborts>>

Refuse ==
    /\ pc = "classify"
    /\ classifyRoot = "unsafe" \/ refusalRequired(classifyRoot)
    /\ Return("refused")
    /\ UNCHANGED <<diskVars, aborts>>

\* A new transaction: the predecessor and the digests are pinned here.  The
\* material is generated, or is a fresh legacy set: target and fresh in both cases.
CreateCandidate(i) ==
    /\ pc = "classify" /\ kind[i] = "absent"
    /\ classifyRoot # "unsafe" /\ ~refusalRequired(classifyRoot)
    /\ ~(classifyRoot = "published" /\ current \in fresh)
    /\ doc' = [id |-> i, pred |-> ClassCurrent(classifyRoot),
               stage |-> "candidate_ready", digests |-> ClassDigests(classifyRoot)]
    /\ kind' = [kind EXCEPT ![i] = "candidate"]
    /\ owner' = [owner EXCEPT ![i] = "none"]
    /\ files' = [files EXCEPT ![i] = 0]
    /\ identity' = [identity EXCEPT ![i] = "target"]
    /\ fresh' = fresh \cup {i}
    /\ Goto("ownertemp")
    /\ UNCHANGED <<claimedBy, linkVars, journalVars, directVars>>

WriteOwnerTemp ==
    /\ pc = "ownertemp"
    /\ owner' = [owner EXCEPT ![doc.id] = "temp"]
    /\ Goto("ownerjson")
    /\ UNCHANGED <<kind, files, claimedBy, identity, fresh, linkVars, journalVars,
                   directVars, doc>>

PublishOwner ==
    /\ pc = "ownerjson"
    /\ owner' = [owner EXCEPT ![doc.id] = "json"]
    /\ Goto("files")
    /\ UNCHANGED <<kind, files, claimedBy, identity, fresh, linkVars, journalVars,
                   directVars, doc>>

WriteFile ==
    /\ pc = "files" /\ files[doc.id] < ManagedFiles
    /\ files' = [files EXCEPT ![doc.id] = @ + 1]
    /\ Goto("files")
    /\ UNCHANGED <<kind, owner, claimedBy, identity, fresh, linkVars, journalVars,
                   directVars, doc>>

\* validateMaterial, which unlike validateTargetIdentity asks for freshness.
ValidateCandidate ==
    /\ pc = "files" /\ OwnedCandidate(doc.id) /\ doc.id \in fresh
    /\ Goto("journal")
    /\ UNCHANGED <<diskVars, doc>>

----------------------------------------------------------------------------
(* Endings without success. *)

\* Every early return with an error: the evidence stays as it is.
EvidenceConflicts ==
    \/ pc = "reconcile" /\ journalTemp # None /\ ~AcceptedTemp
    \/ pc = "candidates" /\ \E i \in Candidates : owner[i] = "json" \/ files[i] > 0
    \/ pc = "resume" /\ ~ResumeEvidence
    \/ pc = "publish" /\ ~TargetVersion(doc.id)
    \/ pc = "swap" /\ ~currentMatches(doc.pred)
    \/ /\ pc = "cleandirect" /\ next \in Files
       /\ direct[next] \notin {"absent", doc.digests[next]}
    \/ /\ pc = "retain"
       /\ \/ \E i \in Claimed : claimedBy[i] # doc.id
          \/ Claimed = {} /\ \E i \in Entries \ Recorded : ~CompleteVersion(i)
          \/ Entries \subseteq Recorded /\ ~TargetVersion(doc.id)
    \/ pc = "files" /\ OwnedCandidate(doc.id) /\ doc.id \notin fresh

PreserveAndFail ==
    /\ EvidenceConflicts
    /\ Return("failed")
    /\ UNCHANGED <<diskVars, aborts>>

\* A crash, or an operation of the file system that fails.
Abort ==
    /\ pc # "idle" /\ aborts < MaxAborts
    /\ Return("failed")
    /\ aborts' = aborts + 1
    /\ UNCHANGED diskVars

----------------------------------------------------------------------------
(* The rest of the world: time passes, and the user touches direct files.     *)

Expire(i) ==
    /\ i \in fresh
    /\ fresh' = fresh \ {i}
    /\ UNCHANGED <<kind, owner, files, claimedBy, identity, linkVars, journalVars,
                   directVars, pc, doc, next, modeVars, aborts>>

\* An edit replaces the file, so cleanupDirectRoot's identity check sees it.
EditDirect(f) ==
    /\ direct[f] = "original" \/ (StrayFiles /\ direct[f] = "absent")
    /\ direct' = [direct EXCEPT ![f] = "edited"]
    /\ UNCHANGED <<versionVars, linkVars, journalVars, directIdentity, pc, doc, next,
                   modeVars, aborts>>

----------------------------------------------------------------------------

\* An empty root, a legacy direct root, or a settled versioned root.
Init ==
    /\ kind \in [Ids -> {"absent", "version"}]
    /\ Cardinality(Entries) <= 2
    /\ current \in (IF Entries = {} THEN {None} ELSE Entries)
    /\ owner = [i \in Ids |-> "none"]
    /\ files = [i \in Ids |-> IF kind[i] = "version" THEN ManagedFiles ELSE 0]
    /\ claimedBy = [i \in Ids |-> None]
    /\ identity \in [Ids -> Identities]
    /\ \A i \in Ids : kind[i] = "absent" => identity[i] = "target"
    /\ fresh \in SUBSET Entries
    /\ direct \in [Files -> {"absent", "original"}]
    /\ Entries # {} => DirectPresent = {}
    /\ directIdentity \in (IF DirectPresent = Files THEN Identities ELSE {"unknown"})
    /\ currentTemp = None /\ journal = None /\ journalTemp = None
    /\ pc = "idle" /\ doc = None /\ next = 1
    /\ recovering = FALSE /\ force = FALSE /\ result = "none" /\ aborts = 0

Publisher ==
    \/ ReconcileWithoutTemp \/ ReconcileTemp
    \/ \E i \in Ids : RemoveOwnerTemp(i) \/ RemoveCandidate(i)
    \/ CandidatesClean
    \/ RemoveOwner \/ RenameCandidate \/ ResumeRenamed
    \/ CreateJournalTemp \/ WriteJournalTemp \/ RenameJournal
    \/ CreateCurrentTemp \/ ReplaceCurrent \/ ResumeSwapped
    \/ FinishPublished \/ CleanDirectFile \/ DirectClean
    \/ \E i \in Ids : DeleteClaimedFile(i) \/ RemoveClaimed(i) \/ ClaimVersion(i)
    \/ RemoveJournal
    \/ AlreadyPublished \/ Refuse
    \/ \E i \in Ids : CreateCandidate(i)
    \/ WriteOwnerTemp \/ PublishOwner \/ WriteFile \/ ValidateCandidate
    \/ PreserveAndFail

Next ==
    \/ \E f \in BOOLEAN : Begin(f)
    \/ Publisher
    \/ Abort
    \/ \E i \in Ids : Expire(i)
    \/ \E f \in Files : EditDirect(f)

Spec == Init /\ [][Next]_vars

\* The operating system schedules a running publisher, and somebody runs the
\* program again.
FairSpec == Spec /\ WF_vars(Publisher) /\ WF_vars(\E f \in BOOLEAN : Begin(f))
----------------------------------------------------------------------------
(* Properties *)

\* Every file of the managed root has one of the forms the readers of state.go and
\* transaction.go tell apart, and a version never has more files than managedFiles.
TypeOK ==
    /\ kind \in [Ids -> {"absent", "candidate", "version", "claimed"}]
    /\ owner \in [Ids -> {"none", "temp", "json"}]
    /\ files \in [Ids -> 0..ManagedFiles]
    /\ claimedBy \in [Ids -> Ids \cup {None}]
    /\ identity \in [Ids -> Identities]
    /\ fresh \in SUBSET Ids
    /\ current \in Ids \cup {None}
    /\ currentTemp \in Ids \cup {None, Many}
    /\ journal \in Journals \cup {None}
    /\ journalTemp \in Journals \cup {None, Torn, Many}
    /\ direct \in [Files -> Contents]
    /\ directIdentity \in Identities
    /\ pc \in Steps
    /\ doc \in Journals \cup {None}
    /\ next \in 1..(ManagedFiles + 1)
    /\ recovering \in BOOLEAN /\ force \in BOOLEAN
    /\ result \in Results
    /\ aborts \in 0..MaxAborts

\* Whatever is cut short, current never names anything but a complete version:
\* a daemon or a client that resolves it (managed.go) finds every file.
CurrentComplete == current # None => CompleteVersion(current)

\* As long as the journal is there, the version it replaces is complete, so
\* retention and its recovery never eat the one version to fall back to.
PredecessorKept ==
    journal # None /\ journal.pred # None => CompleteVersion(journal.pred)

\* Retries do not pile up temporary files, which recovery would refuse for ever
\* ("multiple certificate publication journal temps").
NoTempPileUp == journalTemp # Many /\ currentTemp # Many

\* A transaction ends, in the run that began it or in a later one, with current
\* on its version and exactly that version and its predecessor in versions/.
RetentionExact ==
    [][journal # None /\ journal' = None =>
         /\ current = journal.id /\ currentTemp = None
         /\ Entries = {journal.id} \cup ({journal.pred} \ {None})
         /\ \A i \in Entries : CompleteVersion(i)]_vars

\* current moves in one way only: from the predecessor to the version of a
\* transaction whose durable journal says version_ready.
NoRollback ==
    [][current' # current =>
         /\ journal # None
         /\ journal.stage = "version_ready"
         /\ current = journal.pred /\ current' = journal.id]_vars

\* A root that has a usable set of certificates, direct or versioned, never
\* passes through a state without one.
AlwaysUsable ==
    [][current # None \/ DirectPresent = Files
         => current' # None \/ DirectPresent' = Files]_vars

\* When Publish reports success the root is settled: target certificates under
\* current, at most one older version, and nothing for a later run to recover.
SuccessSettled ==
    pc = "idle" /\ result = "published" =>
        /\ current # None /\ TargetVersion(current)
        /\ Cardinality(Entries) <= 2 /\ \A i \in Entries : CompleteVersion(i)
        /\ journal = None /\ journalTemp = None /\ currentTemp = None
        /\ DirectPresent = {}

\* A direct file the user changed after it was classified is never deleted, not
\* by a later recovery either: only recorded contents go.
EditedFilesKept ==
    [][\A f \in Files : direct[f] = "edited" /\ direct'[f] = "absent"
         => journal # None /\ journal.digests # None /\ journal.digests[f] = "edited"]_vars

\* The two kinds of evidence ADR-0004 tells recovery to leave alone: a journal
\* temp cut short, and a direct file that is not the one recorded.
BlockedEvidence ==
    \/ journalTemp = Torn
    \/ /\ journal # None /\ journal.digests # None
       /\ \E f \in Files : direct[f] \notin {"absent", journal.digests[f]}

\* A journaled transaction is completed after any crash, by whoever publishes
\* next, unless it left evidence that must be preserved.
RecoveryCompletes == journal # None ~> (journal = None \/ BlockedEvidence)

\* ADR-0002 line 209, "Partial --> Rotate: explicit force": a forced publication
\* of a root that holds current and a stray managed file succeeds in the end,
\* unless its own candidate expires first.
ForcedPartialRotates ==
    (pc = "classify" /\ force /\ classifyRoot = "partial")
        ~> (result = "published" \/ \E i \in Candidates : i \notin fresh)

=============================================================================
