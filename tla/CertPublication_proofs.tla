------------------------ MODULE CertPublication_proofs ------------------------
(***************************************************************************)
(* Proofs about module CertPublication, for every set of ids, every number *)
(* of managed files and any number of crashes.                             *)
(***************************************************************************)
EXTENDS CertPublication, TLAPS

----------------------------------------------------------------------------
(* The inductive invariant. *)

\* What every journal document, in memory or on disk, says truly of the root.
Sound(d) ==
    /\ d.pred # None => d.pred # d.id /\ CompleteVersion(d.pred)
    /\ d.stage \in Published => current = d.id
    /\ current = d.id => currentTemp = None

SoundDocuments ==
    /\ journal \in Journals => Sound(journal)
    /\ journalTemp \in Journals => Sound(journalTemp)
    /\ doc \in Journals => Sound(doc)

WithDocument == Steps \ {"idle", "reconcile", "candidates", "classify"}
AtJournal == {"resume", "rmowner", "rename", "publish", "swap", "finish",
              "cleandirect", "retain"}
NewTransaction == {"ownertemp", "ownerjson", "files"}
BeforeSymlink == NewTransaction \cup {"journal", "jwrite", "jrename", "rmowner",
                                      "rename", "publish"}

\* What the publisher knows at each program point.
Control ==
    /\ IF pc \in WithDocument THEN doc \in Journals ELSE doc = None
    /\ doc \in Journals /\ ~recovering /\ doc.stage \notin Published => current # doc.id
    /\ pc \in AtJournal => journal = doc
    /\ pc \notin {"idle", "reconcile", "jwrite", "jrename"} => journalTemp = None
    /\ pc = "jwrite" => journalTemp = Torn
    /\ pc = "jrename" => journalTemp = doc
    /\ journalTemp # Many /\ currentTemp # Many
    /\ pc \in NewTransaction => kind[doc.id] = "candidate" /\ doc.stage = "candidate_ready"
    /\ pc \in {"rmowner", "rename"} => doc.stage = "candidate_ready"
    /\ pc \in {"publish", "swap"} => doc.stage = "version_ready"
    /\ pc = "swap" => CompleteVersion(doc.id) /\ currentTemp = doc.id
    /\ pc = "finish" => doc.stage = "current_published"
    /\ pc = "cleandirect" => doc.stage = "cleaning_direct_root" /\ doc.digests # None
    /\ pc = "retain" => doc.stage = "retaining"
    /\ doc \in Journals /\ doc.stage = "cleaning_direct_root" => doc.digests # None
    /\ journal \in Journals /\ journal.stage = "cleaning_direct_root" => journal.digests # None
    /\ journalTemp \in Journals /\ journalTemp.stage = "cleaning_direct_root"
         => journalTemp.digests # None
    /\ pc \in {"classify", "publish", "finish"} \cup NewTransaction => ~recovering
    /\ pc \in {"reconcile", "candidates", "resume"} => recovering
    /\ pc \in BeforeSymlink /\ ~recovering => currentTemp = None

Inv == TypeOK /\ CurrentComplete /\ SoundDocuments /\ Control

\* A document at another stage is a document.
LEMMA AdvanceJournal ==
    ASSUME NEW d \in Journals, NEW s \in Stages
    PROVE  /\ AtStage(d, s) \in Journals /\ AtStage(d, s).stage = s
           /\ AtStage(d, s).id = d.id /\ AtStage(d, s).pred = d.pred
           /\ AtStage(d, s).digests = d.digests
  BY DEF Journals, AtStage

\* The fields of a document, for the leaves that do not unfold Journals.
LEMMA JournalFields ==
    ASSUME NEW d \in Journals
    PROVE  /\ d.id \in Ids /\ d.pred \in Ids \cup {None} /\ d.stage \in Stages
           /\ d.digests \in [Files -> Contents] \cup {None}
  BY DEF Journals

USE IdsAssumption, DistinctAssumption, FilesAssumption, BoundAssumption,
    JournalAssumption
USE DEF Steps, Published, Results, vars, diskVars, versionVars, linkVars,
        journalVars, directVars, modeVars

\* A publisher that gets the lock has changed nothing yet.
LEMMA BeginStep ==
    ASSUME Inv, NEW f \in BOOLEAN, Begin(f)
    PROVE  Inv'
<1> USE DEF Begin
<1>1. TypeOK'
  BY DEF Inv, TypeOK
<1>2. CurrentComplete'
  BY DEF Inv, CurrentComplete, CompleteVersion
<1>3. SoundDocuments'
  BY DEF Inv, CompleteVersion, SoundDocuments, Sound
<1>4. Control'
  BY DEF Inv, Control, WithDocument, NewTransaction, AtJournal
<1> QED BY <1>1, <1>2, <1>3, <1>4 DEF Inv

\* Without a temp, recovery goes on from the journal it reads.
LEMMA ReconcileWithoutTempStep ==
    ASSUME Inv, ReconcileWithoutTemp
    PROVE  Inv'
<1> USE DEF ReconcileWithoutTemp, Goto
<1>1. TypeOK'
  BY DEF Inv, TypeOK
<1>2. CurrentComplete'
  BY DEF Inv, CurrentComplete, CompleteVersion
<1>3. SoundDocuments'
  BY DEF Inv, CompleteVersion, SoundDocuments, Sound
<1>4. Control'
  BY DEF Inv, TypeOK, Control, WithDocument, NewTransaction
<1> QED BY <1>1, <1>2, <1>3, <1>4 DEF Inv

\* A promoted temp is the journal's own next stage, or the first journal of an
\* intact candidate.
LEMMA ReconcileTempStep ==
    ASSUME Inv, ReconcileTemp
    PROVE  Inv'
<1> USE DEF ReconcileTemp, Goto, AcceptedTemp, sameJournalImmutable,
    legalAdjacentStage
<1>1. TypeOK'
  BY DEF Inv, TypeOK
<1>2. CurrentComplete'
  BY DEF Inv, CurrentComplete, CompleteVersion
<1>3. SoundDocuments'
  BY DEF Inv, CompleteVersion, SoundDocuments, Sound
<1>4. Control'
  BY DEF Inv, Control, WithDocument, NewTransaction
<1> QED BY <1>1, <1>2, <1>3, <1>4 DEF Inv

\* An unjournaled candidate loses its owner temp; no document names it.
LEMMA RemoveOwnerTempStep ==
    ASSUME Inv, NEW i \in Ids, RemoveOwnerTemp(i)
    PROVE  Inv'
<1> USE DEF RemoveOwnerTemp, Goto, Candidates
<1>1. TypeOK'
  BY DEF Inv, TypeOK
<1>2. CurrentComplete'
  BY DEF Inv, CurrentComplete, CompleteVersion
<1>3. SoundDocuments'
  BY DEF Inv, CompleteVersion, SoundDocuments, Sound
<1>4. Control'
  BY DEF Inv, Control
<1> QED BY <1>1, <1>2, <1>3, <1>4 DEF Inv

\* An empty unjournaled candidate goes; neither current nor a document names
\* it.
LEMMA RemoveCandidateStep ==
    ASSUME Inv, NEW i \in Ids, RemoveCandidate(i)
    PROVE  Inv'
<1> USE DEF RemoveCandidate, Goto, Candidates, Vanish
<1>1. TypeOK'
  BY DEF Inv, TypeOK, Identities
<1>2. CurrentComplete'
  BY DEF Inv, CurrentComplete, CompleteVersion
<1>3. SoundDocuments'
  BY DEF Inv, CompleteVersion, SoundDocuments, Sound
<1>4. Control'
  BY DEF Inv, Control
<1> QED BY <1>1, <1>2, <1>3, <1>4 DEF Inv

\* Recovery without a journal ends.
LEMMA CandidatesCleanStep ==
    ASSUME Inv, CandidatesClean
    PROVE  Inv'
<1> USE DEF CandidatesClean
<1>1. TypeOK'
  BY JournalFields DEF Inv, TypeOK, Control, WithDocument
<1>2. CurrentComplete'
  BY DEF Inv, CurrentComplete, CompleteVersion
<1>3. SoundDocuments'
  BY DEF Inv, CompleteVersion, SoundDocuments, Sound
<1>4. Control'
  BY DEF Inv, Control, WithDocument, NewTransaction, AtJournal, BeforeSymlink
<1> QED BY <1>1, <1>2, <1>3, <1>4 DEF Inv

\* The journaled candidate loses its owner document and keeps its files.
LEMMA RemoveOwnerStep ==
    ASSUME Inv, RemoveOwner
    PROVE  Inv'
<1> USE DEF RemoveOwner, Goto, ResumeCandidate, Resume
<1>1. TypeOK'
  BY JournalFields DEF Inv, TypeOK, Control, WithDocument
<1>2. CurrentComplete'
  BY DEF Inv, CurrentComplete, CompleteVersion
<1>3. SoundDocuments'
  BY DEF Inv, CompleteVersion, SoundDocuments, Sound
<1>4. Control'
  BY DEF Inv, Control, WithDocument, NewTransaction, AtJournal, BeforeSymlink
<1> QED BY <1>1, <1>2, <1>3, <1>4 DEF Inv

\* The candidate becomes a version, which nothing named so far.
LEMMA RenameCandidateStep ==
    ASSUME Inv, RenameCandidate
    PROVE  Inv'
<1> USE DEF RenameCandidate, Goto, ResumeCandidate, Resume
<1>0. doc \in Journals
  BY DEF Inv, Control, WithDocument
<1>d. /\ doc' \in Journals /\ doc'.stage = "version_ready"
      /\ doc'.id = doc.id /\ doc'.pred = doc.pred /\ doc'.digests = doc.digests
  BY <1>0, AdvanceJournal DEF AdvanceTo, Stages
<1>1. TypeOK'
  BY <1>d, JournalFields DEF Inv, TypeOK
<1>2. CurrentComplete'
  BY DEF Inv, CurrentComplete, CompleteVersion
<1>3. SoundDocuments'
  BY <1>d DEF Inv, CompleteVersion, Control, WithDocument, SoundDocuments, Sound
<1>4. Control'
  BY <1>d DEF Inv, Control, WithDocument, NewTransaction, AtJournal, BeforeSymlink
<1> QED BY <1>1, <1>2, <1>3, <1>4 DEF Inv

\* Recovery finds the candidate already renamed.
LEMMA ResumeRenamedStep ==
    ASSUME Inv, ResumeRenamed
    PROVE  Inv'
<1> USE DEF ResumeRenamed, Goto, ResumeCandidate, Resume
<1>0. doc \in Journals
  BY DEF Inv, Control, WithDocument
<1>d. /\ doc' \in Journals /\ doc'.stage = "version_ready"
      /\ doc'.id = doc.id /\ doc'.pred = doc.pred /\ doc'.digests = doc.digests
  BY <1>0, AdvanceJournal DEF AdvanceTo, Stages
<1>1. TypeOK'
  BY <1>d DEF Inv, TypeOK
<1>2. CurrentComplete'
  BY DEF Inv, CurrentComplete, CompleteVersion
<1>3. SoundDocuments'
  BY <1>d DEF Inv, CompleteVersion, Control, WithDocument, SoundDocuments, Sound
<1>4. Control'
  BY <1>d DEF Inv, Control, WithDocument, NewTransaction, AtJournal
<1> QED BY <1>1, <1>2, <1>3, <1>4 DEF Inv

\* A new journal temp is created; there is never a second one.
LEMMA CreateJournalTempStep ==
    ASSUME Inv, CreateJournalTemp
    PROVE  Inv'
<1> USE DEF CreateJournalTemp, Goto
<1>1. TypeOK'
  BY DEF Inv, TypeOK
<1>2. CurrentComplete'
  BY DEF Inv, CurrentComplete, CompleteVersion
<1>3. SoundDocuments'
  BY DEF Inv, CompleteVersion, SoundDocuments, Sound
<1>4. Control'
  BY DEF Inv, Control, WithDocument, NewTransaction, AtJournal, BeforeSymlink
<1> QED BY <1>1, <1>2, <1>3, <1>4 DEF Inv

\* The temp now holds the publisher's document.
LEMMA WriteJournalTempStep ==
    ASSUME Inv, WriteJournalTemp
    PROVE  Inv'
<1> USE DEF WriteJournalTemp, Goto
<1>1. TypeOK'
  BY DEF Inv, TypeOK
<1>2. CurrentComplete'
  BY DEF Inv, CurrentComplete, CompleteVersion
<1>3. SoundDocuments'
  BY DEF Inv, CompleteVersion, SoundDocuments, Sound
<1>4. Control'
  BY DEF Inv, Control, WithDocument, NewTransaction, AtJournal, BeforeSymlink
<1> QED BY <1>1, <1>2, <1>3, <1>4 DEF Inv

\* The document becomes the journal: this is where every stage begins.
LEMMA RenameJournalStep ==
    ASSUME Inv, RenameJournal
    PROVE  Inv'
<1> USE DEF RenameJournal, Goto, AfterJournal
<1>1. TypeOK'
  BY DEF Inv, TypeOK
<1>2. CurrentComplete'
  BY DEF Inv, CurrentComplete, CompleteVersion
<1>3. SoundDocuments'
  BY DEF Inv, CompleteVersion, SoundDocuments, Sound
<1>4. Control'
  BY JournalFields DEF Inv, Control, WithDocument, NewTransaction, BeforeSymlink,
      Stages
<1> QED BY <1>1, <1>2, <1>3, <1>4 DEF Inv

\* The new symlink points to the complete version of the document.
LEMMA CreateCurrentTempStep ==
    ASSUME Inv, CreateCurrentTemp
    PROVE  Inv'
<1> USE DEF CreateCurrentTemp, Goto, ResumeVersion, Resume, TargetVersion
<1>1. TypeOK'
  BY JournalFields DEF Inv, TypeOK, Control, WithDocument
<1>2. CurrentComplete'
  BY DEF Inv, CurrentComplete, CompleteVersion
<1>3. SoundDocuments'
  BY DEF Inv, CompleteVersion, Control, SoundDocuments, Sound, AtJournal
<1>4. Control'
  BY JournalFields DEF Inv, CompleteVersion, Control, WithDocument, NewTransaction,
      AtJournal, BeforeSymlink
<1> QED BY <1>1, <1>2, <1>3, <1>4 DEF Inv

\* The rename that publishes: current moves to a complete version.
LEMMA ReplaceCurrentStep ==
    ASSUME Inv, ReplaceCurrent
    PROVE  Inv'
<1> USE DEF ReplaceCurrent, Goto, ResumeVersion, Resume, TargetVersion,
    currentMatches
<1>0. doc \in Journals
  BY DEF Inv, Control, WithDocument
<1>d. /\ doc' \in Journals /\ doc'.stage = "current_published"
      /\ doc'.id = doc.id /\ doc'.pred = doc.pred /\ doc'.digests = doc.digests
  BY <1>0, AdvanceJournal DEF AdvanceTo, Stages
<1>1. TypeOK'
  BY <1>d DEF Inv, TypeOK, Control
<1>2. CurrentComplete'
  BY DEF Inv, CurrentComplete, CompleteVersion, Control
<1>3. SoundDocuments'
  BY <1>d DEF Inv, CompleteVersion, Control, WithDocument, SoundDocuments, Sound,
      AtJournal
<1>4. Control'
  BY <1>d DEF Inv, Control, WithDocument, NewTransaction, AtJournal
<1> QED BY <1>1, <1>2, <1>3, <1>4 DEF Inv

\* Recovery finds current already moved.
LEMMA ResumeSwappedStep ==
    ASSUME Inv, ResumeSwapped
    PROVE  Inv'
<1> USE DEF ResumeSwapped, Goto, ResumeVersion, Resume
<1>0. doc \in Journals
  BY DEF Inv, Control, WithDocument
<1>d. /\ doc' \in Journals /\ doc'.stage = "current_published"
      /\ doc'.id = doc.id /\ doc'.pred = doc.pred /\ doc'.digests = doc.digests
  BY <1>0, AdvanceJournal DEF AdvanceTo, Stages
<1>1. TypeOK'
  BY <1>d DEF Inv, TypeOK
<1>2. CurrentComplete'
  BY DEF Inv, CurrentComplete, CompleteVersion
<1>3. SoundDocuments'
  BY <1>d DEF Inv, CompleteVersion, Control, WithDocument, SoundDocuments, Sound
<1>4. Control'
  BY <1>d DEF Inv, Control, WithDocument, NewTransaction, AtJournal
<1> QED BY <1>1, <1>2, <1>3, <1>4 DEF Inv

\* The published transaction picks its next stage.
LEMMA FinishPublishedStep ==
    ASSUME Inv, FinishPublished
    PROVE  Inv'
<1> USE DEF FinishPublished, Goto, ResumePublished, Resume
<1>0. doc \in Journals
  BY DEF Inv, Control, WithDocument
<1>d. /\ doc' \in Journals /\ doc'.id = doc.id /\ doc'.pred = doc.pred
      /\ doc'.digests = doc.digests
      /\ \/ pc' = "retain" /\ doc'.stage = "retaining"
         \/ pc' = "cleandirect" /\ doc'.stage = "cleaning_direct_root" /\ doc' = doc
         \/ pc' = "journal" /\ doc'.stage = "retaining"
         \/ pc' = "journal" /\ doc'.stage = "cleaning_direct_root" /\ doc.digests # None
      /\ pc' # "journal" => doc' = doc
  BY <1>0, AdvanceJournal DEF AdvanceTo, Stages
<1>1. TypeOK'
  BY <1>d DEF Inv, TypeOK
<1>2. CurrentComplete'
  BY DEF Inv, CurrentComplete, CompleteVersion
<1>3. SoundDocuments'
  BY <1>d DEF Inv, CompleteVersion, Control, WithDocument, SoundDocuments, Sound
<1>4. Control'
  BY <1>d DEF Inv, Control, WithDocument, NewTransaction, SoundDocuments, Sound,
      AtJournal
<1> QED BY <1>1, <1>2, <1>3, <1>4 DEF Inv

\* A direct file goes; versions and current are not touched.
LEMMA CleanDirectFileStep ==
    ASSUME Inv, CleanDirectFile
    PROVE  Inv'
<1> USE DEF CleanDirectFile
<1>1. TypeOK'
  BY DEF Inv, TypeOK, Contents, Files
<1>2. CurrentComplete'
  BY DEF Inv, CurrentComplete, CompleteVersion
<1>3. SoundDocuments'
  BY DEF Inv, CompleteVersion, SoundDocuments, Sound
<1>4. Control'
  BY DEF Inv, Control
<1> QED BY <1>1, <1>2, <1>3, <1>4 DEF Inv

\* The last direct file has gone.
LEMMA DirectCleanStep ==
    ASSUME Inv, DirectClean
    PROVE  Inv'
<1> USE DEF DirectClean
<1>0. doc \in Journals
  BY DEF Inv, Control, WithDocument
<1>d. /\ doc' \in Journals /\ doc'.stage = "retaining"
      /\ doc'.id = doc.id /\ doc'.pred = doc.pred /\ doc'.digests = doc.digests
  BY <1>0, AdvanceJournal DEF AdvanceTo, Stages
<1>1. TypeOK'
  BY <1>d DEF Inv, TypeOK
<1>2. CurrentComplete'
  BY DEF Inv, CurrentComplete, CompleteVersion
<1>3. SoundDocuments'
  BY <1>d DEF Inv, CompleteVersion, Control, WithDocument, SoundDocuments, Sound
<1>4. Control'
  BY <1>d DEF Inv, Control, WithDocument, NewTransaction, SoundDocuments, Sound,
      AtJournal
<1> QED BY <1>1, <1>2, <1>3, <1>4 DEF Inv

\* A claimed version loses a file; it is neither current nor the predecessor.
LEMMA DeleteClaimedFileStep ==
    ASSUME Inv, NEW i \in Ids, DeleteClaimedFile(i)
    PROVE  Inv'
<1> USE DEF DeleteClaimedFile, Goto, Claimed
<1>1. TypeOK'
  BY DEF Inv, TypeOK
<1>2. CurrentComplete'
  BY DEF Inv, CurrentComplete, CompleteVersion
<1>3. SoundDocuments'
  BY DEF Inv, CompleteVersion, SoundDocuments, Sound
<1>4. Control'
  BY DEF Inv, Control
<1> QED BY <1>1, <1>2, <1>3, <1>4 DEF Inv

\* A claimed version without files goes.
LEMMA RemoveClaimedStep ==
    ASSUME Inv, NEW i \in Ids, RemoveClaimed(i)
    PROVE  Inv'
<1> USE DEF RemoveClaimed, Goto, Claimed, Vanish
<1>1. TypeOK'
  BY DEF Inv, TypeOK, Identities
<1>2. CurrentComplete'
  BY DEF Inv, CurrentComplete, CompleteVersion
<1>3. SoundDocuments'
  BY DEF Inv, CompleteVersion, SoundDocuments, Sound
<1>4. Control'
  BY DEF Inv, Control
<1> QED BY <1>1, <1>2, <1>3, <1>4 DEF Inv

\* Retention claims a version the journal does not record.
LEMMA ClaimVersionStep ==
    ASSUME Inv, NEW i \in Ids, ClaimVersion(i)
    PROVE  Inv'
<1> USE DEF ClaimVersion, Goto, Claimed, Recorded
<1>1. TypeOK'
  BY JournalFields DEF Inv, TypeOK, Control, WithDocument
<1>2. CurrentComplete'
  BY DEF Inv, CurrentComplete, CompleteVersion, Control, WithDocument,
      SoundDocuments, Sound
<1>3. SoundDocuments'
  BY DEF Inv, CompleteVersion, Control, SoundDocuments, Sound, AtJournal
<1>4. Control'
  BY DEF Inv, Control
<1> QED BY <1>1, <1>2, <1>3, <1>4 DEF Inv

\* The transaction ends.
LEMMA RemoveJournalStep ==
    ASSUME Inv, RemoveJournal
    PROVE  Inv'
<1> USE DEF RemoveJournal, Return
<1>1. TypeOK'
  <2>1. next' \in 1..(ManagedFiles + 1) /\ aborts' \in 0..MaxAborts
    BY DEF Inv, TypeOK
  <2>2. recovering' \in BOOLEAN /\ force' \in BOOLEAN
    BY Zenon DEF Inv, TypeOK
  <2> QED BY <2>1, <2>2 DEF Inv, TypeOK
<1>2. CurrentComplete'
  BY DEF Inv, CurrentComplete, CompleteVersion
<1>3. SoundDocuments'
  BY DEF Inv, Control, SoundDocuments
<1>4. Control'
  BY DEF Inv, Control, WithDocument, NewTransaction, BeforeSymlink
<1> QED BY <1>1, <1>2, <1>3, <1>4 DEF Inv

\* A fresh published root needs no transaction.
LEMMA AlreadyPublishedStep ==
    ASSUME Inv, AlreadyPublished
    PROVE  Inv'
<1> USE DEF AlreadyPublished, Return
<1>1. TypeOK'
  <2>1. next' \in 1..(ManagedFiles + 1) /\ aborts' \in 0..MaxAborts
    BY DEF Inv, TypeOK
  <2>2. recovering' \in BOOLEAN /\ force' \in BOOLEAN
    BY Zenon DEF Inv, TypeOK
  <2> QED BY <2>1, <2>2 DEF Inv, TypeOK
<1>2. CurrentComplete'
  BY DEF Inv, CurrentComplete, CompleteVersion
<1>3. SoundDocuments'
  BY DEF Inv, CompleteVersion, SoundDocuments, Sound
<1>4. Control'
  BY DEF Inv, Control, WithDocument, NewTransaction, AtJournal, BeforeSymlink
<1> QED BY <1>1, <1>2, <1>3, <1>4 DEF Inv

\* A root that must not be rotated is left alone.
LEMMA RefuseStep ==
    ASSUME Inv, Refuse
    PROVE  Inv'
<1> USE DEF Refuse, Return
<1>1. TypeOK'
  <2>1. next' \in 1..(ManagedFiles + 1) /\ aborts' \in 0..MaxAborts
    BY DEF Inv, TypeOK
  <2>2. recovering' \in BOOLEAN /\ force' \in BOOLEAN
    BY Zenon DEF Inv, TypeOK
  <2> QED BY <2>1, <2>2 DEF Inv, TypeOK
<1>2. CurrentComplete'
  BY DEF Inv, CurrentComplete, CompleteVersion
<1>3. SoundDocuments'
  BY DEF Inv, CompleteVersion, SoundDocuments, Sound
<1>4. Control'
  BY DEF Inv, Control, WithDocument, NewTransaction, AtJournal, BeforeSymlink
<1> QED BY <1>1, <1>2, <1>3, <1>4 DEF Inv

\* A new transaction starts from a root without recovery evidence.
LEMMA CreateCandidateStep ==
    ASSUME Inv, NEW i \in Ids, CreateCandidate(i)
    PROVE  Inv'
<1> USE DEF CreateCandidate, Goto
<1>0. /\ current # None => current # i
      /\ ClassCurrent(classifyRoot) \in {None, current} /\ currentTemp = None
      /\ ClassDigests(classifyRoot) \in {None, direct}
  BY DEF Inv, CurrentComplete, CompleteVersion, ClassCurrent, ClassDigests,
      classifyRoot
<1>d. /\ doc' \in Journals /\ doc'.stage = "candidate_ready" /\ doc'.id = i
      /\ doc'.pred \in {None, current}
  BY <1>0 DEF Inv, TypeOK, Journals, Stages
<1>i. current # i
  BY <1>0
<1>1. TypeOK'
  BY <1>d DEF Inv, TypeOK, Identities
<1>2. CurrentComplete'
  BY <1>i DEF Inv, TypeOK, CurrentComplete, CompleteVersion
<1>3. SoundDocuments'
  BY <1>d DEF Inv, CurrentComplete, CompleteVersion, SoundDocuments, Sound
<1>4. Control'
  BY <1>0, <1>d DEF Inv, TypeOK, Control, WithDocument, AtJournal
<1> QED BY <1>1, <1>2, <1>3, <1>4 DEF Inv

\* The new candidate gets the temp of its owner document.
LEMMA WriteOwnerTempStep ==
    ASSUME Inv, WriteOwnerTemp
    PROVE  Inv'
<1> USE DEF WriteOwnerTemp, Goto
<1>1. TypeOK'
  BY JournalFields DEF Inv, TypeOK, Control, WithDocument
<1>2. CurrentComplete'
  BY DEF Inv, CurrentComplete, CompleteVersion, Control, NewTransaction
<1>3. SoundDocuments'
  BY DEF Inv, CompleteVersion, Control, NewTransaction, SoundDocuments, Sound
<1>4. Control'
  BY DEF Inv, Control, WithDocument, NewTransaction, AtJournal, BeforeSymlink
<1> QED BY <1>1, <1>2, <1>3, <1>4 DEF Inv

\* The new candidate gets its owner document.
LEMMA PublishOwnerStep ==
    ASSUME Inv, PublishOwner
    PROVE  Inv'
<1> USE DEF PublishOwner, Goto
<1>1. TypeOK'
  BY JournalFields DEF Inv, TypeOK, Control, WithDocument
<1>2. CurrentComplete'
  BY DEF Inv, CurrentComplete, CompleteVersion, Control, NewTransaction
<1>3. SoundDocuments'
  BY DEF Inv, CompleteVersion, Control, NewTransaction, SoundDocuments, Sound
<1>4. Control'
  BY DEF Inv, Control, WithDocument, NewTransaction, AtJournal, BeforeSymlink
<1> QED BY <1>1, <1>2, <1>3, <1>4 DEF Inv

\* The new candidate gets a file.
LEMMA WriteFileStep ==
    ASSUME Inv, WriteFile
    PROVE  Inv'
<1> USE DEF WriteFile, Goto
<1>1. TypeOK'
  BY JournalFields DEF Inv, TypeOK, Control, WithDocument
<1>2. CurrentComplete'
  BY DEF Inv, CurrentComplete, CompleteVersion
<1>3. SoundDocuments'
  BY DEF Inv, CompleteVersion, SoundDocuments, Sound
<1>4. Control'
  BY DEF Inv, Control
<1> QED BY <1>1, <1>2, <1>3, <1>4 DEF Inv

\* The new candidate is complete and is journaled next.
LEMMA ValidateCandidateStep ==
    ASSUME Inv, ValidateCandidate
    PROVE  Inv'
<1> USE DEF ValidateCandidate, Goto
<1>1. TypeOK'
  BY DEF Inv, TypeOK
<1>2. CurrentComplete'
  BY DEF Inv, CurrentComplete, CompleteVersion
<1>3. SoundDocuments'
  BY DEF Inv, CompleteVersion, SoundDocuments, Sound
<1>4. Control'
  BY DEF Inv, Control, WithDocument, NewTransaction, AtJournal, BeforeSymlink
<1> QED BY <1>1, <1>2, <1>3, <1>4 DEF Inv

\* A conflict ends the run and changes nothing on disk.
LEMMA PreserveAndFailStep ==
    ASSUME Inv, PreserveAndFail
    PROVE  Inv'
<1> USE DEF PreserveAndFail, Return
<1>1. TypeOK'
  <2>1. next' \in 1..(ManagedFiles + 1) /\ aborts' \in 0..MaxAborts
    BY DEF Inv, TypeOK
  <2>2. recovering' \in BOOLEAN /\ force' \in BOOLEAN
    BY Zenon DEF Inv, TypeOK
  <2> QED BY <2>1, <2>2 DEF Inv, TypeOK
<1>2. CurrentComplete'
  BY DEF Inv, CurrentComplete, CompleteVersion
<1>3. SoundDocuments'
  BY DEF Inv, CompleteVersion, SoundDocuments, Sound
<1>4. Control'
  BY DEF Inv, Control, WithDocument, NewTransaction, AtJournal, BeforeSymlink
<1> QED BY <1>1, <1>2, <1>3, <1>4 DEF Inv

\* A crash changes nothing on disk.
LEMMA AbortStep ==
    ASSUME Inv, Abort
    PROVE  Inv'
<1> USE DEF Abort, Return
<1>1. TypeOK'
  <2>1. next' \in 1..(ManagedFiles + 1) /\ aborts' \in 0..MaxAborts
    BY DEF Inv, TypeOK
  <2>2. recovering' \in BOOLEAN /\ force' \in BOOLEAN
    BY Zenon DEF Inv, TypeOK
  <2> QED BY <2>1, <2>2 DEF Inv, TypeOK
<1>2. CurrentComplete'
  BY DEF Inv, CurrentComplete, CompleteVersion
<1>3. SoundDocuments'
  BY DEF Inv, CompleteVersion, SoundDocuments, Sound
<1>4. Control'
  BY DEF Inv, Control, WithDocument, NewTransaction, AtJournal, BeforeSymlink
<1> QED BY <1>1, <1>2, <1>3, <1>4 DEF Inv

\* Certificates expire; no invariant depends on freshness.
LEMMA ExpireStep ==
    ASSUME Inv, NEW i \in Ids, Expire(i)
    PROVE  Inv'
<1> USE DEF Expire
<1>1. TypeOK'
  BY DEF Inv, TypeOK
<1>2. CurrentComplete'
  BY DEF Inv, CurrentComplete, CompleteVersion
<1>3. SoundDocuments'
  BY DEF Inv, CompleteVersion, SoundDocuments, Sound
<1>4. Control'
  BY DEF Inv, CompleteVersion, Control
<1> QED BY <1>1, <1>2, <1>3, <1>4 DEF Inv

\* The user edits a direct file.
LEMMA EditDirectStep ==
    ASSUME Inv, NEW f \in Files, EditDirect(f)
    PROVE  Inv'
<1> USE DEF EditDirect
<1>1. TypeOK'
  BY DEF Inv, TypeOK, Contents
<1>2. CurrentComplete'
  BY DEF Inv, CurrentComplete, CompleteVersion
<1>3. SoundDocuments'
  BY DEF Inv, CompleteVersion, SoundDocuments, Sound
<1>4. Control'
  BY DEF Inv, CompleteVersion, Control
<1> QED BY <1>1, <1>2, <1>3, <1>4 DEF Inv

\* The initial roots satisfy the invariant.
LEMMA InitInv == Init => Inv
<1> SUFFICES ASSUME Init PROVE Inv
  OBVIOUS
<1> USE DEF Init, Entries
<1>1. TypeOK
  <2>1. recovering \in BOOLEAN /\ force \in BOOLEAN
    BY Zenon
  <2> QED BY <2>1 DEF TypeOK, Identities, Contents
<1>2. CurrentComplete
  BY DEF CurrentComplete, CompleteVersion
<1>3. SoundDocuments
  BY DEF SoundDocuments
<1>4. Control
  BY DEF Control, WithDocument, AtJournal, NewTransaction, BeforeSymlink
<1> QED BY <1>1, <1>2, <1>3, <1>4 DEF Inv

\* Every step preserves the invariant.
LEMMA NextInv == Inv /\ [Next]_vars => Inv'
<1> SUFFICES ASSUME Inv, [Next]_vars PROVE Inv'
  OBVIOUS
<1>1. CASE UNCHANGED vars
  <2> USE <1>1 DEF vars, diskVars, versionVars, linkVars, journalVars, directVars, modeVars
  <2>1. TypeOK'
    BY DEF Inv, TypeOK
  <2>2. CurrentComplete'
    BY DEF Inv, CurrentComplete, CompleteVersion
  <2>3. SoundDocuments'
    BY DEF Inv, SoundDocuments, Sound, CompleteVersion
  <2>4. Control'
    BY DEF Inv, Control, CompleteVersion
  <2> QED BY <2>1, <2>2, <2>3, <2>4 DEF Inv
<1>2. CASE \E f \in BOOLEAN : Begin(f)
  BY <1>2, BeginStep
<1>3. CASE Abort
  BY <1>3, AbortStep
<1>4. CASE \E i \in Ids : Expire(i)
  BY <1>4, ExpireStep
<1>5. CASE \E f \in Files : EditDirect(f)
  BY <1>5, EditDirectStep
<1>6. CASE Publisher
  BY <1>6, ReconcileWithoutTempStep, ReconcileTempStep, RemoveOwnerTempStep,
     RemoveCandidateStep, CandidatesCleanStep, RemoveOwnerStep, RenameCandidateStep,
     ResumeRenamedStep, CreateJournalTempStep, WriteJournalTempStep, RenameJournalStep,
     CreateCurrentTempStep, ReplaceCurrentStep, ResumeSwappedStep, FinishPublishedStep,
     CleanDirectFileStep, DirectCleanStep, DeleteClaimedFileStep, RemoveClaimedStep,
     ClaimVersionStep, RemoveJournalStep, AlreadyPublishedStep, RefuseStep,
     CreateCandidateStep, WriteOwnerTempStep, PublishOwnerStep, WriteFileStep,
     ValidateCandidateStep, PreserveAndFailStep DEF Publisher
<1> QED BY <1>1, <1>2, <1>3, <1>4, <1>5, <1>6 DEF Next

----------------------------------------------------------------------------
(* The theorems. *)

\* Every reachable state of the publication protocol satisfies the invariant.
THEOREM Invariance == Spec => []Inv
  BY InitInv, NextInv, PTL DEF Spec

\* The variables keep their types: in particular a claimed version never loses
\* more files than it has, and the publisher is always at a known step.
THEOREM TypeCorrect == Spec => []TypeOK
<1>1. Inv => TypeOK
  BY DEF Inv
<1> QED BY <1>1, Invariance, PTL

\* However many publishers crash, and wherever, the current symlink names a
\* complete version or nothing.
THEOREM CurrentIsComplete == Spec => []CurrentComplete
<1>1. Inv => CurrentComplete
  BY DEF Inv
<1> QED BY <1>1, Invariance, PTL

\* The version a journaled transaction replaces stays complete until the journal
\* is gone: neither retention nor its recovery removes it.
THEOREM PredecessorIsKept == Spec => []PredecessorKept
<1>1. Inv => PredecessorKept
  BY DEF Inv, TypeOK, SoundDocuments, Sound, PredecessorKept
<1> QED BY <1>1, Invariance, PTL

\* No sequence of crashes and recoveries leaves two journal temps or two
\* symlink temps behind.
THEOREM TempsDoNotPileUp == Spec => []NoTempPileUp
<1>1. Inv => NoTempPileUp
  BY DEF Inv, Control, NoTempPileUp
<1> QED BY <1>1, Invariance, PTL

\* Only the publishing rename moves current.
LEMMA OnlyReplaceCurrent ==
    ASSUME [Next]_vars, current' # current
    PROVE  ReplaceCurrent
  BY DEF Next, Publisher, Begin, ReconcileWithoutTemp, ReconcileTemp,
      RemoveOwnerTemp,
         RemoveCandidate, CandidatesClean, RemoveOwner, RenameCandidate, ResumeRenamed,
         CreateJournalTemp, WriteJournalTemp, RenameJournal, CreateCurrentTemp,
         ResumeSwapped, FinishPublished, CleanDirectFile, DirectClean, DeleteClaimedFile,
         RemoveClaimed, ClaimVersion, RemoveJournal, AlreadyPublished, Refuse,
         CreateCandidate, WriteOwnerTemp, PublishOwner, WriteFile, ValidateCandidate,
         PreserveAndFail, Abort, Expire, EditDirect, vars, diskVars, linkVars

\* Only the end of a transaction removes the journal.
LEMMA OnlyRemoveJournal ==
    ASSUME Inv, [Next]_vars, journal # None, journal' = None
    PROVE  RemoveJournal
<1>1. ~ReconcileTemp
  BY DEF ReconcileTemp, AcceptedTemp
<1>2. ~RenameJournal
  BY DEF RenameJournal, Inv, Control, WithDocument
<1> QED
  BY <1>1, <1>2
     DEF Next, Publisher, Begin, ReconcileWithoutTemp, RemoveOwnerTemp,
         RemoveCandidate, CandidatesClean, RemoveOwner, RenameCandidate, ResumeRenamed,
         CreateJournalTemp, WriteJournalTemp, CreateCurrentTemp, ReplaceCurrent,
         ResumeSwapped, FinishPublished, CleanDirectFile, DirectClean, DeleteClaimedFile,
         RemoveClaimed, ClaimVersion, AlreadyPublished, Refuse,
         CreateCandidate, WriteOwnerTemp, PublishOwner, WriteFile, ValidateCandidate,
         PreserveAndFail, Abort, Expire, EditDirect, vars, diskVars, journalVars

\* Only cleanupDirectRoot removes a direct file.
LEMMA OnlyCleanDirectFile ==
    ASSUME [Next]_vars, NEW f \in Files, direct[f] # "absent", direct'[f] = "absent", TypeOK
    PROVE  CleanDirectFile
<1>1. ASSUME NEW g \in Files PROVE ~EditDirect(g)
  BY DEF EditDirect, TypeOK
<1> QED
  BY <1>1
     DEF Next, Publisher, Begin, ReconcileWithoutTemp, ReconcileTemp, RemoveOwnerTemp,
         RemoveCandidate, CandidatesClean, RemoveOwner, RenameCandidate, ResumeRenamed,
         CreateJournalTemp, WriteJournalTemp, RenameJournal, CreateCurrentTemp,
         ReplaceCurrent, ResumeSwapped, FinishPublished, DirectClean, DeleteClaimedFile,
         RemoveClaimed, ClaimVersion, RemoveJournal, AlreadyPublished, Refuse,
         CreateCandidate, WriteOwnerTemp, PublishOwner, WriteFile, ValidateCandidate,
         PreserveAndFail, Abort, Expire, vars, diskVars, directVars

\* The current symlink only ever moves forward: from the predecessor to the
\* version of the transaction whose version_ready journal is on disk.
THEOREM CurrentOnlyAdvances == Spec => NoRollback
<1>1. Inv /\ [Next]_vars => [current' # current =>
         /\ journal # None /\ journal.stage = "version_ready"
         /\ current = journal.pred /\ current' = journal.id]_vars
  <2> SUFFICES ASSUME Inv, [Next]_vars, current' # current
               PROVE  /\ journal # None /\ journal.stage = "version_ready"
                      /\ current = journal.pred /\ current' = journal.id
    OBVIOUS
  <2>1. ReplaceCurrent
    BY OnlyReplaceCurrent
  <2> QED
    BY <2>1 DEF ReplaceCurrent, ResumeVersion, Resume, currentMatches, Inv, Control,
                WithDocument, AtJournal
<1> QED BY <1>1, Invariance, PTL DEF Spec, NoRollback

\* When a transaction's journal disappears, versions/ holds its version, its
\* predecessor if it had one, both complete, and nothing else.
THEOREM RetentionIsExact == Spec => RetentionExact
<1>1. Inv /\ [Next]_vars => [journal # None /\ journal' = None =>
         /\ current = journal.id /\ currentTemp = None
         /\ Entries = {journal.id} \cup ({journal.pred} \ {None})
         /\ \A i \in Entries : CompleteVersion(i)]_vars
  <2> SUFFICES ASSUME Inv, [Next]_vars, journal # None, journal' = None
               PROVE  /\ current = journal.id /\ currentTemp = None
                      /\ Entries = {journal.id} \cup ({journal.pred} \ {None})
                      /\ \A i \in Entries : CompleteVersion(i)
    OBVIOUS
  <2>1. RemoveJournal
    BY OnlyRemoveJournal
  <2>2. journal = doc /\ doc \in Journals /\ doc.stage = "retaining"
    BY <2>1 DEF RemoveJournal, Inv, Control, WithDocument, AtJournal
  <2>3. current = doc.id /\ currentTemp = None
    BY <2>2 DEF Inv, SoundDocuments, Sound
  <2>4. CompleteVersion(doc.id) /\ (doc.pred # None => CompleteVersion(doc.pred))
    BY <2>1, <2>2 DEF RemoveJournal, TargetVersion, Inv, SoundDocuments, Sound
  <2>5. Entries = {doc.id} \cup ({doc.pred} \ {None})
    BY <2>1, <2>2, <2>4, JournalFields DEF RemoveJournal, Recorded, Entries,
        CompleteVersion
  <2> QED BY <2>2, <2>3, <2>4, <2>5
<1> QED BY <1>1, Invariance, PTL DEF Spec, RetentionExact

\* A usable root stays usable: direct files disappear only once current names
\* the version that replaces them.
THEOREM RootStaysUsable == Spec => AlwaysUsable
<1>1. Inv /\ [Next]_vars => [current # None \/ DirectPresent = Files
         => current' # None \/ DirectPresent' = Files]_vars
  <2> SUFFICES ASSUME Inv, [Next]_vars, current # None \/ DirectPresent = Files
               PROVE  current' # None \/ DirectPresent' = Files
    OBVIOUS
  <2>1. CASE current' # current
    BY <2>1, OnlyReplaceCurrent, JournalFields
       DEF ReplaceCurrent, ResumeVersion, Resume, Inv, Control, WithDocument
  <2>2. CASE current' = current /\ current = None
    <3>1. DirectPresent = Files
      BY <2>2
    <3>2. ASSUME NEW f \in Files PROVE direct'[f] # "absent"
      <4> SUFFICES ASSUME direct'[f] = "absent" PROVE FALSE
        OBVIOUS
      <4>1. CleanDirectFile
        BY <3>1, OnlyCleanDirectFile DEF DirectPresent, Inv
      <4>2. current = doc.id /\ doc \in Journals
        BY <4>1 DEF CleanDirectFile, Inv, Control, SoundDocuments, Sound,
            WithDocument
      <4> QED BY <4>2, <2>2, JournalFields
    <3> QED BY <3>2 DEF DirectPresent
  <2> QED BY <2>1, <2>2
<1> QED BY <1>1, Invariance, PTL DEF Spec, AlwaysUsable

\* Cleanup never deletes a direct file whose contents the durable journal does
\* not record, even when a later run takes the cleanup over.
THEOREM EditedFilesAreKept == Spec => EditedFilesKept
<1>1. Inv /\ [Next]_vars => [\A f \in Files : direct[f] = "edited" /\ direct'[f] = "absent"
         => journal # None /\ journal.digests # None /\ journal.digests[f] = "edited"]_vars
  <2> SUFFICES ASSUME Inv, [Next]_vars, NEW f \in Files,
                      direct[f] = "edited", direct'[f] = "absent"
               PROVE  journal # None /\ journal.digests # None /\ journal.digests[f] = "edited"
    OBVIOUS
  <2>1. CleanDirectFile
    BY OnlyCleanDirectFile DEF Inv
  <2>2. journal = doc /\ doc \in Journals /\ doc.digests # None
    BY <2>1 DEF CleanDirectFile, Inv, Control, WithDocument, AtJournal
  <2>3. f = next
    BY <2>1 DEF CleanDirectFile, Inv, TypeOK
  <2> QED BY <2>1, <2>2, <2>3 DEF CleanDirectFile
<1> QED BY <1>1, Invariance, PTL DEF Spec, EditedFilesKept
=============================================================================
