----------------------- MODULE NotesStoreRecoveryProof -----------------------
(***************************************************************************)
(* Type correctness of NotesStore, and why a settled library is never      *)
(* lost.                                                                   *)
(*                                                                         *)
(* The first part is type correctness, together with the control facts     *)
(* that every step relies on (Control).  One lemma per action; the lemmas  *)
(* about the ways a call goes on or ends (FailType, NotingType, ...) are   *)
(* shared by the actions that take them.                                   *)
(*                                                                         *)
(* The second part is about directories alone: Disk(d, s, slack) survives  *)
(* a sync, a power loss, and each of the five changes that the code makes  *)
(* to the three files that decide what a start loads, under the condition  *)
(* in which the code makes it.  The third part shows that every step of a  *)
(* call is in a position to rely on those conditions (Known), and that a   *)
(* failure at any point leaves a directory with Disk.                      *)
(***************************************************************************)
EXTENDS NotesStoreInv, RmacStorageProofs, WellFoundedInduction,
        FiniteSetTheorems

\* The entry a step works on is one of those still to do.
LEMMA EntryInTodo ==
    ASSUME NEW S \in SUBSET Attachments, S # {}
    PROVE  First(S) \in S
  <1> DEFINE R == OpToRel(<, Nat)
  <1>1. Attachments \subseteq Nat
    BY ConstantsAssumption DEF Attachments
  <1>2. PICK a \in S : \A b \in S : <<b, a>> \notin R
    BY <1>1, WFMin, NatLessThanWellFounded
  <1>3. \A b \in S : a <= b
    <2>1. ASSUME NEW b \in S PROVE ~(b < a)
      BY <1>1, <1>2 DEF OpToRel
    <2> QED BY <2>1, <1>1
  <1> QED BY <1>3 DEF First

\* Snapshots of any revision.
Drafts ==
    [ revision : Nat \ {0}, text : Text,
      bytes : [Attachments -> Bytes \cup {NoFile}],
      next : 1..(MaxAttachment + 1) ]

\* Raising the revision keeps everything else of a snapshot.
LEMMA BumpedType ==
    ASSUME NEW s \in Snapshots
    PROVE  /\ Bumped(s) \in Drafts /\ Bumped(s).revision = s.revision + 1
           /\ Bumped(s).next = s.next /\ Bumped(s).bytes = s.bytes
           /\ s.next \in 1..(MaxAttachment + 1)
           /\ s.bytes \in [Attachments -> Bytes \cup {NoFile}] /\ Valid(s)
  <1>1. /\ s \in [ revision : 1..MaxRevision, text : Text,
                   bytes : [Attachments -> Bytes \cup {NoFile}],
                   next : 1..(MaxAttachment + 1) ]
        /\ Valid(s)
    BY DEF Snapshots
  <1>2. 1..MaxRevision \subseteq Nat \ {0}
    BY ConstantsAssumption
  <1> QED BY <1>1, <1>2 DEF Bumped, Drafts

\* A valid snapshot within the revision bound.
LEMMA DraftInBounds ==
    ASSUME NEW c \in Drafts, Valid(c), c.revision <= MaxRevision
    PROVE  c \in Snapshots
  <1>1. c.revision \in 1..MaxRevision
    BY ConstantsAssumption DEF Drafts
  <1> QED BY <1>1 DEF Snapshots, Drafts

\* What a commit of kind op makes of the bytes that an attachment records.
Recast(op, old, new) ==
    \/ new = old
    \/ op \in {"import", "bundle"} /\ old = NoFile /\ new \in Bytes
    \/ op \in Erasing /\ old # NoFile /\ new = NoFile
    \/ op = "rewrite" /\ old # NoFile /\ new \in Bytes

\* What prepare() accepts as a candidate of the accepted snapshot s.
LEMMA CandidateShape ==
    ASSUME NEW op \in Intents \cup {"save"}, NEW s \in Snapshots,
           NEW c \in Candidates(op, s)
    PROVE  /\ c \in Drafts /\ Valid(c) /\ c.revision = s.revision + 1
           /\ \A a \in Attachments : Recast(op, s.bytes[a], c.bytes[a])
  <1> DEFINE d == Bumped(s)
             Shape == /\ c \in Drafts /\ Valid(c) /\ c.revision = s.revision + 1
                      /\ \A a \in Attachments : Recast(op, s.bytes[a], c.bytes[a])
  <1>d. /\ d \in Drafts /\ d.revision = s.revision + 1
        /\ d.next = s.next /\ d.bytes = s.bytes /\ s.next \in 1..(MaxAttachment + 1)
        /\ s.bytes \in [Attachments -> Bytes \cup {NoFile}] /\ Valid(s)
    BY BumpedType
  <1>n. Attachments \subseteq Int /\ MaxAttachment \in Nat /\ NoFile \notin Bytes
    BY ConstantsAssumption, DistinctAssumption DEF Attachments
  <1>2. CASE op = "save"
    <2>1. PICK t \in Text : c = [d EXCEPT !.text = t]
      BY <1>2 DEF Candidates, SaveCandidates
    <2> HIDE DEF d
    <2>2. c \in Drafts /\ c.bytes = s.bytes /\ c.next = s.next
          /\ c.revision = s.revision + 1
      BY <2>1, <1>d DEF Drafts
    <2> QED BY <2>2, <1>d DEF Valid, Recast
  <1>3. CASE op = "import"
    <2>1. PICK b \in Bytes : /\ s.next \in Attachments
                             /\ c = [d EXCEPT !.bytes[s.next] = b, !.next = @ + 1]
      BY <1>3 DEF Candidates, ImportCandidates
    <2> HIDE DEF d
    <2>2. [d EXCEPT !.bytes[s.next] = b] \in Drafts
      BY <2>1, <1>d DEF Drafts
    <2>3. s.next + 1 \in 1..(MaxAttachment + 1)
      BY <2>1, ConstantsAssumption DEF Attachments
    <2>4. c = [[d EXCEPT !.bytes[s.next] = b] EXCEPT !.next = s.next + 1]
      BY <2>1, <1>d DEF Drafts
    <2>5. c \in Drafts /\ c.revision = s.revision + 1
      BY <2>2, <2>3, <2>4, <1>d DEF Drafts
    <2>6. c.bytes = [s.bytes EXCEPT ![s.next] = b] /\ c.next = s.next + 1
      BY <2>1, <2>4, <1>d DEF Drafts
    <2>7. \A a \in Attachments : c.bytes[a] = IF a = s.next THEN b ELSE s.bytes[a]
      BY <2>6, <1>d
    <2>8. s.bytes[s.next] = NoFile
      BY <2>1, <1>d, <1>n DEF Valid
    <2>9. Valid(c)
      BY <2>6, <2>7, <1>d, <1>n DEF Valid
    <2> QED BY <2>5, <2>7, <2>8, <2>9, <1>3 DEF Recast
  <1>4. CASE op = "bundle"
    <2>1. PICK n \in s.next..(MaxAttachment + 1), b \in Bytes :
            c = Bundled(s, n, b)
      BY <1>4 DEF Candidates, BundleCandidates
    <2> DEFINE new == [a \in Attachments |->
                         IF a \in s.next..(n - 1) THEN b ELSE s.bytes[a]]
    <2>2. /\ new \in [Attachments -> Bytes \cup {NoFile}]
          /\ \A a \in Attachments :
               new[a] = IF a \in s.next..(n - 1) THEN b ELSE s.bytes[a]
      BY <1>d
    <2>3. n \in 1..(MaxAttachment + 1) /\ n >= s.next
      BY <1>d, ConstantsAssumption
    <2>c. c = [d EXCEPT !.bytes = new, !.next = n]
      BY <2>1 DEF Bundled
    <2> HIDE DEF d, new
    <2>4. c \in Drafts /\ c.bytes = new /\ c.next = n /\ c.revision = s.revision + 1
      BY <2>c, <2>2, <2>3, <1>d DEF Drafts
    <2>5. \A a \in Attachments : a \in s.next..(n - 1) => s.bytes[a] = NoFile
      BY <1>d, <1>n DEF Valid
    <2>6. Valid(c)
      BY <2>2, <2>3, <2>4, <1>d, <1>n DEF Valid
    <2> QED BY <2>2, <2>4, <2>5, <2>6, <1>4 DEF Recast
  <1>5. CASE op = "purge"
    <2>1. PICK gone \in SUBSET Recorded(s) :
            c = [d EXCEPT !.bytes = [a \in Attachments |->
                            IF a \in gone THEN NoFile ELSE s.bytes[a]]]
      BY <1>5 DEF Candidates, PurgeCandidates
    <2> DEFINE new == [a \in Attachments |->
                         IF a \in gone THEN NoFile ELSE s.bytes[a]]
    <2>2. /\ new \in [Attachments -> Bytes \cup {NoFile}]
          /\ \A a \in Attachments : new[a] = IF a \in gone THEN NoFile ELSE s.bytes[a]
      BY <1>d
    <2>c. c = [d EXCEPT !.bytes = new]
      BY <2>1
    <2> HIDE DEF d, new
    <2>3. c \in Drafts /\ c.bytes = new /\ c.next = s.next
          /\ c.revision = s.revision + 1
      BY <2>c, <2>2, <1>d DEF Drafts
    <2>4. Valid(c)
      BY <2>2, <2>3, <1>d DEF Valid
    <2>5. \A a \in gone : s.bytes[a] # NoFile
      BY DEF Recorded
    <2> QED BY <2>2, <2>3, <2>4, <2>5, <1>5 DEF Recast, Erasing
  <1>6. CASE op = "orphan"
    <2>1. PICK a \in Recorded(s) : c = [d EXCEPT !.bytes[a] = NoFile]
      BY <1>6 DEF Candidates, OrphanCandidates
    <2> HIDE DEF d
    <2>2. c \in Drafts /\ c.bytes = [s.bytes EXCEPT ![a] = NoFile]
          /\ c.next = s.next /\ c.revision = s.revision + 1
      BY <2>1, <1>d DEF Drafts, Recorded
    <2>3. \A x \in Attachments : c.bytes[x] = IF x = a THEN NoFile ELSE s.bytes[x]
      BY <2>2, <1>d
    <2>4. Valid(c)
      BY <2>2, <2>3, <1>d DEF Valid
    <2>5. s.bytes[a] # NoFile
      BY DEF Recorded
    <2> QED BY <2>2, <2>3, <2>4, <2>5, <1>6 DEF Recast, Erasing
  <1>7. CASE op = "rewrite"
    <2>1. PICK new \in SUBSET Recorded(s), b \in Bytes :
            c = [d EXCEPT !.bytes = [a \in Attachments |->
                            IF a \in new THEN b ELSE s.bytes[a]]]
      BY <1>7 DEF Candidates, RewriteCandidates
    <2> DEFINE f == [a \in Attachments |-> IF a \in new THEN b ELSE s.bytes[a]]
    <2>2. /\ f \in [Attachments -> Bytes \cup {NoFile}]
          /\ \A a \in Attachments : f[a] = IF a \in new THEN b ELSE s.bytes[a]
      BY <1>d
    <2>c. c = [d EXCEPT !.bytes = f]
      BY <2>1
    <2> HIDE DEF d, f
    <2>3. c \in Drafts /\ c.bytes = f /\ c.next = s.next
          /\ c.revision = s.revision + 1
      BY <2>c, <2>2, <1>d DEF Drafts
    <2>5. \A a \in new : s.bytes[a] # NoFile
      BY DEF Recorded
    <2>4. Valid(c)
      BY <2>2, <2>3, <2>5, <1>d DEF Valid
    <2> QED BY <2>2, <2>3, <2>4, <2>5, <1>7 DEF Recast
  <1> QED BY <1>2, <1>3, <1>4, <1>5, <1>6, <1>7 DEF Intents

\* What prepare() accepts as a candidate is a snapshot again.
LEMMA CandidateType ==
    ASSUME NEW op \in Ops, NEW s \in Snapshots, NEW c \in Candidates(op, s),
           c.revision <= MaxRevision
    PROVE  c \in Snapshots
  <1>1. op \in Intents \cup {"save"}
    BY ConstantsAssumption
  <1> QED BY <1>1, CandidateShape, DraftInBounds

\* One more notice keeps a LoadedLibrary a LoadedLibrary.
LEMMA BlockType ==
    ASSUME NEW l \in Libraries, NEW b \in BOOLEAN
    PROVE  [l EXCEPT !.blocked = @ \/ b] \in Libraries
  BY DEF Libraries

\* The inductive invariant of this module.
TypeInv == TypeOK /\ Control

\* What each file of the root directory may hold.
LEMMA RootDomain ==
    /\ DOMAIN RootType = RootFiles
    /\ \A f \in {"primary", "last_good"} :
         f \in RootFiles /\ RootType[f] = Snapshots \cup {NoFile, Corrupt}
    /\ "journal" \in RootFiles /\ RootType["journal"] = Journals \cup {NoFile, Corrupt}
    /\ \A k \in Intents :
         k \in RootFiles /\ RootType[k] = IntentRecords \cup {NoFile, Corrupt}
  BY DEF RootType, RootFiles, RootContent, Intents

\* Counting a failed file operation keeps the counters counters.
LEMMA ChargeType ==
    ASSUME spent \in [FailureKinds -> Nat], NEW good \in BOOLEAN, Charge(good)
    PROVE  spent' \in [FailureKinds -> Nat]
  BY DEF Charge, Spend, FailureKinds

\* What each file of the attachments directory may hold.
LEMMA AttachmentDomain ==
    /\ DOMAIN AttachmentType = AttachmentFiles
    /\ \A f \in AttachmentFiles : AttachmentType[f] = Bytes \cup {NoFile, Torn}
  BY DEF AttachmentType

\* The part of TypeOK about the file system and the failures.
FilesOK ==
    /\ IsDirectory(root, RootType) /\ IsDirectory(atts, AttachmentType)
    /\ spent \in [FailureKinds -> Nat]

\* A save that returns Err leaves a well-typed pending phase.
LEMMA FailType ==
    ASSUME TypeInv, pc \in SavePcs, Fail, FilesOK'
    PROVE  TypeInv'
  BY DEF TypeInv, TypeOK, Control, Fail, Leave, FilesOK, SavePcs, LoadPcs, EndPcs,
         Pending

\* A load that returns Err leaves a well-typed phase.
LEMMA LoadFailsType ==
    ASSUME TypeInv, pc \in LoadPcs, LoadFails, FilesOK'
    PROVE  TypeInv'
  BY DEF TypeInv, TypeOK, Control, LoadFails, Leave, FilesOK, SavePcs, LoadPcs,
         EndPcs, Pending

\* A notice of load_locked leaves a well-typed call.
LEMMA NotingType ==
    ASSUME TypeInv, pc \in (LoadPcs \ {"recover_journal"}) \cup EndPcs, FilesOK',
           NEW b \in BOOLEAN, NEW l \in {"return", "clear_journal", "read_primary"},
           l # "return" => pc \in LoadPcs, Noting(b, l)
    PROVE  TypeInv'
  <1>1. lib \in Libraries
    BY DEF TypeInv, Control
  <1>2. lib' \in Libraries
    BY <1>1, BlockType DEF Noting
  <1> QED
    BY <1>1, <1>2 DEF TypeInv, TypeOK, Control, Noting, Continue, FilesOK, SavePcs,
                      LoadPcs, EndPcs

\* The steps that work on an intent.
WorkPcs == {"write_intent", "stage", "settle", "rollback", "remove_intent"}

\* The entry at hand names files of the attachments directory.
LEMMA EntryType ==
    ASSUME TypeInv, pc \in WorkPcs, work.todo # {}
    PROVE  /\ work \in Works /\ Entry \in Attachments
           /\ Managed(Entry) \in AttachmentFiles /\ Staged(Entry) \in AttachmentFiles
           /\ NewBytes(Entry) \in Bytes \cup {NoFile}
           /\ EntryDone => work' \in Works
  <1>1. work \in Works
    BY DEF TypeInv, Control, WorkPcs
  <1>2. Entry \in work.todo /\ work.todo \in SUBSET Attachments
    BY <1>1, EntryInTodo DEF Entry, Works
  <1>3. work.intent \in IntentRecords
    BY <1>1 DEF Works
  <1>4. work.intent.candidate \in Snapshots
    BY <1>3 DEF IntentRecords
  <1>5. NewBytes(Entry) \in Bytes \cup {NoFile}
    BY <1>4, <1>2 DEF NewBytes, Snapshots
  <1>6. EntryDone => work' \in Works
    BY <1>1, <1>2 DEF EntryDone, Works
  <1>7. Managed(Entry) \in AttachmentFiles /\ Staged(Entry) \in AttachmentFiles
    BY <1>2 DEF Managed, Staged, AttachmentFiles
  <1> QED BY <1>1, <1>2, <1>5, <1>6, <1>7

\* The head of every save_* is well typed.
LEMMA BeginType ==
    ASSUME TypeInv, Begin PROVE TypeInv'
  <1>1. held \in Libraries /\ job \in Jobs /\ pc = "begin" /\ call = "commit"
    BY DEF Begin, SavePcs, TypeInv, Control
  <1>2. UNCHANGED <<root, atts, spent>> /\ FilesOK'
    BY DEF Begin, FilesOK, TypeInv, TypeOK
  <1>3. CASE Fail
    BY <1>1, <1>2, <1>3, FailType DEF SavePcs
  <1>4. CASE job.op = "save" /\ Continue("preflight") /\ UNCHANGED <<lib, work>>
    BY <1>1, <1>2, <1>4 DEF Continue, SavePcs, LoadPcs, EndPcs, TypeInv, TypeOK, Control
  <1>5. ASSUME job.op # "save", Continue("write_intent"), UNCHANGED lib,
               work' = [kind |-> job.op,
                        intent |-> [base |-> held.snapshot, candidate |-> job.candidate],
                        todo |-> Entries([base |-> held.snapshot,
                                          candidate |-> job.candidate])]
        PROVE  TypeInv'
    <2>1. job.op \in Intents /\ job.candidate \in Snapshots /\ held.snapshot \in Snapshots
      BY <1>1, <1>5, ConstantsAssumption DEF Jobs, Libraries
    <2> DEFINE i == [base |-> held.snapshot, candidate |-> job.candidate]
    <2>2. i \in IntentRecords
      BY <2>1 DEF IntentRecords
    <2>3. Entries(i) \in SUBSET Attachments
      BY DEF Entries
    <2>w. work' = [kind |-> job.op, intent |-> i, todo |-> Entries(i)]
      BY <1>5
    <2> HIDE DEF i
    <2>4. work' \in Works
      BY <2>w, <2>1, <2>2, <2>3 DEF Works
    <2> QED
      BY <1>1, <1>2, <1>5, <2>4 DEF Continue, SavePcs, LoadPcs, EndPcs, TypeInv,
                                     TypeOK, Control
  <1> QED BY <1>3, <1>4, <1>5 DEF Begin

\* write_*_intent is well typed.
LEMMA WriteIntentType ==
    ASSUME TypeInv, WriteIntent PROVE TypeInv'
  <1>1. PICK r \in WriteVerified(root, work.kind, work.intent) :
          /\ root' = r.dir /\ Charge(r.ok)
          /\ IF r.ok
             THEN /\ Continue(IF work.kind \in Staging THEN "stage" ELSE "preflight")
                  /\ UNCHANGED <<lib, work>>
             ELSE Fail
    BY DEF WriteIntent
  <1>2. pc = "write_intent" /\ work \in Works /\ UNCHANGED atts
    BY DEF WriteIntent, TypeInv, Control
  <1>3. FilesOK' /\ r.ok \in BOOLEAN
    <2>1. work.kind \in Intents /\ work.intent \in IntentRecords
      BY <1>2 DEF Works
    <2>2. IsDirectory(root', RootType) /\ r.ok \in BOOLEAN
      BY <1>1, <2>1, RootDomain, WriteVerifiedType, WriteVerifiedOutcome DEF TypeInv, TypeOK
    <2> QED BY <1>1, <1>2, <2>2, ChargeType DEF FilesOK, TypeInv, TypeOK
  <1>4. CASE r.ok
    BY <1>1, <1>2, <1>3, <1>4
    DEF Continue, SavePcs, LoadPcs, EndPcs, TypeInv, TypeOK, Control, FilesOK
  <1>5. CASE ~r.ok
    BY <1>1, <1>2, <1>3, <1>5, FailType DEF SavePcs
  <1> QED BY <1>3, <1>4, <1>5

\* Staging one entry goes on with the others or fails the save.
LEMMA StageStepType ==
    ASSUME TypeInv, pc = "stage", work.todo # {}, FilesOK',
           (EntryDone /\ Continue("stage") /\ UNCHANGED lib) \/ Fail
    PROVE  TypeInv'
  <1>1. CASE Fail
    BY <1>1, FailType DEF SavePcs
  <1>2. CASE EntryDone /\ Continue("stage") /\ UNCHANGED lib
    <2>1. work' \in Works
      BY <1>2, EntryType DEF WorkPcs
    <2> QED BY <1>2, <2>1 DEF Continue, SavePcs, LoadPcs, EndPcs, TypeInv, TypeOK,
                              Control, FilesOK
  <1> QED BY <1>1, <1>2

\* Staging an import or a bundle is well typed.
LEMMA StageNewType ==
    ASSUME TypeInv, StageNew PROVE TypeInv'
  <1> DEFINE p == Managed(Entry)
             Next1 == (EntryDone /\ Continue("stage") /\ UNCHANGED lib) \/ Fail
  <1>1. pc = "stage" /\ work.todo # {} /\ UNCHANGED root
    BY DEF StageNew
  <1>2. p \in AttachmentFiles /\ NewBytes(Entry) \in Bytes \cup {NoFile}
    BY <1>1, EntryType DEF WorkPcs
  <1>3. CASE Next1 /\ UNCHANGED <<atts, spent>>
    <2>1. FilesOK'
      BY <1>1, <1>3 DEF FilesOK, TypeInv, TypeOK
    <2> QED BY <1>1, <1>3, <2>1, StageStepType
  <1>4. CASE \E r \in WriteNew(atts, p, NewBytes(Entry)) :
                 atts' = r.dir /\ Charge(r.ok) /\ Next1
    <2>1. PICK r \in WriteNew(atts, p, NewBytes(Entry)) :
                 atts' = r.dir /\ Charge(r.ok) /\ Next1
      BY <1>4
    <2>2. IsDirectory(atts', AttachmentType) /\ r.ok \in BOOLEAN
      BY <1>2, <2>1, AttachmentDomain, WriteNewType, WriteNewOutcome DEF TypeInv, TypeOK
    <2>3. FilesOK'
      BY <1>1, <2>1, <2>2, ChargeType DEF FilesOK, TypeInv, TypeOK
    <2> QED BY <1>1, <2>1, <2>3, StageStepType
  <1> QED BY <1>3, <1>4 DEF StageNew

\* Staging a rewrite is well typed.
LEMMA StageRewriteType ==
    ASSUME TypeInv, StageRewrite PROVE TypeInv'
  <1>1. pc = "stage" /\ work.todo # {} /\ UNCHANGED root
    BY DEF StageRewrite
  <1>2. Staged(Entry) \in AttachmentFiles /\ NewBytes(Entry) \in Bytes \cup {NoFile}
    BY <1>1, EntryType DEF WorkPcs
  <1>3. PICK r \in WriteVerified(atts, Staged(Entry), NewBytes(Entry)) :
          /\ atts' = r.dir /\ Charge(r.ok)
          /\ (EntryDone /\ Continue("stage") /\ UNCHANGED lib) \/ Fail
    BY DEF StageRewrite
  <1>4. IsDirectory(atts', AttachmentType) /\ r.ok \in BOOLEAN
    BY <1>2, <1>3, AttachmentDomain, WriteVerifiedType, WriteVerifiedOutcome
    DEF TypeInv, TypeOK
  <1>5. FilesOK'
    BY <1>1, <1>3, <1>4, ChargeType DEF FilesOK, TypeInv, TypeOK
  <1> QED BY <1>1, <1>3, <1>5, StageStepType

\* The steps that touch no file are well typed.
LEMMA QuietStepType ==
    ASSUME TypeInv, StageDone \/ Preflight \/ Settled PROVE TypeInv'
  <1>1. FilesOK'
    BY DEF StageDone, Preflight, Settled, FilesOK, TypeInv, TypeOK
  <1>2. CASE StageDone
    BY <1>2 DEF StageDone, Continue, SavePcs, LoadPcs, EndPcs, TypeInv, TypeOK, Control
  <1>3. CASE Settled
    BY <1>3 DEF Settled, Continue, SavePcs, LoadPcs, EndPcs, TypeInv, TypeOK, Control
  <1>4. CASE Preflight /\ Fail
    BY <1>1, <1>4, FailType DEF Preflight, SavePcs
  <1>5. CASE Preflight /\ ~Fail
    BY <1>5 DEF Preflight, Continue, SavePcs, LoadPcs, EndPcs, TypeInv, TypeOK, Control
  <1> QED BY <1>2, <1>3, <1>4, <1>5

\* The library a save returns is a LoadedLibrary.
LEMMA SavedType ==
    ASSUME NEW b \in BOOLEAN, job \in Jobs
    PROVE  Saved(b) \in Libraries
  <1>1. job.candidate \in Snapshots
    BY DEF Jobs
  <1> QED BY <1>1 DEF Saved, Libraries

\* Writing the journal is well typed.
LEMMA WriteJournalType ==
    ASSUME TypeInv, WriteJournal PROVE TypeInv'
  <1> DEFINE j == [expected |-> held.baseline, candidate |-> job.candidate]
  <1>1. PICK r \in WriteVerified(root, "journal", j) :
          /\ Charge(r.ok)
          /\ \/ /\ r.ok /\ root' = r.dir
                /\ Continue("write_primary") /\ UNCHANGED <<lib, work>>
             \/ /\ \E q \in RemoveFile(r.dir, "journal") : root' = q.dir
                /\ Fail
    BY DEF WriteJournal
  <1>2. pc = "write_journal" /\ UNCHANGED atts /\ held \in Libraries /\ job \in Jobs
    BY DEF WriteJournal, TypeInv, Control, SavePcs
  <1>3. j \in Journals
    <2>1. held.baseline \in Snapshots \cup {NoFile} /\ job.candidate \in Snapshots
      BY <1>2 DEF Libraries, Jobs
    <2> QED BY <2>1 DEF Journals
  <1> HIDE DEF j
  <1>4. IsDirectory(r.dir, RootType) /\ r.ok \in BOOLEAN
    BY <1>1, <1>3, RootDomain, WriteVerifiedType, WriteVerifiedOutcome DEF TypeInv, TypeOK
  <1>5. IsDirectory(root', RootType)
    BY <1>1, <1>4, RootDomain, RemoveFileType
  <1>6. FilesOK'
    BY <1>1, <1>2, <1>4, <1>5, ChargeType DEF FilesOK, TypeInv, TypeOK
  <1>7. CASE Fail
    BY <1>2, <1>6, <1>7, FailType DEF SavePcs
  <1>8. CASE Continue("write_primary") /\ UNCHANGED <<lib, work>>
    BY <1>2, <1>6, <1>8
    DEF Continue, SavePcs, LoadPcs, EndPcs, TypeInv, TypeOK, Control, FilesOK
  <1> QED BY <1>1, <1>7, <1>8

\* Writing the primary is well typed.
LEMMA WritePrimaryType ==
    ASSUME TypeInv, WritePrimary PROVE TypeInv'
  <1>1. PICK r \in WriteVerified(root, "primary", job.candidate) :
          /\ root' = r.dir /\ Charge(r.ok)
          /\ \/ Continue("write_last_good") /\ UNCHANGED <<lib, work>>
             \/ Fail
    BY DEF WritePrimary
  <1>2. pc = "write_primary" /\ UNCHANGED atts /\ job \in Jobs
    BY DEF WritePrimary, TypeInv, Control, SavePcs
  <1>3. FilesOK'
    <2>1. job.candidate \in Snapshots
      BY <1>2 DEF Jobs
    <2>2. IsDirectory(root', RootType) /\ r.ok \in BOOLEAN
      BY <1>1, <2>1, RootDomain, WriteVerifiedType, WriteVerifiedOutcome DEF TypeInv, TypeOK
    <2> QED BY <1>1, <1>2, <2>2, ChargeType DEF FilesOK, TypeInv, TypeOK
  <1>4. CASE Fail
    BY <1>2, <1>3, <1>4, FailType DEF SavePcs
  <1>5. CASE Continue("write_last_good") /\ UNCHANGED <<lib, work>>
    BY <1>2, <1>3, <1>5
    DEF Continue, SavePcs, LoadPcs, EndPcs, TypeInv, TypeOK, Control, FilesOK
  <1> QED BY <1>1, <1>4, <1>5

\* Writing the backup is well typed.
LEMMA WriteLastGoodType ==
    ASSUME TypeInv, WriteLastGood PROVE TypeInv'
  <1>1. PICK r \in WriteVerified(root, "last_good", job.candidate) :
          /\ root' = r.dir /\ Charge(r.ok) /\ lib' = Saved(~r.ok)
          /\ Continue(IF r.ok THEN "remove_journal" ELSE "return")
    BY DEF WriteLastGood
  <1>2. pc = "write_last_good" /\ UNCHANGED <<atts, work>> /\ job \in Jobs
    BY DEF WriteLastGood, TypeInv, Control, SavePcs
  <1>3. FilesOK' /\ lib' \in Libraries
    <2>1. job.candidate \in Snapshots
      BY <1>2 DEF Jobs
    <2>2. IsDirectory(root', RootType) /\ r.ok \in BOOLEAN
      BY <1>1, <2>1, RootDomain, WriteVerifiedType, WriteVerifiedOutcome DEF TypeInv, TypeOK
    <2>3. Saved(~r.ok) \in Libraries
      BY <1>2, <2>2, SavedType
    <2> QED BY <1>1, <1>2, <2>2, <2>3, ChargeType DEF FilesOK, TypeInv, TypeOK
  <1> QED
    BY <1>1, <1>2, <1>3
    DEF Continue, SavePcs, LoadPcs, EndPcs, TypeInv, TypeOK, Control, FilesOK

\* Removing the journal of a save is well typed.
LEMMA RemoveJournalType ==
    ASSUME TypeInv, RemoveJournal PROVE TypeInv'
  <1>1. PICK r \in RemoveFile(root, "journal") :
          /\ root' = r.dir /\ Charge(r.ok) /\ lib' = Saved(~r.ok)
          /\ Continue(IF r.ok THEN AfterCommit ELSE "return")
          /\ work' = IF r.ok /\ job.op # "save"
                     THEN [work EXCEPT !.todo = Entries(work.intent)] ELSE work
    BY DEF RemoveJournal
  <1>2. pc = "remove_journal" /\ UNCHANGED atts /\ job \in Jobs
    BY DEF RemoveJournal, TypeInv, Control, SavePcs
  <1>3. FilesOK' /\ lib' \in Libraries
    <2>1. IsDirectory(root', RootType) /\ r.ok \in BOOLEAN
      BY <1>1, RootDomain, RemoveFileType, RemoveFileOutcome DEF TypeInv, TypeOK
    <2>2. Saved(~r.ok) \in Libraries
      BY <1>2, <2>1, SavedType
    <2> QED BY <1>1, <1>2, <2>1, <2>2, ChargeType DEF FilesOK, TypeInv, TypeOK
  <1>4. job.op # "save" => work' \in Works
    <2>1. ASSUME job.op # "save" PROVE work \in Works
      BY <1>2, <2>1 DEF TypeInv, Control, SavePcs
    <2>2. ASSUME work \in Works
          PROVE  [work EXCEPT !.todo = Entries(work.intent)] \in Works
      <3>1. Entries(work.intent) \in SUBSET Attachments
        BY DEF Entries
      <3> QED BY <2>2, <3>1 DEF Works
    <2> QED BY <1>1, <2>1, <2>2
  <1>5. job.op = "save" => work' = work /\ pc' = "return"
    BY <1>1 DEF AfterCommit, Continue
  <1>6. pc' \in {"return", "remove_intent", "settle"}
    BY <1>1 DEF AfterCommit, Continue
  <1> QED
    BY <1>1, <1>2, <1>3, <1>4, <1>5, <1>6
    DEF Continue, SavePcs, LoadPcs, EndPcs, TypeInv, TypeOK, Control, FilesOK

\* A step that settles or rolls back an entry goes on, or blocks the library.
LEMMA SettleStepType ==
    ASSUME TypeInv, pc \in {"settle", "rollback"}, work.todo # {}, FilesOK',
           \/ EntryDone /\ Continue(pc) /\ UNCHANGED lib
           \/ Continue(pc) /\ UNCHANGED <<lib, work>>
           \/ Noting(TRUE, "return")
    PROVE  TypeInv'
  <1>1. CASE Noting(TRUE, "return")
    BY <1>1, NotingType DEF LoadPcs, EndPcs
  <1>2. CASE Continue(pc) /\ UNCHANGED lib /\ (EntryDone \/ UNCHANGED work)
    <2>1. work' \in Works
      BY <1>2, EntryType DEF WorkPcs
    <2> QED BY <1>2, <2>1 DEF Continue, SavePcs, LoadPcs, EndPcs, TypeInv, TypeOK,
                              Control, FilesOK
  <1> QED BY <1>1, <1>2

\* It writes or removes one attachment file, or none.
LEMMA SettleFilesType ==
    ASSUME TypeInv, pc \in {"settle", "rollback"}, work.todo # {}, UNCHANGED root,
           NEW p \in {Managed(Entry), Staged(Entry)},
           \/ UNCHANGED <<atts, spent>>
           \/ \E r \in RemoveFileDurable(atts, p) : atts' = r.dir /\ Charge(r.ok)
           \/ \E r \in WriteVerified(atts, p, NewBytes(Entry)) :
                 atts' = r.dir /\ Charge(r.ok)
    PROVE  FilesOK'
  <1>1. p \in AttachmentFiles /\ NewBytes(Entry) \in Bytes \cup {NoFile}
    BY EntryType DEF WorkPcs
  <1>2. CASE UNCHANGED <<atts, spent>>
    BY <1>2 DEF FilesOK, TypeInv, TypeOK
  <1>3. ASSUME NEW r \in RemoveFileDurable(atts, p), atts' = r.dir, Charge(r.ok)
        PROVE  FilesOK'
    <2>1. IsDirectory(atts', AttachmentType) /\ r.ok \in BOOLEAN
      BY <1>1, <1>3, AttachmentDomain, RemoveFileType, RemoveFileDurableOutcome
      DEF TypeInv, TypeOK
    <2> QED BY <1>3, <2>1, ChargeType DEF FilesOK, TypeInv, TypeOK
  <1>4. ASSUME NEW r \in WriteVerified(atts, p, NewBytes(Entry)), atts' = r.dir,
               Charge(r.ok)
        PROVE  FilesOK'
    <2>1. IsDirectory(atts', AttachmentType) /\ r.ok \in BOOLEAN
      BY <1>1, <1>4, AttachmentDomain, WriteVerifiedType, WriteVerifiedOutcome
      DEF TypeInv, TypeOK
    <2> QED BY <1>4, <2>1, ChargeType DEF FilesOK, TypeInv, TypeOK
  <1> QED BY <1>2, <1>3, <1>4

\* Erasing purged or collected bytes is well typed.
LEMMA EraseType ==
    ASSUME TypeInv, Erase PROVE TypeInv'
  <1>1. pc = "settle" /\ work.todo # {} /\ UNCHANGED root
    BY DEF Erase
  <1>2. FilesOK'
    <2>1. \/ UNCHANGED <<atts, spent>>
          \/ \E r \in RemoveFileDurable(atts, Managed(Entry)) :
                atts' = r.dir /\ Charge(r.ok)
      BY DEF Erase
    <2> QED BY <1>1, <2>1, SettleFilesType
  <1>3. (EntryDone /\ Continue(pc) /\ UNCHANGED lib) \/ Noting(TRUE, "return")
    BY <1>1 DEF Erase
  <1> QED BY <1>1, <1>2, <1>3, SettleStepType

\* Replacing managed bytes is well typed.
LEMMA ReplaceManagedType ==
    ASSUME TypeInv, ReplaceManaged PROVE TypeInv'
  <1>1. pc = "settle" /\ work.todo # {} /\ UNCHANGED root
    BY DEF ReplaceManaged
  <1>2. FilesOK'
    <2>1. \/ UNCHANGED <<atts, spent>>
          \/ \E r \in WriteVerified(atts, Managed(Entry), NewBytes(Entry)) :
                atts' = r.dir /\ Charge(r.ok)
      BY DEF ReplaceManaged
    <2> QED BY <1>1, <2>1, SettleFilesType
  <1>3. (Continue(pc) /\ UNCHANGED <<lib, work>>) \/ Noting(TRUE, "return")
    BY <1>1 DEF ReplaceManaged
  <1> QED BY <1>1, <1>2, <1>3, SettleStepType

\* Removing a staged replacement is well typed.
LEMMA RemoveStagedType ==
    ASSUME TypeInv, RemoveStaged PROVE TypeInv'
  <1>1. pc = "settle" /\ work.todo # {} /\ UNCHANGED root
    BY DEF RemoveStaged
  <1>2. FilesOK'
    <2>1. \E r \in RemoveFileDurable(atts, Staged(Entry)) :
             atts' = r.dir /\ Charge(r.ok)
      BY DEF RemoveStaged
    <2> QED BY <1>1, <2>1, SettleFilesType
  <1>3. (EntryDone /\ Continue(pc) /\ UNCHANGED lib) \/ Noting(TRUE, "return")
    BY <1>1 DEF RemoveStaged
  <1> QED BY <1>1, <1>2, <1>3, SettleStepType

\* Rolling back staged bytes is well typed.
LEMMA RollBackType ==
    ASSUME TypeInv, RollBack PROVE TypeInv'
  <1>1. pc = "rollback" /\ work.todo # {} /\ UNCHANGED root
    BY DEF RollBack
  <1>2. FilesOK'
    <2>1. PICK p \in {Managed(Entry), Staged(Entry)} :
             \/ UNCHANGED <<atts, spent>>
             \/ \E r \in RemoveFileDurable(atts, p) : atts' = r.dir /\ Charge(r.ok)
      BY DEF RollBack
    <2> QED BY <1>1, <2>1, SettleFilesType
  <1>3. (EntryDone /\ Continue(pc) /\ UNCHANGED lib) \/ Noting(TRUE, "return")
    BY <1>1 DEF RollBack
  <1> QED BY <1>1, <1>2, <1>3, SettleStepType

\* Verifying staged bytes is well typed.
LEMMA VerifyStagedType ==
    ASSUME TypeInv, VerifyStaged PROVE TypeInv'
  <1>1. pc = "settle" /\ work.todo # {} /\ FilesOK'
    BY DEF VerifyStaged, FilesOK, TypeInv, TypeOK
  <1>2. CASE Noting(TRUE, "return")
    BY <1>1, <1>2, SettleStepType
  <1>3. CASE work' = [work EXCEPT !.todo = {}] /\ Continue("settle") /\ UNCHANGED lib
    <2>1. work \in Works
      BY <1>1, EntryType DEF WorkPcs
    <2>2. work' \in Works
      BY <1>3, <2>1 DEF Works
    <2> QED BY <1>1, <1>3, <2>2 DEF Continue, SavePcs, LoadPcs, EndPcs, TypeInv, TypeOK,
                              Control, FilesOK
  <1> QED BY <1>2, <1>3 DEF VerifyStaged

\* Removing an intent is well typed.
LEMMA RemoveIntentType ==
    ASSUME TypeInv, RemoveIntent PROVE TypeInv'
  <1>1. PICK r \in RemoveFileDurable(root, work.kind) :
          root' = r.dir /\ Charge(r.ok) /\ Noting(~r.ok, "return")
    BY DEF RemoveIntent
  <1>2. pc = "remove_intent" /\ UNCHANGED atts /\ work \in Works
    BY DEF RemoveIntent, TypeInv, Control
  <1>3. work.kind \in Intents
    BY <1>2 DEF Works
  <1>4. IsDirectory(root', RootType) /\ r.ok \in BOOLEAN
    BY <1>1, <1>3, RootDomain, RemoveFileType, RemoveFileDurableOutcome DEF TypeInv, TypeOK
  <1>5. FilesOK'
    BY <1>1, <1>2, <1>4, ChargeType DEF FilesOK, TypeInv, TypeOK
  <1>6. (~r.ok) \in BOOLEAN
    OBVIOUS
  <1> QED BY <1>1, <1>2, <1>5, <1>6, NotingType DEF EndPcs

\* LibrarySnapshot::default() is a snapshot.
LEMMA DefaultType == DefaultSnapshot \in Snapshots
  <1>1. [a \in Attachments |-> NoFile] \in [Attachments -> Bytes \cup {NoFile}]
    OBVIOUS
  <1>2. 1 \in 1..MaxRevision /\ 1 \in 1..(MaxAttachment + 1)
    BY ConstantsAssumption
  <1>3. Valid(DefaultSnapshot)
    BY DEF Valid, DefaultSnapshot
  <1> QED BY <1>1, <1>2, <1>3, ConstantsAssumption DEF DefaultSnapshot, Snapshots

\* recover_journal is well typed: it only settles what decodes.
LEMMA RecoverJournalType ==
    ASSUME TypeInv, RecoverJournal PROVE TypeInv'
  <1> DEFINE j == root["journal"].now
             New(b) == [snapshot |-> DefaultSnapshot, baseline |-> NoFile, blocked |-> b]
  <1>1. pc = "recover_journal" /\ UNCHANGED <<root, atts, spent>>
    BY DEF RecoverJournal
  <1>2. FilesOK'
    BY <1>1 DEF FilesOK, TypeInv, TypeOK
  <1>3. CASE LoadFails
    BY <1>1, <1>2, <1>3, LoadFailsType DEF LoadPcs
  <1>4. ASSUME NEW b \in BOOLEAN, NEW l \in {"read_primary", "finish_last_good", "clear_journal"},
               lib' = New(b), Continue(l), UNCHANGED work,
               l = "finish_last_good" => j \notin {NoFile, Corrupt}
        PROVE  TypeInv'
    <2>1. lib' \in Libraries
      BY <1>4, DefaultType DEF Libraries
    <2>2. j \in Journals \cup {NoFile, Corrupt}
      BY RootDomain DEF TypeInv, TypeOK, IsDirectory
    <2> QED BY <1>1, <1>4, <2>1, <2>2 DEF Continue, SavePcs, LoadPcs, EndPcs, TypeInv,
                                           TypeOK, Control
  <1>5. CASE ~LoadFails
    <2> HIDE DEF New
    <2>1. \/ lib' = New(FALSE) /\ Continue("read_primary") /\ UNCHANGED work
          \/ lib' = New(TRUE) /\ Continue("read_primary") /\ UNCHANGED work
          \/ /\ j \notin {NoFile, Corrupt}
             /\ lib' = New(FALSE) /\ Continue("finish_last_good") /\ UNCHANGED work
          \/ lib' = New(FALSE) /\ Continue("clear_journal") /\ UNCHANGED work
      BY <1>5 DEF RecoverJournal, New
    <2> QED BY <2>1, <1>4
  <1> QED BY <1>3, <1>5

\* Writing the backup during load is well typed.
LEMMA FinishLastGoodType ==
    ASSUME TypeInv, FinishLastGood PROVE TypeInv'
  <1> DEFINE c == root["journal"].now.candidate
  <1>1. PICK r \in WriteVerified(root, "last_good", c) :
          /\ root' = r.dir /\ Charge(r.ok)
          /\ Noting(~r.ok, IF r.ok THEN "clear_journal" ELSE "read_primary")
    BY DEF FinishLastGood
  <1>2. pc = "finish_last_good" /\ UNCHANGED atts /\ root["journal"].now \in Journals
    BY DEF FinishLastGood, TypeInv, Control
  <1>3. c \in Snapshots
    BY <1>2 DEF Journals
  <1> HIDE DEF c
  <1>4. IsDirectory(root', RootType) /\ r.ok \in BOOLEAN
    BY <1>1, <1>3, RootDomain, WriteVerifiedType, WriteVerifiedOutcome DEF TypeInv, TypeOK
  <1>5. FilesOK'
    BY <1>1, <1>2, <1>4, ChargeType DEF FilesOK, TypeInv, TypeOK
  <1>6. (~r.ok) \in BOOLEAN
    OBVIOUS
  <1>7. (IF r.ok THEN "clear_journal" ELSE "read_primary") \in {"clear_journal", "read_primary"}
    OBVIOUS
  <1> QED BY <1>1, <1>2, <1>5, <1>6, <1>7, NotingType DEF LoadPcs

\* Removing the journal during load is well typed.
LEMMA ClearJournalType ==
    ASSUME TypeInv, ClearJournal PROVE TypeInv'
  <1>1. PICK r \in RemoveFile(root, "journal") :
          root' = r.dir /\ Charge(r.ok) /\ Noting(~r.ok, "read_primary")
    BY DEF ClearJournal
  <1>2. pc = "clear_journal" /\ UNCHANGED atts
    BY DEF ClearJournal
  <1>4. IsDirectory(root', RootType) /\ r.ok \in BOOLEAN
    BY <1>1, RootDomain, RemoveFileType, RemoveFileOutcome DEF TypeInv, TypeOK
  <1>5. FilesOK'
    BY <1>1, <1>2, <1>4, ChargeType DEF FilesOK, TypeInv, TypeOK
  <1>6. (~r.ok) \in BOOLEAN
    OBVIOUS
  <1> QED BY <1>1, <1>2, <1>5, <1>6, NotingType DEF LoadPcs

\* load_locked with a snapshot in hand is well typed.
LEMMA LoadedType ==
    ASSUME TypeInv, pc \in {"read_primary", "restore_primary"}, FilesOK',
           NEW s \in Snapshots, NEW f \in Snapshots \cup {NoFile}, Loaded(s, f)
    PROVE  TypeInv'
  <1>1. lib \in Libraries
    BY DEF TypeInv, Control, LoadPcs
  <1>2. lib' \in Libraries
    BY <1>1 DEF Loaded, Libraries
  <1> QED
    BY <1>1, <1>2
    DEF Loaded, Continue, SavePcs, LoadPcs, EndPcs, TypeInv, TypeOK, Control, FilesOK

\* Reading the primary or choosing the backup is well typed.
LEMMA ReadPrimaryType ==
    ASSUME TypeInv, ReadPrimary PROVE TypeInv'
  <1> DEFINE p == root["primary"].now
             g == root["last_good"].now
  <1>1. pc = "read_primary" /\ UNCHANGED <<root, atts, spent>>
    BY DEF ReadPrimary
  <1>2. FilesOK'
    BY <1>1 DEF FilesOK, TypeInv, TypeOK
  <1>3. {p, g} \subseteq Snapshots \cup {NoFile, Corrupt}
    BY RootDomain DEF TypeInv, TypeOK, IsDirectory
  <1>4. CASE LoadFails
    BY <1>1, <1>2, <1>4, LoadFailsType DEF LoadPcs
  <1>5. CASE p \notin {NoFile, Corrupt} /\ Loaded(p, p)
    BY <1>1, <1>2, <1>3, <1>5, LoadedType
  <1>6. CASE Loaded(DefaultSnapshot, NoFile)
    BY <1>1, <1>2, <1>6, DefaultType, LoadedType
  <1>7. CASE g \notin {NoFile, Corrupt} /\ Continue("restore_primary") /\ UNCHANGED <<lib, work>>
    BY <1>1, <1>3, <1>7 DEF Continue, SavePcs, LoadPcs, EndPcs, TypeInv, TypeOK, Control
  <1> QED BY <1>4, <1>5, <1>6, <1>7 DEF ReadPrimary

\* restore_primary is well typed.
LEMMA RestorePrimaryType ==
    ASSUME TypeInv, RestorePrimary PROVE TypeInv'
  <1> DEFINE g == root["last_good"].now
  <1>1. PICK r \in WriteVerified(root, "primary", g) :
          /\ root' = r.dir
          /\ \/ Loaded(g, g) /\ UNCHANGED spent
             \/ LoadFails /\ SpendRestore("faults", MaxFaults)
    BY DEF RestorePrimary
  <1>2. pc = "restore_primary" /\ UNCHANGED atts /\ g \in Snapshots
    BY DEF RestorePrimary, TypeInv, Control
  <1> HIDE DEF g
  <1>3. IsDirectory(root', RootType)
    BY <1>1, <1>2, RootDomain, WriteVerifiedType DEF TypeInv, TypeOK
  <1>4. spent' \in [FailureKinds -> Nat]
    BY <1>1 DEF SpendRestore, FailureKinds, TypeInv, TypeOK
  <1>5. FilesOK'
    BY <1>2, <1>3, <1>4 DEF FilesOK, TypeInv, TypeOK
  <1>6. CASE Loaded(g, g)
    BY <1>2, <1>5, <1>6, LoadedType
  <1>7. CASE LoadFails
    BY <1>2, <1>5, <1>7, LoadFailsType DEF LoadPcs
  <1> QED BY <1>1, <1>6, <1>7

\* The intent recoveries take up only what decodes.
LEMMA RecoverIntentType ==
    ASSUME TypeInv, RecoverIntent PROVE TypeInv'
  <1>1. pc = "recover_intent" /\ UNCHANGED <<root, atts, spent>>
    BY DEF RecoverIntent
  <1>2. FilesOK'
    BY <1>1 DEF FilesOK, TypeInv, TypeOK
  <1>3. ASSUME NEW b \in BOOLEAN, Noting(b, "return")
        PROVE  TypeInv'
    BY <1>1, <1>2, <1>3, NotingType DEF LoadPcs
  <1>4. ASSUME NEW k \in Intents, root[k].now \notin {NoFile, Corrupt},
               NEW entries \in SUBSET Attachments, NEW l \in {"rollback", "settle"},
               work' = [kind |-> k, intent |-> root[k].now, todo |-> entries],
               Continue(l), UNCHANGED lib
        PROVE  TypeInv'
    <2>1. root[k].now \in IntentRecords
      BY <1>4, RootDomain DEF TypeInv, TypeOK, IsDirectory
    <2>2. work' \in Works
      BY <1>4, <2>1 DEF Works
    <2> QED BY <1>1, <1>4, <2>2 DEF Continue, SavePcs, LoadPcs, EndPcs, TypeInv,
                                     TypeOK, Control
  <1>5. CASE \E k \in Present : Present = {k} /\ root[k].now # Corrupt /\
                ~Noting(TRUE, "return")
    <2>1. PICK k \in Present : Present = {k} /\ root[k].now # Corrupt
      BY <1>5
    <2>2. k \in Intents /\ root[k].now \notin {NoFile, Corrupt}
      BY <2>1 DEF Present
    <2> DEFINE i == root[k].now
               Take(entries, l) ==
                     /\ work' = [kind |-> k, intent |-> i, todo |-> entries]
                     /\ Continue(l) /\ UNCHANGED lib
    <2>3. Entries(i) \in SUBSET Attachments
      BY DEF Entries
    <2>4. \/ Noting(FALSE, "return")
          \/ Take(IF k \in Staging THEN Entries(i) ELSE {}, "rollback")
          \/ Take(Entries(i), "settle")
      BY <2>1, <1>5 DEF RecoverIntent
    <2>5. (IF k \in Staging THEN Entries(i) ELSE {}) \in SUBSET Attachments
      BY <2>3
    <2> QED BY <2>2, <2>3, <2>4, <2>5, <1>3, <1>4
  <1> QED BY <1>3, <1>5 DEF RecoverIntent

\* The end of a call is well typed.
LEMMA LeaveType ==
    ASSUME TypeInv, FilesOK', NEW p \in {"ready"} \cup Pending, Leave(p),
           held' \in Libraries, job' \in Jobs \cup {NoJob},
           p \in Pending => job' \in Jobs,
           accepted' \in Snapshots, settled' \in Snapshots
    PROVE  TypeInv'
  BY DEF Leave, Pending, TypeInv, TypeOK, Control, FilesOK, SavePcs, LoadPcs, EndPcs

\* open, commit_candidate and retry are well typed at their end.
LEMMA ReturnType ==
    ASSUME TypeInv, Return PROVE TypeInv'
  <1>1. pc = "return" /\ UNCHANGED <<root, atts, spent>> /\ lib \in Libraries
    BY DEF Return, TypeInv, Control, EndPcs
  <1>2. FilesOK' /\ accepted \in Snapshots /\ settled \in Snapshots
    BY <1>1 DEF FilesOK, TypeInv, TypeOK
  <1>3. lib.snapshot \in Snapshots
    BY <1>1 DEF Libraries
  <1>4. Report => held' \in Libraries /\ accepted' \in Snapshots /\ settled' \in Snapshots
    BY <1>1, <1>2, <1>3 DEF Report
  <1>5. CASE Accept
    BY <1>2, <1>4, <1>5, LeaveType DEF Accept, Pending
  <1>6. CASE call = "retry" /\ Report /\ UNCHANGED job
             /\ Leave(IF job.op = "save" THEN "conflict" ELSE "pending")
    <2>1. job \in Jobs
      BY <1>6 DEF TypeInv, Control
    <2>2. (IF job.op = "save" THEN "conflict" ELSE "pending") \in Pending
      BY DEF Pending
    <2> QED BY <1>2, <1>4, <1>6, <2>1, <2>2, LeaveType
  <1>7. CASE call = "retry" /\ held' = lib /\ call' = "commit" /\ pc' = "begin"
             /\ lib' = NoLibrary /\ work' = NoJob
             /\ UNCHANGED <<phase, job, accepted, settled>>
    BY <1>1, <1>7 DEF TypeInv, TypeOK, Control, SavePcs, LoadPcs, EndPcs
  <1> QED BY <1>5, <1>6, <1>7 DEF Return

\* The commands of the worker are well typed.
LEMMA UserType ==
    ASSUME TypeInv, User PROVE TypeInv'
  <1>1. CASE Open \/ Retry
    BY <1>1 DEF Open, Retry, Pending, TypeInv, TypeOK, Control, SavePcs, LoadPcs, EndPcs
  <1>2. CASE Discard
    BY <1>2 DEF Discard, Spend, FailureKinds, Pending, TypeInv, TypeOK, Control, SavePcs,
                LoadPcs, EndPcs
  <1>3. CASE Quit
    BY <1>3 DEF Quit, Vanish, Leave, TypeInv, TypeOK, Control, SavePcs, LoadPcs, EndPcs,
                Pending
  <1>4. CASE Resolve
    <2> DEFINE b == Bumped(held.snapshot)
    <2>1. held \in Libraries /\ job \in Jobs /\ call = "none"
      BY <1>4 DEF Resolve, Pending, TypeInv, Control
    <2>2. held.snapshot \in Snapshots /\ job.candidate \in Snapshots
      BY <2>1 DEF Libraries, Jobs
    <2>3. /\ b \in Drafts /\ b.revision = held.snapshot.revision + 1
          /\ b.bytes = held.snapshot.bytes /\ b.next = held.snapshot.next
          /\ Valid(held.snapshot)
      BY <2>2, BumpedType
    <2>4. job.candidate.text \in Text /\ held.snapshot.revision \in Nat
          /\ held.snapshot.revision < MaxRevision
      BY <1>4, <2>2, ConstantsAssumption DEF Snapshots, Resolve
    <2> DEFINE c == [b EXCEPT !.text = job.candidate.text]
    <2>5. job' = [op |-> "save", candidate |-> c]
      BY <1>4 DEF Resolve
    <2> HIDE DEF b
    <2>6. /\ c \in Drafts /\ c.revision = held.snapshot.revision + 1
          /\ c.bytes = held.snapshot.bytes /\ c.next = held.snapshot.next
      BY <2>3, <2>4 DEF Drafts
    <2> HIDE DEF c
    <2>v. Valid(c)
      BY <2>3, <2>6 DEF Valid
    <2>7. c \in Snapshots
      BY <2>4, <2>6, <2>v, DraftInBounds, ConstantsAssumption
    <2>8. job' \in Jobs
      BY <2>5, <2>7 DEF Jobs
    <2> QED BY <1>4, <2>1, <2>8 DEF Resolve, TypeInv, TypeOK, Control, SavePcs, LoadPcs, EndPcs
  <1>5. ASSUME phase = "ready", NEW op \in Ops, NEW c \in Candidates(op, held.snapshot),
               Commit(op, c)
        PROVE  TypeInv'
    <2>1. held \in Libraries /\ call = "none"
      BY <1>5 DEF TypeInv, Control, Commit
    <2>2. held.snapshot \in Snapshots /\ c.revision <= MaxRevision
      BY <1>5, <2>1 DEF Libraries, Commit
    <2>3. c \in Snapshots
      BY <2>2, CandidateType
    <2>4. job' \in Jobs
      BY <1>5, <2>3 DEF Commit, Jobs
    <2> QED BY <1>5, <2>1, <2>4 DEF Commit, TypeInv, TypeOK, Control, SavePcs, LoadPcs, EndPcs
  <1> QED BY <1>1, <1>2, <1>3, <1>4, <1>5 DEF User

\* An unreadable file leaves a well-typed state.
LEMMA ReadFaultType ==
    ASSUME TypeInv, ReadFault PROVE TypeInv'
  <1>1. UNCHANGED <<root, atts>> /\ spent' \in [FailureKinds -> Nat]
    BY DEF ReadFault, Spend, FailureKinds, TypeInv, TypeOK
  <1>2. FilesOK'
    BY <1>1 DEF FilesOK, TypeInv, TypeOK
  <1>3. CASE pc \in {"begin", "stage", "preflight"} /\ Fail
    BY <1>2, <1>3, FailType DEF SavePcs
  <1>4. CASE pc \in {"recover_journal", "read_primary"} /\ LoadFails
    BY <1>2, <1>4, LoadFailsType DEF LoadPcs
  <1>5. CASE pc = "read_primary" /\ root["last_good"].now \notin {NoFile, Corrupt}
             /\ Continue("restore_primary") /\ UNCHANGED <<lib, work>>
    <2>1. root["last_good"].now \in Snapshots
      BY <1>5, RootDomain DEF TypeInv, TypeOK, IsDirectory
    <2> QED BY <1>1, <1>2, <1>5, <2>1 DEF Continue, FilesOK, SavePcs, LoadPcs, EndPcs,
                                          TypeInv, TypeOK, Control
  <1>6. CASE pc \in {"recover_intent", "settle", "rollback"} /\ Noting(TRUE, "return")
    BY <1>2, <1>6, NotingType DEF LoadPcs, EndPcs
  <1> QED BY <1>3, <1>4, <1>5, <1>6 DEF ReadFault

\* Half a file operation keeps the types of the directories.
LEMMA RootMidwayType ==
    ASSUME TypeInv, NEW d \in RootMidway PROVE IsDirectory(d, RootType)
  <1>1. IsDirectory(root, RootType)
    BY DEF TypeInv, TypeOK
  <1>2. ASSUME NEW f \in {"primary", "last_good"}, NEW c \in Snapshots
        PROVE  IsDirectory(Put(root, f, c), RootType)
    BY <1>1, RootDomain, PutType
  <1>3. CASE d = root
    BY <1>1, <1>3
  <1>4. CASE pc = "write_intent" /\ d = Put(root, work.kind, work.intent)
    <2>1. work \in Works
      BY <1>4 DEF TypeInv, Control
    <2>2. work.kind \in Intents /\ work.intent \in IntentRecords
      BY <2>1 DEF Works
    <2> QED BY <1>1, <1>4, <2>2, RootDomain, PutType
  <1>5. CASE pc = "remove_intent" /\ d = Put(root, work.kind, NoFile)
    <2>1. work \in Works
      BY <1>5 DEF TypeInv, Control
    <2>2. work.kind \in Intents
      BY <2>1 DEF Works
    <2> QED BY <1>1, <1>5, <2>2, RootDomain, PutType
  <1>6. CASE pc \in {"write_journal", "write_primary", "write_last_good"}
    <2>1. held \in Libraries /\ job \in Jobs
      BY <1>6 DEF TypeInv, Control, SavePcs
    <2>2. held.baseline \in Snapshots \cup {NoFile} /\ job.candidate \in Snapshots
      BY <2>1 DEF Libraries, Jobs
    <2>3. [expected |-> held.baseline, candidate |-> job.candidate] \in Journals
      BY <2>2 DEF Journals
    <2>4. IsDirectory(Put(root, "journal", [expected |-> held.baseline,
                                            candidate |-> job.candidate]), RootType)
      BY <1>1, <2>3, RootDomain, PutType
    <2> QED BY <1>2, <1>3, <1>6, <2>2, <2>4 DEF RootMidway
  <1>7. CASE pc = "finish_last_good"
    <2>1. root["journal"].now \in Journals
      BY <1>7 DEF TypeInv, Control
    <2>2. root["journal"].now.candidate \in Snapshots
      BY <2>1 DEF Journals
    <2> QED BY <1>2, <1>3, <1>7, <2>2 DEF RootMidway
  <1>8. CASE pc = "restore_primary"
    <2>1. root["last_good"].now \in Snapshots
      BY <1>8 DEF TypeInv, Control
    <2> QED BY <1>2, <1>3, <1>8, <2>1 DEF RootMidway
  <1> QED BY <1>3, <1>4, <1>5, <1>6, <1>7, <1>8 DEF RootMidway

\* Half an operation on an attachment keeps the type of its directory.
LEMMA AttsMidwayType ==
    ASSUME TypeInv, NEW d \in AttsMidway PROVE IsDirectory(d, AttachmentType)
  <1>1. IsDirectory(atts, AttachmentType)
    BY DEF TypeInv, TypeOK
  <1>2. ASSUME NEW w \in AttachmentFiles \X (Bytes \cup {Torn, NoFile})
        PROVE  IsDirectory(Put(atts, w[1], w[2]), AttachmentType)
    BY <1>1, <1>2, AttachmentDomain, PutType
  <1> QED BY <1>1, <1>2 DEF AttsMidway

\* A gone process leaves a well-typed state.
LEMMA VanishType ==
    ASSUME TypeInv, FilesOK', Vanish PROVE TypeInv'
  BY DEF Vanish, Leave, FilesOK, TypeInv, TypeOK, Control, SavePcs, LoadPcs, EndPcs, Pending

\* A killed process leaves a well-typed state.
LEMMA KillType ==
    ASSUME TypeInv, Kill PROVE TypeInv'
  <1>1. spent' \in [FailureKinds -> Nat]
    BY DEF Kill, Spend, SpendRestore, FailureKinds, TypeInv, TypeOK
  <1>2. root' \in RootMidway /\ atts' \in AttsMidway /\ Vanish
    BY DEF Kill
  <1>3. FilesOK'
    BY <1>1, <1>2, RootMidwayType, AttsMidwayType DEF FilesOK
  <1> QED BY <1>2, <1>3, VanishType

\* A power loss leaves a well-typed state.
LEMMA PowerLossStepType ==
    ASSUME TypeInv, PowerLoss PROVE TypeInv'
  <1>1. spent' \in [FailureKinds -> Nat] /\ Vanish
    BY DEF PowerLoss, Spend, FailureKinds, TypeInv, TypeOK
  <1>2. PICK d \in RootMidway : root' \in AfterPowerLoss(d)
    BY DEF PowerLoss
  <1>3. PICK e \in AttsMidway : atts' \in AfterPowerLoss(e)
    BY DEF PowerLoss
  <1>4. IsDirectory(root', RootType)
    BY <1>2, RootMidwayType, PowerLossType
  <1>5. IsDirectory(atts', AttachmentType)
    BY <1>3, AttsMidwayType, PowerLossType
  <1> QED BY <1>1, <1>4, <1>5, VanishType DEF FilesOK

\* A decayed file leaves a well-typed state.
LEMMA DecayType ==
    ASSUME TypeInv, NEW f \in RootFiles, Decay(f) PROVE TypeInv'
  <1>1. spent' \in [FailureKinds -> Nat] /\ UNCHANGED atts /\ call = "none"
    BY DEF Decay, Spend, FailureKinds, TypeInv, TypeOK
  <1>2. IsDirectory(root', RootType)
    <2>1. Corrupt \in RootType[f] /\ DOMAIN RootType = RootFiles
      BY DEF RootType
    <2>2. root' = [root EXCEPT ![f] = OnDisk(Corrupt)] /\ IsDirectory(root, RootType)
      BY DEF Decay, OnDisk, TypeInv, TypeOK
    <2>3. OnDisk(Corrupt) \in [now : RootType[f], may : SUBSET RootType[f]]
      BY <2>1 DEF OnDisk
    <2> QED BY <2>1, <2>2, <2>3 DEF IsDirectory
  <1> QED BY <1>1, <1>2 DEF Decay, TypeInv, TypeOK, Control, SavePcs, LoadPcs, EndPcs, Pending

-----------------------------------------------------------------------------

\* Every installed library is well typed.
LEMMA InitType == Init => TypeInv
  <1> SUFFICES ASSUME Init PROVE TypeInv
    OBVIOUS
  <1>1. PICK s \in Installed :
          /\ root = [f \in RootFiles |->
                       OnDisk(IF f \in {"primary", "last_good"} THEN s ELSE NoFile)]
          /\ accepted = IF s = NoFile THEN DefaultSnapshot ELSE s
          /\ settled = accepted
          /\ atts = [f \in AttachmentFiles |->
                       OnDisk(IF f[1] = "bin" THEN accepted.bytes[f[2]] ELSE NoFile)]
    BY DEF Init
  <1>2. s \in Snapshots \cup {NoFile}
    BY ConstantsAssumption
  <1>3. accepted \in Snapshots /\ settled \in Snapshots
    BY <1>1, <1>2, DefaultType
  <1>4. ASSUME NEW T, NEW c \in T PROVE OnDisk(c) \in [now : T, may : SUBSET T]
    BY DEF OnDisk
  <1>5. IsDirectory(root, RootType)
    <2>1. ASSUME NEW f \in RootFiles
          PROVE  root[f] \in [now : RootType[f], may : SUBSET RootType[f]]
      <3>1. (IF f \in {"primary", "last_good"} THEN s ELSE NoFile) \in RootType[f]
        <4>1. NoFile \in RootType[f]
          BY DEF RootType
        <4> QED BY <1>2, <4>1, RootDomain
      <3> QED BY <1>1, <1>4, <3>1
    <2> QED BY <1>1, <2>1, RootDomain DEF IsDirectory
  <1>6. IsDirectory(atts, AttachmentType)
    <2>1. ASSUME NEW f \in AttachmentFiles
          PROVE  atts[f] \in [now : AttachmentType[f], may : SUBSET AttachmentType[f]]
      <3>1. f[2] \in Attachments
        BY DEF AttachmentFiles
      <3>2. accepted.bytes[f[2]] \in Bytes \cup {NoFile}
        BY <1>3, <3>1 DEF Snapshots
      <3>3. (IF f[1] = "bin" THEN accepted.bytes[f[2]] ELSE NoFile) \in AttachmentType[f]
        BY <3>2, AttachmentDomain
      <3> QED BY <1>1, <1>4, <3>3, ZenonT(60)
    <2> QED BY <1>1, <2>1, AttachmentDomain DEF IsDirectory
  <1>7. spent \in [FailureKinds -> Nat]
    BY DEF Init, FailureKinds
  <1> QED BY <1>3, <1>5, <1>6, <1>7
          DEF Init, TypeInv, TypeOK, Control, SavePcs, LoadPcs, EndPcs, Pending

\* So is a step that changes nothing.
LEMMA StutterType ==
    ASSUME TypeInv, UNCHANGED vars PROVE TypeInv'
  BY DEF vars, TypeInv, TypeOK, Control

\* Every step preserves types and control.
LEMMA NextType ==
    ASSUME TypeInv, [Next]_vars PROVE TypeInv'
  <1>1. CASE SaveStep
    BY <1>1, BeginType, WriteIntentType, StageNewType, StageRewriteType, QuietStepType,
       WriteJournalType, WritePrimaryType, WriteLastGoodType, RemoveJournalType
    DEF SaveStep
  <1>2. CASE SettleStep
    BY <1>2, EraseType, ReplaceManagedType, RemoveStagedType, VerifyStagedType,
       RollBackType, QuietStepType, RemoveIntentType DEF SettleStep
  <1>3. CASE LoadStep
    BY <1>3, RecoverJournalType, FinishLastGoodType, ClearJournalType, ReadPrimaryType,
       RestorePrimaryType, RecoverIntentType DEF LoadStep
  <1>4. CASE Failure
    BY <1>4, ReadFaultType, KillType, PowerLossStepType, DecayType DEF Failure
  <1> QED BY <1>1, <1>2, <1>3, <1>4, ReturnType, UserType, StutterType DEF Next, Step

\* Whatever fails, every variable keeps its type: in particular no step of a
\* save, a load or a recovery ever reads a file that it has not seen to decode,
\* or settles an intent that it does not hold.
THEOREM TypeCorrect == Spec => []TypeOK
  <1>1. Init => TypeInv
    BY InitType
  <1>2. TypeInv /\ [Next]_vars => TypeInv'
    BY NextType
  <1>3. TypeInv => TypeOK
    BY DEF TypeInv
  <1> QED BY <1>1, <1>2, <1>3, PTL DEF Spec

\* The files that decide what a start loads.
Deciding == {"primary", "last_good", "journal"}

\* What one create, rename or unlink does to the images of the files.
LEMMA PutFiles ==
    ASSUME NEW d, IsDirectory(d, RootType), NEW p \in RootFiles, NEW c
    PROVE  /\ Put(d, p, c)[p].now = c
           /\ c \in Images(Put(d, p, c)[p])
           /\ Images(Put(d, p, c)[p]) \subseteq Images(d[p]) \cup {c}
           /\ \A q \in RootFiles \ {p} : Put(d, p, c)[q] = d[q]
  <1>1. DOMAIN d = RootFiles
    BY RootDomain DEF IsDirectory
  <1>2. Put(d, p, c)[p] = [now |-> c, may |-> d[p].may \cup {c}]
    BY <1>1 DEF Put
  <1>3. \A q \in RootFiles \ {p} : Put(d, p, c)[q] = d[q]
    BY <1>1 DEF Put
  <1> QED BY <1>2, <1>3 DEF Images

\* After sync_directory every file has one image.
LEMMA SyncFiles ==
    ASSUME NEW d, IsDirectory(d, RootType), NEW q \in RootFiles
    PROVE  /\ Sync(d)[q].now = d[q].now
           /\ Images(Sync(d)[q]) = {d[q].now}
  <1>1. DOMAIN d = RootFiles
    BY RootDomain DEF IsDirectory
  <1> QED BY <1>1 DEF Sync, Images, OnDisk

\* After a power loss every file has one of its images.
LEMMA PowerLossFiles ==
    ASSUME NEW d, IsDirectory(d, RootType), NEW e \in AfterPowerLoss(d), NEW q \in RootFiles
    PROVE  /\ e[q].now \in Images(d[q])
           /\ Images(e[q]) = {e[q].now}
  <1>1. q \in DOMAIN d
    BY RootDomain DEF IsDirectory
  <1>2. \/ e[q] = d[q] /\ d[q].may = {d[q].now}
        \/ \E c \in d[q].may : e[q] = OnDisk(c)
    BY <1>1, PowerLossFile
  <1>3. CASE e[q] = d[q] /\ d[q].may = {d[q].now}
    BY <1>3 DEF Images
  <1>4. ASSUME NEW c \in d[q].may, e[q] = OnDisk(c)
        PROVE  e[q].now \in Images(d[q]) /\ Images(e[q]) = {e[q].now}
    BY <1>4 DEF Images, OnDisk
  <1> QED BY <1>2, <1>3, <1>4

\* What the images of the deciding files are.
LEMMA ImagesType ==
    ASSUME NEW d, IsDirectory(d, RootType), Corrupt \notin P(d) \cup G(d) \cup J(d)
    PROVE  /\ d["primary"].now \in P(d) /\ P(d) \subseteq Snapshots \cup {NoFile}
           /\ d["last_good"].now \in G(d) /\ G(d) \subseteq Snapshots \cup {NoFile}
           /\ d["journal"].now \in J(d) /\ J(d) \subseteq Journals \cup {NoFile}
  <1>1. ASSUME NEW f \in RootFiles
        PROVE  d[f].now \in RootType[f] /\ d[f].may \subseteq RootType[f]
    BY RootDomain DEF IsDirectory
  <1> QED BY <1>1, RootDomain DEF P, G, J, Images

\* Snapshots and journals are told apart from an absent file.
LEMMA SnapshotFacts ==
    /\ \A x \in Snapshots : x.revision \in Nat /\ x # NoFile
    /\ \A j \in Journals : /\ j # NoFile /\ j.candidate \in Snapshots
                           /\ j.expected \in Snapshots \cup {NoFile}
    /\ DefaultSnapshot \in Snapshots
  BY DefaultType, DistinctAssumption, ConstantsAssumption DEF Snapshots, Journals

\* Only the deciding files matter.
LEMMA SameDisk ==
    ASSUME NEW d, NEW e, NEW s, NEW slack, Disk(d, s, slack),
           \A f \in Deciding : e[f] = d[f]
    PROVE  Disk(e, s, slack)
  BY DEF Disk, Solid, PrimaryNewest, JournalBrackets, BackupCovers, P, G, J, Deciding

\* A sync, or a power loss, leaves one image of every file.
LEMMA OneImage ==
    ASSUME NEW d, IsDirectory(d, RootType), NEW e, NEW s \in Snapshots, NEW slack,
           Disk(d, s, slack),
           \A f \in Deciding : Images(e[f]) = {e[f].now} /\ e[f].now \in Images(d[f])
    PROVE  Disk(e, s, slack)
  <1> DEFINE x == e["primary"].now
             y == e["last_good"].now
             z == e["journal"].now
  <1>1. P(e) = {x} /\ x \in P(d) /\ G(e) = {y} /\ y \in G(d) /\ J(e) = {z} /\ z \in J(d)
    BY DEF P, G, J, Deciding
  <1>2. Solid(e, s)
    BY <1>1 DEF Disk, Solid
  <1>3. PrimaryNewest(e)
    BY <1>1 DEF PrimaryNewest, Newer
  <1>4. JournalBrackets(e, slack)
    BY <1>1 DEF Disk, JournalBrackets
  <1>5. BackupCovers(e)
    BY <1>1 DEF Disk, BackupCovers
  <1> QED BY <1>1, <1>2, <1>3, <1>4, <1>5 DEF Disk

\* sync_directory keeps a disk that recovers.
LEMMA SyncDisk ==
    ASSUME NEW d, IsDirectory(d, RootType), NEW s \in Snapshots, NEW slack, Disk(d, s, slack)
    PROVE  Disk(Sync(d), s, slack)
  <1>1. \A f \in Deciding : /\ Images(Sync(d)[f]) = {Sync(d)[f].now}
                            /\ Sync(d)[f].now \in Images(d[f])
    BY SyncFiles DEF Deciding, RootFiles, Images
  <1> QED BY <1>1, OneImage

\* A power loss keeps a disk that recovers: this is what Disk is for.
LEMMA PowerLossDisk ==
    ASSUME NEW d, IsDirectory(d, RootType), NEW s \in Snapshots, NEW slack, Disk(d, s, slack),
           NEW e \in AfterPowerLoss(d)
    PROVE  Disk(e, s, slack)
  <1>1. \A f \in Deciding : Images(e[f]) = {e[f].now} /\ e[f].now \in Images(d[f])
    BY PowerLossFiles DEF Deciding, RootFiles
  <1> QED BY <1>1, OneImage

\* What recovers without an interrupted restoring recovers with one.
LEMMA MoreSlack ==
    ASSUME NEW d, NEW s, NEW slack, Disk(d, s, {}) PROVE Disk(d, s, slack)
  BY DEF Disk, JournalBrackets

\* Writing the journal of a commit.
LEMMA JournalDisk ==
    ASSUME NEW d, IsDirectory(d, RootType), NEW s \in Snapshots, NEW slack \in SUBSET {NoFile},
           Disk(d, s, slack), NEW w \in Journals,
           d["journal"].now = NoFile, d["primary"].now = w.expected,
           w.expected # NoFile => w.candidate.revision > w.expected.revision,
           w.expected = NoFile => d["last_good"].now = NoFile
    PROVE  Disk(Put(d, "journal", w), s, slack)
  <1> DEFINE e == Put(d, "journal", w)
  <1>0. /\ d["primary"].now \in P(d) /\ P(d) \subseteq Snapshots \cup {NoFile}
        /\ d["last_good"].now \in G(d) /\ G(d) \subseteq Snapshots \cup {NoFile}
        /\ NoFile \in J(d) /\ J(d) \subseteq Journals \cup {NoFile}
    BY ImagesType DEF Disk
  <1>1. /\ P(e) = P(d) /\ G(e) = G(d) /\ J(e) \subseteq J(d) \cup {w} /\ w \in J(e)
        /\ e["primary"] = d["primary"] /\ e["last_good"] = d["last_good"]
        /\ e["journal"].now = w
    BY PutFiles DEF RootFiles, P, G, J
  <1>2. w # NoFile /\ w # Corrupt
    BY DistinctAssumption
  <1> HIDE DEF e
  <1>3. Solid(e, s)
    BY <1>1 DEF Disk, Solid
  <1>4. PrimaryNewest(e)
    <2>1. CASE w.expected = NoFile
      BY <1>0, <1>1, <1>2, <2>1 DEF Disk, PrimaryNewest
    <2>2. CASE w.expected # NoFile
      BY <1>1, <2>2 DEF Disk, PrimaryNewest
    <2> QED BY <2>1, <2>2
  <1>5. w.candidate \in Snapshots /\ w.candidate # w.expected
    BY SnapshotFacts
  <1>6. JournalBrackets(e, slack)
    <2>1. ASSUME w.expected = NoFile PROVE G(d) \subseteq {NoFile, w.candidate}
      BY <2>1 DEF Disk, PrimaryNewest
    <2>2. P(d) \subseteq {w.expected} \cup slack
      BY <1>0 DEF Disk, JournalBrackets
    <2> QED BY <1>0, <1>1, <1>2, <1>5, <2>1, <2>2 DEF Disk, JournalBrackets
  <1>7. BackupCovers(e)
    BY <1>0, <1>1, <1>2 DEF Disk, BackupCovers
  <1> QED BY <1>1, <1>2, <1>3, <1>4, <1>6, <1>7 DEF Disk, e

\* Writing the primary of a commit.
LEMMA PrimaryDisk ==
    ASSUME NEW d, IsDirectory(d, RootType), NEW s \in Snapshots, NEW slack \in SUBSET {NoFile},
           Disk(d, s, slack), NEW w \in Journals, J(d) = {w},
           d["primary"].now = w.expected, w.candidate.revision > s.revision
    PROVE  Disk(Put(d, "primary", w.candidate), s, slack)
  <1> DEFINE c == w.candidate
             e == Put(d, "primary", c)
  <1>0. /\ d["primary"].now \in P(d) /\ P(d) \subseteq Snapshots \cup {NoFile}
        /\ d["last_good"].now \in G(d) /\ G(d) \subseteq Snapshots \cup {NoFile}
        /\ d["journal"].now = w
    BY ImagesType DEF Disk
  <1>1. /\ P(e) \subseteq P(d) \cup {c} /\ G(e) = G(d) /\ J(e) = J(d)
        /\ e["last_good"] = d["last_good"] /\ e["journal"] = d["journal"]
        /\ e["primary"].now = c
    BY PutFiles DEF RootFiles, P, G, J
  <1>2. c \in Snapshots /\ c # NoFile /\ c # Corrupt /\ w # NoFile /\ c.revision \in Nat
    BY SnapshotFacts, DistinctAssumption
  <1> HIDE DEF e, c
  <1>3. Solid(e, s)
    BY <1>1, <1>2 DEF Disk, Solid, Newer, c
  <1>4. P(d) \subseteq {w.expected, c, NoFile}
    BY DEF Disk, JournalBrackets, c
  <1>5. w.expected # NoFile => c.revision > w.expected.revision
    BY <1>2 DEF Disk, JournalBrackets, c
  <1>6. PrimaryNewest(e)
    BY <1>1, <1>2, <1>4, <1>5 DEF PrimaryNewest, Newer
  <1>7. JournalBrackets(e, slack)
    BY <1>0, <1>1, <1>2 DEF Disk, JournalBrackets, c
  <1>8. BackupCovers(e)
    BY <1>0, <1>1, <1>2 DEF Disk, BackupCovers, c
  <1> QED BY <1>1, <1>2, <1>3, <1>6, <1>7, <1>8 DEF Disk, e, c

\* Writing the backup that a journal and its primary call for.
LEMMA BackupDisk ==
    ASSUME NEW d, IsDirectory(d, RootType), NEW s \in Snapshots, NEW slack \in SUBSET {NoFile},
           Disk(d, s, slack), NEW w \in Journals, d["journal"].now = w,
           d["primary"].now = w.candidate
    PROVE  Disk(Put(d, "last_good", w.candidate), s, slack)
  <1> DEFINE c == w.candidate
             e == Put(d, "last_good", c)
  <1>0. /\ c \in P(d) /\ P(d) \subseteq Snapshots \cup {NoFile}
        /\ G(d) \subseteq Snapshots \cup {NoFile}
    BY ImagesType DEF Disk
  <1>1. /\ P(e) = P(d) /\ G(e) \subseteq G(d) \cup {c} /\ J(e) = J(d)
        /\ e["primary"] = d["primary"] /\ e["journal"] = d["journal"]
        /\ e["last_good"].now = c
    BY PutFiles DEF RootFiles, P, G, J
  <1>2. c \in Snapshots /\ c # NoFile /\ c # Corrupt /\ w # NoFile
    BY SnapshotFacts, DistinctAssumption
  <1>3. J(d) = {w}
    BY <1>2 DEF Disk, JournalBrackets
  <1> HIDE DEF e, c
  <1>4. Solid(e, s)
    BY <1>0, <1>1, <1>2 DEF Disk, Solid
  <1>5. \A p \in P(d) \ {NoFile} : Newer(c, p)
    BY <1>2 DEF Disk, PrimaryNewest, c
  <1>6. PrimaryNewest(e)
    BY <1>1, <1>2, <1>5 DEF PrimaryNewest, c
  <1>7. JournalBrackets(e, slack)
    BY <1>1, <1>2, <1>3 DEF Disk, JournalBrackets, c
  <1>8. BackupCovers(e)
    BY <1>1, <1>2, <1>3, <1>5 DEF Disk, BackupCovers, c
  <1> QED BY <1>1, <1>2, <1>4, <1>6, <1>7, <1>8 DEF Disk, e, c

\* Removing a journal that is rolled back, or whose commit is complete.
LEMMA NoJournalDisk ==
    ASSUME NEW d, IsDirectory(d, RootType), NEW s \in Snapshots, NEW slack \in SUBSET {NoFile},
           Disk(d, s, slack), NEW w \in Journals, d["journal"].now = w,
           \/ d["primary"].now = w.expected /\ w.expected # w.candidate
           \/ P(d) = {w.candidate} /\ G(d) = {w.candidate}
    PROVE  Disk(Put(d, "journal", NoFile), s, slack)
  <1> DEFINE e == Put(d, "journal", NoFile)
             x == d["primary"].now
  <1>0. /\ x \in P(d) /\ P(d) \subseteq Snapshots \cup {NoFile}
        /\ G(d) \subseteq Snapshots \cup {NoFile} /\ w \in J(d)
    BY ImagesType DEF Disk
  <1>1. /\ P(e) = P(d) /\ G(e) = G(d) /\ J(e) \subseteq J(d) \cup {NoFile}
        /\ e["primary"] = d["primary"] /\ e["last_good"] = d["last_good"]
        /\ e["journal"].now = NoFile
    BY PutFiles DEF RootFiles, P, G, J
  <1>2. /\ w # NoFile /\ Corrupt # NoFile /\ w.candidate \in Snapshots
        /\ w.candidate # NoFile /\ w.expected \in Snapshots \cup {NoFile}
    BY SnapshotFacts, DistinctAssumption
  <1> HIDE DEF e, x
  <1>3. Solid(e, s)
    BY <1>1 DEF Disk, Solid
  <1>4. PrimaryNewest(e)
    <2>1. CASE x = NoFile
      <3>1. x = w.expected
        BY <1>0, <1>2, <2>1 DEF x
      <3> QED BY <1>0, <1>1, <1>2, <2>1, <3>1 DEF Disk, PrimaryNewest, x
    <2>2. CASE x # NoFile
      BY <1>1, <2>2 DEF Disk, PrimaryNewest, x
    <2> QED BY <2>1, <2>2
  <1>5. P(d) \subseteq {x} \cup slack
    <2>1. CASE P(d) = {w.candidate}
      BY <1>0, <2>1
    <2>2. CASE x = w.expected /\ w.expected # w.candidate
      <3>1. P(d) \subseteq {w.expected, w.candidate} \cup slack
        BY <1>0, <1>2 DEF Disk, JournalBrackets
      <3>2. w.expected # NoFile => w.candidate.revision > w.expected.revision
        BY <1>0, <1>2 DEF Disk, JournalBrackets
      <3>3. w.candidate \notin P(d)
        <4>1. CASE x = NoFile
          BY <1>2, <4>1 DEF Disk, PrimaryNewest, x
        <4>2. CASE x # NoFile
          <5>1. ASSUME w.candidate \in P(d) PROVE Newer(x, w.candidate)
            BY <1>2, <4>2, <5>1 DEF Disk, PrimaryNewest, x
          <5>2. w.candidate.revision \in Nat /\ x.revision \in Nat
            BY <1>0, <1>2, <4>2, SnapshotFacts
          <5> QED BY <2>2, <3>2, <4>2, <5>1, <5>2 DEF Newer
        <4> QED BY <4>1, <4>2
      <3> QED BY <2>2, <3>1, <3>3
    <2> QED BY <2>1, <2>2 DEF x
  <1>6. JournalBrackets(e, slack)
    BY <1>1, <1>5 DEF Disk, JournalBrackets, x
  <1>7. BackupCovers(e)
    <2>1. ASSUME NEW p \in P(d) \ {NoFile}, NEW g \in G(d) \ {NoFile} PROVE Newer(g, p)
      <3>1. CASE P(d) = {w.candidate} /\ G(d) = {w.candidate}
        BY <3>1 DEF Newer
      <3>2. CASE x = w.expected /\ w.expected # w.candidate
        BY <1>0, <1>5, <3>2 DEF Disk, BackupCovers, x
      <3> QED BY <3>1, <3>2 DEF x
    <2>2. ~(NoFile \in P(d) /\ NoFile \in G(d) /\ x # NoFile)
      BY <1>0, <1>2 DEF Disk, BackupCovers, x
    <2> QED BY <1>1, <2>1, <2>2 DEF BackupCovers, x
  <1> QED BY <1>1, <1>2, <1>3, <1>4, <1>6, <1>7 DEF Disk, e

\* Restoring an absent primary from the backup: the journal, if there is one,
\* commits that backup to an empty library.
LEMMA RestoreDisk ==
    ASSUME NEW d, IsDirectory(d, RootType), NEW s \in Snapshots, NEW slack \in SUBSET {NoFile},
           Disk(d, s, slack), NEW g \in Snapshots,
           d["primary"].now = NoFile, d["last_good"].now = g,
           d["journal"].now # NoFile => d["journal"].now.expected = NoFile
    PROVE  /\ Disk(Put(d, "primary", g), s, {NoFile})
           /\ \A j \in J(d) \ {NoFile} : j.expected = NoFile
  <1> DEFINE e == Put(d, "primary", g)
  <1>0. d["journal"].now \in J(d) /\ J(d) \subseteq Journals \cup {NoFile}
    BY ImagesType DEF Disk
  <1>1. /\ P(e) \subseteq P(d) \cup {g} /\ G(e) = G(d) /\ J(e) = J(d)
        /\ e["last_good"] = d["last_good"] /\ e["journal"] = d["journal"]
        /\ e["primary"].now = g
    BY PutFiles DEF RootFiles, P, G, J
  <1>2. g # NoFile /\ g # Corrupt
    BY DistinctAssumption
  <1>3. P(d) = {NoFile} /\ G(d) = {g}
    BY DEF Disk, PrimaryNewest
  <1>4. \A j \in J(d) \ {NoFile} : j.expected = NoFile
    BY <1>0 DEF Disk, PrimaryNewest
  <1>5. \A j \in J(d) \ {NoFile} : j.candidate = g
    BY <1>2, <1>3, <1>4 DEF Disk, JournalBrackets
  <1> HIDE DEF e
  <1>6. Solid(e, s)
    BY <1>1, <1>2, <1>3 DEF Disk, Solid
  <1>7. PrimaryNewest(e)
    BY <1>1, <1>2, <1>3 DEF PrimaryNewest, Newer
  <1>8. JournalBrackets(e, {NoFile})
    BY <1>1, <1>2, <1>3, <1>4, <1>5 DEF Disk, PrimaryNewest, JournalBrackets
  <1>9. BackupCovers(e)
    BY <1>1, <1>2, <1>3 DEF BackupCovers, Newer
  <1> QED BY <1>1, <1>2, <1>3, <1>4, <1>6, <1>7, <1>8, <1>9 DEF Disk, e

\* Once one image is left the slack is gone.
LEMMA NoSlackDisk ==
    ASSUME NEW d, NEW s, Disk(d, s, {NoFile}), P(d) = {d["primary"].now},
           \/ d["primary"].now # NoFile
           \/ \A j \in J(d) \ {NoFile} : j.expected = NoFile
    PROVE  Disk(d, s, {})
  BY DEF Disk, JournalBrackets

-----------------------------------------------------------------------------
(* The steps of a call                                                     *)

\* The slack is the absent file or nothing.
LEMMA SlackType == Slack \in SUBSET {NoFile}
  BY DEF Slack

\* The failed operations do not count against the reads.
LEMMA ChargeKeeps ==
    ASSUME TypeInv, NEW good \in BOOLEAN, Charge(good)
    PROVE  Readable' = Readable /\ Slack' = Slack
  BY DEF Charge, Spend, Readable, Slack, TypeInv, TypeOK, FailureKinds

\* Facts every lemma below starts from.
LEMMA KnownFacts ==
    ASSUME TypeInv, Known
    PROVE  /\ IsDirectory(root, RootType) /\ settled \in Snapshots
           /\ Disk(root, settled, Slack)
           /\ root["primary"].now \in P(root) /\ P(root) \subseteq Snapshots \cup {NoFile}
           /\ root["last_good"].now \in G(root) /\ G(root) \subseteq Snapshots \cup {NoFile}
           /\ root["journal"].now \in J(root) /\ J(root) \subseteq Journals \cup {NoFile}
           /\ held \in Libraries => /\ held.snapshot \in Snapshots
                                    /\ held.baseline \in Snapshots \cup {NoFile}
           /\ job \in Jobs => job.candidate \in Snapshots
           /\ lib \in Libraries => /\ lib.snapshot \in Snapshots
                                   /\ lib.baseline \in Snapshots \cup {NoFile}
  <1>1. IsDirectory(root, RootType) /\ settled \in Snapshots
    BY DEF TypeInv, TypeOK
  <1>2. Disk(root, settled, Slack)
    BY DEF Known
  <1>3. Corrupt \notin P(root) \cup G(root) \cup J(root)
    BY <1>2 DEF Disk
  <1>4. /\ held \in Libraries => /\ held.snapshot \in Snapshots
                                 /\ held.baseline \in Snapshots \cup {NoFile}
        /\ lib \in Libraries => /\ lib.snapshot \in Snapshots
                                /\ lib.baseline \in Snapshots \cup {NoFile}
    BY DEF Libraries
  <1>5. job \in Jobs => job.candidate \in Snapshots
    BY DEF Jobs
  <1> QED BY <1>1, <1>2, <1>3, <1>4, <1>5, ImagesType

\* The journal that a commit in progress writes.
LEMMA WrittenFacts ==
    ASSUME TypeInv, Known,
           pc \in {"write_journal", "write_primary", "write_last_good", "remove_journal"}
    PROVE  /\ held \in Libraries /\ job \in Jobs /\ Written \in Journals
           /\ Written.expected = held.baseline /\ Written.candidate = job.candidate
           /\ job.candidate \in Snapshots
           /\ job.candidate.revision > settled.revision
           /\ held.baseline # NoFile =>
                job.candidate.revision > held.baseline.revision
           /\ held.baseline # job.candidate
  <1>1. held \in Libraries /\ job \in Jobs
    BY DEF TypeInv, Control, SavePcs
  <1>2. /\ held.snapshot \in Snapshots /\ held.baseline \in Snapshots \cup {NoFile}
        /\ job.candidate \in Snapshots /\ settled \in Snapshots
    BY <1>1, KnownFacts
  <1>3. /\ held.snapshot.revision \in Nat /\ settled.revision \in Nat
        /\ job.candidate.revision \in Nat /\ job.candidate # NoFile
    BY <1>2, SnapshotFacts
  <1>4. job.candidate.revision = held.snapshot.revision + 1
    BY DEF Known, SaveKnows
  <1>5. Newer(held.snapshot, settled) /\ Decoded(held)
    BY <1>1 DEF Known, HeldKnows
  <1>6. job.candidate.revision > settled.revision
    BY <1>3, <1>4, <1>5 DEF Newer
  <1>7. held.baseline # NoFile => job.candidate.revision > held.baseline.revision
    BY <1>3, <1>4, <1>5 DEF Decoded
  <1>8. held.baseline # job.candidate
    BY <1>2, <1>3, <1>7
  <1>9. /\ Written \in Journals
        /\ Written.expected = held.baseline /\ Written.candidate = job.candidate
    BY <1>2 DEF Written, Journals
  <1> QED BY <1>1, <1>2, <1>6, <1>7, <1>8, <1>9

\* The disk that the operation of the current step leaves when it is
\* interrupted before the sync.
LEMMA MidwayDisk ==
    ASSUME TypeInv, Known, NEW d \in RootMidway
    PROVE  IF pc = "restore_primary"
           THEN /\ Disk(d, settled, {NoFile})
                /\ d = root \/ d["primary"].now # NoFile
                /\ J(d) = J(root) /\ \A j \in J(root) \ {NoFile} : j.expected = NoFile
           ELSE Disk(d, settled, Slack)
  <1> USE SlackType
  <1>0. IsDirectory(root, RootType) /\ settled \in Snapshots /\ Disk(root, settled, Slack)
    BY KnownFacts
  <1>1. CASE pc = "restore_primary"
    <2> DEFINE g == root["last_good"].now
    <2>1. g \in Snapshots /\ root["primary"].now = NoFile
      BY <1>1 DEF TypeInv, Control, Known, LoadKnows
    <2>2. root["journal"].now # NoFile => root["journal"].now.expected = NoFile
      BY <1>1, <2>1 DEF Known, LoadKnows
    <2>3. /\ Disk(Put(root, "primary", g), settled, {NoFile})
          /\ \A j \in J(root) \ {NoFile} : j.expected = NoFile
      BY <1>0, <2>1, <2>2, RestoreDisk
    <2>4. /\ J(Put(root, "primary", g)) = J(root)
          /\ Put(root, "primary", g)["primary"].now = g
      BY <1>0, PutFiles DEF RootFiles, J
    <2>5. Disk(root, settled, {NoFile})
      BY <1>0 DEF Disk, JournalBrackets
    <2>6. d \in {root, Put(root, "primary", g)}
      BY <1>1 DEF RootMidway
    <2> QED BY <1>1, <2>1, <2>3, <2>4, <2>5, <2>6, SnapshotFacts
  <1>2. CASE d = root
    BY <1>0, <1>1, <1>2
  <1>3. CASE pc \in {"write_intent", "remove_intent"}
    <2>1. work \in Works
      BY <1>3 DEF TypeInv, Control
    <2>2. work.kind \in Intents
      BY <2>1 DEF Works
    <2>3. PICK c : d = root \/ d = Put(root, work.kind, c)
      BY <1>3 DEF RootMidway
    <2>4. work.kind \in RootFiles /\ \A f \in Deciding : f \in RootFiles /\ f # work.kind
      BY <2>2 DEF Intents, Deciding, RootFiles
    <2>5. d # root => \A f \in Deciding : d[f] = root[f]
      BY <1>0, <2>3, <2>4, PutFiles
    <2> QED BY <1>0, <1>2, <1>3, <2>5, SameDisk
  <1>4. CASE pc = "write_journal"
    <2>1. root["journal"].now = NoFile /\ root["primary"].now = held.baseline
      BY <1>4 DEF Known, SaveKnows
    <2>2. held.baseline = NoFile => root["last_good"].now = NoFile
      BY <1>4, <2>1, WrittenFacts DEF Known, HeldKnows
    <2>3. Disk(Put(root, "journal", Written), settled, Slack)
      BY <1>0, <1>4, <2>1, <2>2, WrittenFacts, JournalDisk
    <2> QED BY <1>0, <1>4, <2>3 DEF RootMidway, Written
  <1>5. CASE pc = "write_primary"
    <2>1. J(root) = {Written} /\ root["primary"].now = held.baseline
      BY <1>5 DEF Known, SaveKnows
    <2>2. Disk(Put(root, "primary", job.candidate), settled, Slack)
      BY <1>0, <1>5, <2>1, WrittenFacts, PrimaryDisk
    <2> QED BY <1>0, <1>5, <2>2 DEF RootMidway
  <1>6. CASE pc = "write_last_good"
    <2>1. J(root) = {Written} /\ P(root) = {job.candidate}
      BY <1>6 DEF Known, SaveKnows
    <2>2. root["journal"].now = Written /\ root["primary"].now = job.candidate
      BY <2>1, KnownFacts
    <2>3. Disk(Put(root, "last_good", job.candidate), settled, Slack)
      BY <1>0, <1>6, <2>2, WrittenFacts, BackupDisk
    <2> QED BY <1>0, <1>6, <2>3 DEF RootMidway
  <1>7. CASE pc = "finish_last_good"
    <2> DEFINE j == root["journal"].now
    <2>1. j \in Journals /\ root["primary"].now = j.candidate
      BY <1>7 DEF TypeInv, Control, Known, LoadKnows
    <2>2. Disk(Put(root, "last_good", j.candidate), settled, Slack)
      BY <1>0, <2>1, BackupDisk
    <2> QED BY <1>0, <1>7, <2>2 DEF RootMidway
  <1> QED BY <1>1, <1>2, <1>3, <1>4, <1>5, <1>6, <1>7 DEF RootMidway

\* A step that is no write of the root and does not enter a write of it.
LEMMA CalmKnown ==
    ASSUME Known, UNCHANGED <<root, held, accepted, settled>>, Slack' = Slack,
           pc' \in {"idle", "begin", "write_intent", "stage", "preflight",
                    "recover_journal"}
    PROVE  Known'
  BY DEF Known, HeldKnows, SaveKnows, LoadKnows, EndPcs, Decoded

\* A call that gives up leaves a disk that recovers.
LEMMA GiveUpKnown ==
    ASSUME Known, UNCHANGED <<held, accepted, settled>>, pc' = "idle",
           Disk(root', settled, Slack'),
           root["primary"].now = NoFile /\ root'["primary"].now = NoFile =>
             root'["last_good"].now = root["last_good"].now,
           root'["primary"].now = NoFile => root["primary"].now = NoFile
    PROVE  Known'
  BY DEF Known, HeldKnows, SaveKnows, LoadKnows, EndPcs, Decoded

\* Settling an intent and reporting it.
LEMMA SettleKnown ==
    ASSUME TypeInv, Known, pc \in {"recover_intent", "rollback"} \cup EndPcs,
           pc' \in {"rollback"} \cup EndPcs,
           UNCHANGED <<job, call, held, accepted, settled>>, Slack' = Slack,
           lib'.snapshot = lib.snapshot, lib'.baseline = lib.baseline,
           lib.blocked => lib'.blocked,
           Disk(root', settled, Slack),
           \A f \in Deciding : /\ root'[f].now = root[f].now
                               /\ Images(root'[f]) \subseteq Images(root[f])
    PROVE  Known'
  <1>1. call = "commit" => pc \in EndPcs
    BY DEF TypeInv, Control, LoadPcs, EndPcs
  <1>2. /\ P(root') \subseteq P(root) /\ root'["primary"].now \in P(root')
        /\ G(root') \subseteq G(root) /\ root'["last_good"].now \in G(root')
        /\ root'["primary"].now = root["primary"].now
        /\ root'["last_good"].now = root["last_good"].now
        /\ root'["journal"].now = root["journal"].now
    BY DEF Deciding, P, G, Images
  <1>3. HeldKnows'
    BY <1>2 DEF Known, HeldKnows, Decoded
  <1>4. SaveKnows'
    BY <1>1, <1>2 DEF Known, SaveKnows, EndPcs
  <1>5. LoadKnows'
    <2>1. pc' \notin {"finish_last_good", "clear_journal", "read_primary", "restore_primary"}
      BY DEF EndPcs
    <2>2. call # "commit" =>
            /\ Decoded(lib) /\ lib.baseline = root["primary"].now
            /\ lib.baseline = NoFile => root["last_good"].now = NoFile
            /\ ~lib.blocked => root["journal"].now = NoFile
      BY DEF Known, LoadKnows
    <2>3. Decoded(lib') = Decoded(lib)
      BY DEF Decoded
    <2> QED BY <1>2, <2>1, <2>2, <2>3 DEF LoadKnows
  <1> QED BY <1>3, <1>4, <1>5 DEF Known

\* One more notice leaves the rest of the library as it is.
LEMMA NotedLibrary ==
    ASSUME NEW l \in Libraries, NEW b \in BOOLEAN
    PROVE  /\ [l EXCEPT !.blocked = @ \/ b].snapshot = l.snapshot
           /\ [l EXCEPT !.blocked = @ \/ b].baseline = l.baseline
           /\ [l EXCEPT !.blocked = @ \/ b].blocked = (l.blocked \/ b)
  BY DEF Libraries

\* A step on the attachments changes nothing that decides what a start loads.
LEMMA AttachmentStepKnown ==
    ASSUME TypeInv, Known, pc \in {"settle", "rollback"}, UNCHANGED root, Slack' = Slack,
           \/ Continue(pc) /\ UNCHANGED lib
           \/ Continue("remove_intent") /\ UNCHANGED lib
           \/ Noting(TRUE, "return")
    PROVE  Known'
  <1>1. lib \in Libraries
    BY DEF TypeInv, Control, LoadPcs, EndPcs
  <1>2. /\ lib'.snapshot = lib.snapshot /\ lib'.baseline = lib.baseline
        /\ lib.blocked => lib'.blocked
    BY <1>1, NotedLibrary DEF Noting
  <1>3. UNCHANGED <<job, call, held, accepted, settled>>
    BY DEF Noting, Continue
  <1>4. pc' \in {"rollback"} \cup EndPcs /\ pc \in {"recover_intent", "rollback"} \cup EndPcs
    BY DEF Noting, Continue, EndPcs
  <1>5. Disk(root', settled, Slack)
    BY KnownFacts
  <1> QED BY <1>2, <1>3, <1>4, <1>5, SettleKnown

\* Settling attachments changes nothing that decides what loads.
LEMMA SettleStepKnown ==
    ASSUME TypeInv, Recoverable,
           Erase \/ ReplaceManaged \/ RemoveStaged \/ VerifyStaged \/ RollBack \/ Settled
    PROVE  Recoverable'
  <1>1. pc \in {"settle", "rollback"} /\ UNCHANGED root
    BY DEF Erase, ReplaceManaged, RemoveStaged, VerifyStaged, RollBack, Settled
  <1>2. \/ Continue(pc) /\ UNCHANGED lib
        \/ Continue("remove_intent") /\ UNCHANGED lib
        \/ Noting(TRUE, "return")
    <2>1. CASE Erase
      BY <2>1 DEF Erase
    <2>2. CASE ReplaceManaged \/ RemoveStaged
      BY <2>2 DEF ReplaceManaged, RemoveStaged
    <2>3. CASE VerifyStaged \/ RollBack \/ Settled
      BY <2>3 DEF VerifyStaged, RollBack, Settled
    <2> QED BY <2>1, <2>2, <2>3
  <1>3. UNCHANGED spent \/ \E good \in BOOLEAN : Charge(good)
    <2>1. ASSUME NEW p, NEW r \in RemoveFileDurable(atts, p) PROVE r.ok \in BOOLEAN
      BY RemoveFileDurableOutcome
    <2>2. ASSUME NEW p, NEW c, NEW r \in WriteVerified(atts, p, c) PROVE r.ok \in BOOLEAN
      BY WriteVerifiedOutcome
    <2>3. CASE Erase
      BY <2>1, <2>3 DEF Erase
    <2>4. CASE ReplaceManaged
      BY <2>2, <2>4 DEF ReplaceManaged
    <2>5. CASE RemoveStaged
      BY <2>1, <2>5 DEF RemoveStaged
    <2>6. CASE RollBack
      BY <2>1, <2>6 DEF RollBack
    <2> QED BY <2>3, <2>4, <2>5, <2>6 DEF VerifyStaged, Settled
  <1>4. Readable' = Readable /\ Slack' = Slack
    BY <1>3, ChargeKeeps DEF Readable, Slack
  <1> QED BY <1>1, <1>2, <1>4, AttachmentStepKnown DEF Recoverable

\* The steps of a save before its first write of the root, and of staging.
LEMMA StageStepKnown ==
    ASSUME TypeInv, Recoverable, Begin \/ StageNew \/ StageRewrite \/ StageDone
    PROVE  Recoverable'
  <1>1. /\ UNCHANGED <<root, held, accepted, settled>>
        /\ pc' \in {"idle", "write_intent", "stage", "preflight"}
    <2>1. CASE Begin
      BY <2>1 DEF Begin, Fail, Leave, Continue
    <2>2. CASE StageNew
      BY <2>2 DEF StageNew, Fail, Leave, Continue
    <2>3. CASE StageRewrite \/ StageDone
      BY <2>3 DEF StageRewrite, StageDone, Fail, Leave, Continue
    <2> QED BY <2>1, <2>2, <2>3
  <1>2. UNCHANGED spent \/ \E good \in BOOLEAN : Charge(good)
    <2>1. ASSUME NEW p, NEW c, NEW r \in WriteNew(atts, p, c) PROVE r.ok \in BOOLEAN
      BY WriteNewOutcome
    <2>2. ASSUME NEW p, NEW c, NEW r \in WriteVerified(atts, p, c) PROVE r.ok \in BOOLEAN
      BY WriteVerifiedOutcome
    <2>3. CASE StageNew
      BY <2>1, <2>3 DEF StageNew
    <2>4. CASE StageRewrite
      BY <2>2, <2>4 DEF StageRewrite
    <2> QED BY <2>3, <2>4 DEF Begin, StageDone
  <1>3. Readable' = Readable /\ Slack' = Slack
    BY <1>2, ChargeKeeps DEF Readable, Slack
  <1> QED BY <1>1, <1>3, CalmKnown DEF Recoverable

\* preflight() establishes what the writing of the journal relies on.
LEMMA PreflightKnown ==
    ASSUME TypeInv, Recoverable, Preflight PROVE Recoverable'
  <1>1. Readable' = Readable /\ Slack' = Slack /\ UNCHANGED root
    BY DEF Preflight, Readable, Slack
  <1>2. CASE Fail
    BY <1>1, <1>2, CalmKnown DEF Fail, Leave, Recoverable
  <1>3. ASSUME Known, Continue("write_journal"),
               job.candidate.revision = held.snapshot.revision + 1,
               root["primary"].now = held.baseline, root["journal"].now = NoFile
        PROVE  Known'
    BY <1>1, <1>3
    DEF Continue, Known, HeldKnows, SaveKnows, LoadKnows, EndPcs, Decoded
  <1> QED BY <1>1, <1>2, <1>3 DEF Preflight, Recoverable

\* The outcomes of a verified replacement of a root file.
LEMMA RootWrite ==
    ASSUME TypeInv, Known, NEW f \in RootFiles, NEW c \in RootType[f],
           Put(root, f, c) \in RootMidway, pc # "restore_primary",
           NEW r \in WriteVerified(root, f, c)
    PROVE  /\ Disk(r.dir, settled, Slack) /\ r.ok \in BOOLEAN
           /\ \A q \in RootFiles \ {f} : r.dir[q].now = root[q].now
           /\ r.dir[f].now \in {root[f].now, c}
           /\ r.ok => /\ r.dir[f].now = c
                      /\ \A q \in RootFiles : Images(r.dir[q]) = {r.dir[q].now}
  <1> DEFINE e == Put(root, f, c)
  <1>1. IsDirectory(root, RootType) /\ settled \in Snapshots /\ Disk(root, settled, Slack)
    BY KnownFacts
  <1>2. IsDirectory(e, RootType)
    BY <1>1, RootDomain, PutType
  <1>3. e[f].now = c /\ \A q \in RootFiles \ {f} : e[q] = root[q]
    BY <1>1, PutFiles
  <1>4. Disk(e, settled, Slack)
    BY MidwayDisk
  <1> HIDE DEF e
  <1>5. Disk(Sync(e), settled, Slack)
    BY <1>1, <1>2, <1>4, SyncDisk
  <1>6. \A q \in RootFiles : /\ Sync(e)[q].now = e[q].now
                             /\ Images(Sync(e)[q]) = {e[q].now}
    BY <1>2, SyncFiles
  <1>7. /\ r.ok \in BOOLEAN /\ r.dir \in {root, e, Sync(e)}
        /\ r.ok => r.dir = Sync(e)
    BY WriteVerifiedOutcome DEF e
  <1> QED BY <1>1, <1>3, <1>4, <1>5, <1>6, <1>7

\* Writing an intent keeps the disk recoverable.
LEMMA WriteIntentKnown ==
    ASSUME TypeInv, Recoverable, WriteIntent PROVE Recoverable'
  <1>1. PICK r \in WriteVerified(root, work.kind, work.intent) :
          /\ root' = r.dir /\ Charge(r.ok)
          /\ IF r.ok
             THEN /\ Continue(IF work.kind \in Staging THEN "stage" ELSE "preflight")
                  /\ UNCHANGED <<lib, work>>
             ELSE Fail
    BY DEF WriteIntent
  <1>2. pc = "write_intent" /\ work \in Works
    BY DEF WriteIntent, TypeInv, Control
  <1>3. work.kind \in Intents /\ work.intent \in IntentRecords
    BY <1>2 DEF Works
  <1>4. /\ work.kind \in RootFiles /\ work.intent \in RootType[work.kind]
        /\ work.kind \notin Deciding /\ Deciding \subseteq RootFiles
    BY <1>3, RootDomain DEF Intents, Deciding, RootFiles
  <1>5. r.ok \in BOOLEAN
    BY WriteVerifiedOutcome
  <1>6. Readable' = Readable /\ Slack' = Slack
    BY <1>1, <1>5, ChargeKeeps
  <1>7. ASSUME Known PROVE Known'
    <2>1. Put(root, work.kind, work.intent) \in RootMidway
      BY <1>2 DEF RootMidway
    <2>2. Disk(root', settled, Slack) /\ \A q \in Deciding : root'[q].now = root[q].now
      BY <1>1, <1>2, <1>4, <1>7, <2>1, RootWrite
    <2>3. UNCHANGED <<held, accepted, settled>> /\ pc' \in {"idle", "stage", "preflight"}
      BY <1>1, <1>5 DEF Continue, Fail, Leave
    <2> QED BY <1>6, <1>7, <2>2, <2>3
            DEF Known, HeldKnows, SaveKnows, LoadKnows, EndPcs, Decoded, Deciding
  <1> QED BY <1>6, <1>7 DEF Recoverable

\* Writing the journal, or failing to and removing it again.
LEMMA WriteJournalKnown ==
    ASSUME TypeInv, Recoverable, WriteJournal PROVE Recoverable'
  <1>1. PICK r \in WriteVerified(root, "journal", Written) :
          /\ Charge(r.ok)
          /\ IF r.ok
             THEN /\ root' = r.dir
                  /\ Continue("write_primary") /\ UNCHANGED <<lib, work>>
             ELSE /\ \E q \in RemoveFile(r.dir, "journal") : root' = q.dir
                  /\ Fail
    BY DEF WriteJournal, Written
  <1>2. pc = "write_journal"
    BY DEF WriteJournal
  <1>3. r.ok \in BOOLEAN
    BY WriteVerifiedOutcome
  <1>4. Readable' = Readable /\ Slack' = Slack
    BY <1>1, <1>3, ChargeKeeps
  <1>5. ASSUME Known PROVE Known'
    <2>1. Put(root, "journal", Written) \in RootMidway
      BY <1>2 DEF RootMidway, Written
    <2>2. /\ "journal" \in RootFiles /\ Written \in RootType["journal"]
          /\ Deciding \subseteq RootFiles
      BY <1>2, <1>5, RootDomain, WrittenFacts DEF Deciding, RootFiles
    <2>3. /\ Disk(r.dir, settled, Slack)
          /\ \A q \in {"primary", "last_good"} : r.dir[q].now = root[q].now
          /\ r.dir["journal"].now \in {NoFile, Written}
          /\ r.ok => J(r.dir) = {Written}
      <3>1. root["journal"].now = NoFile
        BY <1>2, <1>5 DEF Known, SaveKnows
      <3> QED BY <1>2, <1>5, <2>1, <2>2, <3>1, RootWrite DEF Deciding, J
    <2>4. root["primary"].now = held.baseline
      BY <1>2, <1>5 DEF Known, SaveKnows
    <2>5. CASE r.ok
      <3>1. root' = r.dir /\ Continue("write_primary")
        BY <1>1, <2>5
      <3>2. HeldKnows'
        BY <1>5, <2>3, <3>1 DEF Continue, Known, HeldKnows, Decoded
      <3>3. SaveKnows'
        BY <1>2, <1>5, <2>3, <2>4, <2>5, <3>1
        DEF Continue, Known, SaveKnows, EndPcs, Written
      <3> QED BY <1>4, <1>5, <2>3, <3>1, <3>2, <3>3 DEF Continue, Known, LoadKnows, EndPcs
    <2>6. CASE ~r.ok
      <3>1. PICK q \in RemoveFile(r.dir, "journal") : root' = q.dir
        BY <1>1, <2>6
      <3>2. IsDirectory(r.dir, RootType) /\ settled \in Snapshots
        BY <1>5, <2>2, KnownFacts, RootDomain, WriteVerifiedType
      <3>3. Disk(root', settled, Slack)
            /\ \A f \in {"primary", "last_good"} : root'[f].now = root[f].now
        <4>1. CASE r.dir["journal"].now = NoFile
          BY <2>3, <3>1, <4>1, RemoveFileOutcome
        <4>2. CASE r.dir["journal"].now = Written
          <5>1. Disk(Put(r.dir, "journal", NoFile), settled, Slack)
            BY <1>2, <1>5, <2>3, <2>4, <3>2, <4>2, WrittenFacts, NoJournalDisk, SlackType
          <5>2. \A f \in {"primary", "last_good"} :
                  Put(r.dir, "journal", NoFile)[f] = r.dir[f]
            BY <3>2, PutFiles DEF RootFiles
          <5> QED BY <2>3, <3>1, <5>1, <5>2, RemoveFileOutcome
        <4> QED BY <2>3, <4>1, <4>2
      <3>4. UNCHANGED <<held, accepted, settled>> /\ pc' = "idle"
        BY <1>1, <2>6 DEF Fail, Leave
      <3> QED BY <1>4, <1>5, <3>3, <3>4, GiveUpKnown
    <2> QED BY <1>3, <2>5, <2>6
  <1> QED BY <1>4, <1>5 DEF Recoverable

\* Writing the primary: from here on the journal commits it.
LEMMA WritePrimaryKnown ==
    ASSUME TypeInv, Recoverable, WritePrimary PROVE Recoverable'
  <1>1. PICK r \in WriteVerified(root, "primary", job.candidate) :
          /\ root' = r.dir /\ Charge(r.ok)
          /\ IF r.ok THEN Continue("write_last_good") /\ UNCHANGED <<lib, work>>
                     ELSE Fail
    BY DEF WritePrimary
  <1>2. pc = "write_primary"
    BY DEF WritePrimary
  <1>3. r.ok \in BOOLEAN
    BY WriteVerifiedOutcome
  <1>4. Readable' = Readable /\ Slack' = Slack
    BY <1>1, <1>3, ChargeKeeps
  <1>5. ASSUME Known PROVE Known'
    <2>1. Put(root, "primary", job.candidate) \in RootMidway
      BY <1>2 DEF RootMidway
    <2>2. "primary" \in RootFiles /\ job.candidate \in RootType["primary"]
      BY <1>2, <1>5, RootDomain, WrittenFacts
    <2>3. /\ Disk(root', settled, Slack)
          /\ \A q \in {"last_good", "journal"} : root'[q].now = root[q].now
          /\ root'["primary"].now \in {root["primary"].now, job.candidate}
          /\ r.ok => P(root') = {job.candidate} /\ J(root') = {root["journal"].now}
      BY <1>1, <1>2, <1>5, <2>1, <2>2, RootWrite DEF RootFiles, P, J
    <2>4. job.candidate # NoFile /\ root["journal"].now = Written
      <3>1. J(root) = {Written}
        BY <1>2, <1>5 DEF Known, SaveKnows
      <3> QED BY <1>2, <1>5, <3>1, WrittenFacts, KnownFacts, SnapshotFacts
    <2>5. CASE r.ok
      <3>1. Continue("write_last_good")
        BY <1>1, <2>5
      <3>2. root'["primary"].now = job.candidate
        BY <2>3, <2>5 DEF P, Images
      <3>3. HeldKnows'
        BY <1>5, <2>3, <2>4, <3>1, <3>2 DEF Continue, Known, HeldKnows, Decoded
      <3>4. SaveKnows'
        BY <1>2, <1>5, <2>3, <2>4, <2>5, <3>1
        DEF Continue, Known, SaveKnows, EndPcs, Written
      <3> QED BY <1>4, <1>5, <2>3, <3>1, <3>3, <3>4 DEF Continue, Known, LoadKnows, EndPcs
    <2>6. CASE ~r.ok
      <3>1. UNCHANGED <<held, accepted, settled>> /\ pc' = "idle"
        BY <1>1, <2>6 DEF Fail, Leave
      <3> QED BY <1>4, <1>5, <2>3, <2>4, <3>1, GiveUpKnown
    <2> QED BY <1>3, <2>5, <2>6
  <1> QED BY <1>4, <1>5 DEF Recoverable

\* The fields of the library a save returns.
LEMMA SavedFields ==
    ASSUME NEW b \in BOOLEAN
    PROVE  /\ Saved(b).snapshot = job.candidate /\ Saved(b).baseline = job.candidate
           /\ Saved(b).blocked = b
  BY DEF Saved

\* Writing the backup.
LEMMA WriteLastGoodKnown ==
    ASSUME TypeInv, Recoverable, WriteLastGood PROVE Recoverable'
  <1>1. PICK r \in WriteVerified(root, "last_good", job.candidate) :
          /\ root' = r.dir /\ Charge(r.ok) /\ lib' = Saved(~r.ok)
          /\ Continue(IF r.ok THEN "remove_journal" ELSE "return")
    BY DEF WriteLastGood
  <1>2. pc = "write_last_good" /\ call = "commit"
    BY DEF WriteLastGood, TypeInv, Control, SavePcs
  <1>3. r.ok \in BOOLEAN /\ (~r.ok) \in BOOLEAN
    <2>1. r.ok \in BOOLEAN
      BY WriteVerifiedOutcome
    <2> QED BY <2>1
  <1>4. Readable' = Readable /\ Slack' = Slack
    BY <1>1, <1>3, ChargeKeeps
  <1>5. ASSUME Known PROVE Known'
    <2>1. Put(root, "last_good", job.candidate) \in RootMidway
      BY <1>2 DEF RootMidway
    <2>2. "last_good" \in RootFiles /\ job.candidate \in RootType["last_good"]
      BY <1>2, <1>5, RootDomain, WrittenFacts
    <2>3. J(root) = {Written} /\ P(root) = {job.candidate}
      BY <1>2, <1>5 DEF Known, SaveKnows
    <2>4. /\ root["journal"].now = Written /\ root["primary"].now = job.candidate
          /\ job.candidate # NoFile
      BY <1>2, <1>5, <2>3, KnownFacts, WrittenFacts, SnapshotFacts
    <2>5. /\ Disk(root', settled, Slack)
          /\ root'["primary"].now = job.candidate /\ root'["journal"].now = Written
          /\ r.ok => /\ P(root') = {job.candidate} /\ G(root') = {job.candidate}
                     /\ J(root') = {Written}
      <3>1. /\ Disk(root', settled, Slack)
            /\ \A q \in RootFiles \ {"last_good"} : root'[q].now = root[q].now
            /\ r.ok => /\ root'["last_good"].now = job.candidate
                       /\ \A q \in RootFiles : Images(root'[q]) = {root'[q].now}
        BY <1>1, <1>2, <1>5, <2>1, <2>2, RootWrite
      <3> QED BY <2>4, <3>1 DEF RootFiles, P, G, J
    <2>6. /\ lib'.snapshot = job.candidate /\ lib'.baseline = job.candidate
          /\ lib'.blocked = ~r.ok
      BY <1>1, <1>3, SavedFields
    <2>7. /\ UNCHANGED <<job, held, accepted, settled, call>>
          /\ pc' = IF r.ok THEN "remove_journal" ELSE "return"
      BY <1>1 DEF Continue
    <2>8. HeldKnows'
      BY <1>5, <2>4, <2>5, <2>7 DEF Known, HeldKnows, Decoded
    <2>9. SaveKnows'
      BY <1>2, <1>3, <1>5, <2>5, <2>6, <2>7 DEF Known, SaveKnows, EndPcs, Written
    <2> QED BY <1>2, <1>4, <1>5, <2>5, <2>7, <2>8, <2>9 DEF Known, LoadKnows, EndPcs
  <1> QED BY <1>4, <1>5 DEF Recoverable

\* Removing the journal when the primary and its backup are durable.
LEMMA RemoveJournalKnown ==
    ASSUME TypeInv, Recoverable, RemoveJournal PROVE Recoverable'
  <1>1. PICK r \in RemoveFile(root, "journal") :
          /\ root' = r.dir /\ Charge(r.ok) /\ lib' = Saved(~r.ok)
          /\ Continue(IF r.ok THEN AfterCommit ELSE "return")
    BY DEF RemoveJournal
  <1>2. pc = "remove_journal" /\ call = "commit"
    BY DEF RemoveJournal, TypeInv, Control, SavePcs
  <1>3. r.ok \in BOOLEAN /\ (~r.ok) \in BOOLEAN
    <2>1. r.ok \in BOOLEAN
      BY RemoveFileOutcome
    <2> QED BY <2>1
  <1>4. Readable' = Readable /\ Slack' = Slack
    BY <1>1, <1>3, ChargeKeeps
  <1>5. ASSUME Known PROVE Known'
    <2>1. J(root) = {Written} /\ P(root) = {job.candidate} /\ G(root) = {job.candidate}
      BY <1>2, <1>5 DEF Known, SaveKnows
    <2>2. /\ root["journal"].now = Written /\ root["primary"].now = job.candidate
          /\ job.candidate # NoFile /\ IsDirectory(root, RootType) /\ settled \in Snapshots
      BY <1>2, <1>5, <2>1, KnownFacts, WrittenFacts, SnapshotFacts
    <2>3. Disk(Put(root, "journal", NoFile), settled, Slack)
      BY <1>2, <1>5, <2>1, <2>2, KnownFacts, WrittenFacts, NoJournalDisk, SlackType
    <2>4. \A f \in {"primary", "last_good"} : Put(root, "journal", NoFile)[f] = root[f]
      BY <2>2, PutFiles DEF RootFiles
    <2>5. root' \in {root, Put(root, "journal", NoFile)}
      BY <1>1, RemoveFileOutcome
    <2>6. /\ Disk(root', settled, Slack) /\ P(root') = {job.candidate}
          /\ G(root') = {job.candidate} /\ root'["primary"].now = job.candidate
      BY <1>5, <2>1, <2>2, <2>3, <2>4, <2>5, KnownFacts DEF P, G
    <2>7. /\ lib'.snapshot = job.candidate /\ lib'.baseline = job.candidate
          /\ lib'.blocked = ~r.ok
      BY <1>1, <1>3, SavedFields
    <2>8. UNCHANGED <<job, held, accepted, settled, call>> /\ pc' \in EndPcs
      BY <1>1 DEF Continue, AfterCommit, EndPcs
    <2>9. HeldKnows'
      BY <1>5, <2>2, <2>6, <2>8 DEF Known, HeldKnows, Decoded
    <2>10. SaveKnows'
      BY <1>2, <1>3, <1>5, <2>6, <2>7, <2>8 DEF Known, SaveKnows, EndPcs
    <2> QED BY <1>2, <1>4, <1>5, <2>6, <2>8, <2>9, <2>10 DEF Known, LoadKnows, EndPcs
  <1> QED BY <1>4, <1>5 DEF Recoverable

\* Removing an intent.
LEMMA RemoveIntentKnown ==
    ASSUME TypeInv, Recoverable, RemoveIntent PROVE Recoverable'
  <1>1. PICK r \in RemoveFileDurable(root, work.kind) :
          root' = r.dir /\ Charge(r.ok) /\ Noting(~r.ok, "return")
    BY DEF RemoveIntent
  <1>2. pc = "remove_intent" /\ work \in Works /\ lib \in Libraries
    BY DEF RemoveIntent, TypeInv, Control, EndPcs
  <1>3. r.ok \in BOOLEAN /\ (~r.ok) \in BOOLEAN
    <2>1. r.ok \in BOOLEAN
      BY RemoveFileDurableOutcome
    <2> QED BY <2>1
  <1>4. Readable' = Readable /\ Slack' = Slack
    BY <1>1, <1>3, ChargeKeeps
  <1>5. ASSUME Known PROVE Known'
    <2> DEFINE e == Put(root, work.kind, NoFile)
    <2>1. work.kind \in Intents /\ IsDirectory(root, RootType) /\ settled \in Snapshots
      BY <1>2, <1>5, KnownFacts DEF Works
    <2>2. /\ work.kind \in RootFiles /\ work.kind \notin Deciding
          /\ Deciding \subseteq RootFiles /\ IsDirectory(e, RootType)
      BY <2>1, RootDomain, PutType DEF Intents, Deciding, RootFiles
    <2>3. \A f \in Deciding : e[f] = root[f]
      BY <2>1, <2>2, PutFiles
    <2>4. Disk(e, settled, Slack)
      BY <1>5, <2>3, KnownFacts, SameDisk
    <2>5. root' \in {root, e, Sync(e)}
      BY <1>1, RemoveFileDurableOutcome
    <2> HIDE DEF e
    <2>6. Disk(Sync(e), settled, Slack)
      BY <2>1, <2>2, <2>4, SyncDisk
    <2>7. \A f \in Deciding : Sync(e)[f].now = e[f].now /\ Images(Sync(e)[f]) = {e[f].now}
      BY <2>2, SyncFiles
    <2>8. /\ Disk(root', settled, Slack)
          /\ \A f \in Deciding : /\ root'[f].now = root[f].now
                                 /\ Images(root'[f]) \subseteq Images(root[f])
      BY <1>5, <2>3, <2>4, <2>5, <2>6, <2>7, KnownFacts DEF Images
    <2>9. /\ lib'.snapshot = lib.snapshot /\ lib'.baseline = lib.baseline
          /\ lib.blocked => lib'.blocked
      BY <1>1, <1>2, <1>3, NotedLibrary DEF Noting
    <2>10. UNCHANGED <<job, call, held, accepted, settled>> /\ pc' = "return"
      BY <1>1 DEF Noting, Continue
    <2> QED BY <1>2, <1>4, <1>5, <2>8, <2>9, <2>10, SettleKnown DEF EndPcs
  <1> QED BY <1>4, <1>5 DEF Recoverable

\* recover_journal chooses the side that the disk supports.
LEMMA RecoverJournalKnown ==
    ASSUME TypeInv, Recoverable, RecoverJournal PROVE Recoverable'
  <1>1. pc = "recover_journal" /\ UNCHANGED <<root, atts, spent>>
    BY DEF RecoverJournal
  <1>2. Readable' = Readable /\ Slack' = Slack
    BY <1>1 DEF Readable, Slack
  <1>3. ASSUME Known PROVE Known'
    <2> DEFINE j == root["journal"].now
               p == root["primary"].now
    <2>1. j \in Journals \cup {NoFile} /\ j # Corrupt
      BY <1>3, KnownFacts DEF Known, Disk
    <2>2. CASE LoadFails
      BY <1>1, <1>2, <1>3, <2>2, CalmKnown DEF LoadFails, Leave
    <2>3. CASE j = NoFile /\ Continue("read_primary")
      BY <1>1, <1>2, <1>3, <2>3
      DEF Continue, Known, HeldKnows, SaveKnows, LoadKnows, EndPcs, Decoded
    <2>4. CASE j # NoFile /\ p = j.candidate /\ Continue("finish_last_good")
      BY <1>1, <1>2, <1>3, <2>4
      DEF Continue, Known, HeldKnows, SaveKnows, LoadKnows, EndPcs, Decoded
    <2>5. CASE j # NoFile /\ p # j.candidate /\ p = j.expected /\ Continue("clear_journal")
      BY <1>1, <1>2, <1>3, <2>5
      DEF Continue, Known, HeldKnows, SaveKnows, LoadKnows, EndPcs, Decoded
    <2> QED BY <2>1, <2>2, <2>3, <2>4, <2>5 DEF RecoverJournal
  <1> QED BY <1>2, <1>3 DEF Recoverable

\* Finishing the backup of a commit found in the journal.
LEMMA FinishLastGoodKnown ==
    ASSUME TypeInv, Recoverable, FinishLastGood PROVE Recoverable'
  <1> DEFINE j == root["journal"].now
             c == j.candidate
  <1>1. PICK r \in WriteVerified(root, "last_good", c) :
          /\ root' = r.dir /\ Charge(r.ok)
          /\ Noting(~r.ok, IF r.ok THEN "clear_journal" ELSE "read_primary")
    BY DEF FinishLastGood
  <1>2. pc = "finish_last_good" /\ j \in Journals /\ lib \in Libraries
    BY DEF FinishLastGood, TypeInv, Control, LoadPcs
  <1>3. r.ok \in BOOLEAN /\ (~r.ok) \in BOOLEAN
    <2>1. r.ok \in BOOLEAN
      BY WriteVerifiedOutcome
    <2> QED BY <2>1
  <1>4. Readable' = Readable /\ Slack' = Slack
    BY <1>1, <1>3, ChargeKeeps
  <1>5. ASSUME Known PROVE Known'
    <2>1. Put(root, "last_good", c) \in RootMidway
      BY <1>2 DEF RootMidway
    <2>2. /\ "last_good" \in RootFiles /\ c \in RootType["last_good"]
          /\ c \in Snapshots /\ c # NoFile /\ j # NoFile
      BY <1>2, RootDomain, SnapshotFacts
    <2>3. root["primary"].now = c
      BY <1>2, <1>5 DEF Known, LoadKnows
    <2>4. /\ Disk(root', settled, Slack)
          /\ \A q \in RootFiles \ {"last_good"} : root'[q].now = root[q].now
          /\ r.ok => /\ root'["last_good"].now = c
                     /\ \A q \in RootFiles : Images(root'[q]) = {root'[q].now}
      BY <1>1, <1>2, <1>5, <2>1, <2>2, RootWrite
    <2>5. /\ root'["primary"].now = c /\ root'["journal"].now = j
          /\ r.ok => P(root') = {c} /\ G(root') = {c}
      BY <2>3, <2>4 DEF RootFiles, P, G
    <2>6. lib'.blocked = (lib.blocked \/ ~r.ok)
      BY <1>1, <1>2, <1>3, NotedLibrary DEF Noting
    <2>7. /\ UNCHANGED <<job, call, held, accepted, settled>>
          /\ pc' = IF r.ok THEN "clear_journal" ELSE "read_primary"
      BY <1>1 DEF Noting, Continue
    <2> HIDE DEF c
    <2>8. HeldKnows'
      BY <1>5, <2>2, <2>5, <2>7 DEF Known, HeldKnows, Decoded
    <2>9. SaveKnows'
      BY <1>3, <2>7 DEF SaveKnows, EndPcs
    <2>10. LoadKnows'
      <3>1. CASE r.ok
        BY <2>2, <2>5, <2>7, <3>1 DEF LoadKnows, EndPcs, c
      <3>2. CASE ~r.ok
        BY <2>2, <2>5, <2>6, <2>7, <3>2 DEF LoadKnows, EndPcs
      <3> QED BY <1>3, <3>1, <3>2
    <2> QED BY <1>4, <1>5, <2>4, <2>7, <2>8, <2>9, <2>10 DEF Known
  <1> QED BY <1>4, <1>5 DEF Recoverable

\* Removing a finished or a rolled back journal.
LEMMA ClearJournalKnown ==
    ASSUME TypeInv, Recoverable, ClearJournal PROVE Recoverable'
  <1> DEFINE j == root["journal"].now
  <1>1. PICK r \in RemoveFile(root, "journal") :
          root' = r.dir /\ Charge(r.ok) /\ Noting(~r.ok, "read_primary")
    BY DEF ClearJournal
  <1>2. pc = "clear_journal" /\ lib \in Libraries
    BY DEF ClearJournal, TypeInv, Control, LoadPcs
  <1>3. r.ok \in BOOLEAN /\ (~r.ok) \in BOOLEAN
    <2>1. r.ok \in BOOLEAN
      BY RemoveFileOutcome
    <2> QED BY <2>1
  <1>4. Readable' = Readable /\ Slack' = Slack
    BY <1>1, <1>3, ChargeKeeps
  <1>5. ASSUME Known PROVE Known'
    <2>1. j \in Journals /\ j # NoFile /\ IsDirectory(root, RootType) /\ settled \in Snapshots
      <3>1. j # NoFile
        BY <1>2, <1>5 DEF Known, LoadKnows
      <3> QED BY <1>5, <3>1, KnownFacts
    <2>2. \/ P(root) = {j.candidate} /\ G(root) = {j.candidate}
             /\ root["primary"].now = j.candidate
          \/ root["primary"].now = j.expected /\ j.expected # j.candidate
      BY <1>2, <1>5 DEF Known, LoadKnows
    <2>3. Disk(Put(root, "journal", NoFile), settled, Slack)
      BY <1>5, <2>1, <2>2, KnownFacts, NoJournalDisk, SlackType
    <2>4. /\ Put(root, "journal", NoFile)["journal"].now = NoFile
          /\ \A f \in {"primary", "last_good"} : Put(root, "journal", NoFile)[f] = root[f]
      BY <2>1, PutFiles DEF RootFiles
    <2>5. root' = IF r.ok THEN Put(root, "journal", NoFile) ELSE root
      BY <1>1, <2>1, RemoveFileOutcome
    <2>6. /\ Disk(root', settled, Slack)
          /\ root'["primary"] = root["primary"] /\ root'["last_good"] = root["last_good"]
          /\ IF r.ok THEN root'["journal"].now = NoFile ELSE root' = root
      BY <1>5, <2>3, <2>4, <2>5, KnownFacts
    <2>7. lib'.blocked = (lib.blocked \/ ~r.ok)
      BY <1>1, <1>2, <1>3, NotedLibrary DEF Noting
    <2>8. UNCHANGED <<job, call, held, accepted, settled>> /\ pc' = "read_primary"
      BY <1>1 DEF Noting, Continue
    <2>9. HeldKnows'
      BY <1>5, <2>6, <2>8 DEF Known, HeldKnows, Decoded
    <2>10. SaveKnows'
      BY <2>8 DEF SaveKnows, EndPcs
    <2>11. root["primary"].now = NoFile => j.expected = NoFile
      BY <2>1, <2>2, SnapshotFacts
    <2>12. LoadKnows'
      BY <1>3, <2>6, <2>7, <2>8, <2>11 DEF LoadKnows, EndPcs
    <2> QED BY <1>4, <1>5, <2>6, <2>8, <2>9, <2>10, <2>12 DEF Known
  <1> QED BY <1>4, <1>5 DEF Recoverable

\* The fields of a library that has been read.
LEMMA LoadedFields ==
    ASSUME lib \in Libraries, NEW s, NEW f, Loaded(s, f)
    PROVE  lib'.snapshot = s /\ lib'.baseline = f /\ lib'.blocked = lib.blocked
  BY DEF Loaded, Libraries

\* The library has been read: what it is, is what the primary holds.
LEMMA LoadedKnown ==
    ASSUME TypeInv, Known, pc \in {"read_primary", "restore_primary"},
           NEW s \in Snapshots, NEW f \in Snapshots \cup {NoFile}, Loaded(s, f),
           Slack' = Slack, Disk(root', settled, Slack),
           root'["primary"].now = f, f = NoFile => root'["last_good"].now = NoFile,
           s = IF f = NoFile THEN DefaultSnapshot ELSE f,
           root'["journal"].now = root["journal"].now
    PROVE  Known'
  <1>1. lib \in Libraries /\ call \in {"open", "retry"}
    BY DEF TypeInv, Control, LoadPcs
  <1>2. lib'.snapshot = s /\ lib'.baseline = f /\ lib'.blocked = lib.blocked
    BY <1>1, LoadedFields
  <1>3. UNCHANGED <<job, call, held, accepted, settled>> /\ pc' = "recover_intent"
    BY DEF Loaded, Continue
  <1>4. ~lib.blocked => root["journal"].now = NoFile
    BY DEF Known, LoadKnows
  <1>5. HeldKnows'
    BY <1>3 DEF Known, HeldKnows, Decoded
  <1>6. SaveKnows'
    BY <1>3 DEF SaveKnows, EndPcs
  <1>7. Decoded(lib')
    BY <1>2 DEF Decoded
  <1>8. LoadKnows'
    BY <1>2, <1>3, <1>4, <1>7 DEF LoadKnows, EndPcs
  <1> QED BY <1>3, <1>5, <1>6, <1>8 DEF Known

\* Reading the primary, or turning to the backup.
LEMMA ReadPrimaryKnown ==
    ASSUME TypeInv, Recoverable, ReadPrimary PROVE Recoverable'
  <1> DEFINE p == root["primary"].now
             g == root["last_good"].now
  <1>1. pc = "read_primary" /\ UNCHANGED <<root, atts, spent>>
    BY DEF ReadPrimary
  <1>2. Readable' = Readable /\ Slack' = Slack
    BY <1>1 DEF Readable, Slack
  <1>3. ASSUME Known PROVE Known'
    <2>1. /\ p \in Snapshots \cup {NoFile} /\ g \in Snapshots \cup {NoFile}
          /\ Disk(root', settled, Slack) /\ Corrupt \notin Snapshots \cup {NoFile}
      BY <1>1, <1>3, KnownFacts, DistinctAssumption
    <2>2. CASE LoadFails
      BY <1>1, <1>2, <1>3, <2>2, CalmKnown DEF LoadFails, Leave
    <2>3. CASE p # NoFile /\ Loaded(p, p)
      BY <1>1, <1>2, <1>3, <2>1, <2>3, LoadedKnown
    <2>4. CASE p = NoFile /\ g = NoFile /\ Loaded(DefaultSnapshot, NoFile)
      BY <1>1, <1>2, <1>3, <2>1, <2>4, DefaultType, LoadedKnown
    <2>5. CASE p = NoFile /\ Continue("restore_primary") /\ UNCHANGED <<lib, work>>
      BY <1>1, <1>2, <1>3, <2>5
      DEF Continue, Known, HeldKnows, SaveKnows, LoadKnows, EndPcs, Decoded
    <2> QED BY <2>1, <2>2, <2>3, <2>4, <2>5 DEF ReadPrimary
  <1> QED BY <1>2, <1>3 DEF Recoverable

\* Restoring an absent primary, also when that fails half way.
LEMMA RestorePrimaryKnown ==
    ASSUME TypeInv, Recoverable, RestorePrimary PROVE Recoverable'
  <1> DEFINE g == root["last_good"].now
             e == Put(root, "primary", g)
  <1>1. PICK r \in WriteVerified(root, "primary", g) :
          /\ root' = r.dir
          /\ IF r.ok THEN Loaded(g, g) /\ UNCHANGED spent
                     ELSE LoadFails /\ SpendRestore("faults", MaxFaults)
    BY DEF RestorePrimary
  <1>2. pc = "restore_primary" /\ g \in Snapshots /\ spent \in [FailureKinds -> Nat]
    BY DEF RestorePrimary, TypeInv, TypeOK, Control
  <1>3. Readable' = Readable /\ IF r.ok THEN Slack' = Slack ELSE Slack' = {NoFile}
    BY <1>1, <1>2 DEF SpendRestore, Readable, Slack, FailureKinds
  <1>4. ASSUME Known PROVE Known'
    <2>1. IsDirectory(root, RootType) /\ settled \in Snapshots /\ g # NoFile
      BY <1>2, <1>4, KnownFacts, SnapshotFacts
    <2>2. root \in RootMidway /\ e \in RootMidway
      BY <1>2 DEF RootMidway
    <2>3. Disk(root, settled, {NoFile}) /\ Disk(e, settled, {NoFile})
      BY <1>2, <1>4, <2>2, MidwayDisk
    <2>4. /\ IsDirectory(e, RootType) /\ e["primary"].now = g
          /\ e["last_good"] = root["last_good"] /\ e["journal"] = root["journal"]
      <3>1. /\ "primary" \in RootFiles /\ g \in RootType["primary"]
            /\ "last_good" \in RootFiles /\ "journal" \in RootFiles
        BY <1>2, RootDomain DEF RootFiles
      <3> QED BY <2>1, <3>1, RootDomain, PutType, PutFiles
    <2>5. /\ r.ok \in BOOLEAN /\ r.dir \in {root, e, Sync(e)}
          /\ r.ok => r.dir = Sync(e)
      BY WriteVerifiedOutcome
    <2> HIDE DEF e
    <2>6. \A q \in RootFiles : Sync(e)[q].now = e[q].now /\ Images(Sync(e)[q]) = {e[q].now}
      BY <2>4, SyncFiles
    <2>7. Disk(Sync(e), settled, {NoFile})
      BY <2>1, <2>3, <2>4, SyncDisk
    <2>8. CASE r.ok
      <3>1. P(Sync(e)) = {g} /\ Sync(e)["primary"].now = g
        BY <2>4, <2>6 DEF P, RootFiles
      <3>2. Disk(Sync(e), settled, {})
        BY <2>1, <2>7, <3>1, NoSlackDisk
      <3>3. Disk(root', settled, Slack)
        BY <1>1, <2>5, <2>8, <3>2, MoreSlack
      <3>4. root'["journal"].now = root["journal"].now /\ root'["primary"].now = g
        BY <1>1, <2>4, <2>5, <2>6, <2>8 DEF RootFiles
      <3> QED BY <1>1, <1>2, <1>3, <1>4, <2>1, <2>8, <3>3, <3>4, LoadedKnown
    <2>9. CASE ~r.ok
      <3>1. Disk(root', settled, Slack')
        BY <1>1, <1>3, <2>3, <2>5, <2>7, <2>9
      <3>2. UNCHANGED <<held, accepted, settled>> /\ pc' = "idle"
        BY <1>1, <2>9 DEF LoadFails, Leave
      <3>3. root["primary"].now = NoFile
        BY <1>2, <1>4 DEF Known, LoadKnows
      <3>4. root'["last_good"].now = g
        BY <1>1, <2>4, <2>5, <2>6 DEF RootFiles
      <3> QED BY <1>4, <3>1, <3>2, <3>3, <3>4, GiveUpKnown
    <2> QED BY <2>5, <2>8, <2>9
  <1> QED BY <1>3, <1>4 DEF Recoverable

\* Taking up an intent changes nothing that decides what loads.
LEMMA RecoverIntentKnown ==
    ASSUME TypeInv, Recoverable, RecoverIntent PROVE Recoverable'
  <1>1. pc = "recover_intent" /\ UNCHANGED <<root, atts, spent>> /\ lib \in Libraries
    BY DEF RecoverIntent, TypeInv, Control, LoadPcs
  <1>2. Readable' = Readable /\ Slack' = Slack
    BY <1>1 DEF Readable, Slack
  <1>3. /\ UNCHANGED <<job, call, held, accepted, settled>>
        /\ pc' \in {"return", "rollback", "settle"}
    BY DEF RecoverIntent, Noting, Continue
  <1>4. lib' = lib \/ \E b \in BOOLEAN : lib' = [lib EXCEPT !.blocked = @ \/ b]
    BY DEF RecoverIntent, Noting
  <1>5. /\ lib'.snapshot = lib.snapshot /\ lib'.baseline = lib.baseline
        /\ lib.blocked => lib'.blocked
    BY <1>1, <1>4, NotedLibrary
  <1>6. ASSUME Known PROVE Known'
    <2>1. Disk(root', settled, Slack)
      BY <1>1, <1>6, KnownFacts
    <2> QED BY <1>1, <1>2, <1>3, <1>5, <1>6, <2>1, SettleKnown DEF EndPcs
  <1> QED BY <1>2, <1>6 DEF Recoverable

-----------------------------------------------------------------------------
(* The end of a call                                                       *)

\* A loaded library is at least as new as the settled one, and if nothing
\* blocks it, the disk recovers to it.
LEMMA ReportedDisk ==
    ASSUME TypeInv, Known, pc = "return"
    PROVE  /\ lib \in Libraries /\ lib.snapshot \in Snapshots
           /\ Decoded(lib) /\ Newer(lib.snapshot, settled)
           /\ lib.baseline = root["primary"].now
           /\ lib.baseline = NoFile => root["last_good"].now = NoFile
           /\ ~lib.blocked => Disk(root, lib.snapshot, Slack)
  <1> DEFINE x == root["primary"].now
  <1>1. /\ lib \in Libraries /\ lib.snapshot \in Snapshots /\ settled \in Snapshots
        /\ Disk(root, settled, Slack)
        /\ x \in P(root) /\ P(root) \subseteq Snapshots \cup {NoFile}
        /\ root["last_good"].now \in G(root) /\ root["journal"].now \in J(root)
    BY KnownFacts DEF TypeInv, Control, EndPcs
  <1>2. CASE call = "commit"
    <2>1. held \in Libraries /\ job \in Jobs
      BY <1>2 DEF TypeInv, Control
    <2>2. /\ held.snapshot \in Snapshots /\ job.candidate \in Snapshots
          /\ job.candidate # NoFile
          /\ held.snapshot.revision \in Nat /\ settled.revision \in Nat
      BY <1>1, <2>1, KnownFacts, SnapshotFacts
    <2>3. /\ lib.snapshot = job.candidate /\ lib.baseline = job.candidate
          /\ lib.snapshot.revision = held.snapshot.revision + 1
          /\ x = job.candidate
          /\ ~lib.blocked => P(root) = {job.candidate} /\ G(root) = {job.candidate}
      BY <1>2 DEF Known, SaveKnows, EndPcs
    <2>4. Newer(held.snapshot, settled)
      BY <2>1 DEF Known, HeldKnows
    <2>5. Newer(lib.snapshot, settled) /\ Decoded(lib)
      BY <2>2, <2>3, <2>4 DEF Newer, Decoded
    <2>6. ASSUME ~lib.blocked PROVE Disk(root, lib.snapshot, Slack)
      <3>1. Solid(root, lib.snapshot)
        BY <2>2, <2>3, <2>6 DEF Solid, Newer
      <3> QED BY <1>1, <3>1 DEF Disk
    <2> QED BY <1>1, <2>2, <2>3, <2>5, <2>6
  <1>3. CASE call # "commit"
    <2>1. /\ Decoded(lib) /\ lib.baseline = x
          /\ lib.baseline = NoFile => root["last_good"].now = NoFile
          /\ ~lib.blocked => root["journal"].now = NoFile
      BY <1>3 DEF Known, LoadKnows, EndPcs
    <2>2. CASE x = NoFile
      <3>1. P(root) = {NoFile} /\ G(root) = {NoFile}
        BY <1>1, <2>1, <2>2 DEF Disk, PrimaryNewest
      <3>2. lib.snapshot = DefaultSnapshot /\ settled = DefaultSnapshot
        BY <1>1, <2>1, <2>2, <3>1 DEF Decoded, Disk, Solid
      <3> QED BY <1>1, <2>1, <3>2 DEF Newer
    <2>3. CASE x # NoFile
      <3>1. lib.snapshot = x
        BY <2>1, <2>3 DEF Decoded
      <3>2. Newer(lib.snapshot, settled)
        BY <1>1, <2>3, <3>1 DEF Disk, Solid
      <3>3. ASSUME ~lib.blocked PROVE Disk(root, lib.snapshot, Slack)
        <4>1. NoFile \in J(root)
          BY <1>1, <2>1, <3>3
        <4>2. P(root) \subseteq {x, NoFile}
          BY <4>1, SlackType, <1>1 DEF Disk, JournalBrackets
        <4>3. \A h \in G(root) \ {NoFile} : Newer(h, x)
          BY <1>1, <2>3, <4>1 DEF Disk, BackupCovers
        <4>4. ~(NoFile \in P(root) /\ NoFile \in G(root))
          BY <1>1, <2>3, <4>1 DEF Disk, BackupCovers
        <4>5. Solid(root, lib.snapshot)
          BY <3>1, <4>2, <4>3, <4>4 DEF Solid, Newer
        <4> QED BY <1>1, <4>5 DEF Disk
      <3> QED BY <1>1, <2>1, <2>3, <3>2, <3>3
    <2> QED BY <2>2, <2>3
  <1> QED BY <1>2, <1>3

\* Reporting a library: a settled one is what the disk recovers to.
LEMMA ReturnKnown ==
    ASSUME TypeInv, Recoverable, Return PROVE Recoverable'
  <1>1. pc = "return" /\ UNCHANGED <<root, atts, spent>>
    BY DEF Return
  <1>2. Readable' = Readable /\ Slack' = Slack
    BY <1>1 DEF Readable, Slack
  <1>3. ASSUME Known PROVE Known'
    <2>0. /\ lib \in Libraries /\ lib.snapshot \in Snapshots
          /\ Decoded(lib) /\ Newer(lib.snapshot, settled)
          /\ lib.baseline = root["primary"].now
          /\ lib.baseline = NoFile => root["last_good"].now = NoFile
          /\ ~lib.blocked => Disk(root, lib.snapshot, Slack)
          /\ Disk(root, settled, Slack)
      BY <1>1, <1>3, ReportedDisk, KnownFacts
    <2>1. pc' \in {"idle", "begin"} /\ held' = lib
      BY DEF Return, Accept, Report, Leave
    <2>2. SaveKnows' /\ LoadKnows'
      BY <2>1 DEF SaveKnows, LoadKnows, EndPcs
    <2>3. CASE Report
      <3>1. Disk(root', settled', Slack')
        BY <1>1, <1>2, <2>0, <2>3 DEF Report
      <3>2. Newer(accepted', settled') /\ Newer(lib.snapshot, settled')
        BY <2>0, <2>3 DEF Report, Newer
      <3>3. HeldKnows'
        BY <1>1, <2>0, <2>1, <3>2 DEF HeldKnows, Decoded
      <3> QED BY <2>2, <3>1, <3>2, <3>3 DEF Known
    <2>4. CASE UNCHANGED <<accepted, settled>>
      <3>1. HeldKnows'
        BY <1>1, <2>0, <2>1, <2>4 DEF HeldKnows, Decoded
      <3> QED BY <1>1, <1>2, <1>3, <2>0, <2>2, <2>4, <3>1 DEF Known
    <2> QED BY <2>3, <2>4 DEF Return, Accept
  <1> QED BY <1>2, <1>3 DEF Recoverable

\* The commands of the worker touch no file.
LEMMA UserKnown ==
    ASSUME TypeInv, Recoverable, User PROVE Recoverable'
  <1>1. Readable' = Readable /\ Slack' = Slack
    BY DEF User, Open, Retry, Discard, Resolve, Quit, Commit, Spend, Readable, Slack,
           FailureKinds, TypeInv, TypeOK
  <1>2. CASE Quit
    <2>1. /\ UNCHANGED <<root, accepted, settled>> /\ held' = NoLibrary /\ pc' = "idle"
      BY <1>2 DEF Quit, Vanish, Leave
    <2>2. NoLibrary \notin Libraries
      BY DistinctAssumption
    <2> QED BY <1>1, <2>1, <2>2
            DEF Recoverable, Known, HeldKnows, SaveKnows, LoadKnows, EndPcs
  <1>3. CASE ~Quit
    <2>1. UNCHANGED <<root, held, accepted, settled>>
      BY <1>3 DEF User, Open, Retry, Discard, Resolve, Commit
    <2>2. pc' \in {"idle", "begin", "recover_journal"}
      BY <1>3 DEF User, Open, Retry, Discard, Resolve, Commit, TypeInv, Control
    <2> QED BY <1>1, <2>1, <2>2, CalmKnown DEF Recoverable
  <1> QED BY <1>2, <1>3

-----------------------------------------------------------------------------
(* Failures                                                                *)

\* A read error or a decayed file is outside what is claimed.
LEMMA UnreadableKnown ==
    ASSUME TypeInv, ReadFault \/ \E f \in RootFiles : Decay(f) PROVE Recoverable'
  <1>1. spent' = [spent EXCEPT !["reads"] = @ + 1]
        \/ spent' = [spent EXCEPT !["decays"] = @ + 1]
    BY DEF ReadFault, Decay, Spend
  <1>2. ~Readable'
    BY <1>1 DEF Readable, TypeInv, TypeOK, FailureKinds
  <1> QED BY <1>2 DEF Recoverable

\* A vanished process knows nothing any more.
LEMMA VanishKnown ==
    ASSUME Known, Vanish, Disk(root', settled, Slack') PROVE Known'
  <1>1. UNCHANGED <<accepted, settled>> /\ held' \notin Libraries /\ pc' = "idle"
    BY DistinctAssumption DEF Vanish, Leave
  <1> QED BY <1>1 DEF Known, HeldKnows, SaveKnows, LoadKnows, EndPcs

\* Killing the process between the halves of any file operation.
LEMMA KillKnown ==
    ASSUME TypeInv, Recoverable, Kill PROVE Recoverable'
  <1>1. /\ Readable' = Readable
        /\ IF pc = "restore_primary" THEN Slack' = {NoFile} ELSE Slack' = Slack
    BY DEF Kill, Spend, SpendRestore, Readable, Slack, TypeInv, TypeOK, FailureKinds
  <1>2. root' \in RootMidway /\ Vanish
    BY DEF Kill
  <1>3. ASSUME Known PROVE Disk(root', settled, Slack')
    BY <1>1, <1>2, <1>3, MidwayDisk
  <1> QED BY <1>1, <1>2, <1>3, VanishKnown DEF Recoverable

\* Losing power between the halves of any file operation.
LEMMA PowerLossKnown ==
    ASSUME TypeInv, Recoverable, PowerLoss PROVE Recoverable'
  <1>1. Readable' = Readable /\ Slack' = Slack
    BY DEF PowerLoss, Spend, Readable, Slack, TypeInv, TypeOK, FailureKinds
  <1>2. PICK d \in RootMidway : root' \in AfterPowerLoss(d)
    BY DEF PowerLoss
  <1>3. ASSUME Known PROVE Disk(root', settled, Slack')
    <2>1. IsDirectory(d, RootType) /\ settled \in Snapshots
      BY <1>3, RootMidwayType, KnownFacts
    <2>2. CASE pc = "restore_primary"
      <3>1. /\ Disk(d, settled, {NoFile}) /\ J(d) = J(root)
            /\ \A j \in J(root) \ {NoFile} : j.expected = NoFile
        BY <1>3, <2>2, MidwayDisk
      <3>2. Disk(root', settled, {NoFile})
        BY <1>2, <2>1, <3>1, PowerLossDisk
      <3>3. /\ P(root') = {root'["primary"].now} /\ J(root') = {root'["journal"].now}
            /\ root'["journal"].now \in J(d)
        BY <1>2, <2>1, PowerLossFiles DEF P, J, RootFiles
      <3>4. Disk(root', settled, {})
        BY <3>1, <3>2, <3>3, NoSlackDisk
      <3> QED BY <1>1, <3>4, MoreSlack
    <2>3. CASE pc # "restore_primary"
      <3>1. Disk(d, settled, Slack)
        BY <1>3, <2>3, MidwayDisk
      <3> QED BY <1>1, <1>2, <2>1, <3>1, PowerLossDisk
    <2> QED BY <2>2, <2>3
  <1>4. Vanish
    BY DEF PowerLoss
  <1> QED BY <1>1, <1>3, <1>4, VanishKnown DEF Recoverable

-----------------------------------------------------------------------------

\* An installed library, or none, recovers to itself.
LEMMA InitKnown == Init => Recoverable
  <1> SUFFICES ASSUME Init PROVE Known
    BY DEF Recoverable
  <1>1. PICK s \in Installed :
          /\ root = [f \in RootFiles |->
                       OnDisk(IF f \in {"primary", "last_good"} THEN s ELSE NoFile)]
          /\ accepted = IF s = NoFile THEN DefaultSnapshot ELSE s
          /\ settled = accepted
    BY DEF Init
  <1>2. s \in Snapshots \cup {NoFile} /\ s # Corrupt /\ Corrupt # NoFile
    BY ConstantsAssumption, DistinctAssumption
  <1>3. /\ root["primary"] = OnDisk(s) /\ root["last_good"] = OnDisk(s)
        /\ root["journal"] = OnDisk(NoFile)
    BY <1>1 DEF RootFiles
  <1>4. /\ P(root) = {s} /\ G(root) = {s} /\ J(root) = {NoFile}
        /\ root["primary"].now = s /\ root["last_good"].now = s
        /\ root["journal"].now = NoFile
    BY <1>3 DEF P, G, J, Images, OnDisk
  <1>5. Disk(root, settled, Slack)
    BY <1>1, <1>2, <1>4
    DEF Disk, Solid, PrimaryNewest, JournalBrackets, BackupCovers, Newer
  <1>6. held \notin Libraries /\ pc = "idle"
    BY DistinctAssumption DEF Init
  <1>7. Newer(accepted, settled)
    BY <1>1 DEF Newer
  <1> QED BY <1>5, <1>6, <1>7 DEF Known, HeldKnows, SaveKnows, LoadKnows, EndPcs

\* Every step keeps the library recoverable.
LEMMA NextKnown ==
    ASSUME TypeInv, Recoverable, [Next]_vars PROVE Recoverable'
  <1>1. CASE SaveStep
    BY <1>1, StageStepKnown, WriteIntentKnown, PreflightKnown, WriteJournalKnown,
       WritePrimaryKnown, WriteLastGoodKnown, RemoveJournalKnown DEF SaveStep
  <1>2. CASE SettleStep
    BY <1>2, SettleStepKnown, RemoveIntentKnown DEF SettleStep
  <1>3. CASE LoadStep
    BY <1>3, RecoverJournalKnown, FinishLastGoodKnown, ClearJournalKnown,
       ReadPrimaryKnown, RestorePrimaryKnown, RecoverIntentKnown DEF LoadStep
  <1>4. CASE Failure
    BY <1>4, UnreadableKnown, KillKnown, PowerLossKnown DEF Failure
  <1>5. CASE UNCHANGED vars
    BY <1>5
    DEF vars, Recoverable, Readable, Known, Slack, HeldKnows, SaveKnows, LoadKnows,
        Decoded, Written
  <1> QED BY <1>1, <1>2, <1>3, <1>4, <1>5, ReturnKnown, UserKnown DEF Next, Step

\* While every read succeeds and every file decodes, whatever a power loss
\* leaves at any point of any call loads as the settled library or a later
\* one: the inductive invariant behind the two theorems below.
THEOREM AlwaysRecoverable == Spec => []Recoverable
  <1>1. Init => TypeInv /\ Recoverable
    BY InitType, InitKnown
  <1>2. TypeInv /\ Recoverable /\ [Next]_vars => (TypeInv /\ Recoverable)'
    BY NextType, NextKnown
  <1> QED BY <1>1, <1>2, PTL DEF Spec

\* A step of a save or a load goes on with its call or ends it with an error.
LEMMA Proceeds ==
    ASSUME SaveStep \/ SettleStep \/ LoadStep
    PROVE  pc # "idle" /\ ((\E l : Continue(l)) \/ Fail \/ LoadFails)
  <1>1. CASE SaveStep
    <2>1. CASE Begin
      BY <2>1 DEF Begin
    <2>2. CASE WriteIntent
      BY <2>2 DEF WriteIntent
    <2>3. CASE StageNew
      BY <2>3 DEF StageNew
    <2>4. CASE StageRewrite
      BY <2>4 DEF StageRewrite
    <2>5. CASE StageDone \/ Preflight
      BY <2>5 DEF StageDone, Preflight
    <2>6. CASE WriteJournal
      BY <2>6 DEF WriteJournal
    <2>7. CASE WritePrimary
      BY <2>7 DEF WritePrimary
    <2>8. CASE WriteLastGood \/ RemoveJournal
      BY <2>8 DEF WriteLastGood, RemoveJournal
    <2> QED BY <1>1, <2>1, <2>2, <2>3, <2>4, <2>5, <2>6, <2>7, <2>8 DEF SaveStep
  <1>2. CASE SettleStep
    <2>1. CASE Erase
      BY <2>1 DEF Erase, Noting
    <2>2. CASE ReplaceManaged
      BY <2>2 DEF ReplaceManaged, Noting
    <2>3. CASE RemoveStaged
      BY <2>3 DEF RemoveStaged, Noting
    <2>4. CASE VerifyStaged
      BY <2>4 DEF VerifyStaged, Noting
    <2>5. CASE RollBack
      BY <2>5 DEF RollBack, Noting
    <2>6. CASE Settled \/ RemoveIntent
      BY <2>6 DEF Settled, RemoveIntent, Noting
    <2> QED BY <1>2, <2>1, <2>2, <2>3, <2>4, <2>5, <2>6 DEF SettleStep
  <1>3. CASE LoadStep
    <2>1. CASE RecoverJournal
      BY <2>1 DEF RecoverJournal, Noting, Loaded
    <2>2. CASE FinishLastGood \/ ClearJournal
      BY <2>2 DEF FinishLastGood, ClearJournal, Noting
    <2>3. CASE ReadPrimary
      BY <2>3 DEF ReadPrimary, Noting, Loaded
    <2>4. CASE RestorePrimary
      BY <2>4 DEF RestorePrimary, Noting, Loaded
    <2>5. CASE RecoverIntent
      BY <2>5 DEF RecoverIntent, Noting
    <2> QED BY <1>3, <2>1, <2>2, <2>3, <2>4, <2>5 DEF LoadStep
  <1> QED BY <1>1, <1>2, <1>3

\* The only steps that show the application another library are those of Return.
LEMMA OnlyReturnReports ==
    ASSUME [Next]_vars, ~Return PROVE accepted' = accepted
  <1>1. CASE SaveStep \/ SettleStep \/ LoadStep
    BY <1>1, Proceeds DEF Continue, Fail, LoadFails
  <1>2. CASE User
    BY <1>2 DEF User, Open, Retry, Discard, Resolve, Quit, Commit, Vanish
  <1>3. CASE Failure
    <2>1. CASE ReadFault
      BY <2>1 DEF ReadFault, Fail, LoadFails, Continue, Noting
    <2>2. CASE Kill \/ PowerLoss
      BY <2>2 DEF Kill, PowerLoss, Vanish
    <2>3. CASE \E f \in RootFiles : Decay(f)
      BY <2>3 DEF Decay
    <2> QED BY <1>3, <2>1, <2>2, <2>3 DEF Failure
  <1>4. CASE UNCHANGED vars
    BY <1>4 DEF vars
  <1> QED BY <1>1, <1>2, <1>3, <1>4 DEF Next, Step

\* No step reports a library that is behind the settled one.
LEMMA ShownIsNewer ==
    ASSUME TypeInv, Known, [Next]_vars PROVE Newer(accepted', settled)
  <1>1. Newer(accepted, settled)
    BY DEF Known
  <1>2. CASE Return
    <2>1. pc = "return"
      BY <1>2 DEF Return
    <2>2. Newer(lib.snapshot, settled)
      BY <2>1, ReportedDisk
    <2>3. accepted' = lib.snapshot \/ accepted' = accepted
      BY <1>2 DEF Return, Accept, Report
    <2> QED BY <1>1, <2>2, <2>3
  <1> QED BY <1>1, <1>2, OnlyReturnReports

\* A library that was reported without pending maintenance is never lost:
\* for every sequence of failed writes, failed syncs, killed processes and
\* power losses, no step shows the application an older one, nor another one
\* of the same revision.
THEOREM NeverLost == Spec => SettledNeverLost
  <1>1. TypeInv /\ Recoverable /\ [Next]_vars =>
          [spent["reads"] = 0 /\ spent["decays"] = 0 =>
             accepted'.revision > settled.revision \/ accepted' = settled]_vars
    BY ShownIsNewer DEF Recoverable, Readable, Newer
  <1>2. Spec => []TypeInv
    BY InitType, NextType, PTL DEF Spec
  <1> QED BY <1>1, <1>2, AlwaysRecoverable, PTL DEF Spec, SettledNeverLost

\* recover_journal never refuses a journal as ambiguous, however a save, a
\* retry or a load was interrupted before, as long as no read failed, no file
\* decayed and no restoring of the primary was cut short.
THEOREM NeverAmbiguous == Spec => []JournalNeverAmbiguous
  <1>1. Recoverable => JournalNeverAmbiguous
    BY DEF Recoverable, Readable, Known, Disk, JournalBrackets, Slack,
           JournalNeverAmbiguous, PrimaryTrusted, P, J
  <1> QED BY <1>1, AlwaysRecoverable, PTL


-----------------------------------------------------------------------------
(* What a step does to the files besides the journal                       *)

Unjournaled == RootFiles \ {"journal"}

\* Directory e has no image of a file, the journal aside, that d has not.
Shrinks(d, e) ==
    \A f \in Unjournaled :
      Images(e[f]) \subseteq Images(d[f]) /\ e[f].now \in Images(e[f])

\* Each step moves the root to what is left of one half of its operation.
Moves(d) ==
    /\ d \in RootMidway /\ Shrinks(d, root')
    /\ ~PowerLoss => \A f \in Unjournaled : root'[f].now = d[f].now
    /\ spent'["faults"] = 0 /\ spent'["kills"] = 0 =>
         \/ \A f \in Unjournaled : root'[f] = root[f]
         \/ \A f \in Unjournaled : Images(root'[f]) = {root'[f].now}

\* A directory shrinks to itself.
LEMMA ShrinksSelf ==
    ASSUME NEW d PROVE Shrinks(d, d)
  BY DEF Shrinks, Images

\* The outcomes of a verified replacement, as halves of the operation.
LEMMA VerifiedMoves ==
    ASSUME NEW d, IsDirectory(d, RootType), NEW f \in RootFiles, NEW c \in RootType[f],
           NEW r \in WriteVerified(d, f, c)
    PROVE  /\ r.ok \in BOOLEAN
           /\ \E e \in {d, Put(d, f, c)} :
                /\ Shrinks(e, r.dir)
                /\ \A q \in RootFiles : r.dir[q].now = e[q].now
                /\ r.ok => e = Put(d, f, c)
           /\ r.ok => \A q \in RootFiles : Images(r.dir[q]) = {r.dir[q].now}
  <1> DEFINE e == Put(d, f, c)
  <1>1. IsDirectory(e, RootType)
    BY RootDomain, PutType
  <1>2. /\ r.ok \in BOOLEAN /\ r.dir \in {d, e, Sync(e)}
        /\ r.ok => r.dir = Sync(e)
    BY WriteVerifiedOutcome
  <1> HIDE DEF e
  <1>3. \A q \in RootFiles : /\ Sync(e)[q].now = e[q].now
                             /\ Images(Sync(e)[q]) = {e[q].now}
    BY <1>1, SyncFiles
  <1>4. Shrinks(e, Sync(e)) /\ Shrinks(e, e) /\ Shrinks(d, d)
    BY <1>3, ShrinksSelf DEF Shrinks, Images, Unjournaled
  <1> QED BY <1>2, <1>3, <1>4 DEF e

\* A failed operation is counted.
LEMMA ChargeCounts ==
    ASSUME TypeInv, NEW good \in BOOLEAN, Charge(good), ~good PROVE spent'["faults"] # 0
  BY DEF Charge, Spend, TypeInv, TypeOK, FailureKinds

\* Writing one file of the root.
LEMMA FileMoves ==
    ASSUME TypeInv, NEW f \in RootFiles, NEW c \in RootType[f],
           Put(root, f, c) \in RootMidway, NEW r \in WriteVerified(root, f, c),
           root' = r.dir, ~r.ok => spent'["faults"] # 0
    PROVE  \E d \in RootMidway : Moves(d)
  <1>1. IsDirectory(root, RootType) /\ root \in RootMidway
    BY DEF TypeInv, TypeOK, RootMidway
  <1>2. PICK e \in {root, Put(root, f, c)} :
          /\ Shrinks(e, r.dir)
          /\ \A q \in RootFiles : r.dir[q].now = e[q].now
    BY <1>1, VerifiedMoves
  <1>3. r.ok => \A q \in RootFiles : Images(r.dir[q]) = {r.dir[q].now}
    BY <1>1, VerifiedMoves
  <1>4. Intents \subseteq RootFiles
    BY DEF RootFiles
  <1> QED BY <1>1, <1>2, <1>3, <1>4 DEF Moves, Unjournaled

\* A root that stays, the journal aside.
LEMMA StayMoves ==
    ASSUME TypeInv, \A f \in Unjournaled : root'[f] = root[f]
    PROVE  \E d \in RootMidway : Moves(d)
  <1>1. root \in RootMidway
    BY DEF RootMidway
  <1>2. Shrinks(root, root')
    BY DEF Shrinks, Images
  <1>3. Intents \subseteq Unjournaled
    BY DEF RootFiles, Intents, Unjournaled
  <1> QED BY <1>1, <1>2, <1>3 DEF Moves

\* The removal of the journal touches no other file.
LEMMA UnjournaledFiles ==
    ASSUME NEW d, IsDirectory(d, RootType), NEW q \in RemoveFile(d, "journal")
    PROVE  \A f \in Unjournaled : q.dir[f] = d[f]
  <1>1. q.dir = d \/ q.dir = Put(d, "journal", NoFile)
    BY RemoveFileOutcome
  <1>2. "journal" \in RootFiles
    BY DEF RootFiles
  <1> QED BY <1>1, <1>2, PutFiles DEF Unjournaled

\* The steps of a save.
LEMMA SaveMoves ==
    ASSUME TypeInv, SaveStep PROVE \E d \in RootMidway : Moves(d)
  <1>0. IsDirectory(root, RootType) /\ root \in RootMidway
    BY DEF TypeInv, TypeOK, RootMidway
  <1>1. CASE UNCHANGED root
    BY <1>1, StayMoves
  <1>2. CASE WriteIntent
    <2>1. PICK r \in WriteVerified(root, work.kind, work.intent) :
            root' = r.dir /\ Charge(r.ok)
      BY <1>2, Zenon DEF WriteIntent
    <2>2. pc = "write_intent" /\ work \in Works
      BY <1>2 DEF WriteIntent, TypeInv, Control
    <2>3. work.kind \in RootFiles /\ work.intent \in RootType[work.kind]
      BY <2>2, RootDomain DEF Works, RootFiles
    <2>4. Put(root, work.kind, work.intent) \in RootMidway
      BY <2>2 DEF RootMidway
    <2>5. r.ok \in BOOLEAN
      BY WriteVerifiedOutcome
    <2> QED BY <2>1, <2>3, <2>4, <2>5, ChargeCounts, FileMoves
  <1>3. CASE WriteJournal
    <2> DEFINE w == [expected |-> held.baseline, candidate |-> job.candidate]
    <2>1. PICK r \in WriteVerified(root, "journal", w) :
            /\ Charge(r.ok)
            /\ \/ r.ok /\ root' = r.dir
               \/ ~r.ok /\ \E q \in RemoveFile(r.dir, "journal") : root' = q.dir
      BY <1>3 DEF WriteJournal
    <2>2. pc = "write_journal" /\ held \in Libraries /\ job \in Jobs
      BY <1>3 DEF WriteJournal, TypeInv, Control, SavePcs
    <2>3. w \in RootType["journal"] /\ "journal" \in RootFiles
      BY <2>2, RootDomain DEF Journals, Libraries, Jobs, RootFiles
    <2>4. Put(root, "journal", w) \in RootMidway
      BY <2>2 DEF RootMidway
    <2>5. r.ok \in BOOLEAN /\ IsDirectory(r.dir, RootType)
      BY <1>0, <2>3, RootDomain, WriteVerifiedOutcome, WriteVerifiedType
    <2> HIDE DEF w
    <2>6. CASE r.ok
      BY <2>1, <2>3, <2>4, <2>6, FileMoves
    <2>7. CASE ~r.ok
      <3>1. PICK e \in {root, Put(root, "journal", w)} :
              /\ Shrinks(e, r.dir)
              /\ \A q \in RootFiles : r.dir[q].now = e[q].now
        BY <1>0, <2>3, VerifiedMoves
      <3>2. \A f \in Unjournaled : root'[f] = r.dir[f]
        BY <2>1, <2>5, <2>7, UnjournaledFiles
      <3>3. Shrinks(e, root') /\ e \in RootMidway
        BY <1>0, <2>4, <3>1, <3>2 DEF Shrinks
      <3>4. spent'["faults"] # 0
        BY <2>1, <2>5, <2>7, ChargeCounts
      <3>5. Intents \subseteq Unjournaled
        BY DEF RootFiles, Intents, Unjournaled
      <3> QED BY <3>1, <3>2, <3>3, <3>4, <3>5 DEF Moves, Unjournaled
    <2> QED BY <2>5, <2>6, <2>7
  <1>4. CASE WritePrimary
    <2>1. PICK r \in WriteVerified(root, "primary", job.candidate) :
            root' = r.dir /\ Charge(r.ok)
      BY <1>4, Zenon DEF WritePrimary
    <2>2. pc = "write_primary" /\ job \in Jobs
      BY <1>4 DEF WritePrimary, TypeInv, Control, SavePcs
    <2>3. "primary" \in RootFiles /\ job.candidate \in RootType["primary"]
      BY <2>2, RootDomain DEF Jobs, RootFiles
    <2>4. Put(root, "primary", job.candidate) \in RootMidway
      BY <2>2 DEF RootMidway
    <2>5. r.ok \in BOOLEAN
      BY WriteVerifiedOutcome
    <2> QED BY <2>1, <2>3, <2>4, <2>5, ChargeCounts, FileMoves
  <1>5. CASE WriteLastGood
    <2>1. PICK r \in WriteVerified(root, "last_good", job.candidate) :
            root' = r.dir /\ Charge(r.ok)
      BY <1>5, Zenon DEF WriteLastGood
    <2>2. pc = "write_last_good" /\ job \in Jobs
      BY <1>5 DEF WriteLastGood, TypeInv, Control, SavePcs
    <2>3. "last_good" \in RootFiles /\ job.candidate \in RootType["last_good"]
      BY <2>2, RootDomain DEF Jobs, RootFiles
    <2>4. Put(root, "last_good", job.candidate) \in RootMidway
      BY <2>2 DEF RootMidway
    <2>5. r.ok \in BOOLEAN
      BY WriteVerifiedOutcome
    <2> QED BY <2>1, <2>3, <2>4, <2>5, ChargeCounts, FileMoves
  <1>6. CASE RemoveJournal
    <2>1. PICK r \in RemoveFile(root, "journal") : root' = r.dir
      BY <1>6, Zenon DEF RemoveJournal
    <2> QED BY <1>0, <2>1, UnjournaledFiles, StayMoves
  <1>7. CASE Begin \/ StageNew \/ StageRewrite \/ StageDone \/ Preflight
    BY <1>1, <1>7 DEF Begin, StageNew, StageRewrite, StageDone, Preflight
  <1> QED BY <1>2, <1>3, <1>4, <1>5, <1>6, <1>7 DEF SaveStep

\* The steps of settling.
LEMMA SettleMoves ==
    ASSUME TypeInv, SettleStep PROVE \E d \in RootMidway : Moves(d)
  <1>1. CASE RemoveIntent
    <2> DEFINE e == Put(root, work.kind, NoFile)
    <2>0. IsDirectory(root, RootType) /\ root \in RootMidway
      BY DEF TypeInv, TypeOK, RootMidway
    <2>1. PICK r \in RemoveFileDurable(root, work.kind) : root' = r.dir /\ Charge(r.ok)
      BY <1>1, Zenon DEF RemoveIntent
    <2>2. pc = "remove_intent" /\ work \in Works
      BY <1>1 DEF RemoveIntent, TypeInv, Control, EndPcs
    <2>3. work.kind \in RootFiles /\ NoFile \in RootType[work.kind]
      BY <2>2, RootDomain DEF Works, RootFiles
    <2>4. e \in RootMidway
      BY <2>2 DEF RootMidway
    <2>5. CASE root[work.kind].now = NoFile
      <3>1. r.dir = root
        BY <2>5, ResultFields, <2>1 DEF RemoveFileDurable
      <3> QED BY <2>1, <3>1, StayMoves
    <2>6. CASE root[work.kind].now # NoFile
      <3>1. r \in WriteVerified(root, work.kind, NoFile)
        BY <2>1, <2>6 DEF RemoveFileDurable, WriteVerified
      <3>2. r.ok \in BOOLEAN
        BY RemoveFileDurableOutcome
      <3> QED BY <2>1, <2>3, <2>4, <3>1, <3>2, ChargeCounts, FileMoves
    <2> QED BY <2>5, <2>6
  <1>2. CASE Erase \/ ReplaceManaged \/ RemoveStaged \/ VerifyStaged \/ RollBack \/ Settled
    <2>1. UNCHANGED root
      BY <1>2 DEF Erase, ReplaceManaged, RemoveStaged, VerifyStaged, RollBack, Settled
    <2> QED BY <2>1, StayMoves
  <1> QED BY <1>1, <1>2 DEF SettleStep

\* The steps of a load.
LEMMA LoadMoves ==
    ASSUME TypeInv, LoadStep PROVE \E d \in RootMidway : Moves(d)
  <1>0. IsDirectory(root, RootType) /\ root \in RootMidway
    BY DEF TypeInv, TypeOK, RootMidway
  <1>1. CASE FinishLastGood
    <2> DEFINE c == root["journal"].now.candidate
    <2>1. PICK r \in WriteVerified(root, "last_good", c) : root' = r.dir /\ Charge(r.ok)
      BY <1>1, Zenon DEF FinishLastGood
    <2>2. pc = "finish_last_good" /\ root["journal"].now \in Journals
      BY <1>1 DEF FinishLastGood, TypeInv, Control
    <2>3. "last_good" \in RootFiles /\ c \in RootType["last_good"]
      BY <2>2, RootDomain DEF Journals, RootFiles
    <2>4. Put(root, "last_good", c) \in RootMidway
      BY <2>2 DEF RootMidway
    <2>5. r.ok \in BOOLEAN
      BY WriteVerifiedOutcome
    <2> QED BY <2>1, <2>3, <2>4, <2>5, ChargeCounts, FileMoves
  <1>2. CASE RestorePrimary
    <2> DEFINE c == root["last_good"].now
    <2>1. PICK r \in WriteVerified(root, "primary", c) :
            root' = r.dir /\ (r.ok \/ SpendRestore("faults", MaxFaults))
      BY <1>2 DEF RestorePrimary
    <2>2. pc = "restore_primary" /\ c \in Snapshots
      BY <1>2 DEF RestorePrimary, TypeInv, Control
    <2>3. "primary" \in RootFiles /\ c \in RootType["primary"]
      BY <2>2, RootDomain DEF RootFiles
    <2>4. Put(root, "primary", c) \in RootMidway
      BY <2>2 DEF RootMidway
    <2>5. ~r.ok => spent'["faults"] # 0
      BY <2>1 DEF SpendRestore, TypeInv, TypeOK, FailureKinds
    <2> QED BY <2>1, <2>3, <2>4, <2>5, FileMoves
  <1>3. CASE ClearJournal
    <2>1. PICK r \in RemoveFile(root, "journal") : root' = r.dir
      BY <1>3, Zenon DEF ClearJournal
    <2> QED BY <1>0, <2>1, UnjournaledFiles, StayMoves
  <1>4. CASE RecoverJournal \/ ReadPrimary \/ RecoverIntent
    <2>1. UNCHANGED root
      BY <1>4 DEF RecoverJournal, ReadPrimary, RecoverIntent
    <2> QED BY <2>1, StayMoves
  <1> QED BY <1>1, <1>2, <1>3, <1>4 DEF LoadStep

\* A killed process leaves half of an operation.
LEMMA KillMoves ==
    ASSUME TypeInv, Kill PROVE \E d \in RootMidway : Moves(d)
  <1>1. root' \in RootMidway
    BY DEF Kill
  <1>2. spent'["kills"] # 0
    BY DEF Kill, Spend, SpendRestore, TypeInv, TypeOK, FailureKinds
  <1> QED BY <1>1, <1>2, ShrinksSelf DEF Moves

\* A power loss leaves one image of every file.
LEMMA PowerLossMoves ==
    ASSUME TypeInv, PowerLoss PROVE \E d \in RootMidway : Moves(d)
  <1>1. PICK d \in RootMidway : root' \in AfterPowerLoss(d)
    BY DEF PowerLoss
  <1>2. \A q \in RootFiles : /\ root'[q].now \in Images(d[q])
                             /\ Images(root'[q]) = {root'[q].now}
    BY <1>1, RootMidwayType, PowerLossFiles
  <1>3. Intents \subseteq RootFiles
    BY DEF RootFiles
  <1> QED BY <1>1, <1>2, <1>3 DEF Moves, Shrinks, Unjournaled

\* Every step but decay, which no trusted primary has seen.
LEMMA NextMoves ==
    ASSUME TypeInv, [Next]_vars, ~ \E f \in RootFiles : Decay(f)
    PROVE  \E d \in RootMidway : Moves(d)
  <1>1. CASE UNCHANGED root
    BY <1>1, StayMoves
  <1>2. User \/ Return \/ ReadFault \/ UNCHANGED vars => UNCHANGED root
    BY DEF User, Open, Retry, Discard, Resolve, Quit, Commit, Return, ReadFault, vars
  <1> QED BY <1>1, <1>2, SaveMoves, SettleMoves, LoadMoves, KillMoves, PowerLossMoves
          DEF Next, Step, Failure

-----------------------------------------------------------------------------
(* Failures are only counted up                                            *)

\* A step of `spent'.
Counts ==
    \/ UNCHANGED spent
    \/ \E k \in FailureKinds : \E b : Spend(k, b) \/ SpendRestore(k, b)

\* An operation that reports an error costs a fault.
LEMMA ChargeIsCounted ==
    ASSUME NEW good \in BOOLEAN, Charge(good) PROVE Counts
  BY DEF Charge, Counts, FailureKinds

\* Every step counts the failures it had, if any.
LEMMA NextCounts ==
    ASSUME [Next]_vars PROVE Counts
  <1>1. UNCHANGED spent => Counts
    BY DEF Counts
  <1>2. \A k \in FailureKinds : \A b : Spend(k, b) \/ SpendRestore(k, b) => Counts
    BY DEF Counts
  <1>3. {"faults", "reads", "kills", "losses", "decays", "discards"} \subseteq FailureKinds
    BY DEF FailureKinds
  <1>4. \A d, p, c : \A r \in WriteVerified(d, p, c) : Charge(r.ok) => Counts
    BY ChargeIsCounted, WriteVerifiedOutcome
  <1>5. \A d, p : \A r \in RemoveFile(d, p) : Charge(r.ok) => Counts
    BY ChargeIsCounted, RemoveFileOutcome
  <1>6. \A d, p : \A r \in RemoveFileDurable(d, p) : Charge(r.ok) => Counts
    BY ChargeIsCounted, RemoveFileDurableOutcome
  <1>7. \A d, p, c : \A r \in WriteNew(d, p, c) : Charge(r.ok) => Counts
    BY ChargeIsCounted, WriteNewOutcome
  <1>8. CASE SaveStep
    <2>1. CASE WriteIntent
      BY <1>4, <2>1, Zenon DEF WriteIntent
    <2>2. CASE StageNew
      BY <1>1, <1>7, <2>2, Zenon DEF StageNew
    <2>3. CASE StageRewrite
      BY <1>4, <2>3, Zenon DEF StageRewrite
    <2>4. CASE WriteJournal
      BY <1>4, <2>4, Zenon DEF WriteJournal
    <2>5. CASE WritePrimary
      BY <1>4, <2>5, Zenon DEF WritePrimary
    <2>6. CASE WriteLastGood
      BY <1>4, <2>6, Zenon DEF WriteLastGood
    <2>7. CASE RemoveJournal
      BY <1>5, <2>7, Zenon DEF RemoveJournal
    <2>8. CASE Begin \/ StageDone \/ Preflight
      BY <1>1, <2>8 DEF Begin, StageDone, Preflight
    <2> QED BY <1>8, <2>1, <2>2, <2>3, <2>4, <2>5, <2>6, <2>7, <2>8 DEF SaveStep
  <1>9. CASE SettleStep
    <2>1. CASE Erase
      BY <1>1, <1>6, <2>1, Zenon DEF Erase
    <2>2. CASE ReplaceManaged
      BY <1>1, <1>4, <2>2 DEF ReplaceManaged
    <2>3. CASE RemoveStaged
      BY <1>6, <2>3, Zenon DEF RemoveStaged
    <2>4. CASE RollBack
      BY <1>1, <1>6, <2>4 DEF RollBack
    <2>5. CASE RemoveIntent
      BY <1>6, <2>5, Zenon DEF RemoveIntent
    <2>6. CASE VerifyStaged \/ Settled
      BY <1>1, <2>6 DEF VerifyStaged, Settled
    <2> QED BY <1>9, <2>1, <2>2, <2>3, <2>4, <2>5, <2>6 DEF SettleStep
  <1>10. CASE LoadStep
    <2>1. CASE FinishLastGood
      BY <1>4, <2>1, Zenon DEF FinishLastGood
    <2>2. CASE ClearJournal
      BY <1>5, <2>2, Zenon DEF ClearJournal
    <2>3. CASE RestorePrimary
      BY <1>1, <1>2, <1>3, <2>3 DEF RestorePrimary
    <2>4. CASE RecoverJournal \/ ReadPrimary \/ RecoverIntent
      BY <1>1, <2>4 DEF RecoverJournal, ReadPrimary, RecoverIntent
    <2> QED BY <1>10, <2>1, <2>2, <2>3, <2>4 DEF LoadStep
  <1>11. CASE Failure
    BY <1>2, <1>3, <1>11 DEF Failure, ReadFault, Kill, PowerLoss, Decay
  <1>12. CASE User \/ Return \/ UNCHANGED vars
    BY <1>1, <1>2, <1>3, <1>12
    DEF User, Open, Retry, Discard, Resolve, Quit, Commit, Return, vars
  <1> QED BY <1>8, <1>9, <1>10, <1>11, <1>12 DEF Next, Step

\* No count goes down.
LEMMA SpentGrows ==
    ASSUME TypeInv, [Next]_vars
    PROVE  \A k \in FailureKinds : spent[k] \in Nat /\ spent'[k] >= spent[k]
  <1>1. spent \in [FailureKinds -> Nat] /\ "restores" \in FailureKinds
    BY DEF TypeInv, TypeOK, FailureKinds
  <1>2. CASE UNCHANGED spent
    BY <1>1, <1>2
  <1>3. ASSUME NEW k \in FailureKinds, NEW b, Spend(k, b) \/ SpendRestore(k, b)
        PROVE  \A l \in FailureKinds : spent[l] \in Nat /\ spent'[l] >= spent[l]
    BY <1>1, <1>3 DEF Spend, SpendRestore
  <1> QED BY <1>2, <1>3, NextCounts DEF Counts

\* A disk that is trusted after a step was trusted before it.
LEMMA TrustedBefore ==
    ASSUME TypeInv, [Next]_vars, Trusted'
    PROVE  /\ Trusted /\ Readable /\ Slack = {} /\ ~ReadFault
           /\ \A f \in RootFiles : ~Decay(f)
           /\ ~Discard
  <1>1. \A k \in {"decays", "reads", "restores", "discards"} :
          spent[k] \in Nat /\ spent'[k] >= spent[k] /\ spent'[k] = 0
    BY SpentGrows DEF Trusted, PrimaryTrusted, FailureKinds
  <1>2. \A k \in {"decays", "reads", "restores", "discards"} : spent[k] = 0
    BY <1>1
  <1>3. ASSUME NEW k \in {"decays", "reads", "restores", "discards"}, NEW b
        PROVE  ~Spend(k, b)
    <2>1. spent \in [FailureKinds -> Nat] /\ k \in FailureKinds
      BY DEF TypeInv, TypeOK, FailureKinds
    <2> QED BY <1>1, <1>2, <2>1 DEF Spend
  <1>4. ~ReadFault /\ ~Discard
    BY <1>3 DEF ReadFault, Discard
  <1>5. \A f \in RootFiles : ~Decay(f)
    BY <1>3 DEF Decay
  <1> QED BY <1>2, <1>4, <1>5 DEF Trusted, PrimaryTrusted, Readable, Slack

-----------------------------------------------------------------------------
(* The library that is held is on the disk                                 *)

HoldingPcs == {"begin", "write_intent", "stage", "preflight", "write_journal"}

\* What loads from every image of a directory loads from fewer images.
LEMMA LoadsFewer ==
    ASSUME NEW d, NEW e, NEW b, LoadsAs(d, b), Shrinks(d, e) PROVE LoadsAs(e, b)
  <1>1. P(e) \subseteq P(d) /\ P(e) # {} /\ G(e) \subseteq G(d) /\ G(e) # {}
    BY DEF Shrinks, P, G, RootFiles, Unjournaled
  <1> QED BY <1>1 DEF LoadsAs

\* Neither an intent nor the journal decides what loads.
LEMMA LoadsBeside ==
    ASSUME NEW d, IsDirectory(d, RootType), NEW b, LoadsAs(d, b),
           NEW f \in Intents \cup {"journal"}, NEW c
    PROVE  LoadsAs(Put(d, f, c), b)
  <1>1. /\ f \in RootFiles /\ "primary" \in RootFiles \ {f}
        /\ "last_good" \in RootFiles \ {f}
    BY DEF RootFiles, Intents
  <1>2. Put(d, f, c)["primary"] = d["primary"] /\ Put(d, f, c)["last_good"] = d["last_good"]
    BY <1>1, PutFiles
  <1> QED BY <1>2 DEF LoadsAs, P, G

\* Up to the writing of the journal a commit leaves what loads alone.
LEMMA HoldingMidway ==
    ASSUME TypeInv, Holding, NEW b, LoadsAs(root, b), NEW d \in RootMidway
    PROVE  LoadsAs(d, b)
  <1>1. pc \in {"idle"} \cup HoldingPcs
    BY DEF Holding, HoldingPcs, TypeInv, Control
  <1>2. IsDirectory(root, RootType)
    BY DEF TypeInv, TypeOK
  <1>3. CASE pc = "write_intent"
    <2>1. work.kind \in Intents
      BY <1>3 DEF TypeInv, Control, Works
    <2>2. d = root \/ d = Put(root, work.kind, work.intent)
      BY <1>3 DEF RootMidway
    <2> QED BY <1>2, <2>1, <2>2, LoadsBeside
  <1>4. CASE pc = "write_journal"
    <2>1. d = root \/ \E c : d = Put(root, "journal", c)
      BY <1>4 DEF RootMidway
    <2> QED BY <1>2, <2>1, LoadsBeside
  <1>5. CASE pc \in {"idle", "begin", "stage", "preflight"}
    <2>1. d = root
      BY <1>5 DEF RootMidway
    <2> QED BY <2>1
  <1> QED BY <1>1, <1>3, <1>4, <1>5 DEF HoldingPcs

\* A step to a later part of a call, or out of one, does not begin to hold.
LEMMA NotHolding ==
    ASSUME TypeInv, pc # "idle",
           \/ \E l : Continue(l) /\ l \notin HoldingPcs
           \/ Fail \/ LoadFails
    PROVE  ~Holding'
  <1>1. call # "none"
    BY DEF TypeInv, Control
  <1>2. CASE \E l : Continue(l) /\ l \notin HoldingPcs
    BY <1>1, <1>2 DEF Continue, Holding, HoldingPcs
  <1>3. CASE Fail \/ LoadFails
    BY <1>3 DEF Fail, LoadFails, Leave, Holding
  <1> QED BY <1>2, <1>3

\* A call whose process is gone holds nothing.
LEMMA VanishedHolds ==
    ASSUME Vanish PROVE ~Holding'
  BY DistinctAssumption DEF Vanish, Leave, Holding

\* A step of a save keeps holding, or stops to hold.
LEMMA SaveHolds ==
    ASSUME TypeInv, SaveStep, Holding' PROVE Holding /\ UNCHANGED held
  <1>0. pc # "idle" /\ pc \in SavePcs
    BY DEF SaveStep, Begin, WriteIntent, StageNew, StageRewrite, StageDone, Preflight,
           WriteJournal, WritePrimary, WriteLastGood, RemoveJournal, SavePcs
  <1>1. held \in Libraries
    BY <1>0 DEF TypeInv, Control
  <1>2. UNCHANGED held /\ pc \in HoldingPcs => Holding
    BY <1>1 DEF Holding, HoldingPcs
  <1>3. \A l : Continue(l) \/ Fail => UNCHANGED held
    BY DEF Continue, Fail
  <1>4. CASE Begin
    <2>1. UNCHANGED held /\ pc \in HoldingPcs
      BY <1>3, <1>4 DEF Begin, HoldingPcs
    <2> QED BY <1>2, <2>1
  <1>5. CASE WriteIntent
    <2>1. UNCHANGED held /\ pc \in HoldingPcs
      BY <1>3, <1>5 DEF WriteIntent, HoldingPcs
    <2> QED BY <1>2, <2>1
  <1>6. CASE StageNew
    <2>1. UNCHANGED held
      BY <1>3, <1>6, Zenon DEF StageNew
    <2>2. pc \in HoldingPcs
      BY <1>6 DEF StageNew, HoldingPcs
    <2> QED BY <1>2, <2>1, <2>2
  <1>7. CASE StageRewrite
    <2>1. UNCHANGED held
      BY <1>3, <1>7, Zenon DEF StageRewrite
    <2>2. pc \in HoldingPcs
      BY <1>7 DEF StageRewrite, HoldingPcs
    <2> QED BY <1>2, <2>1, <2>2
  <1>8. CASE StageDone \/ Preflight
    <2>1. UNCHANGED held /\ pc \in HoldingPcs
      BY <1>3, <1>8 DEF StageDone, Preflight, HoldingPcs
    <2> QED BY <1>2, <2>1
  <1>9. CASE WriteJournal
    <2>1. Continue("write_primary") \/ Fail
      BY <1>9 DEF WriteJournal
    <2> QED BY <1>0, <2>1, NotHolding DEF HoldingPcs
  <1>10. CASE WritePrimary
    <2>1. Continue("write_last_good") \/ Fail
      BY <1>10 DEF WritePrimary
    <2> QED BY <1>0, <2>1, NotHolding DEF HoldingPcs
  <1>11. CASE WriteLastGood
    <2>1. Continue("remove_journal") \/ Continue("return")
      BY <1>11 DEF WriteLastGood
    <2> QED BY <1>0, <2>1, NotHolding DEF HoldingPcs
  <1>12. CASE RemoveJournal
    <2>1. Continue(AfterCommit) \/ Continue("return")
      BY <1>12 DEF RemoveJournal
    <2>2. AfterCommit \in {"return", "remove_intent", "settle"}
      BY DEF AfterCommit
    <2> QED BY <1>0, <2>1, <2>2, NotHolding DEF HoldingPcs
  <1> QED BY <1>4, <1>5, <1>6, <1>7, <1>8, <1>9, <1>10, <1>11, <1>12 DEF SaveStep

\* Settling and loading hold nothing.
LEMMA SettlingHoldsNot ==
    ASSUME TypeInv, SettleStep \/ LoadStep PROVE ~Holding'
  <1> DEFINE Off == {"settle", "rollback", "remove_intent", "return", "finish_last_good",
                     "clear_journal", "read_primary", "restore_primary", "recover_intent"}
  <1>0. \A l \in Off : l \notin HoldingPcs
    BY DEF HoldingPcs
  <1>1. \A b : \A l \in Off : Noting(b, l) => \E m \in Off : Continue(m)
    BY Zenon DEF Noting
  <1>2. \A s, f : Loaded(s, f) => \E m \in Off : Continue(m)
    BY DEF Loaded
  <1>3. pc # "idle" /\ ((\E m \in Off : Continue(m)) \/ LoadFails) => ~Holding'
    BY <1>0, NotHolding
  <1>4. CASE Erase
    <2>1. \E m \in Off : Continue(m)
      BY <1>1, <1>4 DEF Erase
    <2> QED BY <1>3, <1>4, <2>1 DEF Erase
  <1>5. CASE ReplaceManaged
    <2>1. \E m \in Off : Continue(m)
      BY <1>1, <1>5 DEF ReplaceManaged
    <2> QED BY <1>3, <1>5, <2>1 DEF ReplaceManaged
  <1>6. CASE RemoveStaged
    <2>1. \E m \in Off : Continue(m)
      BY <1>1, <1>6 DEF RemoveStaged
    <2> QED BY <1>3, <1>6, <2>1 DEF RemoveStaged
  <1>7. CASE VerifyStaged \/ Settled
    <2>1. \E m \in Off : Continue(m)
      BY <1>1, <1>7 DEF VerifyStaged, Settled
    <2> QED BY <1>3, <1>7, <2>1 DEF VerifyStaged, Settled
  <1>8. CASE RollBack
    <2>1. \E m \in Off : Continue(m)
      BY <1>1, <1>8 DEF RollBack
    <2> QED BY <1>3, <1>8, <2>1 DEF RollBack
  <1>9. CASE RemoveIntent
    <2>1. \E m \in Off : Continue(m)
      BY <1>1, <1>9 DEF RemoveIntent
    <2> QED BY <1>3, <1>9, <2>1 DEF RemoveIntent
  <1>10. CASE RecoverJournal
    <2>1. (\E m \in Off : Continue(m)) \/ LoadFails
      BY <1>10 DEF RecoverJournal
    <2> QED BY <1>3, <1>10, <2>1 DEF RecoverJournal
  <1>11. CASE FinishLastGood \/ ClearJournal
    <2>1. \E m \in Off : Continue(m)
      BY <1>1, <1>11 DEF FinishLastGood, ClearJournal
    <2> QED BY <1>3, <1>11, <2>1 DEF FinishLastGood, ClearJournal
  <1>12. CASE ReadPrimary
    <2>1. (\E m \in Off : Continue(m)) \/ LoadFails
      BY <1>2, <1>12 DEF ReadPrimary
    <2> QED BY <1>3, <1>12, <2>1 DEF ReadPrimary
  <1>13. CASE RestorePrimary
    <2>1. (\E m \in Off : Continue(m)) \/ LoadFails
      BY <1>2, <1>13 DEF RestorePrimary
    <2> QED BY <1>3, <1>13, <2>1 DEF RestorePrimary
  <1>14. CASE RecoverIntent
    <2>1. \E m \in Off : Continue(m)
      BY <1>1, <1>14 DEF RecoverIntent
    <2> QED BY <1>3, <1>14, <2>1 DEF RecoverIntent
  <1> QED BY <1>4, <1>5, <1>6, <1>7, <1>8, <1>9, <1>10, <1>11, <1>12, <1>13, <1>14
          DEF SettleStep, LoadStep

\* A library that is held was held before the step, or has just been reported.
LEMMA HeldBefore ==
    ASSUME TypeInv, [Next]_vars, Trusted', Holding'
    PROVE  \/ Holding /\ UNCHANGED held
           \/ pc = "return" /\ held' = lib /\ ~lib.blocked /\ UNCHANGED root
  <1>1. CASE SaveStep
    BY <1>1, SaveHolds
  <1>2. CASE SettleStep \/ LoadStep
    BY <1>2, SettlingHoldsNot
  <1>3. CASE Return
    <2>1. pc = "return" /\ held' = lib /\ UNCHANGED root
      BY <1>3 DEF Return, Accept, Report
    <2> QED BY <2>1 DEF Holding
  <1>4. CASE User
    <2>1. CASE Open \/ Retry
      <3>1. call' # "none" /\ pc' = "recover_journal"
        BY <2>1 DEF Open, Retry
      <3> QED BY <3>1 DEF Holding
    <2>2. CASE Quit
      BY <2>2, VanishedHolds DEF Quit
    <2>3. CASE Resolve
      BY <2>3 DEF Resolve, Holding
    <2>4. CASE \E op, c : Commit(op, c)
      BY <2>4 DEF Commit, Holding
    <2> QED BY <1>4, <2>1, <2>2, <2>3, <2>4, TrustedBefore DEF User
  <1>5. CASE Kill \/ PowerLoss
    BY <1>5, VanishedHolds DEF Kill, PowerLoss
  <1>6. CASE UNCHANGED vars
    BY <1>6 DEF vars, Holding
  <1> QED BY <1>1, <1>2, <1>3, <1>4, <1>5, <1>6, TrustedBefore DEF Next, Step, Failure

\* A library reported without pending maintenance is what the disk loads as.
LEMMA ReportedIsOnDisk ==
    ASSUME TypeInv, Known, Slack = {}, pc = "return", ~lib.blocked
    PROVE  LoadsAs(root, lib.baseline)
  <1>1. /\ root["primary"].now \in P(root) /\ root["last_good"].now \in G(root)
        /\ root["journal"].now \in J(root) /\ Disk(root, settled, Slack)
    BY KnownFacts
  <1>2. CASE call = "commit"
    <2>1. job \in Jobs
      BY <1>2 DEF TypeInv, Control
    <2>2. job.candidate # NoFile
      BY <2>1, KnownFacts, SnapshotFacts
    <2> QED BY <1>2, <2>2 DEF Known, SaveKnows, EndPcs, LoadsAs
  <1>3. CASE call # "commit"
    <2>1. /\ lib.baseline = root["primary"].now /\ root["journal"].now = NoFile
          /\ lib.baseline = NoFile => root["last_good"].now = NoFile
      BY <1>3 DEF Known, LoadKnows, EndPcs
    <2>2. P(root) = {root["primary"].now}
      BY <1>1, <2>1 DEF Disk, JournalBrackets
    <2>3. root["primary"].now = NoFile => G(root) = {root["last_good"].now}
      BY <1>1 DEF Disk, PrimaryNewest
    <2> QED BY <2>1, <2>2, <2>3 DEF LoadsAs
  <1> QED BY <1>2, <1>3

\* What the worker holds stays what the disk has.
LEMMA HeldStaysOnDisk ==
    ASSUME TypeInv, Recoverable, Settling, [Next]_vars, Trusted'
    PROVE  HeldIsOnDisk'
  <1>1. /\ Trusted /\ Readable /\ Slack = {} /\ ~ \E f \in RootFiles : Decay(f)
        /\ Known /\ HeldIsOnDisk
    BY TrustedBefore DEF Recoverable, Settling
  <1> SUFFICES ASSUME Holding' PROVE LoadsAs(root', held'.baseline)
    BY DEF HeldIsOnDisk
  <1>2. CASE Holding /\ UNCHANGED held
    <2>1. LoadsAs(root, held.baseline)
      BY <1>1, <1>2 DEF HeldIsOnDisk
    <2>2. PICK d \in RootMidway : Moves(d)
      BY <1>1, NextMoves
    <2>3. LoadsAs(d, held.baseline)
      BY <1>2, <2>1, HoldingMidway
    <2> QED BY <1>2, <2>2, <2>3, LoadsFewer DEF Moves
  <1>3. CASE pc = "return" /\ held' = lib /\ ~lib.blocked /\ UNCHANGED root
    BY <1>1, <1>3, ReportedIsOnDisk
  <1> QED BY <1>2, <1>3, HeldBefore

-----------------------------------------------------------------------------
(* Every intent has authority over the disk                                *)

\* Authority is kept where no intent gains an image and nothing new is found.
LEMMA AuthorityKept ==
    ASSUME NEW d, NEW e, Authority(d), Findable(e) \subseteq Findable(d),
           NoFile \in P(e) => NoFile \in P(d),
           \A k \in Intents : Images(e[k]) \subseteq Images(d[k]) \cup {NoFile}
    PROVE  Authority(e)
  BY DEF Authority

\* So it is where images go.
LEMMA AuthorityShrinks ==
    ASSUME NEW d, NEW e, Authority(d), Shrinks(d, e) PROVE Authority(e)
  <1>1. P(e) \subseteq P(d) /\ G(e) \subseteq G(d)
    BY DEF Shrinks, P, G, RootFiles, Unjournaled
  <1>2. \A k \in Intents : Images(e[k]) \subseteq Images(d[k])
    BY DEF Shrinks, RootFiles, Intents, Unjournaled
  <1> QED BY <1>1, <1>2, AuthorityKept DEF Findable

\* A snapshot that loads from every image is all there is to be found.
LEMMA FindableHeld ==
    ASSUME NEW d, NEW b, LoadsAs(d, b) PROVE Findable(d) = {b} \ {NoFile}
  BY DEF LoadsAs, Findable

\* Half an operation leaves every intent its authority.
LEMMA MidwayAuthority ==
    ASSUME TypeInv, Known, Slack = {}, HeldIsOnDisk, Authority(root), OwnIntentOnly,
           NEW d \in RootMidway
    PROVE  Authority(d)
  <1>0. IsDirectory(root, RootType)
    BY DEF TypeInv, TypeOK
  <1>a. \A f \in {"primary", "last_good", "journal"} : f \in RootFiles /\ f \notin Intents
    BY DEF RootFiles, Intents
  <1>b. Intents \subseteq RootFiles
    BY DEF RootFiles
  <1>1. CASE d = root
    BY <1>1
  <1>2. CASE pc = "write_intent" /\ d = Put(root, work.kind, work.intent)
    <2>1. /\ held \in Libraries /\ work.kind \in Intents /\ work.intent \in IntentRecords
          /\ work.intent = Own /\ ~held.blocked
      BY <1>2 DEF TypeInv, Control, SavePcs, OwnIntentOnly, Works
    <2>2. LoadsAs(root, held.baseline)
      BY <1>2, <2>1 DEF HeldIsOnDisk, Holding
    <2>3. LoadsAs(d, held.baseline)
      BY <1>0, <1>2, <2>1, <2>2, LoadsBeside
    <2>4. Decoded(held)
      BY <2>1 DEF Known, HeldKnows
    <2>p. P(d) = P(root) /\ (NoFile \in P(d) => Own.base = DefaultSnapshot)
      BY <2>2, <2>3, <2>4 DEF Decoded, Own, LoadsAs
    <2>5. Findable(d) \subseteq {Own.base, Own.candidate} /\ Findable(d) = Findable(root)
      BY <2>2, <2>3, <2>4, FindableHeld DEF Decoded, Own
    <2>6. work.kind \in RootFiles
      BY <1>b, <2>1
    <2>7. /\ Images(d[work.kind]) \subseteq Images(root[work.kind]) \cup {work.intent}
          /\ \A k \in RootFiles \ {work.kind} : d[k] = root[k]
      <3>1. ASSUME NEW f \in RootFiles, NEW c
            PROVE  /\ Images(Put(root, f, c)[f]) \subseteq Images(root[f]) \cup {c}
                   /\ \A k \in RootFiles \ {f} : Put(root, f, c)[k] = root[k]
        BY <1>0, PutFiles
      <3> QED BY <1>2, <2>6, <3>1
    <2> QED BY <1>b, <2>1, <2>p, <2>5, <2>7 DEF Authority
  <1>3. CASE pc = "write_journal"
    <2>1. PICK c : d = root \/ d = Put(root, "journal", c)
      BY <1>3 DEF RootMidway
    <2>2. \A f \in Unjournaled : d[f] = root[f]
      BY <1>0, <1>a, <2>1, PutFiles DEF Unjournaled
    <2>3. Shrinks(root, d)
      BY <2>2 DEF Shrinks, Images
    <2> QED BY <2>3, AuthorityShrinks
  <1>4. CASE pc = "write_primary" /\ d = Put(root, "primary", job.candidate)
    <2> DEFINE c == job.candidate
    <2>1. held \in Libraries /\ job \in Jobs
      BY <1>4 DEF TypeInv, Control, SavePcs
    <2>2. /\ held.snapshot \in Snapshots /\ c \in Snapshots /\ c # NoFile
          /\ Decoded(held) /\ J(root) = {Written} /\ Written # NoFile
          /\ Written.expected = held.baseline /\ Written.candidate = c
      BY <1>4, <2>1, KnownFacts, SnapshotFacts, WrittenFacts DEF Known, HeldKnows, SaveKnows
    <2>3. /\ P(root) \subseteq {held.baseline, c}
          /\ held.baseline = NoFile => G(root) \subseteq {NoFile, c}
      BY <2>2, KnownFacts DEF Disk, JournalBrackets
    <2>4. /\ P(d) \subseteq P(root) \cup {c} /\ G(d) = G(root)
          /\ \A k \in Intents : d[k] = root[k]
      BY <1>0, <1>4, <1>a, <1>b, PutFiles DEF P, G
    <2>5. /\ Findable(d) \subseteq {held.snapshot, c}
          /\ NoFile \in P(d) => held.snapshot = DefaultSnapshot
      BY <2>2, <2>3, <2>4 DEF Findable, Decoded
    <2>6. Own \in IntentRecords /\ Own.base = held.snapshot /\ Own.candidate = c
      BY <2>2 DEF Own, IntentRecords
    <2>7. \A k \in Intents : Images(d[k]) \subseteq {NoFile, Own}
      BY <1>4, <2>4 DEF OwnIntentOnly
    <2> QED BY <2>5, <2>6, <2>7 DEF Authority
  <1>5. CASE pc = "write_last_good" /\ d = Put(root, "last_good", job.candidate)
    <2>1. job \in Jobs
      BY <1>5 DEF TypeInv, Control, SavePcs
    <2>2. P(root) = {job.candidate} /\ job.candidate # NoFile
      BY <1>5, <2>1, KnownFacts, SnapshotFacts DEF Known, SaveKnows
    <2>3. P(d) = P(root) /\ \A k \in Intents : d[k] = root[k]
      BY <1>0, <1>5, <1>a, <1>b, PutFiles DEF P
    <2>4. Findable(d) = Findable(root)
      BY <2>2, <2>3 DEF Findable
    <2> QED BY <2>3, <2>4, AuthorityKept
  <1>6. CASE pc = "finish_last_good" /\ d = Put(root, "last_good", root["journal"].now.candidate)
    <2> DEFINE c == root["journal"].now.candidate
    <2>1. root["primary"].now = c /\ c \in P(root)
      BY <1>6, KnownFacts DEF Known, LoadKnows
    <2>2. /\ P(d) = P(root) /\ G(d) \subseteq G(root) \cup {c}
          /\ \A k \in Intents : d[k] = root[k]
      BY <1>0, <1>6, <1>a, <1>b, PutFiles DEF P, G
    <2>3. Findable(d) \subseteq Findable(root)
      BY <2>1, <2>2 DEF Findable
    <2> QED BY <2>2, <2>3, AuthorityKept
  <1>7. CASE pc = "restore_primary" /\ d = Put(root, "primary", root["last_good"].now)
    <2> DEFINE g == root["last_good"].now
    <2>1. NoFile \in P(root) /\ g \in G(root)
      BY <1>7, KnownFacts DEF Known, LoadKnows
    <2>2. /\ P(d) \subseteq P(root) \cup {g} /\ G(d) = G(root)
          /\ \A k \in Intents : d[k] = root[k]
      BY <1>0, <1>7, <1>a, <1>b, PutFiles DEF P, G
    <2>3. Findable(d) \subseteq Findable(root)
      BY <2>1, <2>2 DEF Findable
    <2> QED BY <2>1, <2>2, <2>3, AuthorityKept
  <1>8. CASE pc = "remove_intent" /\ d = Put(root, work.kind, NoFile)
    <2>1. work.kind \in Intents
      BY <1>8 DEF TypeInv, Control, EndPcs, Works
    <2>0. work.kind \in RootFiles
      BY <1>b, <2>1
    <2>2. /\ Images(d[work.kind]) \subseteq Images(root[work.kind]) \cup {NoFile}
          /\ \A k \in RootFiles \ {work.kind} : d[k] = root[k]
      <3>1. ASSUME NEW f \in RootFiles, NEW c
            PROVE  /\ Images(Put(root, f, c)[f]) \subseteq Images(root[f]) \cup {c}
                   /\ \A k \in RootFiles \ {f} : Put(root, f, c)[k] = root[k]
        BY <1>0, PutFiles
      <3> QED BY <1>8, <2>0, <3>1
    <2>3. P(d) = P(root) /\ G(d) = G(root)
      BY <1>a, <2>1, <2>2 DEF P, G
    <2> QED BY <1>b, <2>2, <2>3, AuthorityKept DEF Findable
  <1> QED BY <1>1, <1>2, <1>3, <1>4, <1>5, <1>6, <1>7, <1>8 DEF RootMidway

\* Every step leaves every intent its authority.
LEMMA AuthorityStays ==
    ASSUME TypeInv, Recoverable, Settling, [Next]_vars, Trusted'
    PROVE  Authority(root')
  <1>1. /\ Trusted /\ Readable /\ Slack = {} /\ ~ \E f \in RootFiles : Decay(f)
        /\ Known /\ HeldIsOnDisk /\ Authority(root) /\ OwnIntentOnly
    BY TrustedBefore DEF Recoverable, Settling
  <1>2. PICK d \in RootMidway : Moves(d)
    BY <1>1, NextMoves
  <1>3. Authority(d)
    BY <1>1, MidwayAuthority
  <1> QED BY <1>2, <1>3, AuthorityShrinks DEF Moves

-----------------------------------------------------------------------------
(* A commit has no other intent beside its own                             *)

\* Half an operation on the root, as the intents see it: only one of them
\* comes, and only where a commit writes its own.
LEMMA MidwayIntents ==
    ASSUME TypeInv, NEW d \in RootMidway, NEW k \in Intents
    PROVE  IF pc = "write_intent" /\ k = work.kind
           THEN d[k].now \in {root[k].now, work.intent}
           ELSE /\ d[k].now \in {root[k].now, NoFile}
                /\ Images(d[k]) \subseteq Images(root[k]) \cup {NoFile}
  <1>0. IsDirectory(root, RootType) /\ k \in RootFiles
    BY DEF TypeInv, TypeOK, RootFiles
  <1>1. ASSUME NEW f \in {"primary", "last_good", "journal"}, NEW c, d = Put(root, f, c)
        PROVE  d[k] = root[k]
    <2>1. f \in RootFiles /\ f # k
      BY DEF RootFiles, Intents
    <2> QED BY <1>0, <1>1, <2>1, PutFiles
  <1>2. CASE pc = "write_intent"
    <2>1. work.kind \in RootFiles
      BY <1>2 DEF TypeInv, Control, Works, RootFiles
    <2>2. d = root \/ d = Put(root, work.kind, work.intent)
      BY <1>2 DEF RootMidway
    <2> QED BY <1>0, <1>2, <2>1, <2>2, PutFiles
  <1>3. CASE pc = "remove_intent"
    <2>1. work.kind \in RootFiles
      BY <1>3 DEF TypeInv, Control, Works, RootFiles, EndPcs
    <2>2. d = root \/ d = Put(root, work.kind, NoFile)
      BY <1>3 DEF RootMidway
    <2> QED BY <1>0, <1>3, <2>1, <2>2, PutFiles
  <1>4. CASE pc \notin {"write_intent", "remove_intent"}
    <2>1. d = root \/ \E f \in {"primary", "last_good", "journal"} : \E c : d = Put(root, f, c)
      BY <1>4 DEF RootMidway
    <2>2. d[k] = root[k]
      BY <1>1, <2>1
    <2> QED BY <1>4, <2>2
  <1> QED BY <1>2, <1>3, <1>4

\* Begin refuses to go on beside an intent, and names its own.
LEMMA BeginOwns ==
    ASSUME TypeInv, OwnIntentOnly, Begin PROVE OwnIntentOnly'
  <1>1. UNCHANGED <<root, held, job>> /\ held \in Libraries /\ job \in Jobs
    BY DEF Begin, Fail, Continue, TypeInv, Control, SavePcs
  <1>2. CASE Fail
    BY <1>2 DEF Fail, Leave, OwnIntentOnly
  <1>3. CASE ~Refused /\ Continue("preflight")
    BY <1>1, <1>3 DEF Refused, Continue, OwnIntentOnly
  <1>4. CASE /\ ~Refused /\ Continue("write_intent")
             /\ work' = [kind |-> job.op, intent |-> Own, todo |-> Entries(Own)]
    <2>1. Present' = {} /\ work'.intent = Own' /\ ~held'.blocked /\ pc' = "write_intent"
      BY <1>1, <1>4 DEF Refused, Continue, Present, Own
    <2> QED BY <2>1 DEF OwnIntentOnly
  <1> QED BY <1>2, <1>3, <1>4 DEF Begin, Own

\* After a commit's intent is written every intent is that one.
LEMMA WriteIntentOwns ==
    ASSUME TypeInv, OwnIntentOnly, WriteIntent PROVE OwnIntentOnly'
  <1>1. PICK r \in WriteVerified(root, work.kind, work.intent) :
          /\ root' = r.dir
          /\ \/ Continue("stage") \/ Continue("preflight")
             \/ Fail
    BY DEF WriteIntent
  <1>2. CASE Fail
    BY <1>2 DEF Fail, Leave, OwnIntentOnly
  <1>3. CASE Continue("stage") \/ Continue("preflight")
    <2>1. /\ pc = "write_intent" /\ work.kind \in Intents /\ work.intent \in IntentRecords
          /\ IsDirectory(root, RootType)
      BY DEF WriteIntent, TypeInv, TypeOK, Control, Works
    <2>2. work.kind \in RootFiles /\ work.intent \in RootType[work.kind]
          /\ Intents \subseteq RootFiles
      BY <2>1, RootDomain DEF RootFiles
    <2>3. PICK e \in {root, Put(root, work.kind, work.intent)} :
            \A q \in RootFiles : r.dir[q].now = e[q].now
      BY <2>1, <2>2, VerifiedMoves
    <2>4. \A k \in Intents : e[k].now \in {root[k].now, work.intent}
      BY <2>1, <2>2, PutFiles
    <2>5. /\ \A k \in Intents : root[k].now = NoFile
          /\ work.intent = Own /\ ~held.blocked
      BY <2>1 DEF OwnIntentOnly, Present
    <2>6. UNCHANGED <<held, job>> /\ pc' \in {"stage", "preflight"}
      BY <1>3 DEF Continue
    <2>7. \A k \in Intents : root'[k].now \in {NoFile, Own}
      BY <1>1, <2>2, <2>3, <2>4, <2>5
    <2>8. Own' = Own
      BY <2>6 DEF Own
    <2> QED BY <2>5, <2>6, <2>7, <2>8 DEF OwnIntentOnly
  <1> QED BY <1>1, <1>2, <1>3

\* Staging and the preflight leave the intents.
LEMMA StageOwns ==
    ASSUME TypeInv, OwnIntentOnly, StageNew \/ StageRewrite \/ StageDone \/ Preflight
    PROVE  OwnIntentOnly'
  <1>1. pc \in {"stage", "preflight"} /\ UNCHANGED root
    BY DEF StageNew, StageRewrite, StageDone, Preflight
  <1>2. (\E l \in {"stage", "preflight", "write_journal"} : Continue(l)) \/ Fail
    <2>1. CASE StageNew
      BY <2>1 DEF StageNew
    <2>2. CASE StageRewrite
      BY <2>2 DEF StageRewrite
    <2>3. CASE StageDone \/ Preflight
      BY <2>3 DEF StageDone, Preflight
    <2> QED BY <2>1, <2>2, <2>3
  <1>3. CASE Fail
    BY <1>3 DEF Fail, Leave, OwnIntentOnly
  <1>4. CASE \E l \in {"stage", "preflight", "write_journal"} : Continue(l)
    <2>1. UNCHANGED <<held, job>> /\ pc' \in {"stage", "preflight", "write_journal"}
      BY <1>4 DEF Continue
    <2>2. Own' = Own
      BY <2>1 DEF Own
    <2> QED BY <1>1, <2>1, <2>2 DEF OwnIntentOnly
  <1> QED BY <1>2, <1>3, <1>4

\* The sync of the journal leaves every intent its visible content only.
LEMMA WriteJournalOwns ==
    ASSUME TypeInv, OwnIntentOnly, WriteJournal PROVE OwnIntentOnly'
  <1>1. PICK r \in WriteVerified(root, "journal", Written) :
          \/ r.ok /\ root' = r.dir /\ Continue("write_primary")
          \/ Fail
    BY DEF WriteJournal, Written
  <1>2. CASE Fail
    BY <1>2 DEF Fail, Leave, OwnIntentOnly
  <1>3. CASE r.ok /\ root' = r.dir /\ Continue("write_primary")
    <2>1. /\ pc = "write_journal" /\ held \in Libraries /\ job \in Jobs
          /\ IsDirectory(root, RootType)
      BY DEF WriteJournal, TypeInv, TypeOK, Control, SavePcs
    <2>2. /\ "journal" \in RootFiles /\ Written \in RootType["journal"]
          /\ Intents \subseteq Unjournaled
      BY <2>1, RootDomain DEF RootFiles, Intents, Written, Journals, Libraries, Jobs, Unjournaled
    <2>3. PICK e \in {root, Put(root, "journal", Written)} :
            \A q \in RootFiles : r.dir[q].now = e[q].now
      BY <2>1, <2>2, VerifiedMoves
    <2>4. \A q \in RootFiles : Images(r.dir[q]) = {r.dir[q].now}
      BY <1>3, <2>1, <2>2, VerifiedMoves
    <2>5. \A k \in Intents : e[k] = root[k]
      BY <2>1, <2>2, PutFiles DEF Unjournaled
    <2>6. \A k \in Intents : root[k].now \in {NoFile, Own}
      BY <2>1 DEF OwnIntentOnly
    <2>7. UNCHANGED <<held, job>> /\ pc' = "write_primary"
      BY <1>3 DEF Continue
    <2>8. Own' = Own
      BY <2>7 DEF Own
    <2>9. \A k \in Intents : Images(root'[k]) \subseteq {NoFile, Own}
      BY <1>3, <2>2, <2>3, <2>4, <2>5, <2>6 DEF Unjournaled
    <2> QED BY <2>7, <2>8, <2>9 DEF OwnIntentOnly
  <1> QED BY <1>1, <1>2, <1>3

OwnPcs == {"write_intent", "stage", "preflight", "write_journal", "write_primary"}

\* The other steps enter none of these.
LEMMA OwnsElsewhere ==
    ASSUME pc' \notin OwnPcs PROVE OwnIntentOnly'
  BY DEF OwnIntentOnly, OwnPcs

\* A commit begins beside no intent, and makes its own the only one.
LEMMA OwnIntentStays ==
    ASSUME TypeInv, OwnIntentOnly, [Next]_vars PROVE OwnIntentOnly'
  <1>1. CASE SaveStep
    <2>1. CASE WritePrimary
      <3>1. pc' \in {"idle", "write_last_good"}
        BY <2>1 DEF WritePrimary, Fail, Leave, Continue
      <3> QED BY <3>1, OwnsElsewhere DEF OwnPcs
    <2>2. CASE WriteLastGood
      <3>1. pc' \in {"remove_journal", "return"}
        BY <2>2 DEF WriteLastGood, Continue
      <3> QED BY <3>1, OwnsElsewhere DEF OwnPcs
    <2>3. CASE RemoveJournal
      <3>1. pc' \in {AfterCommit, "return"}
        BY <2>3 DEF RemoveJournal, Continue
      <3>2. AfterCommit \in {"return", "remove_intent", "settle"}
        BY DEF AfterCommit
      <3> QED BY <3>1, <3>2, OwnsElsewhere DEF OwnPcs
    <2> QED BY <1>1, <2>1, <2>2, <2>3, BeginOwns, WriteIntentOwns, StageOwns,
               WriteJournalOwns DEF SaveStep
  <1>2. CASE SettleStep
    <2>1. \A l : Continue(l) => pc' = l
      BY DEF Continue
    <2>2. \A b, l : Noting(b, l) => pc' = l
      BY DEF Noting, Continue
    <2>3. pc' \in {"settle", "rollback", "remove_intent", "return"}
      <3>1. CASE Erase
        BY <2>1, <2>2, <3>1 DEF Erase
      <3>2. CASE ReplaceManaged
        BY <2>1, <2>2, <3>2 DEF ReplaceManaged
      <3>3. CASE RemoveStaged
        BY <2>1, <2>2, <3>3 DEF RemoveStaged
      <3>4. CASE VerifyStaged \/ Settled
        BY <2>1, <2>2, <3>4 DEF VerifyStaged, Settled
      <3>5. CASE RollBack
        BY <2>1, <2>2, <3>5 DEF RollBack
      <3>6. CASE RemoveIntent
        BY <2>1, <2>2, <3>6 DEF RemoveIntent
      <3> QED BY <1>2, <3>1, <3>2, <3>3, <3>4, <3>5, <3>6 DEF SettleStep
    <2> QED BY <2>3, OwnsElsewhere DEF OwnPcs
  <1>3. CASE LoadStep
    <2>1. CASE RecoverJournal
      <3>1. pc' \in {"read_primary", "finish_last_good", "clear_journal", "idle"}
        BY <2>1 DEF RecoverJournal, Continue, LoadFails, Leave
      <3> QED BY <3>1, OwnsElsewhere DEF OwnPcs
    <2>2. CASE FinishLastGood \/ ClearJournal
      <3>1. pc' \in {"read_primary", "clear_journal"}
        BY <2>2 DEF FinishLastGood, ClearJournal, Noting, Continue
      <3> QED BY <3>1, OwnsElsewhere DEF OwnPcs
    <2>3. CASE ReadPrimary
      <3>1. pc' \in {"recover_intent", "restore_primary", "idle"}
        BY <2>3 DEF ReadPrimary, Loaded, Continue, LoadFails, Leave
      <3> QED BY <3>1, OwnsElsewhere DEF OwnPcs
    <2>4. CASE RestorePrimary
      <3>1. pc' \in {"recover_intent", "idle"}
        BY <2>4 DEF RestorePrimary, Loaded, Continue, LoadFails, Leave
      <3> QED BY <3>1, OwnsElsewhere DEF OwnPcs
    <2>5. CASE RecoverIntent
      <3>1. pc' \in {"return", "rollback", "settle"}
        BY <2>5 DEF RecoverIntent, Noting, Continue
      <3> QED BY <3>1, OwnsElsewhere DEF OwnPcs
    <2> QED BY <1>3, <2>1, <2>2, <2>3, <2>4, <2>5 DEF LoadStep
  <1>4. CASE Return
    <2>1. pc' \in {"idle", "begin"}
      BY <1>4 DEF Return, Accept, Leave
    <2> QED BY <2>1, OwnsElsewhere DEF OwnPcs
  <1>5. CASE User
    <2>1. pc' \in {"idle", "begin", "recover_journal"}
      BY <1>5 DEF User, Open, Retry, Discard, Resolve, Quit, Vanish, Leave, Commit,
                  TypeInv, Control
    <2> QED BY <2>1, OwnsElsewhere DEF OwnPcs
  <1>6. CASE Failure
    <2>1. CASE ReadFault
      <3>1. pc' \in {"idle", "restore_primary", "return"}
        BY <2>1 DEF ReadFault, Fail, LoadFails, Leave, Noting, Continue
      <3> QED BY <3>1, OwnsElsewhere DEF OwnPcs
    <2>2. CASE Kill \/ PowerLoss \/ \E f \in RootFiles : Decay(f)
      <3>1. pc' = "idle"
        BY <2>2 DEF Kill, PowerLoss, Vanish, Leave, Decay, TypeInv, Control
      <3> QED BY <3>1, OwnsElsewhere DEF OwnPcs
    <2> QED BY <1>6, <2>1, <2>2 DEF Failure
  <1>7. CASE UNCHANGED vars
    <2>1. UNCHANGED <<root, held, job, pc, work>>
      BY <1>7 DEF vars
    <2>2. Own' = Own /\ Present' = Present
      BY <2>1 DEF Own, Present
    <2> QED BY <2>1, <2>2 DEF OwnIntentOnly
  <1> QED BY <1>1, <1>2, <1>3, <1>4, <1>5, <1>6, <1>7 DEF Next, Step

-----------------------------------------------------------------------------
(* There is one intent at a time                                           *)

\* Where no operation fails and no process is killed no intent stays unsynced.
LEMMA IntentsSynced ==
    ASSUME TypeInv, OneIntent, [Next]_vars, spent'["faults"] = 0, spent'["kills"] = 0
    PROVE  \A k \in Intents : Images(root'[k]) = {root'[k].now}
  <1>1. spent["faults"] = 0 /\ spent["kills"] = 0
    <2>1. \A k \in {"faults", "kills"} : spent[k] \in Nat /\ spent'[k] >= spent[k]
      BY SpentGrows DEF FailureKinds
    <2> QED BY <2>1
  <1>2. \A k \in Intents : Images(root[k]) = {root[k].now}
    BY <1>1 DEF OneIntent
  <1>3. ASSUME NEW f \in RootFiles, Decay(f), NEW k \in Intents
        PROVE  Images(root'[k]) = {root'[k].now}
    <2>1. DOMAIN root = RootFiles /\ Intents \subseteq RootFiles
      BY RootDomain DEF TypeInv, TypeOK, IsDirectory, RootFiles
    <2>2. root'[k] = root[k] \/ root'[k] = [now |-> Corrupt, may |-> {Corrupt}]
      BY <1>3, <2>1 DEF Decay
    <2> QED BY <1>2, <2>2 DEF Images
  <1>4. ASSUME ~ \E f \in RootFiles : Decay(f)
        PROVE  \A k \in Intents : Images(root'[k]) = {root'[k].now}
    <2>1. Intents \subseteq Unjournaled
      BY DEF Unjournaled, RootFiles, Intents
    <2> QED BY <1>2, <1>4, <2>1, NextMoves DEF Moves
  <1> QED BY <1>3, <1>4

\* A decayed intent was there before.
LEMMA DecayPresent ==
    ASSUME TypeInv, NEW f \in RootFiles, Decay(f) PROVE Present' = Present
  <1>1. DOMAIN root = RootFiles /\ Intents \subseteq RootFiles
    BY RootDomain DEF TypeInv, TypeOK, IsDirectory, RootFiles
  <1>2. root[f].now # NoFile
    BY DEF Decay
  <1>3. \A k \in Intents : root'[k] = root[k] \/ (k = f /\ root'[k].now = Corrupt)
    BY <1>1 DEF Decay
  <1>4. Corrupt # NoFile
    BY DistinctAssumption
  <1> QED BY <1>2, <1>3, <1>4 DEF Present

\* No step brings a second intent, short of a power loss that brings back one
\* whose removal was not synced.
LEMMA OneIntentStays ==
    ASSUME TypeInv, OwnIntentOnly, OneIntent, [Next]_vars PROVE OneIntent'
  <1>0. /\ spent["faults"] \in Nat /\ spent'["faults"] >= spent["faults"]
        /\ spent["kills"] \in Nat /\ spent'["kills"] >= spent["kills"]
        /\ spent["losses"] \in Nat /\ spent'["losses"] >= spent["losses"]
    BY SpentGrows DEF FailureKinds
  <1>1. spent'["faults"] = 0 /\ spent'["kills"] = 0 =>
          \A k \in Intents : Images(root'[k]) = {root'[k].now}
    BY IntentsSynced
  <1>2. ASSUME OneKindOfFailure' PROVE OneKindOfFailure
    BY <1>0, <1>2 DEF OneKindOfFailure
  <1>3. ASSUME OneKindOfFailure', NEW k \in Present', NEW l \in Present' PROVE k = l
    <2>1. \A x \in Present, y \in Present : x = y
      BY <1>2, <1>3 DEF OneIntent
    <2>2. CASE \E f \in RootFiles : Decay(f)
      BY <1>3, <2>1, <2>2, DecayPresent
    <2>3. CASE ~ \E f \in RootFiles : Decay(f)
      <3>1. PICK d \in RootMidway : Moves(d)
        BY <2>3, NextMoves
      <3>2. \A x \in Intents : root'[x].now = d[x].now \/ root'[x].now \in Images(d[x])
        BY <3>1 DEF Moves, Shrinks, RootFiles, Intents, Unjournaled
      <3>3. PowerLoss => \A x \in Intents : Images(root[x]) = {root[x].now}
        <4>1. PowerLoss => spent'["losses"] = spent["losses"] + 1
          BY DEF PowerLoss, Spend, TypeInv, TypeOK, FailureKinds
        <4>2. PowerLoss => spent'["faults"] = 0 /\ spent'["kills"] = 0
          BY <1>0, <1>3, <4>1 DEF OneKindOfFailure
        <4> QED BY <1>0, <4>2 DEF OneIntent
      <3>4. ASSUME NEW x \in Intents, root'[x].now # NoFile
            PROVE  \/ pc = "write_intent" /\ x = work.kind
                   \/ x \in Present
        <4>1. CASE pc = "write_intent" /\ x = work.kind
          BY <4>1
        <4>2. CASE ~(pc = "write_intent" /\ x = work.kind)
          <5>1. /\ d[x].now \in {root[x].now, NoFile}
                /\ Images(d[x]) \subseteq Images(root[x]) \cup {NoFile}
            BY <4>2, MidwayIntents
          <5>2. CASE PowerLoss
            <6>1. root'[x].now \in Images(d[x])
              BY <3>2 DEF Images
            <6> QED BY <3>3, <3>4, <5>1, <5>2, <6>1 DEF Present
          <5>3. CASE ~PowerLoss
            <6>1. x \in Unjournaled
              BY DEF Unjournaled, RootFiles, Intents
            <6> QED BY <3>1, <3>4, <5>1, <5>3, <6>1 DEF Moves, Present
          <5> QED BY <5>2, <5>3
        <4> QED BY <4>1, <4>2
      <3>5. pc = "write_intent" => Present = {}
        BY DEF OwnIntentOnly
      <3>6. k \in Intents /\ l \in Intents /\ root'[k].now # NoFile /\ root'[l].now # NoFile
        BY <1>3 DEF Present
      <3> QED BY <2>1, <3>4, <3>5, <3>6
    <2> QED BY <2>2, <2>3
  <1> QED BY <1>1, <1>3 DEF OneIntent

-----------------------------------------------------------------------------

\* A start holds nothing and finds no intent.
LEMMA InitSettling == Init => Settling
  <1> SUFFICES ASSUME Init PROVE Settling
    OBVIOUS
  <1>1. ASSUME NEW k \in Intents PROVE root[k] = OnDisk(NoFile)
    BY DEF Init, Intents, RootFiles
  <1>2. Present = {} /\ \A k \in Intents : Images(root[k]) = {root[k].now} /\ root[k].now = NoFile
    BY <1>1 DEF Present, Images, OnDisk
  <1>3. held \notin Libraries /\ pc = "idle"
    BY DistinctAssumption DEF Init
  <1>4. HeldIsOnDisk /\ OwnIntentOnly /\ OneIntent
    BY <1>2, <1>3 DEF HeldIsOnDisk, Holding, OwnIntentOnly, OneIntent
  <1>5. Authority(root)
    BY <1>2 DEF Authority
  <1> QED BY <1>4, <1>5 DEF Settling

\* Every step keeps it.
LEMMA NextSettling ==
    ASSUME TypeInv, Recoverable, Settling, [Next]_vars PROVE Settling'
  <1>1. OwnIntentOnly' /\ OneIntent'
    BY OwnIntentStays, OneIntentStays DEF Settling
  <1>2. Trusted' => HeldIsOnDisk' /\ Authority(root)'
    BY HeldStaysOnDisk, AuthorityStays
  <1> QED BY <1>1, <1>2 DEF Settling

\* What the application may write to is on the disk for good, every intent has
\* authority over every image of the disk, and no commit begins beside the
\* intent of another: the inductive invariant behind the next two theorems.
THEOREM AlwaysSettling == Spec => []Settling
  <1>1. Init => TypeInv /\ Recoverable /\ Settling
    BY InitType, InitKnown, InitSettling
  <1>2. TypeInv /\ Recoverable /\ Settling /\ [Next]_vars =>
          (TypeInv /\ Recoverable /\ Settling)'
    BY NextType, NextKnown, NextSettling
  <1> QED BY <1>1, <1>2, PTL DEF Spec

\* What the application is shown as its writable library is what a start after
\* any power loss loads: an accepted edit is on the disk for good, however its
\* commit was interrupted and retried, as long as the primary is readable and
\* no pending candidate was discarded.
THEOREM AtRestAlwaysDurable == Spec => []AtRestIsDurable
  <1>1. TypeInv /\ Settling => AtRestIsDurable
    <2> SUFFICES ASSUME TypeInv, Settling, AtRest, Trusted,
                        NEW p \in P(root), NEW g \in G(root)
                 PROVE  LoadsFrom(p, g) = held.baseline
      BY DEF AtRestIsDurable, Trusted, P, G
    <2>1. held \in Libraries
      BY DEF AtRest, TypeInv, Control
    <2>2. LoadsAs(root, held.baseline)
      BY <2>1 DEF AtRest, Settling, HeldIsOnDisk, Holding
    <2>3. held.baseline # Corrupt
      BY <2>1, DistinctAssumption DEF Libraries
    <2> QED BY <2>2, <2>3 DEF LoadsAs, LoadsFrom
  <1>2. Spec => []TypeInv
    BY InitType, NextType, PTL DEF Spec
  <1> QED BY <1>1, <1>2, AlwaysSettling, PTL

\* An intent that a power loss may leave always finds its base or its
\* candidate as the primary, so recovery never blocks on it; and no second
\* intent stands beside it.
THEOREM IntentAlwaysHasAuthority == Spec => []IntentHasAuthority
  <1>1. Settling => IntentHasAuthority
    <2> SUFFICES ASSUME Settling, Trusted PROVE
          /\ \A k \in Intents : \A i \in Images(root[k]) \ {NoFile} :
               \A p \in Images(root["primary"]) \ {NoFile} : p \in {i.base, i.candidate}
          /\ OneKindOfFailure => Cardinality(Present) <= 1
      BY DEF IntentHasAuthority, Trusted
    <2>1. \A p \in Images(root["primary"]) \ {NoFile} : p \in Findable(root)
      BY DEF Findable, P
    <2>2. ASSUME OneKindOfFailure PROVE Cardinality(Present) <= 1
      <3>1. \A k \in Present, l \in Present : k = l
        BY <2>2 DEF Settling, OneIntent
      <3>2. CASE Present = {}
        BY <3>2, FS_EmptySet
      <3>3. CASE Present # {}
        <4>1. PICK k \in Present : Present = {k}
          BY <3>1, <3>3
        <4>2. Cardinality({k}) = 1
          BY FS_Singleton
        <4> QED BY <4>1, <4>2
      <3> QED BY <3>2, <3>3
    <2> QED BY <2>1, <2>2 DEF Settling, Authority
  <1> QED BY <1>1, AlwaysSettling, PTL
-----------------------------------------------------------------------------
(* The files implement one library                                         *)

\* What is shown, and the candidate, at the start and after every step.
LEMMA InitOffered == Init => Offered
  BY DistinctAssumption DEF Init, Offered

LEMMA NextOffered ==
    ASSUME TypeInv, Offered, [Next]_vars PROVE Offered'
  <1>1. CASE (\E l : Continue(l)) \/ Fail
    BY <1>1 DEF Offered, Continue, Fail, Leave, Pending
  <1>2. CASE LoadFails
    <2>1. call = "open" => phase \notin Pending
      BY DEF TypeInv, Control, Pending
    <2> QED BY <1>2, <2>1 DEF Offered, LoadFails, Leave, Pending
  <1>3. CASE Return
    <2>1. call = "retry" => held \in Libraries
      BY DEF TypeInv, Control
    <2> QED BY <1>3, <2>1 DEF Return, Accept, Report, Leave, Offered, Pending
  <1>4. CASE Vanish
    BY <1>4, DistinctAssumption DEF Vanish, Leave, Offered, Pending
  <1>5. CASE User /\ ~Quit
    BY <1>5 DEF User, Open, Retry, Discard, Resolve, Commit, Offered, Pending
  <1>6. CASE UNCHANGED <<held, accepted, call, phase, job>>
    BY <1>6 DEF Offered
  <1>7. ReadFault => (\E l : Continue(l)) \/ Fail \/ LoadFails
    BY DEF ReadFault, Noting
  <1>8. Quit \/ Kill \/ PowerLoss => Vanish
    BY DEF Quit, Kill, PowerLoss
  <1>9. (\E f \in RootFiles : Decay(f)) \/ UNCHANGED vars
          => UNCHANGED <<held, accepted, call, phase, job>>
    BY DEF Decay, vars
  <1> QED BY <1>1, <1>2, <1>3, <1>4, <1>5, <1>6, <1>7, <1>8, <1>9, Proceeds
          DEF Next, Step, Failure

\* The library that a start would find is a snapshot, and is not behind the
\* settled one.
LEMMA FoundNewer ==
    ASSUME NEW d, NEW s, NEW slack, Disk(d, s, slack), IsDirectory(d, RootType),
           s \in Snapshots
    PROVE  Found(d) \in Snapshots /\ Newer(Found(d), s)
  <1>1. /\ d["primary"].now \in P(d) /\ P(d) \subseteq Snapshots \cup {NoFile}
        /\ d["last_good"].now \in G(d) /\ G(d) \subseteq Snapshots \cup {NoFile}
    BY ImagesType DEF Disk
  <1>2. Solid(d, s)
    BY DEF Disk
  <1> QED BY <1>1, <1>2, SnapshotFacts DEF Found, Solid, Newer

\* What is held was loaded from what a start would find, when a commit writes
\* the primary: the candidate is the next library.
LEMMA WritesNext ==
    ASSUME TypeInv, Known, Offered, pc = "write_primary"
    PROVE  /\ job \in Jobs /\ job # NoJob /\ job.candidate \in Snapshots
           /\ Found(root) = accepted
           /\ job.candidate.revision = accepted.revision + 1
  <1>1. held \in Libraries /\ job \in Jobs /\ job.candidate \in Snapshots
    BY WrittenFacts
  <1>2. held.snapshot = accepted
    BY <1>1 DEF Offered
  <1>3. /\ root["primary"].now = held.baseline
        /\ job.candidate.revision = held.snapshot.revision + 1
    BY DEF Known, SaveKnows
  <1>4. /\ Decoded(held)
        /\ held.baseline = NoFile => root["last_good"].now = NoFile
    BY <1>1, <1>3 DEF Known, HeldKnows
  <1> QED BY <1>1, <1>2, <1>3, <1>4, DistinctAssumption DEF Found, Decoded

\* The one operation that changes what a start would find, short of a power
\* loss, is the writing of the primary.
LEMMA MidwayFound ==
    ASSUME TypeInv, Known, Offered, NEW d \in RootMidway
    PROVE  \/ Found(d) = Found(root)
           \/ pc = "write_primary" /\ Found(d) = job.candidate
  <1>0. /\ IsDirectory(root, RootType)
        /\ root["primary"].now \in Snapshots \cup {NoFile}
        /\ {"primary", "last_good", "journal"} \subseteq RootFiles
    BY KnownFacts DEF RootFiles
  <1>1. CASE d = root
    BY <1>1
  <1>2. CASE pc \in {"write_intent", "remove_intent"}
    <2>1. work.kind \in Intents
      BY <1>2 DEF TypeInv, Control, Works
    <2>2. work.kind \in RootFiles \ {"primary", "last_good"}
      BY <2>1 DEF Intents, RootFiles
    <2>3. PICK c : d = root \/ d = Put(root, work.kind, c)
      BY <1>2 DEF RootMidway
    <2>4. CASE d = Put(root, work.kind, c)
      BY <1>0, <2>2, <2>4, PutFiles DEF Found
    <2> QED BY <1>1, <2>3, <2>4
  <1>3. CASE pc = "write_journal"
    <2>1. PICK c : d = root \/ d = Put(root, "journal", c)
      BY <1>3 DEF RootMidway
    <2>2. CASE d = Put(root, "journal", c)
      BY <1>0, <2>2, PutFiles DEF Found
    <2> QED BY <1>1, <2>1, <2>2
  <1>4. CASE pc = "write_primary"
    <2>1. d = root \/ d = Put(root, "primary", job.candidate)
      BY <1>4 DEF RootMidway
    <2>2. job.candidate # NoFile
      BY <1>4, WritesNext, SnapshotFacts
    <2>3. CASE d = Put(root, "primary", job.candidate)
      BY <1>0, <1>4, <2>2, <2>3, PutFiles DEF Found
    <2> QED BY <1>1, <2>1, <2>3
  <1>5. CASE pc \in {"write_last_good", "finish_last_good"}
    <2>1. PICK c : d = root \/ d = Put(root, "last_good", c)
      BY <1>5 DEF RootMidway
    <2>2. root["primary"].now # NoFile
      <3>1. CASE pc = "write_last_good"
        <4>1. root["primary"].now = job.candidate
          BY <3>1, KnownFacts DEF Known, SaveKnows
        <4> QED BY <3>1, <4>1, WrittenFacts, SnapshotFacts
      <3>2. CASE pc = "finish_last_good"
        BY <3>2, SnapshotFacts DEF Known, LoadKnows, TypeInv, Control
      <3> QED BY <1>5, <3>1, <3>2
    <2>3. CASE d = Put(root, "last_good", c)
      BY <1>0, <2>2, <2>3, PutFiles DEF Found
    <2> QED BY <1>1, <2>1, <2>3
  <1>6. CASE pc = "restore_primary"
    <2> DEFINE g == root["last_good"].now
    <2>1. root["primary"].now = NoFile /\ g \in Snapshots
      BY <1>6 DEF Known, LoadKnows, TypeInv, Control
    <2>2. d = root \/ d = Put(root, "primary", g)
      BY <1>6 DEF RootMidway
    <2>3. CASE d = Put(root, "primary", g)
      <3>1. d["primary"].now = g
        BY <1>0, <2>3, PutFiles
      <3> QED BY <2>1, <3>1, SnapshotFacts DEF Found
    <2> QED BY <1>1, <2>2, <2>3
  <1> QED BY <1>1, <1>2, <1>3, <1>4, <1>5, <1>6 DEF RootMidway

\* So does every step that is not a power loss.
LEMMA NextFound ==
    ASSUME TypeInv, Known, Offered, [Next]_vars, ~PowerLoss,
           ~ \E f \in RootFiles : Decay(f)
    PROVE  \/ Found(root)' = Found(root)
           \/ pc = "write_primary" /\ Found(root)' = job.candidate
  <1>1. PICK d \in RootMidway : \A f \in Unjournaled : root'[f].now = d[f].now
    BY NextMoves DEF Moves
  <1>2. Found(root)' = Found(d)
    BY <1>1 DEF Found, Unjournaled, RootFiles
  <1> QED BY <1>2, MidwayFound

\* A library that a call returns is what a start would find.
LEMMA ReturnsFound ==
    ASSUME TypeInv, Known, pc = "return"
    PROVE  /\ lib.snapshot = Found(root) /\ lib.snapshot \in Snapshots
           /\ call = "commit" => lib.snapshot = job.candidate
  <1>1. /\ lib \in Libraries /\ lib.snapshot \in Snapshots /\ Decoded(lib)
        /\ lib.baseline = root["primary"].now
        /\ lib.baseline = NoFile => root["last_good"].now = NoFile
    BY ReportedDisk
  <1> QED BY <1>1 DEF Found, Decoded, Known, SaveKnows, EndPcs

AcceptedStep == [Accepted!Next]_(Accepted!vars)

\* A step that a medium returning what was written to it allows.
LEMMA IntactStep ==
    ASSUME Readable, Readable',
           \/ Accepted!Ask \/ Accepted!Commit \/ Accepted!Show
           \/ Accepted!Retry \/ Accepted!Drop \/ Accepted!PowerLoss
    PROVE  AcceptedStep
  BY DEF AcceptedStep, Accepted!Next

\* The candidate becomes the library, as far as the step is about the files.
LEMMA CommitsNext ==
    ASSUME TypeInv, Known, Offered, pc = "write_primary",
           Found(root)' = job.candidate
    PROVE  Accepted!Committed
  BY WritesNext, DistinctAssumption DEF Accepted!Committed, Wanted

\* A step within a call commits the candidate or changes nothing promised.
LEMMA ProceedsAccepted ==
    ASSUME TypeInv, Known, Offered, [Next]_vars, ~PowerLoss,
           ~ \E f \in RootFiles : Decay(f),
           SaveStep \/ SettleStep \/ LoadStep, Readable, Readable'
    PROVE  AcceptedStep
  <1>1. pc # "idle" /\ ((\E l : Continue(l)) \/ Fail \/ LoadFails)
    BY Proceeds
  <1>2. call # "none"
    BY <1>1 DEF TypeInv, Control
  <1>3. UNCHANGED <<accepted, settled, job>> /\ ~InConflict /\ ~InConflict'
    BY <1>1, <1>2 DEF Continue, Fail, LoadFails, Leave, InConflict
  <1>4. Wanted' = Wanted /\ InConflict' = InConflict /\ Readable' = Readable
    BY <1>3 DEF Wanted, InConflict, Readable
  <1>5. CASE Found(root)' = Found(root)
    BY <1>3, <1>4, <1>5 DEF AcceptedStep, Accepted!vars
  <1>6. CASE pc = "write_primary" /\ Found(root)' = job.candidate
    <2>1. Accepted!Commit
      BY <1>3, <1>4, <1>6, CommitsNext DEF Accepted!Commit
    <2> QED BY <2>1, IntactStep
  <1> QED BY <1>5, <1>6, NextFound

\* A call that returns shows what a start would find.
LEMMA ReturnAccepted ==
    ASSUME TypeInv, Known, Offered, Return, Readable, Readable'
    PROVE  AcceptedStep
  <1>1. /\ pc = "return" /\ UNCHANGED <<root, spent>> /\ lib \in Libraries
        /\ Found(root)' = Found(root)
    BY DEF Return, TypeInv, Control, EndPcs, Found
  <1>2. /\ lib.snapshot = Found(root) /\ lib.snapshot \in Snapshots
        /\ call = "commit" => lib.snapshot = job.candidate
    BY <1>1, ReturnsFound
  <1>3. /\ call \in {"open", "commit", "retry"} /\ ~InConflict
        /\ call = "open" => phase = "closed"
        /\ call \in {"commit", "retry"} => job \in Jobs /\ held \in Libraries
    BY <1>1 DEF TypeInv, TypeOK, Control, InConflict
  <1>4. /\ NoJob \notin Jobs
        /\ call = "open" => job = NoJob
        /\ held \in Libraries => held.snapshot = accepted
    BY <1>3, DistinctAssumption DEF Offered, Pending
  <1>5. CASE Accept
    <2>1. /\ accepted' = Found(root) /\ settled' \in {settled, Found(root)}
          /\ Wanted' = NoJob /\ ~InConflict'
      BY <1>2, <1>5 DEF Accept, Report, Leave, Wanted, InConflict
    <2>2. Wanted = NoJob \/ Wanted = Found(root)
      <3>1. call = "retry" => lib.snapshot = job.candidate
        BY <1>3, <1>4, <1>5 DEF Return, Accept
      <3> QED BY <1>2, <1>3, <1>4, <3>1 DEF Wanted
    <2>3. Accepted!Show
      BY <1>1, <2>1, <2>2 DEF Accepted!Show, InConflict
    <2> QED BY <2>3, IntactStep
  <1>6. CASE /\ call = "retry" /\ lib.snapshot \notin {job.candidate, held.snapshot}
             /\ Report /\ UNCHANGED job
             /\ Leave(IF job.op = "save" THEN "conflict" ELSE "pending")
    <2>1. accepted' = Found(root) /\ settled' \in {settled, Found(root)}
      BY <1>2, <1>6 DEF Report
    <2>2. /\ Wanted = job.candidate /\ Wanted' = Wanted /\ Wanted # Found(root)
          /\ accepted # Found(root)
      BY <1>2, <1>3, <1>4, <1>6 DEF Wanted
    <2>3. Wanted # NoJob
      <3>1. job.candidate \in Snapshots
        BY <1>3, <1>6 DEF Jobs
      <3> QED BY <2>2, <3>1, DistinctAssumption
    <2>4. InConflict' \in BOOLEAN
      BY DEF InConflict
    <2>5. Accepted!Show
      BY <1>1, <2>1, <2>2, <2>3, <2>4 DEF Accepted!Show
    <2> QED BY <2>5, IntactStep
  <1>7. CASE /\ call = "retry" /\ call' = "commit"
             /\ UNCHANGED <<phase, job, accepted, settled>>
    <2>1. Wanted' = Wanted /\ ~InConflict'
      BY <1>7 DEF Wanted, InConflict
    <2>2. InConflict' = InConflict /\ Readable' = Readable
      BY <1>1, <1>3, <2>1 DEF Readable, InConflict
    <2> QED BY <1>1, <1>7, <2>1, <2>2 DEF AcceptedStep, Accepted!vars
  <1> QED BY <1>5, <1>6, <1>7 DEF Return

\* What the user does: a change is asked for, a candidate is tried once more,
\* or given up.
LEMMA UserAccepted ==
    ASSUME TypeInv, Offered, User, Readable, Readable'
    PROVE  AcceptedStep
  <1>1. UNCHANGED <<root, accepted, settled>> /\ Found(root)' = Found(root)
    BY DEF User, Open, Retry, Discard, Resolve, Quit, Commit, Vanish, Found
  <1>2. call = "none" /\ (phase = "ready" \/ phase = "conflict" => held \in Libraries)
    BY DEF User, Open, Retry, Discard, Resolve, Quit, Commit, TypeInv, Control
  <1>3. CASE Open
    <2>1. UNCHANGED job /\ ~InConflict /\ ~InConflict'
      BY <1>3 DEF Open, InConflict
    <2>2. Wanted' = Wanted /\ InConflict' = InConflict /\ Readable' = Readable
      BY <2>1 DEF Wanted, InConflict, Readable
    <2> QED BY <1>1, <2>2 DEF AcceptedStep, Accepted!vars
  <1>4. CASE Retry
    <2>1. UNCHANGED job /\ ~InConflict'
      BY <1>4 DEF Retry, InConflict
    <2>2. Wanted' = Wanted /\ Readable' = Readable
      BY <2>1 DEF Wanted, Readable
    <2>3. CASE InConflict
      <3>1. Accepted!Retry
        BY <1>1, <2>1, <2>2, <2>3 DEF Accepted!Retry
      <3> QED BY <3>1, IntactStep
    <2>4. CASE ~InConflict
      <3>1. InConflict' = InConflict
        BY <2>1, <2>4 DEF InConflict
      <3> QED BY <1>1, <2>2, <3>1 DEF AcceptedStep, Accepted!vars
    <2> QED BY <2>3, <2>4
  <1>5. CASE Discard \/ Quit
    <2>1. job' = NoJob /\ phase' \in {"ready", "closed"}
      BY <1>5 DEF Discard, Quit, Vanish, Leave
    <2>2. Wanted' = NoJob /\ ~InConflict'
      BY <2>1 DEF Wanted, InConflict
    <2>3. Accepted!Drop
      BY <1>1, <2>2 DEF Accepted!Drop
    <2> QED BY <2>3, IntactStep
  <1>6. ASSUME NEW op \in Intents \cup {"save"}, held \in Libraries,
               NEW c \in Candidates(op, held.snapshot),
               job' = [op |-> op, candidate |-> c], call' = "commit",
               InConflict \/ (phase = "ready" /\ call = "none")
        PROVE  AcceptedStep
    <2>1. held.snapshot \in Snapshots /\ held.snapshot = accepted
      BY <1>6 DEF Libraries, Offered
    <2>2. c.revision = accepted.revision + 1
      BY <2>1, <1>6, CandidateShape
    <2>3. job' \in Jobs /\ NoJob \notin Jobs
      <3>1. TypeInv'
        BY UserType
      <3> QED BY <1>6, <3>1, DistinctAssumption DEF TypeInv, Control
    <2>4. c \in Snapshots /\ Wanted' = c /\ ~InConflict'
      BY <1>6, <2>3 DEF Jobs, Wanted, InConflict
    <2>5. Wanted = NoJob \/ InConflict
      BY <1>6 DEF Wanted, Offered, Pending
    <2>6. Accepted!Ask
      BY <1>1, <2>2, <2>4, <2>5 DEF Accepted!Ask
    <2> QED BY <2>6, IntactStep
  <1>7. CASE Resolve
    <2>1. /\ InConflict /\ held \in Libraries /\ job \in Jobs /\ call' = "commit"
          /\ job' = [op |-> "save", candidate |-> [Bumped(held.snapshot) EXCEPT
                                                     !.text = job.candidate.text]]
      BY <1>2, <1>7 DEF Resolve, InConflict, TypeInv, Control, Pending
    <2>2. job.candidate.text \in Text
      BY <2>1 DEF Jobs, Snapshots
    <2>3. job'.candidate \in Candidates("save", held.snapshot)
      BY <2>1, <2>2 DEF Candidates, SaveCandidates
    <2> QED BY <1>6, <2>1, <2>3
  <1>8. ASSUME phase = "ready", NEW op \in Ops, NEW c \in Candidates(op, held.snapshot),
               Commit(op, c)
        PROVE  AcceptedStep
    <2>1. op \in Intents \cup {"save"} /\ held \in Libraries
      BY <1>2, <1>8, ConstantsAssumption
    <2> QED BY <1>2, <1>6, <1>8, <2>1 DEF Commit
  <1> QED BY <1>3, <1>4, <1>5, <1>7, <1>8 DEF User

\* A process that ends leaves the library, or has just committed its candidate;
\* a power loss leaves nothing that is behind the settled library.
LEMMA EndAccepted ==
    ASSUME TypeInv, Recoverable, Offered, Kill \/ PowerLoss, Readable, Readable'
    PROVE  AcceptedStep
  <1>1. Known
    BY DEF Recoverable
  <1>2. UNCHANGED <<accepted, settled>> /\ job' = NoJob /\ phase' = "closed"
    BY DEF Kill, PowerLoss, Vanish, Leave
  <1>3. Wanted' = NoJob /\ ~InConflict'
    BY <1>2 DEF Wanted, InConflict
  <1>4. CASE Kill
    <2>1. root' \in RootMidway /\ Found(root)' = Found(root')
      BY <1>4 DEF Kill, Found
    <2>2. Found(root)' = Found(root) \/ Accepted!Committed
      BY <1>1, <2>1, MidwayFound, CommitsNext
    <2>3. Accepted!Drop
      BY <1>2, <1>3, <2>2 DEF Accepted!Drop
    <2> QED BY <2>3, IntactStep
  <1>5. CASE PowerLoss
    <2>1. Recoverable' /\ TypeInv'
      BY <1>5, PowerLossKnown, NextType DEF Next, Failure
    <2>2. Known'
      BY <2>1 DEF Recoverable
    <2>3. /\ Disk(root', settled', Slack') /\ IsDirectory(root', RootType)
          /\ settled' \in Snapshots
      BY <2>1, <2>2 DEF Known, TypeInv, TypeOK
    <2>4. Found(root)' \in Snapshots /\ Newer(Found(root)', settled')
      <3>1. Found(root)' = Found(root')
        BY DEF Found
      <3> QED BY <2>3, <3>1, FoundNewer
    <2>5. Accepted!PowerLoss
      BY <1>2, <1>3, <2>4 DEF Accepted!PowerLoss, Accepted!AsNew, Newer
    <2> QED BY <2>5, IntactStep
  <1> QED BY <1>4, <1>5

\* Every step of the store is a step of the accepted library.
LEMMA NextAccepted ==
    ASSUME TypeInv, Recoverable, Offered, [Next]_vars PROVE AcceptedStep
  <1>1. CASE ~Readable'
    BY <1>1 DEF AcceptedStep, Accepted!Next, Accepted!MediumFails
  <1>2. CASE Readable'
    <2>1. spent \in [FailureKinds -> Nat] /\ {"reads", "decays"} \subseteq FailureKinds
      BY DEF TypeInv, TypeOK, FailureKinds
    <2>2. Readable
      BY <1>2, <2>1, SpentGrows DEF Readable
    <2>3. Known /\ ~ReadFault /\ ~ \E f \in RootFiles : Decay(f)
      <3>1. ASSUME NEW k \in {"reads", "decays"}, NEW b PROVE ~Spend(k, b)
        BY <1>2, <2>1, <2>2 DEF Readable, Spend
      <3>2. ~ReadFault
        BY <3>1 DEF ReadFault
      <3>3. ASSUME NEW f \in RootFiles PROVE ~Decay(f)
        BY <3>1 DEF Decay
      <3> QED BY <2>2, <3>2, <3>3 DEF Recoverable
    <2>4. CASE UNCHANGED vars
      <3>1. /\ Found(root)' = Found(root) /\ Wanted' = Wanted
            /\ InConflict' = InConflict /\ Readable' = Readable
            /\ UNCHANGED <<accepted, settled>>
        BY <2>4 DEF vars, Found, Wanted, InConflict, Readable
      <3> QED BY <3>1 DEF AcceptedStep, Accepted!vars
    <2>5. CASE (SaveStep \/ SettleStep \/ LoadStep) /\ ~PowerLoss
      BY <1>2, <2>2, <2>3, <2>5, ProceedsAccepted
    <2>6. CASE User
      BY <1>2, <2>2, <2>6, UserAccepted
    <2> QED BY <1>2, <2>2, <2>3, <2>4, <2>5, <2>6, ReturnAccepted, EndAccepted
            DEF Next, Step, Failure
  <1> QED BY <1>1, <1>2

\* The files start as the library that was installed, or as the empty one.
LEMMA InitAccepted == Init => Accepted!Init
  <1> SUFFICES ASSUME Init PROVE Accepted!Init
    OBVIOUS
  <1>1. PICK s \in Installed :
          /\ root = [f \in RootFiles |->
                       OnDisk(IF f \in {"primary", "last_good"} THEN s ELSE NoFile)]
          /\ accepted = IF s = NoFile THEN DefaultSnapshot ELSE s
          /\ settled = accepted
    BY DEF Init
  <1>2. root["primary"].now = s /\ root["last_good"].now = s
    BY <1>1 DEF RootFiles, OnDisk
  <1>3. Found(root) = accepted
    BY <1>1, <1>2 DEF Found
  <1>4. accepted \in Snapshots /\ settled = accepted
    BY <1>1, InitType DEF TypeInv, TypeOK
  <1>5. Wanted = NoJob /\ ~InConflict /\ Readable
    BY DEF Init, Wanted, InConflict, Readable, FailureKinds
  <1> QED BY <1>3, <1>4, <1>5 DEF Accepted!Init

\* The store with its journal, backup and intents implements one library that
\* is changed as a whole, by one candidate at a time, on top of the library
\* that the application was shown: whatever fails, is retried, killed or
\* loses power, as long as the medium returns what was written to it.
THEOREM ImplementsLibrary == Spec => ImplementsAccepted
  <1>1. Init => TypeInv /\ Recoverable /\ Offered
    BY InitType, InitKnown, InitOffered
  <1>2. TypeInv /\ Recoverable /\ Offered /\ [Next]_vars =>
          (TypeInv /\ Recoverable /\ Offered)'
    BY NextType, NextKnown, NextOffered
  <1>3. TypeInv /\ Recoverable /\ Offered /\ [Next]_vars => [Accepted!Next]_(Accepted!vars)
    BY NextAccepted DEF AcceptedStep
  <1> QED BY <1>1, <1>2, <1>3, InitAccepted, PTL DEF Spec, ImplementsAccepted, Accepted!Spec

=============================================================================
