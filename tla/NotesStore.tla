----------------------------- MODULE NotesStore -----------------------------
(***************************************************************************)
(* The crash-safe Notes library: NotesLibraryStore (store.rs with          *)
(* journal.rs, purge.rs, attachment.rs, orphan.rs, bundle_import.rs and    *)
(* rewrite.rs of the rmac-notes-storage crate) driven by AcceptedLibrary   *)
(* (repository.rs) and by the Ready / Pending phases of the repository     *)
(* worker (worker.rs of rmac-notes-runtime).                               *)
(*                                                                         *)
(* One library is a root directory                                         *)
(*   primary, last_good   the encoded snapshot and its backup,             *)
(*   journal              [expected primary, candidate],                   *)
(*   purge, import, orphan, bundle, rewrite                                *)
(*                        the five private intents, one file each,         *)
(* and an attachments directory with the managed bytes <<"bin", a>> and    *)
(* the staged replacement <<"rewrite", a>> of every attachment a.          *)
(*                                                                         *)
(* Encoding and SHA-256 are taken to be injective, so a file that holds an *)
(* encoded snapshot IS that snapshot, and a journal or an intent that      *)
(* holds its hash holds the snapshot.  A snapshot keeps what the protocol  *)
(* tells apart: its revision, a text, the bytes every attachment record    *)
(* names (NoFile: no record) and the next fresh attachment id.             *)
(*                                                                         *)
(* Every call runs under the transaction lock on the one worker thread, so *)
(* a call is a sequence of steps (pc), each at most one file operation;    *)
(* what interleaves with it is failure: an operation that reports an error *)
(* before or after its effect, a killed process, a power loss, a decayed   *)
(* file.  `spent' counts each of them against its bound.                   *)
(***************************************************************************)
EXTENDS Naturals, FiniteSets, RmacStorage

CONSTANTS
    Text,           \* note content, as far as two edits differ
    NoText,         \* the content of LibrarySnapshot::default()
    Bytes,          \* contents of attachments
    Corrupt,        \* a file that does not decode
    NoJob,          \* no candidate is being committed
    NoLibrary,      \* no library is loaded
    Ops,            \* the commits the application makes
    Installed,      \* the libraries it is started on (NoFile: a first start)
    MaxRevision, MaxAttachment,                   \* bounds of the data
    MaxFaults, MaxReadFaults, MaxKills, MaxPowerLosses, MaxDecays, MaxDiscards

Attachments == 1..MaxAttachment
Intents == {"purge", "import", "orphan", "bundle", "rewrite"}
RootFiles == {"primary", "last_good", "journal"} \cup Intents
AttachmentFiles == {"bin", "rewrite"} \X Attachments

\* The next fresh id is above that of every record (validate_next_id, which
\* encoding and decoding both demand).
Valid(s) == \A a \in Attachments : s.bytes[a] # NoFile => a < s.next

Snapshots ==
    { s \in [ revision : 1..MaxRevision, text : Text,
              bytes : [Attachments -> Bytes \cup {NoFile}],
              next : 1..(MaxAttachment + 1) ] : Valid(s) }

Journals == [expected : Snapshots \cup {NoFile}, candidate : Snapshots]
IntentRecords == [base : Snapshots, candidate : Snapshots]
Libraries == [snapshot : Snapshots, baseline : Snapshots \cup {NoFile},
              blocked : BOOLEAN]
Jobs == [op : Ops \cup {"save"}, candidate : Snapshots]
Works == [kind : Intents, intent : IntentRecords, todo : SUBSET Attachments]

ASSUME ConstantsAssumption ==
    /\ MaxRevision \in Nat \ {0} /\ MaxAttachment \in Nat
    /\ MaxFaults \in Nat /\ MaxReadFaults \in Nat
    /\ MaxKills \in Nat /\ MaxPowerLosses \in Nat
    /\ MaxDecays \in Nat /\ MaxDiscards \in Nat
    /\ NoText \in Text
    /\ Ops \subseteq Intents \cup {"save"}
    /\ Installed \subseteq Snapshots \cup {NoFile}

ASSUME DistinctAssumption ==
    /\ NoFile \notin Snapshots \cup Journals \cup IntentRecords \cup Bytes
    /\ Corrupt \notin Snapshots \cup Journals \cup IntentRecords \cup {NoFile}
    /\ Torn \notin Bytes \cup {NoFile}
    /\ NoJob \notin Jobs \cup Works \cup Snapshots /\ NoLibrary \notin Libraries

VARIABLES
    root, atts,     \* the two directories
    phase,          \* the worker: "closed", "ready", "pending" or "conflict"
    held,           \* AcceptedLibrary.loaded
    job,            \* the candidate being committed, or retained as pending
    call,           \* the call in progress: "none", "open", "commit", "retry"
    pc,             \* its next step
    lib,            \* the LoadedLibrary the call is building
    work,           \* the intent being settled, and its entries still to do
    accepted,       \* the snapshot last reported to the application
    settled,        \* the one last reported with no maintenance pending
    spent           \* the failures so far, per kind

vars == <<root, atts, phase, held, job, call, pc, lib, work, accepted,
          settled, spent>>

-----------------------------------------------------------------------------
(* Data *)

\* LibrarySnapshot::default(), what a library without any file loads as.
DefaultSnapshot ==
    [ revision |-> 1, text |-> NoText,
      bytes |-> [a \in Attachments |-> NoFile], next |-> 1 ]

Recorded(s) == {a \in Attachments : s.bytes[a] # NoFile}

\* The attachments an intent names: those whose record its candidate changes.
Entries(i) == {a \in Attachments : i.base.bytes[a] # i.candidate.bytes[a]}

Bumped(s) == [s EXCEPT !.revision = @ + 1]

(***************************************************************************)
(* The candidates an operation may derive from the accepted snapshot s, as *)
(* prepare() of each intent re-derives and demands them.                   *)
(***************************************************************************)

\* An edit changes the text.
SaveCandidates(s) == {[Bumped(s) EXCEPT !.text = t] : t \in Text}

\* An import adds one record, under the next fresh id.
ImportCandidates(s) ==
    {[Bumped(s) EXCEPT !.bytes[s.next] = b, !.next = @ + 1] :
        b \in {x \in Bytes : s.next \in Attachments}}

\* A bundle adds any number of records.
Bundled(s, n, b) ==
    [Bumped(s) EXCEPT
       !.bytes = [a \in Attachments |->
                    IF a \in s.next..(n - 1) THEN b ELSE s.bytes[a]],
       !.next = n]

BundleCandidates(s) ==
    {Bundled(s, n, b) : n \in s.next..(MaxAttachment + 1), b \in Bytes}

\* A purge drops the records of the purged notes.
PurgeCandidates(s) ==
    {[Bumped(s) EXCEPT
        !.bytes = [a \in Attachments |->
                     IF a \in gone THEN NoFile ELSE s.bytes[a]]] :
        gone \in SUBSET Recorded(s)}

\* An orphan collection drops one record.
OrphanCandidates(s) ==
    {[Bumped(s) EXCEPT !.bytes[a] = NoFile] : a \in Recorded(s)}

\* A rewrite gives records other bytes.
RewriteCandidates(s) ==
    {[Bumped(s) EXCEPT
        !.bytes = [a \in Attachments |->
                     IF a \in new THEN b ELSE s.bytes[a]]] :
        new \in {n \in SUBSET Recorded(s) : n # {}}, b \in Bytes}

Candidates(op, s) ==
    CASE op = "save"    -> SaveCandidates(s)
      [] op = "import"  -> ImportCandidates(s)
      [] op = "bundle"  -> BundleCandidates(s)
      [] op = "purge"   -> PurgeCandidates(s)
      [] op = "orphan"  -> OrphanCandidates(s)
      [] op = "rewrite" -> RewriteCandidates(s)

-----------------------------------------------------------------------------
(* Control *)

Staging == {"import", "bundle", "rewrite"}   \* intents that stage bytes
Erasing == {"purge", "orphan"}               \* intents that remove bytes

FailureKinds ==
    {"faults", "reads", "kills", "losses", "decays", "discards", "restores"}

Spend(kind, bound) ==
    spent[kind] < bound /\ spent' = [spent EXCEPT ![kind] = @ + 1]

\* A failure that also interrupts the restoring of the primary.
SpendRestore(kind, bound) ==
    /\ spent[kind] < bound
    /\ spent' = [spent EXCEPT ![kind] = @ + 1, !["restores"] = @ + 1]

\* An operation that reports an error costs one of the bounded faults.
Charge(good) == IF good THEN UNCHANGED spent ELSE Spend("faults", MaxFaults)

\* The call keeps going at step l.
Continue(l) ==
    pc' = l /\ UNCHANGED <<phase, held, job, call, accepted, settled>>

\* The call is over and the worker is in phase p.
Leave(p) ==
    /\ phase' = p /\ call' = "none" /\ pc' = "idle"
    /\ lib' = NoLibrary /\ work' = NoJob

\* A save returns Err: commit_candidate retains the candidate as pending.
Fail == Leave("pending") /\ UNCHANGED <<held, job, accepted, settled>>

\* load() returns Err: start-up gives up, retry keeps the pending candidate.
LoadFails ==
    Leave(IF call = "open" THEN "closed" ELSE "pending")
    /\ UNCHANGED <<held, job, accepted, settled>>

\* The call goes on at step l with lib, blocked by one more notice or not.
Noting(blocking, l) ==
    /\ lib' = [lib EXCEPT !.blocked = @ \/ blocking]
    /\ Continue(l) /\ UNCHANGED work

First(S) == CHOOSE a \in S : \A b \in S : a <= b
Entry == First(work.todo)
Managed(a) == <<"bin", a>>
Staged(a) == <<"rewrite", a>>
OldBytes(a) == work.intent.base.bytes[a]
NewBytes(a) == work.intent.candidate.bytes[a]
EntryDone == work' = [work EXCEPT !.todo = @ \ {Entry}]

-----------------------------------------------------------------------------
(* save, save_attachment_import, save_bundle_import,                       *)
(* save_attachment_rewrite, save_purge and save_orphan_collection          *)

\* The worker commits a candidate derived from the library it holds.
Commit(op, c) ==
    /\ phase = "ready" /\ call = "none"
    /\ c.revision <= MaxRevision
    /\ job' = [op |-> op, candidate |-> c]
    /\ call' = "commit" /\ pc' = "begin"
    /\ UNCHANGED <<root, atts, phase, held, lib, work, accepted, settled, spent>>

\* The refusals at the head of every save_*, and prepare() of its intent.
Refused ==
    \/ held.blocked
    \/ \E k \in Intents : root[k].now # NoFile
    \/ job.op # "save" /\ job.candidate \notin Candidates(job.op, held.snapshot)

Begin ==
    /\ pc = "begin"
    /\ \/ Refused /\ Fail
       \/ ~Refused /\ job.op = "save" /\ Continue("preflight")
          /\ UNCHANGED <<lib, work>>
       \/ /\ ~Refused /\ job.op # "save" /\ Continue("write_intent")
          /\ LET i == [base |-> held.snapshot, candidate |-> job.candidate]
             IN work' = [kind |-> job.op, intent |-> i, todo |-> Entries(i)]
          /\ UNCHANGED lib
    /\ UNCHANGED <<root, atts, spent>>

\* write_*_intent: atomic replacement and exact readback.
WriteIntent ==
    /\ pc = "write_intent"
    /\ \E r \in WriteVerified(root, work.kind, work.intent) :
         /\ root' = r.dir /\ Charge(r.ok)
         /\ IF r.ok
            THEN /\ Continue(IF work.kind \in Staging THEN "stage"
                                                      ELSE "preflight")
                 /\ UNCHANGED <<lib, work>>
            ELSE Fail
    /\ UNCHANGED atts

\* Mutant: after a write error any file that is found there will do.
BugStageNew ==
    /\ pc = "stage" /\ work.kind # "rewrite" /\ work.todo # {}
    /\ \E r \in WriteNew(atts, Managed(Entry), NewBytes(Entry)) :
         /\ atts' = r.dir /\ Charge(r.ok)
         /\ IF r.dir[Managed(Entry)].now # NoFile
            THEN EntryDone /\ Continue("stage") /\ UNCHANGED lib
            ELSE Fail
    /\ UNCHANGED root

(***************************************************************************)
(* stage of an import or a bundle: a file that already holds the exact     *)
(* bytes is kept, any other is a mismatch, an absent one is created; after *)
(* a reported write error the bytes that are found there decide.           *)
(***************************************************************************)
StageNew ==
    /\ pc = "stage" /\ work.kind # "rewrite" /\ work.todo # {}
    /\ LET p == Managed(Entry) IN
         \/ /\ atts[p].now = NewBytes(Entry)
            /\ EntryDone /\ Continue("stage") /\ UNCHANGED <<atts, lib, spent>>
         \/ /\ atts[p].now \notin {NoFile, NewBytes(Entry)}
            /\ Fail /\ UNCHANGED <<atts, spent>>
         \/ /\ atts[p].now = NoFile
            /\ \E r \in WriteNew(atts, p, NewBytes(Entry)) :
                 /\ atts' = r.dir /\ Charge(r.ok)
                 /\ IF r.dir[p].now = NewBytes(Entry)
                    THEN EntryDone /\ Continue("stage") /\ UNCHANGED lib
                    ELSE Fail
    /\ UNCHANGED root

\* stage of a rewrite: the new bytes go beside the managed file.
StageRewrite ==
    /\ pc = "stage" /\ work.kind = "rewrite" /\ work.todo # {}
    /\ \E r \in WriteVerified(atts, Staged(Entry), NewBytes(Entry)) :
         /\ atts' = r.dir /\ Charge(r.ok)
         /\ IF r.ok THEN EntryDone /\ Continue("stage") /\ UNCHANGED lib
                    ELSE Fail
    /\ UNCHANGED root

StageDone ==
    /\ pc = "stage" /\ work.todo = {}
    /\ Continue("preflight")
    /\ UNCHANGED <<root, atts, lib, work, spent>>

\* Mutant: a save does not look at the candidate's revision.
BugPreflight ==
    /\ pc = "preflight"
    /\ IF root["primary"].now = held.baseline /\ root["journal"].now = NoFile
       THEN Continue("write_journal") /\ UNCHANGED <<lib, work>>
       ELSE Fail
    /\ UNCHANGED <<root, atts, spent>>

\* save_locked: the revision, preflight() and require_no_journal().
Preflight ==
    /\ pc = "preflight"
    /\ IF /\ job.candidate.revision = held.snapshot.revision + 1
          /\ root["primary"].now = held.baseline
          /\ root["journal"].now = NoFile
       THEN Continue("write_journal") /\ UNCHANGED <<lib, work>>
       ELSE Fail
    /\ UNCHANGED <<root, atts, spent>>

\* Mutant: a journal that could not be written does not stop the save.
BugWriteJournal ==
    /\ pc = "write_journal"
    /\ LET j == [expected |-> held.baseline, candidate |-> job.candidate] IN
       \E r \in WriteVerified(root, "journal", j) :
         /\ root' = r.dir /\ Charge(r.ok)
         /\ Continue("write_primary") /\ UNCHANGED <<lib, work>>
    /\ UNCHANGED atts

\* The journal; on an error it is removed again, ignoring the result.
WriteJournal ==
    /\ pc = "write_journal"
    /\ LET j == [expected |-> held.baseline, candidate |-> job.candidate] IN
       \E r \in WriteVerified(root, "journal", j) :
         /\ Charge(r.ok)
         /\ IF r.ok
            THEN /\ root' = r.dir
                 /\ Continue("write_primary") /\ UNCHANGED <<lib, work>>
            ELSE /\ \E q \in RemoveFile(r.dir, "journal") : root' = q.dir
                 /\ Fail
    /\ UNCHANGED atts

\* Mutant: the backup is skipped.
BugWritePrimary ==
    /\ pc = "write_primary"
    /\ \E r \in WriteVerified(root, "primary", job.candidate) :
         /\ root' = r.dir /\ Charge(r.ok)
         /\ IF r.ok THEN Continue("remove_journal") /\ UNCHANGED <<lib, work>>
                    ELSE Fail
    /\ UNCHANGED atts

\* The primary; on an error the journal stays for start-up to decide.
WritePrimary ==
    /\ pc = "write_primary"
    /\ \E r \in WriteVerified(root, "primary", job.candidate) :
         /\ root' = r.dir /\ Charge(r.ok)
         /\ IF r.ok THEN Continue("write_last_good") /\ UNCHANGED <<lib, work>>
                    ELSE Fail
    /\ UNCHANGED atts

\* The outcome's library: the candidate, blocked by pending maintenance.
Saved(pending) == [snapshot |-> job.candidate, baseline |-> job.candidate,
                   blocked |-> pending]

WriteLastGood ==
    /\ pc = "write_last_good"
    /\ \E r \in WriteVerified(root, "last_good", job.candidate) :
         /\ root' = r.dir /\ Charge(r.ok)
         /\ lib' = Saved(~r.ok)
         /\ Continue(IF r.ok THEN "remove_journal" ELSE "return")
    /\ UNCHANGED <<atts, work>>

\* What follows the journal: an import only drops its intent, a rewrite and
\* the erasing intents first settle their attachments.
AfterCommit ==
    CASE job.op = "save" -> "return"
      [] job.op \in {"import", "bundle"} -> "remove_intent"
      [] OTHER -> "settle"

RemoveJournal ==
    /\ pc = "remove_journal"
    /\ \E r \in RemoveFile(root, "journal") :
         /\ root' = r.dir /\ Charge(r.ok)
         /\ lib' = Saved(~r.ok)
         /\ Continue(IF r.ok THEN AfterCommit ELSE "return")
         /\ work' = IF r.ok /\ job.op # "save"
                    THEN [work EXCEPT !.todo = Entries(work.intent)] ELSE work
    /\ UNCHANGED atts

-----------------------------------------------------------------------------
(* Settling an accepted intent, after a save and during load               *)

\* Mutant: the unlink is not synced.
BugErase ==
    /\ pc = "settle" /\ work.kind \in Erasing /\ work.todo # {}
    /\ \E r \in RemoveFile(atts, Managed(Entry)) :
         /\ atts' = r.dir /\ Charge(r.ok)
         /\ IF r.ok THEN EntryDone /\ Continue("settle") /\ UNCHANGED lib
                    ELSE Noting(TRUE, "return")
    /\ UNCHANGED root

\* Mutant: bytes that are already gone count as changed, not as erased.
BugEraseTwice ==
    /\ pc = "settle" /\ work.kind \in Erasing /\ work.todo # {}
    /\ IF atts[Managed(Entry)].now # OldBytes(Entry)
       THEN Noting(TRUE, "return") /\ UNCHANGED <<atts, spent>>
       ELSE \E r \in RemoveFileDurable(atts, Managed(Entry)) :
              /\ atts' = r.dir /\ Charge(r.ok)
              /\ IF r.ok THEN EntryDone /\ Continue("settle") /\ UNCHANGED lib
                         ELSE Noting(TRUE, "return")
    /\ UNCHANGED root

\* cleanup of a purge or an orphan collection: only the exact bytes go, and
\* a file that is not there counts as done.
Erase ==
    /\ pc = "settle" /\ work.kind \in Erasing /\ work.todo # {}
    /\ LET p == Managed(Entry) IN
         \/ /\ atts[p].now = NoFile
            /\ EntryDone /\ Continue("settle") /\ UNCHANGED <<atts, lib, spent>>
         \/ /\ atts[p].now \notin {NoFile, OldBytes(Entry)}
            /\ Noting(TRUE, "return") /\ UNCHANGED <<atts, spent>>
         \/ /\ atts[p].now = OldBytes(Entry)
            /\ \E r \in RemoveFileDurable(atts, p) :
                 /\ atts' = r.dir /\ Charge(r.ok)
                 /\ IF r.ok
                    THEN EntryDone /\ Continue("settle") /\ UNCHANGED lib
                    ELSE Noting(TRUE, "return")
    /\ UNCHANGED root

\* finish of a rewrite, first half: the managed file takes the staged bytes.
ReplaceManaged ==
    /\ pc = "settle" /\ work.kind = "rewrite" /\ work.todo # {}
    /\ atts[Managed(Entry)].now # NewBytes(Entry)
    /\ IF atts[Staged(Entry)].now # NewBytes(Entry)
       THEN Noting(TRUE, "return") /\ UNCHANGED <<atts, spent>>
       ELSE \E r \in WriteVerified(atts, Managed(Entry), NewBytes(Entry)) :
              /\ atts' = r.dir /\ Charge(r.ok)
              /\ IF r.ok THEN Continue("settle") /\ UNCHANGED <<lib, work>>
                         ELSE Noting(TRUE, "return")
    /\ UNCHANGED root

\* finish of a rewrite, second half: the staged copy goes.
RemoveStaged ==
    /\ pc = "settle" /\ work.kind = "rewrite" /\ work.todo # {}
    /\ atts[Managed(Entry)].now = NewBytes(Entry)
    /\ \E r \in RemoveFileDurable(atts, Staged(Entry)) :
         /\ atts' = r.dir /\ Charge(r.ok)
         /\ IF r.ok THEN EntryDone /\ Continue("settle") /\ UNCHANGED lib
                    ELSE Noting(TRUE, "return")
    /\ UNCHANGED root

\* verify_staged of an accepted import or bundle, during load.
VerifyStaged ==
    /\ pc = "settle" /\ work.kind \in {"import", "bundle"} /\ work.todo # {}
    /\ IF \A a \in work.todo : atts[Managed(a)].now = NewBytes(a)
       THEN /\ work' = [work EXCEPT !.todo = {}]
            /\ Continue("settle") /\ UNCHANGED lib
       ELSE Noting(TRUE, "return")
    /\ UNCHANGED <<root, atts, spent>>

\* rollback_staging of an import or a bundle, rollback of a rewrite.
RollBack ==
    /\ pc = "rollback" /\ work.todo # {}
    /\ LET p == IF work.kind = "rewrite" THEN Staged(Entry) ELSE Managed(Entry)
       IN IF work.kind # "rewrite" /\ atts[p].now \notin {NoFile, NewBytes(Entry)}
          THEN Noting(TRUE, "return") /\ UNCHANGED <<atts, spent>>
          ELSE \E r \in RemoveFileDurable(atts, p) :
                 /\ atts' = r.dir /\ Charge(r.ok)
                 /\ IF r.ok
                    THEN EntryDone /\ Continue("rollback") /\ UNCHANGED lib
                    ELSE Noting(TRUE, "return")
    /\ UNCHANGED root

Settled ==
    /\ pc \in {"settle", "rollback"} /\ work.todo = {}
    /\ Continue("remove_intent")
    /\ UNCHANGED <<root, atts, lib, work, spent>>

\* Mutant: the removal of an intent is not synced.
BugRemoveIntent ==
    /\ pc = "remove_intent"
    /\ \E r \in RemoveFile(root, work.kind) :
         /\ root' = r.dir /\ Charge(r.ok) /\ Noting(~r.ok, "return")
    /\ UNCHANGED atts

\* remove_*_intent; a failure is pending maintenance.
RemoveIntent ==
    /\ pc = "remove_intent"
    /\ \E r \in RemoveFileDurable(root, work.kind) :
         /\ root' = r.dir /\ Charge(r.ok) /\ Noting(~r.ok, "return")
    /\ UNCHANGED atts

-----------------------------------------------------------------------------
(* load_locked                                                             *)

Open ==
    /\ phase = "closed" /\ call = "none"
    /\ call' = "open" /\ pc' = "recover_journal"
    /\ UNCHANGED <<root, atts, phase, held, job, lib, work, accepted, settled,
                   spent>>

\* recover_journal: finish or roll back what the journal records, refuse a
\* primary that is neither side of it, keep a journal that does not decode.
RecoverJournal ==
    /\ pc = "recover_journal"
    /\ LET j == root["journal"].now
           p == root["primary"].now
           Start(blocking, l) ==
             /\ lib' = [snapshot |-> DefaultSnapshot, baseline |-> NoFile,
                        blocked |-> blocking]
             /\ Continue(l) /\ UNCHANGED work
       IN CASE j = NoFile  -> Start(FALSE, "read_primary")
            [] j = Corrupt -> Start(TRUE, "read_primary")
            [] j \notin {NoFile, Corrupt} /\ p = j.candidate ->
                 Start(FALSE, "finish_last_good")
            [] j \notin {NoFile, Corrupt} /\ p # j.candidate /\ p = j.expected ->
                 Start(FALSE, "clear_journal")
            [] OTHER -> LoadFails
    /\ UNCHANGED <<root, atts, spent>>

\* Mutant: a backup that could not be written is not reported.
BugFinishLastGood ==
    /\ pc = "finish_last_good"
    /\ \E r \in WriteVerified(root, "last_good", root["journal"].now.candidate) :
         /\ root' = r.dir /\ Charge(r.ok) /\ Noting(FALSE, "clear_journal")
    /\ UNCHANGED atts

FinishLastGood ==
    /\ pc = "finish_last_good"
    /\ \E r \in WriteVerified(root, "last_good", root["journal"].now.candidate) :
         /\ root' = r.dir /\ Charge(r.ok)
         /\ Noting(~r.ok, IF r.ok THEN "clear_journal" ELSE "read_primary")
    /\ UNCHANGED atts

\* Mutant: a rolled back journal is left behind.
BugClearJournal ==
    /\ pc = "clear_journal" /\ Noting(FALSE, "read_primary")
    /\ UNCHANGED <<root, atts, spent>>

ClearJournal ==
    /\ pc = "clear_journal"
    /\ \E r \in RemoveFile(root, "journal") :
         /\ root' = r.dir /\ Charge(r.ok) /\ Noting(~r.ok, "read_primary")
    /\ UNCHANGED atts

\* load_locked has read snapshot s (the file is f) and turns to the intents.
Loaded(s, f) ==
    /\ lib' = [lib EXCEPT !.snapshot = s, !.baseline = f]
    /\ Continue("recover_intent") /\ UNCHANGED work

\* Mutant: a primary that does not decode starts an empty library.
BugReadPrimary ==
    /\ pc = "read_primary"
    /\ IF root["primary"].now \in {NoFile, Corrupt}
       THEN Loaded(DefaultSnapshot, NoFile)
       ELSE Loaded(root["primary"].now, root["primary"].now)
    /\ UNCHANGED <<root, atts, spent>>

\* Mutant: the primary is taken as it is, whether it decodes or not.
BugReadAnything ==
    /\ pc = "read_primary"
    /\ IF root["primary"].now = NoFile
       THEN Loaded(DefaultSnapshot, NoFile)
       ELSE Loaded(root["primary"].now, root["primary"].now)
    /\ UNCHANGED <<root, atts, spent>>

\* The primary, or the last known good when it is missing or unreadable.
ReadPrimary ==
    /\ pc = "read_primary"
    /\ LET p == root["primary"].now
           g == root["last_good"].now
       IN CASE p \notin {NoFile, Corrupt} -> Loaded(p, p)
            [] p \in {NoFile, Corrupt} /\ g \notin {NoFile, Corrupt} ->
                 Continue("restore_primary") /\ UNCHANGED <<lib, work>>
            [] p = NoFile /\ g = NoFile -> Loaded(DefaultSnapshot, NoFile)
            [] OTHER -> LoadFails
    /\ UNCHANGED <<root, atts, spent>>

RestorePrimary ==
    /\ pc = "restore_primary"
    /\ LET g == root["last_good"].now IN
       \E r \in WriteVerified(root, "primary", g) :
         /\ root' = r.dir
         /\ IF r.ok THEN Loaded(g, g) /\ UNCHANGED spent
                    ELSE LoadFails /\ SpendRestore("faults", MaxFaults)
    /\ UNCHANGED atts

Present == {k \in Intents : root[k].now # NoFile}

\* authority: the snapshot descends from the intent's accepted candidate.
Descends(k, i, s) ==
    /\ s.revision > i.candidate.revision
    /\ k \in Erasing \cup {"import"}
    /\ \A a \in Entries(i) : s.bytes[a] = i.candidate.bytes[a]

\* The end of load_locked and the head of recover_purge,
\* recover_attachment_import, recover_orphan_collection,
\* recover_bundle_import and recover_attachment_rewrite: two intents at
\* once, a malformed one or one of no authority block, a single one is
\* rolled back or settled.
RecoverIntent ==
    /\ pc = "recover_intent"
    /\ \/ Present = {} /\ Noting(FALSE, "return")
       \/ /\ \/ Cardinality(Present) > 1
             \/ \E k \in Present : root[k].now = Corrupt
          /\ Noting(TRUE, "return")
       \/ \E k \in Present :
            /\ Present = {k} /\ root[k].now # Corrupt
            /\ LET i == root[k].now
                   Take(entries, l) ==
                     /\ work' = [kind |-> k, intent |-> i, todo |-> entries]
                     /\ Continue(l) /\ UNCHANGED lib
               IN CASE lib.snapshot = i.base ->
                         Take(IF k \in Staging THEN Entries(i) ELSE {}, "rollback")
                    [] lib.snapshot = i.candidate \/ Descends(k, i, lib.snapshot) ->
                         Take(Entries(i), "settle")
                    [] OTHER -> Noting(TRUE, "return")
    /\ UNCHANGED <<root, atts, spent>>

-----------------------------------------------------------------------------
(* AcceptedLibrary and the worker                                          *)

\* The library lib becomes the held one and is reported to the application.
Report ==
    /\ held' = lib /\ accepted' = lib.snapshot
    /\ settled' = IF lib.blocked THEN settled ELSE lib.snapshot

Accept == Report /\ job' = NoJob /\ Leave("ready")

\* open, commit_candidate and retry receive the library of their call.  A
\* retry adopts its own candidate, stops at another snapshot than the one
\* held (AcceptedStateChanged: a conflict, if the candidate is an edit), and
\* otherwise commits the candidate again.
Return ==
    /\ pc = "return"
    /\ \/ call # "retry" /\ Accept
       \/ call = "retry" /\ lib.snapshot = job.candidate /\ Accept
       \/ /\ call = "retry"
          /\ lib.snapshot \notin {job.candidate, held.snapshot}
          /\ Report /\ UNCHANGED job
          /\ Leave(IF job.op = "save" THEN "conflict" ELSE "pending")
       \/ /\ call = "retry"
          /\ lib.snapshot # job.candidate /\ lib.snapshot = held.snapshot
          /\ held' = lib /\ call' = "commit" /\ pc' = "begin"
          /\ lib' = NoLibrary /\ work' = NoJob
          /\ UNCHANGED <<phase, job, accepted, settled>>
    /\ UNCHANGED <<root, atts, spent>>

Pending == {"pending", "conflict"}

\* RetryPending: retry() reloads first.
Retry ==
    /\ phase \in Pending /\ call = "none"
    /\ call' = "retry" /\ pc' = "recover_journal"
    /\ UNCHANGED <<root, atts, phase, held, job, lib, work, accepted, settled,
                   spent>>

\* DiscardPending: the candidate is dropped, the held library is not reloaded.
Discard ==
    /\ phase \in Pending /\ call = "none"
    /\ Spend("discards", MaxDiscards)
    /\ phase' = "ready" /\ job' = NoJob
    /\ UNCHANGED <<root, atts, held, call, pc, lib, work, accepted, settled>>

\* ResolvePendingConflict: the local text of a conflicting edit is committed
\* anew on top of the library that retry found.
Resolve ==
    /\ phase = "conflict" /\ call = "none"
    /\ held.snapshot.revision < MaxRevision
    /\ job' = [op |-> "save",
               candidate |-> [Bumped(held.snapshot) EXCEPT
                                !.text = job.candidate.text]]
    /\ call' = "commit" /\ pc' = "begin"
    /\ UNCHANGED <<root, atts, phase, held, lib, work, accepted, settled, spent>>

-----------------------------------------------------------------------------
(* Failures                                                                *)

\* A read reports an error: a save gives up, load gives up on the journal,
\* takes the last known good for the primary (or gives up when it was the
\* last known good that could not be read), blocks on an intent.
ReadFault ==
    /\ Spend("reads", MaxReadFaults)
    /\ \/ pc \in {"begin", "stage", "preflight"} /\ Fail
       \/ pc = "recover_journal" /\ LoadFails
       \/ /\ pc = "read_primary"
          /\ \/ /\ root["last_good"].now \notin {NoFile, Corrupt}
                /\ Continue("restore_primary") /\ UNCHANGED <<lib, work>>
             \/ /\ \/ root["last_good"].now \in {NoFile, Corrupt}
                   \/ root["primary"].now \in {NoFile, Corrupt}
                /\ LoadFails
       \/ pc = "recover_intent" /\ Present # {} /\ Noting(TRUE, "return")
       \/ pc \in {"settle", "rollback"} /\ work.todo # {} /\ Noting(TRUE, "return")
    /\ UNCHANGED <<root, atts>>

(***************************************************************************)
(* The file operation of the current step, half done: its new content is   *)
(* visible and its directory is not yet synced.                            *)
(***************************************************************************)
RootMidway ==
    {root} \cup
    CASE pc = "write_intent" -> {Put(root, work.kind, work.intent)}
      [] pc = "write_journal" ->
           {Put(root, "journal",
                [expected |-> held.baseline, candidate |-> job.candidate])}
      [] pc = "write_primary" -> {Put(root, "primary", job.candidate)}
      [] pc = "write_last_good" -> {Put(root, "last_good", job.candidate)}
      [] pc = "finish_last_good" ->
           {Put(root, "last_good", root["journal"].now.candidate)}
      [] pc = "restore_primary" -> {Put(root, "primary", root["last_good"].now)}
      [] pc = "remove_intent" -> {Put(root, work.kind, NoFile)}
      [] OTHER -> {}

AttsMidway ==
    {atts} \cup
    { Put(atts, w[1], w[2]) : w \in
        { v \in AttachmentFiles \X (Bytes \cup {Torn, NoFile}) :
            /\ pc \in {"stage", "settle", "rollback"} /\ work.todo # {}
            /\ LET m == Managed(Entry)
                   g == Staged(Entry)
                   New == NewBytes(Entry)
               IN \/ /\ pc = "stage" /\ work.kind # "rewrite"
                     /\ atts[m].now = NoFile /\ v \in {<<m, Torn>>, <<m, New>>}
                  \/ pc = "stage" /\ work.kind = "rewrite" /\ v = <<g, New>>
                  \/ /\ pc = "settle" /\ work.kind \in Erasing
                     /\ atts[m].now = OldBytes(Entry) /\ v = <<m, NoFile>>
                  \/ /\ pc = "settle" /\ work.kind = "rewrite"
                     /\ atts[m].now # New /\ atts[g].now = New /\ v = <<m, New>>
                  \/ /\ pc = "settle" /\ work.kind = "rewrite"
                     /\ atts[m].now = New /\ v = <<g, NoFile>>
                  \/ pc = "rollback" /\ work.kind = "rewrite" /\ v = <<g, NoFile>>
                  \/ /\ pc = "rollback" /\ work.kind # "rewrite"
                     /\ atts[m].now = New /\ v = <<m, NoFile>> } }

\* The process is gone and with it all memory.
Vanish ==
    /\ Leave("closed") /\ held' = NoLibrary /\ job' = NoJob
    /\ UNCHANGED <<accepted, settled>>

\* The application is closed between two calls; a pending candidate is not
\* written anywhere.
Quit ==
    /\ phase # "closed" /\ call = "none"
    /\ Vanish
    /\ UNCHANGED <<root, atts, spent>>

Kill ==
    /\ phase # "closed" \/ call # "none"
    /\ IF pc = "restore_primary" THEN SpendRestore("kills", MaxKills)
                                 ELSE Spend("kills", MaxKills)
    /\ root' \in RootMidway /\ atts' \in AttsMidway
    /\ Vanish

PowerLoss ==
    /\ Spend("losses", MaxPowerLosses)
    /\ \E d \in RootMidway : root' \in AfterPowerLoss(d)
    /\ \E d \in AttsMidway : atts' \in AfterPowerLoss(d)
    /\ Vanish

\* A file of the root that is at rest on the medium no longer decodes.  A call
\* reads each file once, so it matters only between two calls.
Decay(f) ==
    /\ call = "none"
    /\ root[f].now \notin {NoFile, Corrupt} /\ root[f].may = {root[f].now}
    /\ Spend("decays", MaxDecays)
    /\ root' = [root EXCEPT ![f] = [now |-> Corrupt, may |-> {Corrupt}]]
    /\ UNCHANGED <<atts, phase, held, job, call, pc, lib, work, accepted, settled>>

-----------------------------------------------------------------------------

Init ==
    /\ \E s \in Installed :
         /\ root = [f \in RootFiles |->
                      OnDisk(IF f \in {"primary", "last_good"} THEN s ELSE NoFile)]
         /\ accepted = IF s = NoFile THEN DefaultSnapshot ELSE s
         /\ settled = accepted
         /\ atts = [f \in AttachmentFiles |->
                      OnDisk(IF f[1] = "bin" THEN accepted.bytes[f[2]] ELSE NoFile)]
    /\ phase = "closed" /\ call = "none" /\ pc = "idle"
    /\ held = NoLibrary /\ lib = NoLibrary /\ job = NoJob /\ work = NoJob
    /\ spent = [k \in FailureKinds |-> 0]

SaveStep ==
    \/ Begin \/ WriteIntent \/ StageNew \/ StageRewrite \/ StageDone
    \/ Preflight \/ WriteJournal \/ WritePrimary \/ WriteLastGood \/ RemoveJournal

SettleStep ==
    \/ Erase \/ ReplaceManaged \/ RemoveStaged \/ VerifyStaged \/ RollBack
    \/ Settled \/ RemoveIntent

LoadStep ==
    \/ RecoverJournal \/ FinishLastGood \/ ClearJournal
    \/ ReadPrimary \/ RestorePrimary \/ RecoverIntent

Step == SaveStep \/ SettleStep \/ LoadStep \/ Return

User ==
    \/ Open \/ Retry \/ Discard \/ Resolve \/ Quit
    \/ /\ phase = "ready" /\ call = "none"
       /\ \E op \in Ops : \E c \in Candidates(op, held.snapshot) : Commit(op, c)

Failure == ReadFault \/ Kill \/ PowerLoss \/ \E f \in RootFiles : Decay(f)

Next == Step \/ User \/ Failure

Spec == Init /\ [][Next]_vars

\* The worker thread runs, and the user opens a closed library and retries a
\* pending candidate.
LiveSpec ==
    Spec /\ WF_vars(Step) /\ WF_vars(Open) /\ WF_vars(Retry)

-----------------------------------------------------------------------------
(* Properties *)

\* A root file holds one of the things that are ever written to it.
RootContent(f) ==
    CASE f \in {"primary", "last_good"} -> Snapshots
      [] f = "journal" -> Journals
      [] f \in Intents -> IntentRecords

RootType == [f \in RootFiles |-> RootContent(f) \cup {NoFile, Corrupt}]
AttachmentType == [f \in AttachmentFiles |-> Bytes \cup {NoFile, Torn}]

\* Type correctness of the whole state.
TypeOK ==
    /\ IsDirectory(root, RootType)
    /\ IsDirectory(atts, AttachmentType)
    /\ phase \in {"closed", "ready"} \cup Pending
    /\ held \in Libraries \cup {NoLibrary}
    /\ job \in Jobs \cup {NoJob}
    /\ call \in {"none", "open", "commit", "retry"}
    /\ lib \in Libraries \cup {NoLibrary}
    /\ work \in Works \cup {NoJob}
    /\ accepted \in Snapshots /\ settled \in Snapshots
    /\ spent \in [FailureKinds -> Nat]

\* The application shows a library that it may write to.
AtRest == phase = "ready" /\ call = "none" /\ ~held.blocked

\* The contents a file has or may have after a power loss.
Images(file) == file.may \cup {file.now}

\* The primary never had to give way to the backup because of a read error or
\* a decayed file, and no restoring of it from the backup was interrupted.
PrimaryTrusted == spent["decays"] = 0 /\ spent["reads"] = 0 /\ spent["restores"] = 0

\* No interruption makes the journal ambiguous while the primary is trusted:
\* whatever a power loss leaves of the journal and of the primary, the primary
\* is the one the journal expects or the one it commits, so recover_journal
\* finishes or rolls back and never refuses.
JournalNeverAmbiguous ==
    PrimaryTrusted =>
      \A j \in Images(root["journal"]) \ {NoFile} :
        Images(root["primary"]) \subseteq {j.expected, j.candidate}

\* A library reported without pending maintenance is never lost: as long as
\* the primary is readable, whatever write fails, whenever the process is
\* killed or the power goes, no step reports an older snapshot, or another one
\* of its revision, in its place.
SettledNeverLost ==
    [][spent["reads"] = 0 /\ spent["decays"] = 0 =>
         accepted'.revision > settled.revision \/ accepted' = settled]_vars

\* The same when the primary cannot be read or no longer decodes, short of
\* power losses: the last known good stands in for it.
BackupStandsIn ==
    [][spent["losses"] = 0 =>
         accepted'.revision > settled.revision \/ accepted' = settled]_vars

\* The file load_locked takes the library from.
LoadsFrom(primary, lastGood) ==
    IF primary \in {NoFile, Corrupt} THEN lastGood ELSE primary

\* What the application may write to is what a start after a power loss
\* loads.
AtRestIsDurable ==
    AtRest /\ PrimaryTrusted /\ spent["discards"] = 0 =>
      \A p \in Images(root["primary"]), g \in Images(root["last_good"]) :
        LoadsFrom(p, g) = held.baseline

\* Power losses have not come on top of medium errors or killed processes,
\* so no operation was left unsynced for a later power loss to undo.
OneKindOfFailure == spent["losses"] = 0 \/ (spent["faults"] = 0 /\ spent["kills"] = 0)

\* A writable library has the exact bytes of every attachment it records.
NoDanglingAttachment ==
    AtRest /\ PrimaryTrusted /\ spent["discards"] = 0 /\ OneKindOfFailure =>
      \A a \in Recorded(held.snapshot) :
        atts[Managed(a)].now = held.snapshot.bytes[a]

\* A writable library leaves no bytes of a purged, collected, rolled back or
\* replaced attachment behind, and short of medium errors and killed
\* processes no power loss brings them back.
NoLeftovers ==
    AtRest /\ PrimaryTrusted /\ spent["discards"] = 0 /\ OneKindOfFailure =>
      \A f \in AttachmentFiles \ {Managed(a) : a \in Recorded(held.snapshot)} :
        IF spent["faults"] = 0 /\ spent["kills"] = 0 THEN Images(atts[f]) = {NoFile}
                                               ELSE atts[f].now = NoFile

\* An intent always has authority: in whatever a power loss leaves of it and
\* of the primary, the primary is its base or its candidate, so recovery
\* rolls it back or settles it and never blocks on it; nor is there ever a
\* second intent beside it.
IntentHasAuthority ==
    PrimaryTrusted /\ spent["discards"] = 0 =>
      /\ \A k \in Intents : \A i \in Images(root[k]) \ {NoFile} :
           \A p \in Images(root["primary"]) \ {NoFile} : p \in {i.base, i.candidate}
      /\ OneKindOfFailure => Cardinality(Present) <= 1

\* Without medium errors the bytes named by the backup outlive it: nothing
\* is erased before the last known good has stopped naming it.
BackupKeepsItsBytes ==
    /\ spent["faults"] = 0 /\ spent["decays"] = 0 /\ OneKindOfFailure
    /\ root["last_good"].now # NoFile
    => \A a \in Recorded(root["last_good"].now) : atts[Managed(a)].now # NoFile

\* A candidate that was retained as pending is committed, or adopted, by
\* retrying it (unless the application is closed first).
PendingResolves == phase \in Pending ~> phase \in {"ready", "closed"}

\* No more failures are to come.
Quiet ==
    spent["faults"] = MaxFaults /\ spent["reads"] = MaxReadFaults
    /\ spent["kills"] = MaxKills /\ spent["losses"] = MaxPowerLosses

\* However it was interrupted before, a start without further failures ends
\* in a library that may be written to: load_locked settles the journal and
\* every intent, and none of them blocks for good.
StartsWritable == phase = "closed" /\ call = "none" /\ Quiet ~> AtRest

-----------------------------------------------------------------------------
(* The abstract specification *)

\* What directory d loads as.
Found(d) ==
    IF d["primary"].now # NoFile THEN d["primary"].now
    ELSE IF d["last_good"].now # NoFile THEN d["last_good"].now
    ELSE DefaultSnapshot

\* Every read has succeeded and every file decodes.
Readable == spent["reads"] = 0 /\ spent["decays"] = 0

\* The candidate that is being committed or retained.
Wanted == IF job = NoJob THEN NoJob ELSE job.candidate

\* The worker stops at a conflict and waits for the application.
InConflict == phase = "conflict" /\ call = "none"

Accepted == INSTANCE AcceptedNotes WITH
    Library <- Snapshots, Nothing <- NoJob,
    found <- Found(root),
    wanted <- Wanted, conflict <- InConflict, intact <- Readable

\* The files implement one library: it changes as a whole, only to the
\* candidate of a commit and only from the library that the application was
\* shown; no load, retry, failed operation or kill changes it otherwise, and no
\* candidate is lost, committed twice or overtaken by another.
ImplementsAccepted == Accepted!Spec

-----------------------------------------------------------------------------
(* What the documents say and the code does not keep *)

\* SPEC.md of the notes crate: "Bytes are durably unlinked only after
\* primary, last-known-good, and journal maintenance prove the candidate
\* authoritative."
UnlinkedAfterMaintenance ==
    [][Erase /\ atts' # atts =>
         /\ root["primary"].now = root["last_good"].now
         /\ root["journal"].now = NoFile]_vars

\* The same sentence, "durably": once the library is writable again no power
\* loss brings the bytes of a purged attachment back.
ErasureIsDurable ==
    AtRest => \A a \in Attachments \ Recorded(held.snapshot) :
                Images(atts[Managed(a)]) = {NoFile}

\* SPEC.md: recovery records are "removed only after the matching library
\* transaction is durably committed"; the worker removes the record when the
\* candidate is accepted, so an accepted candidate would have to be durable.
AcceptedIsDurable == [][accepted'.revision >= accepted.revision]_vars

\* SPEC.md: the worker's phases "prevent a second mutation from overtaking a
\* failed durable candidate": no commit leaves an intent on disk whose base
\* and candidate the library has already passed by.
NothingOvertakes ==
    \A k \in Intents :
      root[k].now # NoFile =>
        root["primary"].now \in {root[k].now.base, root[k].now.candidate}

=============================================================================
