---------------------------- MODULE NotesStoreInv ----------------------------
(***************************************************************************)
(* The inductive invariants of NotesStore from which its theorems are      *)
(* proved: what every step of a call may rely on (Control) and what the    *)
(* application knows of it (Offered); what every image of the root         *)
(* directory that a power loss may leave has in common (Recoverable); what *)
(* a library that may be written to and the intents have to do with the    *)
(* disk (Settling); how the files of the attachments follow the library    *)
(* that loads (Keeping); and what the last known good is worth in place of *)
(* the primary (StandsIn) and which bytes it keeps (Backing).              *)
(***************************************************************************)
EXTENDS NotesStore

SavePcs == {"begin", "write_intent", "stage", "preflight", "write_journal",
            "write_primary", "write_last_good", "remove_journal"}
LoadPcs == {"recover_journal", "finish_last_good", "clear_journal",
            "read_primary", "restore_primary", "recover_intent", "rollback"}
EndPcs == {"settle", "remove_intent", "return"}

\* What a step of a call may rely on: the call it belongs to, the library and
\* the candidate it works for, the library it has built, the intent it is
\* settling, and the file it has just seen to decode.
Control ==
    /\ pc \in {"idle"} \cup SavePcs \cup LoadPcs \cup EndPcs
    /\ pc = "idle" <=> call = "none"
    /\ pc \in SavePcs => call = "commit"
    /\ pc \in LoadPcs => call \in {"open", "retry"}
    /\ call = "open" => phase = "closed"
    /\ call \in {"commit", "retry"} \/ phase # "closed" => held \in Libraries
    /\ call \in {"commit", "retry"} \/ phase \in Pending => job \in Jobs
    /\ pc \in (LoadPcs \ {"recover_journal"}) \cup EndPcs => lib \in Libraries
    /\ pc \in {"write_intent", "stage", "settle", "rollback", "remove_intent"}
         => work \in Works
    /\ pc \in SavePcs \ {"begin"} /\ job.op # "save" => work \in Works
    /\ pc = "finish_last_good" => root["journal"].now \in Journals
    /\ pc = "restore_primary" => root["last_good"].now \in Snapshots

\* What is held is what the application is shown, and a candidate is there only
\* while it is committed or pending.
Offered ==
    /\ held \in Libraries => held.snapshot = accepted
    /\ call \in {"none", "open"} /\ phase \notin Pending => job = NoJob
    /\ call = "retry" => phase \in Pending

-----------------------------------------------------------------------------
(* A root directory d that recovers, while the primary stays readable      *)

P(d) == Images(d["primary"])
G(d) == Images(d["last_good"])
J(d) == Images(d["journal"])

\* Snapshot x is y or has a later revision.
Newer(x, y) == x.revision > y.revision \/ x = y

\* Nothing that a power loss may leave is older than snapshot s, and it can
\* leave nothing at all only if s is the empty library.
Solid(d, s) ==
    /\ \A x \in (P(d) \cup G(d)) \ {NoFile} : Newer(x, s)
    /\ NoFile \in P(d) /\ NoFile \in G(d) => s = DefaultSnapshot

\* The primary that is visible is the newest; one that is absent was never
\* written, except for a restoring that was undone.
PrimaryNewest(d) ==
    IF d["primary"].now = NoFile
    THEN /\ P(d) = {NoFile} /\ G(d) = {d["last_good"].now}
         /\ \/ \A j \in J(d) \ {NoFile} : j.expected = NoFile
            \/ \A j \in J(d) : j # NoFile /\ j.expected # NoFile
         /\ d["last_good"].now # NoFile /\ d["journal"].now # NoFile =>
              J(d) = {d["journal"].now}
    ELSE \A p \in P(d) \ {NoFile} : Newer(d["primary"].now, p)

\* A journal leads from an older primary to a newer one and the primary is one
\* of the two; without a journal it is the visible one.  `slack' is what an
\* interrupted restoring of the primary may fall back to.
JournalBrackets(d, slack) ==
    /\ \A j \in J(d) \ {NoFile} :
         /\ j.expected # NoFile => j.candidate.revision > j.expected.revision
         /\ P(d) \subseteq {j.expected, j.candidate} \cup slack
         /\ j.expected = NoFile => G(d) \subseteq {NoFile, j.candidate}
    /\ NoFile \in J(d) => P(d) \subseteq {d["primary"].now} \cup slack
    /\ d["journal"].now # NoFile /\ d["primary"].now = d["journal"].now.candidate
         => J(d) = {d["journal"].now}

\* The backup is as new as the primary, or a journal commits the primary.
BackupCovers(d) ==
    /\ \A p \in P(d) \ {NoFile}, g \in G(d) \ {NoFile} : \A j \in J(d) :
         Newer(g, p) \/ (j # NoFile /\ p = j.candidate)
    /\ NoFile \in P(d) /\ NoFile \in G(d) /\ d["primary"].now # NoFile =>
         \A j \in J(d) : j # NoFile /\ d["primary"].now = j.candidate

Disk(d, s, slack) ==
    /\ Corrupt \notin P(d) \cup G(d) \cup J(d)
    /\ Solid(d, s) /\ PrimaryNewest(d)
    /\ JournalBrackets(d, slack) /\ BackupCovers(d)

-----------------------------------------------------------------------------
(* What the worker knows of the disk                                       *)

\* NoFile, if the restoring of the primary was ever interrupted.
Slack == IF spent["restores"] = 0 THEN {} ELSE {NoFile}

\* The journal of the commit in progress.
Written == [expected |-> held.baseline, candidate |-> job.candidate]

\* A loaded library is what its baseline encodes.
Decoded(l) ==
    IF l.baseline = NoFile THEN l.snapshot = DefaultSnapshot
                           ELSE l.snapshot = l.baseline

\* What the held library knows of the disk.
HeldKnows ==
    held \in Libraries =>
      /\ Decoded(held) /\ Newer(held.snapshot, settled)
      /\ held.baseline = NoFile /\ root["primary"].now = NoFile =>
           root["last_good"].now = NoFile

\* What each step of a save knows of the disk.
SaveKnows ==
    /\ pc \in {"write_journal", "write_primary", "write_last_good",
               "remove_journal"} =>
         job.candidate.revision = held.snapshot.revision + 1
    /\ pc = "write_journal" =>
         root["journal"].now = NoFile /\ root["primary"].now = held.baseline
    /\ pc = "write_primary" =>
         J(root) = {Written} /\ root["primary"].now = held.baseline
    /\ pc = "write_last_good" => J(root) = {Written} /\ P(root) = {job.candidate}
    /\ pc = "remove_journal" =>
         J(root) = {Written} /\ P(root) = {job.candidate} /\ G(root) = {job.candidate}
    /\ pc \in EndPcs /\ call = "commit" =>
         /\ lib.snapshot = job.candidate /\ lib.baseline = job.candidate
         /\ lib.snapshot.revision = held.snapshot.revision + 1
         /\ root["primary"].now = job.candidate
         /\ ~lib.blocked => P(root) = {job.candidate} /\ G(root) = {job.candidate}

\* What each step of a load knows of the disk.
LoadKnows ==
    /\ pc = "finish_last_good" =>
         root["primary"].now = root["journal"].now.candidate
    /\ pc = "clear_journal" =>
         /\ root["journal"].now # NoFile
         /\ \/ P(root) = {root["primary"].now} /\ G(root) = {root["primary"].now}
               /\ root["primary"].now = root["journal"].now.candidate
            \/ /\ root["primary"].now = root["journal"].now.expected
               /\ root["primary"].now # root["journal"].now.candidate
    /\ pc \in {"read_primary", "restore_primary"} /\ ~lib.blocked =>
         root["journal"].now = NoFile
    /\ /\ pc \in {"read_primary", "restore_primary"}
       /\ root["primary"].now = NoFile /\ root["journal"].now # NoFile
       => root["journal"].now.expected = NoFile
    /\ pc = "restore_primary" => root["primary"].now = NoFile
    /\ pc \in {"recover_intent", "rollback"} \cup EndPcs /\ call # "commit" =>
         /\ Decoded(lib) /\ lib.baseline = root["primary"].now
         /\ lib.baseline = NoFile => root["last_good"].now = NoFile
         /\ ~lib.blocked => root["journal"].now = NoFile

\* Whatever a power loss leaves of the root directory loads as the settled
\* library or a later one, and the call in progress knows where it stands.
Known ==
    /\ Disk(root, settled, Slack) /\ Newer(accepted, settled)
    /\ HeldKnows /\ SaveKnows /\ LoadKnows

Recoverable == Readable => Known

-----------------------------------------------------------------------------
(* What the library that may be written to, and the intents, have to do    *)
(* with the disk                                                           *)

\* Neither a read error nor decay, nor a discarded candidate, has come between
\* the worker and the disk.
Trusted == PrimaryTrusted /\ spent["discards"] = 0

\* The held library is loaded from this disk and no commit has begun to write.
Holding ==
    /\ held \in Libraries /\ ~held.blocked
    /\ \/ phase \in {"ready", "conflict"} /\ call = "none"
       \/ pc \in {"begin", "write_intent", "stage", "preflight", "write_journal"}

\* Every image of directory d loads as baseline b.
LoadsAs(d, b) == P(d) = {b} /\ (b = NoFile => G(d) = {NoFile})

\* What the worker holds is what the disk has, for good.
HeldIsOnDisk == Holding => LoadsAs(root, held.baseline)

\* The snapshots that a start may find in directory d.
Findable(d) == (P(d) \cup IF NoFile \in P(d) THEN G(d) ELSE {}) \ {NoFile}

\* Intent i, of which directory d may have an image, has authority over d.
Authority(d) ==
    \A k \in Intents : \A i \in Images(d[k]) \ {NoFile} :
      /\ i \in IntentRecords /\ Findable(d) \subseteq {i.base, i.candidate}
      /\ NoFile \in P(d) => i.base = DefaultSnapshot

\* The intent of the commit in progress.
Own == [base |-> held.snapshot, candidate |-> job.candidate]

\* A commit begins without any other intent, which may still have images that
\* only the sync of the journal excludes.
OwnIntentOnly ==
    /\ pc \in {"write_intent", "stage", "preflight", "write_journal"} => ~held.blocked
    /\ pc = "write_intent" => Present = {} /\ work.intent = Own
    /\ pc \in {"stage", "preflight", "write_journal"} =>
         \A k \in Intents : root[k].now \in {NoFile, Own}
    /\ pc = "write_primary" =>
         \A k \in Intents : Images(root[k]) \subseteq {NoFile, Own}

\* Where no operation failed, every intent is synced; and no two of them are
\* present unless a power loss brought one back.
OneIntent ==
    /\ spent["faults"] = 0 /\ spent["kills"] = 0 =>
         \A k \in Intents : Images(root[k]) = {root[k].now}
    /\ OneKindOfFailure => \A k \in Present, l \in Present : k = l

Settling ==
    /\ Trusted => HeldIsOnDisk /\ Authority(root)
    /\ OwnIntentOnly /\ OneIntent

-----------------------------------------------------------------------------
(* The pending candidate                                                   *)

\* While the disk is trusted the primary is the one the held library was
\* loaded from or the candidate that a commit, perhaps a failed one, writes;
\* and a retry therefore never meets another library.
PendingOnDisk ==
    /\ phase # "conflict"
    /\ held \in Libraries =>
         \/ root["primary"].now = held.baseline
         \/ /\ phase = "pending" \/ call = "commit"
            /\ root["primary"].now = job.candidate

\* An edit changes the bytes of no attachment, also when it is retried.
EditKeepsBytes ==
    (phase \in Pending \/ call = "commit") /\ held \in Libraries /\ job.op = "save"
      => job.candidate.bytes = held.snapshot.bytes

Retrying ==
    /\ call = "retry" => phase \in Pending
    /\ Trusted => PendingOnDisk /\ EditKeepsBytes

-----------------------------------------------------------------------------
(* The intent of the call in progress, and every other                     *)

\* Intent i is one that a commit of kind k may have written.
Proper(k, i) == i.candidate \in Candidates(k, i.base)

IntentsAreProper ==
    \A k \in Intents : \A i \in Images(root[k]) \ {NoFile, Corrupt} : Proper(k, i)

\* The intent being worked on is the one on the disk, and the only one.
Working == Present = {work.kind} /\ root[work.kind].now = work.intent

WorkIsOnDisk ==
    /\ pc = "write_intent" =>
         /\ work.kind = job.op /\ Proper(work.kind, work.intent)
         /\ work.todo = Entries(work.intent)
    /\ pc \in SavePcs \ {"begin", "write_intent"} =>
         IF job.op = "save" THEN Present = {}
         ELSE Working /\ work.kind = job.op /\ work.intent = Own
    /\ pc = "stage" => job.op # "save" /\ work.kind \in Staging
    /\ pc \in {"settle", "rollback", "remove_intent"} => Working
    /\ pc = "return" /\ ~lib.blocked => Present = {}

\* A library that is held has no intent beside it, until a commit writes one.
NoIntentHeld == Trusted /\ Holding /\ pc \in {"idle", "begin"} => Present = {}

-----------------------------------------------------------------------------
(* The bytes of the attachments                                            *)

\* Directory e holds of attachment a what snapshot s records, and no more.
Exact(e, a, s) == e[Managed(a)].now = s.bytes[a] /\ e[Staged(a)].now = NoFile

\* An attachment that is created or rewritten is ready to be committed.
Ready(e, k, a, b) == e[IF k = "rewrite" THEN Staged(a) ELSE Managed(a)].now = b

\* While an intent of kind k turns the bytes old of an attachment into new,
\* its managed file holds m and its staged one g, before the candidate is the
\* library that loads (`based') and after.
Midst(k, based, old, new, m, g) ==
    IF based
    THEN \/ k \in {"import", "bundle"} /\ m \in {NoFile, Torn, new} /\ g = NoFile
         \/ k \in Erasing /\ m = old /\ g = NoFile
         \/ k = "rewrite" /\ m = old /\ g \in {NoFile, new}
    ELSE \/ k \in {"import", "bundle"} /\ m = new /\ g = NoFile
         \/ k \in Erasing /\ m \in {old, NoFile} /\ g = NoFile
         \/ k = "rewrite" /\ m = old /\ g = new
         \/ k = "rewrite" /\ m = new /\ g \in {NoFile, new}

\* Directory e holds of attachment a what intent i of kind k may have left
\* there while snapshot s is the one that loads.
Underway(e, k, i, a, s) ==
    Midst(k, s = i.base, i.base.bytes[a], i.candidate.bytes[a],
          e[Managed(a)].now, e[Staged(a)].now)

\* The intent of kind k that d has names attachment a.
Names(d, k, a) == d[k].now # NoFile /\ a \in Entries(d[k].now)

\* The attachments match the library, but for the entries of an intent.
BytesMatch(d, e) ==
    \A a \in Attachments :
      /\ (\A k \in Intents : ~Names(d, k, a)) => Exact(e, a, Found(d))
      /\ \A k \in Intents :
           Names(d, k, a) => Underway(e, k, d[k].now, a, Found(d))

\* What the call in progress has done to the entries of its intent.
BytesDone ==
    /\ pc \in {"stage", "settle", "rollback"} =>
         work.todo \subseteq Entries(work.intent)
    /\ pc = "stage" =>
         \A a \in Entries(work.intent) \ work.todo :
           Ready(atts, work.kind, a, NewBytes(a))
    /\ pc \in {"preflight", "write_journal", "write_primary"} /\ job.op \in Staging =>
         \A a \in Entries(work.intent) : Ready(atts, work.kind, a, NewBytes(a))
    /\ pc = "settle" => Found(root) = work.intent.candidate
    /\ pc = "rollback" => Found(root) = work.intent.base
    /\ pc \in {"settle", "rollback"} =>
         \A a \in Entries(work.intent) \ work.todo : Exact(atts, a, Found(root))
    /\ pc = "remove_intent" => \A a \in Attachments : Exact(atts, a, Found(root))

\* Where no operation failed every file but the journal is synced.
Synced ==
    spent["faults"] = 0 /\ spent["kills"] = 0 =>
      /\ \A f \in RootFiles \ {"journal"} : Images(root[f]) = {root[f].now}
      /\ \A f \in AttachmentFiles : Images(atts[f]) = {atts[f].now}

Keeping ==
    /\ Retrying /\ IntentsAreProper /\ WorkIsOnDisk /\ NoIntentHeld /\ Synced
    /\ Trusted /\ OneKindOfFailure => BytesMatch(root, atts) /\ BytesDone

-----------------------------------------------------------------------------
(* The last known good as a stand-in, short of power losses                *)

Prim == root["primary"].now
Back == root["last_good"].now
Jour == root["journal"].now

\* Neither file that a start may load is behind the settled library, and they
\* differ only by what the journal commits, or decay.
FilesStand ==
    /\ \A c \in {Prim, Back} \ {NoFile, Corrupt} : Newer(c, settled)
    /\ Prim = NoFile => Back = NoFile /\ settled = DefaultSnapshot
    /\ Jour = NoFile =>
         \/ Prim = Back
         \/ Back = Corrupt /\ Prim # NoFile
         \/ Prim = Corrupt /\ Back # NoFile
    /\ Jour \notin {NoFile, Corrupt} =>
         /\ {Prim, Back} \subseteq {Jour.expected, Jour.candidate, Corrupt}
         /\ Prim = Jour.expected => Back \in {Prim, Corrupt}

\* A library that was loaded or saved is what its baseline encodes and is not
\* behind the settled one.
LibraryStands(l) == Decoded(l) /\ Newer(l.snapshot, settled)

\* What each step of a save sees.
SaveStands ==
    /\ pc \in {"write_journal", "write_primary", "write_last_good",
               "remove_journal"} =>
         job.candidate.revision = held.snapshot.revision + 1
    /\ pc \in {"write_journal", "write_primary"} => Prim = held.baseline
    /\ pc = "write_journal" => Jour = NoFile
    /\ pc \in {"write_primary", "write_last_good", "remove_journal"} =>
         Jour = Written
    /\ pc \in {"write_last_good", "remove_journal"} => Prim = job.candidate
    /\ pc = "remove_journal" => Back = job.candidate

\* What each step of a load sees.
LoadStands ==
    /\ pc = "finish_last_good" => Prim = Jour.candidate
    /\ pc = "clear_journal" =>
         /\ Jour \notin {NoFile, Corrupt}
         /\ Prim = Jour.expected \/ Prim = Back
    /\ pc \in {"read_primary", "restore_primary"} /\ ~lib.blocked => Jour = NoFile
    /\ pc \in {"recover_intent", "rollback"} \cup EndPcs =>
         /\ LibraryStands(lib) /\ lib.baseline = Prim
         /\ ~lib.blocked => Jour = NoFile

\* As long as no power failed, whatever may be loaded stands in for the settled
\* library.
Stands ==
    /\ Newer(accepted, settled) /\ FilesStand /\ SaveStands /\ LoadStands
    /\ held \in Libraries => LibraryStands(held)

StandsIn == spent["losses"] = 0 => Stands

-----------------------------------------------------------------------------
(* The bytes that the primary and its backup name                          *)

\* Directory e has a file for every attachment that c, if a snapshot, records.
Has(e, c) == c # NoFile => \A a \in Recorded(c) : e[Managed(a)].now # NoFile

\* The journals that a start may find: a removed one may come back, but not
\* where the process was killed, for then no power fails.
Journaled == IF spent["kills"] = 0 THEN J(root) ELSE {Jour}

\* The primary and its backup have their bytes, and while they differ every
\* journal commits that primary.
FilesBacked ==
    /\ Corrupt \notin P(root) \cup G(root) \cup J(root)
    /\ Has(atts, Prim) /\ Has(atts, Back)
    /\ Prim = NoFile => Back = NoFile
    /\ Prim # Back => \A j \in Journaled : j # NoFile /\ j.candidate = Prim

\* The primary is the one the held library was loaded from, until a commit
\* replaces it.
HeldBacked ==
    held \in Libraries =>
      /\ phase # "conflict" /\ Decoded(held)
      /\ \/ call # "commit"
         \/ pc \in {"begin", "write_intent", "stage", "preflight",
                    "write_journal", "write_primary"}
         => Prim = held.baseline
      /\ EditKeepsBytes

\* What each step of a save knows of the bytes.
SaveBacked ==
    /\ pc = "stage" /\ work.kind # "rewrite" =>
         \A a \in Entries(work.intent) \ work.todo : atts[Managed(a)].now # NoFile
    /\ pc \in {"preflight", "write_journal", "write_primary"} =>
         Has(atts, job.candidate)
    /\ pc = "write_primary" =>
         \A j \in Journaled : j # NoFile /\ j.candidate = job.candidate
    /\ pc \in {"write_last_good", "remove_journal"} => Prim = job.candidate

\* The backup has caught up with the primary before the attachments of an
\* intent are settled, and neither names the bytes that are erased.
SettleBacked ==
    /\ pc \in {"write_journal", "write_primary", "remove_journal", "clear_journal",
               "read_primary", "restore_primary", "recover_intent", "rollback"}
                 \cup EndPcs => Prim = Back
    /\ pc = "finish_last_good" => Jour # NoFile /\ Prim = Jour.candidate
    /\ pc \in {"recover_intent", "rollback"} \cup EndPcs =>
         Decoded(lib) /\ lib.baseline = Prim
    /\ \/ pc = "settle" /\ work.kind \in Erasing
       \/ pc = "rollback" /\ work.kind # "rewrite"
       => \A a \in work.todo : Prim = NoFile \/ Prim.bytes[a] = NoFile

\* Only entries of the intent are still to do.
EntriesLeft ==
    pc \in {"stage", "settle", "rollback"} => work.todo \subseteq Entries(work.intent)

\* Without medium errors, and with power losses or killed processes but not
\* both, the backup has the bytes that it names.
Backed == FilesBacked /\ HeldBacked /\ SaveBacked /\ SettleBacked /\ EntriesLeft

OneFailure ==
    spent["faults"] = 0 /\ spent["decays"] = 0 /\ OneKindOfFailure

Backing == OneFailure => Backed

=============================================================================
