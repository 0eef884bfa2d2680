# Lulo OS in TLA+

Lulo OS (`rmac` in the code) is a desktop for Linux written in Rust: some 140
crates, with applications over a set of platform and storage crates. This
project specifies the parts of it where a mistake costs the user data or the
session and where tests reach least:

* the crash-safe **Notes** library, from the durable file primitives of
  `rmac-storage` up to the repository worker, and the way of an edit from the
  editor into that library;
* the **Trash** of the Files application, with its recovery of interrupted
  operations among the changes of other programs;
* the **lock screen**: the locker process, the coordinator that locks before
  sleep, the power button and the fallback locker;
* **safe mode** of the session.

They are model-checked with TLC on small instances; their safety properties,
and the refinements of the accepted Notes library and of the secure lock, are
proved with TLAPS for every instance.

## Inventory

| Component | State | Operations | What makes it correct |
|---|---|---|---|
| **Durable file primitives**, `rmac-storage/src/write.rs` | one directory: what is visible, what is durable | replace atomically, create, unlink, sync | an operation reports success only when its effect is durable; an error says nothing about what is visible |
| **Library store**, `rmac-notes-storage/src/{store,journal,purge,attachment,orphan,bundle_import,rewrite}.rs` | `primary`, `last_good`, `journal`, five private intent files, managed attachment files | `load`, `save`, `save_attachment_import`, `save_bundle_import`, `save_attachment_rewrite`, `save_purge`, `save_orphan_collection` | a reported library is never lost; recovery always knows which side of an interrupted transaction it is on; attachment bytes and records agree |
| **Accepted library**, `rmac-notes-storage/src/repository.rs` | the loaded snapshot, its baseline and notices; a retained candidate | `open`, six commits, `retry` | a failed candidate is kept intact and committed exactly once |
| **Repository worker**, `rmac-notes-runtime/src/worker.rs` | phase (Review, Ready, Pending, Stopped), drafts, scheduler, key ring | one command each; retry, discard, resolve a conflict | no mutation passes a pending one; an edit is in the library or in a draft |
| **Edit scheduler**, `rmac-notes-runtime/src/scheduler.rs` | pending edit, deadline, highest generation | schedule, flush, cancel, take due | the newest edit wins, none is dropped on a note switch |
| **Draft records**, `rmac-notes-storage/src/drafts.rs` | one private file per dirty note | save, load, discover, remove | bounded; one bad record hides no other |
| **Migration and start-up**, `rmac-notes-storage/src/{migration,startup,legacy_scan}.rs` | the legacy library, the reviewed plan | inspect, review, commit | commits only what was reviewed, never twice |
| **Writer lease**, `rmac-notes-storage/src/writer.rs` | a lock file | acquire, release | one writer of a library at a time |
| **Notes session**, `rmac-notes-runtime/src/session.rs` | the window's view of the worker | apply events | never shows an older state than it was told of |
| **Files: the Trash**, `finder/src/trash_store.rs` | items, `.trashinfo` files, one transaction record, one hidden delete stage | trash, restore, delete permanently, list, recover, review, accept a resolution | no item is lost or overwritten; an interrupted operation ends or says that it needs repair by hand |
| **Files: undo receipts**, `finder/src/undo_journal.rs` | a receipt per finished operation | archive, promote, prune, undo the latest | an undo is offered for what was finished only, and applied once |
| **Files: transfer journal**, `finder/src/operation_journal.rs` | copy, move and replacement records | begin, progress, resume | resumed or undone after a crash, never applied twice |
| **Lock screen process**, `rmac-lock-provider`, `rmac-lock-provider-linux` | provider phase, attempt, queued input, prompt, PAM worker, wire phase | wire events, keys, prompts, ends of workers | stays locked until PAM passed an attempt nobody cancelled |
| **Lock coordinator, fallback, power button**, `rmac-shortcuts/src/{lock,power_key}.rs`, `rmac-session/units` | units and their restarts, LockedHint, sleep inhibitor, press window | lock, lock before sleep, judge a press, supervise swaylock | a lock request that succeeds has locked; a locked session always has a locker |
| **Session supervisor and login wrapper**, `rmac-session/src/{supervisor,main}.rs`, `packaging/rmac-session/rmac-wayland-session` | safe-mode marker, record of this login, the two targets | observe a failure, begin a login, notify, clear | a crash loop ends in safe mode, safe mode lasts one login |
| **Notifications, Focus, launcher and shell coordinators, Polkit agent** | reducers and request queues | events and asynchronous results | results of an older generation change nothing |
| **Mail, Calendar, compositor adapter, UI** | protocol state against external services; views | - | I/O and rendering: outside the reach of this project |

**Notes.** The window sends commands to the one worker
thread; the worker builds a `LibraryTransaction` on the held snapshot, finishes
it into a candidate and hands it to `AcceptedLibrary`, which calls the store
under its transaction lock; the store calls the `rmac-storage` primitives. An
edit is first debounced by the scheduler, then written as a draft, then
committed, and its draft is removed once the commit is accepted. The
answer is `Accepted` (perhaps with maintenance pending, which blocks further
writes until a reload repairs it) or `Pending` (the candidate is retained).
Nothing in the store runs concurrently with itself, and yet every
file operation can be interrupted, can report an error after it took effect,
and leaves changes that a power loss keeps or drops independently of each
other; a transaction is up to a dozen such operations, followed by a recovery
that can be interrupted in turn. Between window and worker commands and events
pass through bounded queues, so the window acts on a view that may be old.

**Files.** Every Trash call holds one kernel lock and starts by recovering the
record an earlier one left. Other programs hold no lock: they edit, create and
remove the same files between any two steps. What recovery cannot decide is
captured in a review, shown, and accepted later, when everything may have
changed again.

**Lock and session.** systemd starts the locker, restarts it a limited number
of times and then starts a fallback; the coordinator asks for a lock on logind's
signals and blocks while it waits; the locker holds a Wayland lock and runs PAM
in a thread that cannot be cancelled, only drained. Components that exhaust
their restarts leave a marker for the next login, written by a unit that
outlives the session. Every one of these processes may die at any step.

`PROJECT.json` lists the hazards of this code, each at its line.

## Modules

* `RmacStorage` models the primitives. A file is `[now, may]`: what a read
  returns, and everything a power loss may leave. A rename, create or unlink
  changes `now` and adds to `may`; `Sync` (fsync of the directory) makes every
  entry's `may` its `now`. A primitive is the *set* of its results `[ok, dir]`,
  with the errors it can report before and after its effect. File *contents*
  are synced before the rename, so only directory entries are ever open; a file
  created in place (`WriteNew`) may also be `Torn`.
* `NotesStore` models the store, the accepted library and the worker's phases.
  `root` and `atts` are the two directories; `phase`, `held` and `job` are the
  worker (`AcceptedLibrary.loaded`, `PendingCommit`); `call`, `pc`, `lib` and
  `work` are the call in progress, whose every step does at most one file
  operation. `accepted` and `settled` record what the application was told: the
  last library reported, and the last one reported without a blocking notice.
  `spent` counts failures per kind against their bounds.

  | Steps | Code |
  |---|---|
  | `Commit`, `Begin`, `WriteIntent`, `StageNew`, `StageRewrite`, `StageDone` | heads of the `save_*` functions, `prepare` and `stage` of the intents |
  | `Preflight`, `WriteJournal`, `WritePrimary`, `WriteLastGood`, `RemoveJournal` | `save_locked` |
  | `Erase`, `ReplaceManaged`, `RemoveStaged`, `VerifyStaged`, `RollBack`, `Settled`, `RemoveIntent` | `cleanup`, `finish`, `verify_staged`, `rollback(_staging)`, `remove_*_intent`, after a save and in `recover_*` |
  | `Open`, `RecoverJournal`, `FinishLastGood`, `ClearJournal`, `ReadPrimary`, `RestorePrimary`, `RecoverIntent` | `load_locked` and `recover_journal` |
  | `Return`, `Retry`, `Discard`, `Resolve` | `retry`, `commit_candidate`, and the worker's `RetryPending`, `DiscardPending`, `ResolvePendingConflict` |
  | `ReadFault`, `Kill`, `PowerLoss`, `Decay`, `Quit` | failures; `Kill` and `PowerLoss` may also fall inside a file operation (`RootMidway`, `AttsMidway`) |

  Abstracted: encoding and SHA-256 are injective, so files hold snapshots and
  a hash stands for what was hashed; a snapshot keeps its revision, one text,
  the bytes each attachment record names and the next attachment id; the
  notices of a load are kept as one flag, whether one of them blocks writing.
  A snapshot's next attachment id is above that of every record (`Valid`): both
  encoding and decoding refuse another one.
  The five intents share their steps because their code has the same shape;
  where they differ (who stages, who erases, which accept a descendant of their
  candidate) the guard says so.
* `AcceptedNotes` states what the store, the accepted library and the Pending
  phase together promise the application, without files: `found`, the library a
  start would find, becomes as a whole the one candidate `wanted`, and only if
  that is the next revision of the library the application was shown
  (`accepted`); a candidate that failed is kept until it is the library or is
  given up; a power loss leaves nothing behind what was `settled`. `NotesStore`
  is shown to **implement `AcceptedNotes`** through the instance `Accepted`:
  `found` maps to what `load_locked` would return from the files, `wanted` to the
  candidate of `job`, `conflict` to a Pending phase that waits for the
  application's decision, `intact` to a medium that has returned all that was
  written; afterwards the abstract specification promises nothing, and
  `SettledNeverLost` and `BackupStandsIn` say what still holds.
* `NotesEdits` models the scheduler, the drafts and the worker's commands for
  edits, on the same primitives. The library is abstracted to one file of its
  own directory, replaced by a verified write: a commit succeeds, or fails with
  or without the candidate on disk, and a load settles what it finds. (That the
  journal protocol delivers this is the subject of `NotesStore`; a commit
  accepted with maintenance pending is one whose successor fails once.) `drafts`
  is the drafts' directory; `phase`, `held`, `pending`, `scheduled`, `highest`,
  `recoverable` and `open` are the worker; `call` is the command it is
  processing; `shown` and `review` are what the window knows. A text is the
  number of the edit that typed it, so texts are ordered by age, and `taken` is
  per note the newest one that a draft or an accepted commit has made durable.

  | Steps | Code |
  |---|---|
  | `Start` | `run_worker`, `enter_ready`, `ReadyState::new`: load, discover, prune, offer for review |
  | `Type`, `RestoreDraft` (`ScheduleEdit`), `Due` | the window's two senders of edits, `EditScheduler::schedule`, the timer and `Flush` |
  | `Apply`, `PreserveCopy`, `CloseLockedNotes`, `Shutdown` (`FlushThen`) | commands that flush the scheduled edit first |
  | `CommitEdit`, `CommitTransaction`, `CleanupDraft`, `Return` | `commit_edit`, `commit_locked_edit`, `commit_transaction`, `cleanup_draft`, and the rest of the command |
  | `RetryPending`, `DiscardPending`, `ResolvePendingConflict` | the Pending phase |
  | `DiscardDraft`, `UnlockNotes`, `See` | draft review, key ring, an event taken from the queue |

  Generations may arrive in any order. The one window in the code sends them in
  order, but the scheduler is written to refuse stale ones, and the model lets
  it. `touch` stands for every action that changes a note without its text.
* `FinderTrash` models the Trash and its undo receipts. `disk` is what every
  program sees (items, metadata files, the original folder's identity, the
  record, the receipts) and `stable` what survives a power loss; `run` is the
  call under the lock, `seen` and `review` what the window holds. An item is its
  object, the version of its contents and its change time, which a rename moves.
  A check and the unlink directly after it are one step, and so is each other
  file operation; a check and a *rename* are two, since the code rechecks before
  it and verifies after it.

  | Steps | Code |
  |---|---|
  | `Call`, `Look`, `RecoverLocked`, `StaysPending` | entry points, `recover_locked`, `recover_restore_record`, `recover_delete_record` |
  | `TrashPrepare` .. `TrashMoved`, `Unpublish`, `Drop`, `FinishUndoable` | `trash_in_layout`, `create_info_file`, `resume_info_published`, `rollback_unmoved_trash`, `finish_undoable_record`, `archive_undo_receipt` |
  | `RestorePrepare` .. `RestoreMoved`, `FinishRestoreInfo` | `restore`, `resume_restore_prepared`, `finish_restore_info` |
  | `DeletePrepare` .. `FinishDeleteInfo` | `delete_permanently`, `resume_delete_prepared`, `resume_delete_staged` (a directory half erased included), `finish_delete_info` |
  | `UndoLatest` .. `UndoFinish` | `execute_latest`, `resume_trash_inferred`, `undo_trash`, `undo_restore` and `remove_trash_info` of `undo_journal.rs` |
  | `List`, `Capture`, `Resolve`, `ResolveReview` | `list_in_layout`, `review_pending_locked`, `resolve_review_and_refresh`, `resolve_review_locked`, `validate_review` |
  | `ReturnStage`, `Rebuild*`, `Keep*` | `recover_returned_delete_stage`, `recover_rebuilt_metadata`, `recover_conflicting_items`, also when recovery resumes them |
  | `Others`, `Stop`, `PowerLoss` | other programs; an error or kill between two steps; power |

  Abstracted: one original location, for which several items compete; a metadata
  file is ours, someone else's or torn; syncs of single directories are one
  commit of the whole disk. Emptying the Trash is a sequence of deletions.
* `SecureLock` states what a session locker promises: the session opens in one
  step only, with an attempt that passed. `LockProvider` models one
  `rmac-lock-provider` process (`c` the provider in its coordinator, `auth` and
  `worker` the PAM attempt, `wire` the lock's phase, `proc` the poll loop and the
  life cycle) and is shown to **implement `SecureLock`** through the instance
  `Lock`: `locker` maps to whether the process ended, told systemd that it is
  ready, or was given the lock; `attempt` to the coordinator's attempt, running,
  draining or passed. Every step maps to a step of `SecureLock` or a stutter.
  The pure transitions (`HandleInput`, `ShowPrompt`, `AuthenticationFinished`
  and so on) are operators on the coordinator; the actions are the turns of the
  loop (`Poll`), the keys, the compositor and PAM.
* `LockSession` composes the actions of `SecureLock` with the rest of the
  session: `unit` and `starts` (`rmac-lock.service` under systemd), `fb` (the
  fallback unit, `supervise` around swaylock), `k` (the coordinator's
  `coordinate` with the power button of `power_key.rs`), `machine` and `inbox`
  (logind's sleep and its signals). Since `LockProvider` implements
  `SecureLock`, the locker here is the one the code runs, without its keys and
  prompts. A start job is `JobBegins` and `Answer`; `request()` blocks the
  whole loop, so everything else queues in `inbox`; time is two flags. logind's
  locked hint is written best effort (`SetHint`) and may be unreadable
  (`SessionLocked`).
* `SafeMode` models the marker on a directory of `RmacStorage`, the wrapper and
  `begin_login`, one `observe-failure` per unit, the notice and
  `clear-safe-mode`, each a process of its own that may be anywhere when the
  next login starts. Every command they call may fail and ends them: `systemctl`
  without health that parses, a marker that cannot be written, a target that
  cannot be stopped or started (`GivesUp`); a marker or record that cannot be
  cleared, `reset-failed`, `niri`. `Leave` is typed on any terminal, whatever
  the session does.
* `NotesStoreInv` holds the inductive invariants of the store: `Control`,
  `Known` (checked as `Recoverable` by the run `save`), `Offered`, `Settling`, `Keeping`,
  `StandsIn` and `Backing` (any instance may name them as invariants; they take
  half as long again, so the runs leave them to the proofs). The proofs are in
  `NotesStoreRecoveryProof` and `NotesStoreBytesProof`, which build on each
  other and on `RmacStorageProofs`. `NotesEditsProofs`, `FinderTrashProofs`,
  `LockProviderProofs`, `LockSessionProofs` and `SafeModeProofs` each begin with
  the inductive invariant of their component and end with its theorems. The
  modules whose names begin with `MC` are the instances for TLC.

Every definition named `Bug...` is a plausible mistake in the code, used to
show that a property can fail: it replaces the definition it stands before.

## Runs

Two texts and two byte contents are the least with which a wrong one can be told
from the right one. `MaxRevision` is 2 to 4, that is one to three commits; the
instances start on an empty library or on one with an attachment. Failures are
bounded per kind; in `FinderTrash` the failures and the changes of other
programs, and in `NotesEdits` kills and power losses, are also bounded together.
Liveness costs TLC several times what safety does, so where a component has more
of both than one instance holds, it has runs of its own with smaller bounds
(`retry`, `restart`, `trash_live`).

| Run | Instance | Shows |
|---|---|---|
| `save` | edits, 3 commits, 2 faults, 1 read fault, 1 decay, 1 kill, 2 power losses, 1 discard | `TypeOK`, `SettledNeverLost`, `AtRestIsDurable`, `BackupStandsIn`, the refinement `ImplementsAccepted` and the inductive invariant `Recoverable` |
| `stage` | import, bundle import, rewrite, purge and orphan collection, 2 attachments, 1 fault, 1 kill, 2 power losses | `NoDanglingAttachment`, `NoLeftovers`, `IntentHasAuthority`, `BackupKeepsItsBytes` |
| `retry` | edits, purges and rewrites with faults and a kill, with fairness | `PendingResolves`, `StartsWritable` |
| `restart` | the same with two power losses and nothing else | `StartsWritable` |
| `edits` | 2 notes, 3 edits, 1 other action, 1 copy, and 1 fault, discard, and kill or power loss, with fairness | `EditsTypeOK`, `EditSurvives`, `StaleNeverApplies`, `LockedHasNoDraft`, `ReviewMatchesDisk`, `NewestWins`, `EditSettles` |
| `trash` | 2 names, 2 calls, 2 changes of other programs, 2 failures, at most 3 of both | `TrashTypeOK`, `StageIsOwned`, `ItemHasInfo`, `NothingLost` |
| `trash_live` | 3 names, 2 calls, 1 change, 1 failure, with fairness | `RecordsDrain` |
| `provider` | 5 keys, a queue of 2, 2 prompts per conversation, with fairness | `ProviderTypeOK`, `AuthorityFromPam`, `TypedForThisAnswer`, `NoErrorOfItsOwn`, `ImplementsSecureLock`, `TypingRestartsAuthentication` |
| `session` | start limit 2, 3 crashes of any process, 2 requests, sleeps or presses, with fairness | `SessionTypeOK`, `AwakeIsGuarded`, `RequestLocks`, `LockedHasALocker`, `RequestEndsLocked` |
| `safemode` | 1 essential component and 1 other, 2 logins, 2 failures, 1 use of the leave command, 2 troubles, with fairness | `SafeModeTypeOK`, `OneSafeLogin`, `ClearedStaysCleared`, `FailureIsAnswered` |
| `doc_review`, `doc_shutdown` | two statements of the documents that the code does not keep | a counterexample each, see below |

Why these bounds. *Notes:* two power losses are enough for the second to hit the
recovery from the first; two faults (in `save` and `retry`) for the retry of a
failed step to fail as well; three commits for an old journal to come back two
libraries later; three edits of two notes are the least in which one is
coalesced or displaced while another is being committed and a third is restored
from its draft.
*Trash:* two calls are an operation and its undo or a competitor for its name;
two failures interrupt the recovery from an interruption, or take a failed sync
back; two changes can make a conflict and then disturb its resolution, for which
`trash_live` has a third name; three of both put a change of another program
into the recovery from an interrupted recovery, or an interruption into a
disturbed resolution. *Lock:* five keys hold two answers, a cancellation and
text typed ahead in one life of the process; a queue of two overflows. A start
limit of two and three crashes exhaust the limit and then hit the fallback or
the coordinator; two requests or sleeps are one that meets another. *Safe mode:*
two logins show that safe mode ends, two failures that a second one is not taken
for the first; one essential component can fail in both logins, the other must
never start safe mode, and a second trouble hits the recovery from the first.

Several properties are conditional, and the conditions are part of the result.

* `PrimaryTrusted`: no read error or decay made the primary give way to the
  backup. `OneKindOfFailure`: power losses do not come on top of failed syncs or
  killed processes, because several retries take a *visible* state for a durable
  one; with both, `StartsWritable` fails too (a rewrite after a failed sync),
  which is why `retry` and `restart` are two runs. `spent["discards"] = 0`:
  `discard_pending_state` does not reload.
* `spent["faults"] = 0` in `LockedHasNoDraft` and `ReviewMatchesDisk`: the worker
  goes on when a draft cannot be removed. `EditSurvives` exempts a lock that was
  discarded and is still on disk, since the next start prunes the note's drafts.
* `ItemHasInfo` speaks of names no other program touched; `NothingLost` of
  objects that no other program removed and whose deletion nobody confirmed.
  `RecordsDrain` counts "requires manual repair" as an answer.
* `NoErrorOfItsOwn` leaves out three errors a PAM stack can bring about (it asks
  again after Escape, sends a binary prompt, or panics): the process then ends
  with the session locked.
* `RequestLocks` allows for a user who has unlocked but whose locker has not
  exited yet. `RequestEndsLocked` excludes a unit that had already failed for
  good, because systemd need not take `OnFailure=` again. Both liveness
  properties give up when the machine sleeps.
* `OneSafeLogin` and `ClearedStaysCleared` exempt the markers that a power loss
  brought back and those the wrapper said it could not clear.
  `ClearedStaysCleared` speaks of every clear but one that comes between the
  reading of the marker and the start of the desktop: that login goes on.
  `FailureIsAnswered` says that an exhausted essential component brings the
  session into safe mode while the login lasts; it exempts the failures whose
  observer ended with an error, which `observe-failure` does not retry.

`RestartUnit` carries one assumption of timing: after `RestartSec=1s`, a
`supervise` whose swaylock has unlocked has exited. Without it a unit that
fails for good in that second would find its fallback still active.

**Fairness.** `LiveSpec` of `NotesStore` asks for weak fairness of the worker's
own steps (a thread that runs its call to the end), of opening a closed library
and of retrying a pending candidate. The last two are the user's: nothing in the
code retries by itself, and the properties say that a user who does so is not
stuck. `LiveSpec` of `NotesEdits` asks for weak fairness of the worker's steps
and of `Due` only: the worker's loop waits with the scheduler's deadline as its
timeout (`wait_for_command`), so the timer fires in every Ready phase.
`TrashLiveSpec` asks that a call runs on until it returns, and, strongly, that
the user looks at the recovery sheet and accepts what it offers again and again:
nothing else resolves a review, and between two looks another call may hold the
lock. `ProviderSpec` asks for weak fairness of `Poll`, the loop that polls at
least every 50 ms, and of the end of a PAM conversation that waits for no answer.
`SessionLiveSpec` asks that systemd restarts what failed, that live processes
take their next step and that the compositor answers; nothing of the user, of
crashes or of sleep. `SafeModeSpec` asks that an observer, a oneshot unit, runs
to its end. Nothing is assumed of failures, which are bounded.

**Deadlock** is checked in every run but three: a locker process really ends
(`provider`), and a session in which nobody asks for anything is idle once the
bounded events are used up (`session`, `safemode`).

## Where the documents and the code differ

* `doc_review`: Keep Both is accepted, and the visible item is removed before
  the resolution has run. The recovery sheet then offers to return the remaining
  item, but accepting it keeps the fields of the first resolution in the record,
  which never validates (`trash_store.rs:1930`). The offered action fails every
  time and every Trash action stays blocked, against `finder/SPEC.md:249`.
* `doc_shutdown`: when the commit of a displaced edit fails just before the
  window closes, the accepted shutdown drops the edit scheduled after it.

Others are kept as property definitions in the modules without a run of their
own; each is violated within seconds in the instance named here.

| Property | Instance | What happens |
|---|---|---|
| `UnlinkedAfterMaintenance` | `NotesStore`, Spec, `{"purge"}`, OneAttachment, MaxRevision 2, 1 fault, 1 kill | recovery of a purge erases bytes although refreshing the backup just failed and the journal still stands (`store.rs:763`; notes `SPEC.md:239`) |
| `ErasureIsDurable` | the same without the kill | after an unlink whose sync failed, recovery takes the missing file for a finished erasure and never syncs the directory (`purge.rs:273`) |
| `AcceptedIsDurable` | `{"save"}`, FirstStart, MaxRevision 3, 2 faults, 1 power loss | a retry can adopt a primary that was never synced; its draft is removed and a power loss takes the edit back (`repository.rs:321`; `SPEC.md:94`) |
| `NothingOvertakes` | `{"save", "purge"}`, OneAttachment, MaxRevision 2, 1 fault, 1 discard | after discarding a candidate whose primary was written the worker holds a stale library, and the next intent is stranded (`worker.rs:2486`; `SPEC.md:542`) |
| `PendingResolves` | LiveSpec, `{"import"}`, FirstStart, MaxRevision 2, MaxAttachment 1, 1 fault | a half-written staged file makes every retry of an import fail (`attachment.rs:420`; `SPEC.md:284`) |
| `LeftoversAreValid` | `FinderTrash`, TrashSpec, 3 names, 3 calls, 1 fault | undoing a put-back is killed between creating and filling the metadata file: an empty file is left and the whole listing fails (comment at `trash_store.rs:804`) |
| `UndoOfferWorks` | the same | an undo interrupted after it restored the item stays begun and keeps every later undo from being offered |
| `WakePressIgnored` | `LockSession`, SessionSpec, start limit 2, no crash, 3 events | the press that woke the machine may be handled before the wake signal, as `select!` takes any branch that is ready, and sends the machine back to sleep (`power_key.rs:32`; `docs/decisions/0020`:123) |

## Proofs

**Notes.** From `ConstantsAssumption` (bounds are naturals, operations are the
six) and `DistinctAssumption` (the special contents differ from real ones), for
all sets of texts and bytes and all bounds:

* `TypeCorrect`: `Spec => []TypeOK`. `TypeOK` alone is not inductive, since a
  step needs to know that the library, the candidate or the intent it works on
  is there; `Control` says which `pc` may rely on what.
* `AlwaysRecoverable`: `Spec => []Recoverable`. The heart of the project. The
  inductive invariant `Known` is about *every image* of the root directory that
  a power loss may leave: `Solid` (none is older than the settled library),
  `PrimaryNewest`, `JournalBrackets` (a journal leads from an older primary to a
  newer one and the primary is one of the two) and `BackupCovers` (the backup is
  as new as the primary, or a journal commits the primary); and about what each
  step of a save or a load knows of them (`HeldKnows`, `SaveKnows`,
  `LoadKnows`). The lemmas show once that `Disk` survives a sync, a power loss
  and each of the five changes made to the deciding files; every action is then
  one of these changes or none.
* `NeverLost` (`SettledNeverLost`, an action property): only `Return` changes
  what the application is shown, and at that point `Known` makes the loaded or
  saved library at least as new as the settled one (`ReportedDisk`).
* `ImplementsLibrary`: `Spec => ImplementsAccepted`, the whole refinement, on
  `Known` and `Offered` (what is held is what was last shown, and a candidate is
  there exactly while a call or the Pending phase has one). `MidwayFound` carries
  it: of all file operations, finished or interrupted, only the writing of the
  primary changes what a start would find, and `WritesNext` says that this makes
  the next library out of the one shown. So every step within a call commits the
  candidate or stutters, a return shows what is found (`ReturnsFound`), and what
  a power loss leaves is as new as the settled library by `Solid`.
* `NeverAmbiguous` (`JournalNeverAmbiguous`): recovery of the journal is never
  ambiguous. It follows from `Known` directly, so no run checks it beside
  `Recoverable`.
* `AlwaysSettling`: `Spec => []Settling`, while the primary is trusted and
  nothing was discarded. `Known` lets a load find something *newer* than what
  was reported, as a failed commit may; `Settling` says where it cannot. What is
  held and not blocked is what every image of the disk loads as
  (`HeldIsOnDisk`): a commit first syncs the directory with its journal. Every
  image of an intent has its base or its candidate as everything a start may
  find (`Authority`), and a commit writes its journal beside no intent but its
  own (`OwnIntentOnly`). From it follow `AtRestAlwaysDurable`
  (`AtRestIsDurable`) and `IntentAlwaysHasAuthority` (`IntentHasAuthority`).
* `AlwaysKeeping`: `Spec => []Keeping`. The attachments' files relate to
  `Found`, the library a load would find at this moment. An attachment that the
  intent on the disk does not name is `Exact`; one that it names is `Underway`:
  its two files are in one of the states that an import, a rewrite, a purge or a
  collection passes through before or after its candidate becomes the primary
  (`Midst`). A call that a power loss or a kill interrupts in the middle of a
  file operation shows one half of it or the other, and both keep `BytesMatch`.
  `BytesDone` says of each step which entries it has finished;
  `WorkIsOnDisk`, that the intent it works on is the one on the disk;
  `Retrying`, that a retry meets its base or its candidate and never the
  conflict phase, and that an edit, retried or not, names the same bytes as the
  library it was made on; `Synced`, what needs no second sync where only the
  power failed.
  At rest no intent is left, so everything is exact: `NeverDangling`
  (`NoDanglingAttachment`) and `NeverLeftovers` (`NoLeftovers`).
* `AlwaysStandsIn`: `Spec => []StandsIn`, short of power losses, but with every
  read error and decay of either file. Neither file that a start may load is
  behind the settled library, and they differ only by what the journal commits
  or by decay (`FilesStand`); the steps of a save and of a load know which of
  the two they are at (`SaveStands`, `LoadStands`). `BackupAlwaysStandsIn` is
  the action property `BackupStandsIn`, whose own words say nothing of the steps
  between two reports.
* `AlwaysBacking`: `Spec => []Backing`, with power losses or killed processes,
  not both, and without failed operations and decay. `Keeping` is about the
  library that loads; the backup is a step behind it while a commit is under
  way, when an erasing commit already works on the bytes. `FilesBacked`:
  primary and backup have their bytes, and while they differ every journal that
  a start may find commits that primary. `HeldBacked` and `SaveBacked` say the
  same of the library a commit begins on and of its candidate; `SettleBacked`,
  that before the first byte is erased or rolled back the two files are the
  same and name none of what is about to go. It stands on `Keeping` and
  `Settling` and gives `BackupAlwaysKeepsItsBytes` (`BackupKeepsItsBytes`).

`RmacStorageProofs` has the lemmas on the primitives: they keep a directory
well typed and touch one path, and a sync or a power loss leaves one of the
images.

**Edits.** From `EditBounds` (bounds are naturals, finitely many notes) and
`NothingIsNone` (the absent edit, transaction and draft differ from real ones),
in `NotesEditsProofs`, by one inductive invariant, `EditsInv`:

* `OnRoot`: while the worker runs the library file is what it holds, or the one
  candidate that follows it. `Live` collects all snapshots that may become the
  library: images of the file, the held one, undecided candidates.
* `Open`, `Underway`, `Reviewed`, `DraftOrder`: no edit on its way, transaction
  or draft is older than its note in any live library, unless its base revision
  says so, in which case it will not be applied. `Aged`: nothing is newer than
  what the scheduler has seen. These give `NewestAlwaysWins` (`NewestWins`, an
  action property) and `StaleNeverAppliesHolds` (`StaleNeverApplies`).
* `Survival`: what was taken is in *every* image of the library or in *every*
  image of the draft; what the held library lacks is under review or being
  committed; and a draft is removed only when the held library keeps its text.
  This is `EditsSurvive` (`EditSurvives`).
* `Faultless`: without failed operations the worker's list of drafts is the
  disk's: `ReviewMatchesDiskHolds`, `LockedHasNoDraftHolds`.
* `EditsTypeCorrect`: `EditsTypeOK`.

**Trash.** From `TrashAssumption` (there is a name and a
receipt; the bounds are naturals) and `NothingIsAFile`
(an absent file differs from an item, a metadata file, a record and a receipt),
in `FinderTrashProofs`, by `TrashInv`. The properties speak of what is on the
disk and of what survives a power loss; a step relies on more, namely that the
record its call works on is the one on the disk and of the kind it expects
(`OnRecord`), what the call was asked for (`OnCall`) and what its checks have
found of the files (`OnFiles`), each only as far as no other program touched the
name. The disk and the medium are each `Consistent`: a record validates and its
deletion was confirmed (`Journaled`), a staged item has its record and its
metadata (`Owned`), and so has every listed item (`Listed`). Every step of a
call decides, commits or persists a record, and one lemma for each (`DecideSafe`,
`CommitSafe`, `PersistSafe`) reduces it to the disk it leaves; every action,
those of other programs and the power loss included, has a lemma on top. Hence:

* `TrashTypeCorrect` (`TrashTypeOK`), `StageAlwaysOwned` (`StageIsOwned`) and
  `ItemsAlwaysHaveInfo` (`ItemHasInfo`).
* `NothingIsLost` (`NothingLost`, an action property): each of the changes a call
  makes renames an item or leaves the items alone, except for the two that
  erase, and these only touch an item whose deletion was confirmed (`Kept`).

**Lock screen process.** From `ProviderAssumption` (a queue of at least one; the
other bounds are naturals), in `LockProviderProofs`, by `ProviderInv`:

* `ImplementsLock`: `ProviderSpec => ImplementsSecureLock`, the whole
  refinement: Init maps to the initial states of `SecureLock`, and every step of
  the process to a step of it or a stutter. (`SecureLock` states safety only.)
* The coordinator's operators have a lemma each on what they keep (`Sound`) and
  what they ask of the process (started, answered, withdrawn, stopped). An
  attempt runs exactly in phase Authenticating and never while another drains
  (`Attempting`); what is queued or typed belongs to the present answer
  (`Typing`); the pump's worker is the coordinator's attempt (`Pumping`); the
  wire and the loop follow the provider's phase (`Wired`, `Looping`).
* `ReplayKeeps` is about `replay_queued_inputs`. The code is a loop over the
  queue; `Replay` gives its result in closed form, up to the first key that ends
  the prompt, since a fold over the queue would need induction over data. TLC
  evaluates that both agree on every queue of the instance (`ReplayIsTheLoop` in
  `MCLockProvider`).
* From it: `ProviderTypeCorrect`, `PamAlone` (`AuthorityFromPam`),
  `AnswersStayApart` (`TypedForThisAnswer`), `NeverItsOwnError`
  (`NoErrorOfItsOwn`).

**Lock session.** From `SessionAssumption` (bounds are naturals, the start limit
at least one), in `LockSessionProofs`:

* `SessionTypeCorrect`: `SessionSpec => []SessionTypeOK`, by `SessionType`, its
  strengthening with the whole types of the records.
* `RequestsLock` (`RequestLocks`, an action property). `LockType` is needed:
  the provider and the fallback never hold the session both, and what the
  provider holds is locked until its own attempt has passed. A start job
  succeeds only on a unit that is ready, whose locker therefore holds.
* `AlwaysGuarded`: `SessionSpec => []AwakeIsGuarded`. The property speaks of an
  empty queue of sleep signals; the invariant `GuardType` speaks of the *last*
  one: if it announces a sleep the machine is not awake (`LastSignal`), and
  without its inhibitor, or about to give it up, the coordinator has a wake
  ahead (`Released`). Handling the head of a queue keeps its last element
  (`TailLast`), so every branch of the loop preserves both.

**Safe mode.** From `SafeModeAssumption`, in `SafeModeProofs`, by `SafeModeInv`:
every failure has a number, and an observer records one that is newer than all
others of its unit (`Numbered`); no marker that a login reads or will read was
served before (`Once`) or cleared (`Cleared`), except for those the ghost record
names as brought back or not moved. Hence `SafeModeTypeCorrect`,
`OneSafeLoginHolds` and `ClearedStaysClearedHolds` (an action property).

**Only model-checked.** The liveness properties (`PendingResolves`,
`StartsWritable`, `EditSettles`, `RecordsDrain`, `TypingRestartsAuthentication`,
`LockedHasALocker`, `RequestEndsLocked`, `FailureIsAnswered`), because fairness
and `ENABLED` are out of the prover's reach; and the agreement of `Replay` with
its loop, which needs induction over sequences. Every other property of a
passing run is stated by a theorem.

## Not modelled

* *Notes:* the transactions on note records (a pure data model), image decoding
  and bundle parsing, export and previews, search, the cryptography of locked
  notes, removing a lock and changing passwords, import reviews, the Review
  phase; malformed and excessive drafts; the editor's own buffer; permission and
  no-follow checks; Windows. Other processes do not write to the library: the
  writer lease is assumed.
* *Files:* the transfer journal; receipts of copy, move, rename and replacement
  and their batches; external volumes; a parent folder replaced by another; the
  identity of the record's own file in a review.
* *Lock:* outputs and frames, Caps Lock, focus, accessibility, a full password
  field; the idle timer and its policy, the shutdown dialog, the power key
  inhibitor. A sleep forced by `InhibitDelayMaxSec` is modelled, but nothing
  promises a lock before it.
* *Session:* health snapshots, the monitor, diagnostics, toolkit settings, the
  contents of the archived marker.
* Mail, calendar, the compositor adapter, and some two thirds of the code that
  are views and layout. See `components` in `PROJECT.json` for every part and
  its reason.

## Plan

1. The worker's remaining commands in `NotesEdits`: import reviews bound to a
   base revision, removing a lock, the Review phase of a migration; its abstract
   library replaced by `AcceptedNotes`, whose `Ask`, `Commit` and `Show` are what
   `CommitTransaction` and `Return` assume of the store.
2. `WriterLease` and `Migration`: the exclusive writer and the reviewed,
   once-only adoption of a legacy library.
3. `FinderTransfer`: the operation journal of copies, moves and replacements,
   on the files of `FinderTrash`.
