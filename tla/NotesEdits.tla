----------------------------- MODULE NotesEdits -----------------------------
(***************************************************************************)
(* The way of an edit from the editor into the library: the debouncing     *)
(* EditScheduler (scheduler.rs), the recovery drafts (drafts.rs) and the   *)
(* phases and commands of the repository worker (worker.rs,                *)
(* worker/lock_ops.rs) that move an edit from one to the other.            *)
(*                                                                         *)
(* The library itself is the subject of NotesStore.  Here it is one file   *)
(* of its own directory, replaced by a verified atomic write: a commit     *)
(* succeeds, or fails with or without the candidate on disk, and a load    *)
(* settles what it finds.  Drafts lie in a directory of their own, so that *)
(* nothing a commit syncs makes the removal of a draft durable.            *)
(*                                                                         *)
(* A text is the number of the edit that typed it (0: the installed text), *)
(* which is also that edit's generation.  Restoring a draft sends its text *)
(* again under a new generation.                                           *)
(***************************************************************************)
EXTENDS Naturals, FiniteSets, RmacStorage

CONSTANTS
    Notes,              \* the notes of the library
    Nothing,            \* no edit, no transaction, no note
    Acts,               \* the other transactions users ask for
    MaxEdits,           \* bounds: edits sent,
    MaxActs,            \*   other transactions,
    MaxCopies,          \*   drafts kept as new notes,
    MaxFaults,          \*   file operations that fail,
    MaxKills,           \*   killed processes,
    MaxPowerLosses,     \*   power losses,
    MaxEnds,            \*   killed processes and power losses together,
    MaxDiscards         \*   discarded candidates

ASSUME EditBounds ==
    /\ {MaxEdits, MaxActs, MaxCopies, MaxFaults} \subseteq Nat
    /\ {MaxKills, MaxPowerLosses, MaxEnds, MaxDiscards} \subseteq Nat
    /\ Acts \subseteq {"touch", "trash", "lock"}
    /\ IsFiniteSet(Notes) /\ Nothing \notin Notes

VARIABLES
    root,           \* the library's directory
    drafts,         \* the drafts' directory, one file per note
    phase,          \* Phase: "stopped", "ready" or "pending"
    call,           \* the command being processed
    held,           \* AcceptedLibrary: the accepted snapshot
    pending,        \* PendingState: the retained transaction
    scheduled,      \* EditScheduler.pending
    highest,        \* EditScheduler.highest_generation
    recoverable,    \* ReadyState.recoverable_drafts
    open,           \* NotesKeyring: the key of the locked notes is at hand
    shown,          \* the phase the window has seen last
    review,         \* the notes whose drafts the window asks about
    sent,           \* generations the window has used up
    taken,          \* per note, the newest text in a draft or accepted
    spent           \* failures and choices so far

disk == <<root, drafts>>
worker == <<phase, call, held, pending, scheduled, highest, recoverable, open>>
window == <<shown, review, sent>>
vars == <<root, drafts, phase, call, held, pending, scheduled, highest,
          recoverable, open, shown, review, sent, taken, spent>>

-----------------------------------------------------------------------------
(* Records *)

Texts == 0 .. MaxEdits
Generations == 1 .. MaxEdits

\* NoteRecord, as far as edits tell notes apart.
NoteRecords == [rev : Nat, text : Texts, deleted : BOOLEAN, locked : BOOLEAN]

\* LibrarySnapshot; copies: the texts preserved as notes of their own.
Snapshots == [rev : Nat, notes : [Notes -> NoteRecords], copies : SUBSET Texts]

\* DraftRecord.
DraftRecords == [base : Nat, gen : Generations, text : Texts]

\* ScheduledEdit.
Edits == [note : Notes, gen : Generations, text : Texts, expected : Nat]

\* A transaction and its RequestContext: note and text of an edit, for its
\* draft and for a conflict, and whether the draft was persisted.
Transactions ==
    [candidate : Snapshots, note : Notes \cup {Nothing}, text : Texts, persisted : BOOLEAN]

\* What a command does once the scheduled edit has been flushed: an action has
\* its note and the revision of it the window has seen, or the text to keep.
Continuations ==
    [do : {"loop", "stop", "close", "touch", "trash", "lock", "copy"},
     note : Notes \cup {Nothing}, expected : Nat, text : Texts]

Then(do) == [do |-> do, note |-> Nothing, expected |-> 0, text |-> 0]
Loop == Then("loop")

\* Where the worker stands in a command.
Calls ==
    [at : {"idle", "commit_edit", "commit", "cleanup", "return"},
     edit : Edits \cup {Nothing}, tx : Transactions \cup {Nothing},
     then : Continuations, result : {"ready", "pending", "rejected"}]

ASSUME NothingIsNone ==
    /\ Nothing \notin Edits /\ Nothing \notin Transactions
    /\ Nothing \notin [tx : Transactions, changed : BOOLEAN]
    /\ NoFile \notin DraftRecords

Idle == [at |-> "idle", edit |-> Nothing, tx |-> Nothing, then |-> Loop, result |-> "ready"]

\* The call has come to its result.
Returns(c, r) == [c EXCEPT !.at = "return", !.edit = Nothing, !.tx = Nothing, !.result = r]

\* The call goes on to commit tx.
Commits(c, tx) == [c EXCEPT !.at = "commit", !.edit = Nothing, !.tx = tx]

\* Spending x units of a budget.
Spend(what, x) ==
    /\ spent[what] + x <= CASE what = "faults" -> MaxFaults
                            [] what = "kills" -> MaxKills
                            [] what = "losses" -> MaxPowerLosses
                            [] what = "discards" -> MaxDiscards
                            [] what = "acts" -> MaxActs
                            [] what = "copies" -> MaxCopies
    /\ spent' = [spent EXCEPT ![what] = @ + x]

\* A file operation that fails is one fault.
Faulty(ok) == Spend("faults", IF ok THEN 0 ELSE 1)

-----------------------------------------------------------------------------
(* Transactions on the held snapshot *)

\* LibraryTransaction::begin with one note replaced.
Changed(lib, n, note) ==
    [lib EXCEPT !.rev = @ + 1, !.notes[n] = [note EXCEPT !.rev = @ + 1]]

\* edit_note and edit_locked_note.
Edited(lib, n, t) == Changed(lib, n, [lib.notes[n] EXCEPT !.text = t])

\* create_note with the text of a conflicting edit or draft.
Preserved(lib, t) == [lib EXCEPT !.rev = @ + 1, !.copies = @ \cup {t}]

\* set_note_pinned and move_note ("touch"), trash_note, lock_note, and the
\* create_note that keeps a recovered draft ("copy").
Acted(lib, c) ==
    LET note == lib.notes[c.note] IN
    CASE c.do = "touch" -> Changed(lib, c.note, note)
      [] c.do = "trash" -> Changed(lib, c.note, [note EXCEPT !.deleted = TRUE])
      [] c.do = "lock" -> Changed(lib, c.note, [note EXCEPT !.locked = TRUE])
      [] c.do = "copy" -> Preserved(lib, c.text)

\* note_mut and prepare_lock: the note is as the window has seen it, which it is
\* not once its own scheduled edit has been flushed first.
Allowed(lib, c) ==
    c.do # "copy" =>
      /\ lib.notes[c.note].rev = c.expected
      /\ ~lib.notes[c.note].deleted
      /\ c.do = "lock" => ~lib.notes[c.note].locked

BugApplicable(draft, note) == ~note.deleted
\* DraftRecoveryKind of a draft that startup has not pruned.
Applicable(draft, note) == ~note.deleted /\ note.rev = draft.base

BugPruneOlder(draft, note) == note.locked \/ note.text = draft.text \/ draft.base < note.rev
BugPruneUnlocked(draft, note) == note.text = draft.text
\* ReadyState::new prunes the draft of a locked note, and one identical to
\* its note.
Prunable(draft, note) == note.locked \/ note.text = draft.text

-----------------------------------------------------------------------------
BugForgotten ==
    /\ phase' = "stopped" /\ call' = Idle /\ pending' = pending
    /\ scheduled' = Nothing /\ highest' = 0 /\ open' = FALSE
    /\ recoverable' = [n \in Notes |-> NoFile]
    /\ shown' = "ready" /\ review' = {}

\* The process has ended: what the worker and the window knew is gone.
Forgotten ==
    /\ phase' = "stopped" /\ call' = Idle /\ pending' = Nothing
    /\ scheduled' = Nothing /\ highest' = 0 /\ open' = FALSE
    /\ recoverable' = [n \in Notes |-> NoFile]
    /\ shown' = "ready" /\ review' = {}

(***************************************************************************)
(* run_worker, enter_ready: the library is loaded and settled, the drafts  *)
(* discovered; those that are pruned may resist removal (K), the others    *)
(* are offered for review, which blocks ordinary editing.                  *)
(***************************************************************************)
Start ==
    /\ phase = "stopped"
    /\ LET lib == root["library"].now
           found == {n \in Notes : drafts[n].now # NoFile}
           prunable == {n \in found : Prunable(drafts[n].now, lib.notes[n])}
       IN \E K \in SUBSET prunable :
            /\ Spend("faults", Cardinality(K))
            /\ drafts' = [n \in Notes |-> IF n \in prunable \ K
                                          THEN Put(drafts, n, NoFile)[n] ELSE drafts[n]]
            /\ recoverable' = [n \in Notes |-> IF n \in found \ prunable
                                               THEN drafts[n].now ELSE NoFile]
            /\ review' = found \ prunable
            /\ held' = lib
    /\ root' = Sync(root)
    /\ phase' = "ready" /\ shown' = "ready"
    \* Generations not delivered by now died with the old window.
    /\ sent' = {g \in Generations : \E h \in sent : g <= h}
    /\ UNCHANGED <<call, pending, scheduled, highest, open, taken>>

-----------------------------------------------------------------------------
(* The scheduler *)

\* The scheduled edit, if any, is flushed first; c continues afterwards.
FlushThen(c) ==
    /\ phase = "ready" /\ call = Idle
    /\ call' = [Idle EXCEPT !.at = IF scheduled = Nothing THEN "return" ELSE "commit_edit",
                            !.edit = scheduled, !.then = c]
    /\ scheduled' = Nothing
    /\ UNCHANGED <<root, drafts, phase, held, pending, highest, recoverable, open>>

\* EditScheduler::schedule accepts strictly increasing generations only.
BugFresh(edit) == TRUE
Fresh(edit) == edit.gen > highest

\* EditScheduler::schedule in the Ready phase: a stale generation is refused, an
\* edit of the same note replaced, an edit of another note committed at once.
\* In the Pending phase the edit is rejected.
ScheduleEdit(edit) ==
    /\ call = Idle /\ phase # "stopped"
    /\ edit.gen \notin sent
    /\ sent' = sent \cup {edit.gen}
    /\ IF phase = "ready" /\ Fresh(edit)
       THEN /\ highest' = edit.gen
            /\ scheduled' = edit
            /\ call' = IF scheduled # Nothing /\ scheduled.note # edit.note
                       THEN [Idle EXCEPT !.at = "commit_edit", !.edit = scheduled]
                       ELSE Idle
       ELSE UNCHANGED <<highest, scheduled, call>>
    /\ UNCHANGED <<root, drafts, phase, held, pending, recoverable, open, shown, review, taken, spent>>

\* schedule_note_edit: typing into a note, unless the window knows better.
Type(n, g) ==
    /\ shown = "ready" /\ review = {}
    /\ ScheduleEdit([note |-> n, gen |-> g, text |-> g, expected |-> held.notes[n].rev])

\* RestoreDraft and commit_restored_draft: an applicable draft is scheduled
\* again.
RestoreDraft(n, g) ==
    /\ shown = "ready" /\ n \in review
    /\ recoverable[n] # NoFile /\ Applicable(recoverable[n], held.notes[n])
    /\ ScheduleEdit([note |-> n, gen |-> g, text |-> recoverable[n].text,
                     expected |-> recoverable[n].base])

BugDue ==
    /\ scheduled # Nothing /\ review = {}
    /\ FlushThen(Loop)
    /\ UNCHANGED <<window, taken, spent>>

\* process_due: the deadline has passed; only the Ready phase has a timer.  The
\* Flush command does the same at once.
Due ==
    /\ scheduled # Nothing
    /\ FlushThen(Loop)
    /\ UNCHANGED <<window, taken, spent>>

\* Apply: any other transaction.  The window sees the accepted library; an older
\* view only adds refusals.
Apply(act, n) ==
    /\ shown = "ready" /\ review = {}
    /\ Spend("acts", 1)
    /\ FlushThen([Then(act) EXCEPT !.note = n, !.expected = held.notes[n].rev])
    /\ UNCHANGED <<window, taken>>

\* preserve_recovered_copy: the draft of a note that has changed since, or is
\* gone, is kept as a new note; the window discards it afterwards.
PreserveCopy(n) ==
    /\ shown = "ready" /\ n \in review /\ recoverable[n] # NoFile
    /\ ~Applicable(recoverable[n], held.notes[n])
    /\ Spend("copies", 1)
    /\ FlushThen([Then("copy") EXCEPT !.text = recoverable[n].text])
    /\ UNCHANGED <<window, taken>>

\* CloseLockedNotes; the Pending phase closes the keyring and flushes nothing.
CloseLockedNotes ==
    /\ open
    /\ \/ FlushThen(Then("close"))
       \/ /\ phase = "pending" /\ call = Idle
          /\ open' = FALSE
          /\ UNCHANGED <<disk, phase, call, held, pending, scheduled, highest, recoverable>>
    /\ UNCHANGED <<window, taken, spent>>

\* UnlockNotes with the right password.
UnlockNotes ==
    /\ phase = "ready" /\ call = Idle
    /\ ~open /\ \E n \in Notes : held.notes[n].locked
    /\ open' = TRUE
    /\ UNCHANGED <<disk, phase, call, held, pending, scheduled, highest, recoverable, window, taken, spent>>

\* continue_close: the window closes unless it shows a pending change.
Shutdown ==
    /\ shown # "pending"
    /\ \/ /\ FlushThen(Then("stop"))
          /\ UNCHANGED window
       \/ /\ phase = "pending" /\ call = Idle
          /\ Forgotten
          /\ UNCHANGED <<disk, held, sent>>
    /\ UNCHANGED <<taken, spent>>

-----------------------------------------------------------------------------
(* Committing an edit *)

\* commit_edit refuses an edit from the future, of a deleted note, and of a
\* locked note whose key is closed.
Refused(edit, note) ==
    edit.expected > note.rev \/ note.deleted \/ (note.locked /\ ~open)

\* commit_edit, commit_locked_edit.  The draft is written before the commit; an
\* error is noted and does not stop it.  An edit that changes nothing is
\* rejected: by finish, after the draft was written, and before anything is
\* written when the note is locked.
CommitEdit ==
    /\ call.at = "commit_edit"
    /\ LET edit == call.edit
           n == edit.note
           note == held.notes[n]
           draft == [base |-> note.rev, gen |-> edit.gen, text |-> edit.text]
           Go(done) ==
             IF edit.text = note.text THEN Returns(call, "rejected")
             ELSE Commits(call, [candidate |-> Edited(held, n, edit.text),
                                 note |-> IF note.locked THEN Nothing ELSE n,
                                 text |-> edit.text, persisted |-> done])
       IN \/ /\ Refused(edit, note)
             /\ call' = Returns(call, "rejected")
             /\ UNCHANGED <<drafts, recoverable, taken, spent>>
          \/ /\ ~Refused(edit, note) /\ note.locked
             /\ call' = Go(FALSE)
             /\ UNCHANGED <<drafts, recoverable, taken, spent>>
          \/ /\ ~Refused(edit, note) /\ ~note.locked
             /\ \E r \in WriteVerified(drafts, n, draft) :
                  /\ Faulty(r.ok)
                  /\ drafts' = r.dir
                  /\ recoverable' = IF r.ok THEN [recoverable EXCEPT ![n] = draft] ELSE recoverable
                  /\ taken' = IF r.ok /\ edit.text # note.text
                              THEN [taken EXCEPT ![n] = edit.text] ELSE taken
                  /\ call' = Go(r.ok)
    /\ UNCHANGED <<root, phase, held, pending, scheduled, highest, open, window>>

\* The transaction tx is accepted: cleanup_draft follows.
Accepted(tx) ==
    /\ held' = tx.candidate
    /\ call' = [call EXCEPT !.at = "cleanup", !.tx = tx]
    /\ taken' = [n \in Notes |-> IF n = tx.note THEN tx.text ELSE taken[n]]

\* save_locked refuses a candidate that does not follow the held snapshot, and
\* a library on disk that is not the held one.
Unsavable(candidate) ==
    candidate.rev # held.rev + 1 \/ root["library"].now # held

\* A save of the library: refused, done, or failed at some point of it.
SaveResults(candidate) ==
    IF ~Unsavable(candidate)
    THEN WriteVerified(root, "library", candidate)
    ELSE {Result(FALSE, root)}

\* commit_transaction.
CommitTransaction ==
    /\ call.at = "commit"
    /\ \E r \in SaveResults(call.tx.candidate) :
         /\ Faulty(r.ok \/ Unsavable(call.tx.candidate))
         /\ root' = r.dir
         /\ IF r.ok
            THEN Accepted(call.tx) /\ pending' = pending
            ELSE /\ pending' = [tx |-> call.tx, changed |-> FALSE]
                 /\ call' = Returns(call, "pending")
                 /\ UNCHANGED <<held, taken>>
    /\ UNCHANGED <<drafts, phase, scheduled, highest, recoverable, open, window>>

BugCleanupDraft ==
    /\ call.at = "cleanup"
    /\ LET n == call.tx.note IN
       IF n = Nothing \/ ~call.tx.persisted
       THEN UNCHANGED <<drafts, spent>>
       ELSE \E r \in RemoveFile(drafts, n) : Faulty(r.ok) /\ drafts' = r.dir
    /\ call' = Returns(call, "ready")
    /\ UNCHANGED <<root, phase, held, pending, scheduled, highest, open, recoverable, window, taken>>

\* cleanup_draft: only a draft known to be persisted is removed, and a draft
\* that resists stays recoverable.
CleanupDraft ==
    /\ call.at = "cleanup"
    /\ LET n == call.tx.note IN
       IF n = Nothing \/ ~call.tx.persisted
       THEN UNCHANGED <<drafts, recoverable, review, spent>>
       ELSE \E r \in RemoveFile(drafts, n) :
              /\ Faulty(r.ok)
              /\ drafts' = r.dir
              /\ IF r.ok
                 THEN /\ recoverable' = [recoverable EXCEPT ![n] = NoFile]
                      /\ review' = review \ {n}
                 ELSE UNCHANGED <<recoverable, review>>
    /\ call' = Returns(call, "ready")
    /\ UNCHANGED <<root, phase, held, pending, scheduled, highest, open, shown, sent, taken>>

\* The flush or the commit is over and the command goes on: back to the loop,
\* closing the keyring, stopping, or the transaction it was for, which a
\* pending or rejected edit prevents.  lock_note removes the note's draft
\* first and ignores a failure.
Return ==
    /\ call.at = "return"
    /\ LET do == call.then.do
           n == call.then.note
           acts == do \in Acts \cup {"copy"} /\ call.result = "ready" /\ Allowed(held, call.then)
       IN \/ /\ do = "stop"
             /\ Forgotten
             /\ UNCHANGED <<drafts, sent, spent>>
          \/ /\ do # "stop" /\ ~acts
             /\ phase' = IF call.result = "pending" THEN "pending" ELSE "ready"
             /\ open' = (open /\ do # "close")
             /\ call' = Idle
             /\ UNCHANGED <<drafts, recoverable, pending, scheduled, highest, window, spent>>
          \/ /\ acts
             /\ call' = [Commits(call, [candidate |-> Acted(held, call.then), note |-> Nothing,
                                        text |-> 0, persisted |-> FALSE]) EXCEPT !.then = Loop]
             /\ \/ /\ do # "lock"
                   /\ UNCHANGED <<drafts, recoverable, open, spent>>
                \/ /\ do = "lock"
                   /\ open' = TRUE
                   /\ \E r \in RemoveFile(drafts, n) :
                        /\ Faulty(r.ok)
                        /\ drafts' = r.dir
                        /\ recoverable' = IF r.ok THEN [recoverable EXCEPT ![n] = NoFile]
                                          ELSE recoverable
             /\ UNCHANGED <<phase, pending, scheduled, highest, window>>
    /\ UNCHANGED <<root, held, taken>>

-----------------------------------------------------------------------------
(* The Pending phase *)

\* AcceptedLibrary::retry: the reload settles the directory; a candidate found
\* on disk is adopted, another library than the held one is a conflict.
RetryPending ==
    /\ phase = "pending" /\ call = Idle
    /\ LET tx == pending.tx
           lib == root["library"].now
       IN \/ /\ Faulty(FALSE)        \* the reload fails: a store failure again
             /\ pending' = [pending EXCEPT !.changed = FALSE]
             /\ UNCHANGED <<root, held, call, taken>>
          \/ /\ lib = tx.candidate
             /\ root' = Sync(root)
             /\ pending' = Nothing
             /\ Accepted(tx)
             /\ spent' = spent
          \/ /\ lib \notin {tx.candidate, held}
             /\ root' = Sync(root)
             /\ held' = lib
             /\ pending' = [pending EXCEPT !.changed = TRUE]
             /\ UNCHANGED <<call, taken, spent>>
          \/ /\ lib = held /\ lib # tx.candidate
             /\ root' = Sync(root)
             /\ pending' = Nothing
             /\ call' = Commits(Idle, tx)
             /\ UNCHANGED <<held, taken, spent>>
    /\ UNCHANGED <<drafts, phase, scheduled, highest, recoverable, open, window>>

\* discard_pending_state: the draft goes first, if it was persisted; only then
\* the candidate.  The held library is not reloaded.
Discard ==
    LET n == pending.tx.note
        gone == [n2 \in Notes |-> IF n2 = n THEN held.notes[n].text ELSE taken[n2]]
        Drop == /\ phase' = "ready" /\ pending' = Nothing /\ taken' = gone
    IN IF pending.tx.persisted
       THEN \E r \in RemoveFile(drafts, n) :
              /\ drafts' = r.dir
              /\ IF r.ok
                 THEN /\ Spend("discards", 1) /\ Drop
                      /\ recoverable' = [recoverable EXCEPT ![n] = NoFile]
                      /\ review' = review \ {n}
                 ELSE Faulty(FALSE) /\ UNCHANGED <<phase, pending, taken, recoverable, review>>
       ELSE Spend("discards", 1) /\ Drop /\ UNCHANGED <<drafts, recoverable, review>>

DiscardPending ==
    /\ phase = "pending" /\ call = Idle /\ shown = "pending"
    /\ Discard
    /\ UNCHANGED <<root, call, held, scheduled, highest, open, shown, sent>>

\* resolve_pending_conflict: the local text becomes a note of its own, or
\* replaces the durable one; a durable note with the same text needs neither.
ResolvePendingConflict ==
    /\ phase = "pending" /\ call = Idle /\ shown = "pending"
    /\ pending.changed /\ pending.tx.note # Nothing
    /\ LET tx == pending.tx
           note == held.notes[tx.note]
           Recommit(lib) ==
             /\ pending' = Nothing
             /\ call' = Commits(Idle, [tx EXCEPT !.candidate = lib])
             /\ UNCHANGED <<drafts, phase, recoverable, review, taken, spent>>
       IN \/ Recommit(Preserved(held, tx.text))
          \/ /\ ~note.deleted /\ ~note.locked /\ note.text # tx.text
             /\ Recommit(Edited(held, tx.note, tx.text))
          \/ /\ ~note.deleted /\ ~note.locked /\ note.text = tx.text
             /\ Discard /\ call' = Idle
    /\ UNCHANGED <<root, held, scheduled, highest, open, shown, sent>>

-----------------------------------------------------------------------------
(* The review of drafts, and the world around the worker *)

\* DiscardDraft, by the user's decision or after preserve_recovered_copy: then
\* the copy stands for the draft.
DiscardDraft(n) ==
    /\ phase = "ready" /\ call = Idle /\ n \in review /\ recoverable[n] # NoFile
    /\ \E r \in RemoveFile(drafts, n) :
         /\ Faulty(r.ok)
         /\ drafts' = r.dir
         /\ IF r.ok
            THEN /\ recoverable' = [recoverable EXCEPT ![n] = NoFile]
                 /\ review' = review \ {n}
                 /\ taken' = IF recoverable[n].text \in held.copies THEN taken
                             ELSE [taken EXCEPT ![n] = held.notes[n].text]
            ELSE UNCHANGED <<recoverable, review, taken>>
    /\ UNCHANGED <<root, phase, call, held, pending, scheduled, highest, open, shown, sent>>

\* The window takes the worker's last event from the queue.
See ==
    /\ call = Idle /\ phase # "stopped" /\ shown # phase
    /\ shown' = phase
    /\ UNCHANGED <<disk, worker, review, sent, taken, spent>>

\* What the operation in progress may have left on disk.
Midway ==
    {<<root, drafts>>}
    \cup IF call.at = "commit"
         THEN {<<r.dir, drafts>> : r \in SaveResults(call.tx.candidate)} ELSE {}
    \cup IF call.at = "commit_edit" /\ ~held.notes[call.edit.note].locked
         THEN {<<root, r.dir>> :
                 r \in WriteVerified(drafts, call.edit.note,
                         [base |-> held.notes[call.edit.note].rev,
                          gen |-> call.edit.gen, text |-> call.edit.text])}
         ELSE {}

\* Kills and power losses are bounded together, too.
MayEnd == spent["kills"] + spent["losses"] < MaxEnds

Kill ==
    /\ phase # "stopped" /\ MayEnd /\ Spend("kills", 1)
    /\ \E d \in Midway : root' = d[1] /\ drafts' = d[2]
    /\ Forgotten
    /\ UNCHANGED <<held, sent, taken>>

PowerLoss ==
    /\ MayEnd /\ Spend("losses", 1)
    /\ \E d \in Midway : root' \in AfterPowerLoss(d[1]) /\ drafts' \in AfterPowerLoss(d[2])
    /\ Forgotten
    /\ UNCHANGED <<held, sent, taken>>

-----------------------------------------------------------------------------
Installed ==
    [rev |-> 1, copies |-> {},
     notes |-> [n \in Notes |-> [rev |-> 1, text |-> 0, deleted |-> FALSE, locked |-> FALSE]]]

Init ==
    /\ root = [p \in {"library"} |-> OnDisk(Installed)]
    /\ drafts = [n \in Notes |-> OnDisk(NoFile)]
    /\ phase = "stopped" /\ call = Idle /\ pending = Nothing
    /\ held = Installed
    /\ scheduled = Nothing /\ highest = 0
    /\ recoverable = [n \in Notes |-> NoFile] /\ open = FALSE
    /\ shown = "ready" /\ review = {} /\ sent = {}
    /\ taken = [n \in Notes |-> 0]
    /\ spent = [w \in {"faults", "kills", "losses", "discards", "acts", "copies"} |-> 0]

\* The steps the worker takes on its own.
Step == CommitEdit \/ CommitTransaction \/ CleanupDraft \/ Return

Next ==
    \/ Start \/ Due \/ Step
    \/ \E n \in Notes, g \in Generations : Type(n, g) \/ RestoreDraft(n, g)
    \/ \E n \in Notes, act \in Acts : Apply(act, n)
    \/ CloseLockedNotes \/ UnlockNotes \/ Shutdown
    \/ RetryPending \/ DiscardPending \/ ResolvePendingConflict
    \/ \E n \in Notes : PreserveCopy(n) \/ DiscardDraft(n)
    \/ See \/ Kill \/ PowerLoss

Spec == Init /\ [][Next]_vars

\* A command that was begun is finished, and the timer of the Ready phase
\* fires.
LiveSpec == Spec /\ WF_vars(Step) /\ WF_vars(Due)

-----------------------------------------------------------------------------
(* Properties *)

\* The contents a file has or may have after a power loss.
Images(file) == file.may \cup {file.now}

\* Every variable has its type; a transaction is retained in the Pending phase
\* and in no other, and a command holds what its step works on.
EditsTypeOK ==
    /\ IsDirectory(root, [p \in {"library"} |-> Snapshots])
    /\ IsDirectory(drafts, [n \in Notes |-> DraftRecords \cup {NoFile}])
    /\ phase \in {"stopped", "ready", "pending"} /\ call \in Calls
    /\ held \in Snapshots
    /\ pending \in [tx : Transactions, changed : BOOLEAN] \cup {Nothing}
    /\ scheduled \in Edits \cup {Nothing} /\ highest \in 0 .. MaxEdits
    /\ recoverable \in [Notes -> DraftRecords \cup {NoFile}] /\ open \in BOOLEAN
    /\ shown \in {"ready", "pending"} /\ review \subseteq Notes /\ sent \subseteq Generations
    /\ taken \in [Notes -> Texts]
    /\ call = Idle => (phase = "pending") = (pending # Nothing)
    /\ (call.at = "commit_edit") = (call.edit # Nothing)
    /\ (call.at \in {"commit", "cleanup"}) = (call.tx # Nothing)

\* Once commit_edit has persisted a draft, or a commit was accepted, the text
\* or a newer one of the note survives: in the library or in a draft, in every
\* state a power loss may leave, until the user discards it.  (Not so when a
\* lock that was discarded is still on disk: the next start prunes the drafts of
\* the note.)
EditSurvives ==
    \A n \in Notes :
      \A lib \in Images(root["library"]), draft \in Images(drafts[n]) :
        \/ lib.notes[n].locked /\ spent["discards"] > 0
        \/ lib.notes[n].text >= taken[n]
        \/ taken[n] \in lib.copies
        \/ draft # NoFile /\ draft.text >= taken[n]

\* A draft that startup may find, even one whose removal a power loss undid, is
\* offered as directly applicable only when it is newer than the note.
StaleNeverApplies ==
    \A n \in Notes :
      \A lib \in Images(root["library"]), draft \in Images(drafts[n]) \ {NoFile} :
        LET note == lib.notes[n] IN
        ~Prunable(draft, note) /\ Applicable(draft, note) => draft.text > note.text

\* As long as no file operation fails, a locked note has no plaintext draft
\* once the worker is ready, although a power loss may bring one back.
LockedHasNoDraft ==
    phase = "ready" /\ call = Idle /\ spent["faults"] = 0 =>
      \A n \in Notes : held.notes[n].locked => drafts[n].now = NoFile

\* As long as no file operation fails, the drafts the worker would restore or
\* discard are the ones on disk.
ReviewMatchesDisk ==
    phase # "stopped" /\ call = Idle /\ spent["faults"] = 0 =>
      \A n \in Notes : recoverable[n] # NoFile => drafts[n].now = recoverable[n]

\* Short of a power loss the library never returns to an older text of a note,
\* whatever order edits arrive in and whatever drafts are restored.
NewestWins ==
    [][spent'["losses"] = spent["losses"] =>
         \A n \in Notes :
           root'["library"].now.notes[n].text >= root["library"].now.notes[n].text]_vars

\* A scheduled edit is committed, rejected or retained as pending: the timer is
\* armed in every Ready phase, however it was entered.
EditSettles == scheduled # Nothing ~> scheduled = Nothing \/ phase = "pending"

-----------------------------------------------------------------------------
(* What the documents say and the code does not keep *)

\* SPEC.md of the notes crate: "an accepted shutdown flushes the complete
\* scheduled edit before the storage worker stops."
ShutdownFlushes == [][Shutdown /\ phase' = "stopped" => scheduled = Nothing]_vars

=============================================================================
